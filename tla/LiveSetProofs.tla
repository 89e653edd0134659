--------------------------- MODULE LiveSetProofs ---------------------------
(***************************************************************************)
(* Proofs about LiveSet, for any number of changes of the cluster and any  *)
(* number of failed lists and watches.                                     *)
(***************************************************************************)
EXTENDS LiveSet, TLAPS

USE LiveBounds

\* The store follows the cluster, and events in flight are at most the versions stored.
QueueBounded == queue <= store /\ store <= source

\* What the informer and the run goroutine have done when they end; a failure has a cause.
ShutdownInv ==
    /\ informerDone => /\ ctxDone
                       /\ handler = "idle"
                       /\ queue = 0
                       /\ reflector \notin {"failed", "notify"}
    /\ closed <=> run = "closed"
    /\ closed => informerDone
    /\ seen.kind = "closed" => closed
    /\ ~owned => ctxDone
    /\ pull = "none" => ~owned
    /\ reflector = "failed" => failure # "nil"

\* What the screen shows once it has handled the snapshot it is reading.
NoticeToBe == IF pull \in {"half", "posted"} THEN seen.err ELSE notice
ShownToBe  == IF pull = "posted" /\ seen.err = "nil" /\ seen.kind = "ready" THEN seen.version ELSE shown

\* A running set owes its screen nothing that is not under way: an error differs from the
\* notice, or the store from what is shown, only while somebody is about to announce it.
WakeInv ==
    ~ctxDone =>
      /\ run \in {"synced", "notify", "waiting"} => hasSynced
      /\ run \in {"notify", "waiting"} => ready
      /\ \/ token \/ pull = "woken"
         \/ "notify" \in {handler, reflector, run}
         \/ NoticeToBe = lastError
      /\ \/ token \/ pull = "woken"
         \/ lastError # "nil"
         \/ handler # "idle" \/ queue > 0 \/ run # "waiting"
         \/ pull = "half" /\ seen.err = "nil" /\ seen.kind = "ready"
         \/ ShownToBe = store /\ (pull = "blocked" \/ seen.err = "nil")

\* The two parts of type correctness that are proved together.
TypeInv == TypeOK /\ QueueBounded

\* Every variable keeps its type; the queue is bounded because no event is queued twice.
THEOREM TypeCorrect == Spec => []TypeOK
<1>1. Init => TypeInv
  <2>1. NoSnapshot \in Snapshots
    BY DEF NoSnapshot, Snapshots, Versions
  <2>2. Init => /\ {hasSynced, informerDone, ctxDone, ready, token, closed} \subseteq BOOLEAN
                /\ owned \in BOOLEAN
    BY DEF Init
  <2> QED BY <2>1, <2>2 DEF Init, TypeInv, TypeOK, QueueBounded, Versions, Failures
<1>2. TypeInv /\ [Next]_vars => TypeInv'
  <2> SUFFICES ASSUME TypeInv, [Next]_vars PROVE TypeInv'
    OBVIOUS
  <2> USE DEF TypeInv, TypeOK, QueueBounded, Versions, Failures, 
            sourceVars, informerVars, statusVars, displayVars, screenVars, setVars
  <2>1. CASE ClusterChanges
    BY <2>1 DEF ClusterChanges
  <2>2. CASE Connect
    BY <2>2 DEF Connect, Reflect
  <2>3. CASE RecordConnectionSuccess
    <3>1. lastError' \in {"nil"} \cup Failures /\ token' \in BOOLEAN
      BY <2>3 DEF RecordConnectionSuccess, Notify
    <3>2. reflector' \in {"sync", "watching"}
      BY <2>3 DEF RecordConnectionSuccess, Reflect
    <3> QED BY <2>3, <3>1, <3>2 DEF RecordConnectionSuccess, Reflect, Notify
  <2>4. CASE StoreList
    BY <2>4 DEF StoreList, Reflect
  <2>5. CASE WatchEvent
    BY <2>5 DEF WatchEvent, Reflect
  <2>6. ASSUME NEW err \in Failures, ConnectionFails(err) PROVE TypeInv'
    BY <2>6 DEF ConnectionFails, Reflect
  <2>7. CASE RecordFailure
    BY <2>7 DEF RecordFailure, Reflect
  <2>8. CASE NotifyFailure
    BY <2>8 DEF NotifyFailure, Reflect, Notify
  <2>9. CASE InformerEnds
    BY <2>9 DEF InformerEnds
  <2>10. CASE BeginChange
    BY <2>10 DEF BeginChange
  <2>11. CASE ClearError
    BY <2>11 DEF ClearError
  <2>12. CASE NotifyChange
    BY <2>12 DEF NotifyChange, Notify
  <2>13. CASE SeeSync
    BY <2>13 DEF SeeSync
  <2>14. CASE MarkReady
    BY <2>14 DEF MarkReady
  <2>15. CASE NotifyReady
    BY <2>15 DEF NotifyReady, Notify
  <2>16. CASE CloseChanges
    BY <2>16 DEF CloseChanges
  <2>17. CASE Wake
    <3>1. token' \in BOOLEAN
      BY <2>17 DEF Wake
    <3>2. seen' \in Snapshots
      BY <2>17 DEF Wake, NoSnapshot, Snapshots
    <3> QED BY <2>17, <3>1, <3>2 DEF Wake, NoSnapshot
  <2>18. CASE ReadStatus
    <3>1. seen' \in Snapshots
      BY <2>18 DEF ReadStatus, Snapshots
    <3> QED BY <2>18, <3>1 DEF ReadStatus
  <2>19. CASE ReadItems
    BY <2>19 DEF ReadItems, Snapshots
  <2>20. CASE HandleSnapshot
    BY <2>20 DEF HandleSnapshot, Snapshots
  <2>21. CASE HandleClosed
    <3>1. owned' \in BOOLEAN /\ ctxDone' \in BOOLEAN
      BY <2>21 DEF HandleClosed
    <3> QED BY <2>21, <3>1 DEF HandleClosed
  <2>22. CASE DropStale
    BY <2>22 DEF DropStale
  <2>23. CASE StopSet
    <3>1. owned' \in BOOLEAN /\ ctxDone' \in BOOLEAN
      BY <2>23 DEF StopSet
    <3> QED BY <2>23, <3>1 DEF StopSet
  <2>24. CASE LifetimeEnds
    BY <2>24 DEF LifetimeEnds
  <2>25. CASE UNCHANGED vars
    BY <2>25 DEF vars
  <2> QED
    BY <2>1, <2>2, <2>3, <2>4, <2>5, <2>6, <2>7, <2>8, <2>9, <2>10, <2>11, <2>12, <2>13,
       <2>14, <2>15, <2>16, <2>17, <2>18, <2>19, <2>20, <2>21, <2>22, <2>23, <2>24, <2>25
    DEF Next, Progress, ReportFailure, HandlerStep, RunStep, PullStep, ScreenStep
<1>3. TypeInv => TypeOK
  BY DEF TypeInv
<1> QED BY <1>1, <1>2, <1>3, PTL DEF Spec

\* The order in which the informer, the run goroutine and the screen end.
THEOREM ShutdownCorrect == Spec => []ShutdownInv
<1>1. Init => ShutdownInv
  BY DEF Init, NoSnapshot, ShutdownInv, TypeOK, Failures
<1>2. TypeOK /\ ShutdownInv /\ [Next]_vars => ShutdownInv'
  <2> SUFFICES ASSUME TypeOK, ShutdownInv, [Next]_vars PROVE ShutdownInv'
    OBVIOUS
  <2> USE DEF ShutdownInv, TypeOK, Failures, 
            sourceVars, informerVars, statusVars, displayVars, screenVars, setVars
  <2>1. CASE ClusterChanges
    BY <2>1 DEF ClusterChanges
  <2>2. CASE Connect
    BY <2>2 DEF Connect, Reflect
  <2>3. CASE RecordConnectionSuccess
    BY <2>3 DEF RecordConnectionSuccess, Reflect, Notify
  <2>4. CASE StoreList
    BY <2>4 DEF StoreList, Reflect
  <2>5. CASE WatchEvent
    BY <2>5 DEF WatchEvent, Reflect
  <2>6. ASSUME NEW err \in Failures, ConnectionFails(err) PROVE ShutdownInv'
    BY <2>6 DEF ConnectionFails, Reflect
  <2>7. CASE RecordFailure
    BY <2>7 DEF RecordFailure, Reflect
  <2>8. CASE NotifyFailure
    BY <2>8 DEF NotifyFailure, Reflect, Notify
  <2>9. CASE InformerEnds
    BY <2>9 DEF InformerEnds
  <2>10. CASE BeginChange
    BY <2>10 DEF BeginChange
  <2>11. CASE ClearError
    BY <2>11 DEF ClearError
  <2>12. CASE NotifyChange
    BY <2>12 DEF NotifyChange, Notify
  <2>13. CASE SeeSync
    BY <2>13 DEF SeeSync
  <2>14. CASE MarkReady
    BY <2>14 DEF MarkReady
  <2>15. CASE NotifyReady
    BY <2>15 DEF NotifyReady, Notify
  <2>16. CASE CloseChanges
    BY <2>16 DEF CloseChanges
  <2>17. CASE Wake
    BY <2>17 DEF Wake, NoSnapshot
  <2>18. CASE ReadStatus
    BY <2>18 DEF ReadStatus
  <2>19. CASE ReadItems
    BY <2>19 DEF ReadItems, Snapshots
  <2>20. CASE HandleSnapshot
    BY <2>20 DEF HandleSnapshot, Snapshots
  <2>21. CASE HandleClosed
    BY <2>21 DEF HandleClosed
  <2>22. CASE DropStale
    BY <2>22 DEF DropStale
  <2>23. CASE StopSet
    BY <2>23 DEF StopSet
  <2>24. CASE LifetimeEnds
    BY <2>24 DEF LifetimeEnds
  <2>25. CASE UNCHANGED vars
    BY <2>25 DEF vars
  <2> QED
    BY <2>1, <2>2, <2>3, <2>4, <2>5, <2>6, <2>7, <2>8, <2>9, <2>10, <2>11, <2>12, <2>13,
       <2>14, <2>15, <2>16, <2>17, <2>18, <2>19, <2>20, <2>21, <2>22, <2>23, <2>24, <2>25
    DEF Next, Progress, ReportFailure, HandlerStep, RunStep, PullStep, ScreenStep
<1> QED BY <1>1, <1>2, TypeCorrect, PTL DEF Spec

\* Nothing can be sent on the change channel once it is closed: live.go, run and notify.
THEOREM SendsBeforeClose == Spec => []NoSendAfterClose
<1>1. ShutdownInv => NoSendAfterClose
  BY DEF ShutdownInv, NoSendAfterClose
<1> QED BY <1>1, ShutdownCorrect, PTL

\* No wake-up is lost, whatever the interleaving.
THEOREM WakeCorrect == Spec => []WakeInv
<1>1. Init => WakeInv
  BY DEF Init, NoSnapshot, WakeInv, NoticeToBe, ShownToBe, TypeOK, Versions, Failures, ShutdownInv
<1>2. TypeOK /\ ShutdownInv /\ WakeInv /\ [Next]_vars => WakeInv'
  <2> SUFFICES ASSUME TypeOK, ShutdownInv, WakeInv, [Next]_vars PROVE WakeInv'
    OBVIOUS
  <2> USE DEF WakeInv, NoticeToBe, ShownToBe, TypeOK, Versions, Failures, ShutdownInv, 
            sourceVars, informerVars, statusVars, displayVars, screenVars, setVars
  <2>1. CASE ClusterChanges
    BY <2>1 DEF ClusterChanges
  <2>2. CASE Connect
    BY <2>2 DEF Connect, Reflect
  <2>3. CASE RecordConnectionSuccess
    BY <2>3 DEF RecordConnectionSuccess, Reflect, Notify
  <2>4. CASE StoreList
    BY <2>4 DEF StoreList, Reflect
  <2>5. CASE WatchEvent
    BY <2>5 DEF WatchEvent, Reflect
  <2>6. ASSUME NEW err \in Failures, ConnectionFails(err) PROVE WakeInv'
    BY <2>6 DEF ConnectionFails, Reflect
  <2>7. CASE RecordFailure
    BY <2>7 DEF RecordFailure, Reflect
  <2>8. CASE NotifyFailure
    BY <2>8 DEF NotifyFailure, Reflect, Notify
  <2>9. CASE InformerEnds
    BY <2>9 DEF InformerEnds
  <2>10. CASE BeginChange
    BY <2>10 DEF BeginChange
  <2>11. CASE ClearError
    BY <2>11 DEF ClearError
  <2>12. CASE NotifyChange
    BY <2>12 DEF NotifyChange, Notify
  <2>13. CASE SeeSync
    BY <2>13 DEF SeeSync
  <2>14. CASE MarkReady
    BY <2>14 DEF MarkReady
  <2>15. CASE NotifyReady
    BY <2>15 DEF NotifyReady, Notify
  <2>16. CASE CloseChanges
    BY <2>16 DEF CloseChanges
  <2>17. CASE Wake
    BY <2>17 DEF Wake, NoSnapshot
  <2>18. CASE ReadStatus
    <3>1. seen'.err = lastError /\ (ready /\ seen.kind # "closed" => seen'.kind = "ready")
      BY <2>18 DEF ReadStatus, Snapshots
    <3> QED BY <2>18, <3>1 DEF ReadStatus
  <2>19. CASE ReadItems
    BY <2>19 DEF ReadItems, Snapshots
  <2>20. CASE HandleSnapshot
    BY <2>20 DEF HandleSnapshot, Snapshots
  <2>21. CASE HandleClosed
    BY <2>21 DEF HandleClosed
  <2>22. CASE DropStale
    BY <2>22 DEF DropStale
  <2>23. CASE StopSet
    BY <2>23 DEF StopSet
  <2>24. CASE LifetimeEnds
    BY <2>24 DEF LifetimeEnds
  <2>25. CASE UNCHANGED vars
    BY <2>25 DEF vars
  <2> QED
    BY <2>1, <2>2, <2>3, <2>4, <2>5, <2>6, <2>7, <2>8, <2>9, <2>10, <2>11, <2>12, <2>13,
       <2>14, <2>15, <2>16, <2>17, <2>18, <2>19, <2>20, <2>21, <2>22, <2>23, <2>24, <2>25
    DEF Next, Progress, ReportFailure, HandlerStep, RunStep, PullStep, ScreenStep
<1> QED BY <1>1, <1>2, TypeCorrect, ShutdownCorrect, PTL DEF Spec

\* A running set with nothing under way has its store, or its error, on the screen.
THEOREM QuietIsCurrent == Spec => []QuietMeansCurrent
<1>1. TypeOK /\ ShutdownInv /\ WakeInv => QuietMeansCurrent
  BY DEF TypeOK, WakeInv, NoticeToBe, ShownToBe, QuietMeansCurrent, Quiet
<1> QED BY <1>1, TypeCorrect, ShutdownCorrect, WakeCorrect, PTL
=============================================================================
