------------------------------ MODULE LiveSet ------------------------------
(***************************************************************************)
(* A live set of cluster resources, internal/kube/live.go, read by the     *)
(* supervisor of one screen, internal/ui/screen/live.go.                   *)
(*                                                                         *)
(* Four goroutines meet here: the reflector of the client library, which   *)
(* lists and watches and calls back on success and on failure; the         *)
(* informer's handler goroutine, which calls recordChange; the set's own   *)
(* run; and the screen, whose pull command blocks on the change channel    *)
(* and then reads the state.  The change channel holds one token, so any   *)
(* number of changes collapses into one wake-up.                           *)
(*                                                                         *)
(* The content of the cluster is abstracted to a version that only grows;  *)
(* the informer's store and the screen each hold one.                      *)
(***************************************************************************)
EXTENDS Naturals

CONSTANTS
    MaxVersion,     \* bound on the changes of the cluster
    MaxFailures     \* bound on the failed lists and watches

ASSUME LiveBounds == MaxVersion \in Nat /\ MaxFailures \in Nat

VARIABLES
    source,         \* version of the cluster
    failures,       \* failed lists and watches so far
    reflector,      \* where the reflector stands
    failure,        \* the failure it is reporting
    store,          \* version in the informer's store
    hasSynced,      \* the first list is in the store
    queue,          \* events the handler goroutine has yet to see
    handler,        \* where recordChange stands
    informerDone,   \* RunWithContext has returned
    run,            \* where liveSet.run stands
    ctxDone,        \* the context of the set is cancelled
    ready,          \* status under statusMu ...
    lastError,      \* ... and its error
    token,          \* a value is in the change channel
    closed,         \* the change channel is closed
    pull,           \* where the pull command of the screen stands
    seen,           \* what it has read so far
    owned,          \* the supervisor still owns this set
    shown,          \* version on the screen
    notice          \* error on the screen

sourceVars   == <<source, failures>>
informerVars == <<reflector, failure, store, hasSynced, queue, informerDone>>
statusVars   == <<ready, lastError>>
displayVars  == <<owned, shown, notice>>
screenVars   == <<pull, seen, displayVars>>
setVars      == <<run, ctxDone, closed>>
vars == <<sourceVars, informerVars, handler, setVars, statusVars, token, screenVars>>

Versions   == 0 .. MaxVersion
Failures   == {"failure", "denied"}
Snapshots  == [kind : {"loading", "ready", "closed"}, err : {"nil"} \cup Failures, version : Versions]
NoSnapshot == [kind |-> "loading", err |-> "nil", version |-> 0]

TypeOK ==
    /\ source \in Versions
    /\ failures \in 0 .. MaxFailures
    /\ reflector \in {"list", "listed", "sync", "watch", "opened", "watching", "failed", "notify"}
    /\ failure \in {"nil"} \cup Failures
    /\ store \in Versions
    /\ hasSynced \in BOOLEAN
    /\ queue \in Versions
    /\ handler \in {"idle", "checked", "notify"}
    /\ informerDone \in BOOLEAN
    /\ run \in {"syncing", "synced", "notify", "waiting", "closed"}
    /\ ctxDone \in BOOLEAN
    /\ ready \in BOOLEAN
    /\ lastError \in {"nil"} \cup Failures
    /\ token \in BOOLEAN
    /\ closed \in BOOLEAN
    /\ pull \in {"blocked", "woken", "half", "posted", "none"}
    /\ seen \in Snapshots
    /\ owned \in BOOLEAN
    /\ shown \in Versions
    /\ notice \in {"nil", "stopped"} \cup Failures

\* A set that has just been started, and whose supervisor has issued the first pull.
Init ==
    /\ source = 0
    /\ failures = 0
    /\ reflector = "list"
    /\ failure = "nil"
    /\ store = 0
    /\ hasSynced = FALSE
    /\ queue = 0
    /\ handler = "idle"
    /\ informerDone = FALSE
    /\ run = "syncing"
    /\ ctxDone = FALSE
    /\ ready = FALSE
    /\ lastError = "nil"
    /\ token = FALSE
    /\ closed = FALSE
    /\ pull = "blocked"
    /\ seen = NoSnapshot
    /\ owned = TRUE
    /\ shown = 0
    /\ notice = "nil"

----------------------------------------------------------------------------
(* Helpers *)

\* Mutant of Notify: a notification is dropped while the reader is busy.
NotifyReader == token' = (token \/ (~ctxDone /\ pull = "blocked"))

\* liveSet.notify: put a token in the channel unless one is there or the set has stopped.
Notify == token' = (token \/ ~ctxDone)

\* Nothing is on its way to the screen.
Quiet ==
    /\ ~token /\ queue = 0 /\ handler = "idle"
    /\ run = "waiting" /\ reflector \in {"watch", "watching"}
    /\ pull = "blocked"

----------------------------------------------------------------------------
(* The reflector (client-go), which calls back into the set *)

ClusterChanges ==
    /\ source < MaxVersion
    /\ source' = source + 1
    /\ UNCHANGED <<failures, informerVars, handler, setVars, statusVars, token,
                   screenVars>>

Reflect(from, to) == reflector = from /\ ~informerDone /\ reflector' = to

Connect ==
    /\ Reflect("list", "listed") \/ Reflect("watch", "opened")
    /\ ~ctxDone
    /\ UNCHANGED <<sourceVars, failure, store, hasSynced, queue, informerDone, handler,
                   setVars, statusVars, token, screenVars>>

\* recordConnectionSuccess, called once a list or a watch has succeeded
RecordConnectionSuccess ==
    /\ Reflect("listed", "sync") \/ Reflect("opened", "watching")
    /\ IF ctxDone \/ lastError = "nil"
       THEN UNCHANGED <<lastError, token>>
       ELSE lastError' = "nil" /\ Notify
    /\ UNCHANGED <<sourceVars, failure, store, hasSynced, queue, informerDone, handler,
                   setVars, ready, screenVars>>

\* Events of the first list are flagged initial and ignored (recordAddedResource).
StoreList ==
    /\ Reflect("sync", "watch")
    /\ store' = source
    /\ hasSynced' = TRUE
    /\ queue' = IF hasSynced /\ source # store THEN queue + 1 ELSE queue
    /\ UNCHANGED <<sourceVars, failure, informerDone, handler, setVars, statusVars,
                   token, screenVars>>

WatchEvent ==
    /\ Reflect("watching", "watching")
    /\ store < source
    /\ store' = store + 1
    /\ queue' = queue + 1
    /\ UNCHANGED <<sourceVars, failure, hasSynced, informerDone, handler, setVars,
                   statusVars, token, screenVars>>

ConnectionFails(err) ==
    /\ Reflect("list", "failed") \/ Reflect("watch", "failed") \/ Reflect("watching", "failed")
    /\ failures < MaxFailures
    /\ failures' = failures + 1
    /\ failure' = err
    /\ UNCHANGED <<source, store, hasSynced, queue, informerDone, handler, setVars,
                   statusVars, token, screenVars>>

\* handleWatchError; its last step retries, or stops the set when access is denied.
RecordFailure ==
    /\ IF ctxDone
       THEN Reflect("failed", "list") /\ UNCHANGED lastError
       ELSE Reflect("failed", "notify") /\ lastError' = failure
    /\ UNCHANGED <<sourceVars, failure, store, hasSynced, queue, informerDone, handler,
                   setVars, ready, token, screenVars>>

NotifyFailure ==
    /\ Reflect("notify", "list")
    /\ Notify
    /\ ctxDone' = (ctxDone \/ failure = "denied")
    /\ UNCHANGED <<sourceVars, failure, store, hasSynced, queue, informerDone, handler,
                   run, statusVars, closed, screenVars>>

\* RunWithContext returns once its context is done and its goroutines have stopped.
InformerEnds ==
    /\ ctxDone
    /\ ~informerDone
    /\ handler = "idle"
    /\ reflector \notin {"failed", "notify"}
    /\ informerDone' = TRUE
    /\ queue' = 0
    /\ UNCHANGED <<sourceVars, reflector, failure, store, hasSynced, handler, setVars,
                   statusVars, token, screenVars>>

----------------------------------------------------------------------------
(* The handler goroutine: recordChange *)

BeginChange ==
    /\ handler = "idle"
    /\ queue > 0
    /\ queue' = queue - 1
    /\ handler' = IF ctxDone THEN "idle" ELSE "checked"
    /\ UNCHANGED <<sourceVars, reflector, failure, store, hasSynced, informerDone,
                   setVars, statusVars, token, screenVars>>

ClearError ==
    /\ handler = "checked"
    /\ handler' = "notify"
    /\ lastError' = "nil"
    /\ UNCHANGED <<sourceVars, informerVars, setVars, ready, token, screenVars>>

NotifyChange ==
    /\ handler = "notify"
    /\ handler' = "idle"
    /\ Notify
    /\ UNCHANGED <<sourceVars, informerVars, setVars, statusVars, screenVars>>

----------------------------------------------------------------------------
(* liveSet.run *)

\* WaitForCacheSync: true once the first list is in, false once the context is done
SeeSync ==
    /\ run = "syncing"
    /\ hasSynced \/ ctxDone
    /\ run' = IF ctxDone THEN "waiting" ELSE "synced"
    /\ UNCHANGED <<sourceVars, informerVars, handler, ctxDone, statusVars, token,
                   closed, screenVars>>

MarkReady ==
    /\ run = "synced"
    /\ run' = "notify"
    /\ ready' = TRUE
    /\ lastError' = "nil"
    /\ UNCHANGED <<sourceVars, informerVars, handler, ctxDone, token, closed,
                   screenVars>>

\* Mutant of NotifyReady: readiness is recorded but not announced.
ReadySilently ==
    /\ run = "notify"
    /\ run' = "waiting"
    /\ UNCHANGED <<sourceVars, informerVars, handler, ctxDone, statusVars, token,
                   closed, screenVars>>

NotifyReady ==
    /\ run = "notify"
    /\ run' = "waiting"
    /\ Notify
    /\ UNCHANGED <<sourceVars, informerVars, handler, ctxDone, statusVars, closed,
                   screenVars>>

\* Mutant of CloseChanges: the set closes its channel as soon as it is stopped.
CloseEarly ==
    /\ run = "waiting"
    /\ ctxDone
    /\ run' = "closed"
    /\ closed' = TRUE
    /\ UNCHANGED <<sourceVars, informerVars, handler, ctxDone, statusVars, token,
                   screenVars>>

\* Mutant of CloseChanges: the channel is closed only by a set that has synced.
CloseSynced ==
    /\ run = "waiting"
    /\ informerDone
    /\ ready
    /\ run' = "closed"
    /\ closed' = TRUE
    /\ UNCHANGED <<sourceVars, informerVars, handler, ctxDone, statusVars, token,
                   screenVars>>

CloseChanges ==
    /\ run = "waiting"
    /\ informerDone
    /\ run' = "closed"
    /\ closed' = TRUE
    /\ UNCHANGED <<sourceVars, informerVars, handler, ctxDone, statusVars, token,
                   screenVars>>

----------------------------------------------------------------------------
(* The screen: LiveSupervisor and the handlers of its messages *)

\* A token left in a closed channel is received before the close is.
Wake ==
    /\ pull = "blocked"
    /\ token \/ closed
    /\ pull' = "woken"
    /\ token' = FALSE
    /\ seen' = [NoSnapshot EXCEPT !.kind = IF token THEN "loading" ELSE "closed"]
    /\ UNCHANGED <<sourceVars, informerVars, handler, setVars, statusVars, displayVars>>

\* liveSet.State reads the status under its lock, then lists the store.
ReadStatus ==
    /\ pull = "woken"
    /\ pull' = "half"
    /\ seen' = [seen EXCEPT !.kind = IF @ = "loading" /\ ready THEN "ready" ELSE @,
                          !.err = lastError]
    /\ UNCHANGED <<sourceVars, informerVars, handler, setVars, statusVars, token,
                   displayVars>>

\* The items are read after the lock is released.  Each has a key and decodes: the store holds what the
\* informer of its type put there.
ReadItems ==
    /\ pull = "half"
    /\ pull' = "posted"
    /\ seen' = [seen EXCEPT !.version = store]
    /\ UNCHANGED <<sourceVars, informerVars, handler, setVars, statusVars, token,
                   displayVars>>

\* applyBrowserLiveState: an error is shown in place of new items; either way pull again.
HandleSnapshot ==
    /\ pull = "posted"
    /\ owned
    /\ seen.kind # "closed"
    /\ notice' = seen.err
    /\ shown' = IF seen.err = "nil" /\ seen.kind = "ready" THEN seen.version ELSE shown
    /\ pull' = "blocked"
    /\ UNCHANGED <<sourceVars, informerVars, handler, setVars, statusVars, token, seen,
                   owned>>

\* The channel is closed: stop, and say why (LiveStopError).
HandleClosed ==
    /\ pull = "posted"
    /\ owned
    /\ seen.kind = "closed"
    /\ notice' = IF seen.err = "denied" THEN "denied" ELSE "stopped"
    /\ pull' = "none"
    /\ owned' = FALSE
    /\ ctxDone' = TRUE
    /\ UNCHANGED <<sourceVars, informerVars, handler, run, statusVars, token, closed,
                   seen, shown>>

\* A message of a generation the supervisor no longer owns is dropped.
DropStale ==
    /\ pull = "posted"
    /\ ~owned
    /\ pull' = "none"
    /\ UNCHANGED <<sourceVars, informerVars, handler, setVars, statusVars, token, seen,
                   displayVars>>

\* The screen is left or shows something else; the lifetime of a replaced connection ends the
\* context alone.
StopSet ==
    /\ owned
    /\ owned' = FALSE
    /\ ctxDone' = TRUE
    /\ UNCHANGED <<sourceVars, informerVars, handler, run, statusVars, token, closed,
                   pull, seen, shown, notice>>

LifetimeEnds ==
    /\ ~ctxDone
    /\ ctxDone' = TRUE
    /\ UNCHANGED <<sourceVars, informerVars, handler, run, statusVars, token, closed,
                   screenVars>>

----------------------------------------------------------------------------
(* Specification *)

\* Steps of the reflector that move towards a current store.
Progress == Connect \/ RecordConnectionSuccess \/ StoreList \/ WatchEvent

ReportFailure == RecordFailure \/ NotifyFailure
HandlerStep   == BeginChange \/ ClearError \/ NotifyChange
RunStep       == SeeSync \/ MarkReady \/ NotifyReady \/ CloseChanges
PullStep      == Wake \/ ReadStatus \/ ReadItems
ScreenStep    == HandleSnapshot \/ HandleClosed \/ DropStale

Next ==
    \/ ClusterChanges
    \/ Progress
    \/ \E err \in Failures : ConnectionFails(err)
    \/ ReportFailure \/ InformerEnds
    \/ HandlerStep \/ RunStep \/ PullStep \/ ScreenStep
    \/ StopSet \/ LifetimeEnds

Spec == Init /\ [][Next]_vars

\* Every goroutine keeps running, and after the bounded failures the reflector connects.
Fairness ==
    /\ WF_vars(Progress) /\ WF_vars(ReportFailure) /\ WF_vars(InformerEnds)
    /\ WF_vars(HandlerStep) /\ WF_vars(RunStep)
    /\ WF_vars(PullStep) /\ WF_vars(ScreenStep)

FairSpec == Spec /\ Fairness

----------------------------------------------------------------------------
(* Properties *)

\* The change channel is closed only after everything that sends on it has stopped: a
\* later notify would panic.
NoSendAfterClose ==
    closed => informerDone /\ handler = "idle" /\ run = "closed"

\* No wake-up is lost to coalescing: once nothing is under way, a running set without an
\* error has its store on the screen, and a set with an error has its notice there.
QuietMeansCurrent ==
    Quiet /\ owned /\ ~ctxDone =>
        /\ notice = lastError
        /\ lastError = "nil" => shown = store

\* Every version of the cluster reaches the screen, or the set has ended.
ChangeIsShown ==
    \A v \in Versions : source >= v ~> shown >= v \/ ctxDone

\* A stopped set closes its change channel and its pull command returns: nothing leaks.
StopReleases ==
    ctxDone ~> closed /\ pull = "none"
=============================================================================
