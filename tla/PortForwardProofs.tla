------------------------- MODULE PortForwardProofs -------------------------
(***************************************************************************)
(* Proofs about PortForward, for any sets of forwards and of stop calls    *)
(* and any number of connections.                                          *)
(***************************************************************************)
EXTENDS PortForward, TLAPS

USE GenerationBound

\* Cancelling a context and requesting a stop keep the types of what they write.
LEMMA CancelContextType ==
    ASSUME TypeOK, NEW i \in Forwards, CancelContext(i)
    PROVE  /\ ctxCanceled' \in [Forwards -> BOOLEAN]
           /\ watch' \in [Forwards -> WatchState]
  BY DEF CancelContext, TypeOK, WatchState

\* As above, for requestStop.
LEMMA RequestStopType ==
    ASSUME TypeOK, NEW i \in Forwards, RequestStop(i)
    PROVE  /\ ctxCanceled' \in [Forwards -> BOOLEAN]
           /\ watch' \in [Forwards -> WatchState]
           /\ stopRequested' \in [Forwards -> BOOLEAN]
<1>1. stopRequested' \in [Forwards -> BOOLEAN]
  BY DEF RequestStop, TypeOK
<1>2. CASE stopRequested[i]
  BY <1>1, <1>2 DEF RequestStop, TypeOK
<1>3. CASE ~stopRequested[i]
  BY <1>1, <1>3, CancelContextType DEF RequestStop
<1> QED BY <1>2, <1>3

\* Every variable keeps its type.
THEOREM TypeCorrect == Spec => []TypeOK
<1> USE DEF TypeOK, connVars, startVars, ctxVars, regVars, runVars, stopVars,
            CallState, Causes, WatchState, RunState, Errors, ExitState, StopState
<1>1. Init => TypeOK
  BY DEF Init
<1>2. TypeOK /\ [Next]_vars => TypeOK'
  <2> SUFFICES ASSUME TypeOK, [Next]_vars PROVE TypeOK'
    OBVIOUS
  <2>1. CASE InstallConnection
    BY <2>1 DEF InstallConnection
  <2>2. CASE CancelPrevious
    BY <2>2 DEF CancelPrevious
  <2>3. ASSUME NEW i \in Forwards, StartStep(i) PROVE TypeOK'
    <3>1. CASE RejectStart(i)
      <4>1. PICK why \in {"canceled", "unavailable"} : FailStart(i, why)
        BY <3>1 DEF RejectStart
      <4>2. call' \in [Forwards -> CallState] /\ cause' \in [Forwards -> Causes]
        BY <4>1 DEF FailStart
      <4> QED BY <3>1, <4>2 DEF RejectStart
    <3>2. CASE OpenSession(i)
      BY <3>2 DEF OpenSession
    <3>3. CASE PrepareFails(i)
      BY <3>3 DEF PrepareFails, FailStart, CancelContext
    <3>4. CASE Launch(i)
      BY <3>4 DEF Launch
    <3>5. CASE Await(i)
      <4>1. CASE AwaitReady(i)
        <5>1. CASE call' = [call EXCEPT ![i] = "marking"] /\ UNCHANGED cause
          BY <4>1, <5>1 DEF AwaitReady
        <5>2. CASE AbandonWith(i, "canceled")
          BY <4>1, <5>2 DEF AwaitReady, AbandonWith
        <5> QED BY <4>1, <5>1, <5>2 DEF AwaitReady
      <4>2. CASE AwaitEnd(i)
        <5>1. StartCause(i) \in Causes
          BY DEF StartCause
        <5> QED BY <4>2, <5>1 DEF AwaitEnd, AbandonWith
      <4>3. CASE AwaitTimeout(i)
        BY <4>3 DEF AwaitTimeout, AbandonWith
      <4> QED BY <3>5, <4>1, <4>2, <4>3 DEF Await
    <3>6. CASE MarkRunning(i)
      BY <3>6 DEF MarkRunning
    <3>7. CASE ReadLostCause(i)
      BY <3>7 DEF ReadLostCause, AbandonWith
    <3>8. CASE Abandon(i)
      BY <3>8, RequestStopType DEF Abandon
    <3>9. CASE Remove(i)
      BY <3>9 DEF Remove
    <3> QED BY <2>3, <3>1, <3>2, <3>3, <3>4, <3>5, <3>6, <3>7, <3>8, <3>9 DEF StartStep
  <2>4. ASSUME NEW i \in Forwards, ContextStep(i) PROVE TypeOK'
    <3>1. CASE LifetimeEnds(i)
      BY <3>1, CancelContextType DEF LifetimeEnds
    <3>2. CASE CancelParent(i)
      BY <3>2, CancelContextType DEF CancelParent
    <3>3. CASE RecordCancellation(i)
      BY <3>3 DEF RecordCancellation
    <3>4. CASE StopOnCancellation(i)
      BY <3>4 DEF StopOnCancellation
    <3> QED BY <2>4, <3>1, <3>2, <3>3, <3>4 DEF ContextStep
  <2>5. ASSUME NEW i \in Forwards, RunnerStep(i) PROVE TypeOK'
    <3>1. CASE BecomeReady(i)
      BY <3>1 DEF BecomeReady
    <3>2. CASE ForwardPortsReturns(i)
      BY <3>2 DEF ForwardPortsReturns
    <3>3. CASE FilterError(i)
      BY <3>3 DEF FilterError, KeptError
    <3>4. CASE Deregister(i)
      BY <3>4 DEF Deregister
    <3>5. CASE RecordExit(i)
      BY <3>5 DEF RecordExit
    <3>6. CASE CloseDone(i)
      BY <3>6 DEF CloseDone
    <3>7. CASE ReportExit(i)
      BY <3>7, CancelContextType DEF ReportExit
    <3> QED BY <2>5, <3>1, <3>2, <3>3, <3>4, <3>5, <3>6, <3>7 DEF RunnerStep, ExitStep
  <2>6. ASSUME NEW i \in Forwards, ReceiveExit(i) PROVE TypeOK'
    BY <2>6 DEF ReceiveExit
  <2>7. ASSUME NEW s \in Stoppers, NEW i \in Forwards, StopPortForward(s, i) PROVE TypeOK'
    BY <2>7 DEF StopPortForward, Callers
  <2>8. ASSUME NEW s \in Shutdowns, StopAll(s) PROVE TypeOK'
    BY <2>8 DEF StopAll, Callers, HandedOut, Active
  <2>9. ASSUME NEW s \in Callers, StopStep(s) PROVE TypeOK'
    <3>1. ASSUME NEW i \in Forwards, RequestNext(s, i) PROVE TypeOK'
      BY <3>1, RequestStopType DEF RequestNext
    <3>2. ASSUME NEW i \in Forwards, SeeDone(s, i) PROVE TypeOK'
      BY <3>2 DEF SeeDone
    <3>3. CASE AllRequested(s)
      BY <3>3 DEF AllRequested
    <3>4. CASE StopReturns(s)
      BY <3>4 DEF StopReturns
    <3> QED BY <2>9, <3>1, <3>2, <3>3, <3>4 DEF StopStep
  <2>10. ASSUME NEW s \in Callers, StopExpires(s) PROVE TypeOK'
    BY <2>10 DEF StopExpires
  <2>11. CASE UNCHANGED vars
    BY <2>11 DEF vars
  <2> QED
    BY <2>1, <2>2, <2>3, <2>4, <2>5, <2>6, <2>7, <2>8, <2>9, <2>10, <2>11 DEF Next
<1> QED BY <1>1, <1>2, PTL DEF Spec

\* The registry holds exactly the forwards whose start or run still answers for them.
THEOREM RegistryCorrect == Spec => []RegistryInv
<1>1. Init => RegistryInv
  BY DEF Init, RegistryInv
<1>2. TypeOK /\ RegistryInv /\ [Next]_vars => RegistryInv'
  <2> SUFFICES ASSUME TypeOK, RegistryInv, [Next]_vars PROVE RegistryInv'
    OBVIOUS
  <2> USE DEF TypeOK, RegistryInv, connVars, startVars, ctxVars, regVars, runVars, stopVars
  <2>0. ASSUME UNCHANGED <<call, run, registry, running>> PROVE RegistryInv'
    BY <2>0
  <2>1. CASE InstallConnection
    BY <2>1, <2>0 DEF InstallConnection
  <2>2. CASE CancelPrevious
    BY <2>2, <2>0 DEF CancelPrevious
  <2>3. ASSUME NEW i \in Forwards, StartStep(i) PROVE RegistryInv'
    <3>1. CASE RejectStart(i)
      BY <3>1 DEF RejectStart, FailStart
    <3>2. CASE OpenSession(i)
      BY <3>2 DEF OpenSession
    <3>3. CASE PrepareFails(i)
      BY <3>3 DEF PrepareFails, FailStart, CancelContext
    <3>4. CASE Launch(i)
      BY <3>4 DEF Launch
    <3>5. CASE AwaitReady(i)
      BY <3>5 DEF AwaitReady, AbandonWith
    <3>6. CASE AwaitEnd(i)
      BY <3>6 DEF AwaitEnd, AbandonWith
    <3>7. CASE AwaitTimeout(i)
      BY <3>7 DEF AwaitTimeout, AbandonWith
    <3>8. CASE MarkRunning(i)
      BY <3>8 DEF MarkRunning
    <3>9. CASE ReadLostCause(i)
      BY <3>9 DEF ReadLostCause, AbandonWith
    <3>10. CASE Abandon(i)
      BY <3>10 DEF Abandon, RequestStop, CancelContext
    <3>11. CASE Remove(i)
      BY <3>11 DEF Remove
    <3> QED BY <2>3, <3>1, <3>2, <3>3, <3>4, <3>5, <3>6, <3>7, <3>8, <3>9, <3>10, <3>11 DEF StartStep, Await
  <2>4. ASSUME NEW i \in Forwards, ContextStep(i) PROVE RegistryInv'
    <3>1. CASE LifetimeEnds(i)
      BY <3>1, <2>0 DEF LifetimeEnds
    <3>2. CASE CancelParent(i)
      BY <3>2, <2>0 DEF CancelParent
    <3>3. CASE RecordCancellation(i)
      BY <3>3, <2>0 DEF RecordCancellation
    <3>4. CASE StopOnCancellation(i)
      BY <3>4, <2>0 DEF StopOnCancellation
    <3> QED BY <2>4, <3>1, <3>2, <3>3, <3>4 DEF ContextStep
  <2>5. ASSUME NEW i \in Forwards, RunnerStep(i) PROVE RegistryInv'
    <3>1. CASE BecomeReady(i)
      BY <3>1, <2>0 DEF BecomeReady
    <3>2. CASE ForwardPortsReturns(i)
      BY <3>2 DEF ForwardPortsReturns, Holding
    <3>3. CASE FilterError(i)
      BY <3>3 DEF FilterError, KeptError
    <3>4. CASE Deregister(i)
      BY <3>4 DEF Deregister
    <3>5. CASE RecordExit(i)
      BY <3>5 DEF RecordExit
    <3>6. CASE CloseDone(i)
      BY <3>6 DEF CloseDone
    <3>7. CASE ReportExit(i)
      BY <3>7 DEF ReportExit, CancelContext
    <3> QED BY <2>5, <3>1, <3>2, <3>3, <3>4, <3>5, <3>6, <3>7 DEF RunnerStep, ExitStep
  <2>6. ASSUME NEW i \in Forwards, ReceiveExit(i) PROVE RegistryInv'
    BY <2>6, <2>0 DEF ReceiveExit
  <2>7. ASSUME NEW s \in Stoppers, NEW i \in Forwards, StopPortForward(s, i) PROVE RegistryInv'
    BY <2>7, <2>0 DEF StopPortForward
  <2>8. ASSUME NEW s \in Shutdowns, StopAll(s) PROVE RegistryInv'
    BY <2>8, <2>0 DEF StopAll
  <2>9. ASSUME NEW s \in Callers, StopStep(s) PROVE RegistryInv'
    <3>1. ASSUME NEW i \in Forwards, RequestNext(s, i) PROVE RegistryInv'
      BY <3>1, <2>0 DEF RequestNext
    <3>2. ASSUME NEW i \in Forwards, SeeDone(s, i) PROVE RegistryInv'
      BY <3>2, <2>0 DEF SeeDone
    <3>3. CASE AllRequested(s)
      BY <3>3, <2>0 DEF AllRequested
    <3>4. CASE StopReturns(s)
      BY <3>4, <2>0 DEF StopReturns
    <3> QED BY <2>9, <3>1, <3>2, <3>3, <3>4 DEF StopStep
  <2>10. ASSUME NEW s \in Callers, StopExpires(s) PROVE RegistryInv'
    BY <2>10, <2>0 DEF StopExpires
  <2>11. CASE UNCHANGED vars
    BY <2>11, <2>0 DEF vars
  <2> QED
    BY <2>1, <2>2, <2>3, <2>4, <2>5, <2>6, <2>7, <2>8, <2>9, <2>10, <2>11 DEF Next
<1> QED BY <1>1, <1>2, TypeCorrect, PTL DEF Spec

\* A forward that was told to stop, or whose start failed, has its context cancelled.
THEOREM ContextCorrect == Spec => []ContextInv
<1>1. Init => ContextInv
  BY DEF Init, ContextInv
<1>2. TypeOK /\ RegistryInv /\ ContextInv /\ [Next]_vars => ContextInv'
  <2> SUFFICES ASSUME TypeOK, RegistryInv, ContextInv, [Next]_vars PROVE ContextInv'
    OBVIOUS
  <2> USE DEF TypeOK, RegistryInv, ContextInv, connVars, startVars, ctxVars, regVars, runVars, stopVars
  <2>0. ASSUME UNCHANGED <<call, run, watch, ctxCanceled, stopRequested, lifetimeOf>> PROVE ContextInv'
    BY <2>0
  <2>1. CASE InstallConnection
    BY <2>1, <2>0 DEF InstallConnection
  <2>2. CASE CancelPrevious
    BY <2>2, <2>0 DEF CancelPrevious
  <2>3. ASSUME NEW i \in Forwards, StartStep(i) PROVE ContextInv'
    <3>1. CASE RejectStart(i)
      BY <3>1 DEF RejectStart, FailStart
    <3>2. CASE OpenSession(i)
      BY <3>2 DEF OpenSession
    <3>3. CASE PrepareFails(i)
      BY <3>3 DEF PrepareFails, FailStart, CancelContext
    <3>4. CASE Launch(i)
      BY <3>4 DEF Launch
    <3>5. CASE AwaitReady(i)
      BY <3>5 DEF AwaitReady, AbandonWith
    <3>6. CASE AwaitEnd(i)
      BY <3>6 DEF AwaitEnd, AbandonWith
    <3>7. CASE AwaitTimeout(i)
      BY <3>7 DEF AwaitTimeout, AbandonWith
    <3>8. CASE MarkRunning(i)
      BY <3>8 DEF MarkRunning
    <3>9. CASE ReadLostCause(i)
      BY <3>9 DEF ReadLostCause, AbandonWith
    <3>10. CASE Abandon(i)
      BY <3>10 DEF Abandon, RequestStop, CancelContext
    <3>11. CASE Remove(i)
      BY <3>11 DEF Remove
    <3> QED BY <2>3, <3>1, <3>2, <3>3, <3>4, <3>5, <3>6, <3>7, <3>8, <3>9, <3>10, <3>11 DEF StartStep, Await
  <2>4. ASSUME NEW i \in Forwards, ContextStep(i) PROVE ContextInv'
    <3>1. CASE LifetimeEnds(i)
      BY <3>1 DEF LifetimeEnds, CancelContext
    <3>2. CASE CancelParent(i)
      BY <3>2 DEF CancelParent, CancelContext
    <3>3. CASE RecordCancellation(i)
      BY <3>3 DEF RecordCancellation
    <3>4. CASE StopOnCancellation(i)
      BY <3>4 DEF StopOnCancellation
    <3> QED BY <2>4, <3>1, <3>2, <3>3, <3>4 DEF ContextStep
  <2>5. ASSUME NEW i \in Forwards, RunnerStep(i) PROVE ContextInv'
    <3>1. CASE BecomeReady(i)
      BY <3>1, <2>0 DEF BecomeReady
    <3>2. CASE ForwardPortsReturns(i)
      BY <3>2 DEF ForwardPortsReturns, Holding
    <3>3. CASE FilterError(i)
      BY <3>3 DEF FilterError, KeptError
    <3>4. CASE Deregister(i)
      BY <3>4 DEF Deregister
    <3>5. CASE RecordExit(i)
      BY <3>5 DEF RecordExit
    <3>6. CASE CloseDone(i)
      BY <3>6 DEF CloseDone
    <3>7. CASE ReportExit(i)
      BY <3>7 DEF ReportExit, CancelContext
    <3> QED BY <2>5, <3>1, <3>2, <3>3, <3>4, <3>5, <3>6, <3>7 DEF RunnerStep, ExitStep
  <2>6. ASSUME NEW i \in Forwards, ReceiveExit(i) PROVE ContextInv'
    BY <2>6, <2>0 DEF ReceiveExit
  <2>7. ASSUME NEW s \in Stoppers, NEW i \in Forwards, StopPortForward(s, i) PROVE ContextInv'
    BY <2>7, <2>0 DEF StopPortForward
  <2>8. ASSUME NEW s \in Shutdowns, StopAll(s) PROVE ContextInv'
    BY <2>8, <2>0 DEF StopAll
  <2>9. ASSUME NEW s \in Callers, StopStep(s) PROVE ContextInv'
    <3>1. ASSUME NEW i \in Forwards, RequestNext(s, i) PROVE ContextInv'
      BY <3>1 DEF RequestNext, RequestStop, CancelContext
    <3>2. ASSUME NEW i \in Forwards, SeeDone(s, i) PROVE ContextInv'
      BY <3>2, <2>0 DEF SeeDone
    <3>3. CASE AllRequested(s)
      BY <3>3, <2>0 DEF AllRequested
    <3>4. CASE StopReturns(s)
      BY <3>4, <2>0 DEF StopReturns
    <3> QED BY <2>9, <3>1, <3>2, <3>3, <3>4 DEF StopStep
  <2>10. ASSUME NEW s \in Callers, StopExpires(s) PROVE ContextInv'
    BY <2>10, <2>0 DEF StopExpires
  <2>11. CASE UNCHANGED vars
    BY <2>11, <2>0 DEF vars
  <2> QED
    BY <2>1, <2>2, <2>3, <2>4, <2>5, <2>6, <2>7, <2>8, <2>9, <2>10, <2>11 DEF Next
<1> QED BY <1>1, <1>2, TypeCorrect, RegistryCorrect, PTL DEF Spec

\* The recorded exit error stays the one the runner ended with.
THEOREM ExitCorrect == Spec => []ExitInv
<1>1. Init => ExitInv
  BY DEF Init, ExitInv
<1>2. TypeOK /\ RegistryInv /\ ExitInv /\ [Next]_vars => ExitInv'
  <2> SUFFICES ASSUME TypeOK, RegistryInv, ExitInv, [Next]_vars PROVE ExitInv'
    OBVIOUS
  <2> USE DEF TypeOK, RegistryInv, ExitInv, connVars, startVars, ctxVars, regVars, runVars, stopVars
  <2>0. ASSUME UNCHANGED <<run, runErr, exitError, exit>> PROVE ExitInv'
    BY <2>0
  <2>1. CASE InstallConnection
    BY <2>1, <2>0 DEF InstallConnection
  <2>2. CASE CancelPrevious
    BY <2>2, <2>0 DEF CancelPrevious
  <2>3. ASSUME NEW i \in Forwards, StartStep(i) PROVE ExitInv'
    <3>1. CASE RejectStart(i)
      BY <3>1, <2>0 DEF RejectStart
    <3>2. CASE OpenSession(i)
      BY <3>2, <2>0 DEF OpenSession
    <3>3. CASE PrepareFails(i)
      BY <3>3, <2>0 DEF PrepareFails
    <3>4. CASE Launch(i)
      BY <3>4 DEF Launch
    <3>5. CASE AwaitReady(i)
      BY <3>5, <2>0 DEF AwaitReady
    <3>6. CASE AwaitEnd(i)
      BY <3>6, <2>0 DEF AwaitEnd
    <3>7. CASE AwaitTimeout(i)
      BY <3>7, <2>0 DEF AwaitTimeout
    <3>8. CASE MarkRunning(i)
      BY <3>8, <2>0 DEF MarkRunning
    <3>9. CASE ReadLostCause(i)
      BY <3>9, <2>0 DEF ReadLostCause
    <3>10. CASE Abandon(i)
      BY <3>10, <2>0 DEF Abandon
    <3>11. CASE Remove(i)
      BY <3>11, <2>0 DEF Remove
    <3> QED BY <2>3, <3>1, <3>2, <3>3, <3>4, <3>5, <3>6, <3>7, <3>8, <3>9, <3>10, <3>11 DEF StartStep, Await
  <2>4. ASSUME NEW i \in Forwards, ContextStep(i) PROVE ExitInv'
    <3>1. CASE LifetimeEnds(i)
      BY <3>1, <2>0 DEF LifetimeEnds
    <3>2. CASE CancelParent(i)
      BY <3>2, <2>0 DEF CancelParent
    <3>3. CASE RecordCancellation(i)
      BY <3>3, <2>0 DEF RecordCancellation
    <3>4. CASE StopOnCancellation(i)
      BY <3>4, <2>0 DEF StopOnCancellation
    <3> QED BY <2>4, <3>1, <3>2, <3>3, <3>4 DEF ContextStep
  <2>5. ASSUME NEW i \in Forwards, RunnerStep(i) PROVE ExitInv'
    <3>1. CASE BecomeReady(i)
      BY <3>1, <2>0 DEF BecomeReady
    <3>2. CASE ForwardPortsReturns(i)
      BY <3>2 DEF ForwardPortsReturns, Holding
    <3>3. CASE FilterError(i)
      BY <3>3 DEF FilterError, KeptError
    <3>4. CASE Deregister(i)
      BY <3>4 DEF Deregister
    <3>5. CASE RecordExit(i)
      BY <3>5 DEF RecordExit
    <3>6. CASE CloseDone(i)
      BY <3>6 DEF CloseDone
    <3>7. CASE ReportExit(i)
      BY <3>7 DEF ReportExit, CancelContext
    <3> QED BY <2>5, <3>1, <3>2, <3>3, <3>4, <3>5, <3>6, <3>7 DEF RunnerStep, ExitStep
  <2>6. ASSUME NEW i \in Forwards, ReceiveExit(i) PROVE ExitInv'
    BY <2>6 DEF ReceiveExit
  <2>7. ASSUME NEW s \in Stoppers, NEW i \in Forwards, StopPortForward(s, i) PROVE ExitInv'
    BY <2>7, <2>0 DEF StopPortForward
  <2>8. ASSUME NEW s \in Shutdowns, StopAll(s) PROVE ExitInv'
    BY <2>8, <2>0 DEF StopAll
  <2>9. ASSUME NEW s \in Callers, StopStep(s) PROVE ExitInv'
    <3>1. ASSUME NEW i \in Forwards, RequestNext(s, i) PROVE ExitInv'
      BY <3>1, <2>0 DEF RequestNext
    <3>2. ASSUME NEW i \in Forwards, SeeDone(s, i) PROVE ExitInv'
      BY <3>2, <2>0 DEF SeeDone
    <3>3. CASE AllRequested(s)
      BY <3>3, <2>0 DEF AllRequested
    <3>4. CASE StopReturns(s)
      BY <3>4, <2>0 DEF StopReturns
    <3> QED BY <2>9, <3>1, <3>2, <3>3, <3>4 DEF StopStep
  <2>10. ASSUME NEW s \in Callers, StopExpires(s) PROVE ExitInv'
    BY <2>10, <2>0 DEF StopExpires
  <2>11. CASE UNCHANGED vars
    BY <2>11, <2>0 DEF vars
  <2> QED
    BY <2>1, <2>2, <2>3, <2>4, <2>5, <2>6, <2>7, <2>8, <2>9, <2>10, <2>11 DEF Next
<1> QED BY <1>1, <1>2, TypeCorrect, RegistryCorrect, PTL DEF Spec

\* No stop call loses track of a target that may still hold its port.
THEOREM StopCorrect == Spec => []StopInv
<1>1. Init => StopInv
  BY DEF Init, StopInv, Callers
<1>2. TypeOK /\ RegistryInv /\ StopInv /\ [Next]_vars => StopInv'
  <2> SUFFICES ASSUME TypeOK, RegistryInv, StopInv, [Next]_vars PROVE StopInv'
    OBVIOUS
  <2> USE DEF TypeOK, RegistryInv, StopInv, connVars, startVars, ctxVars, regVars, runVars, stopVars
  <2>0. ASSUME UNCHANGED <<call, run, stopPc, target, todo, waits>> PROVE StopInv'
    BY <2>0 DEF HandedOut, Holding
  <2>1. CASE InstallConnection
    BY <2>1, <2>0 DEF InstallConnection
  <2>2. CASE CancelPrevious
    BY <2>2, <2>0 DEF CancelPrevious
  <2>3. ASSUME NEW i \in Forwards, StartStep(i) PROVE StopInv'
    <3>1. CASE RejectStart(i)
      BY <3>1 DEF RejectStart, FailStart, HandedOut, Holding, Callers
    <3>2. CASE OpenSession(i)
      BY <3>2 DEF OpenSession, HandedOut, Holding, Callers
    <3>3. CASE PrepareFails(i)
      BY <3>3 DEF PrepareFails, FailStart, CancelContext, HandedOut, Holding, Callers
    <3>4. CASE Launch(i)
      BY <3>4 DEF Launch, HandedOut, Holding, Callers
    <3>5. CASE AwaitReady(i)
      BY <3>5 DEF AwaitReady, AbandonWith, HandedOut, Holding, Callers
    <3>6. CASE AwaitEnd(i)
      BY <3>6 DEF AwaitEnd, AbandonWith, HandedOut, Holding, Callers
    <3>7. CASE AwaitTimeout(i)
      BY <3>7 DEF AwaitTimeout, AbandonWith, HandedOut, Holding, Callers
    <3>8. CASE MarkRunning(i)
      BY <3>8 DEF MarkRunning, HandedOut, Holding, Callers
    <3>9. CASE ReadLostCause(i)
      BY <3>9 DEF ReadLostCause, AbandonWith, HandedOut, Holding, Callers
    <3>10. CASE Abandon(i)
      BY <3>10 DEF Abandon, RequestStop, CancelContext, HandedOut, Holding, Callers
    <3>11. CASE Remove(i)
      BY <3>11 DEF Remove, HandedOut, Holding, Callers
    <3> QED BY <2>3, <3>1, <3>2, <3>3, <3>4, <3>5, <3>6, <3>7, <3>8, <3>9, <3>10, <3>11 DEF StartStep, Await
  <2>4. ASSUME NEW i \in Forwards, ContextStep(i) PROVE StopInv'
    <3>1. CASE LifetimeEnds(i)
      BY <3>1, <2>0 DEF LifetimeEnds
    <3>2. CASE CancelParent(i)
      BY <3>2, <2>0 DEF CancelParent
    <3>3. CASE RecordCancellation(i)
      BY <3>3, <2>0 DEF RecordCancellation
    <3>4. CASE StopOnCancellation(i)
      BY <3>4, <2>0 DEF StopOnCancellation
    <3> QED BY <2>4, <3>1, <3>2, <3>3, <3>4 DEF ContextStep
  <2>5. ASSUME NEW i \in Forwards, RunnerStep(i) PROVE StopInv'
    <3>1. CASE BecomeReady(i)
      BY <3>1, <2>0 DEF BecomeReady
    <3>2. CASE ForwardPortsReturns(i)
      BY <3>2 DEF ForwardPortsReturns, HandedOut, Holding, Callers
    <3>3. CASE FilterError(i)
      BY <3>3 DEF FilterError, KeptError, HandedOut, Holding, Callers
    <3>4. CASE Deregister(i)
      BY <3>4 DEF Deregister, HandedOut, Holding, Callers
    <3>5. CASE RecordExit(i)
      BY <3>5 DEF RecordExit, HandedOut, Holding, Callers
    <3>6. CASE CloseDone(i)
      BY <3>6 DEF CloseDone, HandedOut, Holding, Callers
    <3>7. CASE ReportExit(i)
      BY <3>7 DEF ReportExit, CancelContext, HandedOut, Holding, Callers
    <3> QED BY <2>5, <3>1, <3>2, <3>3, <3>4, <3>5, <3>6, <3>7 DEF RunnerStep, ExitStep
  <2>6. ASSUME NEW i \in Forwards, ReceiveExit(i) PROVE StopInv'
    BY <2>6, <2>0 DEF ReceiveExit
  <2>7. ASSUME NEW s \in Stoppers, NEW i \in Forwards, StopPortForward(s, i) PROVE StopInv'
    BY <2>7 DEF StopPortForward, HandedOut, Holding, Callers
  <2>8. ASSUME NEW s \in Shutdowns, StopAll(s) PROVE StopInv'
    BY <2>8 DEF StopAll, Active, HandedOut, Holding, Callers
  <2>9. ASSUME NEW s \in Callers, StopStep(s) PROVE StopInv'
    <3>1. ASSUME NEW i \in Forwards, RequestNext(s, i) PROVE StopInv'
      BY <3>1 DEF RequestNext, RequestStop, CancelContext, HandedOut, Holding, Callers
    <3>2. ASSUME NEW i \in Forwards, SeeDone(s, i) PROVE StopInv'
      BY <3>2 DEF SeeDone, HandedOut, Holding, Callers, Done
    <3>3. CASE AllRequested(s)
      BY <3>3 DEF AllRequested, HandedOut, Holding, Callers
    <3>4. CASE StopReturns(s)
      BY <3>4 DEF StopReturns, HandedOut, Holding, Callers
    <3> QED BY <2>9, <3>1, <3>2, <3>3, <3>4 DEF StopStep
  <2>10. ASSUME NEW s \in Callers, StopExpires(s) PROVE StopInv'
    BY <2>10 DEF StopExpires, HandedOut, Holding, Callers
  <2>11. CASE UNCHANGED vars
    BY <2>11, <2>0 DEF vars
  <2> QED
    BY <2>1, <2>2, <2>3, <2>4, <2>5, <2>6, <2>7, <2>8, <2>9, <2>10, <2>11 DEF Next
<1> QED BY <1>1, <1>2, TypeCorrect, RegistryCorrect, PTL DEF Spec

\* A stop call that returned in time leaves none of its targets holding a port.
THEOREM StoppedReleased == Spec => []StoppedMeansReleased
<1>1. StopInv => StoppedMeansReleased
  BY DEF StopInv, StoppedMeansReleased
<1> QED BY <1>1, StopCorrect, PTL

\* PortForwards lists only forwards that were handed out and have not ended.
THEOREM ListedOpen == Spec => []ListedMeansOpen
<1>1. TypeOK /\ RegistryInv => ListedMeansOpen
  BY DEF TypeOK, RegistryInv, ListedMeansOpen, PortForwards, HandedOut
<1> QED BY <1>1, TypeCorrect, RegistryCorrect, PTL

\* A failed start leaves no session, no linked context and no runner without a stop.
THEOREM FailedStartClean == Spec => []FailedStartLeavesNothing
<1>1. RegistryInv /\ ContextInv => FailedStartLeavesNothing
  BY DEF RegistryInv, ContextInv, FailedStartLeavesNothing
<1> QED BY <1>1, RegistryCorrect, ContextCorrect, PTL

\* StopPortForward returns the error that the exit of the forward carries.
THEOREM StopErrorIsExit == Spec => StopReportsExit
<1> DEFINE Reported == \A s \in Stoppers : \A i \in waits[s] \ waits'[s] : stopErr'[s] = runErr[i]
<1>1. TypeOK /\ ExitInv /\ [Next]_vars => [Reported]_vars
  <2> SUFFICES ASSUME TypeOK, ExitInv, Next, NEW r \in Stoppers, NEW j \in waits[r] \ waits'[r]
               PROVE  stopErr'[r] = runErr[j]
    OBVIOUS
  <2> USE DEF TypeOK, Callers
  <2>1. ASSUME NEW s \in Callers, NEW i \in Forwards, SeeDone(s, i) PROVE stopErr'[r] = runErr[j]
    <3>1. s = r /\ i = j
      BY <2>1 DEF SeeDone
    <3>2. exitError[i] = runErr[i]
      BY <2>1 DEF SeeDone, Done, ExitInv
    <3> QED BY <2>1, <3>1, <3>2 DEF SeeDone
  <2>2. ASSUME NEW s \in Callers, NEW i \in Forwards, RequestNext(s, i) PROVE FALSE
    BY <2>2 DEF RequestNext
  <2>3. ASSUME waits' = waits PROVE FALSE
    BY <2>3
  <2>4. ASSUME NEW i \in Forwards, StartStep(i) \/ ContextStep(i) \/ RunnerStep(i) \/ ReceiveExit(i)
        PROVE  FALSE
    <3> USE DEF stopVars
    <3>1. CASE StartStep(i)
      BY <3>1, <2>3 DEF StartStep, RejectStart, OpenSession, PrepareFails, Launch, Await, AwaitReady,
                        AwaitEnd, AwaitTimeout, MarkRunning, ReadLostCause, Abandon, Remove
    <3>2. CASE ContextStep(i)
      BY <3>2, <2>3 DEF ContextStep, LifetimeEnds, CancelParent, RecordCancellation, StopOnCancellation
    <3>3. CASE RunnerStep(i)
      BY <3>3, <2>3 DEF RunnerStep, ExitStep, BecomeReady, ForwardPortsReturns, FilterError, Deregister,
                        RecordExit, CloseDone, ReportExit
    <3>4. CASE ReceiveExit(i)
      BY <3>4, <2>3 DEF ReceiveExit
    <3> QED BY <2>4, <3>1, <3>2, <3>3, <3>4
  <2>5. CASE InstallConnection \/ CancelPrevious
    BY <2>5, <2>3 DEF InstallConnection, CancelPrevious, stopVars
  <2>6. ASSUME NEW s \in Stoppers, NEW i \in Forwards, StopPortForward(s, i) PROVE FALSE
    BY <2>6, <2>3 DEF StopPortForward
  <2>7. ASSUME NEW s \in Shutdowns, StopAll(s) PROVE FALSE
    BY <2>7, <2>3 DEF StopAll
  <2>8. ASSUME NEW s \in Callers, AllRequested(s) \/ StopReturns(s) \/ StopExpires(s) PROVE FALSE
    BY <2>8, <2>3 DEF AllRequested, StopReturns, StopExpires
  <2> QED BY <2>1, <2>2, <2>4, <2>5, <2>6, <2>7, <2>8 DEF Next, StopStep
<1> QED BY <1>1, TypeCorrect, ExitCorrect, PTL DEF Spec, StopReportsExit

\* What a stop that was requested in time leaves behind: an exit error that is nil, and a runner that
\* keeps none to record.
StaysClean(i) ==
    /\ stopRequested[i]
    /\ exitError[i] = "nil"
    /\ run[i] \in {"filtered", "finished", "recorded", "closed", "exited"} => runErr[i] = "nil"

\* No error is recorded before the runner records its own.
ErrorIsRecorded ==
    \A i \in Forwards : run[i] \in {"none", "forwarding", "returned", "filtered", "finished"} => exitError[i] = "nil"

\* Steps of every goroutine but the runner leave the error of the runner and that of the exit alone, and
\* no step takes a request to stop back.
LEMMA RunnerRecordsErrors ==
    ASSUME TypeOK, [Next]_vars
    PROVE  /\ \A i \in Forwards : stopRequested[i] => stopRequested'[i]
           /\ \/ UNCHANGED <<run, runErr, exitError>>
              \/ \E i \in Forwards : Launch(i) \/ RunnerStep(i)
<1> USE DEF TypeOK, connVars, startVars, ctxVars, regVars, runVars, stopVars
<1> DEFINE Kept == \A i \in Forwards : stopRequested[i] => stopRequested'[i]
           Alone == UNCHANGED <<run, runErr, exitError>>
<1>1. ASSUME NEW i \in Forwards, StartStep(i) PROVE Kept /\ (Alone \/ Launch(i))
  <2>1. ASSUME stopRequested' = stopRequested, Alone PROVE Kept /\ Alone
    BY <2>1
  <2>2. CASE RejectStart(i) \/ OpenSession(i) \/ PrepareFails(i) \/ Await(i) \/ MarkRunning(i)
             \/ ReadLostCause(i) \/ Remove(i)
    BY <2>2, <2>1 DEF RejectStart, OpenSession, PrepareFails, Await, AwaitReady, AwaitEnd, AwaitTimeout,
                      MarkRunning, ReadLostCause, Remove, AbandonWith
  <2>3. CASE Launch(i)
    BY <2>3 DEF Launch
  <2>4. CASE Abandon(i)
    BY <2>4 DEF Abandon, RequestStop
  <2> QED BY <1>1, <2>2, <2>3, <2>4 DEF StartStep
<1>2. ASSUME NEW i \in Forwards, ContextStep(i) PROVE Kept /\ Alone
  <2>1. CASE LifetimeEnds(i) \/ CancelParent(i) \/ RecordCancellation(i)
    BY <2>1 DEF LifetimeEnds, CancelParent, RecordCancellation
  <2>2. CASE StopOnCancellation(i)
    BY <2>2 DEF StopOnCancellation
  <2> QED BY <1>2, <2>1, <2>2 DEF ContextStep
<1>3. ASSUME NEW i \in Forwards, RunnerStep(i) PROVE Kept
  BY <1>3 DEF RunnerStep, ExitStep, BecomeReady, ForwardPortsReturns, FilterError, Deregister, RecordExit,
              CloseDone, ReportExit
<1>4. ASSUME NEW i \in Forwards, ReceiveExit(i) PROVE Kept /\ Alone
  BY <1>4 DEF ReceiveExit
<1>5. CASE InstallConnection \/ CancelPrevious
  BY <1>5 DEF InstallConnection, CancelPrevious
<1>6. ASSUME NEW s \in Callers, NEW i \in Forwards, RequestNext(s, i) PROVE Kept /\ Alone
  BY <1>6 DEF RequestNext, RequestStop
<1>7. ASSUME NEW s \in Callers,
             \/ \E i \in Forwards : StopPortForward(s, i) \/ SeeDone(s, i)
             \/ StopAll(s) \/ AllRequested(s) \/ StopReturns(s) \/ StopExpires(s)
      PROVE  Kept /\ Alone
  BY <1>7 DEF StopPortForward, SeeDone, StopAll, AllRequested, StopReturns, StopExpires
<1>8. CASE UNCHANGED vars
  BY <1>8 DEF vars
<1> QED BY <1>1, <1>2, <1>3, <1>4, <1>5, <1>6, <1>7, <1>8 DEF Next, StopStep, Callers

\* A forward has no exit error until its runner records one.
THEOREM ErrorsAreRecorded == Spec => []ErrorIsRecorded
<1>1. Init => ErrorIsRecorded
  BY DEF Init, ErrorIsRecorded
<1>2. TypeOK /\ RegistryInv /\ ErrorIsRecorded /\ [Next]_vars => ErrorIsRecorded'
  <2> SUFFICES ASSUME TypeOK, RegistryInv, ErrorIsRecorded, [Next]_vars PROVE ErrorIsRecorded'
    OBVIOUS
  <2>1. CASE UNCHANGED <<run, runErr, exitError>>
    BY <2>1 DEF ErrorIsRecorded
  <2>2. ASSUME NEW i \in Forwards, Launch(i) PROVE ErrorIsRecorded'
    BY <2>2 DEF Launch, ErrorIsRecorded, RegistryInv, TypeOK, runVars
  <2>3. ASSUME NEW i \in Forwards, RunnerStep(i) PROVE ErrorIsRecorded'
    BY <2>3 DEF RunnerStep, ExitStep, BecomeReady, ForwardPortsReturns, FilterError, Deregister, RecordExit,
                CloseDone, ReportExit, Holding, ErrorIsRecorded, TypeOK
  <2> QED BY <2>1, <2>2, <2>3, RunnerRecordsErrors
<1> QED BY <1>1, <1>2, TypeCorrect, RegistryCorrect, PTL DEF Spec

\* A forward that was asked to stop while it held its port never reports a failure, whatever
\* ForwardPorts returned: RequestedStopIsClean.
THEOREM RequestedStopClean == Spec => RequestedStopIsClean
<1>1. ASSUME NEW i \in Forwards PROVE Spec => [](stopRequested[i] /\ Holding(i) => [](exitError[i] = "nil"))
  <2>1. ErrorIsRecorded /\ stopRequested[i] /\ Holding(i) => StaysClean(i)
    BY DEF ErrorIsRecorded, Holding, StaysClean
  <2>2. TypeOK /\ RegistryInv /\ StaysClean(i) /\ [Next]_vars => StaysClean(i)'
    <3> SUFFICES ASSUME TypeOK, RegistryInv, StaysClean(i), [Next]_vars PROVE StaysClean(i)'
      OBVIOUS
    <3>1. stopRequested'[i]
      BY RunnerRecordsErrors DEF StaysClean
    <3>2. CASE UNCHANGED <<run, runErr, exitError>>
      BY <3>1, <3>2 DEF StaysClean
    <3>3. ASSUME NEW j \in Forwards, Launch(j) PROVE StaysClean(i)'
      BY <3>1, <3>3 DEF Launch, StaysClean, TypeOK, runVars
    <3>4. ASSUME NEW j \in Forwards, RunnerStep(j) PROVE StaysClean(i)'
      BY <3>1, <3>4 DEF RunnerStep, ExitStep, BecomeReady, ForwardPortsReturns, FilterError, KeptError,
                        Deregister, RecordExit, CloseDone, ReportExit, Holding, StaysClean, TypeOK
    <3> QED BY <3>2, <3>3, <3>4, RunnerRecordsErrors
  <2>3. StaysClean(i) => exitError[i] = "nil"
    BY DEF StaysClean
  <2> QED BY <2>1, <2>2, <2>3, TypeCorrect, RegistryCorrect, ErrorsAreRecorded, PTL DEF Spec
<1> QED BY <1>1 DEF RequestedStopIsClean

\* Every step of the goroutines is a step of the contract of a forward, or none.
THEOREM KeepsForwardContract == Spec => KeepsContract
<1> DEFINE Held == {i \in Forwards : Holding(i)}
           Told == {i \in Forwards : exit[i] # "empty"}
<1> USE DEF connVars, startVars, ctxVars, regVars, runVars, stopVars
<1>1. Init => Contract!Init
  BY DEF Init, Contract!Init, phaseBar, Holding
<1>2. TypeOK /\ RegistryInv /\ ExitInv /\ [Next]_vars => [Contract!Next]_(Contract!contractVars)
  <2> SUFFICES ASSUME TypeOK, RegistryInv, ExitInv, [Next]_vars
               PROVE  Contract!Next \/ UNCHANGED <<phaseBar, Held, Told>>
    BY DEF Contract!contractVars
  <2> USE DEF TypeOK
  <2>0. ASSUME UNCHANGED <<call, registry, run, exit>> PROVE UNCHANGED <<phaseBar, Held, Told>>
    BY <2>0 DEF phaseBar, Holding
  <2>1. ASSUME NEW i \in Forwards, StartStep(i)
        PROVE  Contract!Next \/ UNCHANGED <<phaseBar, Held, Told>>
    <3>1. CASE RejectStart(i)
      <4>0. call[i] = "idle" /\ call' = [call EXCEPT ![i] = "failed"] /\ registry' = registry
        BY <3>1 DEF RejectStart, FailStart
      <4>1. phaseBar' = [phaseBar EXCEPT ![i] = "failed"] /\ phaseBar[i] = "absent"
        BY <4>0 DEF phaseBar
      <4>2. UNCHANGED <<Held, Told>>
        BY <3>1 DEF RejectStart, Holding
      <4> QED BY <4>1, <4>2 DEF Contract!Next, Contract!Fail
    <3>2. CASE OpenSession(i)
      <4>1. phaseBar' = [phaseBar EXCEPT ![i] = "starting"] /\ phaseBar[i] = "absent"
        <5>1. call[i] = "idle" /\ call' = [call EXCEPT ![i] = "prepared"] /\ registry' = registry
          BY <3>2 DEF OpenSession
        <5> QED BY <5>1 DEF phaseBar
      <4>2. UNCHANGED <<Held, Told>>
        BY <3>2 DEF OpenSession, Holding
      <4> QED BY <4>1, <4>2 DEF Contract!Next, Contract!Begin
    <3>3. CASE PrepareFails(i)
      <4>1. phaseBar' = [phaseBar EXCEPT ![i] = "failed"] /\ phaseBar[i] = "absent"
        <5>1. call[i] = "idle" /\ call' = [call EXCEPT ![i] = "failed"] /\ registry' = registry
          BY <3>3 DEF PrepareFails, FailStart
        <5> QED BY <5>1 DEF phaseBar
      <4>2. UNCHANGED <<Held, Told>>
        BY <3>3 DEF PrepareFails, Holding
      <4> QED BY <4>1, <4>2 DEF Contract!Next, Contract!Fail
    <3>4. CASE Launch(i)
      <4>1. UNCHANGED <<phaseBar, Told>> /\ phaseBar[i] = "starting"
        <5>1. /\ call[i] = "prepared"
              /\ call' = [call EXCEPT ![i] = "waiting"]
              /\ registry' = registry \cup {i}
              /\ UNCHANGED exit
          BY <3>4 DEF Launch
        <5>2. UNCHANGED Told
          BY <5>1
        <5> QED BY <5>1, <5>2 DEF phaseBar
      <4>2. Held' = Held \cup {i}
        BY <3>4 DEF Launch, Holding
      <4>3. i \notin Told
        BY <3>4 DEF Launch, RegistryInv, ExitInv
      <4> QED BY <4>1, <4>2, <4>3 DEF Contract!Next, Contract!Bind
    <3>5. CASE Await(i)
      <4>1. UNCHANGED phaseBar
        BY <3>5 DEF Await, AwaitReady, AwaitEnd, AwaitTimeout, AbandonWith, phaseBar
      <4>2. UNCHANGED <<Held, Told>>
        BY <3>5 DEF Await, AwaitReady, AwaitEnd, AwaitTimeout, AbandonWith, Holding
      <4> QED BY <4>1, <4>2
    <3>6. CASE MarkRunning(i)
      <4>1. UNCHANGED <<Held, Told>>
        BY <3>6 DEF MarkRunning, Holding
      <4>2. CASE i \in registry
        <5>1. phaseBar' = [phaseBar EXCEPT ![i] = "open"] /\ phaseBar[i] = "starting"
          <6>1. call[i] = "marking" /\ call' = [call EXCEPT ![i] = "returned"] /\ registry' = registry
            BY <3>6, <4>2 DEF MarkRunning
          <6> QED BY <6>1, <4>2 DEF phaseBar
        <5> QED BY <4>1, <5>1 DEF Contract!Next, Contract!Open
      <4>3. CASE i \notin registry
        <5>1. UNCHANGED phaseBar
          <6>1. call[i] = "marking" /\ call' = [call EXCEPT ![i] = "lost"] /\ registry' = registry
            BY <3>6, <4>3 DEF MarkRunning
          <6> QED BY <6>1 DEF phaseBar
        <5> QED BY <4>1, <5>1
      <4> QED BY <4>2, <4>3
    <3>7. CASE ReadLostCause(i)
      <4>1. UNCHANGED <<phaseBar, Held, Told>>
        BY <3>7 DEF ReadLostCause, AbandonWith, phaseBar, Holding
      <4> QED BY <4>1
    <3>8. CASE Abandon(i)
      <4>1. UNCHANGED <<phaseBar, Held, Told>>
        BY <3>8 DEF Abandon, phaseBar, Holding
      <4> QED BY <4>1
    <3>9. CASE Remove(i)
      <4>1. phaseBar' = [phaseBar EXCEPT ![i] = "failed"] /\ phaseBar[i] = "starting"
        <5>1. /\ call[i] = "removing"
              /\ call' = [call EXCEPT ![i] = "failed"]
              /\ registry' = registry \ {i}
          BY <3>9 DEF Remove
        <5> QED BY <5>1 DEF phaseBar
      <4>2. UNCHANGED <<Held, Told>>
        BY <3>9 DEF Remove, Holding
      <4> QED BY <4>1, <4>2 DEF Contract!Next, Contract!Fail
    <3> QED BY <2>1, <3>1, <3>2, <3>3, <3>4, <3>5, <3>6, <3>7, <3>8, <3>9 DEF StartStep
  <2>2. ASSUME NEW i \in Forwards, ContextStep(i) PROVE UNCHANGED <<phaseBar, Held, Told>>
    BY <2>0, <2>2 DEF ContextStep, LifetimeEnds, CancelParent, RecordCancellation, StopOnCancellation
  <2>3. ASSUME NEW i \in Forwards, RunnerStep(i)
        PROVE  Contract!Next \/ UNCHANGED <<phaseBar, Held, Told>>
    <3>1. CASE BecomeReady(i)
      BY <3>1, <2>0 DEF BecomeReady
    <3>2. CASE ForwardPortsReturns(i)
      <4>1. UNCHANGED <<phaseBar, Told>>
        BY <3>2 DEF ForwardPortsReturns, phaseBar
      <4>2. Held' = Held \ {i} /\ i \in Held
        BY <3>2 DEF ForwardPortsReturns, Holding
      <4> QED BY <4>1, <4>2 DEF Contract!Next, Contract!Release
    <3>3. CASE FilterError(i) \/ RecordExit(i) \/ CloseDone(i)
      <4>1. UNCHANGED <<phaseBar, Held, Told>>
        BY <3>3 DEF FilterError, RecordExit, CloseDone, phaseBar, Holding
      <4> QED BY <4>1
    <3>4. CASE Deregister(i)
      <4>1. UNCHANGED <<Held, Told>> /\ i \notin Held
        BY <3>4 DEF Deregister, Holding
      <4>2. CASE call[i] = "returned"
        <5>1. phaseBar' = [phaseBar EXCEPT ![i] = "ended"] /\ phaseBar[i] = "open"
          <6>1. i \in registry /\ call' = call /\ registry' = registry \ {i}
            BY <3>4, <4>2 DEF Deregister, RegistryInv
          <6> QED BY <6>1, <4>2 DEF phaseBar
        <5> QED BY <4>1, <5>1 DEF Contract!Next, Contract!End
      <4>3. CASE call[i] # "returned"
        <5>1. UNCHANGED phaseBar
          <6>1. call' = call /\ registry' = registry \ {i}
            BY <3>4 DEF Deregister
          <6> QED BY <6>1, <4>3 DEF phaseBar
        <5> QED BY <4>1, <5>1
      <4> QED BY <4>2, <4>3
    <3>5. CASE ReportExit(i)
      <4>1. UNCHANGED <<phaseBar, Held>> /\ i \notin Held
        BY <3>5 DEF ReportExit, Holding, phaseBar
      <4>2. Told' = Told \cup {i} /\ i \notin Told
        BY <3>5 DEF ReportExit, ExitInv
      <4>3. phaseBar[i] \in {"starting", "ended", "failed"}
        BY <3>5 DEF ReportExit, phaseBar, RegistryInv, CallState
      <4> QED BY <4>1, <4>2, <4>3 DEF Contract!Next, Contract!Report
    <3> QED BY <2>3, <3>1, <3>2, <3>3, <3>4, <3>5 DEF RunnerStep, ExitStep
  <2>4. ASSUME NEW i \in Forwards, ReceiveExit(i) PROVE UNCHANGED <<phaseBar, Held, Told>>
    <3>1. UNCHANGED <<phaseBar, Held>>
      BY <2>4 DEF ReceiveExit, phaseBar, Holding
    <3>2. UNCHANGED Told
      BY <2>4 DEF ReceiveExit
    <3> QED BY <3>1, <3>2
  <2>5. CASE InstallConnection \/ CancelPrevious
    BY <2>5, <2>0 DEF InstallConnection, CancelPrevious
  <2>6. ASSUME NEW s \in Stoppers, NEW i \in Forwards, StopPortForward(s, i)
        PROVE  UNCHANGED <<phaseBar, Held, Told>>
    BY <2>6, <2>0 DEF StopPortForward
  <2>7. ASSUME NEW s \in Shutdowns, StopAll(s) PROVE UNCHANGED <<phaseBar, Held, Told>>
    BY <2>7, <2>0 DEF StopAll
  <2>8. ASSUME NEW s \in Callers, StopStep(s) \/ StopExpires(s) PROVE UNCHANGED <<phaseBar, Held, Told>>
    BY <2>8, <2>0 DEF StopStep, RequestNext, SeeDone, AllRequested, StopReturns, StopExpires
  <2>9. CASE UNCHANGED vars
    BY <2>9, <2>0 DEF vars
  <2> QED BY <2>1, <2>2, <2>3, <2>4, <2>5, <2>6, <2>7, <2>8, <2>9 DEF Next
<1> QED BY <1>1, <1>2, TypeCorrect, RegistryCorrect, ExitCorrect, PTL DEF Spec, KeepsContract, Contract!Spec
=============================================================================
