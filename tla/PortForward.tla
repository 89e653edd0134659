---------------------------- MODULE PortForward ----------------------------
(***************************************************************************)
(* Port forwards of the cluster manager, internal/kube/portforward.go.     *)
(*                                                                         *)
(* A forward is shared by four kinds of goroutine:                         *)
(*   - the StartPortForward call that creates it and waits until it is     *)
(*     ready, has ended, was cancelled or took too long;                   *)
(*   - its runner goroutine (runPortForward), which forwards until it      *)
(*     fails or is told to stop, then reports its exit;                    *)
(*   - the callback of context.AfterFunc, which turns a cancelled context  *)
(*     into a stop request;                                                *)
(*   - the StopPortForward and StopAllPortForwards calls.                  *)
(* The registry, the manager's map of sessions, is what they agree on.     *)
(*                                                                         *)
(* A forward's context is linked to the caller's context and to the        *)
(* lifetime of the connection it was opened on (linkedContext), so that    *)
(* replacing the connection ends it.                                       *)
(*                                                                         *)
(* requestStop is one step: it runs inside sync.Once, and what separates   *)
(* its three effects is not observed by any other goroutine.               *)
(***************************************************************************)
EXTENDS Naturals, FiniteSets

CONSTANTS
    Forwards,       \* calls of StartPortForward; each creates at most one forward
    Stoppers,       \* calls of StopPortForward
    Shutdowns,      \* calls of StopAllPortForwards
    MaxGeneration   \* bound on the number of connections installed

ASSUME GenerationBound == MaxGeneration \in Nat

Callers == Stoppers \cup Shutdowns

VARIABLES
    generation,     \* the manager's connection, 0 before the first one
    ended,          \* connections whose lifetime has been cancelled
    call,           \* where the StartPortForward call stands
    cause,          \* why it failed
    lifetimeOf,     \* the connection the forward's context is linked to
    parentCanceled, \* the caller's context
    ctxCanceled,    \* the linked context
    watch,          \* the AfterFunc callback on the linked context
    registry,       \* forwards in the manager's map
    running,        \* forwards whose info.Status is Running
    ready,          \* the runner has closed the ready channel
    stopRequested,  \* requestStop has run: flag set, stop channel closed
    run,            \* where the runner goroutine stands
    runErr,         \* its runErr local
    exitError,      \* the exit error other goroutines read
    exit,           \* the exit channel, capacity one
    stopPc,         \* where a stop call stands
    target,         \* the forwards it was asked to stop (see StopAll)
    todo,           \* those it has yet to request
    waits,          \* those whose done channel it has yet to see closed
    stopErr         \* what it returns

connVars  == <<generation, ended>>
startVars == <<call, cause, lifetimeOf>>
ctxVars   == <<parentCanceled, ctxCanceled, watch>>
regVars   == <<registry, running>>
runVars   == <<ready, run, runErr, exitError, exit>>
stopVars  == <<stopPc, target, todo, waits, stopErr>>
vars == <<connVars, startVars, ctxVars, regVars, runVars, stopRequested, stopVars>>

CallState  == {"idle", "prepared", "waiting", "marking", "lost",
               "abandoning", "removing", "returned", "failed"}
Causes     == {"none", "unavailable", "canceled", "notReady", "timeout", "failure"}
WatchState == {"none", "armed", "fired", "recorded", "ran", "stopped"}
RunState   == {"none", "forwarding", "returned", "filtered", "finished",
               "recorded", "closed", "exited"}
Errors     == {"nil", "failure"}
ExitState  == {"empty", "sent", "taken"}
StopState  == {"idle", "requesting", "waiting", "returned", "expired"}

TypeOK ==
    /\ generation \in 0 .. MaxGeneration
    /\ ended \subseteq 1 .. MaxGeneration
    /\ call \in [Forwards -> CallState]
    /\ cause \in [Forwards -> Causes]
    /\ lifetimeOf \in [Forwards -> 0 .. MaxGeneration]
    /\ parentCanceled \in [Forwards -> BOOLEAN]
    /\ ctxCanceled \in [Forwards -> BOOLEAN]
    /\ watch \in [Forwards -> WatchState]
    /\ registry \subseteq Forwards
    /\ running \subseteq Forwards
    /\ ready \in [Forwards -> BOOLEAN]
    /\ stopRequested \in [Forwards -> BOOLEAN]
    /\ run \in [Forwards -> RunState]
    /\ runErr \in [Forwards -> Errors]
    /\ exitError \in [Forwards -> Errors]
    /\ exit \in [Forwards -> ExitState]
    /\ stopPc \in [Callers -> StopState]
    /\ target \in [Callers -> SUBSET Forwards]
    /\ todo \in [Callers -> SUBSET Forwards]
    /\ waits \in [Callers -> SUBSET Forwards]
    /\ stopErr \in [Callers -> Errors]

Init ==
    /\ generation = 0
    /\ ended = {}
    /\ call = [i \in Forwards |-> "idle"]
    /\ cause = [i \in Forwards |-> "none"]
    /\ lifetimeOf = [i \in Forwards |-> 0]
    /\ parentCanceled = [i \in Forwards |-> FALSE]
    /\ ctxCanceled = [i \in Forwards |-> FALSE]
    /\ watch = [i \in Forwards |-> "none"]
    /\ registry = {}
    /\ running = {}
    /\ ready = [i \in Forwards |-> FALSE]
    /\ stopRequested = [i \in Forwards |-> FALSE]
    /\ run = [i \in Forwards |-> "none"]
    /\ runErr = [i \in Forwards |-> "nil"]
    /\ exitError = [i \in Forwards |-> "nil"]
    /\ exit = [i \in Forwards |-> "empty"]
    /\ stopPc = [s \in Callers |-> "idle"]
    /\ target = [s \in Callers |-> {}]
    /\ todo = [s \in Callers |-> {}]
    /\ waits = [s \in Callers |-> {}]
    /\ stopErr = [s \in Callers |-> "nil"]

----------------------------------------------------------------------------
(* Helpers *)

\* Mutants of Done: the stop request taken for the end; closed before the error is there.
DoneWhenRequested(i) == stopRequested[i]
DoneTooEarly(i) == run[i] \in {"finished", "recorded", "closed", "exited"}

\* The done channel is closed.
Done(i) == run[i] \in {"closed", "exited"}

\* The process holds its local port: ForwardPorts has not returned.
Holding(i) == run[i] = "forwarding"

\* The handle of the forward, and so its session ID, is known outside.
HandedOut == {i \in Forwards : call[i] = "returned"}

\* The forwards that Manager.PortForwards lists.
PortForwards == registry \cap running

\* registry.active
Active == registry

\* process.contextCanceled
ContextCanceled(i) == watch[i] \in {"recorded", "ran"}

\* A fault to be told apart: the callback that watches the context is not run.
CancelUnwatched(i) == ctxCanceled' = [ctxCanceled EXCEPT ![i] = TRUE] /\ UNCHANGED watch

\* Cancelling a linked context starts its AfterFunc callback, if one is armed.
CancelContext(i) ==
    /\ ctxCanceled' = [ctxCanceled EXCEPT ![i] = TRUE]
    /\ watch' = [watch EXCEPT ![i] = IF @ = "armed" THEN "fired" ELSE @]

\* requestStop: the first call wins and the others change nothing.
RequestStop(i) ==
    /\ stopRequested' = [stopRequested EXCEPT ![i] = TRUE]
    /\ IF stopRequested[i] THEN UNCHANGED <<ctxCanceled, watch>> ELSE CancelContext(i)

\* portForwardCancellation followed by portForwardStartCause
StartCause(i) ==
    IF parentCanceled[i] \/ ContextCanceled(i) THEN "canceled"
    ELSE IF exitError[i] = "failure" THEN "failure" ELSE "notReady"

----------------------------------------------------------------------------
(* The connection, as far as a forward depends on it (Manager.Connect) *)

InstallConnection ==
    /\ generation < MaxGeneration
    /\ 1 .. (generation - 1) \subseteq ended    \* connectMu: the previous Connect is over
    /\ generation' = generation + 1
    /\ UNCHANGED <<ended, startVars, ctxVars, regVars, runVars, stopRequested, stopVars>>

CancelPrevious ==
    /\ generation > 1
    /\ ended' = ended \cup {generation - 1}
    /\ UNCHANGED <<generation, startVars, ctxVars, regVars, runVars, stopRequested, stopVars>>

\* The callback that linkedContext registers on the lifetime of the connection.
LifetimeEnds(i) ==
    /\ lifetimeOf[i] \in ended
    /\ ~ctxCanceled[i]
    /\ CancelContext(i)
    /\ UNCHANGED <<connVars, startVars, parentCanceled, regVars, runVars, stopRequested, stopVars>>

\* The caller gives up; a child context is cancelled by the same call.
CancelParent(i) ==
    /\ ~parentCanceled[i]
    /\ parentCanceled' = [parentCanceled EXCEPT ![i] = TRUE]
    /\ IF lifetimeOf[i] = 0 THEN UNCHANGED <<ctxCanceled, watch>> ELSE CancelContext(i)
    /\ UNCHANGED <<connVars, startVars, regVars, runVars, stopRequested, stopVars>>

----------------------------------------------------------------------------
(* StartPortForward *)

FailStart(i, why) ==
    /\ call' = [call EXCEPT ![i] = "failed"]
    /\ cause' = [cause EXCEPT ![i] = why]

\* The checks that come before anything is created.
RejectStart(i) ==
    /\ call[i] = "idle"
    /\ \/ parentCanceled[i] /\ FailStart(i, "canceled")
       \/ generation = 0 /\ ~parentCanceled[i] /\ FailStart(i, "unavailable")
    /\ UNCHANGED <<connVars, lifetimeOf, ctxVars, regVars, runVars, stopRequested, stopVars>>

\* clientSession links a context to the caller's and to the connection; preparePortForward
\* builds the process and its runner.
OpenSession(i) ==
    /\ call[i] = "idle"
    /\ ~parentCanceled[i]
    /\ generation > 0
    /\ call' = [call EXCEPT ![i] = "prepared"]
    /\ lifetimeOf' = [lifetimeOf EXCEPT ![i] = generation]
    /\ UNCHANGED <<connVars, cause, ctxVars, regVars, runVars, stopRequested, stopVars>>

\* The forward cannot be built: the context just linked is released.
PrepareFails(i) ==
    /\ call[i] = "idle"
    /\ ~parentCanceled[i]
    /\ generation > 0
    /\ FailStart(i, "unavailable")
    /\ lifetimeOf' = [lifetimeOf EXCEPT ![i] = generation]
    /\ CancelContext(i)
    /\ UNCHANGED <<connVars, parentCanceled, regVars, runVars, stopRequested, stopVars>>

\* AfterFunc on the linked context, registry.add, and the runner goroutine.
Launch(i) ==
    /\ call[i] = "prepared"
    /\ call' = [call EXCEPT ![i] = "waiting"]
    /\ watch' = [watch EXCEPT ![i] = IF ctxCanceled[i] THEN "fired" ELSE "armed"]
    /\ registry' = registry \cup {i}
    /\ run' = [run EXCEPT ![i] = "forwarding"]
    /\ UNCHANGED <<connVars, cause, lifetimeOf, parentCanceled, ctxCanceled, running,
                   ready, runErr, exitError, exit, stopRequested, stopVars>>

AbandonWith(i, why) ==
    /\ call' = [call EXCEPT ![i] = "abandoning"]
    /\ cause' = [cause EXCEPT ![i] = why]

\* The cases of the select in awaitPortForwardStart; any that is enabled may be taken.
AwaitReady(i) ==
    /\ call[i] = "waiting"
    /\ ready[i]
    /\ IF parentCanceled[i] \/ ContextCanceled(i)
       THEN AbandonWith(i, "canceled")
       ELSE call' = [call EXCEPT ![i] = "marking"] /\ UNCHANGED cause
    /\ UNCHANGED <<connVars, lifetimeOf, ctxVars, regVars, runVars, stopRequested, stopVars>>

AwaitEnd(i) ==
    /\ call[i] = "waiting"
    /\ Done(i) \/ ctxCanceled[i]
    /\ AbandonWith(i, StartCause(i))
    /\ UNCHANGED <<connVars, lifetimeOf, ctxVars, regVars, runVars, stopRequested, stopVars>>

\* Mutant of AwaitTimeout: no readiness timer.
AwaitNoTimeout(i) == FALSE

AwaitTimeout(i) ==
    /\ call[i] = "waiting"
    /\ AbandonWith(i, "timeout")
    /\ UNCHANGED <<connVars, lifetimeOf, ctxVars, regVars, runVars, stopRequested, stopVars>>

\* Mutant of MarkRunning: the handle is returned whether or not the session is registered.
MarkUnregistered(i) ==
    /\ call[i] = "marking"
    /\ running' = running \cup {i}
    /\ call' = [call EXCEPT ![i] = "returned"]
    /\ UNCHANGED <<connVars, cause, lifetimeOf, ctxVars, registry, runVars, stopRequested, stopVars>>

\* registry.markRunning, under the registry's lock
MarkRunning(i) ==
    /\ call[i] = "marking"
    /\ IF i \in registry
       THEN running' = running \cup {i} /\ call' = [call EXCEPT ![i] = "returned"]
       ELSE call' = [call EXCEPT ![i] = "lost"] /\ UNCHANGED running
    /\ UNCHANGED <<connVars, cause, lifetimeOf, ctxVars, registry, runVars, stopRequested, stopVars>>

\* markRunning found no session: portForwardStartCause reads the exit error.
ReadLostCause(i) ==
    /\ call[i] = "lost"
    /\ AbandonWith(i, IF exitError[i] = "failure" THEN "failure" ELSE "notReady")
    /\ UNCHANGED <<connVars, lifetimeOf, ctxVars, regVars, runVars, stopRequested, stopVars>>

Abandon(i) ==
    /\ call[i] = "abandoning"
    /\ call' = [call EXCEPT ![i] = "removing"]
    /\ RequestStop(i)
    /\ UNCHANGED <<connVars, cause, lifetimeOf, parentCanceled, regVars, runVars, stopVars>>

Remove(i) ==
    /\ call[i] = "removing"
    /\ call' = [call EXCEPT ![i] = "failed"]
    /\ registry' = registry \ {i}
    /\ UNCHANGED <<connVars, cause, lifetimeOf, ctxVars, running, runVars, stopRequested, stopVars>>

----------------------------------------------------------------------------
(* The context callback, cancelFromContext *)

RecordCancellation(i) ==
    /\ watch[i] = "fired"
    /\ watch' = [watch EXCEPT ![i] = "recorded"]
    /\ UNCHANGED <<connVars, startVars, parentCanceled, ctxCanceled, regVars, runVars, stopRequested, stopVars>>

StopOnCancellation(i) ==
    /\ watch[i] = "recorded"
    /\ watch' = [watch EXCEPT ![i] = "ran"]
    /\ stopRequested' = [stopRequested EXCEPT ![i] = TRUE]    \* its context is already cancelled
    /\ UNCHANGED <<connVars, startVars, parentCanceled, ctxCanceled, regVars, runVars, stopVars>>

----------------------------------------------------------------------------
(* The runner goroutine, runPortForward *)

\* The client library closes the ready channel once the port is bound.
BecomeReady(i) ==
    /\ Holding(i)
    /\ ~ready[i]
    /\ ready' = [ready EXCEPT ![i] = TRUE]
    /\ UNCHANGED <<connVars, startVars, ctxVars, regVars, run, runErr, exitError, exit, stopRequested, stopVars>>

\* ForwardPorts returns: by itself at any time, or because stop was closed.
ForwardPortsReturns(i) ==
    /\ Holding(i)
    /\ run' = [run EXCEPT ![i] = "returned"]
    /\ \E e \in Errors : runErr' = [runErr EXCEPT ![i] = e]
    /\ UNCHANGED <<connVars, startVars, ctxVars, regVars, ready, exitError, exit, stopRequested, stopVars>>

\* Mutant of KeptError: the runner's error is kept after a requested stop.
KeptAlways(i) == runErr[i]

\* An error that follows a requested stop is not reported.
KeptError(i) == IF stopRequested[i] THEN "nil" ELSE runErr[i]

FilterError(i) ==
    /\ run[i] = "returned"
    /\ run' = [run EXCEPT ![i] = "filtered"]
    /\ runErr' = [runErr EXCEPT ![i] = KeptError(i)]
    /\ UNCHANGED <<connVars, startVars, ctxVars, regVars, ready, exitError, exit, stopRequested, stopVars>>

Deregister(i) ==
    /\ run[i] = "filtered"
    /\ run' = [run EXCEPT ![i] = "finished"]
    /\ registry' = registry \ {i}
    /\ UNCHANGED <<connVars, startVars, ctxVars, running, ready, runErr, exitError, exit, stopRequested, stopVars>>

\* complete: stop the context callback if it has not started, record the error.
RecordExit(i) ==
    /\ run[i] = "finished"
    /\ run' = [run EXCEPT ![i] = "recorded"]
    /\ exitError' = [exitError EXCEPT ![i] = runErr[i]]
    /\ watch' = [watch EXCEPT ![i] = IF @ = "armed" THEN "stopped" ELSE @]
    /\ UNCHANGED <<connVars, startVars, parentCanceled, ctxCanceled, regVars, ready, runErr, exit,
                   stopRequested, stopVars>>

CloseDone(i) ==
    /\ run[i] = "recorded"
    /\ run' = [run EXCEPT ![i] = "closed"]
    /\ UNCHANGED <<connVars, startVars, ctxVars, regVars, ready, runErr, exitError, exit, stopRequested, stopVars>>

\* Mutant of ExitRoom: an unbuffered channel, whose send waits for a reader.
ExitUnbuffered(i) == i \in HandedOut

\* The exit channel holds one value, so its only send does not block.
ExitRoom(i) == exit[i] = "empty"

ReportExit(i) ==
    /\ run[i] = "closed"
    /\ ExitRoom(i)
    /\ run' = [run EXCEPT ![i] = "exited"]
    /\ exit' = [exit EXCEPT ![i] = "sent"]
    /\ CancelContext(i)
    /\ UNCHANGED <<connVars, startVars, parentCanceled, regVars, ready, runErr, exitError, stopRequested, stopVars>>

\* The owner of the handle reads the exit channel (ui/cluster WaitForPortForwardExit).
ReceiveExit(i) ==
    /\ i \in HandedOut
    /\ exit[i] = "sent"
    /\ exit' = [exit EXCEPT ![i] = "taken"]
    /\ UNCHANGED <<connVars, startVars, ctxVars, regVars, ready, run, runErr, exitError, stopRequested, stopVars>>

----------------------------------------------------------------------------
(* StopPortForward and StopAllPortForwards *)

StopPortForward(s, i) ==
    /\ stopPc[s] = "idle"
    /\ i \in HandedOut
    /\ stopPc' = [stopPc EXCEPT ![s] = "requesting"]
    /\ target' = [target EXCEPT ![s] = {i}]
    /\ todo' = [todo EXCEPT ![s] = {i} \cap registry]
    /\ UNCHANGED <<connVars, startVars, ctxVars, regVars, runVars, stopRequested, waits, stopErr>>

\* "target" remembers the forwards a caller held when it asked for all to stop; the
\* code takes a snapshot of the registry.
StopAll(s) ==
    /\ stopPc[s] = "idle"
    /\ stopPc' = [stopPc EXCEPT ![s] = "requesting"]
    /\ target' = [target EXCEPT ![s] = HandedOut]
    /\ todo' = [todo EXCEPT ![s] = Active]
    /\ UNCHANGED <<connVars, startVars, ctxVars, regVars, runVars, stopRequested, waits, stopErr>>

RequestNext(s, i) ==
    /\ stopPc[s] = "requesting"
    /\ i \in todo[s]
    /\ todo' = [todo EXCEPT ![s] = @ \ {i}]
    /\ waits' = [waits EXCEPT ![s] = @ \cup {i}]
    /\ RequestStop(i)
    /\ UNCHANGED <<connVars, startVars, parentCanceled, regVars, runVars, stopPc, target, stopErr>>

AllRequested(s) ==
    /\ stopPc[s] = "requesting"
    /\ todo[s] = {}
    /\ stopPc' = [stopPc EXCEPT ![s] = "waiting"]
    /\ UNCHANGED <<connVars, startVars, ctxVars, regVars, runVars, stopRequested, target, todo, waits, stopErr>>

\* Only StopPortForward returns the exit error of the process.
SeeDone(s, i) ==
    /\ stopPc[s] = "waiting"
    /\ i \in waits[s]
    /\ Done(i)
    /\ waits' = [waits EXCEPT ![s] = @ \ {i}]
    /\ stopErr' = IF s \in Stoppers THEN [stopErr EXCEPT ![s] = exitError[i]] ELSE stopErr
    /\ UNCHANGED <<connVars, startVars, ctxVars, regVars, runVars, stopRequested, stopPc, target, todo>>

StopReturns(s) ==
    /\ stopPc[s] = "waiting"
    /\ waits[s] = {}
    /\ stopPc' = [stopPc EXCEPT ![s] = "returned"]
    /\ UNCHANGED <<connVars, startVars, ctxVars, regVars, runVars, stopRequested, target, todo, waits, stopErr>>

\* The context of the stop call ends first.
StopExpires(s) ==
    /\ stopPc[s] = "waiting"
    /\ waits[s] # {}
    /\ stopPc' = [stopPc EXCEPT ![s] = "expired"]
    /\ UNCHANGED <<connVars, startVars, ctxVars, regVars, runVars, stopRequested, target, todo, waits, stopErr>>

----------------------------------------------------------------------------
(* Specification *)

Await(i) == AwaitReady(i) \/ AwaitEnd(i) \/ AwaitTimeout(i)

StartStep(i) ==
    \/ RejectStart(i) \/ OpenSession(i) \/ PrepareFails(i) \/ Launch(i)
    \/ Await(i) \/ MarkRunning(i) \/ ReadLostCause(i) \/ Abandon(i) \/ Remove(i)

ContextStep(i) == LifetimeEnds(i) \/ CancelParent(i) \/ RecordCancellation(i) \/ StopOnCancellation(i)

\* What the runner goroutine does once ForwardPorts has returned.
ExitStep(i) ==
    FilterError(i) \/ Deregister(i) \/ RecordExit(i) \/ CloseDone(i) \/ ReportExit(i)

RunnerStep(i) == BecomeReady(i) \/ ForwardPortsReturns(i) \/ ExitStep(i)

StopStep(s) ==
    \/ \E i \in Forwards : RequestNext(s, i) \/ SeeDone(s, i)
    \/ AllRequested(s) \/ StopReturns(s)

Next ==
    \/ InstallConnection \/ CancelPrevious
    \/ \E i \in Forwards : StartStep(i) \/ ContextStep(i) \/ RunnerStep(i) \/ ReceiveExit(i)
    \/ \E s \in Stoppers, i \in Forwards : StopPortForward(s, i)
    \/ \E s \in Shutdowns : StopAll(s)
    \/ \E s \in Callers : StopStep(s) \/ StopExpires(s)

Spec == Init /\ [][Next]_vars

\* Every goroutine keeps running. ForwardPorts is owed a return only once its stop
\* channel is closed; a caller need not start or stop anything.
Fairness ==
    /\ WF_vars(CancelPrevious)
    /\ \A i \in Forwards :
        /\ WF_vars(StartStep(i) /\ call[i] # "idle")
        /\ WF_vars(LifetimeEnds(i))
        /\ WF_vars(RecordCancellation(i) \/ StopOnCancellation(i))
        /\ WF_vars(stopRequested[i] /\ ForwardPortsReturns(i))
        /\ WF_vars(ExitStep(i))
        /\ WF_vars(ReceiveExit(i))
    /\ \A s \in Callers : WF_vars(StopStep(s))

FairSpec == Spec /\ Fairness

----------------------------------------------------------------------------
(* Safety *)

\* A stop call that returned without expiring leaves none of the forwards it was asked
\* to stop holding its local port, even when the session had already left the registry
\* (StopPortForward returns nil for an unknown session).
StoppedMeansReleased ==
    \A s \in Callers : stopPc[s] = "returned" => \A i \in target[s] : ~Holding(i)

\* PortForwards lists a forward only after its start succeeded and before its runner
\* has left the registry; an abandoned start never shows up in it.
ListedMeansOpen ==
    \A i \in PortForwards : i \in HandedOut /\ run[i] \in {"forwarding", "returned", "filtered"}

\* A start that failed leaves no session in the registry, no context linked to the
\* connection, and no runner that was not told to stop.
FailedStartLeavesNothing ==
    \A i \in Forwards : call[i] = "failed" =>
        /\ i \notin registry
        /\ lifetimeOf[i] # 0 => ctxCanceled[i]
        /\ run[i] # "none" => stopRequested[i]

\* The error StopPortForward reads once done is closed is the one its exit carries.
StopReportsExit ==
    [][\A s \in Stoppers : \A i \in waits[s] \ waits'[s] : stopErr'[s] = runErr[i]]_vars

\* Whatever ForwardPorts returns after a stop was requested, the exit carries no error
\* (the case of TestStartAndStopPortForwardLifecycle, in every interleaving).
RequestedStopIsClean ==
    \A i \in Forwards :
        [](stopRequested[i] /\ Holding(i) => [](exitError[i] = "nil"))

----------------------------------------------------------------------------
(* Liveness *)

\* StartPortForward returns, by its readiness timer if by nothing else.
StartReturns ==
    \A i \in Forwards : call[i] # "idle" ~> call[i] \in {"returned", "failed"}

\* A forward that was told to stop ends and reports its exit.
RequestedStopEnds ==
    \A i \in Forwards : stopRequested[i] /\ run[i] # "none" ~> run[i] = "exited"

\* Replacing the connection ends every forward opened on the one before.
ReplacedConnectionEnds ==
    \A i \in Forwards : lifetimeOf[i] \in ended /\ run[i] # "none" ~> run[i] = "exited"

----------------------------------------------------------------------------
(* Refinement *)

phaseBar ==
    [i \in Forwards |->
        CASE call[i] = "idle" -> "absent"
          [] call[i] = "failed" -> "failed"
          [] call[i] = "returned" -> IF i \in registry THEN "open" ELSE "ended"
          [] OTHER -> "starting"]

Contract == INSTANCE ForwardContract WITH
    phase <- phaseBar,
    holding <- {i \in Forwards : Holding(i)},
    reported <- {i \in Forwards : exit[i] # "empty"}

\* The goroutines implement the contract of a forward.
KeepsContract == Contract!Spec

----------------------------------------------------------------------------
(* The inductive invariant behind the safety properties *)

\* A forward is in the registry from Launch until its runner or its failed start
\* removes it, so outside it nothing holds a port but an abandoned start.
RegistryInv ==
    \A i \in Forwards :
        /\ i \in registry =>
            /\ run[i] \in {"forwarding", "returned", "filtered"}
            /\ call[i] \in {"waiting", "marking", "abandoning", "removing", "returned"}
        /\ run[i] \in {"forwarding", "returned", "filtered"} /\ call[i] # "failed" => i \in registry
        /\ call[i] \in {"idle", "prepared"} => run[i] = "none"
        /\ run[i] = "none" => call[i] \in {"idle", "prepared", "failed"}
        /\ i \in running => call[i] = "returned"

\* Whatever ends a forward early cancels its context and requests its stop.
ContextInv ==
    \A i \in Forwards :
        /\ watch[i] \in {"fired", "recorded", "ran"} => ctxCanceled[i]
        /\ stopRequested[i] => ctxCanceled[i]
        /\ call[i] = "idle" => lifetimeOf[i] = 0
        /\ call[i] = "failed" /\ lifetimeOf[i] # 0 => ctxCanceled[i]
        /\ call[i] = "removing" \/ (call[i] = "failed" /\ run[i] # "none") => stopRequested[i]

\* Once recorded the exit error is the runner's, and only the last step reports it.
ExitInv ==
    \A i \in Forwards :
        /\ run[i] \in {"recorded", "closed", "exited"} => exitError[i] = runErr[i]
        /\ exit[i] # "empty" => run[i] = "exited"

\* A stop call still tracks every target whose port may be held.
StopInv ==
    \A s \in Callers :
        /\ target[s] \subseteq HandedOut
        /\ stopPc[s] # "idle" => \A i \in target[s] : i \in todo[s] \cup waits[s] \/ ~Holding(i)
        /\ stopPc[s] \in {"waiting", "returned"} => todo[s] = {}
        /\ stopPc[s] = "returned" => waits[s] = {}
=============================================================================
