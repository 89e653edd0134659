-------------------------- MODULE ForwardContract --------------------------
(***************************************************************************)
(* What a port forward promises to whoever starts, lists and stops it,     *)
(* without goroutines, contexts or channels (kube.PortForward and the      *)
(* PortForwards list):                                                     *)
(*   - it is listed only between a successful start and its end;           *)
(*   - a start that fails is never listed;                                 *)
(*   - it leaves the list only after its local port has been released;     *)
(*   - its exit is reported at most once, after it has left the list.      *)
(***************************************************************************)
CONSTANTS Forwards

VARIABLES
    phase,      \* of each forward
    holding,    \* forwards whose runner may hold the local port
    reported    \* forwards whose exit has been reported

contractVars == <<phase, holding, reported>>

Init ==
    /\ phase = [i \in Forwards |-> "absent"]
    /\ holding = {}
    /\ reported = {}

Begin(i) ==
    /\ phase[i] = "absent"
    /\ phase' = [phase EXCEPT ![i] = "starting"]
    /\ UNCHANGED <<holding, reported>>

Bind(i) ==
    /\ phase[i] = "starting"
    /\ i \notin reported
    /\ holding' = holding \cup {i}
    /\ UNCHANGED <<phase, reported>>

Open(i) ==
    /\ phase[i] = "starting"
    /\ phase' = [phase EXCEPT ![i] = "open"]
    /\ UNCHANGED <<holding, reported>>

\* A failed start may be reported before its runner has let go of the port.
Fail(i) ==
    /\ phase[i] \in {"absent", "starting"}
    /\ phase' = [phase EXCEPT ![i] = "failed"]
    /\ UNCHANGED <<holding, reported>>

Release(i) ==
    /\ i \in holding
    /\ holding' = holding \ {i}
    /\ UNCHANGED <<phase, reported>>

End(i) ==
    /\ phase[i] = "open"
    /\ i \notin holding
    /\ phase' = [phase EXCEPT ![i] = "ended"]
    /\ UNCHANGED <<holding, reported>>

Report(i) ==
    /\ phase[i] \in {"starting", "ended", "failed"}
    /\ i \notin holding \cup reported
    /\ reported' = reported \cup {i}
    /\ UNCHANGED <<phase, holding>>

Next == \E i \in Forwards :
    Begin(i) \/ Bind(i) \/ Open(i) \/ Fail(i) \/ Release(i) \/ End(i) \/ Report(i)

Spec == Init /\ [][Next]_contractVars
=============================================================================
