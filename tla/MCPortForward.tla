--------------------------- MODULE MCPortForward ---------------------------
(* One forward, with each of the calls that may end it.                     *)
EXTENDS PortForward

CONSTANTS f1, s1, a1

OneForward == {f1}
OneStopper == {s1}
OneShutdown == {a1}
=============================================================================
