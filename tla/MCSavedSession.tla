-------------------------- MODULE MCSavedSession ---------------------------
(* Two programs that start, save and stop beside each other.  *)
EXTENDS SavedSession, TLC

CONSTANTS p1, p2, v1, v2

Alike == Permutations(Programs)
=============================================================================
