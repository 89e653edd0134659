----------------------------- MODULE MCLiveSet -----------------------------
(* Instances of LiveSet for TLC. *)
EXTENDS LiveSet
=============================================================================
