-------------------------- MODULE SessionContract --------------------------
(***************************************************************************)
(* What the saved session promises to whoever starts the program: it is    *)
(* nothing, or one whole state that a program had; a crash of the machine  *)
(* may bring back an earlier one, and never a mixture or a part of one.    *)
(***************************************************************************)
CONSTANTS
    States,     \* what a program may save
    Nothing     \* no saved session

VARIABLES
    value,      \* what a program that starts now would restore
    stable      \* what it would restore after a crash

contractVars == <<value, stable>>

Init == value = Nothing /\ stable = Nothing

Put == value' \in States /\ UNCHANGED stable

Settle == stable' = value /\ UNCHANGED value

\* The directory of the session may be lost with everything in it.
Crash == \/ value' = stable /\ UNCHANGED stable
         \/ value' = Nothing /\ stable' = Nothing

Next == Put \/ Settle \/ Crash

Spec == Init /\ [][Next]_contractVars
=============================================================================
