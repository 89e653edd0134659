--------------------------- MODULE MCClusterCalls ---------------------------
(* Three names and a limit of two: a name waits for another that is under way.  The other   *)
(* selections are of two places, and one of them has the same name in both.                 *)
EXTENDS ClusterCalls

EveryCall == AllCalls
Row(place, name) == [place |-> place, name |-> name]
SomeSelections ==
    {{Row(1, 1), Row(1, 2), Row(1, 3)}, {Row(1, 1)}, {Row(1, 1), Row(2, 2)}, {Row(1, 1), Row(2, 1)}}
=============================================================================
