---------------------------- MODULE MCLogFollow -----------------------------
(* One name in two namespaces: another pod can be selected, and one be taken for the other. *)
EXTENDS LogFollow, TLC

CONSTANTS a, n1, n2, c1, c2

TwoPods == {[name |-> a, namespace |-> n1], [name |-> a, namespace |-> n2]}

\* The pods differ in nothing but their namespace, and the containers in nothing.
Alike == Permutations({n1, n2}) \cup Permutations({c1, c2})
=============================================================================
