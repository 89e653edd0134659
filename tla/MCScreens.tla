----------------------------- MODULE MCScreens -----------------------------
(* Two contexts and two namespaces: a list is of the scope on display, or of another one.  *)
EXTENDS Screens, TLC

ScopeSymmetry == Permutations(Contexts) \cup Permutations(Namespaces)
=============================================================================
