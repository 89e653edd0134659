--------------------------- MODULE MCAnalysisChat ---------------------------
(* Two questions: one that is given up can be followed by another while its answer is on its way. *)
EXTENDS AnalysisChat
=============================================================================
