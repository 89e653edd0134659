--------------------------- MODULE MCClusterScope ---------------------------
(* Two contexts, one of a restricted account, so that a switch goes either way, and one more switch
   that fails once it was made. *)
EXTENDS ClusterScope

CONSTANTS wide, narrow

BothContexts == {wide, narrow}
NarrowOnly == {narrow}
=============================================================================
