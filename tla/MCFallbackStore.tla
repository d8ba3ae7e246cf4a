--------------------------- MODULE MCFallbackStore ---------------------------
(* One file of two pieces.                                                   *)
EXTENDS FallbackStore

MCPieces == {0, 1}
MCSize == [p \in MCPieces |-> 4]
MCCover == [f \in {1} |-> MCPieces]
==============================================================================
