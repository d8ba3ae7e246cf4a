------------------------------ MODULE MCPieceLRU ------------------------------
(* Four pieces of different sizes: a large one, and a short last piece.      *)
EXTENDS PieceLRUCalls, TLC

MCPieces == 0 .. 3
MCSize == <<2, 2, 1>> @@ (0 :> 3)
MCNoCover == [f \in {} |-> {}]
==============================================================================
