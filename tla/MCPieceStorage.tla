---------------------------- MODULE MCPieceStorage ----------------------------
(* Two pieces of one byte, of which the budget holds one, and a file that    *)
(* needs both.  Nothing tells the pieces apart, nor the hashers.             *)
EXTENDS PieceStorage, TLC

MCSize == [p \in Pieces |-> 1]
MCOneCover == [f \in {1} |-> Pieces]

\* No file: without the work of the poller.
MCNoCover == [f \in {} |-> {}]

\* Without files the poller changes nothing but where it stands itself.
QuietSpec == Init /\ [][StorageNext]_vars
QuietFairSpec == QuietSpec /\ Fairness

Symmetry == Permutations(Pieces) \cup Permutations(Hashers)
==============================================================================
