------------------------------- MODULE Torrent -------------------------------
(***************************************************************************)
(* The torrent whose pieces a storage keeps, as far as the storage's       *)
(* bookkeeping is concerned: its pieces and their sizes, its files and     *)
(* the pieces of each.  TorrentLayout derives these from the lengths of    *)
(* the files; the theorems hold for any that satisfy the assumptions.      *)
(***************************************************************************)
EXTENDS Integers, FiniteSets

CONSTANTS
    Pieces,     \* piece indices
    Size,       \* Size[p] is the length of piece p in bytes
    NumFiles,   \* the files are numbered from 1 in the order of info.Files
    Cover       \* Cover[f] is the set of pieces startPiece..endPiece of file f

Files == 1 .. NumFiles

ASSUME PiecesAssumption == IsFiniteSet(Pieces)
ASSUME SizeAssumption == Size \in [Pieces -> Nat \ {0}]
ASSUME FilesAssumption == NumFiles \in Nat
ASSUME CoverAssumption == Cover \in [Files -> SUBSET Pieces]

\* The files whose piece range includes p: the test of Uncomplete and
\* IsPieceInCompletedFile, and of uncompleteAffectedFiles.
AffectedFiles(p) == {f \in Files : p \in Cover[f]}
==============================================================================
