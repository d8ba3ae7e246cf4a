---------------------------- MODULE TorrentLayout ----------------------------
(***************************************************************************)
(* The arithmetic that relates the pieces of a torrent to its files.       *)
(*                                                                         *)
(* A torrent is one stream of bytes: its files laid end to end, cut into   *)
(* pieces of equal length (the last one may be short).  The server does    *)
(* this arithmetic in two independent ways:                                *)
(*   - by pieces, startPiece..endPiece of a file, to decide which files    *)
(*     are complete and which file_completion rows an eviction must        *)
(*     delete (piece_completion.go, uncompleteAffectedFiles of mmap.go);   *)
(*   - by bytes, the regions of the files that a piece covers, to punch    *)
(*     holes into them (pieceFileRegions of mmap.go).                      *)
(*                                                                         *)
(* A layout is a record [pieceLength, lens]: the piece length and the      *)
(* sequence of the lengths of the files.  Files are numbered from 1 and    *)
(* pieces from 0.                                                          *)
(*                                                                         *)
(* In this and the other modules a definition whose name starts with Slip  *)
(* is a deliberate error, one a programmer could make: no specification    *)
(* uses it; it takes the place of the definition after it to show that a   *)
(* property would notice.                                                  *)
(***************************************************************************)
EXTENDS Integers, Sequences

IsLayout(l) ==
    /\ l.pieceLength \in Nat \ {0}
    /\ l.lens \in Seq(Nat)
    /\ l.lens # << >>

FilesOf(l) == 1 .. Len(l.lens)

\* Offset of the end of file f, and of its start when f is 0 (the running
\* variable "offset" of the loops over the files).
FileEnd(l) ==
    LET end[f \in 0 .. Len(l.lens)] ==
            IF f = 0 THEN 0 ELSE end[f - 1] + l.lens[f]
    IN  end

FileStart(l, f) == FileEnd(l)[f - 1]

TotalLength(l) == FileEnd(l)[Len(l.lens)]

\* metainfo.Info.NumPieces and metainfo.Piece of the torrent library.
NumPieces(l) == (TotalLength(l) + l.pieceLength - 1) \div l.pieceLength
PiecesOf(l) == 0 .. NumPieces(l) - 1
PieceOffset(l, p) == p * l.pieceLength
PieceEnd(l, p) ==
    LET end == (p + 1) * l.pieceLength
    IN  IF end < TotalLength(l) THEN end ELSE TotalLength(l)

------------------------------------------------------------------------------
(* By pieces.                                                              *)

StartPiece(l, f) == FileStart(l, f) \div l.pieceLength

\* The code divides the end offset of the file, which is exclusive: when the
\* file ends where a piece ends, the range takes in the piece after it too.
EndPiece(l, f) == FileEnd(l)[f] \div l.pieceLength

\* The pieces that must be complete for file f to be complete: the loop stops
\* at the last piece of the torrent.
FilePieces(l, f) == (StartPiece(l, f) .. EndPiece(l, f)) \cap PiecesOf(l)

\* The first piece of a file left out.
SlipAffectedFiles(l, p) ==
    {f \in FilesOf(l) : StartPiece(l, f) < p /\ p <= EndPiece(l, f)}

\* The files whose rows uncompleteAffectedFiles deletes.  A torrent of one
\* file has no range test: its only file is always affected.
AffectedFiles(l, p) ==
    IF Len(l.lens) = 1
    THEN {1}
    ELSE {f \in FilesOf(l) : StartPiece(l, f) <= p /\ p <= EndPiece(l, f)}

------------------------------------------------------------------------------
(* By bytes.                                                               *)

MaxOf(a, b) == IF a >= b THEN a ELSE b
MinOf(a, b) == IF a <= b THEN a ELSE b

\* The length of the whole piece in every file.
SlipRegions(l, p) ==
    {[fileIndex |-> f,
      offset    |-> MaxOf(PieceOffset(l, p), FileStart(l, f)) - FileStart(l, f),
      length    |-> PieceEnd(l, p) - PieceOffset(l, p)] :
        f \in {g \in FilesOf(l) : /\ PieceEnd(l, p) > FileStart(l, g)
                                  /\ PieceOffset(l, p) < FileEnd(l)[g]}}

\* pieceFileRegions: the part of each file that the piece covers, as an offset
\* into the file and a length.
Regions(l, p) ==
    {[fileIndex |-> f,
      offset    |-> MaxOf(PieceOffset(l, p), FileStart(l, f)) - FileStart(l, f),
      length    |-> MinOf(PieceEnd(l, p), FileEnd(l)[f])
                      - MaxOf(PieceOffset(l, p), FileStart(l, f))] :
        f \in {g \in FilesOf(l) : /\ PieceEnd(l, p) > FileStart(l, g)
                                  /\ PieceOffset(l, p) < FileEnd(l)[g]}}
==============================================================================
