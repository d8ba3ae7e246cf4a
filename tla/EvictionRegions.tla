--------------------------- MODULE EvictionRegions ---------------------------
(***************************************************************************)
(* Evictions of the pieces of one torrent seen through its layout: every   *)
(* eviction punches the file regions of a piece and deletes the rows of    *)
(* the files it takes to be affected; every download writes the piece back *)
(* and the poller adds the rows of the files whose pieces are all there.   *)
(* The interleaving of these operations is the subject of PieceStorage;    *)
(* here each is one step and the subject is whether the two ways of doing  *)
(* the arithmetic agree.                                                   *)
(***************************************************************************)
EXTENDS TorrentLayout

CONSTANT Layouts        \* the layouts to consider

ASSUME LayoutsAssumption == \A l \in Layouts : IsLayout(l)

VARIABLES
    layout,             \* the torrent
    stored,             \* bytes of each file that hold data, by file
    complete,           \* pieces marked complete
    rows                \* files with a row in file_completion

vars == <<layout, stored, complete, rows>>

BytesOf(l, f) == 0 .. l.lens[f] - 1

TypeOK ==
    /\ layout \in Layouts
    /\ stored \in [FilesOf(layout) -> SUBSET Nat]
    /\ \A f \in FilesOf(layout) : stored[f] \subseteq BytesOf(layout, f)
    /\ complete \subseteq PiecesOf(layout)
    /\ rows \subseteq FilesOf(layout)

\* The bytes of file f inside the regions of piece p.
RegionBytes(l, p, f) ==
    UNION {r.offset .. r.offset + r.length - 1 :
              r \in {s \in Regions(l, p) : s.fileIndex = f}}

Init ==
    /\ layout \in Layouts
    /\ stored = [f \in FilesOf(layout) |-> {}]
    /\ complete = {}
    /\ rows = {}

\* One byte too many at the end of the file.
SlipPieceBytes(l, p, f) ==
    {b \in 0 .. l.lens[f] :
        /\ FileStart(l, f) + b >= PieceOffset(l, p)
        /\ FileStart(l, f) + b < PieceEnd(l, p)}

\* The bytes of the piece, where the span of the memory-mapped files puts
\* them (mmap-span of the torrent library).
PieceBytes(l, p, f) ==
    {b \in BytesOf(l, f) :
        /\ FileStart(l, f) + b >= PieceOffset(l, p)
        /\ FileStart(l, f) + b < PieceEnd(l, p)}

Download(p) ==
    /\ p \notin complete
    /\ stored' = [f \in FilesOf(layout) |->
                     stored[f] \cup PieceBytes(layout, p, f)]
    /\ complete' = complete \cup {p}
    /\ UNCHANGED <<layout, rows>>

AddRows ==
    LET done == {f \in FilesOf(layout) : FilePieces(layout, f) \subseteq complete}
    IN  /\ ~ done \subseteq rows
        /\ rows' = rows \cup done
        /\ UNCHANGED <<layout, stored, complete>>

EvictPiece(p) ==
    /\ p \in complete
    /\ complete' = complete \ {p}
    /\ rows' = rows \ AffectedFiles(layout, p)
    /\ stored' = [f \in FilesOf(layout) |->
                     stored[f] \ RegionBytes(layout, p, f)]
    /\ UNCHANGED layout

Next ==
    \/ \E p \in PiecesOf(layout) : Download(p) \/ EvictPiece(p)
    \/ AddRows

Spec == Init /\ [][Next]_vars

------------------------------------------------------------------------------
\* A file with a row in file_completion is served straight from the disk: all
\* its bytes must be there, whatever was evicted since the row was written.
\* This needs the piece range that completes a file, the piece range that
\* invalidates it and the byte ranges that are punched to fit together.
RowMeansWholeFile ==
    \A f \in rows : stored[f] = BytesOf(layout, f)

\* The punched regions are the piece, no byte more and no byte less: a piece
\* that is complete keeps its bytes whatever its neighbours in the same file
\* go through, and a piece that is not complete occupies no disk space.
DiskHoldsCompletePieces ==
    \A f \in FilesOf(layout) :
        stored[f] = UNION {PieceBytes(layout, p, f) : p \in complete}
==============================================================================
