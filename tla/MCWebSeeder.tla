----------------------------- MODULE MCWebSeeder -----------------------------
(* Two files, of six bytes and of two, and two pieces of four bytes: the    *)
(* second piece belongs to both.  The first file is in a directory.         *)
EXTENDS WebSeeder

Layout == INSTANCE TorrentLayout

MCLayout == [pieceLength |-> 4, lens |-> <<6, 2>>]
MCPieces == Layout!PiecesOf(MCLayout)
MCSize == [p \in MCPieces |->
             Layout!PieceEnd(MCLayout, p) - Layout!PieceOffset(MCLayout, p)]
MCCover == [f \in Layout!FilesOf(MCLayout) |-> Layout!FilePieces(MCLayout, f)]
MCDirs == {"root", "dir"}
MCUnder == [d \in MCDirs |-> IF d = "root" THEN {1, 2} ELSE {1}]
==============================================================================
