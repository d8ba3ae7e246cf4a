-------------------------- MODULE MCPieceCompletion --------------------------
(* Two files of six bytes and three pieces of four bytes: the files share    *)
(* the piece in the middle.                                                  *)
EXTENDS PieceCompletionCalls

Layout == INSTANCE TorrentLayout

MCLayout == [pieceLength |-> 4, lens |-> <<6, 6>>]
MCPieces == Layout!PiecesOf(MCLayout)
MCSize == [p \in MCPieces |->
             Layout!PieceEnd(MCLayout, p) - Layout!PieceOffset(MCLayout, p)]
MCCover == [f \in Layout!FilesOf(MCLayout) |-> Layout!FilePieces(MCLayout, f)]
==============================================================================
