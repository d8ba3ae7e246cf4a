-------------------------- MODULE MCEvictionRegions --------------------------
(* Every torrent of up to MaxFiles files of up to MaxLen bytes, cut into    *)
(* pieces of up to MaxPieceLength bytes.                                    *)
EXTENDS EvictionRegions

CONSTANTS MaxFiles, MaxLen, MaxPieceLength, MaxPieces

MCLayouts ==
    {l \in [pieceLength : 1 .. MaxPieceLength,
            lens : UNION {[1 .. n -> 0 .. MaxLen] : n \in 1 .. MaxFiles}] :
        NumPieces(l) \in 1 .. MaxPieces}
==============================================================================
