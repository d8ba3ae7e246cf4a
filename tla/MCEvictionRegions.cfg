SPECIFICATION Spec
CONSTANTS
    MaxFiles = 3
    MaxLen = 4
    MaxPieceLength = 3
    MaxPieces = 5
    Layouts <- MCLayouts
INVARIANTS
    TypeOK
    RowMeansWholeFile
    DiskHoldsCompletePieces
