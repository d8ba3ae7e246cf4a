SPECIFICATION FairStoreSpec
CONSTANTS
    Pieces <- MCPieces
    Size <- MCSize
    NumFiles = 2
    Cover <- MCCover
    SingleFile = FALSE
    MaxFaults = 2
INVARIANTS
    StoreTypeOK
    CountAgrees
    CompletedFilesSound
    MemoryMatchesDatabase
PROPERTY RowsAppear
