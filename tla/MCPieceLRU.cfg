SPECIFICATION CallsSpec
CONSTANTS
    Pieces <- MCPieces
    Size <- MCSize
    NumFiles = 0
    Cover <- MCNoCover
    Budget = 4
INVARIANTS
    CallsTypeOK
    UsedCountsTrackedPieces
    EvictionsAreTwoPasses
    ProtectedGoLast
PROPERTY EvictionsJustEnough
