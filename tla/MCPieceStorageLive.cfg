SPECIFICATION QuietFairSpec
CONSTANTS
    Pieces = {p1, p2}
    Size <- MCSize
    NumFiles = 0
    Cover <- MCNoCover
    Budget = 1
    SingleFile = FALSE
    MaxFaults = 1
    MayCrash = FALSE
    Hashers = {h1}
    Sweep = Sweep
    NoPiece = NoPiece
    VerifyCap = 1
INVARIANT TypeOK
PROPERTIES
    HashersReturn
    HolesLearned
    OverBudgetEvicted
