SPECIFICATION QuietMetricsSpec
SYMMETRY Symmetry
CONSTANTS
    Pieces = {p1, p2}
    Size <- MCSize
    NumFiles = 0
    Cover <- MCNoCover
    Budget = 1
    SingleFile = FALSE
    MaxFaults = 0
    MayCrash = TRUE
    Hashers = {h1, h2}
    Sweep = Sweep
    NoPiece = NoPiece
    VerifyCap = 1
INVARIANTS
    GaugesExact
    BudgetCovered
    CompletePiecesTracked
