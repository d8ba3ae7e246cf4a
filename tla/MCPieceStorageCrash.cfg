SPECIFICATION Spec
SYMMETRY Symmetry
CONSTANTS
    Pieces = {p1, p2}
    Size <- MCSize
    NumFiles = 1
    Cover <- MCOneCover
    Budget = 1
    SingleFile = FALSE
    MaxFaults = 1
    MayCrash = TRUE
    Hashers = {h1}
    Sweep = Sweep
    NoPiece = NoPiece
    VerifyCap = 1
INVARIANTS
    HolesAnnounced
    BudgetCovered
    CompletePiecesTracked
    NoForgottenHole
PROPERTY KeepsNotices
