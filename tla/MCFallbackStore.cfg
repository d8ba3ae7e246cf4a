SPECIFICATION Spec
CONSTANTS
    Pieces <- MCPieces
    Size <- MCSize
    NumFiles = 1
    Cover <- MCCover
    SingleFile = FALSE
    MaxFaults = 1
    Evictors = {e1}
INVARIANT HolesIncompleteInSQLite
