SPECIFICATION OpenSpec
CONSTANTS
    Pieces <- MCPieces
    Size <- MCSize
    NumFiles = 2
    Cover <- MCCover
    SingleFile = FALSE
    MaxFaults = 0
PROPERTY RowsReadded
