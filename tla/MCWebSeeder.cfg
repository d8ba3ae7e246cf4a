SPECIFICATION Spec
CONSTANTS
    Pieces <- MCPieces
    Size <- MCSize
    NumFiles = 2
    Cover <- MCCover
    SingleFile = FALSE
    MaxFaults = 1
    MaxHashed = 1
    MaxEvicted = 1
    Asked = {1}
    Dirs <- MCDirs
    Under <- MCUnder
    Matches <- MCUnder
INVARIANTS
    TypeOK
    RowsCoverData
    DoneMeansOnDisk
