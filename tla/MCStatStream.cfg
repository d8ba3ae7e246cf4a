SPECIFICATION FairSpec
CONSTANTS
    NumPieces = 2
    NoReply = NoReply
    MaxChanges = 2
INVARIANTS
    TypeOK
    ViewIsLastReply
    EndIsComplete
PROPERTIES
    NothingAfterReturn
    HandlerReturns
    ViewCatchesUp
