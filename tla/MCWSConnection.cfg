CONSTANTS
    Text = {t1}
    NoText = NoText
    MaxPieces = 3
    MaxChunk = 1
    MaxPosted = 1
    Behaviours <- AnyHandler
SPECIFICATION FairSpec
INVARIANTS
    TypeOK
    IInv
    WireInOrder
    CloseIsLast
    OneWriter
    OneReader
    ClosingHasDeadline
PROPERTIES
    ClosingEnds
