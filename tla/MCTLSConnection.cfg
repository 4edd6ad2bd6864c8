CONSTANTS
    Text = {t1}
    NoText = NoText
    MaxPieces = 2
    MaxChunk = 1
    MaxPosted = 1
    Behaviours <- AnyHandler
SPECIFICATION TLSFairSpec
INVARIANTS
    TLSFirst
    TLSInv
PROPERTIES
    ClosingEndsOrWaits
    ImplementsPlain
