CONSTANTS
    Script <- MixedScript
    SessionIds = {"a"}
    MaxPieces = 4
    MaxChunk = 1
    MaxPosted = 2
SPECIFICATION FairSpec
INVARIANTS
    ClientInv
    EndsOnce
PROPERTIES
    KeepsScript
    ClosedExits
