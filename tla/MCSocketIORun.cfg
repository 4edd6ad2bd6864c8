CONSTANTS
    Script <- LongScript
    SessionIds = {"a", "b"}
    MaxPieces = 20
    MaxChunk = 2
    MaxPosted = 9
SPECIFICATION RunSpec
INVARIANTS
    OneSession
    Paced
PROPERTIES
    KeepsScript
    Completes
