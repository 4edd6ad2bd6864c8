CONSTANTS
    Script <- ShortScript
    SessionIds = {"a"}
    MaxPieces = 3
    MaxChunk = 1
    MaxPosted = 2
SPECIFICATION Spec
INVARIANTS
    AlwaysWatched
