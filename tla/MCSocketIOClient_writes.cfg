CONSTANTS
    Script <- ShortScript
    SessionIds = {"a"}
    MaxPieces = 5
    MaxChunk = 1
    MaxPosted = 2
SPECIFICATION Spec
INVARIANTS
    WriteErrorsIgnored
