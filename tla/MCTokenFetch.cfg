CONSTANTS
    Responses <- AllResponses
    Octets <- Bytes
    Digits <- SizeLines
    Endpoints = 2
    SizeT = 8
SPECIFICATION FairSpec
INVARIANTS
    FetchInv
    TokenFromWholeBody
    WholeChunks
PROPERTIES
    FetchEnds
