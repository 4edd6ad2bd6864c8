CONSTANTS
    PAYLOAD_SIZE_BASIC = 3
    PAYLOAD_SIZE_EXTENDED = 4
    PAYLOAD_SIZE_MAX = 5
    Frames <- ManyFrames
    NoFrame = NoFrame
    Nothing = Nothing
    Bytes <- BoundaryBytes
    m_read_threshold = 2
    UInt64 = 16
    MaxSegment = 3
SPECIFICATION FairSpec
INVARIANTS
    ReaderInv
    Unmasked
    TextIsUtf8
    WritesWhatItReads
PROPERTIES
    StreamSpec
    ExpectsAsInConnection
    FramesEnd
