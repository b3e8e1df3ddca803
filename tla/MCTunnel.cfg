SPECIFICATION FairSpec
CONSTANTS
    ByteSpan = 2
    MaxStreams = 2
    MaxChunks = 2
    WireCap = 1
INVARIANTS
    NoUpstreamLeak
PROPERTIES
    ClosedIsReleased
    ReadLoopResumes
    StreamsAreChannels
CHECK_DEADLOCK FALSE
