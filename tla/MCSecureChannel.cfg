SPECIFICATION ChannelFairSpec
CONSTANTS
    ByteSpan = 4
    WordSpan = 8
    Writers = {g1, g2, g3}
    None = None
    Payloads <- SmallPayloads
    DataPads <- SmallDataPads
    ShaperPads <- SmallShaperPads
    MaxFrames = 3
INVARIANTS
    NeverRejected
PROPERTIES
    Arrives
    ImplementsChannel
CHECK_DEADLOCK FALSE
