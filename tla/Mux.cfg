CONSTANTS
    Streams <- TwoStreams
    MaxChunks = 2
    ReadCap = 1
    AcceptCap = 1
    WireCap = 1
    MaxIdle = 1
    Settings <- AllSettings
SPECIFICATION FairSpec
INVARIANTS TypeOK MapsAgree ReadersAreReachable
PROPERTIES WrittenIsRead CloseIsSeen StreamsAreReliable PeerCloses
CHECK_DEADLOCK FALSE
