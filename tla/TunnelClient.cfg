SPECIFICATION FairSpec
CONSTANTS
    r1 = r1
    r2 = r2
    NoOne = NoOne
    Requests <- MCRequests
    Protocols <- AllProtocols
    FirstBackoff = 2
    MaxBackoff = 3
    MaxConns <- Slots
    MaxStreams = 2
    MaxTunnels <- Dials
CHECK_DEADLOCK FALSE
INVARIANTS BackoffIsExact LeakIsBounded
PROPERTIES EveryoneAnswered ExitsAfterSignal
