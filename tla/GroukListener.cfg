CONSTANTS
    c1 = c1
    c2 = c2
    Clients = {c1, c2}
    MaxRate = 2
    MaxPending = 1
    AcceptCap = 1
    MaxSessions = 1
    Settings <- PassSettings
SPECIFICATION FairSpec
INVARIANTS PendingExact AcceptedOnce
PROPERTIES HandshakeEnds LossIsRepaired DeadSessionsGo
CHECK_DEADLOCK FALSE
