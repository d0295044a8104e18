CONSTANTS
    Protocols = {"guarch", "zhip"}
    ContextDial = {"zhip"}
    Addresses = {"localhost"}
    Uses = {"app", "any"}
    MaxConnects = 3
SPECIFICATION Spec
INVARIANTS StatusIsTrue AppNeverOverlaps ServedIsClosed ListenerReachable
PROPERTY DisconnectEndsServing
CHECK_DEADLOCK FALSE
