SPECIFICATION FairSpec
CONSTANTS
    Settings <- Networks
    AcceptCap = 1
INVARIANTS TypeOK ObjectsReachable
PROPERTIES LoopFree WriterIsTold CloseReaches
CHECK_DEADLOCK FALSE
