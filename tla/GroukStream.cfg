CONSTANTS
    Writers = {w1}
    MaxSeq = 2
    ReadCap = 1
    WindowSize = 2
    InitialCwnd = 1
    MinCwnd = 1
    MaxRetransmit = 1
    MaxLoss = 1
    MaxDup = 1
    Settings <- PassSettings
SPECIFICATION FairSpec
INVARIANTS NothingLost WindowAccounting
PROPERTIES RefinesReliableStream WrittenIsRead WriterNotStuck
CHECK_DEADLOCK FALSE
