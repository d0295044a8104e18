CONSTANTS
    SeqMod = 7
    MsgLimit = 5
    ByteLimit = 8
    Sizes = {1, 3}
    Overhead = 1
    MaxData = 5
    WireCap = 2
    Settings <- PassSettings
SPECIFICATION Spec
INVARIANTS NoFalseReplay LimitsAgree ReceivedInOrder
CHECK_DEADLOCK FALSE
