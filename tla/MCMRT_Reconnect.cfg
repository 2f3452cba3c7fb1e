SPECIFICATION Spec
CONSTANTS
    MAX_SEG_LEN = 1
    GBN_WINDOW = 1
    FIN_MAX_RETRY = 1
    SvrNodeID = 7
    SvrPort = 7
    SendLengths = {1}
    MaxConnects = 2
    MaxStream = 2
    ChannelCap = 1
    RECEIVE_BUF_SIZE = 3
    Garbage = {1}
    RecvLengths = {1}
    MaxAccepts = 2
    ReplyCap = 1
INVARIANTS StreamIntegrity WindowConsistent
CHECK_DEADLOCK FALSE
