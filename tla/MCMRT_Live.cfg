SPECIFICATION FairSpec
CONSTANTS
    MAX_SEG_LEN = 1
    GBN_WINDOW = 2
    FIN_MAX_RETRY = 2
    SvrNodeID = 7
    SvrPort = 9
    SendLengths = {2}
    MaxConnects = 1
    MaxStream = 2
    ChannelCap = 2
    RECEIVE_BUF_SIZE = 3
    Garbage = {1}
    RecvLengths = {}
    MaxAccepts = 1
    ReplyCap = 1
PROPERTIES TransferCompletes TimersEnd DisconnectReturns
CHECK_DEADLOCK FALSE
