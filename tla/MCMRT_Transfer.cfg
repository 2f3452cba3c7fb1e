SPECIFICATION Spec
CONSTANTS
    MAX_SEG_LEN = 2
    GBN_WINDOW = 2
    FIN_MAX_RETRY = 1
    SvrNodeID = 7
    SvrPort = 9
    SendLengths = {3, 4}
    MaxConnects = 1
    MaxStream = 7
    ChannelCap = 2
    RECEIVE_BUF_SIZE = 6
    Garbage = {4}
    RecvLengths = {3}
    MaxAccepts = 1
    ReplyCap = 2
INVARIANTS TypeOK StreamIntegrity DeliveryIntegrity WindowTracksReceiver TimerWatchesWindow ConnectionAgreed
PROPERTIES ExpectNeverRewinds ImplementsStream
CHECK_DEADLOCK FALSE
