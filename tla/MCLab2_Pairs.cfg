SPECIFICATION Spec
CONSTANTS
    MAX_SEG_LEN = 2
    MaxJunk = 2
    SYN_MAX_RETRY = 2
    GBN_WINDOW = 3
    SendLengths = {1, 2}
    MaxRounds = 4
    RECEIVE_BUF_SIZE = 3
    Width = 8
    RecvLengths = {1, 2}
    MaxSegments = 3
INVARIANTS
    StreamInOrder ReceivedFits NoSelfLock ConnectedWasAnswered
PROPERTIES
    CloseWaitEnds AcceptSeesConnection
CHECK_DEADLOCK FALSE
