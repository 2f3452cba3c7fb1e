SPECIFICATION FairSpec
CONSTANTS
    INFINITE_COST = 999
    MAX_ROUTINGTABLE_SLOTS = 2
    Nodes <- PairNodes
    Ids <- PairIds
    NbrArray <- PairNbrs
    IdArray <- PairIdArray
    LinkCost <- PairCost
    HeapInts = {0}
    BROADCAST_NODEID = 9999
    Updaters = {2}
    Senders = {1}
    Answering = {2}
    MaxSegments <- OneAndAnswers
    MRTCap = 1
    LinkCap = 1
PROPERTIES HandlerReturns FirstSegmentArrives
