SPECIFICATION FairSpec
CONSTANTS
    INFINITE_COST = 999
    MAX_ROUTINGTABLE_SLOTS = 2
    Nodes <- LineNodes
    Ids <- LineIds
    NbrArray <- LineNbrs
    IdArray <- LineIdArray
    LinkCost <- LineCost
    HeapInts = {0}
    BROADCAST_NODEID = 9999
    Updaters = {3}
    Senders = {}
    Answering = {}
    MaxSegments <- One
    MRTCap = 1
    LinkCap = 1

PROPERTIES RoutesFound
