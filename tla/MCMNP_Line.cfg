SPECIFICATION Spec
CONSTANTS
    INFINITE_COST = 999
    MAX_ROUTINGTABLE_SLOTS = 2
    Nodes <- LineNodes
    Ids <- LineIds
    NbrArray <- LineNbrs
    IdArray <- LineIdArray
    LinkCost <- LineCost
    HeapInts <- AnyHeap
    BROADCAST_NODEID = 9999
    Updaters = {1}
    Senders = {3}
    Answering = {}
    MaxSegments <- One
    MRTCap = 1
    LinkCap = 1
INVARIANTS PacketsOnCourse DeliveredWasSent
PROPERTIES RoutesStand
