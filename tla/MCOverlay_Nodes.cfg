SPECIFICATION Spec
CONSTANTS
    INFINITE_COST = 999
    BROADCAST_NODEID = 9999
    Nodes = {1, 2, 3}
    Files <- ThreeLines
    Started <- TwoFiles
    LineBound = 3
    ConnectCalls <- Labs
    MaxConnects <- OneRestarts
    MaxPackets <- OneSender
    Stopping = {1, 3}
    MaxStops = 1
    Cap = 1
INVARIANTS
    TypeOK NbrsAgree SameConnection PacketsInOrder SentToNextHop
CHECK_DEADLOCK FALSE
PROPERTIES
    RefusedOnlyEarly LinksComeUp NetworkServed PacketsArrive LostOverlayEnds
