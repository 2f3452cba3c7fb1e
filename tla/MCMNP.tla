------------------------------- MODULE MCMNP --------------------------------
EXTENDS MNP

T == INSTANCE Topology

(* A line of three nodes, and two neighbours.  The costs are those between   *)
(* the hosts of topology.dat.                                                *)
Line == << <<1, 3, 5>>, <<3, 2, 3>> >>
Pair == << <<1, 2, 5>> >>

NbrsIn(links, nodes) == [n \in nodes |-> T!topology_getNbrArray(links, n)]
IdsIn(links, nodes, junk) ==
    [n \in nodes |-> [k \in 0..(T!topology_getNbrNum(links, n) + 1) |->
        T!NodeArrayRead(links, n, junk)]]
CostIn(links, nodes, ids) ==
    [n \in nodes |-> [m \in ids |-> T!topology_getCost(links, n, m)]]

\* Fresh memory, and memory that was used before.
AnyHeap == {-1, 0}

LineNodes == 1..3
LineIds == 0..3
LineNbrs == NbrsIn(Line, LineNodes)
LineIdArray == [n \in LineNodes |-> IdsIn(Line, LineNodes, IF n = 1 THEN 2 ELSE 0)[n]]
LineCost == CostIn(Line, LineNodes, LineIds)

\* Segments: one each, or one and the answers that fill a connection.
One == [n \in Nodes |-> 1]
OneAndAnswers == [n \in Nodes |-> IF n = 1 THEN 1 ELSE 3]

PairNodes == 1..2
PairIds == 0..2
PairNbrs == NbrsIn(Pair, PairNodes)
PairIdArray == IdsIn(Pair, PairNodes, 0)
PairCost == CostIn(Pair, PairNodes, PairIds)
=============================================================================
