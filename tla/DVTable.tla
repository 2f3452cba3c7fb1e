------------------------------- MODULE DVTable ------------------------------
(***************************************************************************)
(* The distance vector table of lab4/network/dvtable.c: a row for each      *)
(* neighbour and, last, one for the node itself, each with an entry for     *)
(* every element of an array of node ids.  And the neighbour cost table of  *)
(* nbrcosttable.c, which never changes.                                     *)
(***************************************************************************)
EXTENDS Integers, Sequences

CONSTANT INFINITE_COST

ASSUME DVTableConstants == INFINITE_COST \in Nat

dv_entry_new(ids, cost) ==
    [j \in 1..Len(ids) |-> [nodeID |-> ids[j], cost |-> cost[ids[j]]]]

\* idArrays[i] is what topology_getNodeArray() returned for row i, and costs[m]
\* what topology_getCost() says of node m.
dvtable_create(nbrs, myNodeID, idArrays, costs) ==
    [i \in 1..(Len(nbrs) + 1) |->
        LET source == IF i <= Len(nbrs) THEN nbrs[i] ELSE myNodeID
        IN  [nodeID |-> source, dvEntry |-> dv_entry_new(idArrays[i], costs[source])]]

\* Where the first k rows have the cost from one node to another.
Places(dvtable, k, from, to) ==
    {p \in (1..k) \X (1..Len(dvtable[1].dvEntry)) :
        dvtable[p[1]].nodeID = from /\ dvtable[p[1]].dvEntry[p[2]].nodeID = to}

\* The place the two loops reach first.
FirstPlace(places) ==
    CHOOSE p \in places : \A q \in places :
        p[1] < q[1] \/ (p[1] = q[1] /\ p[2] <= q[2])

\* Every row is searched.
dvtable_setcost(dvtable, from, to, cost) ==
    LET places == Places(dvtable, Len(dvtable), from, to)
        p == FirstPlace(places)
    IN  IF places = {} THEN dvtable
        ELSE [dvtable EXCEPT ![p[1]].dvEntry[p[2]].cost = cost]

\* Every row but the last is searched, which is the node's own.
dvtable_getcost(dvtable, from, to) ==
    LET places == Places(dvtable, Len(dvtable) - 1, from, to)
        p == FirstPlace(places)
    IN  IF places = {} THEN INFINITE_COST
        ELSE dvtable[p[1]].dvEntry[p[2]].cost

nbrcosttable_getcost(nbrs, cost, m) ==
    IF \E i \in 1..Len(nbrs) : nbrs[i] = m THEN cost[m] ELSE INFINITE_COST
=============================================================================
