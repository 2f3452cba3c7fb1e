------------------------------ MODULE Topology ------------------------------
(***************************************************************************)
(* The queries of lab4/topology/topology.c.  Each reads the whole file      *)
(* again: links is the sequence of its lines, <<node, node, cost>>.  A node *)
(* id is the last number of an IP address.                                  *)
(***************************************************************************)
EXTENDS Integers, Sequences, FiniteSetsExt

CONSTANT INFINITE_COST   \* cost of nodes without a link

ASSUME TopologyConstants == INFINITE_COST \in Nat

Joins(link, a, b) == <<link[1], link[2]>> \in {<<a, b>>, <<b, a>>}

\* What a loop over a sequence keeps that takes the elements at some indexes.
\* (As SelectSeq, which takes an operator and leaves a proof nothing to expand.)
Kept(s, at) ==
    LET kept[i \in 0..Len(s)] ==
            IF i = 0 THEN << >>
            ELSE IF i \in at THEN Append(kept[i - 1], s[i]) ELSE kept[i - 1]
    IN  kept[Len(s)]

\* The lines that name a node, and the node they name besides.
LinesOf(links, n) == {i \in 1..Len(links) : n \in {links[i][1], links[i][2]}}
OtherNode(link, n) == IF link[1] = n THEN link[2] ELSE link[1]

\* Mutant: a line counts only for the node it names first.
topology_getNbrArray_FirstOnly(links, n) ==
    LET mine == Kept(links, {i \in 1..Len(links) : n = links[i][1]})
    IN  [i \in 1..Len(mine) |-> mine[i][2]]

\* The neighbours in the order of the lines.
topology_getNbrArray(links, n) ==
    LET mine == Kept(links, LinesOf(links, n))
    IN  [i \in 1..Len(mine) |-> OtherNode(mine[i], n)]

topology_getNbrNum(links, n) == Cardinality(LinesOf(links, n))

topology_getNodeNum(links) ==
    Cardinality({links[i][1] : i \in 1..Len(links)} \cup {links[i][2] : i \in 1..Len(links)})

\* The neighbours and the node itself, and no other node.  The array is not
\* longer than that, and the callers read as many elements as there are nodes.
topology_getNodeArray(links, n) == Append(topology_getNbrArray(links, n), n)

\* What the callers see: beyond the elements written, what memory holds.
NodeArrayRead(links, n, junk) ==
    LET written == topology_getNodeArray(links, n)
    IN  [i \in 1..topology_getNodeNum(links) |->
            IF i <= Len(written) THEN written[i] ELSE junk]

\* The cost of the first line for the two nodes.
topology_getCost(links, from, to) ==
    LET lines == {i \in 1..Len(links) : Joins(links[i], from, to)}
    IN  IF from = to THEN 0
        ELSE IF lines = {} THEN INFINITE_COST
        ELSE links[Min(lines)][3]
=============================================================================
