---------------------------- MODULE RoutingTable ----------------------------
(***************************************************************************)
(* The routing table of lab4/network/routing_table.c: a hash table whose    *)
(* slots are linked lists of routing entries.                               *)
(***************************************************************************)
EXTENDS Integers, Sequences

CONSTANTS
    MAX_ROUTINGTABLE_SLOTS,
    Ids,         \* node ids, and what else a caller may pass for one
    HeapInts     \* what memory of malloc() may hold

ASSUME RoutingTableConstants ==
    /\ MAX_ROUTINGTABLE_SLOTS \in Nat \ {0}
    /\ Ids \subseteq Int
    /\ HeapInts \subseteq Int

Slots == 0..(MAX_ROUTINGTABLE_SLOTS - 1)
NoHop == -1

EmptyTable == [slot \in Slots |-> << >>]

makehash(node) == node % MAX_ROUTINGTABLE_SLOTS

\* routing_entry_node_new() tests a field of the new entry before it sets it,
\* and gives up when the memory it got happens to hold a negative number.
EntryMade(junk) == junk >= 0

\* What hashtable_insert(), set_insert() and routing_entry_node_new() ask for.
Stored(dest, next, junk) == dest > 0 /\ next > 0 /\ EntryMade(junk)

Entry(dest, next) == [destNodeID |-> dest, nextNodeID |-> next]

\* An entry is appended to the list of its slot, whatever the list holds.
hashtable_insert(rt, dest, next, junk) ==
    IF Stored(dest, next, junk)
      THEN [rt EXCEPT ![makehash(dest)] = Append(@, Entry(dest, next))]
      ELSE rt

routingtable_setnextnode(rt, dest, next, junk) == hashtable_insert(rt, dest, next, junk)

\* Mutant: the first entry of the slot is taken for the destination.
EntriesOf_WholeSlot(list, dest) == DOMAIN list

\* The entries of a list that are for a destination.
EntriesOf(list, dest) == {i \in DOMAIN list : list[i].destNodeID = dest}

FirstOf(found) == CHOOSE i \in found : \A j \in found : i <= j

\* The next hop of the first of them.
routingtable_getnextnode(rt, dest) ==
    LET list == rt[makehash(dest)]
        found == EntriesOf(list, dest)
    IN  IF dest <= 0 \/ found = {} THEN NoHop
        ELSE list[FirstOf(found)].nextNodeID
=============================================================================
