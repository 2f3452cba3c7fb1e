-------------------------- MODULE RoutingTableCalls --------------------------
(***************************************************************************)
(* A routing table and any sequence of insertions, which begins with those  *)
(* of the neighbours in routingtable_create(), with the next hops that were *)
(* stored for each destination.                                             *)
(***************************************************************************)
EXTENDS RoutingTable

CONSTANT MaxCalls   \* bound: calls

VARIABLES
    rt,       \* the table
    calls,    \* history: calls made
    hops      \* history: the next hops stored for a destination, in order

vars == <<rt, calls, hops>>

CallsInit ==
    /\ rt = EmptyTable
    /\ calls = 0
    /\ hops = [d \in Ids |-> << >>]

SetNextNode(dest, next, junk) ==
    /\ calls < MaxCalls
    /\ calls' = calls + 1
    /\ rt' = routingtable_setnextnode(rt, dest, next, junk)
    /\ hops' = IF Stored(dest, next, junk)
                 THEN [hops EXCEPT ![dest] = Append(@, next)]
                 ELSE hops

Next == \E dest, next \in Ids, junk \in HeapInts : SetNextNode(dest, next, junk)

Spec == CallsInit /\ [][Next]_vars
-----------------------------------------------------------------------------
Valid == Ids \cap (Nat \ {0})

\* Type invariant: an entry holds two ids, each greater than 0.
TypeOK ==
    /\ DOMAIN rt = Slots
    /\ \A s \in Slots : rt[s] \in Seq([destNodeID : Valid, nextNodeID : Valid])
    /\ calls \in Nat
    /\ hops \in [Ids -> Seq(Valid)]

\* routingtable_getnextnode() has an answer for a destination just when one was
\* stored, and then one of those stored for it: destinations that share a slot
\* do not disturb each other, and neither does a call that stores nothing.
AnswerWasStored ==
    \A d \in Ids :
        LET answer == routingtable_getnextnode(rt, d)
        IN  IF hops[d] = << >>
              THEN answer = NoHop
              ELSE \E i \in 1..Len(hops[d]) : answer = hops[d][i]

\* What the comments at routing_table.c:129-130 and routing_table.h:79-80 say of
\* routingtable_setnextnode(), "If the routing entry for the given destination
\* already exists, update the existing routing entry": the answer for a
\* destination is the next hop stored last.  It does not hold.
EntryUpdated ==
    \A d \in Ids :
        hops[d] # << >> => routingtable_getnextnode(rt, d) = hops[d][Len(hops[d])]

\* What the code does instead: a next hop, once there is one, is the answer for
\* good.
HopsStand ==
    [][\A d \in Ids : routingtable_getnextnode(rt, d) # NoHop
          => routingtable_getnextnode(rt', d) = routingtable_getnextnode(rt, d)]_vars
=============================================================================
