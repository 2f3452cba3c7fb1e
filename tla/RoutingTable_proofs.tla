------------------------ MODULE RoutingTable_proofs -------------------------
(***************************************************************************)
(* The answers of a routing table under any sequence of insertions.         *)
(***************************************************************************)
EXTENDS RoutingTableCalls, RoutingTableFacts

Entries == [destNodeID : Valid, nextNodeID : Valid]

(* Every slot is a list of entries, and the answers are hops that were stored. *)
Inv == TypeOK /\ AnswerWasStored

LEMMA AppendHops ==
    ASSUME NEW s \in Seq(Valid), NEW e \in Valid
    PROVE  /\ Len(s) \in Nat /\ Len(Append(s, e)) = Len(s) + 1 /\ Append(s, e) # << >>
           /\ Append(s, e)[Len(s) + 1] = e
           /\ \A i \in 1..Len(s) : Append(s, e)[i] = s[i]
OBVIOUS

LEMMA EntriesHop == \A e \in Entries : e.nextNodeID # NoHop
BY DEF Entries, Valid, NoHop

LEMMA InitInv == CallsInit => Inv
<1> SUFFICES ASSUME CallsInit PROVE Inv
  OBVIOUS
<1>1. TypeOK
  BY RoutingTableConstants DEF CallsInit, TypeOK, EmptyTable, NoHop
<1>2. ASSUME NEW d \in Ids PROVE routingtable_getnextnode(rt, d) = NoHop
  <2>1. CASE d <= 0
    BY <2>1 DEF routingtable_getnextnode
  <2>2. CASE d > 0
    <3>1. rt[makehash(d)] = << >>
      BY <2>2, RoutingTableConstants, HashIsSlot DEF CallsInit, EmptyTable
    <3>2. EntriesOf(rt[makehash(d)], d) = {}
      BY <3>1 DEF EntriesOf
    <3> QED
      BY <3>2 DEF routingtable_getnextnode
  <2> QED
    BY <2>1, <2>2, RoutingTableConstants
<1>3. AnswerWasStored
  BY <1>2 DEF AnswerWasStored, CallsInit
<1> QED
  BY <1>1, <1>3 DEF Inv

(* What a call does to the table and to its answers.                         *)
LEMMA CallAnswer ==
    ASSUME TypeOK, NEW dest \in Ids, NEW next \in Ids, NEW junk \in HeapInts,
           SetNextNode(dest, next, junk)
    PROVE  /\ IsTable(rt', Entries)
           /\ \A d \in Ids : routingtable_getnextnode(rt', d) =
                 IF routingtable_getnextnode(rt, d) = NoHop /\ Stored(dest, next, junk) /\ d = dest
                   THEN next ELSE routingtable_getnextnode(rt, d)
<1>1. IsTable(rt, Entries)
  BY DEF TypeOK, IsTable, Entries
<1>2. rt' = hashtable_insert(rt, dest, next, junk)
  BY DEF SetNextNode, routingtable_setnextnode
<1>3. dest \in Int /\ next \in Int /\ Ids \subseteq Int
  BY RoutingTableConstants
<1>4. Stored(dest, next, junk) => Entry(dest, next) \in Entries
  BY <1>3 DEF Stored, Entry, Entries, Valid
<1>5. IsTable(rt', Entries)
  BY <1>1, <1>2, <1>3, <1>4, InsertIsTable
<1>6. ASSUME NEW d \in Ids
      PROVE  routingtable_getnextnode(rt', d) =
                 IF routingtable_getnextnode(rt, d) = NoHop /\ Stored(dest, next, junk) /\ d = dest
                   THEN next ELSE routingtable_getnextnode(rt, d)
  BY <1>1, <1>2, <1>3, EntriesHop, InsertAnswer
<1> QED
  BY <1>5, <1>6

LEMMA NextInv == Inv /\ [Next]_vars => Inv'
<1> SUFFICES ASSUME Inv, [Next]_vars PROVE Inv'
  OBVIOUS
<1>1. CASE UNCHANGED vars
  BY <1>1 DEF vars, Inv, TypeOK, AnswerWasStored
<1>2. ASSUME NEW dest \in Ids, NEW next \in Ids, NEW junk \in HeapInts,
             SetNextNode(dest, next, junk)
      PROVE  Inv'
  <2>1. TypeOK'
    <3>1. IsTable(rt', Entries)
      BY <1>2, CallAnswer DEF Inv
    <3>2. hops' \in [Ids -> Seq(Valid)]
      <4>1. Stored(dest, next, junk) => next \in Valid
        BY RoutingTableConstants DEF Stored, Valid
      <4> QED
        BY <1>2, <4>1 DEF Inv, TypeOK, SetNextNode
    <3>3. calls' \in Nat
      BY <1>2, RoutingTableConstants DEF Inv, TypeOK, SetNextNode
    <3> QED
      BY <3>1, <3>2, <3>3 DEF TypeOK, IsTable, Entries
  <2>2. AnswerWasStored'
    <3>1. SUFFICES ASSUME NEW d \in Ids
                   PROVE  IF hops'[d] = << >>
                            THEN routingtable_getnextnode(rt', d) = NoHop
                            ELSE \E i \in 1..Len(hops'[d]) :
                                    routingtable_getnextnode(rt', d) = hops'[d][i]
      BY DEF AnswerWasStored
    <3> DEFINE answer == routingtable_getnextnode(rt, d)
               answerAfter == routingtable_getnextnode(rt', d)
               stores == Stored(dest, next, junk) /\ d = dest
    <3>2. /\ answerAfter = IF answer = NoHop /\ stores THEN next ELSE answer
          /\ hops'[d] = IF stores THEN Append(hops[d], next) ELSE hops[d]
          /\ IF hops[d] = << >> THEN answer = NoHop
             ELSE \E i \in 1..Len(hops[d]) : answer = hops[d][i]
          /\ hops[d] \in Seq(Valid) /\ (stores => next \in Valid)
      <4>1. stores => next \in Valid
        BY RoutingTableConstants DEF Stored, Valid
      <4>2. hops[d] \in Seq(Valid)
        BY DEF Inv, TypeOK
      <4>3. hops'[d] = IF stores THEN Append(hops[d], next) ELSE hops[d]
        BY <1>2 DEF Inv, TypeOK, SetNextNode
      <4>4. answerAfter = IF answer = NoHop /\ stores THEN next ELSE answer
        BY <1>2, CallAnswer DEF Inv
      <4> QED
        BY <4>1, <4>2, <4>3, <4>4 DEF Inv, AnswerWasStored
    <3> HIDE DEF answer, answerAfter, stores
    <3>3. CASE ~stores
      BY <3>2, <3>3 DEF answerAfter
    <3>4. CASE stores
      <4>1. /\ Len(hops[d]) \in Nat /\ Len(hops'[d]) = Len(hops[d]) + 1 /\ hops'[d] # << >>
            /\ hops'[d][Len(hops[d]) + 1] = next
            /\ \A i \in 1..Len(hops[d]) : hops'[d][i] = hops[d][i]
        <5>1. hops'[d] = Append(hops[d], next) /\ hops[d] \in Seq(Valid) /\ next \in Valid
          BY <3>2, <3>4
        <5> QED
          BY <5>1, AppendHops
      <4>2. Len(hops[d]) + 1 \in 1..Len(hops'[d])
            /\ \A i \in 1..Len(hops[d]) : i \in 1..Len(hops'[d])
        BY <4>1
      <4>3. CASE hops[d] = << >>
        BY <3>2, <3>4, <4>1, <4>2, <4>3 DEF answerAfter
      <4>4. CASE hops[d] # << >>
        <5>1. PICK i \in 1..Len(hops[d]) : answer = hops[d][i]
          BY <3>2, <4>4
        <5>2. answer # NoHop
          BY <3>2, <5>1 DEF Valid, NoHop
        <5> QED
          BY <3>2, <4>1, <4>2, <5>1, <5>2 DEF answerAfter
      <4> QED
        BY <4>3, <4>4
    <3> QED
      BY <3>3, <3>4
  <2> QED
    BY <2>1, <2>2 DEF Inv
<1> QED
  BY <1>1, <1>2 DEF Next

(* routingtable_getnextnode() answers with a next hop that was stored for the *)
(* destination, if there is one: for every number of slots and any calls.     *)
THEOREM AnswersWereStored == Spec => []AnswerWasStored
<1>1. Inv => AnswerWasStored
  BY DEF Inv
<1> QED
  BY InitInv, NextInv, <1>1, PTL DEF Spec

(* The table keeps its shape, whatever malloc() finds in its entries.        *)
THEOREM TableTypes == Spec => []TypeOK
<1>1. Inv => TypeOK
  BY DEF Inv
<1> QED
  BY InitInv, NextInv, <1>1, PTL DEF Spec

(* A next hop of routingtable_getnextnode() is the answer for good: against   *)
(* the comment at routing_table.c:129-130, no entry is ever updated.          *)
THEOREM AnswersStand == Spec => HopsStand
<1>1. ASSUME Inv, [Next]_vars
      PROVE  [\A d \in Ids : routingtable_getnextnode(rt, d) # NoHop
                 => routingtable_getnextnode(rt', d) = routingtable_getnextnode(rt, d)]_vars
  BY <1>1, CallAnswer DEF Inv, Next
<1> QED
  BY InitInv, NextInv, <1>1, PTL DEF Spec, HopsStand
=============================================================================
