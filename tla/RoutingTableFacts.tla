------------------------- MODULE RoutingTableFacts --------------------------
(***************************************************************************)
(* What an insertion does to the answers of routingtable_getnextnode().     *)
(***************************************************************************)
EXTENDS RoutingTable, FiniteSetTheorems, WellFoundedInduction, TLAPS

(* A set of positions that is not empty has a first one, the only one that   *)
(* FirstOf() can choose.  The positions up to each are finite sets, of which *)
(* one is minimal by inclusion.                                             *)
LEMMA FirstExists ==
    ASSUME NEW S \in SUBSET Nat, S # {}
    PROVE  /\ FirstOf(S) \in S /\ \A j \in S : FirstOf(S) <= j
           /\ \A i \in S : (\A j \in S : i <= j) => i = FirstOf(S)
<1> DEFINE T == {1..n : n \in S}
<1>1. T \subseteq FiniteSubsetsOf(Nat)
  <2>1. \A n \in S : IsFiniteSet(1..n) /\ 1..n \subseteq Nat
    BY FS_Interval
  <2> QED
    BY <2>1 DEF FiniteSubsetsOf
<1>2. T # {}
  OBVIOUS
<1>3. PICK x \in T : \A y \in T : ~(<<y, x>> \in StrictSubsetOrdering(Nat))
  BY <1>1, <1>2, WFMin, FS_StrictSubsetOrderingWellFounded
<1>4. PICK n \in S : x = 1..n
  OBVIOUS
<1>5. ASSUME NEW m \in S PROVE n <= m
  <2>1. ~(<<1..m, 1..n>> \in StrictSubsetOrdering(Nat))
    BY <1>3, <1>4
  <2>2. m < n => (1..m) \subseteq (1..n) /\ n \in 1..n /\ n \notin 1..m
    OBVIOUS
  <2> QED
    BY <2>1, <2>2 DEF StrictSubsetOrdering
<1>6. FirstOf(S) \in S /\ \A j \in S : FirstOf(S) <= j
  BY <1>5 DEF FirstOf
<1>7. ASSUME NEW i \in S, \A j \in S : i <= j PROVE i = FirstOf(S)
  <2>1. i \in Nat /\ FirstOf(S) \in Nat
    BY <1>6
  <2>2. i <= FirstOf(S) /\ FirstOf(S) <= i
    BY <1>6, <1>7
  <2> QED
    BY <2>1, <2>2
<1> QED
  BY <1>6, <1>7

(* A slot of a table. *)
IsTable(rt, E) == DOMAIN rt = Slots /\ \A s \in Slots : rt[s] \in Seq(E)

LEMMA HashIsSlot ==
    ASSUME NEW d \in Nat
    PROVE  makehash(d) \in Slots
BY RoutingTableConstants DEF makehash, Slots

(* The answer is the next hop of an entry for the destination, or none.      *)
LEMMA AnswerIsEntry ==
    ASSUME NEW E, NEW rt, IsTable(rt, E), NEW d \in Int,
           routingtable_getnextnode(rt, d) # NoHop
    PROVE  /\ d > 0
           /\ \E i \in DOMAIN rt[makehash(d)] :
                 /\ rt[makehash(d)][i].destNodeID = d
                 /\ rt[makehash(d)][i] \in E
                 /\ routingtable_getnextnode(rt, d) = rt[makehash(d)][i].nextNodeID
<1>1. d > 0 /\ EntriesOf(rt[makehash(d)], d) # {}
  BY DEF routingtable_getnextnode
<1>2. rt[makehash(d)] \in Seq(E)
  BY <1>1, HashIsSlot DEF IsTable
<1>3. EntriesOf(rt[makehash(d)], d) \in SUBSET Nat
  BY <1>2 DEF EntriesOf
<1> DEFINE i == FirstOf(EntriesOf(rt[makehash(d)], d))
<1>4. i \in EntriesOf(rt[makehash(d)], d)
  BY <1>1, <1>3, FirstExists
<1>5. routingtable_getnextnode(rt, d) = rt[makehash(d)][i].nextNodeID
  BY <1>1 DEF routingtable_getnextnode
<1>6. i \in DOMAIN rt[makehash(d)] /\ rt[makehash(d)][i].destNodeID = d
  BY <1>4 DEF EntriesOf
<1> HIDE DEF i
<1> QED
  BY <1>1, <1>2, <1>5, <1>6

LEMMA InsertIsTable ==
    ASSUME NEW E, NEW rt, IsTable(rt, E), NEW dest \in Int, NEW next \in Int, NEW junk,
           Stored(dest, next, junk) => Entry(dest, next) \in E
    PROVE  IsTable(hashtable_insert(rt, dest, next, junk), E)
<1>1. CASE ~Stored(dest, next, junk)
  BY <1>1 DEF hashtable_insert
<1>2. CASE Stored(dest, next, junk)
  <2>1. makehash(dest) \in Slots
    BY <1>2, HashIsSlot DEF Stored
  <2>2. Append(rt[makehash(dest)], Entry(dest, next)) \in Seq(E)
    BY <1>2, <2>1 DEF IsTable
  <2> QED
    BY <1>2, <2>2 DEF hashtable_insert, IsTable
<1> QED
  BY <1>1, <1>2

(* An insertion changes one answer at most, that for its own destination,    *)
(* and only if that was none.                                               *)
LEMMA InsertAnswer ==
    ASSUME NEW E, NEW rt, IsTable(rt, E), NEW d \in Int,
           \A e \in E : e.nextNodeID # NoHop,
           NEW dest \in Int, NEW next \in Int, NEW junk
    PROVE  routingtable_getnextnode(hashtable_insert(rt, dest, next, junk), d) =
               IF routingtable_getnextnode(rt, d) = NoHop /\ Stored(dest, next, junk) /\ d = dest
                 THEN next ELSE routingtable_getnextnode(rt, d)
<1> DEFINE rt2 == hashtable_insert(rt, dest, next, junk)
           list == rt[makehash(d)]
           list2 == rt2[makehash(d)]
<1>1. CASE ~Stored(dest, next, junk)
  BY <1>1 DEF hashtable_insert
<1>2. CASE Stored(dest, next, junk) /\ d <= 0
  BY <1>2 DEF Stored, routingtable_getnextnode
<1>3. CASE Stored(dest, next, junk) /\ d > 0 /\ makehash(d) # makehash(dest)
  <2>1. list2 = list
    BY <1>3, HashIsSlot DEF hashtable_insert, IsTable
  <2> QED
    BY <1>3, <2>1 DEF routingtable_getnextnode
<1>4. CASE Stored(dest, next, junk) /\ d > 0 /\ makehash(d) = makehash(dest)
  <2> DEFINE found == EntriesOf(list, d)
             found2 == EntriesOf(list2, d)
             new == Len(list) + 1
  <2>1. list \in Seq(E)
    BY <1>4, HashIsSlot DEF IsTable
  <2>2. list2 = Append(list, Entry(dest, next))
    BY <1>4, HashIsSlot DEF hashtable_insert, IsTable
  <2>3. /\ DOMAIN list = 1..Len(list) /\ DOMAIN list2 = 1..new
        /\ \A i \in 1..Len(list) : list2[i] = list[i] /\ list[i] \in E
        /\ list2[new] = Entry(dest, next)
    BY <2>1, <2>2
  <2>4. found2 = IF d = dest THEN found \cup {new} ELSE found
    <3>1. Entry(dest, next).destNodeID = dest
      BY DEF Entry
    <3> QED
      BY <2>1, <2>3, <3>1 DEF EntriesOf
  <2>5. found \in SUBSET Nat /\ found2 \in SUBSET Nat /\ new \in Nat /\ \A i \in found : i < new
    BY <2>1, <2>3, <2>4 DEF EntriesOf
  <2>6. /\ routingtable_getnextnode(rt, d) =
              IF found = {} THEN NoHop ELSE list[FirstOf(found)].nextNodeID
        /\ routingtable_getnextnode(rt2, d) =
              IF found2 = {} THEN NoHop ELSE list2[FirstOf(found2)].nextNodeID
    BY <1>4 DEF routingtable_getnextnode
  <2>7. CASE found # {}
    <3>1. FirstOf(found) \in found /\ \A j \in found : FirstOf(found) <= j
      BY <2>5, <2>7, FirstExists
    <3>2. FirstOf(found) \in found2 /\ \A j \in found2 : FirstOf(found) <= j
      BY <2>4, <2>5, <3>1
    <3>3. FirstOf(found2) = FirstOf(found)
      BY <2>5, <3>2, FirstExists
    <3>4. FirstOf(found) \in 1..Len(list)
      BY <2>3, <3>1 DEF EntriesOf
    <3>5. list[FirstOf(found)].nextNodeID # NoHop
      BY <2>3, <3>4
    <3> HIDE DEF found, found2, list, list2
    <3> QED
      BY <2>3, <2>6, <2>7, <3>2, <3>3, <3>4, <3>5
  <2>8. CASE found = {} /\ d = dest
    <3>1. found2 = {new}
      BY <2>4, <2>8
    <3>2. FirstOf(found2) = new
      <4>1. FirstOf(found2) \in found2
        BY <2>5, <3>1, FirstExists
      <4> QED
        BY <3>1, <4>1
    <3>3. Entry(dest, next).nextNodeID = next
      BY DEF Entry
    <3> HIDE DEF found, found2, list, list2
    <3> QED
      BY <1>4, <2>3, <2>6, <2>8, <3>1, <3>2, <3>3
  <2>9. CASE found = {} /\ d # dest
    BY <2>4, <2>6, <2>9
  <2> QED
    BY <2>7, <2>8, <2>9
<1> QED
  BY <1>1, <1>2, <1>3, <1>4
=============================================================================
