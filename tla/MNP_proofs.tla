----------------------------- MODULE MNP_proofs -----------------------------
(***************************************************************************)
(* Routes, segments and deliveries of the MNP processes, for every          *)
(* topology and every content of unwritten memory.                          *)
(***************************************************************************)
EXTENDS MNP, RoutingTableFacts, SequenceTheorems

(* An entry is for a neighbour, by way of itself.                            *)
Direct == {e \in [destNodeID : Nodes, nextNodeID : Nodes] : e.nextNodeID = e.destNodeID}

Row == [nodeID : Nodes, dvEntry : Seq(EntryOf)]

(* All that is ever advertised is INFINITE_COST.                             *)
Advertised == [nodeID : Ids, cost : {INFINITE_COST}]
Pkt == [type : {"ROUTE_UPDATE", "MNP"}, src : Nodes, dest : Nodes \cup {BROADCAST_NODEID},
        seg : Nat, entries : Seq(Advertised)]

WasSent(p) == p.seg \in 1..Len(sent[p.src]) /\ sent[p.src][p.seg] = p.dest

Types ==
    /\ packet \in [Nodes -> [Threads -> Pkt]]
    /\ link \in [Nodes -> [Nodes -> Seq(Pkt)]]
    /\ hop \in [Nodes -> [Threads -> Int]]
    /\ entry \in [Nodes -> Nat \ {0}] /\ made \in [Nodes -> Nat]
    /\ sent \in [Nodes -> Seq(Nodes)]
    /\ outbox \in [Nodes -> Seq(Nat)]
    /\ inbox \in [Nodes -> Seq(Nodes \X Nat)]
    /\ reply \in [Nodes -> Nodes \cup {0}]
    /\ got \in [Nodes -> SUBSET (Nodes \X Nat)]

(* No row that dvtable_getcost() reads is the node's own.                    *)
Tables ==
    /\ routing_table = [n \in Nodes |-> routing_table[n]]
    /\ \A n \in Nodes : IsTable(routing_table[n], Direct)
    /\ dv_table \in [Nodes -> Seq(Row)]
    /\ \A n \in Nodes : \A i \in 1..(Len(dv_table[n]) - 1) : dv_table[n][i].nodeID # n

StepNames == {"create", "recv", "lock dv", "lock rt", "update", "unlock rt", "forward", "fill",
              "accept", "get", "lookup", "send"}

Steps ==
    /\ pc \in [Nodes -> [Threads -> StepNames]]
    /\ \A n \in Nodes :
          /\ pc[n]["pkthandler"] \in {"create", "recv", "lock dv", "lock rt", "update", "unlock rt", "forward"}
          /\ pc[n]["routeupdate"] \in {"create", "fill", "send"}
          /\ pc[n]["waitTransport"] \in {"create", "accept", "get", "lookup", "send"}

(* What each thread has in hand.                                             *)
Hand(n) ==
    /\ pc[n]["pkthandler"] = "forward" =>
          /\ packet[n]["pkthandler"].dest = n
          /\ WasSent(packet[n]["pkthandler"])
    /\ packet[n]["routeupdate"].type = "ROUTE_UPDATE"
    /\ pc[n]["waitTransport"] \in {"lookup", "send"} =>
          /\ packet[n]["waitTransport"].src = n
          /\ packet[n]["waitTransport"].dest \in Nodes
          /\ WasSent(packet[n]["waitTransport"])
    /\ pc[n]["waitTransport"] = "send" =>
          hop[n]["waitTransport"] \in {NoHop, packet[n]["waitTransport"].dest}
    /\ \A i \in 1..Len(outbox[n]) : outbox[n][i] \in 1..Len(sent[n])

Hands == \A n \in Nodes : Hand(n)

LinksSent ==
    \A n, m \in Nodes : \A i \in 1..Len(link[n][m]) :
        link[n][m][i].type = "MNP" => WasSent(link[n][m][i])

(* A segment and the node it is from, as the MRT process of node n is given it. *)
SentTo(n, d) == d[2] \in 1..Len(sent[d[1]]) /\ sent[d[1]][d[2]] = n

InboxSent == \A n \in Nodes : \A i \in 1..Len(inbox[n]) : SentTo(n, inbox[n][i])

Inv ==
    /\ Types /\ Tables /\ Steps /\ Hands
    /\ LinksSent /\ PacketsOnCourse /\ InboxSent /\ DeliveredWasSent
-----------------------------------------------------------------------------
(* The tables                                                               *)

LEMMA NodeFacts ==
    /\ Nodes \subseteq Nat \ {0} /\ Nodes \subseteq Ids /\ Ids \subseteq Int
    /\ BROADCAST_NODEID \notin Nodes /\ BROADCAST_NODEID # NoHop
    /\ NoHop \notin Nodes
    /\ \A n \in Nodes : NbrArray[n] \in Seq(Nodes) /\ n \notin Nbrs(n) /\ Nbrs(n) \subseteq Nodes
    /\ INFINITE_COST \in Nat
<1>1. \A n \in Nodes : NbrArray[n] \in Seq(Nodes) /\ n \notin Nbrs(n)
  BY MNPConstants
<1>2. \A n \in Nodes : Nbrs(n) \subseteq Nodes
  BY <1>1 DEF Nbrs
<1> QED
  BY <1>1, <1>2, MNPConstants, RoutingTableConstants, DVTableConstants DEF NoHop

LEMMA ExceptNowhere ==
    ASSUME NEW S, NEW s \in Seq(S), NEW i, i \notin 1..Len(s), NEW e
    PROVE  [s EXCEPT ![i] = e] = s
<1>1. DOMAIN s = 1..Len(s) /\ s = [k \in DOMAIN s |-> s[k]]
  OBVIOUS
<1>2. \A k \in DOMAIN s : [s EXCEPT ![i] = e][k] = s[k]
  BY <1>1
<1> QED
  BY <1>1, <1>2

LEMMA SetcostRows ==
    ASSUME NEW t \in Seq(Row), NEW from, NEW to, NEW cost \in Nat
    PROVE  LET u == dvtable_setcost(t, from, to, cost)
           IN  u \in Seq(Row) /\ Len(u) = Len(t) /\ \A i \in 1..Len(t) : u[i].nodeID = t[i].nodeID
<1> DEFINE places == Places(t, Len(t), from, to)
           a == FirstPlace(places)[1]
           b == FirstPlace(places)[2]
           row == [t[a] EXCEPT !.dvEntry = [t[a].dvEntry EXCEPT ![b] = [@ EXCEPT !.cost = cost]]]
           u == dvtable_setcost(t, from, to, cost)
<1>1. CASE places = {}
  BY <1>1 DEF dvtable_setcost
<1>2. CASE places # {}
  <2>1. u = [t EXCEPT ![a] = row]
    BY <1>2 DEF dvtable_setcost
  <2> HIDE DEF a, b, u, places
  <2>2. a \in 1..Len(t) => row \in Row /\ row.nodeID = t[a].nodeID
    <3> SUFFICES ASSUME a \in 1..Len(t) PROVE row \in Row /\ row.nodeID = t[a].nodeID
      OBVIOUS
    <3>1. t[a] \in Row
      OBVIOUS
    <3>2. t[a].dvEntry \in Seq(EntryOf)
      BY <3>1 DEF Row
    <3> DEFINE list == t[a].dvEntry
               changed == [list[b] EXCEPT !.cost = cost]
               entries == [list EXCEPT ![b] = changed]
    <3>3. entries \in Seq(EntryOf)
      <4>1. list \in Seq(EntryOf)
        BY <3>2
      <4> HIDE DEF list
      <4>2. CASE b \in 1..Len(list)
        <5>1. list[b] \in EntryOf
          BY <4>1, <4>2
        <5>2. changed \in EntryOf
          BY <5>1 DEF EntryOf
        <5> QED
          BY <4>1, <4>2, <5>2, ExceptSeq
      <4>3. CASE b \notin 1..Len(list)
        BY <4>1, <4>3, ExceptNowhere
      <4> QED
        BY <4>2, <4>3
    <3> QED
      BY <3>1, <3>3 DEF Row
  <2> HIDE DEF row
  <2>3. CASE a \in 1..Len(t)
    <3>1. u \in Seq(Row)
      BY <2>1, <2>2, <2>3, ExceptSeq
    <3>2. Len(u) = Len(t) /\ \A i \in 1..Len(t) : u[i] = IF i = a THEN row ELSE t[i]
      BY <2>1, <2>2, <2>3, ExceptSeq
    <3> QED
      BY <2>2, <2>3, <3>1, <3>2 DEF u
  <2>4. CASE a \notin 1..Len(t)
    <3>1. u = t
      BY <2>1, <2>4, ExceptNowhere
    <3> QED
      BY <3>1 DEF u
  <2> QED
    BY <2>3, <2>4 DEF u
<1> QED
  BY <1>1, <1>2

(* dvtable_getcost() knows no cost of the node's own.                        *)
LEMMA OwnCost ==
    ASSUME NEW t, NEW n, NEW to, Len(t) \in Nat, \A i \in 1..(Len(t) - 1) : t[i].nodeID # n
    PROVE  dvtable_getcost(t, n, to) = INFINITE_COST
<1>1. Places(t, Len(t) - 1, n, to) = {}
  BY DEF Places
<1> QED
  BY <1>1 DEF dvtable_getcost

(* A route leads to the destination itself.                                  *)
LEMMA AnswerIsDirect ==
    ASSUME NEW rt, IsTable(rt, Direct), NEW d \in Int
    PROVE  routingtable_getnextnode(rt, d) \in {NoHop, d}
<1>1. CASE routingtable_getnextnode(rt, d) # NoHop
  BY <1>1, AnswerIsEntry DEF Direct
<1> QED
  BY <1>1

LEMMA NbrCostNat ==
    ASSUME NEW n \in Nodes, NEW m \in Nodes
    PROVE  nbrcosttable_getcost(NbrArray[n], LinkCost[n], m) \in Nat
BY MNPConstants, DVTableConstants DEF nbrcosttable_getcost

LEMMA CreatedRows ==
    ASSUME NEW n \in Nodes
    PROVE  LET t == dvtable_create(NbrArray[n], n, IdArray[n], LinkCost)
           IN  t \in Seq(Row) /\ \A i \in 1..(Len(t) - 1) : t[i].nodeID # n
<1> DEFINE t == dvtable_create(NbrArray[n], n, IdArray[n], LinkCost)
           count == Len(NbrArray[n])
           source(i) == IF i <= count THEN NbrArray[n][i] ELSE n
<1>1. NbrArray[n] \in Seq(Nodes) /\ count \in Nat /\ \A i \in 1..count : NbrArray[n][i] \in Nodes \ {n}
  BY NodeFacts DEF Nbrs
<1>2. \A i \in 1..(count + 1) : source(i) \in Nodes
  BY <1>1
<1>3. \A i \in 1..(count + 1) : dv_entry_new(IdArray[n][i], LinkCost[source(i)]) \in Seq(EntryOf)
  <2> SUFFICES ASSUME NEW i \in 1..(count + 1)
               PROVE  dv_entry_new(IdArray[n][i], LinkCost[source(i)]) \in Seq(EntryOf)
    OBVIOUS
  <2>1. IdArray[n][i] \in [1..Cardinality(Nodes) -> Ids] /\ Cardinality(Nodes) \in Nat
    <3>1. i \in Calls(n)
      BY <1>1 DEF Calls
    <3>2. IsFiniteSet(Nodes) /\ IdArray[n] \in [Calls(n) -> [1..Cardinality(Nodes) -> Ids]]
      BY MNPConstants
    <3> QED
      BY <3>1, <3>2, FS_CardinalityType
  <2>2. LinkCost[source(i)] \in [Ids -> Nat]
    BY <1>2, MNPConstants
  <2> HIDE DEF source
  <2> QED
    BY <2>1, <2>2 DEF dv_entry_new, EntryOf
<1>4. t = [i \in 1..(count + 1) |->
              [nodeID |-> source(i), dvEntry |-> dv_entry_new(IdArray[n][i], LinkCost[source(i)])]]
  BY DEF dvtable_create
<1> HIDE DEF t
<1>5. t \in Seq(Row)
  BY <1>1, <1>2, <1>3, <1>4 DEF Row
<1>6. Len(t) = count + 1 /\ \A i \in 1..count : t[i].nodeID # n
  BY <1>1, <1>4
<1> QED
  BY <1>1, <1>5, <1>6 DEF t

(* What was sent stays sent.                                                *)
LEMMA SentKept ==
    ASSUME sent \in [Nodes -> Seq(Nodes)], NEW n \in Nodes, NEW dest \in Nodes,
           sent' = [sent EXCEPT ![n] = Append(@, dest)]
    PROVE  /\ \A k \in Nodes : Len(sent[k]) <= Len(sent'[k])
           /\ \A k \in Nodes : \A i \in 1..Len(sent[k]) : sent'[k][i] = sent[k][i]
           /\ \A p : p.src \in Nodes /\ WasSent(p) => WasSent(p)'
           /\ \A k, d : d[1] \in Nodes /\ SentTo(k, d) => SentTo(k, d)'
<1>1. \A k \in Nodes : sent[k] \in Seq(Nodes)
  OBVIOUS
<1>2. \A k \in Nodes : Len(sent[k]) <= Len(sent'[k])
  BY <1>1
<1>3. \A k \in Nodes : \A i \in 1..Len(sent[k]) : sent'[k][i] = sent[k][i]
  BY <1>1
<1>4. \A k \in Nodes : Len(sent[k]) \in Nat /\ Len(sent'[k]) \in Nat
  BY <1>1
<1> QED
  BY <1>2, <1>3, <1>4 DEF WasSent, SentTo
-----------------------------------------------------------------------------
LEMMA InitInv == MNPInit => Inv
<1> SUFFICES ASSUME MNPInit PROVE Inv
  OBVIOUS
<1> USE DEF MNPInit
<1>1. \A n \in Nodes : RouteUpdate(n, << >>) \in Pkt
  BY DEF RouteUpdate, Pkt
<1>2. Types
  <2>1. \A S : << >> \in Seq(S)
    OBVIOUS
  <2>2. BROADCAST_NODEID \in Int
    BY MNPConstants
  <2> QED
    BY <1>1, <2>1, <2>2 DEF Types
<1>3. Tables
  <2>1. \A n \in Nodes : IsTable(routing_table[n], Direct)
    BY DEF EmptyTable, IsTable
  <2> QED
    BY <2>1, CreatedRows DEF Tables
<1>4. Steps
  BY DEF Steps, Threads, StepNames
<1>5. Hands
  BY DEF Hands, Hand, Threads, RouteUpdate
<1>6. LinksSent /\ PacketsOnCourse /\ InboxSent /\ DeliveredWasSent
  BY DEF LinksSent, PacketsOnCourse, InboxSent, DeliveredWasSent
<1> QED
  BY <1>2, <1>3, <1>4, <1>5, <1>6 DEF Inv

(* One element of a function of functions is changed.                       *)
LEMMA NestedExcept ==
    ASSUME NEW A, NEW B, NEW C, NEW f \in [A -> [B -> C]], NEW a \in A, NEW b \in B, NEW c \in C,
           NEW g, g = [f EXCEPT ![a][b] = c]
    PROVE  /\ g \in [A -> [B -> C]]
           /\ \A x \in A : \A y \in B : g[x][y] = IF x = a /\ y = b THEN c ELSE f[x][y]
OBVIOUS

(* One thread moves on.                                                     *)
LEMMA Moves ==
    ASSUME Steps, NEW n \in Nodes, NEW thread \in Threads, NEW step \in StepNames,
           GoTo(n, thread, step)
    PROVE  /\ pc' \in [Nodes -> [Threads -> StepNames]]
           /\ \A k \in Nodes : \A t \in Threads :
                 pc'[k][t] = IF k = n /\ t = thread THEN step ELSE pc[k][t]
<1>1. pc \in [Nodes -> [Threads -> StepNames]] /\ pc' = [pc EXCEPT ![n][thread] = step]
  BY DEF Steps, GoTo
<1> QED
  BY <1>1, NestedExcept

(* What a step leaves alone stays right.                                    *)
LEMMA Frames ==
    ASSUME Inv
    PROVE  /\ UNCHANGED tables => Tables'
           /\ UNCHANGED <<link, sent>> => LinksSent'
           /\ UNCHANGED link => PacketsOnCourse'
           /\ UNCHANGED <<inbox, sent>> => InboxSent'
           /\ UNCHANGED <<got, sent>> => DeliveredWasSent'
           /\ UNCHANGED pc => Steps'
           /\ UNCHANGED <<pc, packet, hop, outbox, sent>> => Hands'
<1>1. UNCHANGED tables => Tables'
  BY DEF Inv, Tables, tables
<1>2. UNCHANGED <<link, sent>> => LinksSent'
  <2> SUFFICES ASSUME link' = link, sent' = sent PROVE LinksSent'
    OBVIOUS
  <2>1. LinksSent
    BY DEF Inv
  <2> QED
    BY <2>1 DEF LinksSent, WasSent
<1>3. UNCHANGED link => PacketsOnCourse'
  BY DEF Inv, PacketsOnCourse
<1>4. UNCHANGED <<got, sent>> => DeliveredWasSent'
  BY DEF Inv, DeliveredWasSent
<1>5. UNCHANGED pc => Steps'
  BY DEF Inv, Steps
<1>6. UNCHANGED <<pc, packet, hop, outbox, sent>> => Hands'
  BY DEF Inv, Hands, Hand, WasSent
<1>7. UNCHANGED <<inbox, sent>> => InboxSent'
  BY DEF Inv, InboxSent, SentTo
<1> QED
  BY <1>1, <1>2, <1>3, <1>4, <1>5, <1>6, <1>7
-----------------------------------------------------------------------------
(* main()                                                                   *)

LEMMA InsertNbrInv ==
    ASSUME Inv, NEW n \in Nodes, InsertNbr(n)
    PROVE  Inv'
<1> DEFINE dest == NbrArray[n][made[n] + 1]
<1>1. Types'
  BY DEF Inv, Types, InsertNbr, mrtVars
<1>2. Tables'
  <2>1. dest \in Nodes
    <3>1. made[n] + 1 \in 1..Len(NbrArray[n])
      BY DEF InsertNbr, Inv, Types
    <3> QED
      BY <3>1, NodeFacts
  <2>2. PICK junk : routing_table' = [routing_table EXCEPT ![n] = hashtable_insert(@, dest, dest, junk)]
    BY DEF InsertNbr
  <2> HIDE DEF dest
  <2>3. IsTable(hashtable_insert(routing_table[n], dest, dest, junk), Direct)
    <3>1. Entry(dest, dest) \in Direct /\ dest \in Int
      BY <2>1, NodeFacts DEF Entry, Direct
    <3>2. IsTable(routing_table[n], Direct)
      BY DEF Inv, Tables
    <3> QED
      BY <3>1, <3>2, InsertIsTable
  <2>4. UNCHANGED dv_table
    BY DEF InsertNbr
  <2> QED
    BY <2>2, <2>3, <2>4 DEF Inv, Tables
<1> QED
  BY <1>1, <1>2, Frames DEF InsertNbr, mrtVars, Inv

LEMMA StartThreadsInv ==
    ASSUME Inv, NEW n \in Nodes, StartThreads(n)
    PROVE  Inv'
<1>1. Types'
  BY DEF Inv, Types, StartThreads, mrtVars
<1>2. Steps'
  BY DEF Inv, Steps, StartThreads, Threads, FirstStep, StepNames
<1>3. Hands'
  <2> SUFFICES ASSUME NEW k \in Nodes PROVE Hand(k)'
    BY DEF Hands
  <2>1. Hand(k) /\ UNCHANGED <<packet, hop, outbox, sent>>
    BY DEF Inv, Hands, StartThreads, mrtVars
  <2>2. /\ pc'[k]["pkthandler"] \in {pc[k]["pkthandler"], "recv"}
        /\ pc'[k]["waitTransport"] \in {pc[k]["waitTransport"], "accept"}
    BY DEF Inv, Steps, StartThreads, Threads, FirstStep
  <2> QED
    BY <2>1, <2>2 DEF Hand, WasSent
<1> QED
  BY <1>1, <1>2, <1>3, Frames DEF StartThreads, mrtVars, Inv
-----------------------------------------------------------------------------
(* What any thread does                                                     *)

LEMMA FindNextHopInv ==
    ASSUME Inv, NEW n \in Nodes, NEW thread \in Threads, FindNextHop(n, thread)
    PROVE  Inv'
<1> DEFINE p == packet[n]["waitTransport"]
           next == routingtable_getnextnode(routing_table[n], p.dest)
<1>1. thread = "waitTransport"
  BY DEF FindNextHop, At, Inv, Steps, Threads
<1>2. p \in Pkt /\ p.dest \in Nodes
  BY <1>1 DEF FindNextHop, At, Inv, Types, Threads, Hands, Hand
<1>3. next \in {NoHop, p.dest} /\ next \in Int
  <2>1. IsTable(routing_table[n], Direct) /\ p.dest \in Int
    BY <1>2, NodeFacts DEF Inv, Tables
  <2> QED
    BY <2>1, AnswerIsDirect DEF NoHop
<1>4. /\ hop' \in [Nodes -> [Threads -> Int]]
      /\ \A k \in Nodes : \A t \in Threads :
            hop'[k][t] = IF k = n /\ t = "waitTransport" THEN next ELSE hop[k][t]
  <2> HIDE DEF next
  <2>1. hop' = [hop EXCEPT ![n]["waitTransport"] = next]
    BY <1>1 DEF FindNextHop, next, p
  <2> QED
    <3>1. hop \in [Nodes -> [Threads -> Int]] /\ "waitTransport" \in Threads
      BY DEF Inv, Types, Threads
    <3> QED
      BY <1>3, <2>1, <3>1, NestedExcept
<1>5. /\ pc[n]["waitTransport"] = "lookup"
      /\ pc' \in [Nodes -> [Threads -> StepNames]]
      /\ \A k \in Nodes : \A t \in Threads :
            pc'[k][t] = IF k = n /\ t = "waitTransport" THEN "send" ELSE pc[k][t]
  <2>1. Steps /\ GoTo(n, "waitTransport", "send") /\ pc[n]["waitTransport"] = "lookup"
    BY <1>1 DEF FindNextHop, At, Inv
  <2>2. "send" \in StepNames /\ "waitTransport" \in Threads
    BY DEF StepNames, Threads
  <2> QED
    BY <2>1, <2>2, Moves
<1> HIDE DEF next, p
<1>6. Types'
  BY <1>4 DEF Inv, Types, FindNextHop, mrtVars
<1>7. Steps'
  BY <1>5 DEF Inv, Steps, Threads
<1>8. Hands'
  <2> SUFFICES ASSUME NEW k \in Nodes PROVE Hand(k)'
    BY DEF Hands
  <2>1. Hand(k) /\ UNCHANGED <<packet, outbox, sent>>
    BY DEF Inv, Hands, FindNextHop, mrtVars
  <2> QED
    BY <1>3, <1>4, <1>5, <2>1 DEF Hand, WasSent, Threads, p
<1> QED
  BY <1>6, <1>7, <1>8, Frames DEF FindNextHop, mrtVars, Inv

LEMMA overlay_sendpktInv ==
    ASSUME Inv, NEW n \in Nodes, NEW thread \in Threads, overlay_sendpkt(n, thread)
    PROVE  Inv'
<1> DEFINE p == packet[n][thread]
           targets == Targets(n, hop[n][thread])
<1>1. thread \in {"routeupdate", "waitTransport"} /\ AfterSend(thread) \in {"fill", "lookup"}
  BY DEF overlay_sendpkt, At, Inv, Steps, Threads, AfterSend
<1>2. p \in Pkt /\ targets \subseteq Nodes
  <2>1. p \in Pkt
    BY DEF Inv, Types
  <2>2. targets \subseteq Nodes
    BY NodeFacts DEF Targets
  <2> QED
    BY <2>1, <2>2
<1>3. p.type = "MNP" => p.src = n /\ WasSent(p) /\ \A m \in targets : p.dest = m
  <2>1. CASE thread = "routeupdate"
    BY <2>1 DEF Inv, Hands, Hand
  <2>2. CASE thread = "waitTransport"
    <3>1. Hand(n) /\ pc[n]["waitTransport"] = "send"
      BY <2>2 DEF overlay_sendpkt, At, Inv, Hands
    <3>2. /\ p.src = n /\ WasSent(p) /\ p.dest \in Nodes
          /\ hop[n]["waitTransport"] \in {NoHop, p.dest}
      BY <2>2, <3>1 DEF Hand
    <3>3. targets \subseteq {hop[n]["waitTransport"]} /\ targets \subseteq Nodes
      BY <1>2, <2>2, <3>2, NodeFacts DEF Targets
    <3> QED
      BY <3>2, <3>3, NodeFacts
  <2> QED
    BY <1>1, <2>1, <2>2
<1>4. link' = [link EXCEPT ![n] =
                      [m \in Nodes |-> IF m \in targets THEN Append(link[n][m], p) ELSE link[n][m]]]
  BY DEF overlay_sendpkt, Inv, Types
<1> HIDE DEF p, targets
<1>5. /\ link' \in [Nodes -> [Nodes -> Seq(Pkt)]]
      /\ \A k, m \in Nodes : link[k][m] \in Seq(Pkt)
      /\ \A k, m \in Nodes :
            link'[k][m] = IF k = n /\ m \in targets THEN Append(link[k][m], p) ELSE link[k][m]
  <2>1. link \in [Nodes -> [Nodes -> Seq(Pkt)]]
    BY DEF Inv, Types
  <2>2. \A k, m \in Nodes : link[k][m] \in Seq(Pkt)
    BY <2>1
  <2> DEFINE out == [m \in Nodes |-> IF m \in targets THEN Append(link[n][m], p) ELSE link[n][m]]
  <2>3. out \in [Nodes -> Seq(Pkt)]
    BY <1>2, <2>2
  <2>4. link' = [link EXCEPT ![n] = out]
    BY <1>4
  <2>5. \A m \in Nodes : out[m] = IF m \in targets THEN Append(link[n][m], p) ELSE link[n][m]
    OBVIOUS
  <2> HIDE DEF out
  <2> QED
    BY <2>1, <2>2, <2>3, <2>4, <2>5
<1>6. Types'
  BY <1>5 DEF Inv, Types, overlay_sendpkt, mrtVars
<1>7. /\ pc' \in [Nodes -> [Threads -> StepNames]]
      /\ \A k \in Nodes : \A t \in Threads :
            pc'[k][t] = IF k = n /\ t = thread THEN AfterSend(thread) ELSE pc[k][t]
  <2>1. AfterSend(thread) \in StepNames /\ GoTo(n, thread, AfterSend(thread))
    BY <1>1 DEF StepNames, overlay_sendpkt
  <2> QED
    BY <2>1, Moves DEF Inv
<1>8. Steps'
  BY <1>1, <1>7 DEF Inv, Steps, Threads, AfterSend
<1>9. Hands'
  <2> SUFFICES ASSUME NEW k \in Nodes PROVE Hand(k)'
    BY DEF Hands
  <2>1. Hand(k) /\ UNCHANGED <<packet, hop, outbox, sent>>
    BY DEF Inv, Hands, overlay_sendpkt, mrtVars
  <2>2. thread = "waitTransport" => pc[n][thread] = "send" /\ AfterSend(thread) = "lookup"
    BY DEF overlay_sendpkt, At, AfterSend
  <2> QED
    BY <1>1, <1>7, <2>1, <2>2 DEF Hand, WasSent, Threads
<1>10. LinksSent' /\ PacketsOnCourse'
  <2> SUFFICES ASSUME NEW k \in Nodes, NEW m \in Nodes, NEW i \in 1..Len(link'[k][m]),
                      link'[k][m][i].type = "MNP"
               PROVE  WasSent(link'[k][m][i]) /\ link'[k][m][i].src = k /\ link'[k][m][i].dest = m
    <3>1. UNCHANGED sent
      BY DEF overlay_sendpkt, mrtVars
    <3>2. LinksSent'
      BY <3>1 DEF LinksSent, WasSent
    <3>3. PacketsOnCourse'
      BY DEF PacketsOnCourse
    <3> QED
      BY <3>2, <3>3
  <2>1. \A j \in 1..Len(link[k][m]) : link[k][m][j].type = "MNP" =>
           WasSent(link[k][m][j]) /\ link[k][m][j].src = k /\ link[k][m][j].dest = m
    BY DEF Inv, LinksSent, PacketsOnCourse
  <2>2. CASE k = n /\ m \in targets
    <3>1. link'[k][m] = Append(link[k][m], p) /\ link[k][m] \in Seq(Pkt)
      BY <1>5, <2>2
    <3>2. link'[k][m][i] = p \/ (i \in 1..Len(link[k][m]) /\ link'[k][m][i] = link[k][m][i])
      BY <3>1
    <3> QED
      BY <1>3, <2>1, <2>2, <3>2
  <2>3. CASE ~(k = n /\ m \in targets)
    BY <1>5, <2>1, <2>3
  <2> QED
    BY <2>2, <2>3
<1> QED
  BY <1>6, <1>8, <1>9, <1>10, Frames DEF overlay_sendpkt, mrtVars, Inv
-----------------------------------------------------------------------------
(* pkthandler                                                               *)

LEMMA overlay_recvpktInv ==
    ASSUME Inv, NEW n \in Nodes, NEW m \in Nodes, overlay_recvpkt(n, m)
    PROVE  Inv'
<1> DEFINE p == Head(link[m][n])
<1>1. link[m][n] \in Seq(Pkt) /\ link[m][n] # << >> /\ 1 \in 1..Len(link[m][n]) /\ p = link[m][n][1]
  BY DEF overlay_recvpkt, Inv, Types
<1>2. p \in Pkt /\ (p.type = "MNP" => p.dest = n /\ WasSent(p))
  BY <1>1 DEF Inv, PacketsOnCourse, LinksSent
<1>3. Dispatch(n, p) \in {"lock dv", "forward"} /\ (Dispatch(n, p) = "forward" => p.type = "MNP")
  BY <1>2 DEF Dispatch, Pkt
<1>4. /\ packet' \in [Nodes -> [Threads -> Pkt]]
      /\ \A k \in Nodes : \A t \in Threads :
            packet'[k][t] = IF k = n /\ t = "pkthandler" THEN p ELSE packet[k][t]
  <2>1. packet' = [packet EXCEPT ![n]["pkthandler"] = p] /\ "pkthandler" \in Threads
    BY DEF overlay_recvpkt, Threads
  <2>2. packet \in [Nodes -> [Threads -> Pkt]]
    BY DEF Inv, Types
  <2> HIDE DEF p
  <2> QED
    BY <1>2, <2>1, <2>2, NestedExcept
<1>5. /\ pc' \in [Nodes -> [Threads -> StepNames]]
      /\ \A k \in Nodes : \A t \in Threads :
            pc'[k][t] = IF k = n /\ t = "pkthandler" THEN Dispatch(n, p) ELSE pc[k][t]
  <2>1. Dispatch(n, p) \in StepNames /\ GoTo(n, "pkthandler", Dispatch(n, p)) /\ "pkthandler" \in Threads
    BY <1>3 DEF StepNames, overlay_recvpkt, Threads
  <2> QED
    BY <2>1, Moves DEF Inv
<1>6. /\ link' \in [Nodes -> [Nodes -> Seq(Pkt)]]
      /\ \A k, l \in Nodes :
            link'[k][l] = IF k = m /\ l = n THEN Tail(link[m][n]) ELSE link[k][l]
  <2>1. link' = [link EXCEPT ![m][n] = Tail(link[m][n])] /\ Tail(link[m][n]) \in Seq(Pkt)
    BY <1>1 DEF overlay_recvpkt, Inv, Types
  <2> QED
    <3>1. link \in [Nodes -> [Nodes -> Seq(Pkt)]]
      BY DEF Inv, Types
    <3> HIDE DEF p
    <3> QED
      BY <2>1, <3>1, NestedExcept
<1>7. UNCHANGED <<tables, hop, entry, made, mrtVars>>
  BY DEF overlay_recvpkt
<1> HIDE DEF p
<1>8. Types'
  BY <1>4, <1>6, <1>7 DEF Inv, Types, mrtVars
<1>9. Steps'
  BY <1>3, <1>5 DEF Inv, Steps, Threads
<1>10. Hands'
  <2> SUFFICES ASSUME NEW k \in Nodes PROVE Hand(k)'
    BY DEF Hands
  <2>1. Hand(k)
    BY DEF Inv, Hands
  <2> QED
    BY <1>2, <1>3, <1>4, <1>5, <1>7, <2>1 DEF Hand, WasSent, Threads, mrtVars
<1>11. LinksSent' /\ PacketsOnCourse'
  <2> SUFFICES ASSUME NEW k \in Nodes, NEW l \in Nodes, NEW i \in 1..Len(link'[k][l]),
                      link'[k][l][i].type = "MNP"
               PROVE  WasSent(link'[k][l][i]) /\ link'[k][l][i].src = k /\ link'[k][l][i].dest = l
    <3>1. UNCHANGED sent
      BY <1>7 DEF mrtVars
    <3>2. LinksSent'
      BY <3>1 DEF LinksSent, WasSent
    <3>3. PacketsOnCourse'
      BY DEF PacketsOnCourse
    <3> QED
      BY <3>2, <3>3
  <2>1. \E j \in 1..Len(link[k][l]) : link'[k][l][i] = link[k][l][j]
    <3>1. CASE k = m /\ l = n
      <4>1. link'[k][l] = Tail(link[k][l]) /\ link[k][l] \in Seq(Pkt) /\ link[k][l] # << >>
        BY <1>1, <1>6, <3>1
      <4>2. i + 1 \in 1..Len(link[k][l]) /\ link'[k][l][i] = link[k][l][i + 1]
        BY <4>1
      <4> QED
        BY <4>2
    <3>2. CASE ~(k = m /\ l = n)
      BY <1>6, <3>2
    <3> QED
      BY <3>1, <3>2
  <2>2. LinksSent /\ PacketsOnCourse
    BY DEF Inv
  <2>3. PICK j \in 1..Len(link[k][l]) : link'[k][l][i] = link[k][l][j]
    BY <2>1
  <2> QED
    BY <2>2, <2>3 DEF LinksSent, PacketsOnCourse
<1> QED
  BY <1>7, <1>8, <1>9, <1>10, <1>11, Frames DEF mrtVars, Inv

(* The handler moves on with what it has.                                   *)
LEMMA HandlerMoves ==
    ASSUME Inv, NEW n \in Nodes, NEW step \in StepNames \ {"lookup", "send", "fill", "accept", "get", "forward"},
           GoTo(n, "pkthandler", step), UNCHANGED <<packet, hop, outbox, sent>>
    PROVE  Steps' /\ Hands'
<1>1. /\ pc' \in [Nodes -> [Threads -> StepNames]]
      /\ \A k \in Nodes : \A t \in Threads :
            pc'[k][t] = IF k = n /\ t = "pkthandler" THEN step ELSE pc[k][t]
  BY Moves DEF Inv, Threads
<1>2. Steps'
  BY <1>1 DEF Inv, Steps, Threads, StepNames
<1>3. Hands'
  BY <1>1 DEF Inv, Hands, Hand, WasSent, Threads
<1> QED
  BY <1>2, <1>3

LEMMA LocksInv ==
    ASSUME Inv, NEW n \in Nodes,
           LockDV(n) \/ LockRoutingTable(n) \/ UnlockDV(n) \/ UnlockRoutingTable(n)
    PROVE  Inv'
<1>1. UNCHANGED <<tables, packet, hop, made, mrtVars, link>>
  BY DEF LockDV, LockRoutingTable, UnlockDV, UnlockRoutingTable
<1>2. \E step \in {"lock rt", "update", "unlock rt", "recv"} : GoTo(n, "pkthandler", step)
  BY DEF LockDV, LockRoutingTable, UnlockDV, UnlockRoutingTable
<1>3. entry' \in [Nodes -> Nat \ {0}]
  <2>1. entry \in [Nodes -> Nat \ {0}]
    BY DEF Inv, Types
  <2>2. entry' = entry \/ entry' = [entry EXCEPT ![n] = 1]
    BY DEF LockDV, LockRoutingTable, UnlockDV, UnlockRoutingTable
  <2>3. 1 \in Nat \ {0}
    OBVIOUS
  <2> QED
    BY <2>1, <2>2, <2>3
<1>4. Types'
  BY <1>1, <1>3 DEF Inv, Types, mrtVars
<1>5. Steps' /\ Hands'
  BY <1>1, <1>2, HandlerMoves DEF mrtVars, StepNames
<1> QED
  BY <1>1, <1>4, <1>5, Frames DEF mrtVars, Inv

LEMMA AppendsOne ==
    ASSUME NEW A, NEW B, NEW f \in [A -> Seq(B)], NEW a \in A, NEW e \in B,
           NEW g, g = [f EXCEPT ![a] = Append(f[a], e)]
    PROVE  /\ g \in [A -> Seq(B)]
           /\ \A x \in A : \A i \in 1..Len(g[x]) :
                 (i \in 1..Len(f[x]) /\ g[x][i] = f[x][i]) \/ (x = a /\ g[x][i] = e)
<1>1. f[a] \in Seq(B) /\ Append(f[a], e) \in Seq(B)
  OBVIOUS
<1>2. \A x \in A : g[x] = IF x = a THEN Append(f[a], e) ELSE f[x]
  OBVIOUS
<1>3. g \in [A -> Seq(B)]
  BY <1>1
<1>4. \A i \in 1..Len(Append(f[a], e)) :
         (i \in 1..Len(f[a]) /\ Append(f[a], e)[i] = f[a][i]) \/ Append(f[a], e)[i] = e
  BY <1>1
<1> QED
  BY <1>2, <1>3, <1>4

LEMMA forwardsegToMRTInv ==
    ASSUME Inv, NEW n \in Nodes, forwardsegToMRT(n)
    PROVE  Inv'
<1> DEFINE p == packet[n]["pkthandler"]
<1>1. p \in Pkt /\ p.dest = n /\ WasSent(p)
  BY DEF forwardsegToMRT, At, Inv, Types, Threads, Hands, Hand
<1>2. /\ GoTo(n, "pkthandler", "recv")
      /\ UNCHANGED <<tables, packet, hop, entry, made, outbox, reply, sent, got, link>>
  BY DEF forwardsegToMRT
<1>3. inbox' = [inbox EXCEPT ![n] = Append(@, <<p.src, p.seg>>)] \/ inbox' = inbox
  BY DEF forwardsegToMRT
<1> HIDE DEF p
<1> DEFINE d == <<p.src, p.seg>>
<1>4. d \in Nodes \X Nat /\ SentTo(n, d)
  BY <1>1 DEF Pkt, SentTo, WasSent
<1> DEFINE pairs == Nodes \X Nat
<1>5. inbox \in [Nodes -> Seq(pairs)] /\ d \in pairs
  BY <1>4 DEF Inv, Types
<1>6. inbox' = [inbox EXCEPT ![n] = Append(inbox[n], d)] \/ inbox' = inbox
  BY <1>3
<1> HIDE DEF d, pairs
<1>7. /\ inbox' \in [Nodes -> Seq(pairs)]
      /\ \A k \in Nodes : \A i \in 1..Len(inbox'[k]) :
            (i \in 1..Len(inbox[k]) /\ inbox'[k][i] = inbox[k][i]) \/ (k = n /\ inbox'[k][i] = d)
  <2>1. CASE inbox' = [inbox EXCEPT ![n] = Append(inbox[n], d)]
    BY <1>5, <2>1, AppendsOne
  <2>2. CASE inbox' = inbox
    BY <1>5, <2>2
  <2> QED
    BY <1>6, <2>1, <2>2
<1>8. Types'
  BY <1>2, <1>7 DEF Inv, Types, pairs
<1>9. Steps' /\ Hands'
  BY <1>2, HandlerMoves DEF StepNames
<1>10. InboxSent'
  <2> SUFFICES ASSUME NEW k \in Nodes, NEW i \in 1..Len(inbox'[k])
               PROVE  SentTo(k, inbox'[k][i])
    BY <1>2 DEF InboxSent, SentTo
  <2>1. CASE i \in 1..Len(inbox[k]) /\ inbox'[k][i] = inbox[k][i]
    BY <2>1 DEF Inv, InboxSent
  <2>2. CASE k = n /\ inbox'[k][i] = d
    BY <1>4, <2>2
  <2> QED
    BY <1>7, <2>1, <2>2
<1> QED
  BY <1>2, <1>8, <1>9, <1>10, Frames DEF Inv

(* The node's own cost is taken for infinite: no neighbour is cheaper.       *)
LEMMA UpdateEntryTables ==
    ASSUME Inv, NEW n \in Nodes, UpdateEntry(n)
    PROVE  /\ routing_table' = routing_table
           /\ Tables'
<1> DEFINE p == packet[n]["pkthandler"]
           e == p.entries[entry[n]]
           heard == dvtable_setcost(dv_table[n], p.src, e.nodeID, e.cost)
           dvCost == dvtable_getcost(heard, n, e.nodeID)
           nbr == nbrcosttable_getcost(NbrArray[n], LinkCost[n], p.src)
<1>1. p \in Pkt /\ e \in Advertised
  <2>1. p \in Pkt
    BY DEF Inv, Types, Threads
  <2>2. p.entries \in Seq(Advertised)
    BY <2>1 DEF Pkt
  <2>3. entry[n] \in 1..Len(p.entries)
    <3>1. entry[n] \in Nat \ {0} /\ entry[n] <= Len(p.entries)
      BY DEF UpdateEntry, Inv, Types
    <3> QED
      BY <2>2, <3>1
  <2> QED
    BY <2>1, <2>2, <2>3
<1>2. nbr \in Nat /\ e.cost = INFINITE_COST /\ INFINITE_COST \in Nat
  BY <1>1, NbrCostNat, NodeFacts DEF Pkt, Advertised
<1>3. dv_table[n] \in Seq(Row) /\ \A i \in 1..(Len(dv_table[n]) - 1) : dv_table[n][i].nodeID # n
  BY DEF Inv, Tables
<1>4. heard \in Seq(Row) /\ Len(heard) = Len(dv_table[n])
      /\ \A i \in 1..Len(dv_table[n]) : heard[i].nodeID = dv_table[n][i].nodeID
  <2>1. e.cost \in Nat
    BY <1>2
  <2> HIDE DEF e, p
  <2> QED
    BY <1>3, <2>1, SetcostRows
<1>5. dvCost = INFINITE_COST
  <2>1. Len(heard) \in Nat /\ \A i \in 1..(Len(heard) - 1) : heard[i].nodeID # n
    <3> HIDE DEF heard
    <3>1. Len(heard) \in Nat
      BY <1>4
    <3> QED
      BY <1>3, <1>4, <3>1
  <2> QED
    BY <2>1, OwnCost
<1>6. ~(dvCost > nbr + e.cost)
  BY <1>2, <1>5
<1>7. dv_table' = [dv_table EXCEPT ![n] = heard]
  BY <1>6 DEF UpdateEntry
<1>8. routing_table' = routing_table
  <2>1. routing_table' = [routing_table EXCEPT ![n] = @]
    BY <1>6 DEF UpdateEntry
  <2>2. routing_table = [k \in Nodes |-> routing_table[k]]
    BY DEF Inv, Tables
  <2> QED
    BY <2>1, <2>2
<1> HIDE DEF heard
<1>9. Tables'
  <2>1. dv_table \in [Nodes -> Seq(Row)]
    BY DEF Inv, Tables
  <2>2. dv_table' \in [Nodes -> Seq(Row)]
    BY <1>4, <1>7, <2>1
  <2>3. \A k \in Nodes : \A i \in 1..(Len(dv_table'[k]) - 1) : dv_table'[k][i].nodeID # k
    <3> SUFFICES ASSUME NEW k \in Nodes, NEW i \in 1..(Len(dv_table'[k]) - 1)
                 PROVE  dv_table'[k][i].nodeID # k
      OBVIOUS
    <3>1. CASE k = n
      <4>1. dv_table'[k] = heard
        BY <1>7, <2>1, <3>1
      <4>2. Len(dv_table[n]) \in Nat
        BY <1>3
      <4> QED
        BY <1>3, <1>4, <3>1, <4>1, <4>2
    <3>2. CASE k # n
      BY <1>7, <2>1, <3>2 DEF Inv, Tables
    <3> QED
      BY <3>1, <3>2
  <2> QED
    BY <1>8, <2>2, <2>3 DEF Inv, Tables
<1> QED
  BY <1>8, <1>9

LEMMA UpdateEntryInv ==
    ASSUME Inv, NEW n \in Nodes, UpdateEntry(n)
    PROVE  Inv'
<1>1. UNCHANGED <<pc, packet, hop, made, mrtVars, link>>
  BY DEF UpdateEntry
<1>2. entry' \in [Nodes -> Nat \ {0}]
  <2>1. entry \in [Nodes -> Nat \ {0}]
    BY DEF Inv, Types
  <2>2. entry' = [entry EXCEPT ![n] = @ + 1]
    BY DEF UpdateEntry
  <2> QED
    BY <2>1, <2>2
<1>3. Types'
  BY <1>1, <1>2 DEF Inv, Types, mrtVars
<1> QED
  BY <1>1, <1>3, UpdateEntryTables, Frames DEF mrtVars, Inv
-----------------------------------------------------------------------------
(* routeupdate_daemon, waitTransport() and the MRT process                   *)

LEMMA FillUpdateInv ==
    ASSUME Inv, NEW n \in Nodes, FillUpdate(n)
    PROVE  Inv'
<1> DEFINE ids == IdArray[n][0]
           entries == [i \in 1..Len(ids) |->
                          [nodeID |-> ids[i], cost |-> dvtable_getcost(dv_table[n], n, ids[i])]]
           p == RouteUpdate(n, entries)
<1>1. p \in Pkt /\ p.type = "ROUTE_UPDATE"
  <2>1. ids \in [1..Cardinality(Nodes) -> Ids] /\ Cardinality(Nodes) \in Nat
    <3>1. NbrArray[n] \in Seq(Nodes)
      BY NodeFacts
    <3>2. 0 \in Calls(n)
      BY <3>1 DEF Calls
    <3> QED
      BY <3>2, MNPConstants, FS_CardinalityType
  <2>2. ids \in Seq(Ids)
    BY <2>1
  <2>3. \A to : dvtable_getcost(dv_table[n], n, to) = INFINITE_COST
    <3>1. Len(dv_table[n]) \in Nat /\ \A i \in 1..(Len(dv_table[n]) - 1) : dv_table[n][i].nodeID # n
      BY DEF Inv, Tables
    <3> QED
      BY <3>1, OwnCost
  <2>4. entries \in Seq(Advertised)
    <3> HIDE DEF ids
    <3> QED
      BY <2>2, <2>3 DEF Advertised
  <2> HIDE DEF entries
  <2> QED
    BY <2>4 DEF RouteUpdate, Pkt
<1>2. /\ packet' \in [Nodes -> [Threads -> Pkt]]
      /\ \A k \in Nodes : \A t \in Threads :
            packet'[k][t] = IF k = n /\ t = "routeupdate" THEN p ELSE packet[k][t]
  <2>1. packet' = [packet EXCEPT ![n]["routeupdate"] = p] /\ "routeupdate" \in Threads
    BY DEF FillUpdate, Threads
  <2>2. packet \in [Nodes -> [Threads -> Pkt]]
    BY DEF Inv, Types
  <2> HIDE DEF p
  <2> QED
    BY <1>1, <2>1, <2>2, NestedExcept
<1> HIDE DEF p
<1>3. /\ pc' \in [Nodes -> [Threads -> StepNames]]
      /\ \A k \in Nodes : \A t \in Threads :
            pc'[k][t] = IF k = n /\ t = "routeupdate" THEN "send" ELSE pc[k][t]
  <2>1. GoTo(n, "routeupdate", "send") /\ Steps
    BY DEF FillUpdate, Inv
  <2>2. "routeupdate" \in Threads /\ "send" \in StepNames
    BY DEF Threads, StepNames
  <2> QED
    BY <2>1, <2>2, Moves
<1>4. UNCHANGED <<tables, hop, entry, made, mrtVars, link>>
  BY DEF FillUpdate
<1>5. Types'
  BY <1>2, <1>4 DEF Inv, Types, mrtVars
<1>6. Steps'
  BY <1>3 DEF Inv, Steps, Threads
<1>7. Hands'
  <2> SUFFICES ASSUME NEW k \in Nodes PROVE Hand(k)'
    BY DEF Hands
  <2>1. Hand(k) /\ UNCHANGED <<hop, outbox, sent>>
    BY <1>4 DEF Inv, Hands, mrtVars
  <2>2. /\ packet'[k]["pkthandler"] = packet[k]["pkthandler"]
        /\ packet'[k]["waitTransport"] = packet[k]["waitTransport"]
        /\ packet'[k]["routeupdate"].type = "ROUTE_UPDATE"
    BY <1>1, <1>2, <2>1 DEF Hand, Threads
  <2>3. /\ pc'[k]["pkthandler"] = pc[k]["pkthandler"]
        /\ pc'[k]["waitTransport"] = pc[k]["waitTransport"]
    BY <1>3 DEF Threads
  <2> QED
    BY <2>1, <2>2, <2>3 DEF Hand, WasSent
<1> QED
  BY <1>4, <1>5, <1>6, <1>7, Frames DEF mrtVars, Inv

LEMMA AcceptInv ==
    ASSUME Inv, NEW n \in Nodes, Accept(n)
    PROVE  Inv'
<1>1. /\ pc' \in [Nodes -> [Threads -> StepNames]]
      /\ \A k \in Nodes : \A t \in Threads :
            pc'[k][t] = IF k = n /\ t = "waitTransport" THEN "get" ELSE pc[k][t]
  <2>1. GoTo(n, "waitTransport", "get") /\ Steps
    BY DEF Accept, Inv
  <2>2. "waitTransport" \in Threads /\ "get" \in StepNames
    BY DEF Threads, StepNames
  <2> QED
    BY <2>1, <2>2, Moves
<1>2. UNCHANGED <<tables, packet, hop, entry, made, outbox, inbox, reply, sent, got, link>>
  BY DEF Accept
<1>3. Types'
  BY <1>2 DEF Inv, Types
<1>4. Steps'
  BY <1>1 DEF Inv, Steps, Threads
<1>5. Hands'
  <2> SUFFICES ASSUME NEW k \in Nodes PROVE Hand(k)'
    BY DEF Hands
  <2>1. Hand(k) /\ UNCHANGED <<hop, outbox, sent>>
    BY <1>2 DEF Inv, Hands, mrtVars
  <2>2. /\ packet'[k]["pkthandler"] = packet[k]["pkthandler"]
        /\ packet'[k]["waitTransport"] = packet[k]["waitTransport"]
        /\ packet'[k]["routeupdate"].type = "ROUTE_UPDATE"
    BY <1>2, <2>1 DEF Hand, Threads
  <2>3. /\ pc'[k]["pkthandler"] = pc[k]["pkthandler"]
        /\ pc'[k]["waitTransport"] \in {pc[k]["waitTransport"], "get"}
    BY <1>1 DEF Threads
  <2> QED
    BY <2>1, <2>2, <2>3 DEF Hand, WasSent
<1> QED
  BY <1>2, <1>3, <1>4, <1>5, Frames DEF Inv

LEMMA mnp_sendsegInv ==
    ASSUME Inv, NEW n \in Nodes, NEW dest \in Nodes, mnp_sendseg(n, dest),
           reply' = reply \/ reply' = [reply EXCEPT ![n] = 0]
    PROVE  Inv'
<1>1. UNCHANGED <<tables, pc, packet, hop, entry, made, inbox, got, link>>
  BY DEF mnp_sendseg, threadVars
<1>2. /\ sent \in [Nodes -> Seq(Nodes)] /\ sent' = [sent EXCEPT ![n] = Append(@, dest)]
      /\ outbox \in [Nodes -> Seq(Nat)] /\ outbox' = [outbox EXCEPT ![n] = Append(@, Len(sent[n]) + 1)]
  BY DEF mnp_sendseg, Inv, Types
<1>3. sent' \in [Nodes -> Seq(Nodes)] /\ outbox' \in [Nodes -> Seq(Nat)]
  <2>1. Append(sent[n], dest) \in Seq(Nodes) /\ Append(outbox[n], Len(sent[n]) + 1) \in Seq(Nat)
    BY <1>2
  <2> QED
    BY <1>2, <2>1
<1>4. /\ \A k \in Nodes : Len(sent[k]) <= Len(sent'[k])
      /\ \A k \in Nodes : \A i \in 1..Len(sent[k]) : sent'[k][i] = sent[k][i]
      /\ \A p : p.src \in Nodes /\ WasSent(p) => WasSent(p)'
      /\ \A k, d : d[1] \in Nodes /\ SentTo(k, d) => SentTo(k, d)'
  BY <1>2, SentKept
<1>5. \A k \in Nodes : Len(sent[k]) \in Nat /\ Len(sent'[k]) \in Nat
  BY <1>2, <1>3
<1>6. Types'
  <2>1. reply' \in [Nodes -> Nodes \cup {0}]
    BY DEF Inv, Types
  <2> QED
    BY <1>1, <1>3, <2>1 DEF Inv, Types
<1>7. Hands'
  <2> SUFFICES ASSUME NEW k \in Nodes PROVE Hand(k)'
    BY DEF Hands
  <2>1. Hand(k) /\ packet[k]["pkthandler"].src \in Nodes /\ packet[k]["waitTransport"].src \in Nodes
    <3>1. Hand(k)
      BY DEF Inv, Hands
    <3>2. packet[k]["pkthandler"] \in Pkt /\ packet[k]["waitTransport"] \in Pkt
      <4>1. packet \in [Nodes -> [Threads -> Pkt]]
        BY DEF Inv, Types
      <4>2. "pkthandler" \in Threads /\ "waitTransport" \in Threads
        BY DEF Threads
      <4> QED
        BY <4>1, <4>2
    <3> QED
      BY <3>1, <3>2 DEF Pkt
  <2>2. \A i \in 1..Len(outbox'[k]) : outbox'[k][i] \in 1..Len(sent'[k])
    <3> SUFFICES ASSUME NEW i \in 1..Len(outbox'[k]) PROVE outbox'[k][i] \in 1..Len(sent'[k])
      OBVIOUS
    <3>1. \A j \in 1..Len(outbox[k]) : outbox[k][j] \in 1..Len(sent[k])
      BY <2>1 DEF Hand
    <3>2. CASE k # n
      BY <1>2, <3>1, <3>2
    <3>3. CASE k = n
      <4>1. outbox'[k] = Append(outbox[k], Len(sent[k]) + 1) /\ outbox[k] \in Seq(Nat)
        BY <1>2, <3>3
      <4>2. Len(sent'[k]) = Len(sent[k]) + 1
        BY <1>2, <3>3
      <4>3. CASE i \in 1..Len(outbox[k])
        BY <1>5, <3>1, <4>1, <4>2, <4>3
      <4>4. CASE i = Len(outbox[k]) + 1
        BY <1>5, <4>1, <4>2, <4>4
      <4> QED
        BY <4>1, <4>3, <4>4
    <3> QED
      BY <3>2, <3>3
  <2>3. WasSent(packet[k]["pkthandler"]) => WasSent(packet[k]["pkthandler"])'
    BY <1>1, <1>4, <2>1 DEF WasSent
  <2>4. WasSent(packet[k]["waitTransport"]) => WasSent(packet[k]["waitTransport"])'
    BY <1>1, <1>4, <2>1 DEF WasSent
  <2> QED
    BY <1>1, <2>1, <2>2, <2>3, <2>4 DEF Hand
<1>8. LinksSent'
  <2> SUFFICES ASSUME NEW k \in Nodes, NEW m \in Nodes, NEW i \in 1..Len(link[k][m]),
                      link[k][m][i].type = "MNP"
               PROVE  WasSent(link[k][m][i])'
    BY <1>1 DEF LinksSent, WasSent
  <2>1. link[k][m][i].src \in Nodes
    <3>1. link[k][m] \in Seq(Pkt)
      BY DEF Inv, Types
    <3>2. link[k][m][i] \in Pkt
      BY <3>1
    <3> QED
      BY <3>2 DEF Pkt
  <2>2. WasSent(link[k][m][i])
    BY DEF Inv, LinksSent
  <2> QED
    BY <1>1, <1>4, <2>1, <2>2 DEF WasSent
<1>9. DeliveredWasSent'
  <2> SUFFICES ASSUME NEW k \in Nodes, NEW d \in got[k]
               PROVE  d[2] \in 1..Len(sent'[d[1]]) /\ sent'[d[1]][d[2]] = k
    BY <1>1 DEF DeliveredWasSent
  <2>1. d[1] \in Nodes
    BY DEF Inv, Types
  <2>2. d[2] \in 1..Len(sent[d[1]]) /\ sent[d[1]][d[2]] = k
    BY DEF Inv, DeliveredWasSent
  <2> QED
    BY <1>4, <1>5, <2>1, <2>2
<1>10. InboxSent'
  <2> SUFFICES ASSUME NEW k \in Nodes, NEW i \in 1..Len(inbox[k])
               PROVE  SentTo(k, inbox[k][i])'
    BY <1>1 DEF InboxSent, SentTo
  <2>1. inbox[k][i] \in Nodes \X Nat
    <3>1. inbox[k] \in Seq(Nodes \X Nat)
      BY DEF Inv, Types
    <3> QED
      BY <3>1
  <2>2. inbox[k][i][1] \in Nodes /\ SentTo(k, inbox[k][i])
    BY <2>1 DEF Inv, InboxSent
  <2> QED
    BY <1>1, <1>4, <2>2 DEF SentTo
<1> QED
  BY <1>1, <1>6, <1>7, <1>8, <1>9, <1>10, Frames DEF Inv

LEMMA mnp_recvsegInv ==
    ASSUME Inv, NEW n \in Nodes, mnp_recvseg(n)
    PROVE  Inv'
<1> DEFINE d == Head(inbox[n])
<1>1. UNCHANGED <<tables, pc, packet, hop, entry, made, outbox, sent, link>>
  BY DEF mnp_recvseg, threadVars
<1>2. /\ inbox \in [Nodes -> Seq(Nodes \X Nat)]
      /\ inbox[n] \in Seq(Nodes \X Nat) /\ inbox[n] # << >>
      /\ inbox' = [inbox EXCEPT ![n] = Tail(inbox[n])]
  BY DEF mnp_recvseg, Inv, Types
<1>3. d = inbox[n][1] /\ 1 \in 1..Len(inbox[n]) /\ d \in Nodes \X Nat
  BY <1>2
<1>4. SentTo(n, d)
  BY <1>3 DEF Inv, InboxSent
<1>5. got' = [got EXCEPT ![n] = @ \cup {d}]
  BY DEF mnp_recvseg
<1>6. PICK node \in {0} \cup {d[1]} : reply' = [reply EXCEPT ![n] = node]
  BY DEF mnp_recvseg
<1> HIDE DEF d
<1>7. Types'
  <2>1. reply' \in [Nodes -> Nodes \cup {0}]
    BY <1>3, <1>6 DEF Inv, Types
  <2>2. got' \in [Nodes -> SUBSET (Nodes \X Nat)]
    BY <1>3, <1>5 DEF Inv, Types
  <2>3. inbox' \in [Nodes -> Seq(Nodes \X Nat)]
    <3>1. Tail(inbox[n]) \in Seq(Nodes \X Nat)
      BY <1>2
    <3> QED
      BY <1>2, <3>1
  <2> QED
    BY <1>1, <2>1, <2>2, <2>3 DEF Inv, Types
<1>8. InboxSent'
  <2> SUFFICES ASSUME NEW k \in Nodes, NEW i \in 1..Len(inbox'[k])
               PROVE  SentTo(k, inbox'[k][i])
    BY <1>1 DEF InboxSent, SentTo
  <2>1. CASE k = n
    <3>1. inbox'[k] = Tail(inbox[n])
      BY <1>2, <2>1
    <3>2. \A j \in 1..Len(Tail(inbox[n])) :
             j + 1 \in 1..Len(inbox[n]) /\ Tail(inbox[n])[j] = inbox[n][j + 1]
      BY <1>2
    <3> QED
      BY <2>1, <3>1, <3>2 DEF Inv, InboxSent
  <2>2. CASE k # n
    BY <1>2, <2>2 DEF Inv, InboxSent
  <2> QED
    BY <2>1, <2>2
<1>9. DeliveredWasSent'
  <2> SUFFICES ASSUME NEW k \in Nodes, NEW e \in got'[k]
               PROVE  SentTo(k, e)
    BY <1>1 DEF DeliveredWasSent, SentTo
  <2>1. e \in got[k] \/ (k = n /\ e = d)
    BY <1>5 DEF Inv, Types
  <2>2. CASE e \in got[k]
    BY <2>2 DEF Inv, DeliveredWasSent, SentTo
  <2>3. CASE k = n /\ e = d
    BY <1>4, <2>3
  <2> QED
    BY <2>1, <2>2, <2>3
<1> QED
  BY <1>1, <1>7, <1>8, <1>9, Frames DEF Inv

LEMMA getsegToSendInv ==
    ASSUME Inv, NEW n \in Nodes, getsegToSend(n)
    PROVE  Inv'
<1> DEFINE h == Head(outbox[n])
           p == MNPPacket(n, sent[n][h], h)
<1>1. /\ outbox[n] \in Seq(Nat) /\ outbox[n] # << >>
      /\ \A i \in 1..Len(outbox[n]) : outbox[n][i] \in 1..Len(sent[n])
  BY DEF getsegToSend, Inv, Types, Hands, Hand
<1>2. h \in 1..Len(sent[n]) /\ sent[n] \in Seq(Nodes)
  <2>1. sent[n] \in Seq(Nodes)
    BY DEF Inv, Types
  <2>2. h = outbox[n][1] /\ 1 \in 1..Len(outbox[n])
    BY <1>1
  <2> QED
    BY <1>1, <2>1, <2>2
<1> HIDE DEF h
<1>3. p \in Pkt /\ p.src = n /\ p.dest \in Nodes /\ WasSent(p)
  <2>1. sent[n][h] \in Nodes /\ h \in Nat /\ << >> \in Seq(Advertised)
    BY <1>2
  <2> QED
    BY <1>2, <2>1 DEF MNPPacket, Pkt, WasSent
<1>4. /\ packet' \in [Nodes -> [Threads -> Pkt]]
      /\ \A k \in Nodes : \A t \in Threads :
            packet'[k][t] = IF k = n /\ t = "waitTransport" THEN p ELSE packet[k][t]
  <2>1. packet' = [packet EXCEPT ![n]["waitTransport"] = p] /\ "waitTransport" \in Threads
    BY DEF getsegToSend, Threads, h
  <2>2. packet \in [Nodes -> [Threads -> Pkt]]
    BY DEF Inv, Types
  <2> HIDE DEF p
  <2> QED
    BY <1>3, <2>1, <2>2, NestedExcept
<1> HIDE DEF p
<1>5. /\ pc' \in [Nodes -> [Threads -> StepNames]]
      /\ \A k \in Nodes : \A t \in Threads :
            pc'[k][t] = IF k = n /\ t = "waitTransport" THEN "lookup" ELSE pc[k][t]
  <2>1. GoTo(n, "waitTransport", "lookup") /\ Steps
    BY DEF getsegToSend, Inv
  <2>2. "waitTransport" \in Threads /\ "lookup" \in StepNames
    BY DEF Threads, StepNames
  <2> QED
    BY <2>1, <2>2, Moves
<1>6. UNCHANGED <<tables, hop, entry, made, transport, inbox, reply, sent, got, link>>
  BY DEF getsegToSend
<1>7. /\ outbox \in [Nodes -> Seq(Nat)] /\ outbox' = [outbox EXCEPT ![n] = Tail(outbox[n])]
      /\ Tail(outbox[n]) \in Seq(Nat)
  BY <1>1 DEF getsegToSend, Inv, Types
<1>8. Types'
  <2>1. outbox' \in [Nodes -> Seq(Nat)]
    BY <1>7
  <2> QED
    BY <1>4, <1>6, <2>1 DEF Inv, Types
<1>9. Steps'
  BY <1>5 DEF Inv, Steps, Threads
<1>10. Hands'
  <2> SUFFICES ASSUME NEW k \in Nodes PROVE Hand(k)'
    BY DEF Hands
  <2>1. Hand(k)
    BY DEF Inv, Hands
  <2>2. \A i \in 1..Len(outbox'[k]) : outbox'[k][i] \in 1..Len(sent[k])
    <3>1. CASE k # n
      BY <1>7, <2>1, <3>1 DEF Hand
    <3>2. CASE k = n
      <4>1. outbox'[k] = Tail(outbox[n])
        BY <1>7, <3>2
      <4>2. \A i \in 1..Len(Tail(outbox[n])) :
               i + 1 \in 1..Len(outbox[n]) /\ Tail(outbox[n])[i] = outbox[n][i + 1]
        BY <1>1
      <4> QED
        BY <1>1, <3>2, <4>1, <4>2
    <3> QED
      BY <3>1, <3>2
  <2>3. packet'[k]["waitTransport"] = IF k = n THEN p ELSE packet[k]["waitTransport"]
    BY <1>4 DEF Threads
  <2>4. packet'[k]["pkthandler"] = packet[k]["pkthandler"]
    BY <1>4 DEF Threads
  <2>5. packet'[k]["routeupdate"] = packet[k]["routeupdate"]
    BY <1>4 DEF Threads
  <2>6. pc'[k]["waitTransport"] = IF k = n THEN "lookup" ELSE pc[k]["waitTransport"]
    BY <1>5 DEF Threads
  <2>7. pc'[k]["pkthandler"] = pc[k]["pkthandler"]
    BY <1>5 DEF Threads
  <2> QED
    BY <1>3, <1>6, <2>1, <2>2, <2>3, <2>4, <2>5, <2>6, <2>7 DEF Hand, WasSent
<1> QED
  BY <1>6, <1>8, <1>9, <1>10, Frames DEF Inv
-----------------------------------------------------------------------------
LEMMA NextInv == Inv /\ [Next]_vars => Inv'
<1> SUFFICES ASSUME Inv, [Next]_vars PROVE Inv'
  OBVIOUS
<1>1. CASE Next
  <2>1. PICK n \in Nodes :
           \/ InsertNbr(n) \/ StartThreads(n)
           \/ pkthandler(n)
           \/ FillUpdate(n)
           \/ waitTransport(n)
           \/ MRTSends(n) \/ mnp_recvseg(n) \/ MRTAnswers(n)
           \/ \E thread \in Threads : Forwards(n, thread)
    BY <1>1 DEF Next
  <2>2. CASE InsertNbr(n)
    BY <2>2, InsertNbrInv
  <2>3. CASE StartThreads(n)
    BY <2>3, StartThreadsInv
  <2>4. CASE pkthandler(n)
    <3>1. CASE \E m \in Nodes : overlay_recvpkt(n, m)
      BY <3>1, overlay_recvpktInv
    <3>2. CASE forwardsegToMRT(n)
      BY <3>2, forwardsegToMRTInv
    <3>3. CASE UpdateEntry(n)
      BY <3>3, UpdateEntryInv
    <3>4. CASE LockDV(n) \/ LockRoutingTable(n) \/ UnlockDV(n) \/ UnlockRoutingTable(n)
      BY <3>4, LocksInv
    <3> QED
      BY <2>4, <3>1, <3>2, <3>3, <3>4 DEF pkthandler
  <2>5. CASE FillUpdate(n)
    BY <2>5, FillUpdateInv
  <2>6. CASE waitTransport(n)
    BY <2>6, AcceptInv, getsegToSendInv DEF waitTransport
  <2>7. CASE MRTSends(n) \/ mnp_recvseg(n) \/ MRTAnswers(n)
    <3>1. CASE MRTSends(n)
      BY <3>1, mnp_sendsegInv DEF MRTSends
    <3>2. CASE MRTAnswers(n)
      <4>1. reply[n] \in Nodes
        BY <3>2 DEF MRTAnswers, Inv, Types
      <4> QED
        BY <3>2, <4>1, mnp_sendsegInv DEF MRTAnswers
    <3> QED
      BY <2>7, <3>1, <3>2, mnp_recvsegInv
  <2>8. CASE \E thread \in Threads : Forwards(n, thread)
    BY <2>8, FindNextHopInv, overlay_sendpktInv DEF Forwards
  <2> QED
    BY <2>1, <2>2, <2>3, <2>4, <2>5, <2>6, <2>7, <2>8
<1>2. CASE UNCHANGED vars
  <2>1. UNCHANGED <<tables, pc, packet, hop, entry, made, transport, outbox, inbox, reply, sent, got, link>>
    BY <1>2 DEF vars, tables, threadVars, mrtVars
  <2>2. Types'
    BY <2>1 DEF Inv, Types
  <2> QED
    BY <2>1, <2>2, Frames DEF Inv
<1> QED
  BY <1>1, <1>2

THEOREM Invariance == Spec => []Inv
BY InitInv, NextInv, PTL DEF Spec

(* Whatever the topology, the order of the threads and the content of        *)
(* unwritten memory: a segment is only on the link from the node that sent   *)
(* it to the node it is for.                                                 *)
THEOREM OnlyOneHop == Spec => []PacketsOnCourse
<1>1. Inv => PacketsOnCourse
  BY DEF Inv
<1> QED
  BY <1>1, Invariance, PTL

(* forwardsegToMRT() gives an MRT process no segment that was not sent to    *)
(* its node by the node it is said to be from.                               *)
THEOREM OnlySent == Spec => []DeliveredWasSent
<1>1. Inv => DeliveredWasSent
  BY DEF Inv
<1> QED
  BY <1>1, Invariance, PTL

(* The mutexes, the connection of the MRT process and the next hops.         *)
Flags ==
    /\ dv_mutex \in [Nodes -> BOOLEAN] /\ routingtable_mutex \in [Nodes -> BOOLEAN]
    /\ transport \in [Nodes -> BOOLEAN]
    /\ hop \in [Nodes -> [Threads -> Nodes \cup {NoHop, BROADCAST_NODEID}]]

LEMMA WiderSeqs == ASSUME NEW S, NEW T, S \subseteq T PROVE Seq(S) \subseteq Seq(T)
OBVIOUS

LEMMA FlagsInv == Inv /\ Flags /\ [Next]_vars => Flags'
<1> SUFFICES ASSUME Inv, Flags, [Next]_vars PROVE Flags'
  OBVIOUS
<1>1. ASSUME UNCHANGED <<mutexes, transport, hop>> PROVE Flags'
  BY <1>1 DEF Flags, mutexes
<1>2. CASE UNCHANGED vars
  BY <1>1, <1>2 DEF vars, threadVars, mrtVars
<1>3. ASSUME NEW n \in Nodes, NEW thread \in Threads, FindNextHop(n, thread) PROVE Flags'
  <2>1. packet[n][thread].dest \in Nodes \cup {BROADCAST_NODEID}
    BY DEF Inv, Types, Pkt
  <2>2. IsTable(routing_table[n], Direct) /\ packet[n][thread].dest \in Int
    BY <2>1, MNPConstants DEF Inv, Tables
  <2>3. routingtable_getnextnode(routing_table[n], packet[n][thread].dest)
           \in Nodes \cup {NoHop, BROADCAST_NODEID}
    BY <2>1, <2>2, AnswerIsDirect
  <2>4. UNCHANGED <<dv_mutex, routingtable_mutex, transport>>
    BY <1>3 DEF FindNextHop, mutexes, mrtVars
  <2>5. hop' \in [Nodes -> [Threads -> Nodes \cup {NoHop, BROADCAST_NODEID}]]
    BY <1>3, <2>3, NestedExcept DEF FindNextHop, Flags
  <2> QED
    BY <2>4, <2>5 DEF Flags
<1>4. ASSUME NEW n \in Nodes, \/ LockDV(n) \/ LockRoutingTable(n)
                              \/ UnlockDV(n) \/ UnlockRoutingTable(n) \/ Accept(n)
      PROVE  Flags'
  BY <1>4 DEF LockDV, LockRoutingTable, UnlockDV, UnlockRoutingTable, Accept, Flags, mutexes, mrtVars
<1>5. ASSUME NEW n \in Nodes,
             \/ InsertNbr(n) \/ StartThreads(n) \/ FillUpdate(n) \/ UpdateEntry(n)
             \/ forwardsegToMRT(n) \/ getsegToSend(n)
             \/ \E m \in Nodes : overlay_recvpkt(n, m)
             \/ MRTSends(n) \/ mnp_recvseg(n) \/ MRTAnswers(n)
             \/ \E thread \in Threads : overlay_sendpkt(n, thread)
      PROVE  UNCHANGED <<mutexes, transport, hop>>
  BY <1>5 DEF InsertNbr, StartThreads, FillUpdate, UpdateEntry, forwardsegToMRT, getsegToSend,
              overlay_recvpkt, MRTSends, mnp_recvseg, MRTAnswers, mnp_sendseg, overlay_sendpkt,
              threadVars, mrtVars
<1> QED
  BY <1>1, <1>2, <1>3, <1>4, <1>5 DEF Next, pkthandler, waitTransport, Forwards

(* Every variable of the MNP processes has its type, whatever the topology   *)
(* file, the heap and the uninitialised arrays hold.                         *)
THEOREM NetworkTypes == Spec => []TypeOK
<1>1. MNPInit => Flags
  BY DEF MNPInit, Flags
<1>2. Spec => []Flags
  BY <1>1, FlagsInv, Invariance, PTL DEF Spec
<1>3. Inv /\ Flags => TypeOK
  <2> SUFFICES ASSUME Inv, Flags PROVE TypeOK
    OBVIOUS
  <2>1. Seq(Advertised) \subseteq Seq(EntryOf)
    <3>1. Advertised \subseteq EntryOf
      BY NodeFacts DEF Advertised, EntryOf
    <3> QED
      BY <3>1
  <2>2. Pkt \subseteq Packet
    BY <2>1 DEF Pkt, Packet
  <2>3. /\ packet \in [Nodes -> [Threads -> Packet]]
        /\ link \in [Nodes -> [Nodes -> Seq(Packet)]]
    <3>1. Seq(Pkt) \subseteq Seq(Packet)
      BY <2>2
    <3> QED
      BY <2>2, <3>1 DEF Inv, Types
  <2>4. \A n \in Nodes :
           /\ DOMAIN routing_table[n] = Slots
           /\ \A s \in Slots : routing_table[n][s] \in Seq([destNodeID : Nodes, nextNodeID : Nodes])
    <3>1. Seq(Direct) \subseteq Seq([destNodeID : Nodes, nextNodeID : Nodes])
      <4>1. Direct \subseteq [destNodeID : Nodes, nextNodeID : Nodes]
        BY DEF Direct
      <4> QED
        BY <4>1, WiderSeqs
    <3> QED
      BY <3>1 DEF Inv, Tables, IsTable
  <2>5. DOMAIN routing_table = Nodes /\ DOMAIN dv_table = Nodes /\ \A n \in Nodes : dv_table[n] \in Seq(Row)
    BY DEF Inv, Tables
  <2>6. pc \in [Nodes -> [Threads -> {"recv", "lock dv", "lock rt", "update", "unlock rt",
                       "forward", "lookup", "send", "fill", "accept", "get", "create"}]]
    BY DEF Inv, Steps, StepNames
  <2> QED
    BY <2>3, <2>4, <2>5, <2>6 DEF Inv, Types, Flags, TypeOK, Row
<1> QED
  BY <1>2, <1>3, Invariance, PTL

(* No route update changes a routing table once routingtable_create() is     *)
(* done with it.                                                             *)
THEOREM RoutesNeverChange == Spec => RoutesStand
<1>1. Inv /\ [Next]_vars =>
         [\A n \in Nodes : Created(n) => routing_table'[n] = routing_table[n]]_routing_table
  <2> SUFFICES ASSUME Inv, Next, NEW k \in Nodes, Created(k), routing_table' # routing_table
               PROVE  routing_table'[k] = routing_table[k]
    BY DEF vars, tables
  <2>1. PICK n \in Nodes : InsertNbr(n) \/ UpdateEntry(n)
    <3>1. ASSUME NEW n \in Nodes, pkthandler(n) PROVE UpdateEntry(n)
      BY <3>1 DEF pkthandler, overlay_recvpkt, forwardsegToMRT, LockDV, LockRoutingTable, UnlockDV,
         UnlockRoutingTable, tables
    <3>2. ASSUME NEW n \in Nodes PROVE ~StartThreads(n) /\ ~FillUpdate(n) /\ ~waitTransport(n)
      BY DEF StartThreads, FillUpdate, waitTransport, Accept, getsegToSend, tables
    <3>3. ASSUME NEW n \in Nodes PROVE ~MRTSends(n) /\ ~mnp_recvseg(n) /\ ~MRTAnswers(n)
      BY DEF MRTSends, mnp_recvseg, MRTAnswers, mnp_sendseg, tables
    <3>4. ASSUME NEW n \in Nodes, NEW thread \in Threads PROVE ~Forwards(n, thread)
      BY DEF Forwards, FindNextHop, overlay_sendpkt, tables
    <3> QED
      BY <3>1, <3>2, <3>3, <3>4 DEF Next
  <2>2. InsertNbr(n)
    BY <2>1, UpdateEntryTables
  <2>3. n # k
    <3>1. made[n] \in Nat /\ Len(NbrArray[n]) \in Nat
      BY NodeFacts DEF Inv, Types
    <3> QED
      BY <2>2, <3>1 DEF InsertNbr, Created
  <2>4. PICK r : routing_table' = [routing_table EXCEPT ![n] = r]
    BY <2>2 DEF InsertNbr
  <2> QED
    BY <2>3, <2>4 DEF Inv, Tables
<1> QED
  BY <1>1, Invariance, PTL DEF Spec, RoutesStand
=============================================================================
