-------------------------------- MODULE MNP ---------------------------------
(***************************************************************************)
(* The MNP processes of lab4/network/network.c, one on each node: their     *)
(* threads pkthandler, routeupdate_daemon and main (in waitTransport()),    *)
(* the tables they share and the two mutexes.  Two neighbours are joined by *)
(* a queue in each direction, which stands for the way of a packet through  *)
(* the overlay process of either node.                                      *)
(*                                                                         *)
(* Packets arrive whole here; what becomes of those of two threads that     *)
(* write to one connection is the subject of Framing.  The MRT process of a *)
(* node connects once and stays; here it is what sends, and a seghandler    *)
(* that reads and may have to answer before it reads again.                 *)
(***************************************************************************)
EXTENDS RoutingTable, DVTable, FiniteSets

CONSTANTS
    Nodes,        \* node ids
    NbrArray,     \* topology_getNbrArray() on each node
    IdArray,      \* topology_getNodeArray() on each node: call 0 by the daemon,
                  \* call i for row i of the distance vector table
    LinkCost,     \* topology_getCost()
    BROADCAST_NODEID,
    Updaters,     \* bound: nodes whose daemon wakes up
    Senders,      \* bound: nodes whose MRT process sends segments
    Answering,    \* bound: nodes whose MRT process answers segments
    MaxSegments,  \* bound: segments the MRT process of a node sends
    MRTCap,       \* bound: segments its connection holds in one direction
    LinkCap       \* bound: packets the connections between two nodes hold

Nbrs(n) == {NbrArray[n][i] : i \in 1..Len(NbrArray[n])}
Calls(n) == 0..(Len(NbrArray[n]) + 1)

ASSUME MNPConstants ==
    /\ IsFiniteSet(Nodes) /\ Nodes \subseteq Nat \ {0}
    /\ BROADCAST_NODEID \in Nat \ ({0} \cup Nodes)
    /\ Nodes \subseteq Ids
    /\ NbrArray \in [Nodes -> Seq(Nodes)]
    /\ \A n \in Nodes : n \notin Nbrs(n)
    /\ \A n \in Nodes : IdArray[n] \in [Calls(n) -> [1..Cardinality(Nodes) -> Ids]]
    /\ LinkCost \in [Nodes -> [Ids -> Nat]]
    /\ Updaters \subseteq Nodes /\ Senders \subseteq Nodes /\ Answering \subseteq Nodes
    /\ MaxSegments \in [Nodes -> Nat] /\ MRTCap \in Nat
    /\ LinkCap \in Nat

VARIABLES
    dv_table, routing_table,
    dv_mutex, routingtable_mutex,   \* TRUE when locked
    made,        \* neighbours main() has put in the routing table
    pc,          \* what each thread does next
    packet,      \* the packet of each thread
    hop,         \* the next hop of each thread
    entry,       \* pkthandler: the entry of the route update
    transport,   \* transport_connection is open
    outbox,      \* segments on the connection from the MRT process
    inbox,       \* and on the one to it, each with the node it is from
    reply,       \* the node whose segment its seghandler has to answer, or 0
    link,        \* the packets from one node to another
    sent,        \* history: destinations of the segments the MRT process sent
    got          \* history: segments the MRT process read

tables == <<dv_table, routing_table>>
mutexes == <<dv_mutex, routingtable_mutex>>
threadVars == <<pc, packet, hop, entry, made>>
mrtVars == <<transport, outbox, inbox, reply, sent, got>>
vars == <<tables, mutexes, threadVars, mrtVars, link>>

Threads == {"pkthandler", "routeupdate", "waitTransport"}

RouteUpdate(n, entries) ==
    [type |-> "ROUTE_UPDATE", src |-> n, dest |-> BROADCAST_NODEID, seg |-> 0, entries |-> entries]
MNPPacket(n, dest, seg) ==
    [type |-> "MNP", src |-> n, dest |-> dest, seg |-> seg, entries |-> << >>]

At(n, thread, step) == pc[n][thread] = step
GoTo(n, thread, step) == pc' = [pc EXCEPT ![n][thread] = step]

MNPInit ==
    /\ dv_table = [n \in Nodes |-> dvtable_create(NbrArray[n], n, IdArray[n], LinkCost)]
    /\ routing_table = [n \in Nodes |-> EmptyTable]
    /\ made = [n \in Nodes |-> 0]
    /\ dv_mutex = [n \in Nodes |-> FALSE]
    /\ routingtable_mutex = [n \in Nodes |-> FALSE]
    /\ pc = [n \in Nodes |-> [t \in Threads |-> "create"]]
    /\ packet = [n \in Nodes |-> [t \in Threads |-> RouteUpdate(n, << >>)]]
    /\ hop = [n \in Nodes |-> [t \in Threads |-> BROADCAST_NODEID]]
    /\ entry = [n \in Nodes |-> 1]
    /\ transport = [n \in Nodes |-> FALSE]
    /\ outbox = [n \in Nodes |-> << >>]
    /\ inbox = [n \in Nodes |-> << >>]
    /\ reply = [n \in Nodes |-> 0]
    /\ link = [n \in Nodes |-> [m \in Nodes |-> << >>]]
    /\ sent = [n \in Nodes |-> << >>]
    /\ got = [n \in Nodes |-> {}]
-----------------------------------------------------------------------------
(* main()                                                                   *)

\* Mutant: the node takes itself for the next hop.
InsertNbr_OwnHop(n) ==
    LET i == made[n] + 1
    IN  /\ i <= Len(NbrArray[n])
        /\ \E junk \in HeapInts :
              routing_table' = [routing_table EXCEPT ![n] =
                 hashtable_insert(@, NbrArray[n][i], n, junk)]
        /\ made' = [made EXCEPT ![n] = i]
        /\ UNCHANGED <<dv_table, mutexes, pc, packet, hop, entry, mrtVars, link>>

\* routingtable_create(): each neighbour its own next hop.
InsertNbr(n) ==
    LET i == made[n] + 1
    IN  /\ i <= Len(NbrArray[n])
        /\ \E junk \in HeapInts :
              routing_table' = [routing_table EXCEPT ![n] =
                 hashtable_insert(@, NbrArray[n][i], NbrArray[n][i], junk)]
        /\ made' = [made EXCEPT ![n] = i]
        /\ UNCHANGED <<dv_table, mutexes, pc, packet, hop, entry, mrtVars, link>>

FirstStep(thread) ==
    IF thread = "pkthandler" THEN "recv" ELSE IF thread = "routeupdate" THEN "fill" ELSE "accept"

Created(n) == made[n] = Len(NbrArray[n])

\* The threads begin when the tables are there.
StartThreads(n) ==
    /\ Created(n)
    /\ \A t \in Threads : At(n, t, "create")
    /\ pc' = [pc EXCEPT ![n] = [t \in Threads |-> FirstStep(t)]]
    /\ UNCHANGED <<tables, mutexes, packet, hop, entry, made, mrtVars, link>>
-----------------------------------------------------------------------------
(* The overlay sends a packet to the neighbour that is the next hop, or to  *)
(* every neighbour; for any other next hop to none.  The thread waits until *)
(* there is room.                                                           *)
Targets(n, next) == IF next = BROADCAST_NODEID THEN Nbrs(n) ELSE Nbrs(n) \cap {next}

AfterSend(thread) ==
    IF thread = "pkthandler" THEN "recv" ELSE IF thread = "routeupdate" THEN "fill" ELSE "lookup"

overlay_sendpkt(n, thread) ==
    LET targets == Targets(n, hop[n][thread])
    IN  /\ At(n, thread, "send")
        /\ \A m \in targets : Len(link[n][m]) < LinkCap
        /\ link' = [link EXCEPT ![n] = [m \in Nodes |->
                       IF m \in targets THEN Append(@[m], packet[n][thread]) ELSE @[m]]]
        /\ GoTo(n, thread, AfterSend(thread))
        /\ UNCHANGED <<tables, mutexes, packet, hop, entry, made, mrtVars>>

\* The routing table is read under its mutex, the packet sent after it.
FindNextHop(n, thread) ==
    /\ At(n, thread, "lookup")
    /\ ~routingtable_mutex[n]
    /\ hop' = [hop EXCEPT ![n][thread] =
                  routingtable_getnextnode(routing_table[n], packet[n][thread].dest)]
    /\ GoTo(n, thread, "send")
    /\ UNCHANGED <<tables, mutexes, packet, entry, made, mrtVars, link>>
-----------------------------------------------------------------------------
(* pkthandler                                                               *)

Dispatch(n, p) ==
    IF p.type = "ROUTE_UPDATE" THEN "lock dv"
    ELSE IF p.dest = n THEN "forward" ELSE "lookup"

overlay_recvpkt(n, m) ==
    /\ At(n, "pkthandler", "recv")
    /\ link[m][n] # << >>
    /\ packet' = [packet EXCEPT ![n]["pkthandler"] = Head(link[m][n])]
    /\ GoTo(n, "pkthandler", Dispatch(n, Head(link[m][n])))
    /\ link' = [link EXCEPT ![m][n] = Tail(@)]
    /\ UNCHANGED <<tables, mutexes, hop, entry, made, mrtVars>>

LockDV(n) ==
    /\ At(n, "pkthandler", "lock dv")
    /\ ~dv_mutex[n]
    /\ dv_mutex' = [dv_mutex EXCEPT ![n] = TRUE]
    /\ GoTo(n, "pkthandler", "lock rt")
    /\ UNCHANGED <<tables, routingtable_mutex, packet, hop, entry, made, mrtVars, link>>

LockRoutingTable(n) ==
    /\ At(n, "pkthandler", "lock rt")
    /\ ~routingtable_mutex[n]
    /\ routingtable_mutex' = [routingtable_mutex EXCEPT ![n] = TRUE]
    /\ entry' = [entry EXCEPT ![n] = 1]
    /\ GoTo(n, "pkthandler", "update")
    /\ UNCHANGED <<tables, dv_mutex, packet, hop, made, mrtVars, link>>

\* Mutant: the comparison of the two costs is turned round.
UpdateEntry_Reversed(n) ==
    LET p == packet[n]["pkthandler"]
        e == p.entries[entry[n]]
        heard == dvtable_setcost(dv_table[n], p.src, e.nodeID, e.cost)
        dvCost == dvtable_getcost(heard, n, e.nodeID)
        nbrCost == nbrcosttable_getcost(NbrArray[n], LinkCost[n], p.src) + e.cost
    IN  /\ At(n, "pkthandler", "update")
        /\ entry[n] <= Len(p.entries)
        /\ dv_table' = [dv_table EXCEPT ![n] =
              IF dvCost < nbrCost THEN dvtable_setcost(heard, n, e.nodeID, nbrCost) ELSE heard]
        /\ \E junk \in HeapInts :
              routing_table' = [routing_table EXCEPT ![n] =
                 IF dvCost < nbrCost THEN routingtable_setnextnode(@, e.nodeID, p.src, junk) ELSE @]
        /\ entry' = [entry EXCEPT ![n] = @ + 1]
        /\ UNCHANGED <<mutexes, pc, packet, hop, made, mrtVars, link>>

\* Mutant: a search inside the loop shares its counter.
UpdateEntry_SharedCounter(n) ==
    LET p == packet[n]["pkthandler"]
        e == p.entries[entry[n]]
    IN  /\ At(n, "pkthandler", "update")
        /\ entry[n] <= Len(p.entries)
        /\ dv_table' = [dv_table EXCEPT ![n] = dvtable_setcost(@, p.src, e.nodeID, e.cost)]
        /\ entry' = [entry EXCEPT ![n] = 1]
        /\ UNCHANGED <<routing_table, mutexes, pc, packet, hop, made, mrtVars, link>>

\* One entry of the route update: what the neighbour says of its own cost, and
\* the neighbour as a next hop when that is cheaper.
UpdateEntry(n) ==
    LET p == packet[n]["pkthandler"]
        e == p.entries[entry[n]]
        heard == dvtable_setcost(dv_table[n], p.src, e.nodeID, e.cost)
        dvCost == dvtable_getcost(heard, n, e.nodeID)
        nbrCost == nbrcosttable_getcost(NbrArray[n], LinkCost[n], p.src) + e.cost
    IN  /\ At(n, "pkthandler", "update")
        /\ entry[n] <= Len(p.entries)
        /\ dv_table' = [dv_table EXCEPT ![n] =
              IF dvCost > nbrCost THEN dvtable_setcost(heard, n, e.nodeID, nbrCost) ELSE heard]
        /\ \E junk \in HeapInts :
              routing_table' = [routing_table EXCEPT ![n] =
                 IF dvCost > nbrCost THEN routingtable_setnextnode(@, e.nodeID, p.src, junk) ELSE @]
        /\ entry' = [entry EXCEPT ![n] = @ + 1]
        /\ UNCHANGED <<mutexes, pc, packet, hop, made, mrtVars, link>>

UnlockDV(n) ==
    /\ At(n, "pkthandler", "update")
    /\ entry[n] > Len(packet[n]["pkthandler"].entries)
    /\ dv_mutex' = [dv_mutex EXCEPT ![n] = FALSE]
    /\ GoTo(n, "pkthandler", "unlock rt")
    /\ UNCHANGED <<tables, routingtable_mutex, packet, hop, entry, made, mrtVars, link>>

UnlockRoutingTable(n) ==
    /\ At(n, "pkthandler", "unlock rt")
    /\ routingtable_mutex' = [routingtable_mutex EXCEPT ![n] = FALSE]
    /\ GoTo(n, "pkthandler", "recv")
    /\ UNCHANGED <<tables, dv_mutex, packet, hop, entry, made, mrtVars, link>>

\* Mutant: the node's own id is passed on with the segment.
forwardsegToMRT_OwnID(n) ==
    LET p == packet[n]["pkthandler"]
    IN  /\ At(n, "pkthandler", "forward")
        /\ \/ /\ transport[n] /\ Len(inbox[n]) < MRTCap
              /\ inbox' = [inbox EXCEPT ![n] = Append(@, <<n, p.seg>>)]
           \/ /\ ~transport[n]
              /\ UNCHANGED inbox
        /\ GoTo(n, "pkthandler", "recv")
        /\ UNCHANGED <<tables, mutexes, packet, hop, entry, made, transport, outbox, reply, sent, got, link>>

\* The send() waits for room.  Without a connection it fails, and the segment is
\* lost.
forwardsegToMRT(n) ==
    LET p == packet[n]["pkthandler"]
    IN  /\ At(n, "pkthandler", "forward")
        /\ \/ /\ transport[n] /\ Len(inbox[n]) < MRTCap
              /\ inbox' = [inbox EXCEPT ![n] = Append(@, <<p.src, p.seg>>)]
           \/ /\ ~transport[n]
              /\ UNCHANGED inbox
        /\ GoTo(n, "pkthandler", "recv")
        /\ UNCHANGED <<tables, mutexes, packet, hop, entry, made, transport, outbox, reply, sent, got, link>>
-----------------------------------------------------------------------------
(* routeupdate_daemon                                                       *)

\* The critical section, and the sleep before it.
FillUpdate(n) ==
    LET ids == IdArray[n][0]
    IN  /\ At(n, "routeupdate", "fill")
        /\ ~dv_mutex[n]
        /\ packet' = [packet EXCEPT ![n]["routeupdate"] = RouteUpdate(n,
              [i \in 1..Len(ids) |->
                  [nodeID |-> ids[i], cost |-> dvtable_getcost(dv_table[n], n, ids[i])]])]
        /\ GoTo(n, "routeupdate", "send")
        /\ UNCHANGED <<tables, mutexes, hop, entry, made, mrtVars, link>>
-----------------------------------------------------------------------------
(* waitTransport() and the MRT process                                      *)

Accept(n) ==
    /\ At(n, "waitTransport", "accept")
    /\ transport' = [transport EXCEPT ![n] = TRUE]
    /\ GoTo(n, "waitTransport", "get")
    /\ UNCHANGED <<tables, mutexes, packet, hop, entry, made, outbox, inbox, reply, sent, got, link>>

\* It waits for room.
mnp_sendseg(n, dest) ==
    /\ Len(outbox[n]) < MRTCap
    /\ sent' = [sent EXCEPT ![n] = Append(@, dest)]
    /\ outbox' = [outbox EXCEPT ![n] = Append(@, Len(sent[n]) + 1)]
    /\ UNCHANGED <<tables, mutexes, threadVars, transport, inbox, got, link>>

\* Of the bound, one is kept for the answer that is due.
MayOwe(n) == n \in Answering /\ Len(sent[n]) < MaxSegments[n]
MRTSends(n) ==
    /\ transport[n]
    /\ n \in Senders
    /\ Len(sent[n]) < IF reply[n] = 0 THEN MaxSegments[n] ELSE MaxSegments[n] - 1
    /\ \E dest \in Nodes : mnp_sendseg(n, dest)
    /\ UNCHANGED reply

\* The seghandler takes a segment, which it may have to answer.
mnp_recvseg(n) ==
    /\ inbox[n] # << >>
    /\ reply[n] = 0
    /\ inbox' = [inbox EXCEPT ![n] = Tail(@)]
    /\ got' = [got EXCEPT ![n] = @ \cup {Head(inbox[n])}]
    /\ \E node \in {0} \cup (IF MayOwe(n) THEN {Head(inbox[n])[1]} ELSE {}) :
          reply' = [reply EXCEPT ![n] = node]
    /\ UNCHANGED <<tables, mutexes, threadVars, transport, outbox, sent, link>>

MRTAnswers(n) ==
    /\ reply[n] # 0
    /\ mnp_sendseg(n, reply[n])
    /\ reply' = [reply EXCEPT ![n] = 0]

\* A segment is taken once; the loop that follows looks up its next hop and
\* sends it, again and again.
getsegToSend(n) ==
    /\ At(n, "waitTransport", "get")
    /\ outbox[n] # << >>
    /\ outbox' = [outbox EXCEPT ![n] = Tail(@)]
    /\ packet' = [packet EXCEPT ![n]["waitTransport"] =
                     MNPPacket(n, sent[n][Head(outbox[n])], Head(outbox[n]))]
    /\ GoTo(n, "waitTransport", "lookup")
    /\ UNCHANGED <<tables, mutexes, hop, entry, made, transport, inbox, reply, sent, got, link>>
-----------------------------------------------------------------------------
pkthandler(n) ==
    \/ \E m \in Nodes : overlay_recvpkt(n, m)
    \/ forwardsegToMRT(n)
    \/ LockDV(n) \/ LockRoutingTable(n) \/ UpdateEntry(n)
    \/ UnlockDV(n) \/ UnlockRoutingTable(n)

waitTransport(n) == Accept(n) \/ getsegToSend(n)

Forwards(n, thread) == FindNextHop(n, thread) \/ overlay_sendpkt(n, thread)

Next ==
    \E n \in Nodes :
        \/ InsertNbr(n) \/ StartThreads(n)
        \/ pkthandler(n)
        \/ n \in Updaters /\ FillUpdate(n)
        \/ waitTransport(n)
        \/ MRTSends(n) \/ mnp_recvseg(n) \/ MRTAnswers(n)
        \/ \E thread \in Threads : Forwards(n, thread)

Spec == MNPInit /\ [][Next]_vars

(* A thread that can run does, one that waits for a mutex or for room gets   *)
(* it in the end, and so does the overlay that has a packet from a neighbour *)
(* for the handler.  Nothing makes an MRT process connect or send, but its   *)
(* seghandler reads and answers.                                             *)
FairSpec ==
    /\ Spec
    /\ \A n \in Nodes :
          /\ WF_vars(InsertNbr(n) \/ StartThreads(n))
          /\ WF_vars(pkthandler(n) \/ Forwards(n, "pkthandler"))
          /\ \A m \in Nbrs(n) : SF_vars(overlay_recvpkt(n, m))
          /\ SF_vars((n \in Updaters /\ FillUpdate(n)) \/ Forwards(n, "routeupdate"))
          /\ SF_vars(getsegToSend(n) \/ Forwards(n, "waitTransport"))
          /\ WF_vars(mnp_recvseg(n)) /\ WF_vars(MRTAnswers(n))
-----------------------------------------------------------------------------
EntryOf == [nodeID : Ids, cost : Nat]
Packet == [type : {"ROUTE_UPDATE", "MNP"}, src : Nodes, dest : Nodes \cup {BROADCAST_NODEID},
           seg : Nat, entries : Seq(EntryOf)]

\* Type invariant.
TypeOK ==
    /\ DOMAIN dv_table = Nodes /\ DOMAIN routing_table = Nodes
    /\ \A n \in Nodes :
          /\ dv_table[n] \in Seq([nodeID : Nodes, dvEntry : Seq(EntryOf)])
          /\ DOMAIN routing_table[n] = Slots
          /\ \A s \in Slots : routing_table[n][s] \in Seq([destNodeID : Nodes, nextNodeID : Nodes])
    /\ dv_mutex \in [Nodes -> BOOLEAN] /\ routingtable_mutex \in [Nodes -> BOOLEAN]
    /\ pc \in [Nodes -> [Threads -> {"recv", "lock dv", "lock rt", "update", "unlock rt",
                       "forward", "lookup", "send", "fill", "accept", "get", "create"}]]
    /\ packet \in [Nodes -> [Threads -> Packet]]
    /\ hop \in [Nodes -> [Threads -> Nodes \cup {NoHop, BROADCAST_NODEID}]]
    /\ entry \in [Nodes -> Nat] /\ made \in [Nodes -> Nat]
    /\ transport \in [Nodes -> BOOLEAN]
    /\ outbox \in [Nodes -> Seq(Nat)] /\ inbox \in [Nodes -> Seq(Nodes \X Nat)]
    /\ reply \in [Nodes -> Nodes \cup {0}]
    /\ sent \in [Nodes -> Seq(Nodes)]
    /\ link \in [Nodes -> [Nodes -> Seq(Packet)]]
    /\ got \in [Nodes -> SUBSET (Nodes \X Nat)]

\* A segment is on no link but the one from the node that sent it to the node
\* it is for: the next hop of a node is that node or none, whichever entries
\* share its slot, and no handler forwards.
PacketsOnCourse ==
    \A n, m \in Nodes : \A i \in 1..Len(link[n][m]) :
        link[n][m][i].type = "MNP" => link[n][m][i].src = n /\ link[n][m][i].dest = m

\* The routes are those the table was created with: nothing a neighbour
\* advertises is cheaper than what the node takes its own cost to be, since
\* dvtable_getcost() does not read the node's row, here or there.
RoutesStand ==
    [][\A n \in Nodes : Created(n) => routing_table'[n] = routing_table[n]]_routing_table

\* An MRT process is given a segment only if it is one sent to its node.
DeliveredWasSent ==
    \A n \in Nodes : \A d \in got[n] : d[2] \in 1..Len(sent[d[1]]) /\ sent[d[1]][d[2]] = n

\* waitTransport() has its segment and reads no more, the seghandler of the MRT
\* process waits to send an answer, and the handler for it to read.
Jammed(n) ==
    /\ At(n, "pkthandler", "forward") /\ Len(inbox[n]) = MRTCap
    /\ reply[n] # 0 /\ Len(outbox[n]) = MRTCap
    /\ ~At(n, "waitTransport", "get")

\* Who holds a mutex gives it back: the handler holds both in the order of
\* pkthandler().  It returns to the connection after every packet, unless the
\* connection of the MRT process is full in both directions.
HandlerReturns ==
    \A n \in Nodes : []<>(At(n, "pkthandler", "recv") \/ Jammed(n))

\* The first segment of a node to a neighbour gets there, if there is an MRT
\* process to take it: sooner or later none is missing.  (Of two nodes: a third
\* could have jammed that connection before.)
FirstSegmentArrives ==
    []<>(\A n \in Senders \cup Answering : \A m \in Nbrs(n) :
            (sent[n] # << >> /\ sent[n][1] = m /\ transport[m]) => <<n, 1>> \in got[m])

\* network.h:39: "If this packet is an Route Update packet, update the distance
\* vector table and the routing table."  In a connected network every node
\* has a next hop for every other in the end.
RoutesFound ==
    <>(\A n, m \in Nodes : n # m => routingtable_getnextnode(routing_table[n], m) # NoHop)
=============================================================================
