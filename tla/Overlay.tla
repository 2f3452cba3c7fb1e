------------------------------ MODULE Overlay -------------------------------
(***************************************************************************)
(* The overlay processes of overlay/overlay.c and neighbortable.c, one on   *)
(* each node, from their start to their end, and the MNP processes as they  *)
(* use them: lab3/network/network.c or lab4/network/network.c, which asks   *)
(* for a second connection and outlives its overlay process.                *)
(* (The files of lab3 and lab4 differ in blanks and messages.)  An overlay  *)
(* process has the threads main, waitNbrs and, for each entry of its        *)
(* neighbor table, listen_to_neighbor.                                      *)
(*                                                                         *)
(* The connection that entry i of node n asked for is <<n, i>>.  Packets    *)
(* arrive whole: what becomes of their bytes is the subject of Framing.     *)
(***************************************************************************)
EXTENDS Topology

CONSTANTS
    Nodes,         \* node ids
    Files,         \* what topology.dat may hold
    Started,       \* bound: the files with which processes are started
    BROADCAST_NODEID,
    ConnectCalls,  \* connectToOverlay() calls of the MNP processes of each node:
                   \* 1 if they are lab3's, 2 if they are lab4's
    MaxConnects,   \* bound: connections the MNP processes of a node make
    MaxPackets,    \* bound: packets the MNP processes of a node send
    Stopping,      \* bound: nodes whose processes may be stopped by SIGINT
    MaxStops,      \* bound: processes that are stopped
    LineBound,     \* lines of the longest file
    Cap            \* bound: packets a connection holds in one direction

ASSUME OverlayConstants ==
    /\ Nodes \subseteq Nat \ {0}
    /\ BROADCAST_NODEID \in Nat \ ({0} \cup Nodes)
    /\ Started \subseteq Files
    /\ \A file \in Files : file \in Seq(Nodes \X Nodes \X Nat) /\ Len(file) <= LineBound
    /\ ConnectCalls \in [Nodes -> {1, 2}]
    /\ MaxConnects \in [Nodes -> Nat] /\ MaxPackets \in [Nodes -> Nat]
    /\ Stopping \subseteq Nodes /\ MaxStops \in Nat /\ LineBound \in Nat /\ Cap \in Nat \ {0}

VARIABLES
    links,      \* the lines of topology.dat
    main,       \* what main() does
    idx,        \* connectNbrs(): i
    waitNbrs,   \* what the thread does
    counter,    \* waitNbrs(): counter
    nt,         \* the neighbor table
    backlog,    \* connections to CONNECTION_PORT not accepted yet
    wire,       \* packets of a connection on the way to a node
    closed,     \* the ends of a connection that are closed
    listener,   \* the copy of the entry and the packet of each listen_to_neighbor
    network,    \* network_conn: the number of a connection, or 0
    serving,    \* waitNetwork() is in its inner loop
    sending,    \* its packet and the connections it has still to be sent on
    pending,    \* connections to OVERLAY_PORT not accepted yet
    net,        \* the connections of the MNP processes, in the order made
    process,    \* the connection the running MNP process uses, or 0
    sent,       \* history: packets the MNP processes of a node sent
    got,        \* history: the last packet of each node given to an MNP process
    stops       \* processes stopped so far

startVars == <<main, idx, waitNbrs, counter, nt, backlog>>
linkVars == <<wire, closed>>
networkVars == <<network, serving, sending, pending>>
mnpVars == <<net, process>>
history == <<sent, got, stops>>
vars == <<links, startVars, linkVars, listener, networkVars, mnpVars, history>>

NoConn == <<0, 0>>
\* What a packet nothing was received into holds.
Junk == [src |-> 0, no |-> 0, next |-> 0]

\* Mutant: conn is not set, and happens to be another descriptor.
nt_create_Unset(file, n) ==
    LET mine == Kept(file, LinesOf(file, n))
    IN  [i \in 1..Len(mine) |-> [nodeID |-> OtherNode(mine[i], n), conn |-> <<n, 0>>]]

\* An entry for each line that names the node, in their order; no connection
\* is open yet.
nt_create(file, n) ==
    LET mine == Kept(file, LinesOf(file, n))
    IN  [i \in 1..Len(mine) |-> [nodeID |-> OtherNode(mine[i], n), conn |-> NoConn]]

\* The connections connectNbrs() may ask for in a file, and the two ends of one.
ConnsOf(file) == {c \in Nodes \X (1..Len(file)) :
                     LET table == nt_create(file, c[1])
                     IN  c[2] <= Len(table) /\ table[c[2]].nodeID < c[1]}
EndsOf(file, c) == {c[1], nt_create(file, c[1])[c[2]].nodeID}
Conns == DOMAIN wire
Ends(c) == DOMAIN wire[c]
Hosts == {n \in Nodes : topology_getNbrNum(links, n) > 0}
Peer(c, n) == CHOOSE m \in Ends(c) : m # n

Entries(n) == 1..Len(nt[n])

\* The first entry for the node takes the connection, and loses the one it had.
nt_addconn(table, id, c) ==
    LET found == {i \in 1..Len(table) : table[i].nodeID = id}
    IN  IF found = {} THEN table ELSE [table EXCEPT ![Min(found)].conn = c]

OverlayInit ==
    /\ links \in Files
    /\ main = [n \in Nodes |-> "off"]
    /\ idx = [n \in Nodes |-> 0]
    /\ waitNbrs = [n \in Nodes |-> "off"]
    /\ counter = [n \in Nodes |-> 0]
    /\ nt = [n \in Nodes |-> << >>]
    /\ backlog = [n \in Nodes |-> << >>]
    /\ wire = [c \in ConnsOf(links) |-> [n \in EndsOf(links, c) |-> << >>]]
    /\ closed = [c \in ConnsOf(links) |-> {}]
    /\ listener = [n \in Nodes |-> << >>]
    /\ network = [n \in Nodes |-> 0]
    /\ serving = [n \in Nodes |-> FALSE]
    /\ sending = [n \in Nodes |-> [pkt |-> Junk, to |-> << >>]]
    /\ pending = [n \in Nodes |-> << >>]
    /\ net = [n \in Nodes |-> << >>]
    /\ process = [n \in Nodes |-> 0]
    /\ sent = [n \in Nodes |-> 0]
    /\ got = [n \in Nodes |-> [m \in Nodes |-> 0]]
    /\ stops = 0
-----------------------------------------------------------------------------
(* The start of an overlay process *)

\* Mutant: neighbours with smaller ids are waited for too.
Incoming_All(n) == topology_getNbrNum(links, n)
Incoming(n) ==
    LET ids == topology_getNbrArray(links, n)
    IN  Cardinality({i \in 1..topology_getNbrNum(links, n) : n < ids[i]})

\* main() makes the table and starts waitNbrs, which has counted the
\* neighbours it waits for but does not listen yet.
Start(n) ==
    /\ main[n] = "off"
    /\ n \in Hosts /\ links \in Started
    /\ main' = [main EXCEPT ![n] = "connect"]
    /\ idx' = [idx EXCEPT ![n] = 1]
    /\ nt' = [nt EXCEPT ![n] = nt_create(links, n)]
    /\ counter' = [counter EXCEPT ![n] = Incoming(n)]
    /\ waitNbrs' = [waitNbrs EXCEPT ![n] = "bind"]
    /\ UNCHANGED <<links, backlog, linkVars, listener, networkVars, mnpVars, history>>

\* Without a neighbour to wait for it never listens.
Listen(n) ==
    /\ waitNbrs[n] = "bind"
    /\ waitNbrs' = [waitNbrs EXCEPT ![n] = IF counter[n] > 0 THEN "listen" ELSE "done"]
    /\ UNCHANGED <<links, main, idx, counter, nt, backlog, linkVars, listener, networkVars, mnpVars, history>>

\* Mutant: one connection too few.
Awaited_LessOne(count) == count > 1
Awaited(count) == count > 0

\* One round of the loop.  The one who asked for the connection may be gone.
AcceptNbr(n) ==
    /\ waitNbrs[n] = "listen"
    /\ backlog[n] # << >>
    /\ LET c == Head(backlog[n])
       IN  nt' = [nt EXCEPT ![n] = nt_addconn(@, c[1], c)]
    /\ backlog' = [backlog EXCEPT ![n] = Tail(@)]
    /\ counter' = [counter EXCEPT ![n] = @ - 1]
    /\ waitNbrs' = [waitNbrs EXCEPT ![n] = IF Awaited(counter[n] - 1) THEN @ ELSE "done"]
    /\ UNCHANGED <<links, main, idx, linkVars, listener, networkVars, mnpVars, history>>

\* connectNbrs() at an entry for a smaller id, whose node listens or does not.
Connecting(n) ==
    /\ main[n] = "connect"
    /\ idx[n] <= Len(nt[n])
    /\ nt[n][idx[n]].nodeID < n
Listening(m) == waitNbrs[m] = "listen"

\* Mutant: the connection goes to the entry of the loop.
Added_AtIndex(n, c) == [nt[n] EXCEPT ![idx[n]].conn = c]
Added(n, c) == nt_addconn(nt[n], nt[n][idx[n]].nodeID, c)

ConnectMade(n) ==
    /\ Connecting(n)
    /\ LET m == nt[n][idx[n]].nodeID
           c == <<n, idx[n]>>
       IN  /\ Listening(m)
           /\ backlog' = [backlog EXCEPT ![m] = Append(@, c)]
           /\ nt' = [nt EXCEPT ![n] = Added(n, c)]
    /\ idx' = [idx EXCEPT ![n] = @ + 1]
    /\ UNCHANGED <<links, main, waitNbrs, counter, linkVars, listener, networkVars, mnpVars, history>>

\* The call returns -1, which main() does not look at: no later entry is tried.
ConnectRefused(n) ==
    /\ Connecting(n)
    /\ ~Listening(nt[n][idx[n]].nodeID)
    /\ main' = [main EXCEPT ![n] = "join"]
    /\ UNCHANGED <<links, idx, waitNbrs, counter, nt, backlog, linkVars, listener, networkVars, mnpVars, history>>

ConnectNext(n) ==
    /\ main[n] = "connect"
    /\ ~Connecting(n)
    /\ IF idx[n] <= Len(nt[n])
       THEN idx' = [idx EXCEPT ![n] = @ + 1] /\ UNCHANGED main
       ELSE main' = [main EXCEPT ![n] = "join"] /\ UNCHANGED idx
    /\ UNCHANGED <<links, waitNbrs, counter, nt, backlog, linkVars, listener, networkVars, mnpVars, history>>

\* Mutant: every thread is given the index 0.
Entry_First(n, i) == nt[n][1]
Entry(n, i) == nt[n][i]

\* A thread for each entry, with a connection or without, and waitNetwork().
StartListeners(n) ==
    /\ main[n] = "join"
    /\ waitNbrs[n] = "done"
    /\ main' = [main EXCEPT ![n] = "serve"]
    /\ listener' = [listener EXCEPT ![n] =
           [i \in Entries(n) |-> [conn |-> Entry(n, i).conn, pkt |-> Junk, full |-> FALSE]]]
    /\ UNCHANGED <<links, idx, waitNbrs, counter, nt, backlog, linkVars, networkVars, mnpVars, history>>
-----------------------------------------------------------------------------
(* The end of a process.  The kernel closes its connections; what is unread *)
(* then goes back as a reset, which overtakes what the process had sent.     *)

Cut(unread, q, reset) == IF reset /\ unread # << >> THEN << >> ELSE q

OverlayEnds(n) ==
    /\ main' = [main EXCEPT ![n] = "down"]
    /\ waitNbrs' = [waitNbrs EXCEPT ![n] = "done"]
    /\ idx' = [idx EXCEPT ![n] = 0]
    /\ counter' = [counter EXCEPT ![n] = 0]
    /\ nt' = [nt EXCEPT ![n] = << >>]
    /\ backlog' = [backlog EXCEPT ![n] = << >>]
    /\ listener' = [listener EXCEPT ![n] = << >>]
    /\ network' = [network EXCEPT ![n] = 0]
    /\ serving' = [serving EXCEPT ![n] = FALSE]
    /\ sending' = [sending EXCEPT ![n] = [pkt |-> Junk, to |-> << >>]]
    /\ pending' = [pending EXCEPT ![n] = << >>]
    /\ closed' = [c \in Conns |-> IF n \in Ends(c) THEN closed[c] \cup {n} ELSE closed[c]]
    /\ \E reset \in BOOLEAN :
          /\ wire' = [c \in Conns |-> [m \in Ends(c) |->
                         IF n \notin Ends(c) THEN wire[c][m]
                         ELSE IF m = n THEN << >>
                         ELSE Cut(wire[c][n], wire[c][m], reset)]]
          /\ net' = [net EXCEPT ![n] = [k \in DOMAIN net[n] |->
                         [net[n][k] EXCEPT !.overlay = FALSE, !.up = << >>,
                                           !.down = Cut(net[n][k].up, @, reset)]]]
    /\ UNCHANGED <<links, process, sent, got>>

ProcessEnds(n) ==
    /\ process' = [process EXCEPT ![n] = 0]
    /\ \E reset \in BOOLEAN :
          net' = [net EXCEPT ![n] = [k \in DOMAIN net[n] |->
                     [net[n][k] EXCEPT !.mnp = FALSE, !.down = << >>,
                                       !.up = Cut(net[n][k].down, @, reset)]]]
    /\ UNCHANGED <<links, startVars, linkVars, listener, networkVars, sent, got>>

overlay_stop(n) ==
    /\ main[n] \notin {"off", "down"}
    /\ n \in Stopping /\ stops < MaxStops
    /\ OverlayEnds(n)
    /\ stops' = stops + 1

network_stop(n) ==
    /\ process[n] # 0
    /\ n \in Stopping /\ stops < MaxStops
    /\ ProcessEnds(n)
    /\ stops' = stops + 1

\* Sending on a connection the other end has closed: the first data is lost
\* without an error, and once the reset is back SIGPIPE ends the process.
KilledBySend(n) == OverlayEnds(n) /\ UNCHANGED stops
-----------------------------------------------------------------------------
(* listen_to_neighbor, the thread of entry i *)

SetListener(n, i, pkt, full) ==
    listener' = [listener EXCEPT ![n][i].pkt = pkt, ![n][i].full = full]

recvpkt(n, i) ==
    LET c == listener[n][i].conn
    IN  /\ ~listener[n][i].full
        /\ c # NoConn
        /\ wire[c][n] # << >>
        /\ SetListener(n, i, Head(wire[c][n]), TRUE)
        /\ wire' = [wire EXCEPT ![c][n] = Tail(@)]
        /\ UNCHANGED <<links, startVars, closed, networkVars, mnpVars, history>>

\* Without a connection, or at its end, recvpkt() returns -1, which is true:
\* the packet of the round before is forwarded again.
recvpkt_Fails(n, i) ==
    LET c == listener[n][i].conn
    IN  /\ ~listener[n][i].full
        /\ c # NoConn => wire[c][n] = << >> /\ Peer(c, n) \in closed[c]
        /\ SetListener(n, i, listener[n][i].pkt, TRUE)
        /\ UNCHANGED <<links, startVars, linkVars, networkVars, mnpVars, history>>

\* Mutant: the thread keeps the network_conn there was when it started.
Attached_AtStart(n) == FALSE
\* Does network_conn stand for a connection this process has open?
Attached(n) == network[n] # 0 /\ net[n][network[n]].overlay

\* Lost without a connection to an MNP process, or with one whose other end
\* is closed.
ForwardLost(n, i) ==
    /\ listener[n][i].full
    /\ Attached(n) => ~net[n][network[n]].mnp
    /\ SetListener(n, i, listener[n][i].pkt, FALSE)
    /\ UNCHANGED <<links, startVars, linkVars, networkVars, mnpVars, history>>

forwardpktToMNP(n, i) ==
    /\ listener[n][i].full
    /\ Attached(n)
    /\ IF net[n][network[n]].mnp
       THEN /\ Len(net[n][network[n]].down) < Cap
            /\ net' = [net EXCEPT ![n][network[n]].down = Append(@, listener[n][i].pkt)]
            /\ SetListener(n, i, listener[n][i].pkt, FALSE)
            /\ UNCHANGED <<links, startVars, linkVars, networkVars, process, history>>
       ELSE KilledBySend(n)
-----------------------------------------------------------------------------
(* waitNetwork(), in the thread main *)

AcceptNetwork(n) ==
    /\ main[n] = "serve"
    /\ ~serving[n]
    /\ pending[n] # << >>
    /\ network' = [network EXCEPT ![n] = Head(pending[n])]
    /\ pending' = [pending EXCEPT ![n] = Tail(@)]
    /\ serving' = [serving EXCEPT ![n] = TRUE]
    /\ UNCHANGED <<links, startVars, linkVars, listener, sending, mnpVars, history>>

\* Mutant: a next hop is not compared with the id of the entry.
Chosen_AnyEntry(entry, next) == entry.conn # NoConn
Chosen(entry, next) ==
    /\ entry.conn # NoConn
    /\ next = BROADCAST_NODEID \/ entry.nodeID = next

SendTo(n, next) ==
    LET chosen == Kept(nt[n], {i \in Entries(n) : Chosen(nt[n][i], next)})
    IN  [j \in 1..Len(chosen) |-> chosen[j].conn]

getpktToSend(n) ==
    /\ serving[n]
    /\ sending[n].to = << >>
    /\ LET up == net[n][network[n]].up
       IN  /\ up # << >>
           /\ sending' = [sending EXCEPT ![n] = [pkt |-> Head(up), to |-> SendTo(n, Head(up).next)]]
           /\ net' = [net EXCEPT ![n][network[n]].up = Tail(@)]
    /\ UNCHANGED <<links, startVars, linkVars, listener, network, serving, pending, process, history>>

\* Mutant: as in listen_to_neighbor(), a failure does not end the loop.
NetworkEof_Ignored(n) == FALSE
NetworkEof(n) ==
    /\ serving[n]
    /\ sending[n].to = << >>
    /\ net[n][network[n]].up = << >>
    /\ ~net[n][network[n]].mnp

\* The connection is closed; network_conn keeps its number.
CloseNetwork(n) ==
    /\ NetworkEof(n)
    /\ net' = [net EXCEPT ![n][network[n]].overlay = FALSE]
    /\ serving' = [serving EXCEPT ![n] = FALSE]
    /\ UNCHANGED <<links, startVars, linkVars, listener, network, sending, pending, process, history>>

sendpkt(n) ==
    /\ sending[n].to # << >>
    /\ LET c == Head(sending[n].to)
           m == Peer(c, n)
       IN  \/ /\ m \notin closed[c]
              /\ Len(wire[c][m]) < Cap
              /\ wire' = [wire EXCEPT ![c][m] = Append(@, sending[n].pkt)]
           \/ /\ m \in closed[c]
              /\ UNCHANGED wire
    /\ sending' = [sending EXCEPT ![n].to = Tail(@)]
    /\ UNCHANGED <<links, startVars, closed, listener, network, serving, pending, mnpVars, history>>

sendpkt_Killed(n) ==
    /\ sending[n].to # << >>
    /\ LET c == Head(sending[n].to)
       IN  Peer(c, n) \in closed[c]
    /\ KilledBySend(n)
-----------------------------------------------------------------------------
(* The MNP processes *)

\* A call is refused before waitNetwork(); the process ends then.
connectToOverlay(n) ==
    /\ process[n] = 0
    /\ main[n] = "serve"
    /\ Len(net[n]) + ConnectCalls[n] <= MaxConnects[n]
    /\ LET new == [j \in 1..ConnectCalls[n] |->
                      [up |-> << >>, down |-> << >>, overlay |-> TRUE, mnp |-> TRUE]]
       IN  net' = [net EXCEPT ![n] = @ \o new]
    /\ pending' = [pending EXCEPT ![n] = @ \o [j \in 1..ConnectCalls[n] |-> Len(net[n]) + j]]
    /\ process' = [process EXCEPT ![n] = Len(net[n]) + 1]
    /\ UNCHANGED <<links, startVars, linkVars, listener, network, serving, sending, history>>

overlay_sendpkt(n, next) ==
    /\ process[n] # 0
    /\ net[n][process[n]].overlay
    /\ sent[n] < MaxPackets[n]
    /\ Len(net[n][process[n]].up) < Cap
    /\ sent' = [sent EXCEPT ![n] = @ + 1]
    /\ net' = [net EXCEPT ![n][process[n]].up =
           Append(@, [src |-> n, no |-> sent[n] + 1, next |-> next])]
    /\ UNCHANGED <<links, startVars, linkVars, listener, networkVars, process, got, stops>>

routeupdate_daemon(n) == overlay_sendpkt(n, BROADCAST_NODEID)
waitTransport(n) == \E next \in Nodes \ {n} : overlay_sendpkt(n, next)

overlay_recvpkt(n) ==
    /\ process[n] # 0 /\ net[n][process[n]].mnp
    /\ LET down == net[n][process[n]].down
       IN  /\ down # << >>
           /\ got' = [got EXCEPT ![n] = [m \in Nodes |->
                  IF m = Head(down).src THEN Head(down).no ELSE @[m]]]
    /\ net' = [net EXCEPT ![n][process[n]].down = Tail(@)]
    /\ UNCHANGED <<links, startVars, linkVars, listener, networkVars, process, sent, stops>>

\* The handler sees the end of the connection of its process, closes it and
\* ends.
LosesOverlay(n) ==
    /\ process[n] # 0
    /\ LET conn == net[n][process[n]]
       IN  conn.down = << >> /\ ~conn.overlay /\ conn.mnp
    /\ net' = [net EXCEPT ![n][process[n]].mnp = FALSE]
    /\ UNCHANGED <<links, startVars, linkVars, listener, networkVars, process, history>>

\* SIGPIPE ends the process of a thread that sends first, or the data is lost.
overlay_sendpkt_Killed(n) ==
    /\ process[n] # 0
    /\ ~net[n][process[n]].overlay /\ net[n][process[n]].mnp
    /\ ProcessEnds(n)
    /\ UNCHANGED stops

\* Mutant: the handler closes the descriptor and does not set it to -1.
MainReturns_Unset(n) == FALSE

\* The main() of lab3 tests the descriptor, which the handler has set to -1; the
\* one of lab4 stays in waitTransport().
MainReturns(n) ==
    /\ ConnectCalls[n] = 1
    /\ process[n] # 0
    /\ ~net[n][process[n]].mnp
    /\ ProcessEnds(n)
    /\ UNCHANGED stops
-----------------------------------------------------------------------------
waitNbrsThread(n) == Listen(n) \/ AcceptNbr(n)
connectNbrs(n) == ConnectMade(n) \/ ConnectRefused(n) \/ ConnectNext(n)
waitNetwork(n) == AcceptNetwork(n) \/ getpktToSend(n) \/ sendpkt(n) \/ sendpkt_Killed(n) \/ CloseNetwork(n)
mainThread(n) == Start(n) \/ connectNbrs(n) \/ StartListeners(n) \/ waitNetwork(n)
listen_to_neighbor(n, i) ==
    /\ i \in DOMAIN listener[n]
    /\ recvpkt(n, i) \/ recvpkt_Fails(n, i) \/ ForwardLost(n, i) \/ forwardpktToMNP(n, i)
pkthandler(n) == overlay_recvpkt(n) \/ LosesOverlay(n)

Next ==
    \E n \in Nodes :
        \/ mainThread(n) \/ waitNbrsThread(n)
        \/ \E i \in 1..LineBound : listen_to_neighbor(n, i)
        \/ connectToOverlay(n) \/ routeupdate_daemon(n) \/ waitTransport(n) \/ pkthandler(n)
        \/ overlay_sendpkt_Killed(n) \/ MainReturns(n)
        \/ overlay_stop(n) \/ network_stop(n)

\* Every node is started, and every thread runs.
Fairness ==
    \A n \in Nodes :
        /\ WF_vars(mainThread(n)) /\ WF_vars(waitNbrsThread(n))
        /\ \A i \in 1..LineBound : WF_vars(listen_to_neighbor(n, i))
        /\ MaxConnects[n] > 0 => WF_vars(pkthandler(n)) /\ WF_vars(MainReturns(n))

Spec == OverlayInit /\ [][Next]_vars /\ Fairness
-----------------------------------------------------------------------------
Packet == {Junk} \cup [src : Nodes, no : Nat \ {0}, next : Nodes \cup {BROADCAST_NODEID}]
Entry_Type == [nodeID : Nodes, conn : Conns \cup {NoConn}]

\* Type invariant.
TypeOK ==
    /\ main \in [Nodes -> {"off", "connect", "join", "serve", "down"}]
    /\ waitNbrs \in [Nodes -> {"off", "bind", "listen", "done"}]
    /\ idx \in [Nodes -> 0..(LineBound + 1)] /\ counter \in [Nodes -> 0..LineBound]
    /\ \A n \in Nodes :
        /\ nt[n] \in Seq(Entry_Type) /\ Len(nt[n]) <= LineBound
        /\ backlog[n] \in Seq({c \in Conns : n \in Ends(c)})
        /\ \A i \in DOMAIN listener[n] :
              /\ listener[n][i].conn \in Conns \cup {NoConn}
              /\ listener[n][i].pkt \in Packet /\ listener[n][i].full \in BOOLEAN
        /\ network[n] \in 0..Len(net[n]) /\ process[n] \in 0..Len(net[n])
        /\ serving[n] \in BOOLEAN
        /\ sending[n].pkt \in Packet /\ sending[n].to \in Seq(Conns)
        /\ pending[n] \in Seq(DOMAIN net[n])
        /\ \A k \in DOMAIN net[n] :
              /\ net[n][k].up \in Seq(Packet) /\ net[n][k].down \in Seq(Packet)
              /\ net[n][k].overlay \in BOOLEAN /\ net[n][k].mnp \in BOOLEAN
        /\ sent[n] \in 0..MaxPackets[n]
    /\ \A c \in Conns : closed[c] \subseteq Ends(c) /\ \A n \in Ends(c) : wire[c][n] \in Seq(Packet)
    /\ got \in [Nodes -> [Nodes -> Nat]]
    /\ stops \in 0..MaxStops

Times(s, x) == Cardinality({i \in 1..Len(s) : s[i] = x})

\* The two nodes of a link find each other in the file, equally often, in an
\* array as long as topology_getNbrNum() says, which is what the loops over the
\* neighbor table count to, and the same as the ids of that table; and a cost is
\* finite exactly between neighbours and the same either way.
NbrsAgree ==
    \A n, m \in Nodes :
        LET mine == topology_getNbrArray(links, n)
        IN  /\ Times(mine, m) = Times(topology_getNbrArray(links, m), n)
            /\ Len(mine) = topology_getNbrNum(links, n)
            /\ mine = [i \in 1..Len(mine) |-> nt_create(links, n)[i].nodeID]
            /\ topology_getCost(links, n, m) = topology_getCost(links, m, n)
            /\ n # m => (topology_getCost(links, n, m) = INFINITE_COST <=> Times(mine, m) = 0)

ConnsTo(n, m) == {nt[n][i].conn : i \in {j \in Entries(n) : nt[n][j].nodeID = m}} \ {NoConn}

\* Whatever the order in which the nodes start, connect and accept, an entry of a
\* neighbor table only holds a connection to the node it names, and two neighbours
\* that have finished their start use the same one, although each found it in its
\* own table, with a line given twice as well: what one sends on it is read by a
\* listener of the other.
SameConnection ==
    \A n, m \in Nodes :
        /\ \A c \in ConnsTo(n, m) : Ends(c) = {n, m}
        /\ main[n] = "serve" /\ main[m] = "serve" => ConnsTo(n, m) = ConnsTo(m, n)

\* A connection is refused only by a node that does not listen yet, or has
\* ended: waitNbrs() does not stop listening while a neighbour has still to come.
RefusedOnlyEarly ==
    [][\A n \in Nodes : ConnectRefused(n) =>
          LET m == nt[n][idx[n]].nodeID
          IN  waitNbrs[m] \in {"off", "bind"} \/ main[m] = "down"]_vars

Hand(m, c) ==
    LET full == Kept(listener[m], {i \in DOMAIN listener[m] : listener[m][i].conn = c /\ listener[m][i].full})
    IN  [j \in 1..Len(full) |-> full[j].pkt]
Down(m) == IF process[m] = 0 THEN << >> ELSE net[m][process[m]].down

\* The packets of a neighbour reach an MNP process in the order sent, each at
\* most once, as long as the connection between the two nodes stands, whoever
\* else sends, and whichever MNP processes come and go.
PacketsInOrder ==
    \A c \in Conns : \A m \in Ends(c) :
        closed[c] = {} =>
            LET way == Down(m) \o Hand(m, c) \o wire[c][m]
                mine == {j \in 1..Len(way) : way[j].src = Peer(c, m)}
            IN  \A j \in mine : /\ got[m][Peer(c, m)] < way[j].no
                               /\ \A k \in mine : j < k => way[j].no < way[k].no

\* A packet is only on a connection of the node whose MNP process sent it, and
\* one for a next hop only on its way to that node: an overlay process never
\* sends on what it received.
SentToNextHop ==
    \A c \in Conns : \A m \in Ends(c) : \A j \in 1..Len(wire[c][m]) :
        LET p == wire[c][m][j]
        IN  p.src = Peer(c, m) /\ p.next \in {m, BROADCAST_NODEID}
-----------------------------------------------------------------------------
\* connectNbrs() gave up.
Abandoned(n) == main[n] \in {"join", "serve"} /\ idx[n] <= Len(nt[n])
SomeoneEnds == \E n \in Nodes : main[n] = "down"

\* If no connection is refused and no process ends, every node comes to wait
\* for its MNP process and has an open connection to each neighbour.
LinksComeUp ==
    <>( \/ links \notin Started \/ SomeoneEnds \/ \E n \in Nodes : Abandoned(n)
        \/ \A n \in Hosts : /\ main[n] = "serve"
                            /\ \A m \in {nt[n][i].nodeID : i \in Entries(n)} : ConnsTo(n, m) # {})

Served(n) == process[n] # 0 /\ serving[n] /\ network[n] = process[n]
Clients == {n \in Nodes : MaxConnects[n] > 0}

\* An MNP process that has connected is served, whatever became of the one
\* before it, unless it or its overlay process ends.
NetworkServed ==
    \A n \in Clients : process[n] # 0 ~> (Served(n) \/ process[n] = 0 \/ main[n] = "down")

\* An MNP process of lab3 does not outlive the overlay process it has a
\* connection to: what was forwarded before is read, then the handler sees the
\* end and main() returns.
LostOverlayEnds ==
    \A n \in Clients : ConnectCalls[n] = 1 =>
        ((process[n] # 0 /\ main[n] = "down") ~> process[n] = 0)

\* Every overlay process has started, the MNP processes of n and m are served,
\* and no listener of m is without a connection.
Settled(n, m) ==
    /\ \A h \in Hosts : main[h] = "serve"
    /\ Served(n) /\ Served(m)
    /\ \A i \in Entries(m) : nt[m][i].conn # NoConn

\* As long as that is so, each packet of the MNP process of n gets to that of
\* every neighbour it is for: the threads and queues between the two are never
\* all waiting for each other.
PacketsArrive ==
    \A n, m \in Clients : \A no \in 1..MaxPackets[n] :
        (/\ Settled(n, m)
         /\ \E c \in Conns : Ends(c) = {n, m}
         /\ LET up == net[n][network[n]].up
            IN  \E j \in DOMAIN up : up[j].no = no /\ up[j].next \in {m, BROADCAST_NODEID})
        ~> (got[m][n] >= no \/ ~Settled(n, m))
=============================================================================
