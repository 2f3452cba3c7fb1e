# Verification of the CS60 network stack

TLA+ models, TLC runs and TLAPS proofs for the C code of this repository: the
laboratory programs of a networks course, of which `lab4` is the full stack.
This file gives the inventory of the system, the plan, what is modelled and
how, and what the runs and the proofs show.

## 1. The system

| Part | Source | State | Operations | What talks to it |
|---|---|---|---|---|
| MRT client | `lab4/client/mrt_client.c` | TCB table; per TCB the FSM state, `next_seqNum`, the send buffer with `sendBufHead`, `sendBufunSent`, `sendBufTail`, `unAck_segNum` | `sock`, `connect`, `send`, `disconnect`, `close`; threads `seghandler`, `sendingBuffer_timer` | application (calls), MNP process (segments over a local TCP connection) |
| MRT server | `lab4/server/mrt_server.c` | TCB table; per TCB the FSM state, `expect_seqNum`, `recvBuf`/`usedBufLen` | `sock`, `accept`, `recv`, `close`; threads `seghandler`, `closewait` | application, MNP process |
| Segments | `lab4/common/seg.c` | none; the framing state machine of a receiver | `mnp_sendseg`, `mnp_recvseg` (with `seglost`), `getsegToSend`, `forwardsegToMRT` | MRT and MNP |
| MNP | `lab4/network/network.c`, `dvtable.c`, `nbrcosttable.c`, `routing_table.c` | distance vectors, neighbour costs, routing table, two connections | `pkthandler`, `routeupdate_daemon`, `waitTransport`, `network_stop` | MRT process, overlay process |
| Overlay | `lab4/overlay/overlay.c`, `neighbortable.c` | neighbour table with one connection each, the MNP connection | `waitNbrs`, `connectNbrs`, `listen_to_neighbor`, `waitNetwork`, `overlay_stop` | neighbours (TCP), MNP process |
| Packets | `lab4/common/pkt.c` | the framing state machine | `overlay_sendpkt`, `overlay_recvpkt`, `getpktToSend`, `forwardpktToMNP`, `sendpkt`, `recvpkt` | MNP and overlay |
| Topology | `lab4/topology/topology.c` | `topology.dat` | queries for nodes, neighbours, costs | all of the above |
| lab2 MRT | `lab2/client`, `lab2/server` | as lab4, over one direct TCP connection | as lab4, `buffer_timer`, `timer_handler` | application |
| lab3 overlay and MNP | `lab3/overlay`, `lab3/network` | the overlay of lab4 but for blanks and messages; an MNP that broadcasts and prints | as lab4 | neighbours, MNP process |
| lab1 echo servers | `lab1/TCPServer_v1..v4.c` | one, forked, threaded and `select` servers | accept, echo, end | TCP clients |

Client and server each run an application thread, one `seghandler` thread and
further threads (timers, `closewait`) that share a TCB. Some accesses are under
`bufMutex`, and others, the FSM state above all, under nothing. The two
processes exchange SYN, SYNACK, DATA, DATAACK, FIN and FINACK segments; `seglost()`
drops each with probability 0.1 on receipt, and only the client retransmits.

What is hard: go-back-N with several timer threads that decide outside the
mutex; state that is set after the segment it is about was sent; retransmission
against late and lost acknowledgements; connections that fail halfway and are
tried again with what the last left behind; polls that test and then act.
`PROJECT.json` lists each such place under `hazards`, with the properties aimed
at it.

What makes each part correct:

- **MRT**: bytes saved are a prefix of the bytes appended; the window agrees with
  the buffer; nothing is freed before it was saved; a window has a timer; data
  gets through; the two ends agree on being connected; calls return.
- **MNP**: the routing table holds a next hop on a shortest path; distances
  converge; every segment is forwarded once.
- **Overlay**: both ends of a link hold the same connection; every packet for a
  neighbour is sent on the connection to it and keeps its place among the others of
  its sender; an MNP process that connects is served.
- **lab2**: as MRT; and no thread waits for a mutex it holds itself.
- **Framing**: a receiver gets exactly the frames sent, whatever the payload and
  however the senders of one socket interleave.
- **lab1**: each client gets its own echo, descriptors are closed, and a
  client that is served does not depend on the others.

## 2. Plan

1. **MRT transport** (built): `Segments`, `MRTClient`, `MRTServer`, composed by
   `MRT`; abstract specification `ReliableStream`; proofs `MRT_proofs`. Still to
   prove: the case of a port that is its node's id, which the run `reconnect` checks.
2. **Framing, topology, tables, MNP** (built): `Framing` for one connection;
   `Topology` for the queries, `RoutingTable` and `DVTable` for the tables, `MNP`
   for the threads of every node over them; proofs `Framing_proofs`,
   `RoutingTable_proofs`, `MNP_proofs`. Still to model: the disconnect of an MRT
   process; MRT over what `waitTransport()` does in place of the network of
   `Segments`.
3. **Overlay** (built): `Overlay`, the overlay processes of all nodes against each
   other and against the MNP processes that come and go; proofs `Overlay_proofs`.
   Still to model: an overlay process that is started again.
4. **lab2** (built): `Lab2Segments`, `Lab2Client`, `Lab2Server`, composed by
   `Lab2MRT`; proofs `Lab2_proofs`.
5. **lab1** (built): `EchoServers`; proofs `EchoServers_proofs`.
6. Several sockets of one process (slots, ports) for lab4.

## 3. The modules

| Module | What it is |
|---|---|
| `Segments` | segments, the two directions of the network, loss, death of a process |
| `MRTClient` | one client TCB: application, `seghandler`, timers |
| `MRTServer` | one server TCB: application, `seghandler`, `closewait` |
| `MRT` | both over the network; fairness; every property |
| `ReliableStream` | what a transport promises: the bytes taken are a prefix of those put in, and neither end takes a byte back |
| `MCMRT` | the module the runs of MRT check, with the constants of each `.cfg` |
| `MRT_proofs` | the inductive invariants: stream and window, timers, agreement, delivery; the refinement of `ReliableStream` |
| `Framing`, `MCFraming` | one TCP connection: writers of three `send()` calls a frame, a reader byte by byte |
| `Framing_proofs` | frames of one writer |
| `Topology` | the queries over `topology.dat`, as operators |
| `RoutingTable` | the hash table of next hops, as operators |
| `RoutingTableCalls`, `MCRoutingTable` | any calls of its insertion, and what a lookup must answer |
| `RoutingTableFacts`, `RoutingTable_proofs` | lemmas on the table, and the answers of a lookup |
| `DVTable` | the distance vector table and the neighbour costs, as operators |
| `MNP`, `MCMNP` | the MNP process of every node: three threads, tables, mutexes, and the links between neighbours |
| `MNP_proofs` | routes and segments in every topology |
| `Overlay`, `MCOverlay` | the overlay process of every node with its neighbours and MNP processes, from start to stop |
| `Overlay_proofs` | the start, the connections, the packets and their order, for every file |
| `Lab2Segments` | segments of lab2, the one TCP connection, its end |
| `Lab2Client`, `Lab2Server` | client and server of lab2, with the calls their application makes |
| `Lab2MRT`, `MCLab2` | both, or the server with another client; fairness; the properties |
| `Lab2_proofs` | stream, buffer, lock and states of the pair |
| `EchoServers`, `MCEcho` | the four servers of lab1 and their clients |
| `EchoServers_proofs` | answers and descriptors of the four servers |

### Correspondence

A variable is a field of the TCB by the same name. `sendBuf` is the list from
`sendBufHead` to `sendBufTail`; `sendBufunSent` is an index in it, 0 for NULL.
`recvBuf` is `recvBuf[0..usedBufLen-1]`. The state adds `NONE` (no TCB) and
`FREED`. `cApp`, `cHandler` and `sApp` say where a thread is in a call;
`tAsleep` and `tDue` count the timer threads by where they are. `connects`,
`given`, `wrote`, `accepts`, `saved` and `delivered` are history: no action reads
them except for a bound or to number the next byte.

- **Steps.** A critical section under `bufMutex` is one step. What is outside is
  apart: a SYN is sent and then the state is `SYNSENT` (`ConnectSyn`,
  `ConnectState`), a FIN and then `FINWAIT`; a timer reads `unAck_segNum`
  (`TimerPoll`), then reads through `sendBufHead` (`TimerNullHead`), then takes
  the mutex (`TimerTimeout`); the seghandler pops and then sends
  (`HandleDataAck`, `HandleSending`); `recv` tests `usedBufLen` and then copies
  (`RecvPoll`, `RecvCopy`); `closewait` empties and then closes. A call in
  progress and a thread between two steps interleave with everything.
- **One segment handled by the server is one step**, though its answer is sent
  before the last assignment of the state: the client sees the answer only
  through the network, where it may be delayed, and the other threads of the
  server act on the state alone.
- **A send and its lock.** The segments sent in one critical section of the
  buffer join the direction together. A SYN or FIN is sent without the mutex, and
  could come between two segments of a batch; the application sends both and
  cannot do so while it runs `mrt_client_send()`. With a batch of a timer or of
  the seghandler the FIN could come in the middle. The server then takes the FIN
  a little earlier and drops the rest of the batch as `CLOSEWAIT` does; losing
  the rest of the batch after the FIN gives the same behaviour.
- **Time.** A timeout may happen at any time in its wait. `sentTime` is set in
  one unit and compared in another, so that the test of its age succeeds at every
  poll: a poll that finds `unAck_segNum # 0` retransmits.
- **Undefined behaviour.** A read through NULL or a freed TCB, and a copy of a
  negative length, end the process (`crashed`), after which it does nothing.
  The store beyond the short allocation of `recvBuf` is taken as harmless: the
  model's `recvBuf` holds `RECEIVE_BUF_SIZE` bytes.
  `expect_seqNum` after `malloc()` is any of `Garbage`.
- **Data.** Bytes are numbered by the application, 1, 2, 3..., so that a byte
  lost, repeated or moved shows. Ports and node ids are those of the one
  connection, and the comparisons with them succeed, but for the one of
  `FinAckAccepted`, which compares a port with a node id.
- **Network.** A direction is a sequence: hops are TCP connections and routes do
  not change. This is the network layer as its documentation has it
  (`network.c:502-513`). The code of MNP does less: it carries one segment for a
  connection and repeats it, and only between neighbours. That is the subject of
  `MNP`, and the runs of MRT say what the transport does over a network layer that
  keeps its promise.
- **Calls refused** (of MRT) by the switch of an API function change nothing and have no
  action.

`Framing`. A frame is `!&`, a body and `!#`, for the three `send()` calls of
`overlay_sendpkt()`, `forwardpktToMNP()`, `sendpkt()`, `mnp_sendseg()` and
`forwardsegToMRT()`, which are steps apart, so that several writers mix. It is read a
byte at a time: `!`, `&`, `#`, and `x` for every other. The readers of `pkt.c` and
`seg.c` are the same machine but for the assertion on the length, which `recvpkt()`
does not have (`Checked`), and for a missing `break` in that of `mnp_recvseg()`
(`FallsThrough`). The machine does not know a delimiter from two bytes of a body: a
`!#` in a body ends the frame early, and a `!&` after that begins one that was never
sent. A byte on its way is known by its frame and place, `buf` is what has been
collected.

`Topology`, `RoutingTable`, `DVTable`. The file is the sequence of its lines, a slot
of the hash table the sequence of its list, a row of the distance vector table a
record. `routing_entry_node_new()` reads a field of fresh memory; `junk` is what it
finds. `NodeArrayRead` is what the callers of `topology_getNodeArray()` read, beyond
the elements that were written.

`MNP`. A variable of a node is the global variable by its name; `pc` says where each
of the threads `pkthandler`, `routeupdate_daemon` and `waitTransport()` is, `packet`
and `hop` are their locals, `entry` is the loop counter of the handler.

- **Steps.** Taking a mutex is a step and may wait. What is done under both of them
  is one step for an entry of the route update. The daemon and the lookup of a
  next hop hold one mutex for a piece of code that neither waits nor sends, and are
  one step. A packet is sent after the mutex was given back. The loop on
  `segment_status` is the steps `lookup`, `send`, `lookup`...
- **The overlay** is a queue from each node to each neighbour: what a node gives it
  for a neighbour gets to the MNP process there, in order. `Targets` is which
  neighbours, from `waitNetwork()`. `LinkCap` is the room on the whole way. A packet
  is atomic here; two threads that mix their packets are in `Framing`.
- **The MRT process** connects, or not, and stays. It sends (`MRTSends`), and its
  seghandler takes a segment (`mnp_recvseg`) which it may have to answer before it
  takes the next (`MRTAnswers`), as the server's does with each repeated SYN. Its
  connection holds `MRTCap` segments in each direction (`outbox`, `inbox`), and every
  `send()` on it waits for room: the handler's in `forwardsegToMRT()` too. `got` is
  what the seghandler was given. `seglost()`, which drops one in ten of these, is the
  subject of `Segments`.

`Overlay`. A node has the variables of its overlay process by their names: `nt`, the
`counter` of `waitNbrs()`, the `i` of `connectNbrs()` as `idx`, `network_conn` as
`network`. `main` and `waitNbrs` say what the two threads do; `listener` is, for each
`listen_to_neighbor`, its copy of the entry and its packet. The connection that entry
`i` of node `n` asks for is `<<n, i>>`, whichever entry it ends up in.

- **Start.** A process makes its table and counts whom it waits for (`Start`), and
  listens later (`Listen`), so that a neighbour may come too early. `connectNbrs()`
  gives up at the first refusal, and nobody looks at what it returns. `main()` waits
  for `waitNbrs` before it starts the listeners (`StartListeners`).
- **Two entries for one neighbour** come of a file that names the link twice: both
  lines are entries, `nt_addconn()` fills the first, and the listener of the other
  has no connection. `recvpkt()` returns -1 there, which is true: it forwards its
  packet, never written, again and again (`Junk`). The same happens at the end of a
  connection, with the packet received last.
- **The MNP process** is what uses the connection: it connects once in lab3 and
  twice in lab4 (`ConnectCalls`, for each node, as the overlay processes of the two
  labs are the same), sends to all or to a next hop, and reads. When its
  connection to the overlay process ends, the handler closes its own end and returns
  (`LosesOverlay`); `main()` of lab3, which looks at the descriptor, then returns and
  ends the process (`MainReturns`), while that of lab4 stays in `waitTransport()`. A
  thread that still sends is ended by SIGPIPE, with the process
  (`overlay_sendpkt_Killed`). When one of the two connections is closed,
  `waitNetwork()` accepts the next one in its backlog.
- **Ends.** `overlay_stop` and `network_stop` close what the process has open. Data
  that was not read makes the kernel send a reset, which may overtake what was sent
  (`Cut`). A send on a connection whose other end is closed is lost, or its reset is
  back and SIGPIPE ends the process (`KilledBySend`).
- **Packets** are whole; their bytes are the subject of `Framing`. A send waits while
  the connection holds `Cap` packets.

`Lab2MRT`. One TCB on each side; a field by its name. Data is counted in units, of
which `MAX_SEG_LEN` are a segment. `usedBufLen` is taken modulo `Width`, as the
unsigned it is.

- **The client.** `mrt_client_send()` allocates one buffer node, does not count
  `length` down and appends the node to itself, so that the send buffer is that node
  (`node`) and each round of its loop is `SendRound`. Nothing ends the loop;
  `MaxRounds` ends it in the model. `connect` sends its first SYN before the state is
  SYNSENT, sends the others at once, and returns 1 in any case. `buffer_timer`
  follows a pointer that is not set: it goes on, ends, or ends the process. Its
  `disconnect` sends no FIN: `OtherClient` is a client that sends SYN, DATA and FIN in
  any order, so that CLOSEWAIT is reached.
- **The server.** The seghandler looks for the TCB before it receives the segment,
  with the port of the segment before (`Fetch`, `Receive`), which is not set for the
  first one. It changes `usedBufLen` and `expect_seqNum` without the mutex: it reads
  (`DataReceived`) and then writes (`Save`). `recv` reads (`CopyOut`) and writes
  (`RecvReturns`) likewise, shifts by an index that is not set, and returns with the
  mutex.
- **The application** makes the calls in the order of the programs of lab2
  (`ClientMain`, `ServerMain`), with any of a few lengths, and may stop before any.

`EchoServers`. `version` says which server runs. A worker is what serves a client:
the process itself (1, 4), a child with its own descriptors (2), a thread that reads
`ClientSock` when it comes to it (3). A descriptor is a number that the next
`accept()` may have again. The client's answer is written to its own socket once more,
as in its code, so that a server may read it.

## 4. The runs

| Run | Bounds | Shows |
|---|---|---|
| `transfer` | window 2, segments of 2 bytes, sends of 3 and 4 bytes to a total of 7, one connect, one accept, two replies in flight | data integrity, timers, agreement, refinement |
| `reconnect` | two connects and accepts, window 1, segments of 1 byte, two bytes, port = node id | the same after a disconnect, both one that succeeds and one that fails |
| `live` | window 2, segments of 1 byte, two bytes, two FINs | liveness |
| `link` | one writer, a reader that does not assert, three frames of nine bodies of up to four bytes, clean and not: with `!#` at each place, with `!&` alone and after it, with `!` at the end; six bytes on the way | the damage of a frame stays with it, and every clean frame arrives |
| `line` | three nodes in a line, two slots, one daemon, one sender | routes, packets and deliveries |
| `pair` | two nodes, one daemon, one sender of one segment, on the other node an MRT process that may answer three, one segment on its connection in each direction | liveness of the threads, and that the first segment arrives |
| `overlay` | three nodes; a star and a file with a link twice; on one node two MNP processes of lab4, one after the other, which send two packets, on another one of lab3, which reads; one process of either stopped; connections of one packet. The queries: every file of three lines | start, links, packets, and the ends of processes |
| `lab2` | sends of a part of a segment and of a whole one, window 3, two SYNs more, four rounds, buffer 3 of width 8, another client with three segments | stream, buffer, locks and states |
| `echo` | three clients, one of them possibly silent, two descriptors, one failing call, each of the four servers | echoes, descriptors |
| `shared_abort`, `entry_updated`, `routes_found` | small | a comment or an assertion of the code that the code contradicts |

Bounds: `MaxConnects` and `MaxAccepts` end the sequence of connections,
`MaxStream` the bytes, `ChannelCap` has a retransmission wait for room, and
`ReplyCap` counts an answer that finds no room as lost, which `seglost()` may do to
any. With a window of two and sends of three and four bytes the window is full and
reopens, an acknowledgement can cover one or two segments, a segment arrives after
its successor was lost, a remainder is left over, and one window empties while the
timer of the last still runs. A receive buffer of 6 refuses the segment that would
fill it until a `recv` of 3 has made room. `CHECK_DEADLOCK FALSE`: a client that
has closed, or has failed to connect, and a server in `accept` rest for ever.

`MaxFrames`, `MaxLines` and `MaxCalls` end the frames, lines and calls; in three frames
one that ends early has another before and after it. With two slots ids collide.
`Updaters` and `Senders` are the nodes whose daemon wakes and whose MRT process sends:
one of each, at different nodes, so that route updates, repeated segments and a
handler meet on a link of one packet (`LinkCap`). With `MaxSegments` of one the loop
still sends it without end. `Answering` are the nodes whose seghandler may answer: with
`MRTCap` of one and three answers, the first is taken by `waitTransport()`, the second
stays on the connection and the third waits, so that `Jammed` is reached. The three
nodes of `line` are the smallest topology with nodes that are no neighbours. `CHECK_DEADLOCK FALSE` stands where the calls, lines or
frames are bounded; MNP is checked for deadlock.

`overlay`: the node in the middle of the star connects to one neighbour and waits for
another or connects to both, so that every order of listen, connect and accept occurs,
refusals in the first and in the second place among them. `MaxConnects` of 4 on node 1
lets an MNP process of lab4 end and the next one take its place; a `Cap` of one makes senders
wait for readers on all parts of the way. With nodes 1 and 3 in `Stopping`, either may go, its
MNP process or its overlay process, and the other end of a link sees it. `lab2`: with a window of 3 and four rounds the window closes;
with sends of one unit and a buffer of 3 a segment is refused; an uninitialised length
may be more than the room. A width of 8 is the smallest power of two in which the
count can wrap below zero and still be told from a full buffer. `echo`: two
descriptors and three clients, so that the first server runs out of them and a number
is used again while a thread still has it.
`CHECK_DEADLOCK FALSE`: a client done, a server of lab2 that waits for a mutex nobody
gives back, and an overlay process whose neighbour never came rest for ever.

**Safety of MRT.**
`StreamIntegrity`: the bytes saved are a prefix of the bytes appended.
`DeliveryIntegrity`: so are those returned by `recv` followed by those in the
buffer (first accept). `WindowConsistent`: `unAck_segNum` counts the segments
before `sendBufunSent`, within the window and the buffer.
`WindowTracksReceiver`: the client frees only what the server saved, and the
server has only what was sent. `TimerWatchesWindow`: an open window has a timer
thread. `ConnectionAgreed`: a client that thinks it is connected has been heard.
`ExpectNeverRewinds`: within a connection `expect_seqNum` does not decrease.
`ImplementsStream`: refinement of `ReliableStream` with `written <- wrote`,
`received <- saved`, so that a step of the transport never takes back or
reorders what it delivered.

Most of these say *first connection* where a second one starts the seq_nums over
while the history goes on; `StreamIntegrity` says it as `Positional`, and so holds
across a reconnect of a TCB whose disconnect failed.

**Safety of the network layer.** `FramesIntact`, with one writer: a frame whose body
does not hold `!#` is returned once, in order and with its body; of any other, a part
may be returned, and what follows a `!&` in the rest of it as a frame of its own, but
each of these is shorter than the body, and no other frame is skipped or changed for
it. `WholeFrames`: no assertion fails and no reader collects more than the structure.
`AnswerWasStored`, which is proved and which no run checks: a lookup answers just for
the destinations something was stored for, with one of the next hops stored.
`PacketsOnCourse`: a segment is only on
the link from its source to its destination. `DeliveredWasSent`: what an MRT process
is given was sent to its node by the node it is said to be from. `RoutesStand`: no
route update changes a routing table. The last is the surprising one: it is what
`dvtable_getcost()` makes of the distance vector algorithm.

**Overlay.** `NbrsAgree`: two nodes find each other in the file, and the table, the
number and the costs agree with it. `SameConnection`: an entry holds
a connection to the node it names only, and of two neighbours that are up both hold the same
one, although each filled its own table from two threads. `SentToNextHop`: a packet is
only on a connection of its sender, to its next hop or to all. `PacketsInOrder`: what
one node sends another arrives in order and once, as long as their connection stands.
`RefusedOnlyEarly`: `waitNbrs()` stops listening after the last neighbour it waits for.
Liveness, if each node is started and its threads run (weak fairness of each):
`LinksComeUp`, unless a connection was refused or a process ended; `NetworkServed`, an
MNP process that connected is served after any other, unless it or its overlay process
ends; `LostOverlayEnds`, the MNP process of lab3 ends after its overlay process;
`PacketsArrive`, unless a listener is without connection and floods the MNP process, or
one of the processes ends. Among the threads is the handler of the MNP process: that
of lab3, which is the one that reads in the run, does nothing else, so that its fairness
is that of any thread; that of lab4 waits for mutexes and for the MRT process, so that
for lab4 `PacketsArrive` would say what the overlay does for a handler that comes back,
which `HandlerReturns` is about.

**lab2.** `StreamInOrder`: up to the first `recv` the buffer holds the beginning of what
the client numbered.
`ReceivedFits`: nothing is written behind the buffer. `NoSelfLock`: no
acknowledgement of this server makes the client's seghandler take the mutex it holds.
`ConnectedWasAnswered`: a client in CONNECTED has been answered. `CloseWaitEnds`,
`AcceptSeesConnection`, under weak fairness of the server's application, seghandler
and timer thread: CLOSEWAIT ends, unless a `recv` has kept the mutex; the `accept` that
polls sees the connection of this client.

**lab1.** `OwnEcho`: an answer is the client's own, but with overlapping threads in
version 3. `NoLeak`: versions 2 and 4 have no client's descriptor when they accept.
`EchoComes`, under weak fairness of the server, of each worker and of a
connected client: everyone else is answered; `Hindered` names the ways in which not.

**Liveness of MNP and Framing** (`FairSpec` of each). `HandlerReturns`: the handler
comes back to its connection again and again, so that the two mutexes, taken in order
and given back in the same order, block nobody; unless the node is `Jammed`. That is a
state the code can be in for good: `waitTransport()` has its one segment and reads no
more, the seghandler of the MRT process waits to send an answer and does not read, and
the handler waits for it to read. `FirstSegmentArrives`: the first segment for a
neighbour is given to the MRT process there, if there is one (again and again none is
missing, which is the same, as neither what was sent nor what was read is forgotten). `FramesArrive`: a clean
frame that was sent is returned. The
fairness: the kernel runs each thread (weak fairness); it gives a mutex, and room on a
connection, to a thread that waits while others take them in turn, and passes on what
it has from each neighbour (strong fairness). `sleep()` ends. Nothing makes an MRT
process connect or send, nor a writer begin a frame; but a seghandler reads, and
answers when there is room.

**Liveness of MRT** (`FairSpec`). `TransferCompletes`, `TimersEnd`, `DisconnectReturns`. The fairness: threads are scheduled, so steps of a call in
progress, of the handlers and of `closewait` are weakly fair, and a timer's wait
ends; a timer gets the mutex, and room, again and again (strong fairness of
`TimerTimeout`). `seglost()` is random and independent, so a data segment or an
acknowledgement that is sent for ever is received for ever (strong fairness of the
receipt of each). Nothing makes an application call, and a SYN or FIN, sent a
bounded number of times, may be lost every time: no property promises that a
connect succeeds. Each leads-to has a way out, `Interrupted`: the connection
ends or a process has died.

**What the code's comments say and the code does not do** is checked by the
violation runs; each finding in `PROJECT.json` quotes the line.

| Run | Comment | Code |
|---|---|---|
| `shared_abort` | `pkt.c:158`: asserts that a frame has its length | threads that share the connection mix their frames |
| `entry_updated` | `routing_table.c:129-130`: updates the entry there is | `set_insert()` appends, a lookup finds the first |
| `routes_found` | `network.h:39-40`: updates both tables | 301 is never true, so no route is ever found |

Other disagreements are in the models, as what the code does, and have no run:

| Comment | Code |
|---|---|
| `mrt_client.c:173-177`: a connect that fails goes to CLOSED | the `break` at 273 leaves SYNSENT (`ConnectTimeout`) |
| `overlay.h:47-48`: the listeners start when all connections are made | the result of `connectNbrs()` is not looked at (`ConnectRefused`) |
| `lab2/server/mrt_server.c:200`: the TCB is found by the segment's port | 242, by the port of the segment before (`Fetch`) |
| `mrt_client.c:412-414`: FINACK received means CLOSED | 640 compares the port with the node id (`FinAckAccepted`) |
| `mrt_client.c:299`: sends data | 358-360 drop the remainder (`SendReturn`) |
| `mrt_server.c:145-146`: CONNECTED when a SYN is received | 427, on any segment (`Listening`) |
| `mrt_server.c:298-299`: the entry is NULL | 355 sets a local variable (`mrt_server_close`, the state `FREED`) |
| `constants.h:52`: size of the receive buffer | `mrt_server.c:116` allocates four bytes |
| `seg.c:171`: asserts the length of a frame | a body may hold the delimiter (`Complete`) |
| `network.h:56-58`: keeps receiving segments | `network.c:624` repeats the first (`FindNextHop`, `Forwards`) |
| `topology.h:67-69`: all the nodes' IDs | `topology.c:180-257`, the neighbours and the node (`topology_getNodeArray`) |
| `dvtable.c:131-133`: the cost, if the nodes are in the table | 144 stops before the last row (`dvtable_getcost`) |

And in the programs of lab1 to lab3, where no comment says otherwise, what a reader
would not expect, each an outcome of the models:

- lab2's `mrt_client_connect()` returns 1 without a connection; a SYNACK that is faster
  than the assignment of SYNSENT is dropped, and `mrt_client_send()` then waits for ever.
- lab2's `mrt_client_send()` never returns: it numbers and sends the same data again.
- lab2's `mrt_server_recv()` returns with the mutex, so that the second call and
  `timer_handler()` wait for ever; if it was asked for more than there was, `usedBufLen`
  wraps; a segment saved meanwhile may be forgotten.
- lab1's first server ends when its descriptors are used up, the second asks
  `waitpid()` for ever after a failed `fork()`, the third gives two threads one client,
  and the first and the fourth wait for a client that says nothing.
- A refused connection makes an overlay process leave out its later neighbours, which
  then wait in `accept()`; a link named twice makes its listener flood the MNP process.

## 5. The proofs

All theorems are about the `Spec` of their component, for every value of the
constants that satisfies its named assumptions, without the bounds of TLC: for MRT any
window, segment length, number of connects, bytes, timers and segments in flight; for
MNP any number of nodes, any topology and any content of unwritten memory; for the
overlay any nodes and any files, any order of starts and ends, and any number of MNP
processes and packets.

| Theorem | Property |
|---|---|
| `StreamCorrect` | `[]StreamIntegrity` |
| `WindowCorrect` | `[]WindowConsistent` |
| `TypeCorrect` | `[]TypeOK` |
| `TimerCorrect` | `[]TimerWatchesWindow` |
| `AgreementCorrect` | `[]ConnectionAgreed` |
| `DeliveryCorrect` | `[]DeliveryIntegrity` |
| `WindowTracked` | `[]WindowTracksReceiver` |
| `ExpectCorrect` | `ExpectNeverRewinds` |
| `Refinement` | `ImplementsStream`, of a client that connects once |
| `Inductive`, `Tracking` | `[]InductiveInvariant`, `[]TrackingInv`, which the others follow from |
| `OneWriterIntact` | `[]FramesIntact`, of one writer |
| `OneWriterWhole` | `[]WholeFrames`, of one writer, if no body holds `!#` or the reader does not assert |
| `AnswersWereStored` | `[]AnswerWasStored`, which no run checks |
| `AnswersStand` | `HopsStand`, likewise |
| `TableTypes` | `[]TypeOK` of the table, likewise |
| `OnlyOneHop` | `[]PacketsOnCourse` |
| `OnlySent` | `[]DeliveredWasSent` |
| `RoutesNeverChange` | `RoutesStand` |
| `NetworkTypes` | `[]TypeOK` of `MNP`, which no run checks |
| `BufferIsPrefix` | `[]StreamInOrder` |
| `BufferHolds` | `[]ReceivedFits` |
| `NeverLocksItself` | `[]NoSelfLock` |
| `NoLoneConnection` | `[]ConnectedWasAnswered` |
| `AnswersAreOwn` | `[]OwnEcho` |
| `DescriptorsComeBack` | `[]NoLeak` |
| `PairTypes` | `[]TypeOK` of `Lab2MRT`, which no run checks |
| `RefusedOnlyEarlyCorrect` | `RefusedOnlyEarly` |
| `SameConnectionCorrect` | `[]SameConnection` |
| `NbrsAgreeCorrect` | `[]NbrsAgree`, of files without a cost of `INFINITE_COST` |
| `TypeCorrect` of `Overlay_proofs` | `[]TypeOK` of `Overlay` |
| `SentToNextHopCorrect` | `[]SentToNextHop` |
| `PacketsInOrderCorrect` | `[]PacketsInOrder` |
| `StartCorrect`, `TrafficCorrect`, `OrderCorrect` | `[]StartInv`, `[]TrafficInv`, `[]OrderInv`, which the others of `Overlay` follow from |

The theorems of `MRT_proofs` assume `SvrPort # SvrNodeID`. It is the ordinary case: a
port that is not the number of its
node. No FINACK is then accepted, a disconnect never resets `next_seqNum`, and a
seq_num is a position in `wrote` for the whole life of the TCB. The other case is
the run `reconnect`.

**The inductive invariant** (`InductiveInvariant` in `MRT`). `StreamIntegrity` alone
is not inductive: that a segment in order extends the prefix needs what the
segment carries. So:

- `ClientInv`: every buffered segment carries `MAX_SEG_LEN` bytes of `wrote` at its
  seq_num, and segments do not overlap.
- `NetworkInv`: a DATA segment in flight carries the bytes of `wrote` at its seq_num
  and ends by `SentEnd`, where the sent part of the stream ends; an
  acknowledgement is at most `SentEnd`; a SYN has seq_num 0.
- `ServerInv`: `saved` is a prefix of `wrote` of length at most `SentEnd`, and
  `expect_seqNum` is that length, unless no SYN was answered yet (`Fresh`): then
  `expect_seqNum` is what `malloc()` left, but nothing was appended either.
- `WindowConsistent` and `TypeOK`.

That an acknowledgement is at most `SentEnd` is why popping stops before
`sendBufunSent` (`AckPopsWindow`), hence why the unsigned `unAck_segNum` does not
wrap; that a segment in flight ends by `SentEnd` bounds what the server can
acknowledge. Most actions leave the stream and the buffer alone and do one of a few
things to the network: `QuietKeeps` treats them at once. The others have a lemma
each: `AppendKeeps`, `SendingKeeps`, `ResendKeeps`, `PopKeeps`, `SynKeeps`,
`OtherKeeps`, `DataKeeps`.

`TimerWatchesWindow` is inductive by itself given the window. `ConnectionAgreed`
needs that a SYNACK in flight, and a client about to enter FINWAIT, imply what it
says of the server (`AgreementInv`).

**What the two ends know of each other** (`TrackingInv` in `MRT`, on top of
`InductiveInvariant`) is what the other four theorems of MRT need.

- `HeardInv`: a server that has heard a SYN expects the byte after what it saved.
- `SynsFirst`: in a first connection (`Opening`) the SYNs in a direction are ahead of
  all DATA, and none is sent once there is data. So no SYN resets `expect_seqNum`
  after a byte was saved, which is `ExpectNeverRewinds`.
- `EndToEnd`: the segments of the send buffer lie end to end, and a DATA segment in
  flight is one of them or lies apart from them all.
- `AckInv`: where the saved bytes end and where each acknowledgement points is
  between two segments of the buffer (`Between`), never within one. An acknowledgement
  then frees whole segments only, and none beyond what was saved: `WindowTracksReceiver`.
- `RecvBufInv`: what was delivered followed by `recvBuf` is what was saved, until
  `closewait()` empties the buffer in the middle of a stream; from then on what was
  delivered is a prefix of it. `DeliveryIntegrity` follows.

`Refinement` is a step simulation: a step of `Spec` appends to `wrote`, extends
`saved` within `wrote`, or changes neither. A server that hears a second connection
starts `saved` over at the seq_nums of the new one, which `ReliableStream` does not
know; so the theorem assumes `MaxConnects <= 1`, as does the run `transfer`.

**Framing.** The invariant says where the reader is in the frame that comes next. The
bytes on the connection, and the one the writer sends next, follow one another as in a
frame (`Chain`). The place of the first of them in its frame says which state the
reader is in and what it has collected (`Standing`): up to a `!#` in the body exactly
the bytes before that place, after it only that they are fewer than were read, so that
whatever is returned from there is short. Before the last byte of a frame with a `!#`
the reader is in `PKTSTART1`, `PKTSTART2` or `PKTSTOP1`, and the `#` takes each to
`PKTSTART1`: this is why the next frame is found. `Before` says which frames have been
returned. With two writers there is no such order, and `shared_abort` shows the
assertion fail.

**Routing table.** `FirstOf` picks the least index; that there is one is by induction
on finite sets (`FirstExists`). `InsertAnswer` says what an insertion does to every
answer: it gives one to its own destination if there was none, and no other changes,
whatever shares the slot. `AnswerWasStored` follows, and so does `AnswersStand`, that no
answer ever changes: the entry is not updated, as run `entry_updated` shows.

**MNP.** `PacketsOnCourse` needs that every entry of a routing table has its
destination for its next hop (`Direct`), which an update would break, so that the
heart is `UpdateEntryTables`: no row that `dvtable_getcost()` reads is the node's own
(`Tables`), so the node's own cost is `INFINITE_COST` (`OwnCost`), and so is every cost
in a route update on its way (`Advertised`); the comparison of the two never
succeeds. `Hands` says what a thread has in its locals between two steps,
`LinksSent` that a segment on a link was sent, and `InboxSent` that one on the
connection to an MRT process was sent to its node. `Types` and `Flags` give `TypeOK`.

**lab2.** The theorems of `Lab2_proofs` are for every window, number of SYNs and of
rounds, buffer and segment length, under `PairConstants`: `MAX_SEG_LEN` and the buffer
together do not pass `Width`, as 1464 and 1000000 do not pass 2^32. They need it where
a length is added to `usedBufLen` and compared (`Saving`): the sum of a length that the
client set does not wrap there. The invariant (`Inv`) has these parts:

- `Acks`: no DATAACK of the server has a seq_num, from which `NoSelfLock` follows.
- `Fitting`: what the seghandler is about to count fits, and a `recv` that subtracts
  has kept the mutex; from which `ReceivedFits` follows.
- `Answered`: this client sends no FIN, so that a server that has left LISTENING does
  not come back; while it has not left, there is no SYNACK and no client in CONNECTED.
- `Numbers`: a DATA segment holds what the client numbered, and ends where the client
  has got to.
- `Stream`: `StreamInOrder`, and where the buffer is between the step that copies a
  segment (`DataReceived`) and the one that counts it (`Save`).

Each holds after every step of the client (`ClientKeepsInv`) and of the server
(`ServerKeepsInv`), of which the latter has a lemma for each part.

**lab1.** The theorems of `EchoServers_proofs` are for every number of clients, of
descriptors and of calls that fail. `OwnEcho` needs that only a client's own message
is on its connection (`Own`), which needs that what a worker has read belongs to the
connection that its descriptor still stands for when it writes (`Serves`). For a child
that is so by its own table of descriptors; for the other three versions it is so
because the worker that has not ended is the last one, and there is none while
`main()` accepts (`Alone`), which for threads is what `overlap` is about. `Held`, for
`NoLeak`, follows the one descriptor from `accept` to its `close`.

**Overlay.** The theorems of `Overlay_proofs` are for all sets of nodes and all files,
those that name a link several times included. `NbrsAgreeCorrect` assumes
`CostsFinite`: `topology_getCost()` answers `INFINITE_COST` for "no link", so that a
line of that cost is a link to one query and none to another.

`nt_create()` and the queries select from the lines of the file. `Kept` does so with a
recursive function, and what it returns is proved by the least counterexample: the
function exists (`KeptRuns`), and its result holds the selected lines, each once and in
their order (`KeptFacts`).

- `StartInv`. `Life` says which states of the two threads go together. `TableConns`
  says what an entry can hold. `Asked` says which connections stand in a backlog.
  `Expected` counts: the connections that may still come to a node are no more than
  its `counter`, so that `waitNbrs()` stops with none left to come, which is
  `RefusedOnlyEarly`. The count is of connections, not of neighbours, as a file may
  name one twice. `LastConns` is for `SameConnection`: each connection of a doubled
  link overwrites the one before in the first entry, at both ends and at different
  times. What both tables end with is the last one that was asked for, because the
  backlog keeps their order.
- `TrafficInv`. `NodeTypes` types the variables of a node; `Serves` says which threads
  there are in which state of it, `ClosedIs` which ends are closed; `OnWire` and
  `Queued` say who sent what is on a connection, and to whom. `TypeOK` and
  `SentToNextHop` follow. The actions share a few effects, each described by
  what it does to the place it changes (`Opens`, `Departs`, `Takes`, `Repeats`, `Drops`,
  `HandsOver`, `Attaches`, `Fetches`, `Detaches`, `Puts`, `Connects`, `Writes`,
  `Reads`, `Quits`), and `TrafficKinds` shows that every step is one of these.
- `OrderInv`. On its way from one MNP process to another a packet is at six places in
  turn: on the connection from the sender's MNP process, with the `waitNetwork()`
  that sends it on, on the connection between the nodes, with the listener, on the
  connection to the other MNP process, and received. The numbers at a place rise, and
  are lower the further on the place is (`DownRises`, `WiresRise`, `Line`). Each step moves one number from a
  place to the next, or removes some (`Flows`), which keeps this (`LineStep`). What
  could break it is a `recvpkt()` that fails and leaves the last packet to be
  forwarded again; it fails only when the process at the other end has ended, which
  is why `PacketsInOrder` says "while the connection stands".

**Proved and model-checked.** Every invariant and every action property of the passing
runs is the subject of a theorem. What the hypotheses of those theorems leave to TLC:
the properties of MRT where the port is the node id (`StreamIntegrity` and
`WindowConsistent` in run `reconnect`). `WholeFrames` is proved for one writer; for two
it is false, as `shared_abort` shows. TLC alone checks liveness and the fairness it
rests on: `TransferCompletes`, `TimersEnd`, `DisconnectReturns`, `FramesArrive`,
`HandlerReturns`, `FirstSegmentArrives`, `LinksComeUp`, `NetworkServed`,
`LostOverlayEnds`, `PacketsArrive`, `CloseWaitEnds`, `AcceptSeesConnection` and
`EchoComes`. They need `ENABLED`, which is out of the prover's reach.

## 6. Not modelled

The parts of the plan not built yet (section 2). The wrap of 32-bit sequence
numbers: the runs and the proofs count without wrap, for streams below 2^32 bytes.
Several sockets of one process. Failure of the local connection of MRT to the MNP
process, on which `seghandler` exits; the disconnect of an MRT process from MNP, after
which a `send()` raises SIGPIPE; what threads do while `network_stop()` frees their
tables on its way to `exit()`; `seglost()` between MNP and MRT in the model `MNP`. The
handler of lab4 closes `overlay_connection` without setting it to -1
(`network.c:357`), so that an `accept()` of `waitTransport()` may be given the number
and the daemon then sends its packets to the MRT process. An overlay process that is started a second time: its
neighbours do not accept it, as `waitNbrs()` has ended. `send_acknowledge_timer()` of
lab2 is never called. Host names and addresses, whose lookup is the library's: a node
is its id. `lab3/topology` is an earlier version of the queries of lab4. The
applications of lab4 and the manual table tester hold no state of the system.
