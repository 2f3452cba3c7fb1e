----------------------------- MODULE Lab2Server -----------------------------
(***************************************************************************)
(* The MRT server of lab2/server/mrt_server.c with the application's calls: *)
(* sock, accept, then recv or close, and overlay_stop.  usedBufLen is       *)
(* unsigned, and the application's thread and the seghandler change it      *)
(* without a common lock: each reads it in one step and writes in another.  *)
(***************************************************************************)
EXTENDS Lab2Segments

CONSTANTS
    RECEIVE_BUF_SIZE, Width,   \* units; usedBufLen is taken modulo Width
    RecvLengths                \* bound: what an application asks for, units

ASSUME ServerConstants ==
    /\ {RECEIVE_BUF_SIZE, Width} \subseteq Nat \ {0} /\ RECEIVE_BUF_SIZE < Width
    /\ RecvLengths \subseteq 1..RECEIVE_BUF_SIZE

VARIABLES
    smain,          \* what the application's thread does
    asked,          \* mrt_server_recv(): length
    loaded,         \* usedBufLen as each thread has read it
    sstate,         \* the TCB's state, "NONE" before there is one
    client_portNum, expect_seqNum,
    recvBuf, usedBufLen,
    bufMutex,       \* "free", or kept by mrt_server_recv()
    shandler,       \* what the seghandler does
    fetched,        \* seghandler(): server_TCB is the TCB, or NULL
    segment,        \* seghandler(): segment
    closing         \* timer_handler() runs

svars == <<smain, asked, loaded, sstate, client_portNum, expect_seqNum, recvBuf, usedBufLen,
           bufMutex, shandler, fetched, segment, closing>>
appVars == <<smain, asked, bufMutex>>
peer == <<client_portNum, expect_seqNum>>
threadVars == <<shandler, fetched, segment>>

Unset == -2
Offsets == 0..RECEIVE_BUF_SIZE - 1

\* mrt_server_init() has started the seghandler; segment is not set.
mrt_server_init ==
    /\ smain = "sock" /\ asked = 0 /\ loaded = [main |-> 0, seghandler |-> 0]
    /\ sstate = "NONE" /\ client_portNum = "none" /\ expect_seqNum = 0
    /\ recvBuf = [k \in Offsets |-> Unset] /\ usedBufLen = 0 /\ bufMutex = "free"
    /\ shandler = "fetch" /\ fetched = FALSE /\ closing = FALSE
    /\ segment \in {Seg("SYN", "none", port, 0, 0) : port \in {"none", "server"}}

Up == "server" \in alive
App(from, to) == Up /\ smain = from /\ smain' = to

mrt_server_sock ==
    /\ App("sock", "accept")
    /\ sstate' = "CLOSED" /\ usedBufLen' = 0
    /\ UNCHANGED <<network, asked, loaded, peer, recvBuf, bufMutex, threadVars, closing>>

mrt_server_accept ==
    /\ App("accept", "accepting")
    /\ sstate = "CLOSED" /\ sstate' = "LISTENING"
    /\ UNCHANGED <<network, asked, loaded, peer, recvBuf, usedBufLen, bufMutex,
                   threadVars, closing>>

\* Mutant: the state is looked at once, when accept is called.
AcceptReturns_Once ==
    /\ sstate = "CLOSED" /\ App("accepting", "accepted")
    /\ UNCHANGED <<network, asked, loaded, sstate, peer, recvBuf, usedBufLen,
                   bufMutex, threadVars, closing>>

\* The loop sees the connection only while it is in this state.
AcceptReturns ==
    /\ sstate = "CONNECTED" /\ App("accepting", "accepted")
    /\ UNCHANGED <<network, asked, loaded, sstate, peer, recvBuf, usedBufLen,
                   bufMutex, threadVars, closing>>

\* recv sleeps once when there is less than it is asked for, and then goes on.
mrt_server_recv ==
    /\ App("accepted", "receiving")
    /\ asked' \in RecvLengths
    /\ UNCHANGED <<network, loaded, sstate, peer, recvBuf, usedBufLen, bufMutex,
                   threadVars, closing>>

\* The bytes are copied.  The index of the shift is not set: what it leaves in
\* the buffer is unknown, or it ends the process.
CopyOut ==
    /\ bufMutex = "free" /\ App("receiving", "counting")
    /\ bufMutex' = "recv"
    /\ loaded' = [loaded EXCEPT !.main = usedBufLen]
    /\ IF usedBufLen = 0 THEN UNCHANGED <<alive, recvBuf>>
       ELSE /\ recvBuf' = [k \in Offsets |-> Unset]
            /\ alive' = alive \/ Dies("server")
    /\ UNCHANGED <<c2s, s2c, asked, sstate, peer, usedBufLen, threadVars, closing>>

\* It returns before it unlocks the mutex.
RecvReturns ==
    /\ App("counting", "accepted")
    /\ usedBufLen' = (loaded.main - asked) % Width
    /\ UNCHANGED <<network, asked, loaded, sstate, peer, recvBuf, bufMutex,
                   threadVars, closing>>

\* The table still points to the TCB that is freed.
mrt_server_close ==
    /\ App("accepted", "stop")
    /\ sstate' = "FREED"
    /\ UNCHANGED <<network, asked, loaded, peer, recvBuf, usedBufLen, bufMutex,
                   threadVars, closing>>

server_overlay_stop ==
    /\ App("stop", "end")
    /\ Dies("server")
    /\ UNCHANGED <<c2s, s2c, asked, loaded, sstate, peer, recvBuf, usedBufLen, bufMutex,
                   threadVars, closing>>

ServerMain ==
    \/ mrt_server_sock \/ mrt_server_accept \/ AcceptReturns
    \/ mrt_server_recv \/ CopyOut \/ RecvReturns
    \/ mrt_server_close \/ server_overlay_stop

\* The TCB for the segment handled last; one that is freed may be found or not.
Fetch ==
    /\ Up /\ shandler = "fetch"
    /\ shandler' = "receive"
    /\ fetched' \in IF segment.dest # "server" \/ sstate = "NONE" THEN {FALSE}
                    ELSE IF sstate = "FREED" THEN BOOLEAN ELSE {TRUE}
    /\ UNCHANGED <<network, appVars, loaded, sstate, peer, recvBuf, usedBufLen,
                   segment, closing>>

Found == shandler' = IF fetched THEN "handle" ELSE "fetch"

\* At the end of the segments the last one is handled again.
Receive ==
    /\ Up /\ shandler = "receive"
    /\ IF EndOfSegments("server") THEN Found /\ UNCHANGED <<network, segment>>
       ELSE /\ mnp_recvseg("server") /\ UNCHANGED alive
            /\ \/ UNCHANGED <<shandler, segment>>
               \/ Found /\ segment' = Head(c2s)
    /\ UNCHANGED <<appVars, loaded, sstate, peer, recvBuf, usedBufLen, fetched, closing>>

\* A SYN of a client that is new.
SynReceived ==
    /\ mnp_sendseg("server", <<Answer("SYNACK", segment.src, 0)>>)
    /\ sstate' = "CONNECTED" /\ client_portNum' = segment.src /\ expect_seqNum' = segment.seq
    /\ shandler' = "fetch"
    /\ UNCHANGED <<loaded, recvBuf, usedBufLen, segment, closing>>

\* A SYN of the client that is connected: the ports are put into the segment
\* that was received instead of the answer.
SynAgain ==
    /\ mnp_sendseg("server", <<Seg("SYNACK", "none", "none", expect_seqNum, 0)>>)
    /\ segment' = [segment EXCEPT !.src = "server", !.dest = client_portNum]
    /\ shandler' = "fetch"
    /\ UNCHANGED <<loaded, sstate, peer, recvBuf, usedBufLen, closing>>

\* Mutant: what usedBufLen says is enough, whatever the segment holds.
Fits_NoLength(length) == usedBufLen < RECEIVE_BUF_SIZE

Fits(length) == (length + usedBufLen) % Width < RECEIVE_BUF_SIZE

\* Mutant: the sequence number is not compared.
InOrder_Any == TRUE

InOrder == segment.seq = expect_seqNum

Saved ==
    [k \in Offsets |->
        IF k \notin usedBufLen..(usedBufLen + segment.length - 1) THEN recvBuf[k]
        ELSE IF segment.data = Junk THEN Junk ELSE segment.data + (k - usedBufLen)]

\* Data that is in order is saved if there is room, and not acknowledged.  The
\* TCB's fields are set in the next step.
DataReceived ==
    IF ~InOrder
    THEN /\ mnp_sendseg("server", <<Answer("DATAACK", client_portNum, expect_seqNum)>>)
         /\ shandler' = "fetch"
         /\ UNCHANGED <<loaded, sstate, peer, recvBuf, usedBufLen, segment, closing>>
    ELSE /\ IF Fits(segment.length)
            THEN /\ recvBuf' = Saved
                 /\ loaded' = [loaded EXCEPT !.seghandler = usedBufLen]
                 /\ shandler' = "save"
                 /\ IF usedBufLen >= RECEIVE_BUF_SIZE /\ segment.length > 0
                    THEN Dies("server") ELSE UNCHANGED alive
            ELSE shandler' = "fetch" /\ UNCHANGED <<alive, recvBuf, loaded>>
         /\ UNCHANGED <<c2s, s2c, sstate, peer, usedBufLen, segment, closing>>

\* Mutant: nothing ends the state.
FinReceived_NoTimer ==
    /\ mnp_sendseg("server", <<Answer("FINACK", client_portNum, expect_seqNum)>>)
    /\ sstate' = "CLOSEWAIT"
    /\ shandler' = "fetch"
    /\ UNCHANGED <<loaded, peer, recvBuf, usedBufLen, segment, closing>>

\* close_wait_timeout() starts timer_handler().
FinReceived ==
    /\ mnp_sendseg("server", <<Answer("FINACK", client_portNum, expect_seqNum)>>)
    /\ sstate' = "CLOSEWAIT" /\ closing' = TRUE
    /\ shandler' = "fetch"
    /\ UNCHANGED <<loaded, peer, recvBuf, usedBufLen, segment>>

FinAgain ==
    /\ mnp_sendseg("server", <<Answer("FINACK", client_portNum, expect_seqNum)>>)
    /\ shandler' = "fetch"
    /\ UNCHANGED <<loaded, sstate, peer, recvBuf, usedBufLen, segment, closing>>

Ignored ==
    /\ shandler' = "fetch"
    /\ UNCHANGED <<network, loaded, sstate, peer, recvBuf, usedBufLen, segment, closing>>

server_seghandler ==
    /\ Up /\ shandler = "handle"
    /\ LET its == segment.src = client_portNum
       IN  CASE sstate = "LISTENING" /\ segment.type = "SYN" -> SynReceived
             [] sstate = "CONNECTED" /\ its /\ segment.type = "SYN" -> SynAgain
             [] sstate = "CONNECTED" /\ its /\ segment.type = "DATA" -> DataReceived
             [] sstate = "CONNECTED" /\ its /\ segment.type = "FIN" -> FinReceived
             [] sstate = "CLOSEWAIT" /\ its /\ segment.type = "FIN" -> FinAgain
             [] OTHER -> Ignored
    /\ UNCHANGED <<appVars, fetched>>

Save ==
    /\ Up /\ shandler = "save"
    /\ shandler' = "fetch"
    /\ usedBufLen' = (loaded.seghandler + segment.length) % Width
    /\ expect_seqNum' = segment.seq + segment.length
    /\ IF sstate = "FREED" THEN alive' = alive \/ Dies("server") ELSE UNCHANGED alive
    /\ UNCHANGED <<c2s, s2c, appVars, loaded, sstate, client_portNum, recvBuf, fetched,
                   segment, closing>>

\* After mrt_server_close() it locks NULL.
timer_handler ==
    /\ Up /\ closing
    /\ IF sstate = "FREED" THEN Dies("server") /\ UNCHANGED <<sstate, usedBufLen>>
       ELSE bufMutex = "free" /\ sstate' = "CLOSED" /\ usedBufLen' = 0 /\ UNCHANGED alive
    /\ closing' = FALSE
    /\ UNCHANGED <<c2s, s2c, appVars, loaded, peer, recvBuf, threadVars>>

ServerHandler == Fetch \/ Receive \/ server_seghandler \/ Save
ServerNext == ServerMain \/ ServerHandler \/ timer_handler

ServerTypeOK ==
    /\ smain \in {"sock", "accept", "accepting", "accepted", "receiving", "counting", "stop", "end"}
    /\ sstate \in {"NONE", "CLOSED", "LISTENING", "CONNECTED", "CLOSEWAIT", "FREED"}
    /\ bufMutex \in {"free", "recv"}
    /\ shandler \in {"fetch", "receive", "handle", "save"}
    /\ segment \in Segment /\ asked \in Nat /\ expect_seqNum \in Nat
    /\ usedBufLen \in 0..Width - 1
    /\ loaded \in [main : 0..Width - 1, seghandler : 0..Width - 1]
    /\ fetched \in BOOLEAN /\ closing \in BOOLEAN
    /\ client_portNum \in Ports
    /\ recvBuf \in [Offsets -> Nat \cup {Junk, Unset}]
=============================================================================
