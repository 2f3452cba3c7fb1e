----------------------------- MODULE Lab2Client -----------------------------
(***************************************************************************)
(* The MRT client of lab2/client/mrt_client.c with the application's calls: *)
(* sock, connect, then send or disconnect, close and overlay_stop.          *)
(* mrt_client_send() works with the one buffer node it allocates: head and  *)
(* tail are that node or NULL, and so is sendBufunSent.                     *)
(***************************************************************************)
EXTENDS Lab2Segments

CONSTANTS
    SYN_MAX_RETRY, GBN_WINDOW,
    SendLengths,    \* bound: what an application sends, units
    MaxRounds       \* bound: rounds of the loop of mrt_client_send()

ASSUME ClientConstants ==
    /\ {SYN_MAX_RETRY, GBN_WINDOW, MaxRounds} \subseteq Nat \ {0}
    /\ SendLengths \subseteq Nat \ {0}

VARIABLES
    cmain,          \* what the application's thread does
    tries,          \* mrt_client_connect(): i
    wants,          \* mrt_client_send(): length
    rounds,         \* rounds of the loop so far
    cstate,         \* the TCB's state, "NONE" before there is one
    next_seqNum,
    node,           \* the seq_num and length of the buffer node
    sendBufHead, sendBufunSent,   \* TRUE: the node, FALSE: NULL
    unAck_segNum,
    timing,         \* buffer_timer threads run
    chandler        \* what the seghandler does

cvars == <<cmain, tries, wants, rounds, cstate, next_seqNum, node, sendBufHead,
           sendBufunSent, unAck_segNum, timing, chandler>>
sendVars == <<wants, rounds, next_seqNum, node, sendBufHead, sendBufunSent,
              unAck_segNum, timing>>

\* mrt_client_init() has started the seghandler.
mrt_client_init ==
    /\ cmain = "sock" /\ tries = 0 /\ wants = 0 /\ rounds = 0
    /\ cstate = "NONE" /\ next_seqNum = 0
    /\ node = [seq |-> 0, length |-> 0]
    /\ sendBufHead = FALSE /\ sendBufunSent = FALSE /\ unAck_segNum = 0
    /\ timing = FALSE /\ chandler = "running"

Running == "client" \in alive
Main(from, to) == Running /\ cmain = from /\ cmain' = to

mrt_client_sock ==
    /\ Main("sock", "connect")
    /\ cstate' = "CLOSED"
    /\ UNCHANGED <<network, tries, sendVars, chandler>>

Syn == Seg("SYN", "client", "server", 0, 0)

\* The first SYN is sent before the state is SYNSENT.
mrt_client_connect ==
    /\ Main("connect", "synsent")
    /\ mnp_sendseg("client", <<Syn>>)
    /\ UNCHANGED <<tries, cstate, sendVars, chandler>>

SynSent ==
    /\ Main("synsent", "retry")
    /\ cstate' = "SYNSENT"
    /\ UNCHANGED <<network, tries, sendVars, chandler>>

\* The loop does not wait between two SYNs.
Retry ==
    /\ tries < SYN_MAX_RETRY
    /\ Main("retry", IF cstate = "CONNECTED" THEN "connected" ELSE "retry")
    /\ mnp_sendseg("client", <<Syn>>)
    /\ tries' = tries + 1
    /\ UNCHANGED <<cstate, sendVars, chandler>>

\* Mutant: the caller is told of a connection, and so is the TCB.
ConnectReturns_SetsState ==
    /\ tries = SYN_MAX_RETRY
    /\ Main("retry", "connected")
    /\ cstate' = "CONNECTED"
    /\ UNCHANGED <<network, tries, sendVars, chandler>>

\* 1 is returned whether there is a connection or not.
ConnectReturns ==
    /\ tries = SYN_MAX_RETRY
    /\ Main("retry", "connected")
    /\ UNCHANGED <<network, tries, cstate, sendVars, chandler>>

\* The length of a long segment is what malloc() left in the node.
mrt_client_send ==
    \E length \in SendLengths, junk \in 0..MaxJunk :
        /\ Main("connected", "sending")
        /\ cstate = "CONNECTED"
        /\ wants' = length
        /\ node' = [node EXCEPT !.length = IF length < MAX_SEG_LEN THEN length ELSE junk]
        /\ UNCHANGED <<network, tries, rounds, cstate, next_seqNum, sendBufHead,
                       sendBufunSent, unAck_segNum, timing, chandler>>

Data(seq) ==
    [Seg("DATA", "client", "server", seq, 0) EXCEPT
        !.length = node.length, !.data = IF wants < MAX_SEG_LEN THEN seq ELSE Junk]

Window == IF unAck_segNum < GBN_WINDOW THEN GBN_WINDOW - unAck_segNum ELSE 0

\* The node's successor is NULL, or the node itself when it was appended to
\* itself: it is then sent as often as the window allows.
send_buff(toItself) ==
    /\ chandler # "locked"
    /\ LET times == IF toItself \/ Window = 0 THEN Window ELSE 1
       IN  /\ mnp_sendseg("client", [i \in 1..times |-> Data(next_seqNum)])
           /\ sendBufunSent' = (toItself \/ times = 0)
           /\ timing' = (timing \/ times > 0)

\* The length is not counted down: the loop goes on with the next seq_num.
SendRound ==
    /\ rounds < MaxRounds
    /\ Main("sending", "sending")
    /\ node' = [node EXCEPT !.seq = next_seqNum]
    /\ sendBufHead' = TRUE
    /\ send_buff(sendBufHead /\ ~sendBufunSent)
    /\ next_seqNum' = IF wants < MAX_SEG_LEN THEN next_seqNum + wants ELSE next_seqNum
    /\ unAck_segNum' = unAck_segNum + 1
    /\ rounds' = rounds + 1
    /\ UNCHANGED <<tries, wants, cstate, chandler>>

\* The thread follows a pointer that is not set.
buffer_timer ==
    /\ Running /\ timing
    /\ timing' \in BOOLEAN
    /\ alive' = alive \/ Dies("client")
    /\ UNCHANGED <<c2s, s2c, cmain, tries, wants, rounds, cstate, next_seqNum, node,
                   sendBufHead, sendBufunSent, unAck_segNum, chandler>>

\* No FIN is sent.
mrt_client_disconnect ==
    /\ Main("connected", "finwait")
    /\ cstate' = "FINWAIT"
    /\ UNCHANGED <<network, tries, sendVars, chandler>>

FreeBuffer ==
    /\ Main("finwait", "close")
    /\ cstate' = "CLOSED"
    /\ unAck_segNum' = 0 /\ sendBufHead' = FALSE /\ sendBufunSent' = FALSE
    /\ UNCHANGED <<network, tries, wants, rounds, next_seqNum, node, timing, chandler>>

\* The table still points to the TCB, whose state stays CLOSED; the application
\* ends the process when the call fails.
mrt_client_close ==
    /\ Main("close", "stop")
    /\ IF cstate = "CLOSED" THEN alive' = alive ELSE Dies("client")
    /\ UNCHANGED <<c2s, s2c, tries, cstate, sendVars, chandler>>

overlay_stop ==
    /\ Main("stop", "end")
    /\ Dies("client")
    /\ UNCHANGED <<c2s, s2c, tries, cstate, sendVars, chandler>>

ClientMain ==
    \/ mrt_client_sock \/ mrt_client_connect \/ SynSent \/ Retry \/ ConnectReturns
    \/ mrt_client_send \/ SendRound
    \/ mrt_client_disconnect \/ FreeBuffer \/ mrt_client_close \/ overlay_stop

\* A DATAACK in CONNECTED.  What it acknowledges is taken from the buffer, and
\* send_buff() then waits for the mutex that the seghandler holds.
AckReceived(seg) ==
    IF ~sendBufHead THEN Dies("client") /\ UNCHANGED <<sendBufHead, unAck_segNum, chandler>>
    ELSE /\ alive' = alive
         /\ IF seg.seq > node.seq
            THEN sendBufHead' = FALSE /\ unAck_segNum' = unAck_segNum - 1 /\ chandler' = "locked"
            ELSE UNCHANGED <<sendBufHead, unAck_segNum, chandler>>

Receives(seg) ==
    LET its == cstate # "NONE" /\ seg.dest = "client" /\ seg.src = "server"
    IN  CASE its /\ cstate = "SYNSENT" /\ seg.type = "SYNACK" ->
                chandler' = "accepting" /\ UNCHANGED <<alive, cstate, sendBufHead, unAck_segNum>>
          [] its /\ cstate = "CONNECTED" /\ seg.type = "DATAACK" ->
                AckReceived(seg) /\ UNCHANGED cstate
          [] its /\ cstate = "FINWAIT" /\ seg.type = "FINACK" ->
                cstate' = "CLOSED" /\ UNCHANGED <<alive, chandler, sendBufHead, unAck_segNum>>
          [] OTHER -> UNCHANGED <<alive, cstate, chandler, sendBufHead, unAck_segNum>>

client_seghandler ==
    /\ Running /\ chandler = "running"
    /\ \E lost \in BOOLEAN :
        /\ mnp_recvseg("client")
        /\ IF lost THEN UNCHANGED <<alive, cstate, sendBufHead, unAck_segNum, chandler>>
                   ELSE Receives(Head(s2c))
    /\ UNCHANGED <<cmain, tries, wants, rounds, next_seqNum, node, sendBufunSent, timing>>

\* The state was read before, and may have changed since.
Accepting ==
    /\ Running /\ chandler = "accepting"
    /\ chandler' = "running" /\ cstate' = "CONNECTED"
    /\ UNCHANGED <<network, cmain, tries, sendVars>>

SeghandlerEnds ==
    /\ Running /\ chandler = "running" /\ EndOfSegments("client")
    /\ chandler' = "ended"
    /\ UNCHANGED <<network, cmain, tries, cstate, sendVars>>

ClientHandler == client_seghandler \/ Accepting \/ SeghandlerEnds
ClientNext == ClientMain \/ ClientHandler \/ buffer_timer

\* "other" is the thread of another client (Lab2MRT).
ClientTypeOK ==
    /\ cmain \in {"sock", "connect", "synsent", "retry", "connected", "sending", "finwait",
                  "close", "stop", "end", "other"}
    /\ cstate \in {"NONE", "CLOSED", "SYNSENT", "CONNECTED", "FINWAIT"}
    /\ tries \in Nat /\ wants \in Nat /\ rounds \in Nat /\ next_seqNum \in Nat
    /\ node \in [seq : Nat, length : Nat] /\ unAck_segNum \in Nat
    /\ sendBufHead \in BOOLEAN /\ sendBufunSent \in BOOLEAN /\ timing \in BOOLEAN
    /\ chandler \in {"running", "accepting", "locked", "ended"}
=============================================================================
