----------------------------- MODULE MRTClient ------------------------------
(***************************************************************************)
(* The MRT client of lab4/client/mrt_client.c: one TCB, the application     *)
(* thread that calls the API, the seghandler thread, and the timer threads  *)
(* sendingBuffer_timer() that retransmit.                                   *)
(*                                                                         *)
(* A critical section under bufMutex is one step; what the code does        *)
(* outside the mutex (the timer's test of unAck_segNum and its read through *)
(* sendBufHead, the state set after a SYN or a FIN was sent) is a step of   *)
(* its own.  The send buffer is a sequence: sendBufHead is its first        *)
(* element, sendBufTail its last, and sendBufunSent an index, 0 for NULL.   *)
(***************************************************************************)
EXTENDS Segments

CONSTANTS
    MAX_SEG_LEN,     \* bytes of a full segment
    GBN_WINDOW,      \* segments that may be unacknowledged
    FIN_MAX_RETRY,   \* FINs retransmitted by mrt_client_disconnect()
    SvrNodeID,       \* node id of the server
    SvrPort,         \* port of the server
    SendLengths,     \* lengths the application passes to mrt_client_send()
    MaxConnects,     \* bound: calls of mrt_client_connect() that send a SYN
    MaxStream,       \* bound: bytes handed to mrt_client_send(), below 2^32
    ChannelCap       \* bound: retransmissions wait for this much room

ASSUME ClientConstants ==
    /\ MAX_SEG_LEN \in Nat \ {0}
    /\ GBN_WINDOW \in Nat \ {0}
    /\ FIN_MAX_RETRY \in Nat \ {0}
    /\ SvrNodeID \in Nat
    /\ SvrPort \in Nat
    /\ SendLengths \subseteq Nat
    /\ MaxConnects \in Nat
    /\ MaxStream \in Nat
    /\ ChannelCap \in Nat

VARIABLES
    cState,          \* state of the TCB; "NONE" and "FREED" when there is none
    next_seqNum,
    sendBuf,         \* the segments from sendBufHead to sendBufTail
    sendBufunSent,   \* index in sendBuf of the first unsent segment, 0 if NULL
    unAck_segNum,
    cApp,            \* where the application thread is
    pending,         \* bytes of the running mrt_client_send() not appended yet
    finRound,        \* FINs retransmitted by the running mrt_client_disconnect()
    cHandler,        \* where the seghandler thread is
    tAsleep,         \* timer threads that sleep in select()
    tDue,            \* timer threads that have found unAck_segNum # 0
    connects,        \* history: calls of mrt_client_connect() that sent a SYN
    given,           \* history: bytes handed to mrt_client_send()
    wrote            \* history: bytes appended to the send buffer

tcb == <<cState, next_seqNum, sendBuf, sendBufunSent, unAck_segNum>>
buffer == <<next_seqNum, sendBuf, sendBufunSent, unAck_segNum>>
timers == <<tAsleep, tDue>>
history == <<connects, given, wrote>>
clientVars == <<tcb, cApp, pending, finRound, cHandler, timers, history>>

ClientInit ==
    /\ cState = "NONE"
    /\ next_seqNum = 0
    /\ sendBuf = << >>
    /\ sendBufunSent = 0
    /\ unAck_segNum = 0
    /\ cApp = "idle"
    /\ pending = << >>
    /\ finRound = 0
    /\ cHandler = "recv"
    /\ tAsleep = 0
    /\ tDue = 0
    /\ connects = 0
    /\ given = 0
    /\ wrote = << >>

ClientUp == "client" \notin crashed

\* The client dies of a read through a NULL or freed pointer.
ClientCrash == /\ Crash("client")
               /\ UNCHANGED <<c2s, clientVars>>

-----------------------------------------------------------------------------
(* The send buffer.                                                        *)

\* The sendings the window allows: the iterations of sendBuffer_sending().
Sendable ==
    LET unsent == IF sendBufunSent = 0 THEN 0 ELSE Len(sendBuf) + 1 - sendBufunSent
        open   == GBN_WINDOW - unAck_segNum
    IN  IF open < 0 THEN 0 ELSE IF unsent < open THEN unsent ELSE open

\* Mutant: unAck_segNum is tested after it was incremented.
sendBuffer_sending_TestAfter ==
    LET k == Sendable
    IN  /\ ToServer([i \in 1..k |-> DataSeg(sendBuf[sendBufunSent + i - 1])])
        /\ unAck_segNum' = unAck_segNum + k
        /\ sendBufunSent' = IF sendBufunSent = 0 \/ sendBufunSent + k > Len(sendBuf)
                              THEN 0 ELSE sendBufunSent + k
        /\ tAsleep' = IF unAck_segNum + k = 0 THEN tAsleep + 1 ELSE tAsleep
        /\ UNCHANGED <<next_seqNum, sendBuf, tDue>>

\* sendBuffer_sending(): send from sendBufunSent on while the window allows;
\* the segment that opens the window starts a timer thread.
sendBuffer_sending ==
    LET k == Sendable
    IN  /\ ToServer([i \in 1..k |-> DataSeg(sendBuf[sendBufunSent + i - 1])])
        /\ unAck_segNum' = unAck_segNum + k
        /\ sendBufunSent' = IF sendBufunSent = 0 \/ sendBufunSent + k > Len(sendBuf)
                              THEN 0 ELSE sendBufunSent + k
        /\ tAsleep' = IF unAck_segNum = 0 /\ k > 0 THEN tAsleep + 1 ELSE tAsleep
        /\ UNCHANGED <<next_seqNum, sendBuf, tDue>>

\* Mutant: next_seqNum is not advanced when the buffer was empty.
sendBuffer_append_segment_HeadKeepsSeq(data) ==
    /\ sendBuf' = Append(sendBuf, [seq |-> next_seqNum, data |-> data])
    /\ next_seqNum' = IF sendBuf = << >> THEN next_seqNum ELSE next_seqNum + Len(data)
    /\ sendBufunSent' = IF sendBuf = << >> \/ sendBufunSent = 0
                          THEN Len(sendBuf) + 1 ELSE sendBufunSent
    /\ UNCHANGED unAck_segNum

\* sendBuffer_append_segment()
sendBuffer_append_segment(data) ==
    /\ sendBuf' = Append(sendBuf, [seq |-> next_seqNum, data |-> data])
    /\ next_seqNum' = next_seqNum + Len(data)
    /\ sendBufunSent' = IF sendBuf = << >> \/ sendBufunSent = 0
                          THEN Len(sendBuf) + 1 ELSE sendBufunSent
    /\ UNCHANGED unAck_segNum

\* Mutant: a segment at the ack is popped too.
sendBufferRecvAck_PopsAtAck(ack) ==
    \E n \in 0..Len(sendBuf) :
        /\ \A i \in 1..n : sendBuf[i].seq <= ack
        /\ n < Len(sendBuf) => sendBuf[n + 1].seq > ack
        /\ sendBuf' = SubSeq(sendBuf, n + 1, Len(sendBuf))
        /\ sendBufunSent' = IF sendBufunSent > n THEN sendBufunSent - n ELSE 0
        /\ unAck_segNum' = unAck_segNum - n
        /\ UNCHANGED next_seqNum

\* Mutant: sendBufunSent moves with the head also when it is NULL.
sendBufferRecvAck_MovesNull(ack) ==
    \E n \in 0..Len(sendBuf) :
        /\ \A i \in 1..n : sendBuf[i].seq < ack
        /\ n < Len(sendBuf) => sendBuf[n + 1].seq >= ack
        /\ sendBuf' = SubSeq(sendBuf, n + 1, Len(sendBuf))
        /\ sendBufunSent' = sendBufunSent - n
        /\ unAck_segNum' = unAck_segNum - n
        /\ UNCHANGED next_seqNum

\* sendBufferRecvAck(): pop from the head while its seq_num is below the ack.
sendBufferRecvAck(ack) ==
    \E n \in 0..Len(sendBuf) :
        /\ \A i \in 1..n : sendBuf[i].seq < ack
        /\ n < Len(sendBuf) => sendBuf[n + 1].seq >= ack
        /\ sendBuf' = SubSeq(sendBuf, n + 1, Len(sendBuf))
        /\ sendBufunSent' = IF sendBufunSent > n THEN sendBufunSent - n ELSE 0
        /\ unAck_segNum' = unAck_segNum - n
        /\ UNCHANGED next_seqNum

-----------------------------------------------------------------------------
(* The application thread.  A call in a state its switch does not accept    *)
(* returns -1 and changes nothing, so it has no action.                     *)

mrt_client_sock ==
    /\ ClientUp
    /\ cState = "NONE"
    /\ cState' = "CLOSED"
    /\ UNCHANGED <<buffer, cApp, pending, finRound, cHandler, timers, history, network>>

\* mrt_client_connect(): the SYN is sent ...
ConnectSyn ==
    /\ ClientUp
    /\ cApp = "idle"
    /\ cState = "CLOSED"
    /\ connects < MaxConnects
    /\ ToServer(<<Control("SYN")>>)
    /\ cApp' = "synSent"
    /\ connects' = connects + 1
    /\ UNCHANGED <<tcb, pending, finRound, cHandler, timers, given, wrote, s2c, crashed>>

\* ... and only then is the state SYNSENT.
ConnectState ==
    /\ ClientUp
    /\ cApp = "synSent"
    /\ cState' = "SYNSENT"
    /\ cApp' = "synWait"
    /\ UNCHANGED <<buffer, pending, finRound, cHandler, timers, history, network>>

\* After one SYN_TIMEOUT the call returns: 1 when the TCB is CONNECTED;
\* otherwise the SYN is sent once more, and the break that follows the if
\* leaves the retry loop, so that the call returns -1 at once.
ConnectTimeout ==
    /\ ClientUp
    /\ cApp = "synWait"
    /\ ToServer(IF cState = "CONNECTED" THEN << >> ELSE <<Control("SYN")>>)
    /\ cApp' = "idle"
    /\ UNCHANGED <<tcb, pending, finRound, cHandler, timers, history, s2c, crashed>>

\* mrt_client_send(): the application numbers its bytes, so that a byte tells
\* its place in what was handed over.
SendCall(n) ==
    /\ ClientUp
    /\ cApp = "idle"
    /\ cState = "CONNECTED"
    /\ given + n <= MaxStream
    /\ pending' = [i \in 1..n |-> given + i]
    /\ given' = given + n
    /\ cApp' = "append"
    /\ UNCHANGED <<tcb, finRound, cHandler, timers, connects, wrote, network>>

\* One iteration of its loop: a full segment is appended.
SendAppend ==
    /\ ClientUp
    /\ cApp = "append"
    /\ Len(pending) >= MAX_SEG_LEN
    /\ LET data == SubSeq(pending, 1, MAX_SEG_LEN)
       IN  /\ sendBuffer_append_segment(data)
           /\ wrote' = wrote \o data
    /\ pending' = SubSeq(pending, MAX_SEG_LEN + 1, Len(pending))
    /\ UNCHANGED <<cState, cApp, finRound, cHandler, timers, connects, given, network>>

\* The last iteration gets length % MAX_SEG_LEN bytes and appends nothing;
\* then what the window allows is sent, and the call returns 1.
SendReturn ==
    /\ ClientUp
    /\ cApp = "append"
    /\ Len(pending) < MAX_SEG_LEN
    /\ sendBuffer_sending
    /\ pending' = << >>
    /\ cApp' = "idle"
    /\ UNCHANGED <<cState, finRound, cHandler, history, s2c, crashed>>

\* mrt_client_disconnect(): the FIN is sent, then the state is FINWAIT ...
DisconnectFin ==
    /\ ClientUp
    /\ cApp = "idle"
    /\ cState = "CONNECTED"
    /\ ToServer(<<Control("FIN")>>)
    /\ cApp' = "finSent"
    /\ UNCHANGED <<tcb, pending, finRound, cHandler, timers, history, s2c, crashed>>

DisconnectState ==
    /\ ClientUp
    /\ cApp = "finSent"
    /\ cState' = "FINWAIT"
    /\ cApp' = "finWait"
    /\ finRound' = 0
    /\ UNCHANGED <<buffer, pending, cHandler, timers, history, network>>

\* Mutant: unAck_segNum survives the freed buffer.
DisconnectDone_KeepsCount ==
    /\ ClientUp
    /\ cApp = "finWait"
    /\ cState = "CLOSED"
    /\ next_seqNum' = 0
    /\ sendBuf' = << >>
    /\ sendBufunSent' = 0
    /\ cApp' = "idle"
    /\ UNCHANGED <<unAck_segNum, cState, pending, finRound, cHandler, timers, history, network>>

\* ... a FIN_TIMEOUT finds the state CLOSED: the FINACK has come.  The TCB is
\* reset, sendBuffer_destroy() frees the buffer, and the call returns 1 ...
DisconnectDone ==
    /\ ClientUp
    /\ cApp = "finWait"
    /\ cState = "CLOSED"
    /\ next_seqNum' = 0
    /\ sendBuf' = << >>
    /\ sendBufunSent' = 0
    /\ unAck_segNum' = 0
    /\ cApp' = "idle"
    /\ UNCHANGED <<cState, pending, finRound, cHandler, timers, history, network>>

\* Mutant: after the last FIN the call goes on waiting for its FINACK.
DisconnectTimeout_WaitsOn ==
    /\ ClientUp
    /\ cApp = "finWait"
    /\ cState # "CLOSED"
    /\ finRound < FIN_MAX_RETRY
    /\ ToServer(<<Control("FIN")>>)
    /\ finRound' = finRound + 1
    /\ UNCHANGED <<tcb, cApp, pending, cHandler, timers, history, s2c, crashed>>

\* ... or it does not, and the FIN is sent again.  After FIN_MAX_RETRY of them
\* the state is CLOSED, with the send buffer as it is, and the call returns -1.
DisconnectTimeout ==
    /\ ClientUp
    /\ cApp = "finWait"
    /\ cState # "CLOSED"
    /\ ToServer(<<Control("FIN")>>)
    /\ finRound' = finRound + 1
    /\ IF finRound + 1 = FIN_MAX_RETRY
         THEN cState' = "CLOSED" /\ cApp' = "idle"
         ELSE UNCHANGED <<cState, cApp>>
    /\ UNCHANGED <<buffer, pending, cHandler, timers, history, s2c, crashed>>

\* mrt_client_close(): the TCB is freed and its table entry is NULL.
mrt_client_close ==
    /\ ClientUp
    /\ cApp = "idle"
    /\ cState = "CLOSED"
    /\ cState' = "FREED"
    /\ UNCHANGED <<buffer, cApp, pending, finRound, cHandler, timers, history, network>>

-----------------------------------------------------------------------------
(* The seghandler thread.                                                  *)

Deliver == /\ ClientUp
           /\ cHandler = "recv"
           /\ FromServer
           /\ UNCHANGED <<c2s, cApp, pending, finRound, timers, history>>

\* CONNECTED: a DATAACK at or above the head pops what it acknowledges; the
\* sending that follows takes the mutex again.
HandleDataAck ==
    /\ Deliver
    /\ cState = "CONNECTED"
    /\ Head(s2c).type = "DATAACK"
    /\ IF sendBuf # << >> /\ Head(s2c).ack >= Head(sendBuf).seq
         THEN sendBufferRecvAck(Head(s2c).ack) /\ cHandler' = "send"
         ELSE UNCHANGED <<buffer, cHandler>>
    /\ UNCHANGED <<cState, crashed>>

HandleSending ==
    /\ ClientUp
    /\ cHandler = "send"
    /\ cState # "FREED"
    /\ sendBuffer_sending
    /\ cHandler' = "recv"
    /\ UNCHANGED <<cState, cApp, pending, finRound, history, s2c, crashed>>

\* The application has freed the TCB between the two.
HandleSendingFreed ==
    /\ ClientUp
    /\ cHandler = "send"
    /\ cState = "FREED"
    /\ ClientCrash
    /\ UNCHANGED s2c

\* CONNECTED, any other segment: the message printed reads sendBufHead->seg,
\* and with an empty send buffer that is a read through NULL.
HandleStray ==
    /\ Deliver
    /\ cState = "CONNECTED"
    /\ Head(s2c).type # "DATAACK"
    /\ IF sendBuf = << >> THEN Crash("client") ELSE UNCHANGED crashed
    /\ UNCHANGED <<tcb, cHandler>>

\* SYNSENT: a SYNACK makes the TCB CONNECTED.
HandleSynAck ==
    /\ Deliver
    /\ cState = "SYNSENT"
    /\ Head(s2c).type = "SYNACK"
    /\ cState' = "CONNECTED"
    /\ UNCHANGED <<buffer, cHandler, crashed>>

\* FINWAIT: the test for a FINACK compares svr_portNum with the node id the
\* segment came from.
FinAckAccepted(seg) == seg.type = "FINACK" /\ SvrPort = SvrNodeID

HandleFinAck ==
    /\ Deliver
    /\ cState = "FINWAIT"
    /\ FinAckAccepted(Head(s2c))
    /\ cState' = "CLOSED"
    /\ UNCHANGED <<buffer, cHandler, crashed>>

\* Every other segment is dropped, as are those that find no TCB or a CLOSED one.
HandleIgnored ==
    /\ Deliver
    /\ \/ cState \in {"NONE", "FREED", "CLOSED"}
       \/ cState = "SYNSENT" /\ Head(s2c).type # "SYNACK"
       \/ cState = "FINWAIT" /\ ~ FinAckAccepted(Head(s2c))
    /\ UNCHANGED <<tcb, cHandler, crashed>>

-----------------------------------------------------------------------------
(* The timer threads.  The age of the head segment is compared in mixed     *)
(* units and the test always succeeds, so a poll that finds                 *)
(* unAck_segNum # 0 retransmits.                                            *)

\* Mutant: a timer thread never ends.
TimerPoll_NeverEnds ==
    /\ ClientUp
    /\ cState # "FREED"
    /\ tAsleep > 0
    /\ tAsleep' = tAsleep - 1
    /\ tDue' = tDue + 1
    /\ UNCHANGED <<tcb, cApp, pending, finRound, cHandler, history, network>>

\* A poll reads unAck_segNum without the mutex: 0 ends the thread.
TimerPoll ==
    /\ ClientUp
    /\ cState # "FREED"
    /\ tAsleep > 0
    /\ tAsleep' = tAsleep - 1
    /\ tDue' = IF unAck_segNum = 0 THEN tDue ELSE tDue + 1
    /\ UNCHANGED <<tcb, cApp, pending, finRound, cHandler, history, network>>

\* Mutant: the last unacknowledged segment is not sent again.
TimerTimeout_SkipsLast ==
    /\ ClientUp
    /\ cState # "FREED"
    /\ tDue > 0
    /\ Len(c2s) + unAck_segNum <= ChannelCap
    /\ ToServer([i \in 1..(unAck_segNum - 1) |-> DataSeg(sendBuf[i])])
    /\ tDue' = tDue - 1
    /\ tAsleep' = tAsleep + 1
    /\ UNCHANGED <<tcb, cApp, pending, finRound, cHandler, history, s2c, crashed>>

\* sendBuffer_timeout(): the unacknowledged segments are sent again.
TimerTimeout ==
    /\ ClientUp
    /\ cState # "FREED"
    /\ tDue > 0
    /\ Len(c2s) + unAck_segNum <= ChannelCap
    /\ ToServer([i \in 1..unAck_segNum |-> DataSeg(sendBuf[i])])
    /\ tDue' = tDue - 1
    /\ tAsleep' = tAsleep + 1
    /\ UNCHANGED <<tcb, cApp, pending, finRound, cHandler, history, s2c, crashed>>

\* Between the poll's read of unAck_segNum and its read through sendBufHead
\* an acknowledgement has emptied the buffer: a read through NULL.  (Emptied
\* after the second read, the buffer has TimerTimeout send nothing.)
TimerNullHead ==
    /\ ClientUp
    /\ cState # "FREED"
    /\ tDue > 0
    /\ sendBuf = << >>
    /\ ClientCrash
    /\ UNCHANGED s2c

\* The thread outlives its TCB.
TimerFreed ==
    /\ ClientUp
    /\ cState = "FREED"
    /\ tAsleep + tDue > 0
    /\ ClientCrash
    /\ UNCHANGED s2c

=============================================================================
