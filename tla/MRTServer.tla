----------------------------- MODULE MRTServer ------------------------------
(***************************************************************************)
(* The MRT server of lab4/server/mrt_server.c: one TCB, the application     *)
(* thread, the seghandler thread and the closewait() thread.  recvBuf holds *)
(* the bytes [0..usedBufLen-1], so usedBufLen is its length.  The polls of  *)
(* accept and recv read state and usedBufLen without the mutex: a poll that *)
(* succeeds is a step apart from what is then done.                         *)
(***************************************************************************)
EXTENDS Segments

CONSTANTS
    RECEIVE_BUF_SIZE,  \* bytes saveTobuffer() lets the receive buffer hold
    Garbage,           \* what expect_seqNum may be after malloc()
    RecvLengths,       \* lengths the application passes to mrt_server_recv()
    MaxAccepts         \* bound: calls of mrt_server_accept()

ASSUME ServerConstants ==
    /\ RECEIVE_BUF_SIZE \in Nat
    /\ Garbage \subseteq Nat
    /\ RecvLengths \subseteq Nat
    /\ MaxAccepts \in Nat

VARIABLES
    sState,          \* state of the TCB; "NONE" and "FREED" when there is none
    expect_seqNum,
    recvBuf,
    closing,         \* the closewait() thread: "none", "asleep" or "cleared"
    sApp,            \* where the application thread is
    want,            \* length of the running mrt_server_recv()
    accepts,         \* history: calls of mrt_server_accept()
    saved,           \* history: bytes saved in recvBuf since the last SYN
    delivered        \* history: bytes mrt_server_recv() has returned

serverApp == <<sApp, want, accepts, delivered>>
serverVars == <<sState, expect_seqNum, recvBuf, closing, serverApp, saved>>

ServerInit ==
    /\ sState = "NONE"
    /\ expect_seqNum = 0
    /\ recvBuf = << >>
    /\ closing = "none"
    /\ sApp = "idle"
    /\ want = 0
    /\ accepts = 0
    /\ saved = << >>
    /\ delivered = << >>

ServerUp == "server" \notin crashed

-----------------------------------------------------------------------------
(* The application thread.                                                 *)

\* mrt_server_sock(): expect_seqNum is left as malloc() gave it.
mrt_server_sock ==
    /\ ServerUp
    /\ sState = "NONE"
    /\ sState' = "CLOSED"
    /\ expect_seqNum' \in Garbage
    /\ UNCHANGED <<recvBuf, closing, serverApp, saved, network>>

\* mrt_server_accept(): LISTENING, until a poll finds CONNECTED.
AcceptCall ==
    /\ ServerUp
    /\ sApp = "idle"
    /\ sState = "CLOSED"
    /\ accepts < MaxAccepts
    /\ sState' = "LISTENING"
    /\ sApp' = "accept"
    /\ accepts' = accepts + 1
    /\ UNCHANGED <<expect_seqNum, recvBuf, closing, want, saved, delivered, network>>

AcceptReturn ==
    /\ ServerUp
    /\ sApp = "accept"
    /\ sState = "CONNECTED"
    /\ sApp' = "idle"
    /\ UNCHANGED <<sState, expect_seqNum, recvBuf, closing, want, accepts, saved, delivered, network>>

\* mrt_server_recv(): the state is tested once, usedBufLen until it suffices ...
RecvCall(n) ==
    /\ ServerUp
    /\ sApp = "idle"
    /\ sState = "CONNECTED"
    /\ sApp' = "recv"
    /\ want' = n
    /\ UNCHANGED <<sState, expect_seqNum, recvBuf, closing, accepts, saved, delivered, network>>

RecvPoll ==
    /\ ServerUp
    /\ sApp = "recv"
    /\ want <= Len(recvBuf)
    /\ sApp' = "copy"
    /\ UNCHANGED <<sState, expect_seqNum, recvBuf, closing, want, accepts, saved, delivered, network>>

\* Mutant: the bytes that stay are the first ones, not the last.
RecvCopy_NoShift ==
    /\ ServerUp
    /\ sApp = "copy"
    /\ want <= Len(recvBuf)
    /\ delivered' = delivered \o SubSeq(recvBuf, 1, want)
    /\ recvBuf' = SubSeq(recvBuf, 1, Len(recvBuf) - want)
    /\ sApp' = "idle"
    /\ UNCHANGED <<sState, expect_seqNum, closing, want, accepts, saved, network>>

\* ... and under the mutex the bytes are copied out and the rest moves down.
RecvCopy ==
    /\ ServerUp
    /\ sApp = "copy"
    /\ want <= Len(recvBuf)
    /\ delivered' = delivered \o SubSeq(recvBuf, 1, want)
    /\ recvBuf' = SubSeq(recvBuf, want + 1, Len(recvBuf))
    /\ sApp' = "idle"
    /\ UNCHANGED <<sState, expect_seqNum, closing, want, accepts, saved, network>>

\* closewait() has emptied the buffer since the poll: usedBufLen - length is
\* negative, and as an unsigned it is the length of the second memcpy.
RecvUnderflow ==
    /\ ServerUp
    /\ sApp = "copy"
    /\ want > Len(recvBuf)
    /\ Crash("server")
    /\ UNCHANGED <<serverVars, c2s, s2c>>

\* mrt_server_close(): the TCB is freed; its table entry keeps the pointer.
mrt_server_close ==
    /\ ServerUp
    /\ sApp = "idle"
    /\ sState = "CLOSED"
    /\ sState' = "FREED"
    /\ UNCHANGED <<expect_seqNum, recvBuf, closing, serverApp, saved, network>>

-----------------------------------------------------------------------------
(* The seghandler thread.                                                  *)

\* Mutant: a SYN leaves expect_seqNum as it is.
segment_recv_KeepsExpect(seg) ==
    /\ ToClient(CASE seg.type = "SYN" -> <<Control("SYNACK")>>
                  [] seg.type = "FIN" -> <<Control("FINACK")>>
                  [] OTHER -> << >>)
    /\ saved' = IF seg.type = "SYN" THEN << >> ELSE saved
    /\ UNCHANGED expect_seqNum

\* Mutant: a FIN sets expect_seqNum as a SYN does.
segment_recv_FinSetsExpect(seg) ==
    /\ ToClient(CASE seg.type = "SYN" -> <<Control("SYNACK")>>
                  [] seg.type = "FIN" -> <<Control("FINACK")>>
                  [] OTHER -> << >>)
    /\ expect_seqNum' = IF seg.type \in {"SYN", "FIN"} THEN seg.seq ELSE expect_seqNum
    /\ saved' = IF seg.type = "SYN" THEN << >> ELSE saved

\* segment_recv(): a SYN sets expect_seqNum and is answered by a SYNACK; a FIN
\* is answered by a FINACK; of any other segment nothing is done.
segment_recv(seg) ==
    /\ ToClient(CASE seg.type = "SYN" -> <<Control("SYNACK")>>
                  [] seg.type = "FIN" -> <<Control("FINACK")>>
                  [] OTHER -> << >>)
    /\ expect_seqNum' = IF seg.type = "SYN" THEN seg.seq ELSE expect_seqNum
    /\ saved' = IF seg.type = "SYN" THEN << >> ELSE saved

\* Mutant: a segment beyond the expected one is taken as well.
data_received_TakesGap(seg) ==
    IF seg.seq < expect_seqNum
      THEN /\ ToClient(<<DataAck(expect_seqNum)>>)
           /\ UNCHANGED <<recvBuf, expect_seqNum, saved>>
      ELSE IF RECEIVE_BUF_SIZE > Len(seg.data) + Len(recvBuf)
        THEN /\ recvBuf' = recvBuf \o seg.data
             /\ saved' = saved \o seg.data
             /\ expect_seqNum' = seg.seq + Len(seg.data)
             /\ ToClient(<<DataAck(seg.seq + Len(seg.data))>>)
        ELSE UNCHANGED <<recvBuf, expect_seqNum, saved, s2c>>

\* Mutant: a segment out of order is acknowledged with its own end.
data_received_AcksItself(seg) ==
    IF seg.seq # expect_seqNum
      THEN /\ ToClient(<<DataAck(seg.seq + Len(seg.data))>>)
           /\ UNCHANGED <<recvBuf, expect_seqNum, saved>>
      ELSE IF RECEIVE_BUF_SIZE > Len(seg.data) + Len(recvBuf)
        THEN /\ recvBuf' = recvBuf \o seg.data
             /\ saved' = saved \o seg.data
             /\ expect_seqNum' = seg.seq + Len(seg.data)
             /\ ToClient(<<DataAck(seg.seq + Len(seg.data))>>)
        ELSE UNCHANGED <<recvBuf, expect_seqNum, saved, s2c>>

\* data_received() and saveTobuffer(): the segment in order is saved, and
\* every segment is acknowledged but the one there is no room for.
data_received(seg) ==
    IF seg.seq # expect_seqNum
      THEN /\ ToClient(<<DataAck(expect_seqNum)>>)
           /\ UNCHANGED <<recvBuf, expect_seqNum, saved>>
      ELSE IF RECEIVE_BUF_SIZE > Len(seg.data) + Len(recvBuf)
        THEN /\ recvBuf' = recvBuf \o seg.data
             /\ saved' = saved \o seg.data
             /\ expect_seqNum' = seg.seq + Len(seg.data)
             /\ ToClient(<<DataAck(seg.seq + Len(seg.data))>>)
        ELSE UNCHANGED <<recvBuf, expect_seqNum, saved, s2c>>

Receive == /\ ServerUp
           /\ FromClient
           /\ UNCHANGED serverApp

\* LISTENING: whatever arrives connects.
Listening ==
    /\ Receive
    /\ sState = "LISTENING"
    /\ segment_recv(Head(c2s))
    /\ sState' = "CONNECTED"
    /\ UNCHANGED <<recvBuf, closing, crashed>>

ConnectedSyn ==
    /\ Receive
    /\ sState = "CONNECTED"
    /\ Head(c2s).type = "SYN"
    /\ segment_recv(Head(c2s))
    /\ UNCHANGED <<sState, recvBuf, closing, crashed>>

ConnectedData ==
    /\ Receive
    /\ sState = "CONNECTED"
    /\ Head(c2s).type = "DATA"
    /\ data_received(Head(c2s))
    /\ UNCHANGED <<sState, closing, crashed>>

\* A FIN starts the closewait() thread, whatever data is still missing.
ConnectedFin ==
    /\ Receive
    /\ sState = "CONNECTED"
    /\ Head(c2s).type = "FIN"
    /\ sState' = "CLOSEWAIT"
    /\ closing' = "asleep"
    /\ segment_recv(Head(c2s))
    /\ UNCHANGED <<recvBuf, crashed>>

CloseWaitFin ==
    /\ Receive
    /\ sState = "CLOSEWAIT"
    /\ Head(c2s).type = "FIN"
    /\ segment_recv(Head(c2s))
    /\ UNCHANGED <<sState, recvBuf, closing, crashed>>

\* Mutant: the CLOSED state answers a SYN, for want of a break.
Dropped_AnswersClosed ==
    /\ Receive
    /\ \/ sState = "CLOSEWAIT" /\ Head(c2s).type # "FIN"
       \/ sState = "CLOSED"
    /\ segment_recv(Head(c2s))
    /\ UNCHANGED <<sState, recvBuf, closing, crashed>>

Dropped ==
    /\ Receive
    /\ \/ sState = "CLOSEWAIT" /\ Head(c2s).type # "FIN"
       \/ sState = "CLOSED"
    /\ UNCHANGED <<sState, expect_seqNum, recvBuf, closing, saved, s2c, crashed>>

\* fetch_server_TCB() gives NULL before the socket exists, and a pointer to
\* freed memory after the close; the handler reads the state through it.
NoTCB ==
    /\ Receive
    /\ sState \in {"NONE", "FREED"}
    /\ Crash("server")
    /\ UNCHANGED <<sState, expect_seqNum, recvBuf, closing, saved, s2c>>

-----------------------------------------------------------------------------
(* The closewait() thread: CLOSEWAIT_TIME later the buffer is emptied under *)
(* the mutex, and then the state is CLOSED.                                 *)

CloseWaitClear ==
    /\ ServerUp
    /\ closing = "asleep"
    /\ recvBuf' = << >>
    /\ closing' = "cleared"
    /\ UNCHANGED <<sState, expect_seqNum, serverApp, saved, network>>

CloseWaitEnd ==
    /\ ServerUp
    /\ closing = "cleared"
    /\ sState' = "CLOSED"
    /\ closing' = "none"
    /\ UNCHANGED <<expect_seqNum, recvBuf, serverApp, saved, network>>

=============================================================================
