-------------------------------- MODULE MRT ---------------------------------
(***************************************************************************)
(* The transport of lab4: one client and one server (MRTClient, MRTServer)  *)
(* over a network that keeps the order of a direction and may lose any      *)
(* segment (Segments).  The threads of both processes interleave.           *)
(***************************************************************************)
EXTENDS MRTClient, MRTServer

vars == <<clientVars, serverVars, network>>

Init == /\ ClientInit
        /\ ServerInit
        /\ c2s = << >>
        /\ s2c = << >>
        /\ crashed = {}

\* A step of one process leaves the other alone.
Client(A) == A /\ UNCHANGED serverVars
Server(A) == A /\ UNCHANGED clientVars

ClientCalls ==
    \/ Client(mrt_client_sock)
    \/ Client(ConnectSyn)
    \/ \E n \in SendLengths : Client(SendCall(n))
    \/ Client(DisconnectFin)
    \/ Client(mrt_client_close)

ClientSteps ==
    \/ Client(ConnectState)
    \/ Client(ConnectTimeout)
    \/ Client(SendAppend)
    \/ Client(SendReturn)
    \/ Client(DisconnectState)
    \/ Client(DisconnectDone)
    \/ Client(DisconnectTimeout)

ClientHandler ==
    \/ Client(HandleDataAck)
    \/ Client(HandleSending)
    \/ Client(HandleSendingFreed)
    \/ Client(HandleStray)
    \/ Client(HandleSynAck)
    \/ Client(HandleFinAck)
    \/ Client(HandleIgnored)

ClientTimers ==
    \/ Client(TimerPoll)
    \/ Client(TimerTimeout)
    \/ Client(TimerNullHead)
    \/ Client(TimerFreed)

ServerCalls ==
    \/ Server(mrt_server_sock)
    \/ Server(AcceptCall)
    \/ \E n \in RecvLengths : Server(RecvCall(n))
    \/ Server(mrt_server_close)

ServerSteps ==
    \/ Server(AcceptReturn)
    \/ Server(RecvPoll)
    \/ Server(RecvCopy)
    \/ Server(RecvUnderflow)

ServerHandler ==
    \/ Server(Listening)
    \/ Server(ConnectedSyn)
    \/ Server(ConnectedData)
    \/ Server(ConnectedFin)
    \/ Server(CloseWaitFin)
    \/ Server(Dropped)
    \/ Server(NoTCB)

CloseWait ==
    \/ Server(CloseWaitClear)
    \/ Server(CloseWaitEnd)

Loss ==
    \/ LoseToServer /\ UNCHANGED <<clientVars, serverVars>>
    \/ LoseToClient /\ UNCHANGED <<clientVars, serverVars>>

Next ==
    \/ ClientCalls
    \/ ClientSteps
    \/ ClientHandler
    \/ ClientTimers
    \/ ServerCalls
    \/ ServerSteps
    \/ ServerHandler
    \/ CloseWait
    \/ Loss

Spec == Init /\ [][Next]_vars

-----------------------------------------------------------------------------
(* Fairness.  Threads are scheduled, so a call in progress goes on, polls    *)
(* are repeated and closewait() ends.  seglost() loses a segment with        *)
(* probability 0.1 independently of the others, so a segment that is sent    *)
(* again and again is received again and again: strong fairness of the       *)
(* receipt of each data segment and each acknowledgement.  Nothing makes the *)
(* applications call, and a SYN or FIN, sent a bounded number of times, may  *)
(* always be lost.                                                           *)

ReceiveData(n) == /\ c2s # << >>
                  /\ Head(c2s).type = "DATA" /\ Head(c2s).seq = n
                  /\ ServerHandler

ReceiveAck(n) == /\ s2c # << >>
                 /\ Head(s2c).type = "DATAACK" /\ Head(s2c).ack = n
                 /\ ClientHandler

Fairness ==
    /\ WF_vars(ClientSteps)
    /\ WF_vars(ClientHandler)
    /\ WF_vars(Client(TimerPoll))
    /\ SF_vars(Client(TimerTimeout))
    /\ WF_vars(ServerSteps)
    /\ WF_vars(ServerHandler)
    /\ WF_vars(CloseWait)
    /\ \A n \in 1..MaxStream : SF_vars(ReceiveData(n - 1)) /\ SF_vars(ReceiveAck(n))

FairSpec == Spec /\ Fairness

-----------------------------------------------------------------------------
(* Types.                                                                  *)

BufferedSegment == [seq : Nat, data : Seq(Nat)]

\* Every variable has its type.  That unAck_segNum, an unsigned, is never
\* decremented below 0 is part of WindowConsistent.
TypeOK ==
    /\ c2s \in Seq(Segment)
    /\ s2c \in Seq(Segment)
    /\ crashed \subseteq {"client", "server"}
    /\ cState \in {"NONE", "CLOSED", "SYNSENT", "CONNECTED", "FINWAIT", "FREED"}
    /\ next_seqNum \in Nat
    /\ sendBuf \in Seq(BufferedSegment)
    /\ sendBufunSent \in Nat
    /\ unAck_segNum \in Int
    /\ cApp \in {"idle", "synSent", "synWait", "append", "finSent", "finWait"}
    /\ pending \in Seq(Nat)
    /\ finRound \in Nat
    /\ cHandler \in {"recv", "send"}
    /\ tAsleep \in Nat
    /\ tDue \in Nat
    /\ connects \in Nat
    /\ given \in Nat
    /\ wrote \in Seq(Nat)
    /\ sState \in {"NONE", "CLOSED", "LISTENING", "CONNECTED", "CLOSEWAIT", "FREED"}
    /\ expect_seqNum \in Nat
    /\ recvBuf \in Seq(Nat)
    /\ closing \in {"none", "asleep", "cleared"}
    /\ sApp \in {"idle", "accept", "recv", "copy"}
    /\ want \in Nat
    /\ accepts \in Nat
    /\ saved \in Seq(Nat)
    /\ delivered \in Seq(Nat)

-----------------------------------------------------------------------------
(* Safety.                                                                 *)

IsPrefixOf(s, t) == /\ Len(s) <= Len(t)
                    /\ \A i \in 1..Len(s) : s[i] = t[i]

\* The first connection of the TCB.  A second connect on a TCB whose
\* disconnect has failed starts with the old send buffer and old timers.
FirstConnection == connects <= 1

\* A seq_num is a position in wrote: always in the first connection, and later
\* until a disconnect that succeeds sets next_seqNum back to 0.
Positional == FirstConnection \/ next_seqNum = Len(wrote)

\* What the server has saved is a prefix of what the client has appended:
\* go-back-N with loss, retransmission and late acknowledgements neither
\* skips, nor repeats, nor reorders a byte, also when a TCB whose disconnect
\* failed is connected again with old segments in flight.
StreamIntegrity == Positional => IsPrefixOf(saved, wrote)

\* The bytes mrt_server_recv() has returned on the first accept, followed by
\* those in recvBuf, are a prefix of what the client has appended.
DeliveryIntegrity ==
    FirstConnection /\ accepts <= 1 => IsPrefixOf(delivered \o recvBuf, wrote)

\* The send buffer, its two pointers and its counter agree: unAck_segNum
\* counts the segments before sendBufunSent, no more than the window, so
\* sendBuffer_timeout() never walks off the list.
WindowConsistent ==
    /\ unAck_segNum \in 0..GBN_WINDOW
    /\ unAck_segNum <= Len(sendBuf)
    /\ sendBufunSent = IF unAck_segNum = Len(sendBuf) THEN 0 ELSE unAck_segNum + 1

\* Where what has been sent ends in the stream.
SentEnd == IF sendBufunSent = 0 THEN next_seqNum ELSE sendBuf[sendBufunSent].seq

\* The client frees only what the server has saved, and the server has saved
\* only what was sent: the position of the server lies in the window.
WindowTracksReceiver ==
    FirstConnection =>
        /\ Len(saved) <= SentEnd
        /\ sendBuf # << >> => Head(sendBuf).seq <= Len(saved)
        /\ sendBuf = << >> => next_seqNum \in {0, Len(saved)}

\* While a segment is unacknowledged a timer thread will look at it, although
\* a timer decides to end by a read outside the mutex.
TimerWatchesWindow == unAck_segNum > 0 => tAsleep + tDue > 0

\* The server has answered a SYN: one accept at least has left LISTENING.
Heard == /\ sState # "NONE"
         /\ accepts >= 1
         /\ accepts = 1 => sState # "LISTENING"

\* A client that believes it is connected has been heard by the server.
ConnectionAgreed == cState \in {"CONNECTED", "FINWAIT"} => Heard

-----------------------------------------------------------------------------
(* The inductive invariant behind StreamIntegrity, for SvrPort # SvrNodeID.  *)

\* A segment carries the bytes of the stream at its seq_num, and ends by end.
Carries(seg, end) ==
    /\ Len(seg.data) = MAX_SEG_LEN
    /\ seg.seq + MAX_SEG_LEN <= end
    /\ \A k \in 1..MAX_SEG_LEN : seg.data[k] = wrote[seg.seq + k]

ClientInv ==
    /\ next_seqNum = Len(wrote)
    /\ \A i \in 1..Len(sendBuf) : Carries(sendBuf[i], next_seqNum)
    /\ \A i, j \in 1..Len(sendBuf) :
          i < j => sendBuf[i].seq + MAX_SEG_LEN <= sendBuf[j].seq
    /\ cApp = "finWait" => cState = "FINWAIT"

NetworkInv ==
    /\ \A i \in 1..Len(c2s) : c2s[i].type = "DATA" => Carries(c2s[i], SentEnd)
    /\ \A i \in 1..Len(c2s) : c2s[i].type = "SYN" => c2s[i].seq = 0
    /\ \A i \in 1..Len(s2c) : s2c[i].type = "DATAACK" => s2c[i].ack <= SentEnd

\* No SYN has been answered yet.
Fresh ==
    /\ wrote = << >>
    /\ cState \in {"NONE", "CLOSED", "SYNSENT", "FREED"}
    /\ cApp \in {"idle", "synSent", "synWait"}
    /\ \A i \in 1..Len(s2c) : s2c[i].type # "SYNACK"

\* expect_seqNum is the length of what was saved, except that malloc() may
\* have left anything in it before the first SYN.
ServerInv ==
    /\ IsPrefixOf(saved, wrote)
    /\ Len(saved) <= SentEnd
    /\ sState = "NONE" \/ expect_seqNum # Len(saved) => Fresh

InductiveInvariant ==
    TypeOK /\ WindowConsistent /\ ClientInv /\ NetworkInv /\ ServerInv

\* The inductive invariant behind ConnectionAgreed.
AgreementInv ==
    /\ sState \in {"LISTENING", "CONNECTED"} => accepts >= 1
    /\ \A i \in 1..Len(s2c) : s2c[i].type = "SYNACK" => Heard
    /\ cApp = "finSent" => Heard
    /\ ConnectionAgreed

-----------------------------------------------------------------------------
(* The inductive invariant behind WindowTracksReceiver, DeliveryIntegrity,   *)
(* ExpectNeverRewinds and ImplementsStream, on top of the two above.         *)

\* Once a SYN was answered expect_seqNum is the length of what was saved, and
\* only who has been answered sends a FIN.
HeardInv ==
    /\ Heard => expect_seqNum = Len(saved)
    /\ sState = "NONE" => accepts = 0
    /\ sState \in {"CONNECTED", "CLOSEWAIT"} => accepts >= 1
    /\ closing # "none" => sState = "CLOSEWAIT"
    /\ \A i \in 1..Len(c2s) : /\ c2s[i].type \in {"SYN", "DATA", "FIN"}
                              /\ c2s[i].type = "FIN" => Heard

\* Before the first connect nothing has been appended, and while it waits neither.
Opening ==
    /\ connects = 0 => cState \in {"NONE", "CLOSED", "FREED"} /\ cApp = "idle" /\ wrote = << >>
    /\ cApp \in {"synSent", "synWait"} => wrote = << >>

\* In the first connection the SYNs are ahead of all data: one that is still on
\* its way finds an expect_seqNum of 0.
SynsFirst ==
    \A i \in 1..Len(c2s) : c2s[i].type = "SYN" =>
        saved = << >> /\ \A j \in 1..i : c2s[j].type # "DATA"

\* Segments lie end to end in the send buffer, and one in flight is one of them
\* or apart from them all.
EndToEnd ==
    /\ \A i \in 1..(Len(sendBuf) - 1) : sendBuf[i + 1].seq = sendBuf[i].seq + MAX_SEG_LEN
    /\ sendBuf # << >> => sendBuf[Len(sendBuf)].seq + MAX_SEG_LEN = next_seqNum
    /\ \A i \in 1..Len(sendBuf), j \in 1..Len(c2s) : c2s[j].type = "DATA" =>
          \/ c2s[j].seq + MAX_SEG_LEN <= sendBuf[i].seq
          \/ c2s[j].seq = sendBuf[i].seq
          \/ sendBuf[i].seq + MAX_SEG_LEN <= c2s[j].seq

\* No buffered segment has its beginning before a position and its end behind it.
Between(p) == \A i \in 1..Len(sendBuf) : p <= sendBuf[i].seq \/ sendBuf[i].seq + MAX_SEG_LEN <= p

\* What the server has saved, and what it acknowledges, ends between two segments.
AckInv ==
    /\ Between(Len(saved))
    /\ \A i \in 1..Len(s2c) : s2c[i].type = "DATAACK" => s2c[i].ack <= Len(saved) /\ Between(s2c[i].ack)

\* recvBuf is the end of what was saved, until closewait() empties it.
RecvBufInv ==
    accepts <= 1 =>
        \/ delivered \o recvBuf = saved
        \/ /\ recvBuf = << >> /\ IsPrefixOf(delivered, saved)
           /\ accepts = 1 /\ sState \in {"CLOSEWAIT", "CLOSED", "FREED"}

TrackingInv ==
    /\ HeardInv
    /\ FirstConnection => Opening /\ SynsFirst /\ EndToEnd /\ AckInv /\ RecvBufInv
    /\ WindowTracksReceiver

-----------------------------------------------------------------------------
(* What a step may not do.                                                 *)

\* Retransmission never takes the receiver back: within a connection
\* expect_seqNum does not decrease once the first SYN has been handled.
ExpectNeverRewinds ==
    [][FirstConnection /\ sState \in {"CONNECTED", "CLOSEWAIT"}
         => expect_seqNum' >= expect_seqNum]_vars

-----------------------------------------------------------------------------
(* Liveness, under FairSpec.                                               *)

\* The first connection has ended or is ending, or a process has died.
Interrupted == crashed # {} \/ cApp \in {"finSent", "finWait"} \/ cState # "CONNECTED"

\* What has been appended gets through while the connection lasts and recvBuf
\* has room: loss, a full window and lost acknowledgements only delay it.
TransferCompletes ==
    \A n \in 1..MaxStream :
        Len(wrote) >= n ~> Len(saved) >= n \/ Interrupted

\* The timer threads that a window has started end with it.
TimersEnd == sendBuf = << >> ~> tAsleep + tDue = 0 \/ sendBuf # << >> \/ Interrupted

\* A disconnect returns whether or not the server answers.
DisconnectReturns == cApp \in {"finSent", "finWait"} ~> cApp = "idle" \/ crashed # {}

-----------------------------------------------------------------------------
(* Refinement.                                                             *)

\* The transport is a reliable stream from mrt_client_send() to recvBuf.
Stream == INSTANCE ReliableStream WITH written <- wrote, received <- saved
ImplementsStream == Stream!Spec
=============================================================================
