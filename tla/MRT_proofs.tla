----------------------------- MODULE MRT_proofs -----------------------------
(***************************************************************************)
(* Machine-checked proofs about MRT, for every value of its constants with  *)
(* SvrPort # SvrNodeID.                                                     *)
(***************************************************************************)
EXTENDS MRT, TLAPS

\* Facts about sequences, said the way the invariant reads them.

LEMMA ConcatFacts ==
    ASSUME NEW S, NEW s \in Seq(S), NEW t \in Seq(S)
    PROVE  /\ s \o t \in Seq(S)
           /\ Len(s \o t) = Len(s) + Len(t)
           /\ \A i \in 1..Len(s) : (s \o t)[i] = s[i]
           /\ \A i \in 1..Len(t) : (s \o t)[Len(s) + i] = t[i]
           /\ \A i \in (Len(s) + 1)..(Len(s) + Len(t)) : (s \o t)[i] = t[i - Len(s)]
OBVIOUS

\* ConcatFacts for byte streams.
LEMMA ByteConcat ==
    \A s, t \in Seq(Nat) :
        /\ Len(s \o t) = Len(s) + Len(t)
        /\ \A k \in 1..Len(s) : (s \o t)[k] = s[k]
        /\ \A k \in 1..Len(t) : (s \o t)[Len(s) + k] = t[k]
        /\ \A k \in (Len(s) + 1)..(Len(s) + Len(t)) : (s \o t)[k] = t[k - Len(s)]
BY ConcatFacts

LEMMA TailFacts ==
    ASSUME NEW S, NEW s \in Seq(S), s # << >>
    PROVE  /\ Len(s) >= 1
           /\ Head(s) = s[1]
           /\ Head(s) \in S
           /\ Tail(s) \in Seq(S)
           /\ Len(Tail(s)) = Len(s) - 1
           /\ \A i \in 1..Len(Tail(s)) : i + 1 \in 1..Len(s) /\ Tail(s)[i] = s[i + 1]
OBVIOUS

LEMMA SplitFacts ==
    ASSUME NEW S, NEW s \in Seq(S), NEW n \in Nat, n <= Len(s)
    PROVE  /\ SubSeq(s, 1, n) \in Seq(S)
           /\ Len(SubSeq(s, 1, n)) = n
           /\ \A i \in 1..n : SubSeq(s, 1, n)[i] = s[i]
           /\ SubSeq(s, n + 1, Len(s)) \in Seq(S)
           /\ Len(SubSeq(s, n + 1, Len(s))) = Len(s) - n
           /\ \A i \in 1..(Len(s) - n) :
                 n + i \in 1..Len(s) /\ SubSeq(s, n + 1, Len(s))[i] = s[n + i]
OBVIOUS

LEMMA AppendFacts ==
    ASSUME NEW S, NEW s \in Seq(S), NEW e \in S
    PROVE  /\ Append(s, e) \in Seq(S)
           /\ Len(Append(s, e)) = Len(s) + 1
           /\ \A i \in 1..Len(s) : Append(s, e)[i] = s[i]
           /\ Append(s, e)[Len(s) + 1] = e
OBVIOUS
LEMMA MapFacts ==
    ASSUME NEW S, NEW n \in Nat, NEW f, f \in [1..n -> S]
    PROVE  f \in Seq(S) /\ Len(f) = n
OBVIOUS

-----------------------------------------------------------------------------
(* Constants and types.                                                    *)

USE ClientConstants, ServerConstants, SegmentConstants

LEMMA ControlSegment ==
    /\ \A type \in SegTypes : Control(type) \in Segment /\ <<Control(type)>> \in Seq(Segment)
    /\ \A n \in Nat : DataAck(n) \in Segment /\ <<DataAck(n)>> \in Seq(Segment)
    /\ \A s \in BufferedSegment : DataSeg(s) \in Segment
    /\ << >> \in Seq(Segment)
BY DEF Control, DataAck, DataSeg, Segment, SegTypes, BufferedSegment

LEMMA SendableFacts ==
    ASSUME TypeOK, WindowConsistent
    PROVE  /\ Sendable \in Nat
           /\ unAck_segNum + Sendable <= GBN_WINDOW
           /\ unAck_segNum + Sendable <= Len(sendBuf)
           /\ Sendable > 0 => sendBufunSent = unAck_segNum + 1
BY DEF TypeOK, WindowConsistent, Sendable

LEMMA SendingTypes ==
    ASSUME TypeOK, WindowConsistent, sendBuffer_sending
    PROVE  /\ c2s' \in Seq(Segment)
           /\ unAck_segNum' \in Int
           /\ sendBufunSent' \in Nat
           /\ tAsleep' \in Nat
           /\ UNCHANGED <<next_seqNum, sendBuf, tDue>>
<1> DEFINE k == Sendable
           batch == [i \in 1..k |-> DataSeg(sendBuf[sendBufunSent + i - 1])]
<1>1. k \in Nat /\ unAck_segNum + k <= Len(sendBuf) /\ (k > 0 => sendBufunSent = unAck_segNum + 1)
  BY SendableFacts
<1>2. \A i \in 1..k : sendBuf[sendBufunSent + i - 1] \in BufferedSegment
  BY <1>1 DEF TypeOK, WindowConsistent
<1>3. batch \in Seq(Segment)
  BY <1>1, <1>2, ControlSegment, MapFacts
<1>4. c2s' = c2s \o batch
  BY DEF sendBuffer_sending, ToServer
<1>5. c2s' \in Seq(Segment)
  BY <1>3, <1>4, ConcatFacts DEF TypeOK
<1> QED
  BY <1>1, <1>5 DEF TypeOK, sendBuffer_sending

LEMMA ResendTypes ==
    ASSUME TypeOK, WindowConsistent
    PROVE  c2s \o [i \in 1..unAck_segNum |-> DataSeg(sendBuf[i])] \in Seq(Segment)
<1> DEFINE batch == [i \in 1..unAck_segNum |-> DataSeg(sendBuf[i])]
<1>1. \A i \in 1..unAck_segNum : sendBuf[i] \in BufferedSegment
  BY DEF TypeOK, WindowConsistent
<1>2. batch \in Seq(Segment)
  BY <1>1, ControlSegment, MapFacts DEF WindowConsistent
<1> QED
  BY <1>2, ConcatFacts DEF TypeOK

LEMMA AppendTypes ==
    ASSUME TypeOK, NEW data \in Seq(Nat), sendBuffer_append_segment(data)
    PROVE  /\ sendBuf' \in Seq(BufferedSegment)
           /\ next_seqNum' \in Nat
           /\ sendBufunSent' \in Nat
BY AppendFacts DEF TypeOK, sendBuffer_append_segment, BufferedSegment

LEMMA RecvAckTypes ==
    ASSUME TypeOK, NEW ack \in Nat, sendBufferRecvAck(ack)
    PROVE  /\ sendBuf' \in Seq(BufferedSegment)
           /\ sendBufunSent' \in Nat
           /\ unAck_segNum' \in Int
           /\ next_seqNum' \in Nat
<1>1. PICK n \in 0..Len(sendBuf) :
        /\ sendBuf' = SubSeq(sendBuf, n + 1, Len(sendBuf))
        /\ sendBufunSent' = IF sendBufunSent > n THEN sendBufunSent - n ELSE 0
        /\ unAck_segNum' = unAck_segNum - n
        /\ UNCHANGED next_seqNum
  BY DEF sendBufferRecvAck
<1>2. sendBuf' \in Seq(BufferedSegment)
  BY <1>1, SplitFacts DEF TypeOK
<1> QED
  BY <1>1, <1>2 DEF TypeOK

LEMMA SegmentRecvTypes ==
    ASSUME TypeOK, c2s # << >>, segment_recv(Head(c2s))
    PROVE  /\ Tail(c2s) \in Seq(Segment)
           /\ s2c' \in Seq(Segment)
           /\ expect_seqNum' \in Nat
           /\ saved' \in Seq(Nat)
<1>1. Head(c2s) \in Segment /\ Tail(c2s) \in Seq(Segment)
  BY TailFacts DEF TypeOK
<1>2. \A reply \in Seq(Segment) : ToClient(reply) => s2c' \in Seq(Segment)
  BY ConcatFacts DEF TypeOK, ToClient
<1>3. s2c' \in Seq(Segment)
  <2>1. CASE Head(c2s).type = "SYN"
    BY <1>2, <2>1, ControlSegment DEF segment_recv, SegTypes
  <2>2. CASE Head(c2s).type = "FIN"
    BY <1>2, <2>2, ControlSegment DEF segment_recv, SegTypes
  <2>3. CASE Head(c2s).type \notin {"SYN", "FIN"}
    BY <1>2, <2>3, ControlSegment DEF segment_recv
  <2> QED
    BY <2>1, <2>2, <2>3
<1>4. Head(c2s).seq \in Nat
  BY <1>1 DEF Segment
<1> QED
  BY <1>1, <1>3, <1>4 DEF TypeOK, segment_recv

LEMMA DataReceivedTypes ==
    ASSUME TypeOK, c2s # << >>, data_received(Head(c2s))
    PROVE  /\ Tail(c2s) \in Seq(Segment)
           /\ s2c' \in Seq(Segment)
           /\ expect_seqNum' \in Nat
           /\ saved' \in Seq(Nat)
           /\ recvBuf' \in Seq(Nat)
<1> DEFINE seg == Head(c2s)
<1>1. /\ seg \in Segment /\ Tail(c2s) \in Seq(Segment)
      /\ seg.seq \in Nat /\ seg.data \in Seq(Nat) /\ Len(seg.data) \in Nat
  <2>1. seg \in Segment /\ Tail(c2s) \in Seq(Segment)
    BY TailFacts DEF TypeOK
  <2> QED
    BY <2>1 DEF Segment
<1>2. \A n \in Nat : ToClient(<<DataAck(n)>>) => s2c' \in Seq(Segment)
  BY ControlSegment, ConcatFacts DEF TypeOK, ToClient
<1>3. recvBuf \o seg.data \in Seq(Nat) /\ saved \o seg.data \in Seq(Nat)
  BY <1>1, ConcatFacts DEF TypeOK
<1> HIDE DEF seg
<1>4. data_received(seg)
  BY DEF seg
<1>5. CASE seg.seq # expect_seqNum
  BY <1>1, <1>2, <1>4, <1>5 DEF TypeOK, data_received
<1>6. CASE seg.seq = expect_seqNum /\ RECEIVE_BUF_SIZE > Len(seg.data) + Len(recvBuf)
  <2>1. seg.seq + Len(seg.data) \in Nat
    BY <1>1
  <2> QED
    BY <1>1, <1>2, <1>3, <1>4, <1>6, <2>1 DEF data_received
<1>7. CASE seg.seq = expect_seqNum /\ ~ (RECEIVE_BUF_SIZE > Len(seg.data) + Len(recvBuf))
  BY <1>1, <1>4, <1>7 DEF TypeOK, data_received
<1> QED
  BY <1>5, <1>6, <1>7

LEMMA TypeStep ==
    ASSUME TypeOK, WindowConsistent, [Next]_vars
    PROVE  TypeOK'
<1> USE ControlSegment DEF TypeOK, vars, clientVars, tcb, buffer, timers, history, serverVars,
        serverApp, network, Client, Server, ToServer, ToClient, FromClient, FromServer, Crash,
        ClientCrash, Deliver, Receive, SegTypes
<1>1. CASE Client(mrt_client_sock)
  BY <1>1 DEF mrt_client_sock
<1>2. CASE Client(ConnectSyn)
  BY <1>2 DEF ConnectSyn
<1>3. ASSUME NEW n \in SendLengths, Client(SendCall(n)) PROVE TypeOK'
  BY <1>3 DEF SendCall
<1>4. CASE Client(DisconnectFin)
  BY <1>4 DEF DisconnectFin
<1>5. CASE Client(mrt_client_close)
  BY <1>5 DEF mrt_client_close
<1>6. CASE Client(ConnectState)
  BY <1>6 DEF ConnectState
<1>7. CASE Client(ConnectTimeout)
  BY <1>7 DEF ConnectTimeout
<1>8. CASE Client(SendAppend)
  <2> DEFINE data == SubSeq(pending, 1, MAX_SEG_LEN)
  <2>1. data \in Seq(Nat) /\ SubSeq(pending, MAX_SEG_LEN + 1, Len(pending)) \in Seq(Nat)
    BY <1>8, SplitFacts DEF SendAppend
  <2>2. wrote \o data \in Seq(Nat)
    BY <2>1, ConcatFacts
  <2>3. sendBuffer_append_segment(data)
    BY <1>8 DEF SendAppend
  <2>4. /\ sendBuf' \in Seq(BufferedSegment)
        /\ next_seqNum' \in Nat
        /\ sendBufunSent' \in Nat
        /\ UNCHANGED unAck_segNum
    BY <2>1, <2>3, AppendTypes DEF sendBuffer_append_segment
  <2>5. pending' \in Seq(Nat) /\ wrote' \in Seq(Nat)
    BY <1>8, <2>1, <2>2 DEF SendAppend
  <2>6. UNCHANGED <<cState, cApp, finRound, cHandler, timers, connects, given, network, serverVars>>
    BY <1>8 DEF SendAppend
  <2> QED
    BY <2>4, <2>5, <2>6
<1>9. CASE Client(SendReturn)
  <2>1. sendBuffer_sending /\ << >> \in Seq(Nat)
    BY <1>9 DEF SendReturn
  <2>2. /\ c2s' \in Seq(Segment)
        /\ unAck_segNum' \in Int
        /\ sendBufunSent' \in Nat
        /\ tAsleep' \in Nat
        /\ UNCHANGED <<next_seqNum, sendBuf, tDue>>
    BY <2>1, SendingTypes
  <2> QED
    BY <1>9, <2>1, <2>2 DEF SendReturn
<1>10. CASE Client(DisconnectState)
  BY <1>10 DEF DisconnectState
<1>11. CASE Client(DisconnectDone)
  BY <1>11 DEF DisconnectDone
<1>12. CASE Client(DisconnectTimeout)
  BY <1>12 DEF DisconnectTimeout
<1>13. CASE Client(HandleDataAck)
  <2>1. Tail(s2c) \in Seq(Segment) /\ Head(s2c) \in Segment
    BY <1>13, TailFacts DEF HandleDataAck
  <2>2. Head(s2c).ack \in Nat
    BY <2>1 DEF Segment
  <2>3. CASE sendBufferRecvAck(Head(s2c).ack)
    <3>1. /\ sendBuf' \in Seq(BufferedSegment)
          /\ sendBufunSent' \in Nat
          /\ unAck_segNum' \in Int
          /\ next_seqNum' \in Nat
      BY <2>2, <2>3, RecvAckTypes
    <3> QED
      BY <1>13, <2>1, <3>1 DEF HandleDataAck
  <2>4. CASE UNCHANGED <<buffer, cHandler>>
    BY <1>13, <2>1, <2>4 DEF HandleDataAck
  <2> QED
    BY <1>13, <2>3, <2>4 DEF HandleDataAck
<1>14. CASE Client(HandleSending)
  <2>1. /\ c2s' \in Seq(Segment)
        /\ unAck_segNum' \in Int
        /\ sendBufunSent' \in Nat
        /\ tAsleep' \in Nat
        /\ UNCHANGED <<next_seqNum, sendBuf, tDue>>
    BY <1>14, SendingTypes DEF HandleSending
  <2> QED
    BY <1>14, <2>1 DEF HandleSending
<1>15. CASE Client(HandleSendingFreed)
  BY <1>15 DEF HandleSendingFreed
<1>16. CASE Client(HandleStray)
  <2>1. Tail(s2c) \in Seq(Segment)
    BY <1>16, TailFacts DEF HandleStray
  <2>2. crashed' \subseteq {"client", "server"}
    BY <1>16 DEF HandleStray
  <2>3. UNCHANGED <<c2s, clientVars, serverVars>> /\ s2c' = Tail(s2c)
    BY <1>16 DEF HandleStray
  <2> QED
    BY <2>1, <2>2, <2>3
<1>17. CASE Client(HandleSynAck)
  BY <1>17 DEF HandleSynAck
<1>18. CASE Client(HandleFinAck)
  BY <1>18 DEF HandleFinAck
<1>19. CASE Client(HandleIgnored)
  BY <1>19 DEF HandleIgnored
<1>20. CASE Client(TimerPoll)
  BY <1>20 DEF TimerPoll
<1>21. CASE Client(TimerTimeout)
  BY <1>21, ResendTypes DEF TimerTimeout
<1>22. CASE Client(TimerNullHead)
  BY <1>22 DEF TimerNullHead
<1>23. CASE Client(TimerFreed)
  BY <1>23 DEF TimerFreed
<1>24. CASE Server(mrt_server_sock)
  BY <1>24 DEF mrt_server_sock
<1>25. CASE Server(AcceptCall)
  BY <1>25 DEF AcceptCall
<1>26. ASSUME NEW n \in RecvLengths, Server(RecvCall(n)) PROVE TypeOK'
  BY <1>26 DEF RecvCall
<1>27. CASE Server(mrt_server_close)
  BY <1>27 DEF mrt_server_close
<1>28. CASE Server(AcceptReturn)
  BY <1>28 DEF AcceptReturn
<1>29. CASE Server(RecvPoll)
  BY <1>29 DEF RecvPoll
<1>30. CASE Server(RecvCopy)
  <2>1. SubSeq(recvBuf, 1, want) \in Seq(Nat) /\ SubSeq(recvBuf, want + 1, Len(recvBuf)) \in Seq(Nat)
    BY <1>30, SplitFacts DEF RecvCopy
  <2>2. delivered' \in Seq(Nat)
    BY <1>30, <2>1, ConcatFacts DEF RecvCopy
  <2> QED
    BY <1>30, <2>1, <2>2 DEF RecvCopy
<1>31. CASE Server(RecvUnderflow)
  BY <1>31 DEF RecvUnderflow
<1>32. CASE Server(Listening)
  BY <1>32, SegmentRecvTypes DEF Listening
<1>33. CASE Server(ConnectedSyn)
  BY <1>33, SegmentRecvTypes DEF ConnectedSyn
<1>34. CASE Server(ConnectedData)
  BY <1>34, DataReceivedTypes DEF ConnectedData
<1>35. CASE Server(ConnectedFin)
  BY <1>35, SegmentRecvTypes DEF ConnectedFin
<1>36. CASE Server(CloseWaitFin)
  BY <1>36, SegmentRecvTypes DEF CloseWaitFin
<1>37. CASE Server(Dropped)
  BY <1>37 DEF Dropped
<1>38. CASE Server(NoTCB)
  BY <1>38 DEF NoTCB
<1>39. CASE Server(CloseWaitClear)
  BY <1>39 DEF CloseWaitClear
<1>40. CASE Server(CloseWaitEnd)
  BY <1>40 DEF CloseWaitEnd
<1>41. CASE Loss
  <2>1. CASE LoseToServer /\ UNCHANGED <<clientVars, serverVars>>
    <3>1. Tail(c2s) \in Seq(Segment)
      BY <2>1, TailFacts DEF LoseToServer
    <3> QED
      BY <2>1, <3>1 DEF LoseToServer
  <2>2. CASE LoseToClient /\ UNCHANGED <<clientVars, serverVars>>
    <3>1. Tail(s2c) \in Seq(Segment)
      BY <2>2, TailFacts DEF LoseToClient
    <3> QED
      BY <2>2, <3>1 DEF LoseToClient
  <2> QED
    BY <1>41, <2>1, <2>2 DEF Loss
<1>42. CASE UNCHANGED vars
  BY <1>42
<1>43. QED
  BY <1>1, <1>2, <1>3, <1>4, <1>5, <1>6, <1>7, <1>8, <1>9, <1>10, <1>11, <1>12, <1>13, <1>14, <1>15, <1>16, <1>17, <1>18, <1>19, <1>20, <1>21, <1>22, <1>23, <1>24, <1>25, <1>26, <1>27, <1>28, <1>29, <1>30, <1>31, <1>32, <1>33, <1>34, <1>35, <1>36, <1>37, <1>38, <1>39, <1>40, <1>41, <1>42 DEF Next, ClientCalls, ClientSteps,
     ClientHandler, ClientTimers, ServerCalls, ServerSteps, ServerHandler, CloseWait

-----------------------------------------------------------------------------
(* The inductive invariant.  Most actions leave the send buffer and the      *)
(* stream alone: what they do to the network is one of a few things.        *)

LEMMA InitInductive == Init => InductiveInvariant
BY DEF Init, ClientInit, ServerInit, InductiveInvariant, TypeOK, WindowConsistent, ClientInv,
       NetworkInv, ServerInv, SentEnd, IsPrefixOf, Fresh

LEMMA Parts ==
    ASSUME InductiveInvariant
    PROVE  /\ TypeOK /\ WindowConsistent /\ ClientInv /\ NetworkInv /\ ServerInv
           /\ wrote \in Seq(Nat) /\ Len(wrote) \in Nat /\ next_seqNum = Len(wrote)
           /\ saved \in Seq(Nat) /\ Len(saved) \in Nat
           /\ sendBuf \in Seq(BufferedSegment) /\ Len(sendBuf) \in Nat
           /\ unAck_segNum \in Nat /\ sendBufunSent \in Nat
           /\ c2s \in Seq(Segment) /\ Len(c2s) \in Nat
           /\ s2c \in Seq(Segment) /\ Len(s2c) \in Nat
           /\ \A i \in 1..Len(sendBuf) : sendBuf[i] \in BufferedSegment
           /\ \A i \in 1..Len(c2s) : c2s[i] \in Segment
           /\ \A i \in 1..Len(s2c) : s2c[i] \in Segment
<1>1. TypeOK /\ WindowConsistent /\ ClientInv /\ NetworkInv /\ ServerInv
  BY DEF InductiveInvariant
<1>2. /\ wrote \in Seq(Nat)
      /\ saved \in Seq(Nat)
      /\ sendBuf \in Seq(BufferedSegment)
      /\ sendBufunSent \in Nat
      /\ c2s \in Seq(Segment)
      /\ s2c \in Seq(Segment)
  BY <1>1 DEF TypeOK
<1>3. next_seqNum = Len(wrote)
  BY <1>1 DEF ClientInv
<1>4. unAck_segNum \in Nat
  BY <1>1 DEF WindowConsistent
<1>5. \A S : \A s \in Seq(S) : Len(s) \in Nat /\ \A i \in 1..Len(s) : s[i] \in S
  OBVIOUS
<1>6. /\ \A i \in 1..Len(sendBuf) : sendBuf[i] \in BufferedSegment
      /\ Len(sendBuf) \in Nat
  BY <1>2, <1>5
<1>7. /\ \A i \in 1..Len(c2s) : c2s[i] \in Segment
      /\ Len(c2s) \in Nat
  BY <1>2, <1>5
<1>8. /\ \A i \in 1..Len(s2c) : s2c[i] \in Segment
      /\ Len(s2c) \in Nat
  BY <1>2, <1>5
<1>9. Len(wrote) \in Nat /\ Len(saved) \in Nat
  BY <1>2, <1>5
<1> QED
  BY <1>1, <1>2, <1>3, <1>4, <1>6, <1>7, <1>8, <1>9

LEMMA InFlight ==
    ASSUME InductiveInvariant, NEW i \in 1..Len(c2s)
    PROVE  /\ c2s[i].type = "DATA" => Carries(c2s[i], SentEnd)
           /\ c2s[i].type = "SYN" => c2s[i].seq = 0
<1>1. NetworkInv
  BY DEF InductiveInvariant
<1> QED
  BY <1>1 DEF NetworkInv

\* What most steps do to a direction: nothing, take its oldest segment, or
\* send one that has no data.  (A SYNACK is not among the latter: see Fresh.)
QuietToServer ==
    \/ UNCHANGED c2s
    \/ FromClient
    \/ \E type \in {"SYN", "FIN"} : ToServer(<<Control(type)>>)

QuietToClient ==
    \/ UNCHANGED s2c
    \/ FromServer
    \/ ToClient(<<Control("FINACK")>>)
    \/ \E n \in Nat : n <= SentEnd /\ ToClient(<<DataAck(n)>>)

LEMMA SentEndFacts ==
    ASSUME InductiveInvariant
    PROVE  SentEnd \in Nat /\ SentEnd <= Len(wrote) /\ Len(wrote) \in Nat
<1>1. next_seqNum = Len(wrote) /\ Len(wrote) \in Nat
  BY DEF InductiveInvariant, TypeOK, ClientInv
<1>2. CASE sendBufunSent = 0
  BY <1>1, <1>2 DEF SentEnd
<1>3. CASE sendBufunSent # 0
  <2>1. sendBufunSent \in 1..Len(sendBuf)
    BY <1>3 DEF InductiveInvariant, TypeOK, WindowConsistent
  <2>2. sendBuf[sendBufunSent].seq \in Nat
    <3>1. sendBuf[sendBufunSent] \in BufferedSegment
      BY <2>1 DEF InductiveInvariant, TypeOK
    <3> QED
      BY <3>1 DEF BufferedSegment
  <2>3. sendBuf[sendBufunSent].seq + MAX_SEG_LEN <= next_seqNum
    BY <2>1 DEF InductiveInvariant, ClientInv, Carries
  <2> QED
    BY <1>1, <1>3, <2>2, <2>3 DEF SentEnd
<1> QED
  BY <1>2, <1>3

\* What is in flight to the server after a quiet step.
LEMMA QuietData ==
    ASSUME TypeOK, QuietToServer
    PROVE  \A i \in 1..Len(c2s') :
             \/ \E j \in 1..Len(c2s) : c2s'[i] = c2s[j]
             \/ c2s'[i].type # "DATA" /\ c2s'[i].seq = 0
<1>1. CASE UNCHANGED c2s
  BY <1>1
<1>2. CASE FromClient
  <2>1. /\ Len(Tail(c2s)) = Len(c2s) - 1
        /\ \A i \in 1..Len(Tail(c2s)) : i + 1 \in 1..Len(c2s) /\ Tail(c2s)[i] = c2s[i + 1]
    BY <1>2, TailFacts DEF TypeOK, FromClient
  <2> QED
    BY <1>2, <2>1 DEF FromClient
<1>3. ASSUME NEW type \in {"SYN", "FIN"}, ToServer(<<Control(type)>>), NEW i \in 1..Len(c2s')
      PROVE  \/ \E j \in 1..Len(c2s) : c2s'[i] = c2s[j]
             \/ c2s'[i].type # "DATA" /\ c2s'[i].seq = 0
  <2>1. /\ Len(c2s') = Len(c2s) + 1
        /\ \A j \in 1..Len(c2s) : c2s'[j] = c2s[j]
        /\ c2s'[Len(c2s) + 1] = Control(type)
    BY <1>3, ControlSegment DEF TypeOK, ToServer, SegTypes
  <2>2. Control(type).type # "DATA" /\ Control(type).seq = 0
    BY DEF Control
  <2>3. i \in 1..Len(c2s) \/ i = Len(c2s) + 1
    BY <2>1 DEF TypeOK
  <2> QED
    BY <2>1, <2>2, <2>3
<1> QED
  BY <1>1, <1>2, <1>3 DEF QuietToServer

\* What is in flight to the client after one segment was sent there.
LEMMA ReplyFacts ==
    ASSUME TypeOK, NEW seg \in Segment, ToClient(<<seg>>), NEW i \in 1..Len(s2c')
    PROVE  (\E j \in 1..Len(s2c) : s2c'[i] = s2c[j]) \/ s2c'[i] = seg
<1>1. CASE s2c' = s2c
  BY <1>1
<1>2. CASE s2c' = s2c \o <<seg>>
  <2>1. /\ Len(s2c') = Len(s2c) + 1
        /\ \A j \in 1..Len(s2c) : s2c'[j] = s2c[j]
        /\ s2c'[Len(s2c) + 1] = seg
    BY <1>2 DEF TypeOK
  <2>2. i \in 1..Len(s2c) \/ i = Len(s2c) + 1
    <3>1. Len(s2c) \in Nat /\ i \in 1..(Len(s2c) + 1)
      BY <2>1 DEF TypeOK
    <3> QED
      BY <3>1
  <2> QED
    BY <2>1, <2>2
<1> QED
  BY <1>1, <1>2 DEF ToClient

\* What is in flight to the client after a quiet step.
LEMMA QuietReplies ==
    ASSUME TypeOK, QuietToClient, NEW i \in 1..Len(s2c')
    PROVE  \/ \E j \in 1..Len(s2c) : s2c'[i] = s2c[j]
           \/ s2c'[i].type \notin {"SYNACK", "DATAACK"}
           \/ s2c'[i].type = "DATAACK" /\ s2c'[i].ack <= SentEnd
<1>1. CASE UNCHANGED s2c
  BY <1>1
<1>2. CASE FromServer
  <2>1. /\ Len(Tail(s2c)) = Len(s2c) - 1
        /\ \A j \in 1..Len(Tail(s2c)) : j + 1 \in 1..Len(s2c) /\ Tail(s2c)[j] = s2c[j + 1]
    BY <1>2, TailFacts DEF TypeOK, FromServer
  <2> QED
    BY <1>2, <2>1 DEF FromServer
<1>3. CASE ToClient(<<Control("FINACK")>>)
  <2>1. Control("FINACK") \in Segment
    BY ControlSegment DEF SegTypes
  <2>2. Control("FINACK").type = "FINACK"
    BY DEF Control
  <2> QED
    BY <1>3, <2>1, <2>2, ReplyFacts
<1>4. ASSUME NEW n \in Nat, n <= SentEnd, ToClient(<<DataAck(n)>>)
      PROVE  \/ \E j \in 1..Len(s2c) : s2c'[i] = s2c[j]
             \/ s2c'[i].type = "DATAACK" /\ s2c'[i].ack <= SentEnd
  <2>1. DataAck(n) \in Segment
    BY ControlSegment
  <2>2. DataAck(n).type = "DATAACK" /\ DataAck(n).ack = n
    BY DEF DataAck
  <2> QED
    BY <1>4, <2>1, <2>2, ReplyFacts
<1> QED
  BY <1>1, <1>2, <1>3, <1>4 DEF QuietToClient

\* Fresh survives whatever does not answer a SYN.
LEMMA FreshKept ==
    ASSUME TypeOK, Fresh, QuietToClient, UNCHANGED wrote,
           cState' \in {"NONE", "CLOSED", "SYNSENT", "FREED"},
           cApp' \in {"idle", "synSent", "synWait"}
    PROVE  Fresh'
<1>1. ASSUME NEW i \in 1..Len(s2c')
      PROVE  s2c'[i].type # "SYNACK"
  BY QuietReplies DEF Fresh
<1> QED
  BY <1>1 DEF Fresh

LEMMA ServerKept ==
    ASSUME InductiveInvariant, UNCHANGED <<wrote, saved, expect_seqNum>>,
           SentEnd' \in Nat, SentEnd' >= SentEnd,
           sState' = "NONE" => sState = "NONE", Fresh => Fresh'
    PROVE  ServerInv'
<1>1. Len(saved) \in Nat /\ SentEnd \in Nat
  BY SentEndFacts DEF InductiveInvariant, TypeOK
<1>2. Len(saved) <= SentEnd'
  BY <1>1 DEF InductiveInvariant, ServerInv
<1>3. (Len(saved) <= SentEnd)'
  BY <1>2
<1> QED
  BY <1>3 DEF InductiveInvariant, ServerInv, IsPrefixOf

\* A quiet step: the buffer and the stream stay.
LEMMA QuietKeeps ==
    ASSUME InductiveInvariant, TypeOK', UNCHANGED <<buffer, wrote, saved, expect_seqNum>>,
           QuietToServer, QuietToClient,
           cApp' = "finWait" => cState' = "FINWAIT",
           sState' = "NONE" => sState = "NONE",
           Fresh => /\ cState' \in {"NONE", "CLOSED", "SYNSENT", "FREED"}
                    /\ cApp' \in {"idle", "synSent", "synWait"}
    PROVE  InductiveInvariant'
<1>1. TypeOK
  BY DEF InductiveInvariant
<1>2. WindowConsistent' /\ ClientInv' /\ SentEnd' = SentEnd
  BY DEF InductiveInvariant, buffer, WindowConsistent, ClientInv, SentEnd, Carries
<1>3. ASSUME NEW i \in 1..Len(c2s')
      PROVE  /\ c2s'[i].type = "DATA" => Carries(c2s[i], SentEnd)'
             /\ c2s'[i].type = "SYN" => c2s'[i].seq = 0
  <2>1. CASE \E j \in 1..Len(c2s) : c2s'[i] = c2s[j]
    <3>1. PICK j \in 1..Len(c2s) : c2s'[i] = c2s[j]
      BY <2>1
    <3>2. /\ c2s[j].type = "DATA" => Carries(c2s[j], SentEnd)
          /\ c2s[j].type = "SYN" => c2s[j].seq = 0
      BY InFlight
    <3> QED
      BY <1>2, <3>1, <3>2 DEF Carries
  <2>2. CASE c2s'[i].type # "DATA" /\ c2s'[i].seq = 0
    BY <2>2
  <2> QED
    BY <1>1, <2>1, <2>2, QuietData
<1>4. ASSUME NEW i \in 1..Len(s2c'), s2c'[i].type = "DATAACK"
      PROVE  s2c'[i].ack <= SentEnd'
  <2>1. CASE \E j \in 1..Len(s2c) : s2c'[i] = s2c[j]
    BY <1>2, <1>4, <2>1 DEF InductiveInvariant, NetworkInv
  <2>2. CASE s2c'[i].ack <= SentEnd
    BY <1>2, <2>2
  <2> QED
    BY <1>1, <1>4, <2>1, <2>2, QuietReplies
<1>5. Fresh => Fresh'
  BY <1>1, FreshKept
<1>6. ServerInv'
  BY <1>2, <1>5, SentEndFacts, ServerKept
<1> QED
  BY <1>2, <1>3, <1>4, <1>6 DEF InductiveInvariant, NetworkInv

\* Whatever extends the stream and the sent part of it keeps what is in flight.
LEMMA CarriesGrows ==
    ASSUME TypeOK, NEW seg, NEW end \in Nat, Carries(seg, end), end <= Len(wrote), seg.seq \in Nat,
           \A k \in 1..Len(wrote) : wrote'[k] = wrote[k],
           NEW later \in Nat, later >= end
    PROVE  /\ Len(seg.data) = MAX_SEG_LEN
           /\ seg.seq + MAX_SEG_LEN <= later
           /\ \A k \in 1..MAX_SEG_LEN : seg.data[k] = wrote'[seg.seq + k]
<1>1. Len(wrote) \in Nat /\ seg.seq + MAX_SEG_LEN <= end
  BY DEF TypeOK, Carries
<1>2. \A k \in 1..MAX_SEG_LEN : seg.seq + k \in 1..Len(wrote)
  BY <1>1
<1>3. \A k \in 1..MAX_SEG_LEN : seg.data[k] = wrote'[seg.seq + k]
  BY <1>2 DEF Carries
<1> QED
  <2>1. seg.seq + MAX_SEG_LEN <= later
    BY <1>1
  <2> QED
    BY <1>3, <2>1, Zenon DEF Carries

-----------------------------------------------------------------------------
(* The steps that send.                                                    *)

LEMMA BufferFields ==
    ASSUME InductiveInvariant, NEW i \in 1..Len(sendBuf)
    PROVE  /\ sendBuf[i].seq \in Nat
           /\ DataSeg(sendBuf[i]).seq = sendBuf[i].seq
           /\ DataSeg(sendBuf[i]).data = sendBuf[i].data
           /\ sendBuf[i].seq + MAX_SEG_LEN <= next_seqNum
           /\ \A end \in Nat : sendBuf[i].seq + MAX_SEG_LEN <= end => Carries(DataSeg(sendBuf[i]), end)
<1>1. sendBuf[i] \in BufferedSegment
  BY DEF InductiveInvariant, TypeOK
<1>2. Carries(sendBuf[i], next_seqNum)
  BY DEF InductiveInvariant, ClientInv
<1> QED
  BY <1>1, <1>2 DEF BufferedSegment, DataSeg, Carries

\* What the window holds ends by SentEnd, before and after a sending.
LEMMA WindowEnd ==
    ASSUME InductiveInvariant, NEW i \in 1..unAck_segNum
    PROVE  i \in 1..Len(sendBuf) /\ sendBuf[i].seq + MAX_SEG_LEN <= SentEnd
<1>1. i \in 1..Len(sendBuf)
  BY DEF InductiveInvariant, TypeOK, WindowConsistent
<1>2. CASE sendBufunSent = 0
  BY <1>1, <1>2, BufferFields DEF SentEnd
<1>3. CASE sendBufunSent # 0
  <2>1. sendBufunSent \in 1..Len(sendBuf) /\ i < sendBufunSent
    BY <1>3 DEF InductiveInvariant, TypeOK, WindowConsistent
  <2> QED
    BY <1>1, <1>3, <2>1 DEF InductiveInvariant, ClientInv, SentEnd
<1> QED
  BY <1>1, <1>2, <1>3

LEMMA SendingWindow ==
    ASSUME InductiveInvariant, sendBuffer_sending, UNCHANGED <<wrote, cState>>,
           cApp' # "finWait" \/ UNCHANGED cApp
    PROVE  /\ WindowConsistent'
           /\ ClientInv'
           /\ SentEnd' \in Nat
           /\ SentEnd' >= SentEnd
           /\ \A i \in 1..(unAck_segNum + Sendable) :
                 i \in 1..Len(sendBuf) /\ sendBuf[i].seq + MAX_SEG_LEN <= SentEnd'
<1> DEFINE k == Sendable
<1>1. /\ TypeOK /\ WindowConsistent /\ k \in Nat
      /\ unAck_segNum + k <= GBN_WINDOW
      /\ unAck_segNum + k <= Len(sendBuf)
      /\ k > 0 => sendBufunSent = unAck_segNum + 1
      /\ unAck_segNum \in Nat /\ Len(sendBuf) \in Nat /\ sendBufunSent \in Nat
  BY SendableFacts DEF InductiveInvariant, TypeOK, WindowConsistent
<1>2. /\ unAck_segNum' = unAck_segNum + k
      /\ sendBufunSent' = IF sendBufunSent = 0 \/ sendBufunSent + k > Len(sendBuf)
                            THEN 0 ELSE sendBufunSent + k
      /\ UNCHANGED <<next_seqNum, sendBuf>>
  BY DEF sendBuffer_sending
<1> HIDE DEF k
<1>3. WindowConsistent'
  BY <1>1, <1>2 DEF WindowConsistent
<1>4. ClientInv'
  BY <1>2 DEF InductiveInvariant, ClientInv, Carries
<1>5. \A i \in 1..(unAck_segNum + k) :
         i \in 1..Len(sendBuf) /\ sendBuf[i].seq + MAX_SEG_LEN <= SentEnd'
  <2> TAKE i \in 1..(unAck_segNum + k)
  <2>1. i \in 1..Len(sendBuf)
    BY <1>1
  <2>2. CASE sendBufunSent' = 0
    BY <1>2, <2>1, <2>2, BufferFields DEF SentEnd
  <2>3. CASE sendBufunSent' # 0
    <3>1. sendBufunSent' \in 1..Len(sendBuf) /\ i < sendBufunSent'
      BY <1>1, <1>2, <2>3 DEF WindowConsistent
    <3> QED
      BY <1>2, <2>1, <2>3, <3>1 DEF InductiveInvariant, ClientInv, SentEnd
  <2> QED
    BY <2>1, <2>2, <2>3
<1>6. SentEnd' \in Nat
  <2>1. CASE sendBufunSent' = 0
    BY <1>1, <1>2, <2>1 DEF SentEnd, TypeOK
  <2>2. CASE sendBufunSent' # 0
    <3>1. sendBufunSent' \in 1..Len(sendBuf)
      BY <1>1, <1>2, <2>2
    <3> QED
      BY <1>2, <2>2, <3>1, BufferFields DEF SentEnd
  <2> QED
    BY <2>1, <2>2
<1>7. SentEnd' >= SentEnd
  <2>1. CASE k = 0
    <3>1. sendBufunSent' = sendBufunSent
      BY <1>1, <1>2, <2>1 DEF WindowConsistent
    <3> QED
      BY <1>2, <1>6, <3>1 DEF SentEnd
  <2>2. CASE k > 0
    <3>1. unAck_segNum + 1 \in 1..(unAck_segNum + k) /\ sendBufunSent # 0
      BY <1>1, <2>2
    <3>2. SentEnd = sendBuf[unAck_segNum + 1].seq
      BY <1>1, <2>2, <3>1 DEF SentEnd
    <3>3. sendBuf[unAck_segNum + 1].seq \in Nat
      BY <1>5, <3>1, BufferFields
    <3> QED
      BY <1>5, <1>6, <3>1, <3>2, <3>3
  <2> QED
    BY <1>1, <2>1, <2>2
<1> QED
  BY <1>3, <1>4, <1>5, <1>6, <1>7 DEF k

LEMMA JoinFacts ==
    ASSUME c2s \in Seq(Segment), NEW batch \in Seq(Segment), c2s' = c2s \o batch
    PROVE  /\ Len(c2s') = Len(c2s) + Len(batch)
           /\ \A j \in 1..Len(c2s) : c2s'[j] = c2s[j]
           /\ \A j \in 1..Len(batch) : c2s'[Len(c2s) + j] = batch[j]
           /\ Len(c2s) \in Nat
OBVIOUS

\* A batch of segments of the window joins the segments in flight.
LEMMA BatchCarries ==
    ASSUME InductiveInvariant, NEW n \in Nat, NEW from \in Nat, UNCHANGED wrote, TypeOK',
           SentEnd' \in Nat, SentEnd' >= SentEnd,
           \A i \in 1..n : from + i \in 1..Len(sendBuf)
                          /\ sendBuf[from + i].seq + MAX_SEG_LEN <= SentEnd',
           NEW batch, batch \in Seq(Segment), Len(batch) = n,
           \A i \in 1..n : batch[i] = DataSeg(sendBuf[from + i]),
           c2s' = c2s \o batch
    PROVE  \A i \in 1..Len(c2s') : /\ c2s'[i].type = "DATA" => Carries(c2s[i], SentEnd)'
                                   /\ c2s'[i].type = "SYN" => c2s'[i].seq = 0
<1> SUFFICES ASSUME NEW i \in 1..Len(c2s')
             PROVE  /\ c2s'[i].type = "DATA" => Carries(c2s'[i], SentEnd')
                    /\ c2s'[i].type = "SYN" => c2s'[i].seq = 0
  BY DEF Carries
<1>0. c2s \in Seq(Segment)
  BY DEF InductiveInvariant, TypeOK
<1>1. /\ Len(c2s') = Len(c2s) + n
      /\ \A j \in 1..Len(c2s) : c2s'[j] = c2s[j]
      /\ \A j \in 1..n : c2s'[Len(c2s) + j] = batch[j]
      /\ Len(c2s) \in Nat
  BY <1>0, JoinFacts
<1>2. CASE i \in 1..Len(c2s)
  <2>1. c2s[i] \in Segment
    BY <1>0, <1>2
  <2>2. c2s[i].seq \in Nat
    BY <2>1 DEF Segment
  <2>3. ASSUME c2s[i].type = "DATA"
        PROVE  Carries(c2s[i], SentEnd')
    <3>1. Carries(c2s[i], SentEnd)
      BY <1>2, <2>3, InFlight
    <3> QED
      BY <2>2, <3>1, SentEndFacts DEF Carries
  <2> QED
    BY <1>1, <1>2, <2>3, InFlight
<1>3. CASE i \notin 1..Len(c2s)
  <2>1. PICK j \in 1..n : i = Len(c2s) + j
    <3>1. i - Len(c2s) \in 1..n /\ i = Len(c2s) + (i - Len(c2s))
      BY <1>1, <1>3
    <3> QED
      BY <3>1
  <2>2. c2s'[i] = DataSeg(sendBuf[from + j])
    BY <1>1, <2>1
  <2>3. Carries(DataSeg(sendBuf[from + j]), SentEnd')
    BY <2>1, BufferFields
  <2>4. DataSeg(sendBuf[from + j]).type = "DATA"
    BY DEF DataSeg
  <2> QED
    BY <2>2, <2>3, <2>4
<1> QED
  BY <1>2, <1>3

\* Acknowledgements in flight stay below what was sent when more is sent.
LEMMA AcksKept ==
    ASSUME InductiveInvariant, UNCHANGED s2c, SentEnd' \in Nat, SentEnd' >= SentEnd
    PROVE  \A i \in 1..Len(s2c') : s2c'[i].type = "DATAACK" => s2c'[i].ack <= SentEnd'
<1> SUFFICES ASSUME NEW i \in 1..Len(s2c), s2c[i].type = "DATAACK"
             PROVE  s2c[i].ack <= SentEnd'
  OBVIOUS
<1>1. s2c[i] \in Segment
  BY DEF InductiveInvariant, TypeOK
<1>2. s2c[i].ack \in Nat
  BY <1>1 DEF Segment
<1>3. NetworkInv
  BY DEF InductiveInvariant
<1>4. s2c[i].ack <= SentEnd
  BY <1>3 DEF NetworkInv
<1> QED
  BY <1>2, <1>4, SentEndFacts

LEMMA SendingKeeps ==
    ASSUME InductiveInvariant, TypeOK', sendBuffer_sending,
           UNCHANGED <<wrote, cState, s2c, saved, expect_seqNum, sState>>,
           cApp' # "finWait" \/ UNCHANGED cApp,
           Fresh => cApp' \in {"idle", "synSent", "synWait"}
    PROVE  InductiveInvariant'
<1> DEFINE k == Sendable
           batch == [i \in 1..k |-> DataSeg(sendBuf[sendBufunSent + i - 1])]
<1>1. /\ TypeOK /\ k \in Nat /\ unAck_segNum \in Nat /\ sendBufunSent \in Nat
      /\ k > 0 => sendBufunSent = unAck_segNum + 1
  BY Parts, SendableFacts
<1>2. /\ WindowConsistent' /\ ClientInv' /\ SentEnd' \in Nat /\ SentEnd' >= SentEnd
      /\ \A i \in 1..(unAck_segNum + k) :
            i \in 1..Len(sendBuf) /\ sendBuf[i].seq + MAX_SEG_LEN <= SentEnd'
  BY SendingWindow
<1>3. c2s' = c2s \o batch
  BY DEF sendBuffer_sending, ToServer
<1> HIDE DEF k
<1>4. \A i \in 1..k : unAck_segNum + i \in 1..(unAck_segNum + k)
                      /\ sendBufunSent + i - 1 = unAck_segNum + i
  BY <1>1
<1>5. \A i \in 1..k : unAck_segNum + i \in 1..Len(sendBuf)
                      /\ sendBuf[unAck_segNum + i].seq + MAX_SEG_LEN <= SentEnd'
                      /\ batch[i] = DataSeg(sendBuf[unAck_segNum + i])
  BY <1>2, <1>4
<1>6. batch \in Seq(Segment) /\ Len(batch) = k
  <2>1. \A i \in 1..k : sendBuf[unAck_segNum + i] \in BufferedSegment
    BY <1>5, Parts
  <2>2. \A i \in 1..k : batch[i] \in Segment
    BY <1>5, <2>1, ControlSegment
  <2> QED
    BY <1>1, <2>2, MapFacts
<1> HIDE DEF batch
<1>7. \A i \in 1..Len(c2s') : /\ c2s'[i].type = "DATA" => Carries(c2s[i], SentEnd)'
                              /\ c2s'[i].type = "SYN" => c2s'[i].seq = 0
  <2>1. \A i \in 1..k : unAck_segNum + i \in 1..Len(sendBuf)
                        /\ sendBuf[unAck_segNum + i].seq + MAX_SEG_LEN <= SentEnd'
    BY <1>5
  <2>2. \A i \in 1..k : batch[i] = DataSeg(sendBuf[unAck_segNum + i])
    BY <1>5
  <2> QED
    <3>1. /\ InductiveInvariant /\ TypeOK' /\ UNCHANGED wrote
          /\ SentEnd' \in Nat /\ SentEnd' >= SentEnd
          /\ k \in Nat /\ unAck_segNum \in Nat
          /\ batch \in Seq(Segment) /\ Len(batch) = k /\ c2s' = c2s \o batch
      BY <1>1, <1>2, <1>3, <1>6
    <3> QED
      BY <2>1, <2>2, <3>1, BatchCarries, Zenon
<1>8. NetworkInv'
  BY <1>2, <1>7, AcksKept DEF NetworkInv
<1>9. Fresh => Fresh'
  BY DEF Fresh
<1>10. ServerInv'
  BY <1>2, <1>9, ServerKept
<1> QED
  BY <1>2, <1>8, <1>10 DEF InductiveInvariant

\* sendBuffer_timeout(): what the window holds is sent again.
LEMMA ResendKeeps ==
    ASSUME InductiveInvariant, TypeOK', Client(TimerTimeout)
    PROVE  InductiveInvariant'
<1> DEFINE batch == [i \in 1..unAck_segNum |-> DataSeg(sendBuf[i])]
<1>1. /\ UNCHANGED <<buffer, cState, cApp, wrote, s2c, sState, expect_seqNum, saved>>
      /\ c2s' = c2s \o batch
  BY DEF Client, TimerTimeout, ToServer, tcb, buffer, history, serverVars
<1>2. unAck_segNum \in Nat /\ TypeOK
  BY DEF InductiveInvariant, WindowConsistent
<1>3. WindowConsistent' /\ ClientInv' /\ SentEnd' = SentEnd
  BY <1>1 DEF InductiveInvariant, buffer, WindowConsistent, ClientInv, SentEnd, Carries
<1>4. SentEnd' \in Nat /\ SentEnd' >= SentEnd
  BY <1>3, SentEndFacts
<1>5. \A i \in 1..unAck_segNum : 0 + i = i /\ i \in 1..Len(sendBuf)
                                 /\ sendBuf[i].seq + MAX_SEG_LEN <= SentEnd'
  BY <1>2, <1>3, WindowEnd
<1>6. batch \in Seq(Segment) /\ Len(batch) = unAck_segNum
  <2>1. \A i \in 1..unAck_segNum : sendBuf[i] \in BufferedSegment
    BY <1>5, Parts
  <2>2. \A i \in 1..unAck_segNum : batch[i] \in Segment
    BY <2>1, ControlSegment
  <2> QED
    BY <1>2, <2>2, MapFacts
<1>7. \A i \in 1..unAck_segNum : batch[i] = DataSeg(sendBuf[0 + i])
  BY <1>5
<1>8. \A i \in 1..unAck_segNum : 0 + i \in 1..Len(sendBuf)
                                 /\ sendBuf[0 + i].seq + MAX_SEG_LEN <= SentEnd'
  BY <1>5
<1> HIDE DEF batch
<1>9. \A i \in 1..Len(c2s') : /\ c2s'[i].type = "DATA" => Carries(c2s[i], SentEnd)'
                              /\ c2s'[i].type = "SYN" => c2s'[i].seq = 0
  BY <1>1, <1>2, <1>4, <1>6, <1>7, <1>8, BatchCarries
<1>10. NetworkInv'
  BY <1>1, <1>4, <1>9, AcksKept DEF NetworkInv
<1>11. Fresh => Fresh'
  BY <1>1 DEF Fresh
<1>12. ServerInv'
  BY <1>1, <1>4, <1>11, ServerKept
<1> QED
  BY <1>3, <1>10, <1>12 DEF InductiveInvariant

-----------------------------------------------------------------------------
(* The steps that change the send buffer.                                  *)

\* sendBuffer_append_segment(): the stream grows by what the segment carries.
LEMMA AppendKeeps ==
    ASSUME InductiveInvariant, TypeOK', Client(SendAppend)
    PROVE  InductiveInvariant'
<1> DEFINE data == SubSeq(pending, 1, MAX_SEG_LEN)
           new == [seq |-> next_seqNum, data |-> data]
<1>1. /\ TypeOK /\ WindowConsistent /\ ClientInv /\ NetworkInv /\ ServerInv
      /\ Len(wrote) \in Nat /\ next_seqNum = Len(wrote) /\ wrote \in Seq(Nat)
      /\ sendBuf \in Seq(BufferedSegment) /\ Len(sendBuf) \in Nat /\ MAX_SEG_LEN \in Nat \ {0}
  BY Parts
<1>2. data \in Seq(Nat) /\ Len(data) = MAX_SEG_LEN
  <2>1. pending \in Seq(Nat)
    BY <1>1 DEF TypeOK
  <2>2. MAX_SEG_LEN <= Len(pending)
    BY <1>1, <2>1 DEF Client, SendAppend
  <2> QED
    BY <1>1, <2>1, <2>2, SplitFacts
<1>3. /\ sendBuf' = Append(sendBuf, new)
      /\ next_seqNum' = next_seqNum + Len(data)
      /\ sendBufunSent' = IF sendBuf = << >> \/ sendBufunSent = 0
                            THEN Len(sendBuf) + 1 ELSE sendBufunSent
      /\ wrote' = wrote \o data
      /\ UNCHANGED <<unAck_segNum, cState, cApp, c2s, s2c, sState, expect_seqNum, saved>>
      /\ cApp = "append"
  BY DEF Client, SendAppend, sendBuffer_append_segment, network, serverVars
<1> HIDE DEF data
<1>4. /\ Len(wrote') = Len(wrote) + MAX_SEG_LEN
      /\ \A k \in 1..Len(wrote) : wrote'[k] = wrote[k]
      /\ \A k \in 1..MAX_SEG_LEN : wrote'[Len(wrote) + k] = data[k]
  <2>1. /\ Len(wrote \o data) = Len(wrote) + Len(data)
        /\ \A k \in 1..Len(wrote) : (wrote \o data)[k] = wrote[k]
        /\ \A k \in 1..Len(data) : (wrote \o data)[Len(wrote) + k] = data[k]
    BY <1>1, <1>2, ByteConcat
  <2> QED
    BY <1>2, <1>3, <2>1
<1>5. /\ Len(sendBuf') = Len(sendBuf) + 1
      /\ \A i \in 1..Len(sendBuf) : sendBuf'[i] = sendBuf[i]
      /\ sendBuf'[Len(sendBuf) + 1] = new
  <2>1. new \in BufferedSegment
    BY <1>1, <1>2 DEF BufferedSegment
  <2> QED
    BY <1>1, <1>3, <2>1, AppendFacts
<1>6. next_seqNum' = Len(wrote') /\ next_seqNum' \in Nat /\ next_seqNum' = next_seqNum + MAX_SEG_LEN
  BY <1>1, <1>2, <1>3, <1>4
<1>7. SentEnd' = SentEnd
  <2>1. CASE sendBufunSent = 0
    <3>1. sendBufunSent' = Len(sendBuf) + 1 /\ sendBufunSent' # 0
      BY <1>1, <1>3, <2>1
    <3> QED
      BY <1>5, <2>1, <3>1 DEF SentEnd
  <2>2. CASE sendBufunSent # 0
    <3>1. sendBufunSent \in 1..Len(sendBuf) /\ sendBuf # << >> /\ sendBufunSent' = sendBufunSent
      BY <1>1, <1>3, <2>2 DEF WindowConsistent
    <3> QED
      BY <1>5, <2>2, <3>1 DEF SentEnd
  <2> QED
    BY <2>1, <2>2
<1>8. WindowConsistent'
  BY <1>1, <1>3, <1>5 DEF WindowConsistent
<1>9. ASSUME NEW seg, NEW end \in Nat, Carries(seg, end), end <= Len(wrote), seg.seq \in Nat,
             NEW later \in Nat, later >= end
      PROVE  /\ Len(seg.data) = MAX_SEG_LEN
             /\ seg.seq + MAX_SEG_LEN <= later
             /\ \A k \in 1..MAX_SEG_LEN : seg.data[k] = wrote'[seg.seq + k]
  BY <1>1, <1>4, <1>9, CarriesGrows
<1>10. ClientInv'
  <2>1. ASSUME NEW i \in 1..Len(sendBuf')
        PROVE  Carries(sendBuf[i], next_seqNum)'
    <3>1. CASE i \in 1..Len(sendBuf)
      <4>1. Carries(sendBuf[i], next_seqNum) /\ sendBuf[i].seq \in Nat
        BY <1>1, <3>1, BufferFields DEF ClientInv
      <4>2. next_seqNum \in Nat /\ next_seqNum <= Len(wrote) /\ next_seqNum' >= next_seqNum
        BY <1>1, <1>6
      <4>3. /\ Len(sendBuf[i].data) = MAX_SEG_LEN
            /\ sendBuf[i].seq + MAX_SEG_LEN <= next_seqNum'
            /\ \A k \in 1..MAX_SEG_LEN : sendBuf[i].data[k] = wrote'[sendBuf[i].seq + k]
        BY <1>6, <1>9, <4>1, <4>2
      <4>4. sendBuf'[i] = sendBuf[i]
        BY <1>5, <3>1
      <4> QED
        BY <4>3, <4>4 DEF Carries
    <3>2. CASE i = Len(sendBuf) + 1
      <4>1. sendBuf'[i].seq = Len(wrote) /\ sendBuf'[i].data = data
        BY <1>1, <1>5, <3>2
      <4> QED
        BY <1>1, <1>2, <1>4, <1>6, <4>1 DEF Carries
    <3> QED
      BY <1>1, <1>5, <3>1, <3>2
  <2>2. ASSUME NEW i \in 1..Len(sendBuf'), NEW j \in 1..Len(sendBuf'), i < j
        PROVE  sendBuf'[i].seq + MAX_SEG_LEN <= sendBuf'[j].seq
    <3>1. i \in 1..Len(sendBuf) /\ sendBuf'[i] = sendBuf[i]
      BY <1>1, <1>5, <2>2
    <3>2. CASE j \in 1..Len(sendBuf)
      BY <1>1, <1>5, <2>2, <3>1, <3>2 DEF ClientInv
    <3>3. CASE j = Len(sendBuf) + 1
      <4>1. sendBuf'[j].seq = next_seqNum
        BY <1>5, <3>3
      <4> QED
        BY <3>1, <4>1, BufferFields
    <3> QED
      BY <1>1, <1>5, <3>2, <3>3
  <2>3. cApp' = "finWait" => cState' = "FINWAIT"
    BY <1>1, <1>3 DEF ClientInv
  <2> QED
    BY <1>6, <2>1, <2>2, <2>3 DEF ClientInv
<1>11. NetworkInv'
  <2>1. ASSUME NEW i \in 1..Len(c2s), c2s[i].type = "DATA"
        PROVE  Carries(c2s[i], SentEnd)'
    <3>1. c2s[i] \in Segment
      BY Parts
    <3>2. c2s[i].seq \in Nat
      BY <3>1 DEF Segment
    <3>3. Carries(c2s[i], SentEnd)
      BY <2>1, InFlight
    <3>4. SentEnd \in Nat /\ SentEnd <= Len(wrote) /\ SentEnd >= SentEnd
      BY SentEndFacts
    <3>5. /\ Len(c2s[i].data) = MAX_SEG_LEN
          /\ c2s[i].seq + MAX_SEG_LEN <= SentEnd
          /\ \A k \in 1..MAX_SEG_LEN : c2s[i].data[k] = wrote'[c2s[i].seq + k]
      BY <1>9, <3>2, <3>3, <3>4
    <3> QED
      BY <1>3, <1>7, <3>5 DEF Carries
  <2> QED
    BY <1>1, <1>3, <1>7, <2>1 DEF NetworkInv
<1>12. ~ Fresh
  BY <1>3 DEF Fresh
<1>13. IsPrefixOf(saved, wrote)'
  <2>1. IsPrefixOf(saved, wrote) /\ Len(saved) \in Nat
    BY <1>1, Parts DEF ServerInv
  <2>2. Len(saved) <= Len(wrote') /\ \A i \in 1..Len(saved) : saved[i] = wrote'[i]
    BY <1>1, <1>4, <2>1 DEF IsPrefixOf
  <2> QED
    BY <1>3, <2>2 DEF IsPrefixOf
<1> QED
  BY <1>1, <1>3, <1>7, <1>8, <1>10, <1>11, <1>12, <1>13 DEF InductiveInvariant, ServerInv

\* sendBufferRecvAck(): an acknowledgement ends within what was sent, so that
\* only segments of the window are popped.
LEMMA AckPopsWindow ==
    ASSUME InductiveInvariant, NEW ack \in Nat, ack <= SentEnd,
           NEW n \in 0..Len(sendBuf), \A i \in 1..n : sendBuf[i].seq < ack
    PROVE  n <= unAck_segNum
<1>1. CASE sendBufunSent = 0
  BY <1>1, Parts DEF WindowConsistent
<1>2. CASE sendBufunSent # 0
  <2>1. sendBufunSent = unAck_segNum + 1 /\ sendBufunSent \in 1..Len(sendBuf)
    BY <1>2, Parts DEF WindowConsistent
  <2>2. SentEnd = sendBuf[sendBufunSent].seq /\ sendBuf[sendBufunSent].seq \in Nat
    BY <1>2, <2>1, BufferFields DEF SentEnd
  <2>3. ~ (sendBufunSent \in 1..n)
    BY <2>2
  <2> QED
    BY <2>1, <2>3, Parts
<1> QED
  BY <1>1, <1>2

LEMMA PopKeeps ==
    ASSUME InductiveInvariant, TypeOK', NEW ack \in Nat, ack <= SentEnd,
           sendBufferRecvAck(ack), FromServer,
           UNCHANGED <<wrote, cState, cApp, c2s, sState, expect_seqNum, saved>>
    PROVE  InductiveInvariant'
<1>1. PICK n \in 0..Len(sendBuf) :
        /\ \A i \in 1..n : sendBuf[i].seq < ack
        /\ sendBuf' = SubSeq(sendBuf, n + 1, Len(sendBuf))
        /\ sendBufunSent' = IF sendBufunSent > n THEN sendBufunSent - n ELSE 0
        /\ unAck_segNum' = unAck_segNum - n
        /\ UNCHANGED next_seqNum
  BY DEF sendBufferRecvAck
<1>2. n <= unAck_segNum /\ n \in Nat /\ n <= Len(sendBuf)
  BY <1>1, AckPopsWindow, Parts
<1>3. /\ Len(sendBuf') = Len(sendBuf) - n
      /\ \A i \in 1..Len(sendBuf') : n + i \in 1..Len(sendBuf) /\ sendBuf'[i] = sendBuf[n + i]
  <2>1. sendBuf \in Seq(BufferedSegment)
    BY Parts
  <2>2. /\ Len(SubSeq(sendBuf, n + 1, Len(sendBuf))) = Len(sendBuf) - n
        /\ \A i \in 1..(Len(sendBuf) - n) :
              n + i \in 1..Len(sendBuf) /\ SubSeq(sendBuf, n + 1, Len(sendBuf))[i] = sendBuf[n + i]
    BY <1>2, <2>1, SplitFacts
  <2> QED
    BY <1>1, <2>2
<1>4. WindowConsistent'
  <2>1. /\ unAck_segNum \in 0..GBN_WINDOW /\ unAck_segNum <= Len(sendBuf)
        /\ sendBufunSent = IF unAck_segNum = Len(sendBuf) THEN 0 ELSE unAck_segNum + 1
        /\ Len(sendBuf) \in Nat
    BY Parts DEF WindowConsistent
  <2>2. unAck_segNum' \in 0..GBN_WINDOW /\ unAck_segNum' <= Len(sendBuf')
    BY <1>1, <1>2, <1>3, <2>1
  <2>3. sendBufunSent' = IF unAck_segNum' = Len(sendBuf') THEN 0 ELSE unAck_segNum' + 1
    BY <1>1, <1>2, <1>3, <2>1
  <2> QED
    BY <2>2, <2>3 DEF WindowConsistent
<1>5. SentEnd' = SentEnd
  <2>1. CASE sendBufunSent = 0
    BY <1>1, <1>2, <2>1 DEF SentEnd
  <2>2. CASE sendBufunSent # 0
    <3>1. sendBufunSent = unAck_segNum + 1 /\ sendBufunSent \in 1..Len(sendBuf)
      BY <2>2, Parts DEF WindowConsistent
    <3>2. unAck_segNum \in Nat /\ Len(sendBuf) \in Nat
      BY Parts
    <3>3. sendBufunSent' = sendBufunSent - n
      BY <1>1, <1>2, <3>1, <3>2
    <3>4. sendBufunSent' \in 1..Len(sendBuf') /\ n + sendBufunSent' = sendBufunSent
      BY <1>2, <1>3, <3>1, <3>2, <3>3
    <3>5. sendBuf'[sendBufunSent'] = sendBuf[sendBufunSent] /\ sendBufunSent' # 0
      BY <1>3, <3>4
    <3> QED
      BY <2>2, <3>5 DEF SentEnd
  <2> QED
    BY <2>1, <2>2
<1>6. ClientInv'
  <2>1. ASSUME NEW i \in 1..Len(sendBuf')
        PROVE  Carries(sendBuf[i], next_seqNum)'
    <3>1. n + i \in 1..Len(sendBuf) /\ sendBuf'[i] = sendBuf[n + i]
      BY <1>3
    <3>2. Carries(sendBuf[n + i], next_seqNum)
      BY <3>1, Parts DEF ClientInv
    <3> QED
      BY <1>1, <3>1, <3>2 DEF Carries
  <2>2. ASSUME NEW i \in 1..Len(sendBuf'), NEW j \in 1..Len(sendBuf'), i < j
        PROVE  sendBuf'[i].seq + MAX_SEG_LEN <= sendBuf'[j].seq
    <3>1. /\ n + i \in 1..Len(sendBuf) /\ n + j \in 1..Len(sendBuf) /\ n + i < n + j
          /\ sendBuf'[i] = sendBuf[n + i] /\ sendBuf'[j] = sendBuf[n + j]
      BY <1>2, <1>3, <2>2
    <3> QED
      BY <3>1, Parts DEF ClientInv
  <2> QED
    BY <1>1, <2>1, <2>2, Parts DEF ClientInv
<1>7. NetworkInv'
  <2>1. ASSUME NEW i \in 1..Len(s2c'), s2c'[i].type = "DATAACK"
        PROVE  s2c'[i].ack <= SentEnd'
    <3>1. QuietToClient
      BY DEF QuietToClient
    <3>2. CASE \E j \in 1..Len(s2c) : s2c'[i] = s2c[j]
      BY <1>5, <2>1, <3>2, Parts DEF NetworkInv
    <3>3. CASE s2c'[i].ack <= SentEnd
      BY <1>5, <3>3
    <3> QED
      BY <2>1, <3>1, <3>2, <3>3, Parts, QuietReplies
  <2> QED
    BY <1>5, <2>1, Parts DEF NetworkInv, Carries
<1>8. Fresh => Fresh'
  BY Parts, FreshKept DEF Fresh, QuietToClient
<1>9. ServerInv'
  BY <1>5, <1>8, SentEndFacts, ServerKept
<1> QED
  BY <1>4, <1>6, <1>7, <1>9 DEF InductiveInvariant

LEMMA DataAckKeeps ==
    ASSUME InductiveInvariant, TypeOK', Client(HandleDataAck)
    PROVE  InductiveInvariant'
<1>1. /\ s2c # << >> /\ FromServer /\ Head(s2c).type = "DATAACK"
      /\ UNCHANGED <<wrote, cState, cApp, c2s, sState, expect_seqNum, saved>>
      /\ \/ sendBufferRecvAck(Head(s2c).ack)
         \/ UNCHANGED buffer
  BY DEF Client, HandleDataAck, Deliver, FromServer, serverVars, history
<1>2. Head(s2c).ack \in Nat /\ Head(s2c).ack <= SentEnd
  <2>1. Head(s2c) = s2c[1] /\ 1 \in 1..Len(s2c)
    BY <1>1, Parts, TailFacts
  <2>2. Head(s2c) \in Segment
    BY <2>1, Parts
  <2> QED
    BY <1>1, <2>1, <2>2, Parts DEF NetworkInv, Segment
<1>3. CASE sendBufferRecvAck(Head(s2c).ack)
  BY <1>1, <1>2, <1>3, PopKeeps
<1>4. CASE UNCHANGED buffer
  BY <1>1, <1>4, Parts, QuietKeeps DEF QuietToServer, QuietToClient, ClientInv, Fresh
<1> QED
  BY <1>1, <1>3, <1>4

-----------------------------------------------------------------------------
(* The steps of the server that receive.                                   *)

\* A SYN starts the stream over, at the seq_num it carries.
LEMMA SynKeeps ==
    ASSUME InductiveInvariant, TypeOK', FromClient, Head(c2s).type = "SYN",
           segment_recv(Head(c2s)), UNCHANGED clientVars, sState' # "NONE"
    PROVE  InductiveInvariant'
<1>1. Head(c2s) = c2s[1] /\ 1 \in 1..Len(c2s)
  BY Parts, TailFacts DEF FromClient
<1>2. expect_seqNum' = 0 /\ saved' = << >> /\ ToClient(<<Control("SYNACK")>>)
  BY <1>1, InFlight DEF segment_recv
<1>3. UNCHANGED <<buffer, wrote, cState, cApp>>
  BY DEF clientVars, tcb, buffer, history
<1>4. WindowConsistent' /\ ClientInv' /\ SentEnd' = SentEnd
  BY <1>3, Parts DEF buffer, WindowConsistent, ClientInv, SentEnd, Carries
<1>5. ASSUME NEW i \in 1..Len(c2s')
      PROVE  /\ c2s'[i].type = "DATA" => Carries(c2s[i], SentEnd)'
             /\ c2s'[i].type = "SYN" => c2s'[i].seq = 0
  <2>1. i + 1 \in 1..Len(c2s) /\ c2s'[i] = c2s[i + 1]
    BY Parts, TailFacts DEF FromClient
  <2>2. /\ c2s[i + 1].type = "DATA" => Carries(c2s[i + 1], SentEnd)
        /\ c2s[i + 1].type = "SYN" => c2s[i + 1].seq = 0
    BY <2>1, InFlight
  <2> QED
    BY <1>3, <1>4, <2>1, <2>2 DEF Carries
<1>6. ASSUME NEW i \in 1..Len(s2c'), s2c'[i].type = "DATAACK"
      PROVE  s2c'[i].ack <= SentEnd'
  <2>1. Control("SYNACK") \in Segment /\ Control("SYNACK").type # "DATAACK"
    BY ControlSegment DEF SegTypes, Control
  <2>2. PICK j \in 1..Len(s2c) : s2c'[i] = s2c[j]
    BY <1>2, <1>6, <2>1, Parts, ReplyFacts
  <2> QED
    BY <1>4, <1>6, <2>2, Parts DEF NetworkInv
<1>7. ServerInv'
  BY <1>2, <1>4, SentEndFacts DEF ServerInv, IsPrefixOf
<1> QED
  BY <1>4, <1>5, <1>6, <1>7 DEF InductiveInvariant, NetworkInv

\* segment_recv() of anything else.
LEMMA OtherKeeps ==
    ASSUME InductiveInvariant, TypeOK', FromClient, Head(c2s).type # "SYN",
           segment_recv(Head(c2s)), UNCHANGED clientVars, sState' # "NONE"
    PROVE  InductiveInvariant'
<1>1. UNCHANGED <<buffer, wrote, cState, cApp, expect_seqNum, saved>>
  BY DEF segment_recv, clientVars, tcb, buffer, history
<1>2. QuietToClient
  <2>1. CASE Head(c2s).type = "FIN"
    BY <2>1 DEF segment_recv, QuietToClient
  <2>2. CASE Head(c2s).type # "FIN"
    BY <2>2, Parts DEF segment_recv, QuietToClient, ToClient
  <2> QED
    BY <2>1, <2>2
<1> QED
  BY <1>1, <1>2, Parts, QuietKeeps DEF QuietToServer, ClientInv, Fresh

\* data_received(): expect_seqNum is the length of what was saved, so the
\* segment in order carries the bytes that follow.
LEMMA DataKeeps ==
    ASSUME InductiveInvariant, TypeOK', Server(ConnectedData)
    PROVE  InductiveInvariant'
<1> DEFINE seg == Head(c2s)
<1>1. /\ FromClient /\ seg.type = "DATA" /\ data_received(seg)
      /\ UNCHANGED <<buffer, wrote, cState, cApp, sState>>
  BY DEF Server, ConnectedData, Receive, clientVars, tcb, buffer, history
<1>2. seg = c2s[1] /\ 1 \in 1..Len(c2s)
  BY <1>1, Parts, TailFacts DEF FromClient
<1>3. seg \in Segment /\ Carries(seg, SentEnd)
  BY <1>1, <1>2, Parts, InFlight
<1>4. seg.seq \in Nat /\ seg.data \in Seq(Nat)
  BY <1>3 DEF Segment
<1>5. /\ Len(seg.data) = MAX_SEG_LEN
      /\ seg.seq + MAX_SEG_LEN <= SentEnd
      /\ \A k \in 1..MAX_SEG_LEN : seg.data[k] = wrote[seg.seq + k]
  BY <1>3 DEF Carries
<1> HIDE DEF seg
<1>6. SentEnd \in Nat /\ SentEnd <= Len(wrote)
  BY SentEndFacts
<1>7. ~ Fresh
  BY <1>4, <1>5, <1>6 DEF Fresh
<1>8. expect_seqNum = Len(saved) /\ Len(saved) <= SentEnd /\ IsPrefixOf(saved, wrote) /\ sState # "NONE"
  BY <1>7, Parts DEF ServerInv
<1>9. CASE UNCHANGED <<expect_seqNum, saved>> /\ QuietToClient
  BY <1>1, <1>7, <1>9, Parts, QuietKeeps DEF QuietToServer, ClientInv
<1>10. CASE /\ seg.seq = expect_seqNum
            /\ saved' = saved \o seg.data
            /\ expect_seqNum' = seg.seq + Len(seg.data)
            /\ ToClient(<<DataAck(seg.seq + Len(seg.data))>>)
  <2>1. seg.seq + Len(seg.data) \in Nat /\ seg.seq + Len(seg.data) <= SentEnd
    BY <1>4, <1>5
  <2>2. QuietToClient
    BY <1>10, <2>1 DEF QuietToClient
  <2>3. WindowConsistent' /\ ClientInv' /\ SentEnd' = SentEnd
    BY <1>1, Parts DEF buffer, WindowConsistent, ClientInv, SentEnd, Carries
  <2>4. ASSUME NEW i \in 1..Len(c2s')
        PROVE  /\ c2s'[i].type = "DATA" => Carries(c2s[i], SentEnd)'
               /\ c2s'[i].type = "SYN" => c2s'[i].seq = 0
    <3>1. i + 1 \in 1..Len(c2s) /\ c2s'[i] = c2s[i + 1]
      BY <1>1, Parts, TailFacts DEF FromClient
    <3>2. /\ c2s[i + 1].type = "DATA" => Carries(c2s[i + 1], SentEnd)
          /\ c2s[i + 1].type = "SYN" => c2s[i + 1].seq = 0
      BY <3>1, InFlight
    <3> QED
      BY <1>1, <2>3, <3>1, <3>2 DEF Carries
  <2>5. ASSUME NEW i \in 1..Len(s2c'), s2c'[i].type = "DATAACK"
        PROVE  s2c'[i].ack <= SentEnd'
    <3>1. CASE \E j \in 1..Len(s2c) : s2c'[i] = s2c[j]
      BY <2>3, <2>5, <3>1, Parts DEF NetworkInv
    <3>2. CASE s2c'[i].ack <= SentEnd
      BY <2>3, <3>2
    <3> QED
      BY <2>2, <2>5, <3>1, <3>2, Parts, QuietReplies
  <2>6. /\ Len(saved') = Len(saved) + MAX_SEG_LEN
        /\ \A k \in 1..Len(saved) : saved'[k] = saved[k]
        /\ \A k \in (Len(saved) + 1)..(Len(saved) + MAX_SEG_LEN) :
              saved'[k] = seg.data[k - Len(saved)]
    <3>1. saved \in Seq(Nat)
      BY Parts
    <3> QED
      BY <1>4, <1>5, <1>10, <3>1, ByteConcat
  <2>7. expect_seqNum' = Len(saved') /\ Len(saved') <= SentEnd'
    BY <1>5, <1>8, <1>10, <2>3, <2>6
  <2>8. ASSUME NEW k \in 1..Len(saved')
        PROVE  saved'[k] = wrote[k]
    <3>1. CASE k \in 1..Len(saved)
      BY <1>8, <2>6, <3>1 DEF IsPrefixOf
    <3>2. CASE k \notin 1..Len(saved)
      <4>1. /\ k \in (Len(saved) + 1)..(Len(saved) + MAX_SEG_LEN)
            /\ k - Len(saved) \in 1..MAX_SEG_LEN
            /\ Len(saved) + (k - Len(saved)) = k
        BY <2>6, <3>2, Parts
      <4>2. saved'[k] = seg.data[k - Len(saved)]
        BY <2>6, <4>1
      <4>3. seg.data[k - Len(saved)] = wrote[seg.seq + (k - Len(saved))]
        BY <1>5, <4>1
      <4> QED
        BY <1>8, <1>10, <4>1, <4>2, <4>3
    <3> QED
      BY <3>1, <3>2
  <2>9. Len(saved') <= Len(wrote)
    BY <1>6, <2>3, <2>6, <2>7, Parts
  <2>10. ServerInv'
    BY <1>1, <1>8, <2>7, <2>8, <2>9 DEF ServerInv, IsPrefixOf
  <2> QED
    BY <2>3, <2>4, <2>5, <2>10 DEF InductiveInvariant, NetworkInv
<1>11. CASE seg.seq # expect_seqNum
  <2>1. ToClient(<<DataAck(expect_seqNum)>>) /\ UNCHANGED <<expect_seqNum, saved>>
    BY <1>1, <1>11 DEF data_received
  <2>2. expect_seqNum \in Nat /\ expect_seqNum <= SentEnd
    BY <1>8, Parts
  <2> QED
    BY <1>9, <2>1, <2>2 DEF QuietToClient
<1>12. CASE seg.seq = expect_seqNum
  <2>1. CASE RECEIVE_BUF_SIZE > Len(seg.data) + Len(recvBuf)
    BY <1>1, <1>10, <1>12, <2>1 DEF data_received
  <2>2. CASE ~ (RECEIVE_BUF_SIZE > Len(seg.data) + Len(recvBuf))
    BY <1>1, <1>9, <1>12, <2>2 DEF data_received, QuietToClient
  <2> QED
    BY <2>1, <2>2
<1> QED
  BY <1>11, <1>12

-----------------------------------------------------------------------------
(* Every step.                                                             *)

LEMMA InductiveStep ==
    ASSUME SvrPort # SvrNodeID, InductiveInvariant, [Next]_vars
    PROVE  InductiveInvariant'
<1>1. TypeOK'
  BY TypeStep, Parts
<1>2. cApp = "finWait" => cState = "FINWAIT"
  BY Parts DEF ClientInv
<1>3. sState = "NONE" \/ expect_seqNum # Len(saved) => Fresh
  BY Parts DEF ServerInv
<1> DEFINE Quiet ==
             /\ UNCHANGED <<buffer, wrote, saved, expect_seqNum>>
             /\ QuietToServer
             /\ QuietToClient
             /\ cApp' = "finWait" => cState' = "FINWAIT"
             /\ sState' = "NONE" => sState = "NONE"
             /\ Fresh => /\ cState' \in {"NONE", "CLOSED", "SYNSENT", "FREED"}
                         /\ cApp' \in {"idle", "synSent", "synWait"}
<1>4. Quiet => InductiveInvariant'
  BY <1>1, QuietKeeps
<1>5. TypeOK
  BY Parts
<1> HIDE DEF InductiveInvariant
<1>6. CASE Client(mrt_client_sock)
  <2>1. Quiet
    BY <1>2, <1>6 DEF mrt_client_sock,
           QuietToServer, QuietToClient, Fresh, vars, clientVars, tcb, buffer, timers, history,
           serverVars, serverApp, network, Client, Server
  <2> QED
    BY <1>4, <2>1
<1>7. CASE Client(ConnectSyn)
  <2>1. Quiet
    BY <1>2, <1>7 DEF ConnectSyn,
           QuietToServer, QuietToClient, Fresh, vars, clientVars, tcb, buffer, timers, history,
           serverVars, serverApp, network, Client, Server
  <2> QED
    BY <1>4, <2>1
<1>8. ASSUME NEW n \in SendLengths, Client(SendCall(n)) PROVE InductiveInvariant'
  <2>1. Quiet
    BY <1>2, <1>8 DEF SendCall,
           QuietToServer, QuietToClient, Fresh, vars, clientVars, tcb, buffer, timers, history,
           serverVars, serverApp, network, Client, Server
  <2> QED
    BY <1>4, <2>1
<1>9. CASE Client(DisconnectFin)
  <2>1. Quiet
    BY <1>2, <1>9 DEF DisconnectFin,
           QuietToServer, QuietToClient, Fresh, vars, clientVars, tcb, buffer, timers, history,
           serverVars, serverApp, network, Client, Server
  <2> QED
    BY <1>4, <2>1
<1>10. CASE Client(mrt_client_close)
  <2>1. Quiet
    BY <1>2, <1>10 DEF mrt_client_close,
           QuietToServer, QuietToClient, Fresh, vars, clientVars, tcb, buffer, timers, history,
           serverVars, serverApp, network, Client, Server
  <2> QED
    BY <1>4, <2>1
<1>11. CASE Client(ConnectState)
  <2>1. Quiet
    BY <1>2, <1>11 DEF ConnectState,
           QuietToServer, QuietToClient, Fresh, vars, clientVars, tcb, buffer, timers, history,
           serverVars, serverApp, network, Client, Server
  <2> QED
    BY <1>4, <2>1
<1>12. CASE Client(ConnectTimeout)
  <2>1. QuietToServer
    <3>1. CASE cState = "CONNECTED"
      BY <1>5, <1>12, <3>1 DEF Client, ConnectTimeout, ToServer, QuietToServer, TypeOK
    <3>2. CASE cState # "CONNECTED"
      BY <1>12, <3>2 DEF Client, ConnectTimeout, QuietToServer
    <3> QED
      BY <3>1, <3>2
  <2>2. Quiet
    BY <1>12, <2>1 DEF ConnectTimeout, QuietToClient, Fresh, tcb, buffer, history,
           serverVars, Client
  <2> QED
    BY <1>4, <2>2
<1>13. CASE Client(DisconnectState)
  <2>1. Quiet
    BY <1>2, <1>13 DEF DisconnectState,
           QuietToServer, QuietToClient, Fresh, vars, clientVars, tcb, buffer, timers, history,
           serverVars, serverApp, network, Client, Server
  <2> QED
    BY <1>4, <2>1
<1>14. CASE Client(DisconnectTimeout)
  <2>1. Quiet
    BY <1>2, <1>14 DEF DisconnectTimeout,
           QuietToServer, QuietToClient, Fresh, vars, clientVars, tcb, buffer, timers, history,
           serverVars, serverApp, network, Client, Server
  <2> QED
    BY <1>4, <2>1
<1>15. CASE Client(HandleStray)
  <2>1. Quiet
    BY <1>2, <1>15 DEF HandleStray, Deliver,
           QuietToServer, QuietToClient, Fresh, vars, clientVars, tcb, buffer, timers, history,
           serverVars, serverApp, network, Client, Server
  <2> QED
    BY <1>4, <2>1
<1>16. CASE Client(HandleSynAck)
  <2>1. ~ Fresh
    <3>1. s2c # << >> /\ Head(s2c).type = "SYNACK"
      BY <1>16 DEF Client, HandleSynAck, Deliver, FromServer
    <3>2. Head(s2c) = s2c[1] /\ 1 \in 1..Len(s2c)
      BY <3>1, Parts, TailFacts
    <3> QED
      BY <3>1, <3>2 DEF Fresh
  <2>2. Quiet
    BY <1>2, <1>16, <2>1 DEF HandleSynAck, Deliver,
           QuietToServer, QuietToClient, vars, clientVars, tcb, buffer, timers, history,
           serverVars, serverApp, network, Client, Server
  <2> QED
    BY <1>4, <2>2
<1>17. CASE Client(HandleIgnored)
  <2>1. Quiet
    BY <1>2, <1>17 DEF HandleIgnored, Deliver,
           QuietToServer, QuietToClient, Fresh, vars, clientVars, tcb, buffer, timers, history,
           serverVars, serverApp, network, Client, Server
  <2> QED
    BY <1>4, <2>1
<1>18. CASE Client(HandleSendingFreed)
  <2>1. Quiet
    BY <1>2, <1>18 DEF HandleSendingFreed, ClientCrash,
           QuietToServer, QuietToClient, Fresh, vars, clientVars, tcb, buffer, timers, history,
           serverVars, serverApp, network, Client, Server
  <2> QED
    BY <1>4, <2>1
<1>19. CASE Client(TimerPoll)
  <2>1. Quiet
    BY <1>2, <1>19 DEF TimerPoll,
           QuietToServer, QuietToClient, Fresh, vars, clientVars, tcb, buffer, timers, history,
           serverVars, serverApp, network, Client, Server
  <2> QED
    BY <1>4, <2>1
<1>20. CASE Client(TimerNullHead)
  <2>1. Quiet
    BY <1>2, <1>20 DEF TimerNullHead, ClientCrash,
           QuietToServer, QuietToClient, Fresh, vars, clientVars, tcb, buffer, timers, history,
           serverVars, serverApp, network, Client, Server
  <2> QED
    BY <1>4, <2>1
<1>21. CASE Client(TimerFreed)
  <2>1. Quiet
    BY <1>2, <1>21 DEF TimerFreed, ClientCrash,
           QuietToServer, QuietToClient, Fresh, vars, clientVars, tcb, buffer, timers, history,
           serverVars, serverApp, network, Client, Server
  <2> QED
    BY <1>4, <2>1
<1>22. CASE Server(AcceptCall)
  <2>1. Quiet
    BY <1>2, <1>22 DEF AcceptCall,
           QuietToServer, QuietToClient, Fresh, vars, clientVars, tcb, buffer, timers, history,
           serverVars, serverApp, network, Client, Server
  <2> QED
    BY <1>4, <2>1
<1>23. ASSUME NEW n \in RecvLengths, Server(RecvCall(n)) PROVE InductiveInvariant'
  <2>1. Quiet
    BY <1>2, <1>23 DEF RecvCall,
           QuietToServer, QuietToClient, Fresh, vars, clientVars, tcb, buffer, timers, history,
           serverVars, serverApp, network, Client, Server
  <2> QED
    BY <1>4, <2>1
<1>24. CASE Server(mrt_server_close)
  <2>1. Quiet
    BY <1>2, <1>24 DEF mrt_server_close,
           QuietToServer, QuietToClient, Fresh, vars, clientVars, tcb, buffer, timers, history,
           serverVars, serverApp, network, Client, Server
  <2> QED
    BY <1>4, <2>1
<1>25. CASE Server(AcceptReturn)
  <2>1. Quiet
    BY <1>2, <1>25 DEF AcceptReturn,
           QuietToServer, QuietToClient, Fresh, vars, clientVars, tcb, buffer, timers, history,
           serverVars, serverApp, network, Client, Server
  <2> QED
    BY <1>4, <2>1
<1>26. CASE Server(RecvPoll)
  <2>1. Quiet
    BY <1>2, <1>26 DEF RecvPoll,
           QuietToServer, QuietToClient, Fresh, vars, clientVars, tcb, buffer, timers, history,
           serverVars, serverApp, network, Client, Server
  <2> QED
    BY <1>4, <2>1
<1>27. CASE Server(RecvCopy)
  <2>1. Quiet
    BY <1>2, <1>27 DEF RecvCopy,
           QuietToServer, QuietToClient, Fresh, vars, clientVars, tcb, buffer, timers, history,
           serverVars, serverApp, network, Client, Server
  <2> QED
    BY <1>4, <2>1
<1>28. CASE Server(RecvUnderflow)
  <2>1. Quiet
    BY <1>2, <1>28 DEF RecvUnderflow,
           QuietToServer, QuietToClient, Fresh, vars, clientVars, tcb, buffer, timers, history,
           serverVars, serverApp, network, Client, Server
  <2> QED
    BY <1>4, <2>1
<1>29. CASE Server(Dropped)
  <2>1. Quiet
    BY <1>2, <1>29 DEF Dropped, Receive,
           QuietToServer, QuietToClient, Fresh, vars, clientVars, tcb, buffer, timers, history,
           serverVars, serverApp, network, Client, Server
  <2> QED
    BY <1>4, <2>1
<1>30. CASE Server(NoTCB)
  <2>1. Quiet
    BY <1>2, <1>30 DEF NoTCB, Receive,
           QuietToServer, QuietToClient, Fresh, vars, clientVars, tcb, buffer, timers, history,
           serverVars, serverApp, network, Client, Server
  <2> QED
    BY <1>4, <2>1
<1>31. CASE Server(CloseWaitClear)
  <2>1. Quiet
    BY <1>2, <1>31 DEF CloseWaitClear,
           QuietToServer, QuietToClient, Fresh, vars, clientVars, tcb, buffer, timers, history,
           serverVars, serverApp, network, Client, Server
  <2> QED
    BY <1>4, <2>1
<1>32. CASE Server(CloseWaitEnd)
  <2>1. Quiet
    BY <1>2, <1>32 DEF CloseWaitEnd,
           QuietToServer, QuietToClient, Fresh, vars, clientVars, tcb, buffer, timers, history,
           serverVars, serverApp, network, Client, Server
  <2> QED
    BY <1>4, <2>1
<1>33. CASE Client(SendAppend)
  BY <1>1, <1>33, AppendKeeps
<1>34. CASE Client(SendReturn)
  <2>1. ~ Fresh
    BY <1>34 DEF Client, SendReturn, Fresh
  <2>2. /\ sendBuffer_sending /\ cApp' = "idle"
        /\ UNCHANGED <<wrote, cState, s2c, saved, expect_seqNum, sState>>
    BY <1>34 DEF Client, SendReturn, history, serverVars
  <2> QED
    BY <1>1, <2>1, <2>2, SendingKeeps
<1>35. CASE Client(HandleSending)
  <2>1. /\ sendBuffer_sending
        /\ UNCHANGED <<wrote, cState, cApp, s2c, saved, expect_seqNum, sState>>
    BY <1>35 DEF Client, HandleSending, history, serverVars
  <2> QED
    BY <1>1, <2>1, SendingKeeps DEF Fresh
<1>36. CASE Client(DisconnectDone)
  BY <1>2, <1>36 DEF Client, DisconnectDone
<1>37. CASE Client(HandleFinAck)
  BY <1>37 DEF Client, HandleFinAck, FinAckAccepted
<1>38. CASE Client(HandleDataAck)
  BY <1>1, <1>38, DataAckKeeps
<1>39. CASE Client(TimerTimeout)
  BY <1>1, <1>39, ResendKeeps
<1>40. CASE Server(mrt_server_sock)
  <2>1. Fresh /\ Fresh'
    BY <1>3, <1>40 DEF Server, mrt_server_sock, Fresh, clientVars, tcb, history, network
  <2>2. UNCHANGED <<wrote, cState, cApp, buffer, c2s, s2c, saved>>
    BY <1>40 DEF Server, mrt_server_sock, clientVars, tcb, buffer, history, network
  <2>3. WindowConsistent' /\ ClientInv' /\ NetworkInv' /\ SentEnd' = SentEnd
    BY <2>2, Parts DEF buffer, WindowConsistent, ClientInv, NetworkInv, SentEnd, Carries
  <2>4. ServerInv'
    BY <2>1, <2>2, <2>3, Parts DEF ServerInv, IsPrefixOf
  <2> QED
    BY <1>1, <2>3, <2>4 DEF InductiveInvariant
<1>41. CASE Server(Listening)
  <2>1. FromClient /\ segment_recv(Head(c2s)) /\ UNCHANGED clientVars /\ sState' = "CONNECTED"
    BY <1>41 DEF Server, Listening, Receive
  <2> QED
    BY <1>1, <2>1, SynKeeps, OtherKeeps
<1>42. CASE Server(ConnectedSyn)
  <2>1. FromClient /\ segment_recv(Head(c2s)) /\ UNCHANGED clientVars /\ sState' = "CONNECTED"
    BY <1>42 DEF Server, ConnectedSyn, Receive
  <2> QED
    BY <1>1, <2>1, SynKeeps, OtherKeeps
<1>43. CASE Server(ConnectedFin)
  <2>1. FromClient /\ segment_recv(Head(c2s)) /\ UNCHANGED clientVars /\ sState' = "CLOSEWAIT"
    BY <1>43 DEF Server, ConnectedFin, Receive
  <2> QED
    BY <1>1, <2>1, SynKeeps, OtherKeeps
<1>44. CASE Server(CloseWaitFin)
  <2>1. FromClient /\ segment_recv(Head(c2s)) /\ UNCHANGED clientVars /\ sState' = "CLOSEWAIT"
    BY <1>44 DEF Server, CloseWaitFin, Receive
  <2> QED
    BY <1>1, <2>1, SynKeeps, OtherKeeps
<1>45. CASE Server(ConnectedData)
  BY <1>1, <1>45, DataKeeps
<1>46. CASE Loss
  <2>1. Quiet
    BY <1>2, <1>46 DEF Loss, LoseToServer, LoseToClient,
           QuietToServer, QuietToClient, Fresh, vars, clientVars, tcb, buffer, timers, history,
           serverVars, serverApp, network, Client, Server
  <2> QED
    BY <1>4, <2>1
<1>47. CASE UNCHANGED vars
  <2>1. Quiet
    BY <1>2, <1>47 DEF QuietToServer, QuietToClient, Fresh, vars, clientVars, tcb, buffer, timers, history,
           serverVars, serverApp, network, Client, Server
  <2> QED
    BY <1>4, <2>1
<1> QED
  BY <1>6, <1>7, <1>8, <1>9, <1>10, <1>11, <1>12, <1>13, <1>14, <1>15, <1>16, <1>17,
     <1>18, <1>19, <1>20, <1>21, <1>22, <1>23, <1>24, <1>25, <1>26, <1>27, <1>28,
     <1>29, <1>30, <1>31, <1>32, <1>33, <1>34, <1>35, <1>36, <1>37, <1>38, <1>39,
     <1>40, <1>41, <1>42, <1>43, <1>44, <1>45, <1>46, <1>47
  DEF Next, ClientCalls, ClientSteps, ClientHandler, ClientTimers, ServerCalls, ServerSteps,
      ServerHandler, CloseWait

-----------------------------------------------------------------------------
(* The theorems.  They are about a client whose server listens at a port     *)
(* that is not the number of its node: then no FINACK is ever accepted, a    *)
(* disconnect never resets next_seqNum, and a seq_num is a position in what  *)
(* was appended for as long as the TCB lives.                                *)

\* InductiveInvariant holds for the whole life of a TCB: the send buffer, the
\* segments in flight and the receive state of the server stay in step.
THEOREM Inductive == SvrPort # SvrNodeID => (Spec => []InductiveInvariant)
<1> SUFFICES ASSUME SvrPort # SvrNodeID PROVE Spec => []InductiveInvariant
  OBVIOUS
<1>1. InductiveInvariant /\ [Next]_vars => InductiveInvariant'
  BY InductiveStep
<1> QED
  BY <1>1, InitInductive, PTL DEF Spec

\* Every variable of the client, the server and the network keeps its type.
THEOREM TypeCorrect == SvrPort # SvrNodeID => (Spec => []TypeOK)
<1>1. InductiveInvariant => TypeOK
  BY DEF InductiveInvariant
<1> QED
  BY <1>1, Inductive, PTL

\* The window of sendBuffer_sending() and sendBufferRecvAck(): unAck_segNum
\* counts the segments before sendBufunSent and never underflows, however
\* late or often an acknowledgement arrives.
THEOREM WindowCorrect == SvrPort # SvrNodeID => (Spec => []WindowConsistent)
<1>1. InductiveInvariant => WindowConsistent
  BY DEF InductiveInvariant
<1> QED
  BY <1>1, Inductive, PTL

\* What data_received() has saved is a prefix of what mrt_client_send() has
\* appended, under loss, retransmission by any number of timer threads, and
\* reconnection of a TCB whose disconnect has failed.
THEOREM StreamCorrect == SvrPort # SvrNodeID => (Spec => []StreamIntegrity)
<1>1. InductiveInvariant => StreamIntegrity
  BY DEF InductiveInvariant, ServerInv, StreamIntegrity
<1> QED
  BY <1>1, Inductive, PTL
-----------------------------------------------------------------------------
(* Proofs that relate the threads of the client, and the client to the      *)
(* server: a timer watches the window, and the two ends agree on being      *)
(* connected.  They rest on the inductive invariant above.                  *)

LEMMA InitTimers == Init => TimerWatchesWindow
BY DEF Init, ClientInit, TimerWatchesWindow

\* sendBuffer_sending() starts a thread when it opens the window.
LEMMA SendingStartsTimer ==
    ASSUME InductiveInvariant, TimerWatchesWindow, sendBuffer_sending
    PROVE  TimerWatchesWindow'
<1>1. /\ Sendable \in Nat /\ unAck_segNum \in Nat /\ tAsleep \in Nat /\ tDue \in Nat
  <2>1. TypeOK /\ WindowConsistent /\ unAck_segNum \in Nat
    BY Parts
  <2> QED
    BY <2>1, SendableFacts DEF TypeOK
<1> QED
  BY <1>1 DEF sendBuffer_sending, TimerWatchesWindow

LEMMA TimerStep ==
    ASSUME InductiveInvariant, TimerWatchesWindow, [Next]_vars
    PROVE  TimerWatchesWindow'
<1> DEFINE Same == UNCHANGED <<unAck_segNum, tAsleep, tDue>>
<1>1. Same => TimerWatchesWindow'
  BY DEF TimerWatchesWindow
<1>2. tAsleep \in Nat /\ tDue \in Nat /\ unAck_segNum \in Nat
  <2>1. TypeOK /\ unAck_segNum \in Nat
    BY Parts
  <2> QED
    BY <2>1 DEF TypeOK
<1> USE DEF vars, clientVars, tcb, buffer, timers, Client, Server
<1>3. CASE Client(mrt_client_sock)
  BY <1>1, <1>3 DEF mrt_client_sock
<1>4. CASE Client(ConnectSyn)
  BY <1>1, <1>4 DEF ConnectSyn
<1>5. ASSUME NEW n \in SendLengths, Client(SendCall(n)) PROVE TimerWatchesWindow'
  BY <1>1, <1>5 DEF SendCall
<1>6. CASE Client(DisconnectFin)
  BY <1>1, <1>6 DEF DisconnectFin
<1>7. CASE Client(mrt_client_close)
  BY <1>1, <1>7 DEF mrt_client_close
<1>8. CASE Client(ConnectState)
  BY <1>1, <1>8 DEF ConnectState
<1>9. CASE Client(ConnectTimeout)
  BY <1>1, <1>9 DEF ConnectTimeout
<1>10. CASE Client(SendAppend)
  BY <1>1, <1>10 DEF SendAppend, sendBuffer_append_segment
<1>11. CASE Client(DisconnectState)
  BY <1>1, <1>11 DEF DisconnectState
<1>12. CASE Client(DisconnectTimeout)
  BY <1>1, <1>12 DEF DisconnectTimeout
<1>13. CASE Client(HandleStray)
  BY <1>1, <1>13 DEF HandleStray, Deliver
<1>14. CASE Client(HandleSynAck)
  BY <1>1, <1>14 DEF HandleSynAck, Deliver
<1>15. CASE Client(HandleFinAck)
  BY <1>1, <1>15 DEF HandleFinAck, Deliver
<1>16. CASE Client(HandleIgnored)
  BY <1>1, <1>16 DEF HandleIgnored, Deliver
<1>17. CASE Client(HandleSendingFreed)
  BY <1>1, <1>17 DEF HandleSendingFreed, ClientCrash
<1>18. CASE Client(TimerNullHead)
  BY <1>1, <1>18 DEF TimerNullHead, ClientCrash
<1>19. CASE Client(TimerFreed)
  BY <1>1, <1>19 DEF TimerFreed, ClientCrash
<1>20. CASE Client(SendReturn)
  BY <1>20, SendingStartsTimer DEF SendReturn
<1>21. CASE Client(HandleSending)
  BY <1>21, SendingStartsTimer DEF HandleSending
<1>22. CASE Client(DisconnectDone)
  BY <1>22 DEF DisconnectDone, TimerWatchesWindow
<1>23. CASE Client(HandleDataAck)
  <2>1. /\ UNCHANGED <<tAsleep, tDue>>
        /\ sendBufferRecvAck(Head(s2c).ack) \/ UNCHANGED unAck_segNum
    BY <1>23 DEF HandleDataAck, Deliver
  <2>2. CASE sendBufferRecvAck(Head(s2c).ack)
    <3>1. PICK k \in 0..Len(sendBuf) : unAck_segNum' = unAck_segNum - k
      BY <2>2 DEF sendBufferRecvAck
    <3>2. k \in Nat
      BY Parts
    <3> QED
      BY <1>2, <2>1, <3>1, <3>2 DEF TimerWatchesWindow
  <2>3. CASE UNCHANGED unAck_segNum
    BY <1>1, <2>1, <2>3
  <2> QED
    BY <2>1, <2>2, <2>3
<1>24. CASE Client(TimerPoll)
  BY <1>2, <1>24 DEF TimerPoll, TimerWatchesWindow
<1>25. CASE Client(TimerTimeout)
  BY <1>2, <1>25 DEF TimerTimeout, TimerWatchesWindow
<1>26. CASE UNCHANGED clientVars
  BY <1>1, <1>26
<1> QED
  BY <1>3, <1>4, <1>5, <1>6, <1>7, <1>8, <1>9, <1>10, <1>11, <1>12, <1>13, <1>14,
     <1>15, <1>16, <1>17, <1>18, <1>19, <1>20, <1>21, <1>22, <1>23, <1>24, <1>25,
     <1>26
  DEF Next, ClientCalls, ClientSteps, ClientHandler, ClientTimers, ServerCalls, ServerSteps,
      ServerHandler, CloseWait, Loss

\* While a segment is unacknowledged a timer thread is there to send it again,
\* although sendingBuffer_timer() decides to end by a read outside bufMutex.
THEOREM TimerCorrect == SvrPort # SvrNodeID => (Spec => []TimerWatchesWindow)
<1> SUFFICES ASSUME SvrPort # SvrNodeID PROVE Spec => []TimerWatchesWindow
  OBVIOUS
<1>1. InductiveInvariant /\ TimerWatchesWindow /\ [Next]_vars => TimerWatchesWindow'
  BY TimerStep
<1>2. Spec => []InductiveInvariant
  BY Inductive
<1> QED
  BY <1>1, <1>2, InitTimers, PTL DEF Spec

-----------------------------------------------------------------------------
(* The two ends agree.                                                     *)

\* Every reply but a SYNACK.
Replies ==
    \/ UNCHANGED s2c
    \/ FromServer
    \/ \E seg \in Segment : seg.type # "SYNACK" /\ ToClient(<<seg>>)

LEMMA RepliesFacts ==
    ASSUME TypeOK, Replies, NEW i \in 1..Len(s2c'), s2c'[i].type = "SYNACK"
    PROVE  \E j \in 1..Len(s2c) : s2c'[i] = s2c[j]
<1>1. CASE UNCHANGED s2c
  BY <1>1
<1>2. CASE FromServer
  <2>1. /\ Len(Tail(s2c)) = Len(s2c) - 1
        /\ \A j \in 1..Len(Tail(s2c)) : j + 1 \in 1..Len(s2c) /\ Tail(s2c)[j] = s2c[j + 1]
    BY <1>2, TailFacts DEF TypeOK, FromServer
  <2> QED
    BY <1>2, <2>1 DEF FromServer
<1>3. CASE \E seg \in Segment : seg.type # "SYNACK" /\ ToClient(<<seg>>)
  BY <1>3, ReplyFacts
<1> QED
  BY <1>1, <1>2, <1>3 DEF Replies

LEMMA AgreementKept ==
    ASSUME TypeOK, AgreementInv, Replies,
           Heard => Heard',
           sState' \in {"LISTENING", "CONNECTED"} => accepts' >= 1,
           cState' \in {"CONNECTED", "FINWAIT"} => Heard,
           cApp' = "finSent" => Heard
    PROVE  AgreementInv'
<1>1. ASSUME NEW i \in 1..Len(s2c'), s2c'[i].type = "SYNACK"
      PROVE  Heard'
  BY <1>1, RepliesFacts DEF AgreementInv
<1> QED
  BY <1>1 DEF AgreementInv, ConnectionAgreed

\* A SYN that LISTENING or CONNECTED answers.
LEMMA SynAgrees ==
    ASSUME TypeOK, AgreementInv, Head(c2s).type = "SYN", segment_recv(Head(c2s)),
           sState \in {"LISTENING", "CONNECTED"}, sState' = "CONNECTED", UNCHANGED accepts
    PROVE  AgreementInv'
BY DEF AgreementInv, ConnectionAgreed, Heard

LEMMA OtherReplies ==
    ASSUME TypeOK, Head(c2s).type # "SYN", segment_recv(Head(c2s))
    PROVE  Replies
<1>1. CASE Head(c2s).type = "FIN"
  <2>1. Control("FINACK") \in Segment /\ Control("FINACK").type # "SYNACK"
    BY ControlSegment DEF SegTypes, Control
  <2> QED
    BY <1>1, <2>1 DEF segment_recv, Replies
<1>2. CASE Head(c2s).type # "FIN"
  <2>1. s2c \in Seq(Segment)
    BY DEF TypeOK
  <2> QED
    BY <1>2, <2>1 DEF segment_recv, Replies, ToClient
<1> QED
  BY <1>1, <1>2

LEMMA DataReplies ==
    ASSUME TypeOK, c2s # << >>, data_received(Head(c2s))
    PROVE  Replies
<1>1. \A k \in Nat : DataAck(k) \in Segment /\ DataAck(k).type # "SYNACK"
  BY ControlSegment DEF DataAck
<1>2. Head(c2s).seq + Len(Head(c2s).data) \in Nat /\ expect_seqNum \in Nat
  <2>1. Head(c2s) \in Segment
    BY TailFacts DEF TypeOK
  <2>2. Head(c2s).seq \in Nat /\ Head(c2s).data \in Seq(Nat)
    BY <2>1 DEF Segment
  <2> QED
    BY <2>2 DEF TypeOK
<1> QED
  BY <1>1, <1>2 DEF data_received, Replies

LEMMA AgreementStep ==
    ASSUME TypeOK, AgreementInv, [Next]_vars
    PROVE  AgreementInv'
<1> DEFINE Quiet == /\ Replies
                    /\ Heard => Heard'
                    /\ sState' \in {"LISTENING", "CONNECTED"} => accepts' >= 1
                    /\ cState' \in {"CONNECTED", "FINWAIT"} => Heard
                    /\ cApp' = "finSent" => Heard
<1>1. Quiet => AgreementInv'
  BY AgreementKept
<1>2. accepts \in Nat
  BY DEF TypeOK
<1> USE DEF vars, clientVars, tcb, history, network, serverVars, serverApp, Client, Server
<1>3. CASE Client(mrt_client_sock)
  <2>1. Quiet
    BY <1>2, <1>3 DEF mrt_client_sock, Replies, AgreementInv, ConnectionAgreed, Heard
  <2> QED
    BY <1>1, <2>1
<1>4. CASE Client(ConnectSyn)
  <2>1. Quiet
    BY <1>2, <1>4 DEF ConnectSyn, Replies, AgreementInv, ConnectionAgreed, Heard
  <2> QED
    BY <1>1, <2>1
<1>5. ASSUME NEW n \in SendLengths, Client(SendCall(n)) PROVE AgreementInv'
  <2>1. Quiet
    BY <1>2, <1>5 DEF SendCall, Replies, AgreementInv, ConnectionAgreed, Heard
  <2> QED
    BY <1>1, <2>1
<1>6. CASE Client(DisconnectFin)
  <2>1. Quiet
    BY <1>2, <1>6 DEF DisconnectFin, Replies, AgreementInv, ConnectionAgreed, Heard
  <2> QED
    BY <1>1, <2>1
<1>7. CASE Client(mrt_client_close)
  <2>1. Quiet
    BY <1>2, <1>7 DEF mrt_client_close, Replies, AgreementInv, ConnectionAgreed, Heard
  <2> QED
    BY <1>1, <2>1
<1>8. CASE Client(ConnectState)
  <2>1. Quiet
    BY <1>2, <1>8 DEF ConnectState, Replies, AgreementInv, ConnectionAgreed, Heard
  <2> QED
    BY <1>1, <2>1
<1>9. CASE Client(ConnectTimeout)
  <2>1. Quiet
    BY <1>2, <1>9 DEF ConnectTimeout, Replies, AgreementInv, ConnectionAgreed, Heard
  <2> QED
    BY <1>1, <2>1
<1>10. CASE Client(SendAppend)
  <2>1. Quiet
    BY <1>2, <1>10 DEF SendAppend, sendBuffer_append_segment, Replies, AgreementInv, ConnectionAgreed, Heard
  <2> QED
    BY <1>1, <2>1
<1>11. CASE Client(SendReturn)
  <2>1. Quiet
    BY <1>2, <1>11 DEF SendReturn, Replies, AgreementInv, ConnectionAgreed, Heard
  <2> QED
    BY <1>1, <2>1
<1>12. CASE Client(DisconnectState)
  <2>1. Quiet
    BY <1>2, <1>12 DEF DisconnectState, Replies, AgreementInv, ConnectionAgreed, Heard
  <2> QED
    BY <1>1, <2>1
<1>13. CASE Client(DisconnectDone)
  <2>1. Quiet
    BY <1>2, <1>13 DEF DisconnectDone, Replies, AgreementInv, ConnectionAgreed, Heard
  <2> QED
    BY <1>1, <2>1
<1>14. CASE Client(DisconnectTimeout)
  <2>1. Quiet
    BY <1>2, <1>14 DEF DisconnectTimeout, Replies, AgreementInv, ConnectionAgreed, Heard
  <2> QED
    BY <1>1, <2>1
<1>15. CASE Client(HandleDataAck)
  <2>1. Quiet
    BY <1>2, <1>15 DEF HandleDataAck, Deliver, Replies, AgreementInv, ConnectionAgreed, Heard
  <2> QED
    BY <1>1, <2>1
<1>16. CASE Client(HandleSending)
  <2>1. Quiet
    BY <1>2, <1>16 DEF HandleSending, Replies, AgreementInv, ConnectionAgreed, Heard
  <2> QED
    BY <1>1, <2>1
<1>17. CASE Client(HandleStray)
  <2>1. Quiet
    BY <1>2, <1>17 DEF HandleStray, Deliver, Replies, AgreementInv, ConnectionAgreed, Heard
  <2> QED
    BY <1>1, <2>1
<1>18. CASE Client(HandleFinAck)
  <2>1. Quiet
    BY <1>2, <1>18 DEF HandleFinAck, Deliver, Replies, AgreementInv, ConnectionAgreed, Heard
  <2> QED
    BY <1>1, <2>1
<1>19. CASE Client(HandleIgnored)
  <2>1. Quiet
    BY <1>2, <1>19 DEF HandleIgnored, Deliver, Replies, AgreementInv, ConnectionAgreed, Heard
  <2> QED
    BY <1>1, <2>1
<1>20. CASE Client(HandleSendingFreed)
  <2>1. Quiet
    BY <1>2, <1>20 DEF HandleSendingFreed, ClientCrash, Replies, AgreementInv, ConnectionAgreed, Heard
  <2> QED
    BY <1>1, <2>1
<1>21. CASE Client(TimerPoll)
  <2>1. Quiet
    BY <1>2, <1>21 DEF TimerPoll, Replies, AgreementInv, ConnectionAgreed, Heard
  <2> QED
    BY <1>1, <2>1
<1>22. CASE Client(TimerTimeout)
  <2>1. Quiet
    BY <1>2, <1>22 DEF TimerTimeout, Replies, AgreementInv, ConnectionAgreed, Heard
  <2> QED
    BY <1>1, <2>1
<1>23. CASE Client(TimerNullHead)
  <2>1. Quiet
    BY <1>2, <1>23 DEF TimerNullHead, ClientCrash, Replies, AgreementInv, ConnectionAgreed, Heard
  <2> QED
    BY <1>1, <2>1
<1>24. CASE Client(TimerFreed)
  <2>1. Quiet
    BY <1>2, <1>24 DEF TimerFreed, ClientCrash, Replies, AgreementInv, ConnectionAgreed, Heard
  <2> QED
    BY <1>1, <2>1
<1>25. CASE Server(mrt_server_sock)
  <2>1. Quiet
    BY <1>2, <1>25 DEF mrt_server_sock, Replies, AgreementInv, ConnectionAgreed, Heard
  <2> QED
    BY <1>1, <2>1
<1>26. CASE Server(AcceptCall)
  <2>1. Quiet
    BY <1>2, <1>26 DEF AcceptCall, Replies, AgreementInv, ConnectionAgreed, Heard
  <2> QED
    BY <1>1, <2>1
<1>27. ASSUME NEW n \in RecvLengths, Server(RecvCall(n)) PROVE AgreementInv'
  <2>1. Quiet
    BY <1>2, <1>27 DEF RecvCall, Replies, AgreementInv, ConnectionAgreed, Heard
  <2> QED
    BY <1>1, <2>1
<1>28. CASE Server(mrt_server_close)
  <2>1. Quiet
    BY <1>2, <1>28 DEF mrt_server_close, Replies, AgreementInv, ConnectionAgreed, Heard
  <2> QED
    BY <1>1, <2>1
<1>29. CASE Server(AcceptReturn)
  <2>1. Quiet
    BY <1>2, <1>29 DEF AcceptReturn, Replies, AgreementInv, ConnectionAgreed, Heard
  <2> QED
    BY <1>1, <2>1
<1>30. CASE Server(RecvPoll)
  <2>1. Quiet
    BY <1>2, <1>30 DEF RecvPoll, Replies, AgreementInv, ConnectionAgreed, Heard
  <2> QED
    BY <1>1, <2>1
<1>31. CASE Server(RecvCopy)
  <2>1. Quiet
    BY <1>2, <1>31 DEF RecvCopy, Replies, AgreementInv, ConnectionAgreed, Heard
  <2> QED
    BY <1>1, <2>1
<1>32. CASE Server(RecvUnderflow)
  <2>1. Quiet
    BY <1>2, <1>32 DEF RecvUnderflow, Replies, AgreementInv, ConnectionAgreed, Heard
  <2> QED
    BY <1>1, <2>1
<1>33. CASE Server(Dropped)
  <2>1. Quiet
    BY <1>2, <1>33 DEF Dropped, Receive, Replies, AgreementInv, ConnectionAgreed, Heard
  <2> QED
    BY <1>1, <2>1
<1>34. CASE Server(NoTCB)
  <2>1. Quiet
    BY <1>2, <1>34 DEF NoTCB, Receive, Replies, AgreementInv, ConnectionAgreed, Heard
  <2> QED
    BY <1>1, <2>1
<1>35. CASE Server(CloseWaitClear)
  <2>1. Quiet
    BY <1>2, <1>35 DEF CloseWaitClear, Replies, AgreementInv, ConnectionAgreed, Heard
  <2> QED
    BY <1>1, <2>1
<1>36. CASE Server(CloseWaitEnd)
  <2>1. Quiet
    BY <1>2, <1>36 DEF CloseWaitEnd, Replies, AgreementInv, ConnectionAgreed, Heard
  <2> QED
    BY <1>1, <2>1
<1>37. CASE Client(HandleSynAck)
  <2>1. Head(s2c) = s2c[1] /\ 1 \in 1..Len(s2c)
    BY <1>37, TailFacts DEF HandleSynAck, Deliver, FromServer, TypeOK
  <2>2. Heard
    BY <1>37, <2>1 DEF HandleSynAck, AgreementInv
  <2>3. Quiet
    BY <1>37, <2>2 DEF HandleSynAck, Deliver, Replies, AgreementInv, ConnectionAgreed, Heard
  <2> QED
    BY <1>1, <2>3
<1>38. CASE Server(Listening)
  <2>1. CASE Head(c2s).type = "SYN"
    BY <1>38, <2>1, SynAgrees DEF Listening, Receive
  <2>2. CASE Head(c2s).type # "SYN"
    <3>1. Replies
      BY <1>38, <2>2, OtherReplies DEF Listening
    <3>2. Quiet
      BY <1>2, <1>38, <2>2, <3>1 DEF Listening, Receive, AgreementInv, ConnectionAgreed, Heard
    <3> QED
      BY <1>1, <3>2
  <2> QED
    BY <2>1, <2>2
<1>39. CASE Server(ConnectedSyn)
  <2>1. CASE Head(c2s).type = "SYN"
    BY <1>39, <2>1, SynAgrees DEF ConnectedSyn, Receive
  <2>2. CASE Head(c2s).type # "SYN"
    <3>1. Replies
      BY <1>39, <2>2, OtherReplies DEF ConnectedSyn
    <3>2. Quiet
      BY <1>2, <1>39, <2>2, <3>1 DEF ConnectedSyn, Receive, AgreementInv, ConnectionAgreed, Heard
    <3> QED
      BY <1>1, <3>2
  <2> QED
    BY <2>1, <2>2
<1>40. CASE Server(ConnectedFin)
  <2>1. Replies
    BY <1>40, OtherReplies DEF ConnectedFin
  <2>2. Quiet
    BY <1>2, <1>40, <2>1 DEF ConnectedFin, Receive, AgreementInv, ConnectionAgreed, Heard
  <2> QED
    BY <1>1, <2>2
<1>41. CASE Server(CloseWaitFin)
  <2>1. Replies
    BY <1>41, OtherReplies DEF CloseWaitFin
  <2>2. Quiet
    BY <1>2, <1>41, <2>1 DEF CloseWaitFin, Receive, AgreementInv, ConnectionAgreed, Heard
  <2> QED
    BY <1>1, <2>2
<1>42. CASE Server(ConnectedData)
  <2>1. Replies
    BY <1>42, DataReplies DEF ConnectedData, Receive, FromClient
  <2>2. Quiet
    BY <1>2, <1>42, <2>1 DEF ConnectedData, Receive, AgreementInv, ConnectionAgreed, Heard
  <2> QED
    BY <1>1, <2>2
<1>43. CASE Loss
  <2>1. Quiet
    BY <1>2, <1>43 DEF Loss, LoseToServer, LoseToClient, Replies, AgreementInv, ConnectionAgreed, Heard
  <2> QED
    BY <1>1, <2>1
<1>44. CASE UNCHANGED vars
  <2>1. Quiet
    BY <1>2, <1>44 DEF Replies, AgreementInv, ConnectionAgreed, Heard
  <2> QED
    BY <1>1, <2>1
<1> QED
  BY <1>3, <1>4, <1>5, <1>6, <1>7, <1>8, <1>9, <1>10, <1>11, <1>12, <1>13, <1>14,
     <1>15, <1>16, <1>17, <1>18, <1>19, <1>20, <1>21, <1>22, <1>23, <1>24, <1>25,
     <1>26, <1>27, <1>28, <1>29, <1>30, <1>31, <1>32, <1>33, <1>34, <1>35, <1>36,
     <1>37, <1>38, <1>39, <1>40, <1>41, <1>42, <1>43, <1>44
  DEF Next, ClientCalls, ClientSteps, ClientHandler, ClientTimers, ServerCalls, ServerSteps,
      ServerHandler, CloseWait

\* A client in CONNECTED or FINWAIT has been heard: the server has a TCB, and an
\* accept that answered a SYN.  (The converse fails: see the README on a connect
\* that gives up.)
THEOREM AgreementCorrect == SvrPort # SvrNodeID => (Spec => []ConnectionAgreed)
<1> SUFFICES ASSUME SvrPort # SvrNodeID PROVE Spec => []ConnectionAgreed
  OBVIOUS
<1>1. Init => AgreementInv
  BY DEF Init, ClientInit, ServerInit, AgreementInv, ConnectionAgreed, Heard
<1>2. TypeOK /\ AgreementInv /\ [Next]_vars => AgreementInv'
  BY AgreementStep
<1>3. AgreementInv => ConnectionAgreed
  BY DEF AgreementInv
<1>4. Spec => []TypeOK
  BY TypeCorrect
<1> QED
  BY <1>1, <1>2, <1>3, <1>4, PTL DEF Spec

-----------------------------------------------------------------------------
(* The server follows the window.                                          *)

\* What a step of the client does to the send buffer and the network: nothing,
\* or it takes a reply and leaves it without effect ...
SameBuffer == UNCHANGED <<next_seqNum, sendBuf, sendBufunSent, wrote>>

Rests == SameBuffer /\ UNCHANGED c2s /\ (UNCHANGED s2c \/ FromServer)

\* ... it sends a SYN, in the first connection before anything was appended ...
Opens == /\ SameBuffer /\ UNCHANGED s2c
         /\ FirstConnection' => wrote = << >>
         /\ ToServer(<<Control("SYN")>>)

\* ... or a FIN, when it has been heard ...
Closes == SameBuffer /\ UNCHANGED s2c /\ Heard /\ ToServer(<<Control("FIN")>>)

\* ... or segments of the send buffer ...
Sends == /\ UNCHANGED <<next_seqNum, sendBuf, wrote, s2c>>
         /\ \E batch \in Seq(Segment) :
               /\ c2s' = c2s \o batch
               /\ \A j \in 1..Len(batch) : \E i \in 1..Len(sendBuf) : batch[j] = DataSeg(sendBuf[i])

\* ... it appends a segment, or pops those that are acknowledged.
Pops == /\ FromServer /\ UNCHANGED <<wrote, c2s>>
        /\ Head(s2c).type = "DATAACK"
        /\ sendBufferRecvAck(Head(s2c).ack)

ClientKinds == Rests \/ Opens \/ Closes \/ Sends \/ Client(SendAppend) \/ Pops

LEMMA WindowSends ==
    ASSUME InductiveInvariant, sendBuffer_sending, UNCHANGED <<wrote, s2c>>
    PROVE  Sends
<1> DEFINE k == Sendable
           batch == [i \in 1..k |-> DataSeg(sendBuf[sendBufunSent + i - 1])]
<1>1. /\ k \in Nat /\ unAck_segNum \in Nat /\ sendBufunSent \in Nat
      /\ unAck_segNum + k <= Len(sendBuf) /\ Len(sendBuf) \in Nat
      /\ k > 0 => sendBufunSent = unAck_segNum + 1
  BY Parts, SendableFacts
<1>2. c2s' = c2s \o batch /\ UNCHANGED <<next_seqNum, sendBuf>>
  BY DEF sendBuffer_sending, ToServer
<1> HIDE DEF k
<1>3. \A i \in 1..k : sendBufunSent + i - 1 \in 1..Len(sendBuf)
  BY <1>1
<1>4. batch \in Seq(Segment) /\ Len(batch) = k
  <2>1. \A i \in 1..k : DataSeg(sendBuf[sendBufunSent + i - 1]) \in Segment
    BY <1>3, Parts, ControlSegment
  <2> QED
    BY <1>1, <2>1, MapFacts
<1>5. \A j \in 1..k : batch[j] = DataSeg(sendBuf[sendBufunSent + j - 1])
  OBVIOUS
<1> HIDE DEF batch
<1>6. \A j \in 1..Len(batch) : \E i \in 1..Len(sendBuf) : batch[j] = DataSeg(sendBuf[i])
  BY <1>3, <1>4, <1>5
<1> QED
  BY <1>2, <1>4, <1>6 DEF Sends

LEMMA ResendSends ==
    ASSUME InductiveInvariant, Client(TimerTimeout)
    PROVE  Sends
<1> DEFINE batch == [i \in 1..unAck_segNum |-> DataSeg(sendBuf[i])]
<1>0. unAck_segNum \in Nat
  BY Parts
<1>1. c2s' = c2s \o batch /\ UNCHANGED <<next_seqNum, sendBuf, wrote, s2c>>
  BY DEF Client, TimerTimeout, ToServer, tcb, history
<1>2. \A i \in 1..unAck_segNum : i \in 1..Len(sendBuf)
  BY WindowEnd
<1>3. batch \in Seq(Segment) /\ Len(batch) = unAck_segNum
  <2>1. \A i \in 1..unAck_segNum : DataSeg(sendBuf[i]) \in Segment
    BY <1>2, Parts, ControlSegment
  <2> QED
    BY <1>0, <2>1, MapFacts
<1>4. \A j \in 1..unAck_segNum : batch[j] = DataSeg(sendBuf[j])
  OBVIOUS
<1> HIDE DEF batch
<1>5. \A j \in 1..Len(batch) : \E i \in 1..Len(sendBuf) : batch[j] = DataSeg(sendBuf[i])
  BY <1>2, <1>3, <1>4
<1> QED
  BY <1>1, <1>3, <1>5 DEF Sends

\* What a step does to the number of connects: at most MaxConnects send a SYN.
Connecting == connects' = connects \/ (connects' = connects + 1 /\ connects' <= MaxConnects)

LEMMA ClientKind ==
    ASSUME SvrPort # SvrNodeID, InductiveInvariant, AgreementInv,
           FirstConnection => Opening,
           ClientCalls \/ ClientSteps \/ ClientHandler \/ ClientTimers
    PROVE  /\ ClientKinds
           /\ Connecting
           /\ FirstConnection' => Opening'
           /\ UNCHANGED serverVars
<1> DEFINE Goal == /\ ClientKinds
                   /\ Connecting
                   /\ FirstConnection' => Opening'
                   /\ UNCHANGED serverVars
<1>1. connects \in Nat /\ c2s \in Seq(Segment) /\ (cApp = "finWait" => cState = "FINWAIT")
  BY Parts DEF TypeOK, ClientInv
<1>2. ASSUME ClientKinds, UNCHANGED <<connects, wrote, serverVars>>,
             cApp' = cApp \/ cApp' \notin {"synSent", "synWait"} \/ cApp = "synSent",
             (cState' \in {"NONE", "CLOSED", "FREED"} /\ cApp' = "idle") \/ connects # 0
      PROVE  Goal
  BY <1>1, <1>2 DEF FirstConnection, Opening, Connecting
<1>3. connects = 0 => cState \in {"NONE", "CLOSED", "FREED"} /\ cApp = "idle"
  BY DEF FirstConnection, Opening
<1> SUFFICES Goal
  OBVIOUS
<1> HIDE DEF Goal
<1> USE DEF clientVars, tcb, buffer, timers, history, network, Client
<1>6. CASE Client(mrt_client_sock)
  <2>1. Rests
    BY <1>6 DEF mrt_client_sock, Rests, SameBuffer
  <2> QED
    BY <1>2, <1>3, <1>6, <2>1 DEF ClientKinds, mrt_client_sock
<1>7. CASE Client(ConnectSyn)
  <2>1. /\ SameBuffer /\ UNCHANGED <<s2c, serverVars, wrote>>
        /\ ToServer(<<Control("SYN")>>) /\ connects' = connects + 1 /\ connects < MaxConnects
    BY <1>7 DEF ConnectSyn, SameBuffer
  <2>2. FirstConnection' => wrote = << >> /\ connects' # 0
    BY <1>1, <2>1 DEF FirstConnection, Opening
  <2> QED
    BY <1>1, <2>1, <2>2, ClientConstants DEF Goal, ClientKinds, Opens, Opening, Connecting
<1>8. ASSUME NEW n \in SendLengths, Client(SendCall(n)) PROVE Goal
  <2>1. Rests
    BY <1>8 DEF SendCall, Rests, SameBuffer
  <2> QED
    BY <1>2, <1>3, <1>8, <2>1 DEF ClientKinds, SendCall
<1>9. CASE Client(DisconnectFin)
  <2>1. Closes
    BY <1>9 DEF DisconnectFin, Closes, SameBuffer, AgreementInv, ConnectionAgreed
  <2> QED
    BY <1>2, <1>3, <1>9, <2>1 DEF ClientKinds, DisconnectFin
<1>10. CASE Client(mrt_client_close)
  <2>1. Rests
    BY <1>10 DEF mrt_client_close, Rests, SameBuffer
  <2> QED
    BY <1>2, <1>3, <1>10, <2>1 DEF ClientKinds, mrt_client_close
<1>11. CASE Client(ConnectState)
  <2>1. Rests
    BY <1>11 DEF ConnectState, Rests, SameBuffer
  <2> QED
    BY <1>2, <1>3, <1>11, <2>1 DEF ClientKinds, ConnectState
<1>12. CASE Client(ConnectTimeout)
  <2>1. Rests \/ Opens
    <3>1. CASE cState = "CONNECTED"
      BY <1>1, <1>12, <3>1 DEF ConnectTimeout, ToServer, Rests, SameBuffer
    <3>2. CASE cState # "CONNECTED"
      BY <1>12, <3>2 DEF ConnectTimeout, Opens, SameBuffer, FirstConnection, Opening
    <3> QED
      BY <3>1, <3>2
  <2> QED
    BY <1>2, <1>3, <1>12, <2>1 DEF ClientKinds, ConnectTimeout
<1>13. CASE Client(SendAppend)
  <2>1. connects # 0
    BY <1>3, <1>13 DEF SendAppend
  <2>2. UNCHANGED <<connects, cApp, cState, serverVars>> /\ cApp = "append"
    BY <1>13 DEF SendAppend
  <2> QED
    BY <1>1, <1>13, <2>1, <2>2 DEF Goal, ClientKinds, Opening, Connecting
<1>14. CASE Client(SendReturn)
  <2>1. Sends
    BY <1>14, WindowSends DEF SendReturn
  <2> QED
    BY <1>2, <1>3, <1>14, <2>1 DEF ClientKinds, SendReturn
<1>15. CASE Client(DisconnectState)
  <2>1. Rests
    BY <1>15 DEF DisconnectState, Rests, SameBuffer
  <2> QED
    BY <1>2, <1>3, <1>15, <2>1 DEF ClientKinds, DisconnectState
<1>16. CASE Client(DisconnectDone)
  BY <1>1, <1>16 DEF DisconnectDone
<1>17. CASE Client(DisconnectTimeout)
  <2>1. Closes
    BY <1>1, <1>17 DEF DisconnectTimeout, Closes, SameBuffer, AgreementInv, ConnectionAgreed
  <2> QED
    BY <1>2, <1>3, <1>17, <2>1 DEF ClientKinds, DisconnectTimeout
<1>18. CASE Client(HandleDataAck)
  <2>1. Pops \/ Rests
    BY <1>18 DEF HandleDataAck, Deliver, Pops, Rests, SameBuffer
  <2> QED
    BY <1>2, <1>3, <1>18, <2>1 DEF ClientKinds, HandleDataAck, Deliver
<1>19. CASE Client(HandleSending)
  <2>1. Sends
    BY <1>19, WindowSends DEF HandleSending
  <2> QED
    BY <1>2, <1>3, <1>19, <2>1 DEF ClientKinds, HandleSending, Opening
<1>20. CASE Client(HandleSendingFreed)
  <2>1. Rests
    BY <1>20 DEF HandleSendingFreed, ClientCrash, Rests, SameBuffer
  <2> QED
    BY <1>2, <1>3, <1>20, <2>1 DEF ClientKinds, HandleSendingFreed, ClientCrash, Opening
<1>21. CASE Client(HandleStray)
  <2>1. Rests
    BY <1>21 DEF HandleStray, Deliver, Rests, SameBuffer
  <2> QED
    BY <1>2, <1>3, <1>21, <2>1 DEF ClientKinds, HandleStray, Deliver
<1>22. CASE Client(HandleSynAck)
  <2>1. Rests
    BY <1>22 DEF HandleSynAck, Deliver, Rests, SameBuffer
  <2> QED
    BY <1>2, <1>3, <1>22, <2>1 DEF ClientKinds, HandleSynAck, Deliver
<1>23. CASE Client(HandleFinAck)
  BY <1>23 DEF HandleFinAck, FinAckAccepted
<1>24. CASE Client(HandleIgnored)
  <2>1. Rests
    BY <1>24 DEF HandleIgnored, Deliver, Rests, SameBuffer
  <2> QED
    BY <1>2, <1>3, <1>24, <2>1 DEF ClientKinds, HandleIgnored, Deliver, Opening
<1>25. CASE Client(TimerPoll)
  <2>1. Rests
    BY <1>25 DEF TimerPoll, Rests, SameBuffer
  <2> QED
    BY <1>2, <1>3, <1>25, <2>1 DEF ClientKinds, TimerPoll, Opening
<1>26. CASE Client(TimerTimeout)
  <2>1. Sends
    BY <1>26, ResendSends
  <2> QED
    BY <1>2, <1>3, <1>26, <2>1 DEF ClientKinds, TimerTimeout, Opening
<1>27. CASE Client(TimerNullHead)
  <2>1. Rests
    BY <1>27 DEF TimerNullHead, ClientCrash, Rests, SameBuffer
  <2> QED
    BY <1>2, <1>3, <1>27, <2>1 DEF ClientKinds, TimerNullHead, ClientCrash, Opening
<1>28. CASE Client(TimerFreed)
  <2>1. Rests
    BY <1>28 DEF TimerFreed, ClientCrash, Rests, SameBuffer
  <2> QED
    BY <1>2, <1>3, <1>28, <2>1 DEF ClientKinds, TimerFreed, ClientCrash, Opening
<1> QED
  BY <1>6, <1>7, <1>8, <1>9, <1>10, <1>11, <1>12, <1>13, <1>14, <1>15, <1>16, <1>17,
     <1>18, <1>19, <1>20, <1>21, <1>22, <1>23, <1>24, <1>25, <1>26, <1>27, <1>28
  DEF ClientCalls, ClientSteps, ClientHandler, ClientTimers

\* A segment of kind DATA in flight was sent by a client that had a SYN answered.
LEMMA DataNotFresh ==
    ASSUME InductiveInvariant, NEW i \in 1..Len(c2s), c2s[i].type = "DATA"
    PROVE  /\ wrote # << >>
           /\ expect_seqNum = Len(saved)
           /\ c2s[i].seq \in Nat /\ c2s[i].data \in Seq(Nat)
           /\ Len(c2s[i].data) = MAX_SEG_LEN
           /\ c2s[i].seq + MAX_SEG_LEN <= SentEnd
<1>1. c2s[i] \in Segment /\ Carries(c2s[i], SentEnd)
  BY InFlight, Parts
<1>2. /\ c2s[i].seq \in Nat /\ c2s[i].data \in Seq(Nat)
      /\ Len(c2s[i].data) = MAX_SEG_LEN
      /\ c2s[i].seq + MAX_SEG_LEN <= SentEnd
  BY <1>1 DEF Segment, Carries
<1>3. wrote # << >>
  BY <1>2, SentEndFacts, ClientConstants
<1>4. expect_seqNum = Len(saved)
  BY <1>3, Parts DEF ServerInv, Fresh
<1> QED
  BY <1>2, <1>3, <1>4

\* What a step does to the segments on their way to the server.
Requests ==
    \/ UNCHANGED c2s
    \/ FromClient
    \/ ToServer(<<Control("SYN")>>)
    \/ Heard /\ ToServer(<<Control("FIN")>>)
    \/ \E batch \in Seq(Segment) :
          /\ c2s' = c2s \o batch
          /\ \A j \in 1..Len(batch) : batch[j].type = "DATA"

LEMMA RequestsFacts ==
    ASSUME TypeOK, Requests, NEW i \in 1..Len(c2s')
    PROVE  \/ \E j \in 1..Len(c2s) : c2s'[i] = c2s[j]
           \/ c2s'[i].type \in {"SYN", "DATA"}
           \/ c2s'[i].type = "FIN" /\ Heard
<1>0. c2s \in Seq(Segment) /\ Len(c2s) \in Nat
  BY DEF TypeOK
<1>1. CASE UNCHANGED c2s
  BY <1>1
<1>2. CASE FromClient
  BY <1>0, <1>2, TailFacts DEF FromClient
<1>3. ASSUME NEW batch \in Seq(Segment), c2s' = c2s \o batch
      PROVE  \/ \E j \in 1..Len(c2s) : c2s'[i] = c2s[j]
             \/ \E j \in 1..Len(batch) : c2s'[i] = batch[j]
  <2>1. /\ Len(c2s') = Len(c2s) + Len(batch) /\ Len(batch) \in Nat
        /\ \A j \in 1..Len(c2s) : c2s'[j] = c2s[j]
        /\ \A j \in 1..Len(batch) : c2s'[Len(c2s) + j] = batch[j]
    BY <1>0, <1>3, JoinFacts
  <2>2. CASE i \in 1..Len(c2s)
    BY <2>1, <2>2
  <2>3. CASE i \notin 1..Len(c2s)
    <3>1. i - Len(c2s) \in 1..Len(batch) /\ Len(c2s) + (i - Len(c2s)) = i
      BY <1>0, <2>1, <2>3
    <3> QED
      BY <2>1, <3>1
  <2> QED
    BY <2>2, <2>3
<1>4. ASSUME NEW type \in {"SYN", "FIN"}, ToServer(<<Control(type)>>)
      PROVE  (\E j \in 1..Len(c2s) : c2s'[i] = c2s[j]) \/ c2s'[i].type = type
  <2>1. <<Control(type)>> \in Seq(Segment) /\ Len(<<Control(type)>>) = 1 /\ <<Control(type)>>[1] = Control(type)
    BY ControlSegment DEF SegTypes
  <2>2. Control(type).type = type
    BY DEF Control
  <2> QED
    BY <1>3, <1>4, <2>1, <2>2 DEF ToServer
<1>5. CASE \E batch \in Seq(Segment) : /\ c2s' = c2s \o batch
                                       /\ \A j \in 1..Len(batch) : batch[j].type = "DATA"
  BY <1>3, <1>5
<1> QED
  BY <1>1, <1>2, <1>4, <1>5 DEF Requests

LEMMA HeardKept ==
    ASSUME TypeOK, HeardInv, Requests,
           Heard => Heard',
           Heard' => expect_seqNum' = Len(saved'),
           sState' = "NONE" => accepts' = 0,
           sState' \in {"CONNECTED", "CLOSEWAIT"} => accepts' >= 1,
           closing' # "none" => sState' = "CLOSEWAIT"
    PROVE  HeardInv'
<1>1. ASSUME NEW i \in 1..Len(c2s')
      PROVE  c2s'[i].type \in {"SYN", "DATA", "FIN"} /\ (c2s'[i].type = "FIN" => Heard')
  BY RequestsFacts DEF HeardInv
<1> QED
  BY <1>1 DEF HeardInv

LEMMA ClientRequests ==
    ASSUME ClientKinds
    PROVE  Requests
<1>1. \A s : DataSeg(s).type = "DATA"
  BY DEF DataSeg
<1>2. CASE Sends
  <2>1. PICK batch \in Seq(Segment) :
               /\ c2s' = c2s \o batch
               /\ \A j \in 1..Len(batch) : \E i \in 1..Len(sendBuf) : batch[j] = DataSeg(sendBuf[i])
    BY <1>2 DEF Sends
  <2>2. \A j \in 1..Len(batch) : batch[j].type = "DATA"
    BY <1>1, <2>1
  <2> QED
    BY <2>1, <2>2 DEF Requests
<1>3. CASE Client(SendAppend)
  BY <1>3 DEF Client, SendAppend, network, Requests
<1> QED
  BY <1>2, <1>3 DEF ClientKinds, Rests, Opens, Closes, Pops, Requests

\* segment_recv() leaves expect_seqNum the length of what was saved.
LEMMA ReceivedExpect ==
    ASSUME InductiveInvariant, HeardInv, FromClient, segment_recv(Head(c2s))
    PROVE  /\ expect_seqNum' = Len(saved')
           /\ Head(c2s).type # "SYN" => UNCHANGED saved
           /\ Head(c2s).type = "SYN" => saved' = << >>
<1>1. Head(c2s) = c2s[1] /\ 1 \in 1..Len(c2s)
  BY Parts, TailFacts DEF FromClient
<1>2. CASE Head(c2s).type = "SYN"
  BY <1>1, <1>2, InFlight DEF segment_recv
<1>3. CASE Head(c2s).type # "SYN"
  <2>1. expect_seqNum = Len(saved)
    <3>1. Head(c2s).type = "DATA" \/ Heard
      BY <1>1, <1>3 DEF HeardInv
    <3> QED
      BY <1>1, <3>1, DataNotFresh DEF HeardInv
  <2> QED
    BY <1>3, <2>1 DEF segment_recv
<1> QED
  BY <1>2, <1>3

\* data_received() takes the segment that follows what was saved, or nothing.
LEMMA ReceivedData ==
    ASSUME InductiveInvariant, FromClient, Head(c2s).type = "DATA", data_received(Head(c2s))
    PROVE  /\ expect_seqNum = Len(saved) /\ expect_seqNum' = Len(saved')
           /\ \/ /\ UNCHANGED <<saved, recvBuf>>
                 /\ UNCHANGED s2c \/ ToClient(<<DataAck(Len(saved))>>)
              \/ /\ Head(c2s).seq = Len(saved)
                 /\ saved' = saved \o Head(c2s).data
                 /\ recvBuf' = recvBuf \o Head(c2s).data
                 /\ Len(saved') = Len(saved) + MAX_SEG_LEN
                 /\ ToClient(<<DataAck(Len(saved'))>>)
<1> DEFINE seg == Head(c2s)
<1>1. seg = c2s[1] /\ 1 \in 1..Len(c2s)
  BY Parts, TailFacts DEF FromClient
<1>2. /\ expect_seqNum = Len(saved)
      /\ seg.seq \in Nat /\ seg.data \in Seq(Nat) /\ Len(seg.data) = MAX_SEG_LEN
  BY <1>1, DataNotFresh
<1>3. Len(saved \o seg.data) = Len(saved) + MAX_SEG_LEN
  BY <1>2, Parts, ByteConcat
<1>4. data_received(seg)
  OBVIOUS
<1> HIDE DEF seg
<1>5. \/ /\ UNCHANGED <<saved, recvBuf, expect_seqNum>>
         /\ UNCHANGED s2c \/ ToClient(<<DataAck(expect_seqNum)>>)
      \/ /\ seg.seq = expect_seqNum
         /\ saved' = saved \o seg.data
         /\ recvBuf' = recvBuf \o seg.data
         /\ expect_seqNum' = seg.seq + MAX_SEG_LEN
         /\ ToClient(<<DataAck(seg.seq + MAX_SEG_LEN)>>)
  BY <1>2, <1>4 DEF data_received
<1>6. CASE UNCHANGED <<saved, recvBuf, expect_seqNum>> /\ (UNCHANGED s2c \/ ToClient(<<DataAck(expect_seqNum)>>))
  BY <1>2, <1>6
<1>7. CASE /\ seg.seq = expect_seqNum
           /\ saved' = saved \o seg.data
           /\ recvBuf' = recvBuf \o seg.data
           /\ expect_seqNum' = seg.seq + MAX_SEG_LEN
           /\ ToClient(<<DataAck(seg.seq + MAX_SEG_LEN)>>)
  BY <1>2, <1>3, <1>7 DEF seg
<1> QED
  BY <1>5, <1>6, <1>7

LEMMA HeardStep ==
    ASSUME SvrPort # SvrNodeID, InductiveInvariant, AgreementInv, HeardInv,
           FirstConnection => Opening, [Next]_vars
    PROVE  HeardInv' /\ (Heard => Heard')
<1>0. TypeOK /\ accepts \in Nat
  BY Parts DEF TypeOK
<1> DEFINE Quiet == /\ Requests
                    /\ Heard => Heard'
                    /\ Heard' => expect_seqNum' = Len(saved')
                    /\ sState' = "NONE" => accepts' = 0
                    /\ sState' \in {"CONNECTED", "CLOSEWAIT"} => accepts' >= 1
                    /\ closing' # "none" => sState' = "CLOSEWAIT"
<1> SUFFICES Quiet
  BY <1>0, HeardKept
<1>1. ASSUME Requests, UNCHANGED serverVars PROVE Quiet
  BY <1>1 DEF serverVars, serverApp, HeardInv, Heard
<1> HIDE DEF Quiet
<1>2. CASE ClientCalls \/ ClientSteps \/ ClientHandler \/ ClientTimers
  BY <1>1, <1>2, ClientKind, ClientRequests
<1>3. CASE Loss
  <2>1. Requests /\ UNCHANGED serverVars
    BY <1>3 DEF Loss, LoseToServer, LoseToClient, Requests
  <2> QED
    BY <1>1, <2>1
<1>4. CASE UNCHANGED vars
  <2>1. Requests /\ UNCHANGED serverVars
    BY <1>4 DEF vars, network, Requests
  <2> QED
    BY <1>1, <2>1
<1> USE DEF Quiet, serverVars, serverApp, network, Server
<1>5. CASE Server(mrt_server_sock)
  BY <1>0, <1>5 DEF mrt_server_sock, HeardInv, Heard, Requests
<1>6. CASE Server(AcceptCall)
  BY <1>0, <1>6 DEF AcceptCall, HeardInv, Heard, Requests
<1>7. ASSUME NEW n \in RecvLengths, Server(RecvCall(n)) PROVE Quiet
  BY <1>0, <1>7 DEF RecvCall, HeardInv, Heard, Requests
<1>8. CASE Server(mrt_server_close)
  BY <1>0, <1>8 DEF mrt_server_close, HeardInv, Heard, Requests
<1>9. CASE Server(AcceptReturn)
  BY <1>0, <1>9 DEF AcceptReturn, HeardInv, Heard, Requests
<1>10. CASE Server(RecvPoll)
  BY <1>0, <1>10 DEF RecvPoll, HeardInv, Heard, Requests
<1>11. CASE Server(RecvCopy)
  BY <1>0, <1>11 DEF RecvCopy, HeardInv, Heard, Requests
<1>12. CASE Server(RecvUnderflow)
  BY <1>0, <1>12 DEF RecvUnderflow, HeardInv, Heard, Requests
<1>13. CASE Server(Listening)
  BY <1>0, <1>13, ReceivedExpect DEF Listening, Receive, HeardInv, Heard, Requests, AgreementInv
<1>14. CASE Server(ConnectedSyn)
  BY <1>0, <1>14, ReceivedExpect DEF ConnectedSyn, Receive, HeardInv, Heard, Requests
<1>15. CASE Server(ConnectedData)
  BY <1>0, <1>15, ReceivedData DEF ConnectedData, Receive, HeardInv, Heard, Requests
<1>16. CASE Server(ConnectedFin)
  BY <1>0, <1>16, ReceivedExpect DEF ConnectedFin, Receive, HeardInv, Heard, Requests
<1>17. CASE Server(CloseWaitFin)
  BY <1>0, <1>17, ReceivedExpect DEF CloseWaitFin, Receive, HeardInv, Heard, Requests
<1>18. CASE Server(Dropped)
  BY <1>0, <1>18 DEF Dropped, Receive, HeardInv, Heard, Requests
<1>19. CASE Server(NoTCB)
  BY <1>0, <1>19 DEF NoTCB, Receive, HeardInv, Heard, Requests
<1>20. CASE Server(CloseWaitClear)
  BY <1>0, <1>20 DEF CloseWaitClear, HeardInv, Heard, Requests
<1>21. CASE Server(CloseWaitEnd)
  BY <1>0, <1>21 DEF CloseWaitEnd, HeardInv, Heard, Requests
<1> QED
  BY <1>2, <1>3, <1>4, <1>5, <1>6, <1>7, <1>8, <1>9, <1>10, <1>11, <1>12, <1>13, <1>14,
     <1>15, <1>16, <1>17, <1>18, <1>19, <1>20, <1>21
  DEF Next, ServerCalls, ServerSteps, ServerHandler, CloseWait

-----------------------------------------------------------------------------
(* The first connection.                                                   *)

\* What TrackingInv says of the window, the network and the receiver.
Tracked ==
    /\ SynsFirst /\ EndToEnd /\ AckInv
    /\ sendBuf # << >> => Head(sendBuf).seq <= Len(saved)
    /\ sendBuf = << >> => next_seqNum \in {0, Len(saved)}

\* What a step does to the replies: it acknowledges what was saved, if anything.
Answers ==
    \/ UNCHANGED s2c
    \/ FromServer
    \/ ToClient(<<Control("SYNACK")>>)
    \/ ToClient(<<Control("FINACK")>>)
    \/ ToClient(<<DataAck(Len(saved'))>>)

LEMMA AnswersFacts ==
    ASSUME InductiveInvariant, Answers, Len(saved') \in Nat, NEW i \in 1..Len(s2c'),
           s2c'[i].type = "DATAACK"
    PROVE  \/ \E j \in 1..Len(s2c) : s2c'[i] = s2c[j]
           \/ s2c'[i].ack = Len(saved')
<1>1. TypeOK /\ s2c \in Seq(Segment)
  BY Parts
<1>2. CASE UNCHANGED s2c
  BY <1>2
<1>3. CASE FromServer
  BY <1>1, <1>3, TailFacts DEF FromServer
<1>4. ASSUME NEW type \in {"SYNACK", "FINACK"}, ToClient(<<Control(type)>>)
      PROVE  \E j \in 1..Len(s2c) : s2c'[i] = s2c[j]
  <2>1. Control(type) \in Segment /\ Control(type).type # "DATAACK"
    BY ControlSegment DEF SegTypes, Control
  <2> QED
    BY <1>1, <1>4, <2>1, ReplyFacts
<1>5. CASE ToClient(<<DataAck(Len(saved'))>>)
  <2>1. DataAck(Len(saved')) \in Segment /\ DataAck(Len(saved')).ack = Len(saved')
    BY ControlSegment DEF DataAck
  <2> QED
    BY <1>1, <1>5, <2>1, ReplyFacts
<1> QED
  BY <1>2, <1>3, <1>4, <1>5 DEF Answers

\* What a step does to the requests: data in flight is in flight already or in
\* the send buffer, and no data is ahead of a SYN.
Orderly ==
    \A i \in 1..Len(c2s') :
        /\ c2s'[i].type = "DATA" =>
              \/ \E j \in 1..Len(c2s) : c2s'[i] = c2s[j]
              \/ \E k \in 1..Len(sendBuf) : c2s'[i].seq = sendBuf[k].seq
        /\ c2s'[i].type = "SYN" => saved = << >> /\ \A j \in 1..i : c2s'[j].type # "DATA"

\* A step that changes neither the send buffer nor what was saved.
LEMMA SettledKeeps ==
    ASSUME InductiveInvariant, Tracked, UNCHANGED <<next_seqNum, sendBuf, saved>>,
           Orderly, Answers
    PROVE  Tracked'
<1>1. SynsFirst'
  BY DEF Orderly, SynsFirst
<1>2. ASSUME NEW i \in 1..Len(sendBuf), NEW j \in 1..Len(c2s'), c2s'[j].type = "DATA"
      PROVE  \/ c2s'[j].seq + MAX_SEG_LEN <= sendBuf[i].seq
             \/ c2s'[j].seq = sendBuf[i].seq
             \/ sendBuf[i].seq + MAX_SEG_LEN <= c2s'[j].seq
  <2>1. CASE \E k \in 1..Len(c2s) : c2s'[j] = c2s[k]
    BY <1>2, <2>1 DEF Tracked, EndToEnd
  <2>2. CASE \E k \in 1..Len(sendBuf) : c2s'[j].seq = sendBuf[k].seq
    <3>1. PICK k \in 1..Len(sendBuf) : c2s'[j].seq = sendBuf[k].seq
      BY <2>2
    <3>2. i < k \/ i = k \/ k < i
      BY Parts
    <3> QED
      BY <3>1, <3>2, Parts DEF ClientInv
  <2> QED
    BY <1>2, <2>1, <2>2 DEF Orderly
<1>3. EndToEnd'
  BY <1>2 DEF Tracked, EndToEnd
<1>4. ASSUME NEW i \in 1..Len(s2c'), s2c'[i].type = "DATAACK"
      PROVE  s2c'[i].ack <= Len(saved) /\ Between(s2c'[i].ack)
  <2>1. Len(saved') = Len(saved) /\ Len(saved') \in Nat
    BY Parts
  <2>2. CASE \E j \in 1..Len(s2c) : s2c'[i] = s2c[j]
    BY <1>4, <2>2 DEF Tracked, AckInv
  <2>3. CASE s2c'[i].ack = Len(saved')
    BY <2>1, <2>3 DEF Tracked, AckInv
  <2> QED
    BY <1>4, <2>1, <2>2, <2>3, AnswersFacts
<1>5. AckInv'
  <2>1. \A p : Between(p) => Between(p)'
    BY DEF Between
  <2> QED
    BY <1>4 DEF Tracked, AckInv, Between
<1> QED
  BY <1>1, <1>3, <1>5 DEF Tracked

\* A direction that stays, or whose oldest segment is taken.
LEMMA TakenOrderly ==
    ASSUME InductiveInvariant, SynsFirst, UNCHANGED c2s \/ FromClient
    PROVE  Orderly
<1>1. CASE UNCHANGED c2s
  BY <1>1 DEF Orderly, SynsFirst
<1>2. CASE FromClient
  <2>1. /\ Len(c2s') = Len(c2s) - 1 /\ Len(c2s) \in Nat
        /\ \A i \in 1..Len(c2s') : i + 1 \in 1..Len(c2s) /\ c2s'[i] = c2s[i + 1]
    BY <1>2, TailFacts, Parts DEF FromClient
  <2>2. ASSUME NEW i \in 1..Len(c2s'), c2s'[i].type = "SYN"
        PROVE  saved = << >> /\ \A j \in 1..i : c2s'[j].type # "DATA"
    <3>1. i + 1 \in 1..Len(c2s) /\ c2s[i + 1].type = "SYN"
      BY <2>1, <2>2
    <3>2. saved = << >> /\ \A j \in 1..(i + 1) : c2s[j].type # "DATA"
      BY <3>1 DEF SynsFirst
    <3>3. ASSUME NEW j \in 1..i PROVE c2s'[j].type # "DATA"
      <4>1. j + 1 \in 1..(i + 1) /\ j \in 1..Len(c2s')
        BY <2>1
      <4> QED
        BY <2>1, <3>2, <4>1
    <3> QED
      BY <3>2, <3>3
  <2> QED
    BY <2>1, <2>2 DEF Orderly
<1> QED
  BY <1>1, <1>2

\* Segments join a direction: data of the send buffer, a FIN, or a SYN when
\* nothing was appended.
LEMMA JoinedOrderly ==
    ASSUME InductiveInvariant, SynsFirst, NEW batch \in Seq(Segment), c2s' = c2s \o batch,
           \A j \in 1..Len(batch) :
              \/ \E k \in 1..Len(sendBuf) : batch[j].seq = sendBuf[k].seq /\ batch[j].type = "DATA"
              \/ batch[j].type = "FIN"
              \/ batch[j].type = "SYN" /\ wrote = << >> /\ Len(batch) = 1
    PROVE  Orderly
<1>1. /\ Len(c2s') = Len(c2s) + Len(batch) /\ Len(batch) \in Nat /\ Len(c2s) \in Nat
      /\ \A j \in 1..Len(c2s) : c2s'[j] = c2s[j]
      /\ \A j \in 1..Len(batch) : c2s'[Len(c2s) + j] = batch[j]
  BY Parts, JoinFacts
<1> SUFFICES ASSUME NEW i \in 1..Len(c2s')
             PROVE  /\ c2s'[i].type = "DATA" =>
                          \/ \E j \in 1..Len(c2s) : c2s'[i] = c2s[j]
                          \/ \E k \in 1..Len(sendBuf) : c2s'[i].seq = sendBuf[k].seq
                    /\ c2s'[i].type = "SYN" =>
                          saved = << >> /\ \A j \in 1..i : c2s'[j].type # "DATA"
  BY DEF Orderly
<1>2. CASE i \in 1..Len(c2s)
  BY <1>1, <1>2 DEF SynsFirst
<1>3. CASE i \notin 1..Len(c2s)
  <2>1. PICK m \in 1..Len(batch) : i = Len(c2s) + m
    <3>1. i - Len(c2s) \in 1..Len(batch) /\ i = Len(c2s) + (i - Len(c2s))
      BY <1>1, <1>3
    <3> QED
      BY <3>1
  <2>2. c2s'[i] = batch[m]
    BY <1>1, <2>1
  <2>3. CASE batch[m].type = "SYN" /\ wrote = << >> /\ Len(batch) = 1
    <3>1. saved = << >>
      <4>1. Len(saved) = 0
        BY <2>3, Parts DEF ServerInv, IsPrefixOf
      <4> QED
        BY <4>1, Parts
    <3>2. \A j \in 1..Len(c2s) : c2s[j].type # "DATA"
      BY <2>3, DataNotFresh
    <3>3. ASSUME NEW j \in 1..i PROVE c2s'[j].type # "DATA"
      <4>1. j \in 1..Len(c2s) \/ j = i
        BY <1>1, <2>1, <2>3
      <4> QED
        BY <1>1, <2>2, <2>3, <3>2, <4>1
    <3> QED
      BY <2>2, <2>3, <3>1, <3>3
  <2> QED
    BY <2>2, <2>3
<1> QED
  BY <1>2, <1>3

\* sendBuffer_append_segment(): the segment begins where the others end.
LEMMA AppendTracked ==
    ASSUME InductiveInvariant, Tracked, Client(SendAppend)
    PROVE  Tracked'
<1> DEFINE data == SubSeq(pending, 1, MAX_SEG_LEN)
           new == [seq |-> next_seqNum, data |-> data]
<1>1. /\ Len(sendBuf) \in Nat /\ next_seqNum = Len(wrote) /\ next_seqNum \in Nat
      /\ MAX_SEG_LEN \in Nat \ {0} /\ Len(saved) \in Nat /\ Len(saved) <= next_seqNum
      /\ sendBuf \in Seq(BufferedSegment) /\ pending \in Seq(Nat)
  <2>1. Len(saved) <= SentEnd /\ TypeOK
    BY Parts DEF ServerInv
  <2> QED
    BY <2>1, Parts, SentEndFacts, ClientConstants DEF TypeOK
<1>2. data \in Seq(Nat) /\ Len(data) = MAX_SEG_LEN
  BY <1>1, SplitFacts DEF Client, SendAppend
<1>3. /\ sendBuf' = Append(sendBuf, new)
      /\ next_seqNum' = next_seqNum + MAX_SEG_LEN
      /\ UNCHANGED <<c2s, s2c, saved>>
  BY <1>2 DEF Client, SendAppend, sendBuffer_append_segment, network, serverVars
<1> HIDE DEF data
<1>4. /\ Len(sendBuf') = Len(sendBuf) + 1 /\ sendBuf' # << >>
      /\ \A i \in 1..Len(sendBuf) : sendBuf'[i] = sendBuf[i]
      /\ sendBuf'[Len(sendBuf) + 1].seq = next_seqNum
      /\ Head(sendBuf') = sendBuf'[1]
  <2>1. new \in BufferedSegment
    BY <1>1, <1>2 DEF BufferedSegment
  <2>2. /\ sendBuf' \in Seq(BufferedSegment)
        /\ Len(sendBuf') = Len(sendBuf) + 1
        /\ \A i \in 1..Len(sendBuf) : sendBuf'[i] = sendBuf[i]
        /\ sendBuf'[Len(sendBuf) + 1] = new
    BY <1>1, <1>3, <2>1, AppendFacts
  <2>3. sendBuf' # << >>
    BY <1>1, <2>2
  <2>4. Head(sendBuf') = sendBuf'[1]
    BY <2>2, <2>3, TailFacts
  <2> QED
    BY <2>2, <2>3, <2>4
<1>5. \A i \in 1..Len(sendBuf') : i \in 1..Len(sendBuf) \/ i = Len(sendBuf) + 1
  BY <1>1, <1>4
<1>6. SynsFirst'
  BY <1>3 DEF Tracked, SynsFirst
<1>7. ASSUME NEW i \in 1..(Len(sendBuf') - 1)
      PROVE  sendBuf'[i + 1].seq = sendBuf'[i].seq + MAX_SEG_LEN
  <2>1. i \in 1..Len(sendBuf)
    BY <1>1, <1>4
  <2>2. CASE i = Len(sendBuf)
    <3>1. sendBuf # << >>
      BY <2>1
    <3> QED
      BY <1>4, <2>1, <2>2, <3>1 DEF Tracked, EndToEnd
  <2>3. CASE i # Len(sendBuf)
    <3>1. i \in 1..(Len(sendBuf) - 1) /\ i + 1 \in 1..Len(sendBuf)
      BY <1>1, <2>1, <2>3
    <3> QED
      BY <1>4, <2>1, <3>1 DEF Tracked, EndToEnd
  <2> QED
    BY <2>2, <2>3
<1>8. sendBuf'[Len(sendBuf')].seq + MAX_SEG_LEN = next_seqNum'
  BY <1>3, <1>4
<1>9. ASSUME NEW i \in 1..Len(sendBuf'), NEW j \in 1..Len(c2s), c2s[j].type = "DATA"
      PROVE  \/ c2s[j].seq + MAX_SEG_LEN <= sendBuf'[i].seq
             \/ c2s[j].seq = sendBuf'[i].seq
             \/ sendBuf'[i].seq + MAX_SEG_LEN <= c2s[j].seq
  <2>1. CASE i \in 1..Len(sendBuf)
    BY <1>4, <1>9, <2>1 DEF Tracked, EndToEnd
  <2>2. CASE i = Len(sendBuf) + 1
    <3>1. c2s[j].seq \in Nat /\ c2s[j].seq + MAX_SEG_LEN <= SentEnd
      BY <1>9, DataNotFresh
    <3>2. c2s[j].seq + MAX_SEG_LEN <= next_seqNum
      BY <1>1, <3>1, SentEndFacts
    <3> QED
      BY <1>4, <2>2, <3>2
  <2> QED
    BY <1>5, <2>1, <2>2
<1>10. EndToEnd'
  BY <1>3, <1>7, <1>8, <1>9 DEF EndToEnd
<1>11. ASSUME NEW p \in Nat, p <= next_seqNum, Between(p)
       PROVE  \A i \in 1..Len(sendBuf') : p <= sendBuf'[i].seq \/ sendBuf'[i].seq + MAX_SEG_LEN <= p
  BY <1>4, <1>5, <1>11 DEF Between
<1>12. ASSUME NEW i \in 1..Len(s2c), s2c[i].type = "DATAACK"
       PROVE  s2c[i].ack \in Nat /\ s2c[i].ack <= Len(saved) /\ Between(s2c[i].ack)
  <2>1. s2c[i] \in Segment
    BY Parts
  <2>2. s2c[i].ack \in Nat
    BY <2>1 DEF Segment
  <2> QED
    BY <1>12, <2>2 DEF Tracked, AckInv
<1>13. AckInv'
  <2>1. Between(Len(saved))'
    BY <1>1, <1>3, <1>11 DEF Between, Tracked, AckInv
  <2>2. ASSUME NEW i \in 1..Len(s2c), s2c[i].type = "DATAACK"
        PROVE  s2c[i].ack <= Len(saved) /\ \A k \in 1..Len(sendBuf') :
                  s2c[i].ack <= sendBuf'[k].seq \/ sendBuf'[k].seq + MAX_SEG_LEN <= s2c[i].ack
    <3>1. s2c[i].ack \in Nat /\ s2c[i].ack <= Len(saved) /\ Between(s2c[i].ack)
      BY <1>12, <2>2
    <3>2. s2c[i].ack <= next_seqNum
      BY <1>1, <3>1
    <3> QED
      BY <1>11, <3>1, <3>2
  <2> QED
    BY <1>3, <2>1, <2>2 DEF AckInv, Between
<1>14. Head(sendBuf').seq <= Len(saved)
  <2>1. CASE sendBuf = << >>
    BY <1>1, <1>4, <2>1 DEF Tracked
  <2>2. CASE sendBuf # << >>
    <3>1. Head(sendBuf) = sendBuf[1] /\ 1 \in 1..Len(sendBuf)
      BY <1>1, <2>2, TailFacts
    <3> QED
      BY <1>4, <2>2, <3>1 DEF Tracked
  <2> QED
    BY <2>1, <2>2
<1> QED
  BY <1>3, <1>4, <1>6, <1>10, <1>13, <1>14 DEF Tracked

\* sendBufferRecvAck(): an acknowledgement ends between two segments, so the
\* segment that is the first now begins where the popped ones end.
LEMMA PopTracked ==
    ASSUME InductiveInvariant, Tracked, Pops, UNCHANGED saved
    PROVE  Tracked'
<1> DEFINE ack == Head(s2c).ack
<1>1. Head(s2c) = s2c[1] /\ 1 \in 1..Len(s2c) /\ s2c' = Tail(s2c) /\ UNCHANGED <<wrote, c2s>>
  BY Parts, TailFacts DEF Pops, FromServer
<1>2. ack \in Nat /\ ack <= Len(saved) /\ Between(ack)
  <2>1. s2c[1] \in Segment
    BY <1>1, Parts
  <2>2. s2c[1].ack \in Nat
    BY <2>1 DEF Segment
  <2> QED
    BY <1>1, <2>2 DEF Pops, Tracked, AckInv
<1>3. PICK n \in 0..Len(sendBuf) :
        /\ \A i \in 1..n : sendBuf[i].seq < ack
        /\ sendBuf' = SubSeq(sendBuf, n + 1, Len(sendBuf))
        /\ UNCHANGED next_seqNum
  BY DEF Pops, sendBufferRecvAck
<1> HIDE DEF ack
<1>4. /\ n \in Nat /\ Len(sendBuf) \in Nat /\ Len(sendBuf') = Len(sendBuf) - n
      /\ \A i \in 1..Len(sendBuf') : n + i \in 1..Len(sendBuf) /\ sendBuf'[i] = sendBuf[n + i]
      /\ sendBuf' \in Seq(BufferedSegment)
  <2>1. sendBuf \in Seq(BufferedSegment) /\ Len(sendBuf) \in Nat /\ n \in Nat /\ n <= Len(sendBuf)
    BY <1>3, Parts
  <2> QED
    BY <1>3, <2>1, SplitFacts
<1>5. SynsFirst'
  BY <1>1 DEF Tracked, SynsFirst
<1>6. ASSUME NEW i \in 1..(Len(sendBuf') - 1)
      PROVE  sendBuf'[i + 1].seq = sendBuf'[i].seq + MAX_SEG_LEN
  <2>1. /\ i \in 1..Len(sendBuf') /\ i + 1 \in 1..Len(sendBuf') /\ n + i \in 1..(Len(sendBuf) - 1)
        /\ n + (i + 1) = (n + i) + 1
    BY <1>4
  <2>2. sendBuf'[i] = sendBuf[n + i] /\ sendBuf'[i + 1] = sendBuf[n + i + 1]
    BY <1>4, <2>1
  <2> QED
    BY <2>1, <2>2 DEF Tracked, EndToEnd
<1>7. sendBuf' # << >> => sendBuf'[Len(sendBuf')].seq + MAX_SEG_LEN = next_seqNum'
  <2>1. ASSUME sendBuf' # << >>
        PROVE  /\ Len(sendBuf') \in 1..Len(sendBuf') /\ n + Len(sendBuf') = Len(sendBuf)
               /\ sendBuf # << >>
    BY <1>4, <2>1
  <2> QED
    BY <1>3, <1>4, <2>1 DEF Tracked, EndToEnd
<1>8. EndToEnd'
  BY <1>1, <1>4, <1>6, <1>7 DEF Tracked, EndToEnd
<1>9. \A p : Between(p) => \A i \in 1..Len(sendBuf') : p <= sendBuf'[i].seq \/ sendBuf'[i].seq + MAX_SEG_LEN <= p
  BY <1>4 DEF Between
<1>10. AckInv'
  <2>1. \A i \in 1..Len(s2c') : i + 1 \in 1..Len(s2c) /\ s2c'[i] = s2c[i + 1]
    BY <1>1, Parts, TailFacts
  <2>2. Between(Len(saved))'
    BY <1>9 DEF Between, Tracked, AckInv
  <2>3. \A i \in 1..Len(s2c') : s2c'[i].type = "DATAACK" =>
           s2c'[i].ack <= Len(saved) /\ \A k \in 1..Len(sendBuf') :
              s2c'[i].ack <= sendBuf'[k].seq \/ sendBuf'[k].seq + MAX_SEG_LEN <= s2c'[i].ack
    BY <1>9, <2>1 DEF Tracked, AckInv
  <2> QED
    BY <2>2, <2>3 DEF AckInv, Between
<1>11. ASSUME n # 0
       PROVE  n \in 1..Len(sendBuf) /\ sendBuf[n].seq \in Nat /\ sendBuf[n].seq + MAX_SEG_LEN <= Len(saved)
  <2>1. n \in 1..Len(sendBuf) /\ n \in 1..n
    BY <1>4, <1>11
  <2>2. sendBuf[n].seq \in Nat /\ sendBuf[n].seq < ack
    BY <1>3, <2>1, BufferFields
  <2>3. sendBuf[n].seq + MAX_SEG_LEN <= ack
    BY <1>2, <2>1, <2>2 DEF Between
  <2> QED
    BY <1>2, <2>1, <2>2, <2>3, Parts, ClientConstants
<1>12. sendBuf' # << >> => Head(sendBuf').seq <= Len(saved)
  <2> SUFFICES ASSUME sendBuf' # << >> PROVE Head(sendBuf').seq <= Len(saved)
    OBVIOUS
  <2>1. Head(sendBuf') = sendBuf[n + 1] /\ n + 1 \in 1..Len(sendBuf) /\ sendBuf # << >>
    BY <1>4, TailFacts
  <2>2. CASE n = 0
    <3>1. Head(sendBuf) = sendBuf[1]
      BY <2>1, Parts, TailFacts
    <3> QED
      BY <2>1, <2>2, <3>1 DEF Tracked
  <2>3. CASE n # 0
    <3>1. n \in 1..(Len(sendBuf) - 1)
      BY <1>4, <2>1, <2>3
    <3>2. sendBuf[n + 1].seq = sendBuf[n].seq + MAX_SEG_LEN
      BY <3>1 DEF Tracked, EndToEnd
    <3> QED
      BY <1>11, <2>1, <2>3, <3>2
  <2> QED
    BY <2>2, <2>3
<1>13. sendBuf' = << >> => next_seqNum' \in {0, Len(saved)}
  <2> SUFFICES ASSUME sendBuf' = << >> PROVE next_seqNum' \in {0, Len(saved)}
    OBVIOUS
  <2>1. n = Len(sendBuf)
    <3>1. Len(sendBuf') = 0
      OBVIOUS
    <3> QED
      BY <1>4, <3>1
  <2>2. CASE n = 0
    <3>1. sendBuf = << >>
      <4>1. sendBuf \in Seq(BufferedSegment)
        BY Parts
      <4>2. Len(sendBuf) = 0
        BY <2>1, <2>2
      <4> QED
        BY <4>1, <4>2
    <3> QED
      BY <1>3, <3>1 DEF Tracked
  <2>3. CASE n # 0
    <3>1. sendBuf # << >>
      BY <2>1, <2>3
    <3>2. next_seqNum = sendBuf[n].seq + MAX_SEG_LEN
      BY <2>1, <3>1 DEF Tracked, EndToEnd
    <3>3. Len(saved) <= SentEnd /\ SentEnd <= next_seqNum /\ Len(saved) \in Nat /\ SentEnd \in Nat
      BY Parts, SentEndFacts DEF ServerInv
    <3> QED
      BY <1>3, <1>11, <2>3, <3>2, <3>3, Parts, ClientConstants
  <2> QED
    BY <2>2, <2>3
<1> QED
  BY <1>5, <1>8, <1>10, <1>12, <1>13 DEF Tracked

\* data_received() saves a segment: it is one of the send buffer, or apart from
\* them all, so what is saved ends between two segments again.
LEMMA SaveTracked ==
    ASSUME InductiveInvariant, Tracked, FromClient, Head(c2s).type = "DATA",
           Head(c2s).seq = Len(saved), Len(saved') = Len(saved) + MAX_SEG_LEN,
           UNCHANGED <<next_seqNum, sendBuf>>, Answers
    PROVE  Tracked'
<1> DEFINE seg == Head(c2s)
<1>1. /\ Len(c2s') = Len(c2s) - 1 /\ Len(c2s) \in Nat /\ seg = c2s[1] /\ 1 \in 1..Len(c2s)
      /\ \A i \in 1..Len(c2s') : i + 1 \in 1..Len(c2s) /\ c2s'[i] = c2s[i + 1]
  BY TailFacts, Parts DEF FromClient
<1>2. seg.seq + MAX_SEG_LEN <= SentEnd /\ Len(saved) \in Nat /\ MAX_SEG_LEN \in Nat \ {0}
  BY <1>1, DataNotFresh, Parts, ClientConstants
<1>3. SynsFirst'
  <2>1. ASSUME NEW i \in 1..Len(c2s'), c2s'[i].type = "SYN" PROVE FALSE
    <3>1. i + 1 \in 1..Len(c2s) /\ c2s[i + 1].type = "SYN" /\ 1 \in 1..(i + 1)
      BY <1>1, <2>1
    <3> QED
      BY <1>1, <3>1 DEF Tracked, SynsFirst
  <2> QED
    BY <2>1 DEF SynsFirst
<1>4. EndToEnd'
  BY <1>1 DEF Tracked, EndToEnd
<1>5. Len(saved') \in Nat /\ Len(saved') >= Len(saved)
  BY <1>2
<1>6. \A i \in 1..Len(sendBuf) : Len(saved') <= sendBuf[i].seq \/ sendBuf[i].seq + MAX_SEG_LEN <= Len(saved')
  <2> TAKE i \in 1..Len(sendBuf)
  <2>1. \/ seg.seq + MAX_SEG_LEN <= sendBuf[i].seq
        \/ seg.seq = sendBuf[i].seq
        \/ sendBuf[i].seq + MAX_SEG_LEN <= seg.seq
    BY <1>1 DEF Tracked, EndToEnd
  <2>2. sendBuf[i].seq \in Nat
    BY BufferFields
  <2> QED
    BY <1>2, <1>5, <2>1, <2>2
<1>7. ASSUME NEW i \in 1..Len(s2c'), s2c'[i].type = "DATAACK"
      PROVE  s2c'[i].ack <= Len(saved') /\ Between(s2c'[i].ack)
  <2>1. CASE \E j \in 1..Len(s2c) : s2c'[i] = s2c[j]
    <3>1. PICK j \in 1..Len(s2c) : s2c'[i] = s2c[j]
      BY <2>1
    <3>2. s2c[j].ack <= Len(saved) /\ Between(s2c[j].ack)
      BY <1>7, <3>1 DEF Tracked, AckInv
    <3>3. s2c[j] \in Segment
      BY Parts
    <3>4. s2c[j].ack \in Nat
      BY <3>3 DEF Segment
    <3> QED
      BY <1>2, <1>5, <3>1, <3>2, <3>4
  <2>2. CASE s2c'[i].ack = Len(saved')
    BY <1>5, <1>6, <2>2 DEF Between
  <2> QED
    BY <1>5, <1>7, <2>1, <2>2, AnswersFacts
<1>8. AckInv'
  BY <1>6, <1>7 DEF AckInv, Between
<1>9. ASSUME sendBuf # << >> PROVE Head(sendBuf).seq <= Len(saved')
  <2>1. Head(sendBuf) = sendBuf[1] /\ 1 \in 1..Len(sendBuf)
    BY <1>9, Parts, TailFacts
  <2>2. sendBuf[1].seq \in Nat /\ sendBuf[1].seq <= Len(saved)
    BY <1>9, <2>1, BufferFields DEF Tracked
  <2> QED
    BY <1>2, <1>5, <2>1, <2>2
<1>10. sendBuf # << >>
  <2> SUFFICES ASSUME sendBuf = << >> PROVE FALSE
    OBVIOUS
  <2>1. sendBufunSent = 0
    BY Parts DEF WindowConsistent
  <2>2. SentEnd = next_seqNum
    BY <2>1 DEF SentEnd
  <2>3. next_seqNum \in {0, Len(saved)}
    BY DEF Tracked
  <2> QED
    BY <1>2, <2>2, <2>3
<1> QED
  BY <1>3, <1>4, <1>8, <1>9, <1>10 DEF Tracked

LEMMA SameSequence ==
    ASSUME NEW S, NEW s \in Seq(S), NEW t \in Seq(S), Len(s) = Len(t),
           \A i \in 1..Len(s) : s[i] = t[i]
    PROVE  s = t
OBVIOUS

LEMMA ConcatAssociates ==
    \A r, s, t \in Seq(Nat) : (r \o s) \o t = r \o (s \o t)
<1> TAKE r, s, t \in Seq(Nat)
<1> DEFINE left == (r \o s) \o t
           right == r \o (s \o t)
<1>1. /\ r \o s \in Seq(Nat) /\ s \o t \in Seq(Nat) /\ left \in Seq(Nat) /\ right \in Seq(Nat)
      /\ Len(r) \in Nat /\ Len(s) \in Nat /\ Len(t) \in Nat
      /\ Len(r \o s) = Len(r) + Len(s) /\ Len(s \o t) = Len(s) + Len(t)
      /\ Len(left) = Len(r) + Len(s) + Len(t) /\ Len(right) = Len(r) + Len(s) + Len(t)
  BY ByteConcat, ConcatFacts
<1>2. ASSUME NEW i \in 1..Len(left) PROVE left[i] = right[i]
  <2>1. CASE i \in 1..Len(r)
    BY <1>1, <2>1, ByteConcat, ConcatFacts
  <2>2. CASE i \in (Len(r) + 1)..(Len(r) + Len(s))
    <3>1. i - Len(r) \in 1..Len(s) /\ i \in 1..Len(r \o s) /\ i - Len(r) \in 1..Len(s \o t)
          /\ i \in (Len(r) + 1)..(Len(r) + Len(s \o t))
      BY <1>1, <2>2
    <3>2. left[i] = s[i - Len(r)]
      BY <1>1, <2>2, <3>1, ByteConcat, ConcatFacts
    <3>3. right[i] = (s \o t)[i - Len(r)] /\ (s \o t)[i - Len(r)] = s[i - Len(r)]
      BY <1>1, <3>1, ByteConcat, ConcatFacts
    <3> QED
      BY <3>2, <3>3
  <2>3. CASE i \in (Len(r) + Len(s) + 1)..(Len(r) + Len(s) + Len(t))
    <3>1. /\ i \in (Len(r \o s) + 1)..(Len(r \o s) + Len(t))
          /\ i \in (Len(r) + 1)..(Len(r) + Len(s \o t))
          /\ i - Len(r) \in (Len(s) + 1)..(Len(s) + Len(t))
          /\ i - Len(r \o s) = (i - Len(r)) - Len(s)
      BY <1>1, <2>3
    <3>2. left[i] = t[i - Len(r \o s)]
      BY <1>1, <3>1, ByteConcat, ConcatFacts
    <3>3. right[i] = (s \o t)[i - Len(r)] /\ (s \o t)[i - Len(r)] = t[(i - Len(r)) - Len(s)]
      BY <1>1, <3>1, ByteConcat, ConcatFacts
    <3> QED
      BY <3>1, <3>2, <3>3
  <2> QED
    BY <1>1, <2>1, <2>2, <2>3
<1> HIDE DEF left, right
<1>3. left = right
  BY <1>1, <1>2, SameSequence
<1> QED
  BY <1>3 DEF left, right

LEMMA SplitJoins ==
    ASSUME NEW S, NEW s \in Seq(S), NEW n \in Nat, n <= Len(s)
    PROVE  SubSeq(s, 1, n) \o SubSeq(s, n + 1, Len(s)) = s
<1> DEFINE front == SubSeq(s, 1, n)
           back == SubSeq(s, n + 1, Len(s))
<1>1. /\ front \in Seq(S) /\ back \in Seq(S) /\ Len(front) = n /\ Len(back) = Len(s) - n
      /\ \A i \in 1..n : front[i] = s[i]
      /\ \A i \in 1..(Len(s) - n) : back[i] = s[n + i]
      /\ Len(s) \in Nat
  BY SplitFacts
<1> HIDE DEF front, back
<1>2. /\ front \o back \in Seq(S) /\ Len(front \o back) = Len(s)
      /\ \A i \in 1..n : (front \o back)[i] = front[i]
      /\ \A i \in (n + 1)..Len(s) : (front \o back)[i] = back[i - n]
  BY <1>1, ConcatFacts
<1>3. \A i \in 1..Len(s) : (front \o back)[i] = s[i]
  <2> TAKE i \in 1..Len(s)
  <2>1. CASE i \in 1..n
    BY <1>1, <1>2, <2>1
  <2>2. CASE i \notin 1..n
    <3>1. i \in (n + 1)..Len(s) /\ i - n \in 1..(Len(s) - n) /\ n + (i - n) = i
      BY <1>1, <2>2
    <3> QED
      BY <1>1, <1>2, <3>1
  <2> QED
    BY <2>1, <2>2
<1>4. front \o back = s
  BY <1>2, <1>3, SameSequence
<1> QED
  BY <1>4 DEF front, back

\* A step in which the server saves a segment.
Saves ==
    /\ sState = "CONNECTED" /\ UNCHANGED <<sState, accepts, delivered>>
    /\ Head(c2s).type = "DATA"
    /\ Head(c2s).seq = Len(saved)
    /\ saved' = saved \o Head(c2s).data
    /\ recvBuf' = recvBuf \o Head(c2s).data
    /\ Len(saved') = Len(saved) + MAX_SEG_LEN
    /\ FromClient
    /\ Answers

\* What a step of the server does in the first connection: it saves a segment,
\* or what was saved stays, whatever the reply.
ServerKinds ==
    \/ Saves
    \/ UNCHANGED saved /\ (UNCHANGED c2s \/ FromClient) /\ Answers

LEMMA SegmentAnswers ==
    ASSUME InductiveInvariant, HeardInv, SynsFirst, FromClient, segment_recv(Head(c2s))
    PROVE  UNCHANGED saved /\ Answers
<1>1. UNCHANGED saved
  <2>1. Head(c2s) = c2s[1] /\ 1 \in 1..Len(c2s)
    BY Parts, TailFacts DEF FromClient
  <2> QED
    BY <2>1, ReceivedExpect DEF SynsFirst
<1>2. Answers
  <2>1. s2c \in Seq(Segment)
    BY Parts
  <2>2. CASE Head(c2s).type = "SYN"
    BY <2>2 DEF segment_recv, Answers
  <2>3. CASE Head(c2s).type = "FIN"
    BY <2>3 DEF segment_recv, Answers
  <2>4. CASE Head(c2s).type \notin {"SYN", "FIN"}
    BY <2>1, <2>4 DEF segment_recv, Answers, ToClient
  <2> QED
    BY <2>2, <2>3, <2>4
<1> QED
  BY <1>1, <1>2

LEMMA ServerKind ==
    ASSUME InductiveInvariant, HeardInv, SynsFirst, RecvBufInv,
           ServerCalls \/ ServerSteps \/ ServerHandler \/ CloseWait
    PROVE  UNCHANGED clientVars /\ ServerKinds /\ RecvBufInv'
<1> DEFINE Goal == UNCHANGED clientVars /\ ServerKinds /\ RecvBufInv'
<1>0. /\ accepts \in Nat /\ recvBuf \in Seq(Nat) /\ delivered \in Seq(Nat) /\ want \in Nat
      /\ saved \in Seq(Nat)
  BY Parts DEF TypeOK
<1>1. ASSUME UNCHANGED <<clientVars, saved, recvBuf, delivered>>, Answers, UNCHANGED c2s \/ FromClient,
             accepts' = accepts \/ accepts' = accepts + 1,
             accepts' <= 1 /\ sState \in {"CLOSEWAIT", "CLOSED", "FREED"} =>
                  sState' \in {"CLOSEWAIT", "CLOSED", "FREED"} \/ accepts = 0
      PROVE  Goal
  <2>1. UNCHANGED clientVars /\ ServerKinds
    BY <1>1 DEF ServerKinds
  <2>2. ASSUME accepts' <= 1 PROVE accepts <= 1 /\ (accepts' = 1 => accepts \in {0, 1})
    BY <1>0, <1>1, <2>2
  <2>3. UNCHANGED <<delivered \o recvBuf, saved, recvBuf, IsPrefixOf(delivered, saved)>>
    BY <1>1
  <2>4. RecvBufInv'
    BY <1>0, <1>1, <2>2, <2>3 DEF RecvBufInv
  <2> QED
    BY <2>1, <2>4
<1> SUFFICES Goal
  OBVIOUS
<1> USE DEF serverApp, network, Server
<1>2. CASE Server(mrt_server_sock)
  <2>1. Answers
    BY <1>2 DEF mrt_server_sock, Answers
  <2> HIDE DEF Goal
  <2> QED
    BY <1>1, <1>2, <2>1 DEF mrt_server_sock
<1>3. CASE Server(AcceptCall)
  <2>1. Answers
    BY <1>3 DEF AcceptCall, Answers
  <2> HIDE DEF Goal
  <2> QED
    BY <1>0, <1>1, <1>3, <2>1 DEF AcceptCall
<1>4. ASSUME NEW n \in RecvLengths, Server(RecvCall(n)) PROVE Goal
  <2>1. Answers
    BY <1>4 DEF RecvCall, Answers
  <2> HIDE DEF Goal
  <2> QED
    BY <1>1, <1>4, <2>1 DEF RecvCall
<1>5. CASE Server(mrt_server_close)
  <2>1. Answers
    BY <1>5 DEF mrt_server_close, Answers
  <2> HIDE DEF Goal
  <2> QED
    BY <1>1, <1>5, <2>1 DEF mrt_server_close
<1>6. CASE Server(AcceptReturn)
  <2>1. Answers
    BY <1>6 DEF AcceptReturn, Answers
  <2> HIDE DEF Goal
  <2> QED
    BY <1>1, <1>6, <2>1 DEF AcceptReturn
<1>7. CASE Server(RecvPoll)
  <2>1. Answers
    BY <1>7 DEF RecvPoll, Answers
  <2> HIDE DEF Goal
  <2> QED
    BY <1>1, <1>7, <2>1 DEF RecvPoll
<1>8. CASE Server(RecvUnderflow)
  <2>1. Answers /\ UNCHANGED serverVars
    BY <1>8 DEF RecvUnderflow, Answers
  <2> HIDE DEF Goal
  <2> QED
    BY <1>1, <1>8, <2>1 DEF RecvUnderflow, serverVars
<1>9. CASE Server(RecvCopy)
  <2> DEFINE front == SubSeq(recvBuf, 1, want)
             back == SubSeq(recvBuf, want + 1, Len(recvBuf))
  <2>1. /\ want <= Len(recvBuf) /\ delivered' = delivered \o front /\ recvBuf' = back
        /\ UNCHANGED <<clientVars, saved, accepts, sState, c2s>> /\ Answers
    BY <1>9 DEF RecvCopy, Answers
  <2>2. front \in Seq(Nat) /\ back \in Seq(Nat) /\ Len(front) = want
    <3>1. recvBuf \in Seq(Nat) /\ want \in Nat /\ want <= Len(recvBuf)
      BY <1>0, <2>1
    <3> QED
      BY <3>1, SplitFacts
  <2>9. front \o back = recvBuf
    BY <1>0, <2>1, SplitJoins
  <2> HIDE DEF front, back
  <2>3. delivered' \o recvBuf' = delivered \o recvBuf
    <3>1. (delivered \o front) \o back = delivered \o (front \o back)
      BY <1>0, <2>2, ConcatAssociates
    <3> QED
      BY <2>1, <2>9, <3>1
  <2>4. recvBuf = << >> => recvBuf' = << >> /\ delivered' = delivered
    <3> SUFFICES ASSUME recvBuf = << >> PROVE recvBuf' = << >> /\ delivered' = delivered
      OBVIOUS
    <3>1. want = 0 /\ Len(recvBuf) = 0
      BY <1>0, <2>1
    <3>2. front = << >> /\ back = << >>
      BY <1>0, <2>2, <3>1 DEF front, back
    <3> QED
      BY <1>0, <2>1, <3>2
  <2>5. RecvBufInv'
    BY <2>1, <2>3, <2>4 DEF RecvBufInv
  <2> QED
    BY <2>1, <2>5 DEF ServerKinds
<1>10. CASE Server(Listening)
  <2>1. UNCHANGED saved /\ Answers /\ FromClient
    BY <1>10, SegmentAnswers DEF Listening, Receive
  <2> HIDE DEF Goal
  <2> QED
    BY <1>1, <1>10, <2>1 DEF Listening, Receive
<1>11. CASE Server(ConnectedSyn)
  <2>1. UNCHANGED saved /\ Answers /\ FromClient
    BY <1>11, SegmentAnswers DEF ConnectedSyn, Receive
  <2> HIDE DEF Goal
  <2> QED
    BY <1>1, <1>11, <2>1 DEF ConnectedSyn, Receive
<1>12. CASE Server(ConnectedFin)
  <2>1. UNCHANGED saved /\ Answers /\ FromClient
    BY <1>12, SegmentAnswers DEF ConnectedFin, Receive
  <2> HIDE DEF Goal
  <2> QED
    BY <1>1, <1>12, <2>1 DEF ConnectedFin, Receive
<1>13. CASE Server(CloseWaitFin)
  <2>1. UNCHANGED saved /\ Answers /\ FromClient
    BY <1>13, SegmentAnswers DEF CloseWaitFin, Receive
  <2> HIDE DEF Goal
  <2> QED
    BY <1>1, <1>13, <2>1 DEF CloseWaitFin, Receive
<1>14. CASE Server(ConnectedData)
  <2> DEFINE data == Head(c2s).data
  <2>1. /\ FromClient /\ Head(c2s).type = "DATA" /\ sState = "CONNECTED"
        /\ UNCHANGED <<clientVars, sState, accepts, delivered>>
    BY <1>14 DEF ConnectedData, Receive
  <2>2. \/ /\ UNCHANGED <<saved, recvBuf>>
           /\ UNCHANGED s2c \/ ToClient(<<DataAck(Len(saved))>>)
        \/ /\ Head(c2s).seq = Len(saved)
           /\ saved' = saved \o Head(c2s).data
           /\ recvBuf' = recvBuf \o Head(c2s).data
           /\ Len(saved') = Len(saved) + MAX_SEG_LEN
           /\ ToClient(<<DataAck(Len(saved'))>>)
    BY <1>14, <2>1, ReceivedData DEF ConnectedData
  <2>3. CASE UNCHANGED <<saved, recvBuf>> /\ (UNCHANGED s2c \/ ToClient(<<DataAck(Len(saved))>>))
    <3>1. Answers
      BY <2>3 DEF Answers
    <3> HIDE DEF Goal
    <3> QED
      BY <1>1, <2>1, <2>3, <3>1
  <2>4. CASE /\ Head(c2s).seq = Len(saved)
             /\ saved' = saved \o Head(c2s).data
             /\ recvBuf' = recvBuf \o Head(c2s).data
             /\ Len(saved') = Len(saved) + MAX_SEG_LEN
             /\ ToClient(<<DataAck(Len(saved'))>>)
    <3>1. Saves
      BY <2>1, <2>4 DEF Saves, Answers
    <3>2. data \in Seq(Nat)
      <4>1. Head(c2s) = c2s[1] /\ 1 \in 1..Len(c2s)
        BY <2>1, Parts, TailFacts DEF FromClient
      <4> QED
        BY <2>1, <4>1, DataNotFresh
    <3>3. (delivered \o recvBuf) \o data = delivered \o (recvBuf \o data)
      BY <1>0, <3>2, ConcatAssociates
    <3>4. RecvBufInv'
      BY <2>1, <2>4, <3>3 DEF RecvBufInv
    <3> QED
      BY <2>1, <3>1, <3>4 DEF ServerKinds
  <2> QED
    BY <2>2, <2>3, <2>4
<1>15. CASE Server(Dropped)
  <2>1. Answers
    BY <1>15 DEF Dropped, Answers
  <2> HIDE DEF Goal
  <2> QED
    BY <1>1, <1>15, <2>1 DEF Dropped, Receive
<1>16. CASE Server(NoTCB)
  <2>1. Answers
    BY <1>16 DEF NoTCB, Answers
  <2> HIDE DEF Goal
  <2> QED
    BY <1>1, <1>16, <2>1 DEF NoTCB, Receive
<1>17. CASE Server(CloseWaitClear)
  <2>1. /\ UNCHANGED <<clientVars, saved, accepts, delivered, sState, c2s>> /\ Answers
        /\ recvBuf' = << >> /\ closing = "asleep"
    BY <1>17 DEF CloseWaitClear, Answers
  <2>2. sState = "CLOSEWAIT" /\ accepts >= 1
    BY <2>1 DEF HeardInv
  <2>3. delivered \o recvBuf = saved => IsPrefixOf(delivered, saved)
    BY <1>0, ConcatFacts DEF IsPrefixOf
  <2>4. RecvBufInv'
    BY <1>0, <2>1, <2>2, <2>3 DEF RecvBufInv
  <2> QED
    BY <2>1, <2>4 DEF ServerKinds
<1>18. CASE Server(CloseWaitEnd)
  <2>1. Answers
    BY <1>18 DEF CloseWaitEnd, Answers
  <2> HIDE DEF Goal
  <2> QED
    BY <1>1, <1>18, <2>1 DEF CloseWaitEnd
<1> HIDE DEF Goal
<1> QED
  BY <1>2, <1>3, <1>4, <1>5, <1>6, <1>7, <1>8, <1>9, <1>10, <1>11, <1>12, <1>13, <1>14,
     <1>15, <1>16, <1>17, <1>18
  DEF ServerCalls, ServerSteps, ServerHandler, CloseWait

LEMMA TrackingParts ==
    ASSUME TrackingInv
    PROVE  /\ HeardInv
           /\ FirstConnection => Opening /\ SynsFirst /\ Tracked /\ RecvBufInv
BY DEF TrackingInv, Tracked, WindowTracksReceiver

LEMMA TrackedIsTracking ==
    ASSUME InductiveInvariant, HeardInv, FirstConnection => Opening /\ Tracked /\ RecvBufInv
    PROVE  TrackingInv
BY Parts DEF TrackingInv, Tracked, WindowTracksReceiver, ServerInv

\* A step of the client in the first connection.
LEMMA ClientTracked ==
    ASSUME InductiveInvariant, Tracked, ClientKinds, UNCHANGED serverVars, FirstConnection'
    PROVE  Tracked'
<1>1. UNCHANGED saved
  BY DEF serverVars
<1>2. ASSUME SameBuffer, Orderly, Answers PROVE Tracked'
  BY <1>1, <1>2, SettledKeeps DEF SameBuffer
<1>3. SynsFirst
  BY DEF Tracked
<1>4. CASE Rests
  BY <1>2, <1>3, <1>4, TakenOrderly DEF Rests, Answers
<1>5. ASSUME NEW type \in {"SYN", "FIN"}, type = "SYN" => wrote = << >>, ToServer(<<Control(type)>>)
      PROVE  Orderly
  <2> DEFINE batch == <<Control(type)>>
  <2>1. batch \in Seq(Segment) /\ Len(batch) = 1 /\ batch[1] = Control(type) /\ c2s' = c2s \o batch
    BY <1>5, ControlSegment DEF SegTypes, ToServer
  <2>2. Control(type).type = type
    BY DEF Control
  <2> HIDE DEF batch
  <2>3. \A j \in 1..Len(batch) : batch[j].type = type
    BY <2>1, <2>2
  <2> QED
    BY <1>3, <1>5, <2>1, <2>3, JoinedOrderly
<1>6. CASE Opens
  BY <1>2, <1>5, <1>6 DEF Opens, Answers
<1>7. CASE Closes
  BY <1>2, <1>5, <1>7 DEF Closes, Answers
<1>8. CASE Sends
  <2>1. PICK batch \in Seq(Segment) :
               /\ c2s' = c2s \o batch
               /\ \A j \in 1..Len(batch) : \E i \in 1..Len(sendBuf) : batch[j] = DataSeg(sendBuf[i])
    BY <1>8 DEF Sends
  <2>2. \A j \in 1..Len(batch) : \E k \in 1..Len(sendBuf) :
           batch[j].seq = sendBuf[k].seq /\ batch[j].type = "DATA"
    <3>1. \A s : DataSeg(s).seq = s.seq /\ DataSeg(s).type = "DATA"
      BY DEF DataSeg
    <3> QED
      BY <2>1, <3>1
  <2>3. Orderly
    BY <1>3, <2>1, <2>2, JoinedOrderly
  <2>4. Answers /\ UNCHANGED <<next_seqNum, sendBuf, saved>>
    BY <1>1, <1>8 DEF Sends, Answers
  <2> QED
    BY <2>3, <2>4, SettledKeeps
<1>9. CASE Client(SendAppend)
  BY <1>9, AppendTracked
<1>10. CASE Pops
  BY <1>1, <1>10, PopTracked
<1> QED
  BY <1>4, <1>6, <1>7, <1>8, <1>9, <1>10 DEF ClientKinds

\* A step of the server in the first connection.
LEMMA ServerTracked ==
    ASSUME InductiveInvariant, Tracked, ServerKinds, UNCHANGED clientVars
    PROVE  Tracked'
<1>1. UNCHANGED <<next_seqNum, sendBuf>>
  BY DEF clientVars, tcb
<1>2. CASE Saves
  BY <1>1, <1>2, SaveTracked DEF Saves
<1>3. CASE UNCHANGED saved /\ (UNCHANGED c2s \/ FromClient) /\ Answers
  BY <1>1, <1>3, TakenOrderly, SettledKeeps DEF Tracked
<1> QED
  BY <1>2, <1>3 DEF ServerKinds

LEMMA LossTracked ==
    ASSUME InductiveInvariant, Tracked, Loss
    PROVE  Tracked'
<1>1. UNCHANGED <<next_seqNum, sendBuf, saved>> /\ (UNCHANGED c2s \/ FromClient) /\ Answers
  BY DEF Loss, LoseToServer, LoseToClient, clientVars, tcb, serverVars, Answers
<1> QED
  BY <1>1, TakenOrderly, SettledKeeps DEF Tracked

LEMMA TrackingStep ==
    ASSUME SvrPort # SvrNodeID, InductiveInvariant, InductiveInvariant', AgreementInv,
           TrackingInv, [Next]_vars
    PROVE  TrackingInv'
<1>1. HeardInv /\ (FirstConnection => Opening /\ SynsFirst /\ Tracked /\ RecvBufInv)
  BY TrackingParts
<1>2. HeardInv'
  BY <1>1, HeardStep
<1> DEFINE Kept == FirstConnection' => Opening' /\ Tracked' /\ RecvBufInv'
<1> SUFFICES Kept
  <2>1. (InductiveInvariant /\ HeardInv /\ (FirstConnection => Opening /\ Tracked /\ RecvBufInv) => TrackingInv)'
    BY TrackedIsTracking, PTL
  <2> QED
    BY <1>2, <2>1
<1>3. ASSUME UNCHANGED serverVars PROVE RecvBufInv => RecvBufInv'
  BY <1>3 DEF serverVars, serverApp, RecvBufInv, IsPrefixOf
<1>4. ASSUME UNCHANGED clientVars PROVE (FirstConnection <=> FirstConnection') /\ (Opening => Opening')
  BY <1>4 DEF clientVars, tcb, history, FirstConnection, Opening
<1>5. connects \in Nat /\ connects' \in Nat
  <2>1. TypeOK /\ TypeOK'
    BY Parts DEF InductiveInvariant
  <2> QED
    BY <2>1 DEF TypeOK
<1>6. CASE ClientCalls \/ ClientSteps \/ ClientHandler \/ ClientTimers
  <2>1. /\ ClientKinds /\ Connecting /\ UNCHANGED serverVars
        /\ FirstConnection' => Opening'
    BY <1>1, <1>6, ClientKind
  <2>2. FirstConnection' => FirstConnection
    BY <1>5, <2>1 DEF FirstConnection, Connecting
  <2> QED
    BY <1>1, <1>3, <2>1, <2>2, ClientTracked
<1>7. CASE ServerCalls \/ ServerSteps \/ ServerHandler \/ CloseWait
  <2>1. ASSUME FirstConnection PROVE UNCHANGED clientVars /\ ServerKinds /\ RecvBufInv'
    BY <1>1, <1>7, <2>1, ServerKind
  <2>2. UNCHANGED clientVars
    BY <1>7 DEF ServerCalls, ServerSteps, ServerHandler, CloseWait, Server
  <2> QED
    BY <1>1, <1>4, <2>1, <2>2, ServerTracked
<1>8. CASE Loss
  <2>1. UNCHANGED clientVars /\ UNCHANGED serverVars
    BY <1>8 DEF Loss
  <2> QED
    BY <1>1, <1>3, <1>4, <1>8, <2>1, LossTracked
<1>9. CASE UNCHANGED vars
  <2>1. UNCHANGED clientVars /\ UNCHANGED serverVars /\ UNCHANGED <<c2s, s2c>>
    BY <1>9 DEF vars, network
  <2>2. UNCHANGED <<next_seqNum, sendBuf, saved>> /\ Answers
    BY <2>1 DEF clientVars, tcb, serverVars, Answers
  <2>3. Tracked => Tracked'
    BY <2>1, <2>2, TakenOrderly, SettledKeeps DEF Tracked
  <2> QED
    BY <1>1, <1>3, <1>4, <2>1, <2>3
<1> HIDE DEF Kept
<1> QED
  BY <1>6, <1>7, <1>8, <1>9 DEF Next

LEMMA InitTracking == Init => TrackingInv
BY DEF Init, ClientInit, ServerInit, TrackingInv, HeardInv, Heard, FirstConnection, Opening, SynsFirst,
       EndToEnd, AckInv, Between, RecvBufInv, WindowTracksReceiver, SentEnd, ConcatFacts

\* The invariants of MRT hold together, for the whole life of both TCBs.
THEOREM Tracking ==
    SvrPort # SvrNodeID => (Spec => [](InductiveInvariant /\ AgreementInv /\ TrackingInv))
<1> SUFFICES ASSUME SvrPort # SvrNodeID
             PROVE  Spec => [](InductiveInvariant /\ AgreementInv /\ TrackingInv)
  OBVIOUS
<1>1. Init => AgreementInv
  BY DEF Init, ClientInit, ServerInit, AgreementInv, ConnectionAgreed, Heard
<1>2. InductiveInvariant => TypeOK
  BY DEF InductiveInvariant
<1>3. TypeOK /\ AgreementInv /\ [Next]_vars => AgreementInv'
  BY AgreementStep
<1>4. /\ InductiveInvariant /\ InductiveInvariant' /\ AgreementInv /\ TrackingInv /\ [Next]_vars
      => TrackingInv'
  BY TrackingStep
<1>5. Spec => []InductiveInvariant
  BY Inductive
<1> QED
  BY <1>1, <1>2, <1>3, <1>4, <1>5, InitTracking, PTL DEF Spec

\* The client frees only what the server has saved, and the server has saved
\* only what was sent: sendBufferRecvAck() never pops a segment that
\* data_received() still waits for.
THEOREM WindowTracked == SvrPort # SvrNodeID => (Spec => []WindowTracksReceiver)
<1>1. TrackingInv => WindowTracksReceiver
  BY DEF TrackingInv
<1> QED
  BY <1>1, Tracking, PTL

\* What mrt_server_recv() has returned, followed by what waits in recvBuf, is a
\* prefix of what mrt_client_send() has appended: recvBuf loses and repeats
\* nothing, also when closewait() empties it in the middle of a stream.
THEOREM DeliveryCorrect == SvrPort # SvrNodeID => (Spec => []DeliveryIntegrity)
<1>1. ASSUME InductiveInvariant, TrackingInv PROVE DeliveryIntegrity
  <2> SUFFICES ASSUME FirstConnection, accepts <= 1
               PROVE  IsPrefixOf(delivered \o recvBuf, wrote)
    BY DEF DeliveryIntegrity
  <2>1. IsPrefixOf(saved, wrote) /\ wrote \in Seq(Nat) /\ saved \in Seq(Nat)
        /\ delivered \in Seq(Nat) /\ recvBuf \in Seq(Nat)
    BY <1>1, Parts DEF TypeOK, ServerInv
  <2>2. CASE delivered \o recvBuf = saved
    BY <2>1, <2>2
  <2>3. CASE recvBuf = << >> /\ IsPrefixOf(delivered, saved)
    <3>1. delivered \o recvBuf = delivered
      BY <2>1, <2>3
    <3>2. Len(delivered) <= Len(saved) /\ Len(saved) <= Len(wrote)
      BY <2>1, <2>3 DEF IsPrefixOf
    <3>3. ASSUME NEW i \in 1..Len(delivered) PROVE delivered[i] = wrote[i]
      <4>1. i \in 1..Len(saved)
        BY <2>1, <3>2
      <4> QED
        BY <2>1, <2>3, <3>3, <4>1 DEF IsPrefixOf
    <3>4. Len(delivered) <= Len(wrote)
      BY <2>1, <3>2
    <3> QED
      BY <3>1, <3>3, <3>4 DEF IsPrefixOf
  <2> QED
    BY <1>1, <2>2, <2>3, TrackingParts DEF RecvBufInv
<1> QED
  BY <1>1, Tracking, PTL

\* No segment, however old, takes expect_seqNum back once a SYN was handled.
THEOREM ExpectCorrect == SvrPort # SvrNodeID => (Spec => ExpectNeverRewinds)
<1> SUFFICES ASSUME SvrPort # SvrNodeID PROVE Spec => ExpectNeverRewinds
  OBVIOUS
<1> DEFINE Rewind == FirstConnection /\ sState \in {"CONNECTED", "CLOSEWAIT"}
                       => expect_seqNum' >= expect_seqNum
           All == InductiveInvariant /\ AgreementInv /\ TrackingInv
<1>1. ASSUME All, All', [Next]_vars PROVE [Rewind]_vars
  <2> SUFFICES ASSUME FirstConnection, sState \in {"CONNECTED", "CLOSEWAIT"}
               PROVE  expect_seqNum' >= expect_seqNum
    OBVIOUS
  <2>1. HeardInv /\ SynsFirst /\ RecvBufInv /\ Opening
    BY <1>1, TrackingParts
  <2>2. accepts \in Nat /\ Len(saved) \in Nat /\ expect_seqNum \in Nat
    BY <1>1, Parts DEF TypeOK
  <2>3. Heard /\ expect_seqNum = Len(saved)
    BY <2>1, <2>2 DEF HeardInv, Heard
  <2>4. CASE UNCHANGED serverVars
    BY <2>2, <2>4 DEF serverVars
  <2>5. CASE ServerCalls \/ ServerSteps \/ ServerHandler \/ CloseWait
    <3>1. ServerKinds
      BY <1>1, <2>1, <2>5, ServerKind
    <3>2. Len(saved') >= Len(saved)
      BY <2>2, <3>1, ClientConstants DEF ServerKinds, Saves
    <3>3. HeardInv' /\ Len(saved') \in Nat /\ accepts' \in Nat
      <4>1. TypeOK' /\ HeardInv'
        BY <1>1 DEF InductiveInvariant, TrackingInv
      <4> QED
        BY <4>1 DEF TypeOK
    <3>4. Heard'
      BY <1>1, <2>1, <2>3, HeardStep
    <3> QED
      BY <2>2, <2>3, <3>2, <3>3, <3>4 DEF HeardInv
  <2>6. CASE ClientCalls \/ ClientSteps \/ ClientHandler \/ ClientTimers
    BY <1>1, <2>1, <2>4, <2>6, ClientKind
  <2> QED
    BY <1>1, <2>4, <2>5, <2>6 DEF Next, Loss, vars
<1>2. Spec => []All
  BY Tracking
<1> QED
  BY <1>1, <1>2, PTL DEF Spec, ExpectNeverRewinds

-----------------------------------------------------------------------------
(* Refinement.                                                             *)

\* A step of a client that connects at most once.
LEMMA ConnectsBounded ==
    ASSUME SvrPort # SvrNodeID, InductiveInvariant, AgreementInv, TrackingInv,
           connects <= MaxConnects, [Next]_vars
    PROVE  connects' <= MaxConnects
<1>1. CASE UNCHANGED clientVars
  BY <1>1 DEF clientVars, history
<1>2. CASE ClientCalls \/ ClientSteps \/ ClientHandler \/ ClientTimers
  BY <1>2, TrackingParts, ClientKind DEF Connecting
<1> QED
  BY <1>1, <1>2 DEF Next, ServerCalls, ServerSteps, ServerHandler, CloseWait, Server, Loss, vars

\* A step of the transport is a step of the stream: SendAppend is Write, the
\* ConnectedData that saves is Accept, and every other step is a stutter.
LEMMA StreamStep ==
    ASSUME SvrPort # SvrNodeID, InductiveInvariant, InductiveInvariant', AgreementInv, TrackingInv,
           FirstConnection, [Next]_vars
    PROVE  [Stream!Next]_<<wrote, saved>>
<1>1. /\ wrote \in Seq(Nat) /\ saved \in Seq(Nat)
      /\ wrote' \in Seq(Nat) /\ saved' \in Seq(Nat) /\ IsPrefixOf(saved, wrote)'
  BY Parts DEF InductiveInvariant, TypeOK, ServerInv
<1>2. HeardInv /\ SynsFirst /\ RecvBufInv /\ Opening
  BY TrackingParts
<1>3. CASE Client(SendAppend)
  <2> DEFINE data == SubSeq(pending, 1, MAX_SEG_LEN)
  <2>1. wrote' = wrote \o data /\ UNCHANGED saved /\ MAX_SEG_LEN <= Len(pending) /\ pending \in Seq(Nat)
    BY <1>3, Parts DEF Client, SendAppend, serverVars, TypeOK
  <2>2. data \in Seq(Nat)
    BY <2>1, SplitFacts, ClientConstants
  <2> HIDE DEF data
  <2>3. Len(wrote) <= Len(wrote') /\ \A i \in 1..Len(wrote) : wrote'[i] = wrote[i]
    BY <1>1, <2>1, <2>2, ByteConcat
  <2>4. Stream!Write
    BY <1>1, <2>1, <2>3 DEF Stream!Write, Stream!Extends
  <2> QED
    BY <2>4 DEF Stream!Next
<1>4. CASE UNCHANGED <<wrote, saved>>
  BY <1>4
<1>5. CASE Saves /\ UNCHANGED wrote
  <2>1. Head(c2s).data \in Seq(Nat) /\ saved' = saved \o Head(c2s).data
    <3>1. Head(c2s) = c2s[1] /\ 1 \in 1..Len(c2s)
      BY <1>5, Parts, TailFacts DEF Saves, FromClient
    <3> QED
      BY <1>5, <3>1, DataNotFresh DEF Saves
  <2>2. Len(saved) <= Len(saved') /\ \A i \in 1..Len(saved) : saved'[i] = saved[i]
    BY <1>1, <2>1, ByteConcat
  <2>3. Len(saved') <= Len(wrote) /\ \A i \in 1..Len(saved') : wrote[i] = saved'[i]
    BY <1>1, <1>5 DEF IsPrefixOf
  <2>4. Stream!Accept
    BY <1>1, <1>5, <2>2, <2>3 DEF Stream!Accept, Stream!Extends
  <2> QED
    BY <2>4 DEF Stream!Next
<1>6. CASE ClientCalls \/ ClientSteps \/ ClientHandler \/ ClientTimers
  <2>1. ClientKinds /\ UNCHANGED serverVars
    BY <1>2, <1>6, ClientKind
  <2>2. Client(SendAppend) \/ UNCHANGED <<wrote, saved>>
    BY <2>1 DEF ClientKinds, Rests, Opens, Closes, Sends, Pops, SameBuffer, serverVars
  <2> QED
    BY <1>3, <1>4, <2>2
<1>7. CASE ServerCalls \/ ServerSteps \/ ServerHandler \/ CloseWait
  <2>1. ServerKinds /\ UNCHANGED clientVars
    BY <1>2, <1>7, ServerKind
  <2>2. (Saves /\ UNCHANGED wrote) \/ UNCHANGED <<wrote, saved>>
    BY <2>1 DEF ServerKinds, clientVars, history
  <2> QED
    BY <1>4, <1>5, <2>2
<1>8. CASE Loss \/ UNCHANGED vars
  <2>1. UNCHANGED <<wrote, saved>>
    BY <1>8 DEF Loss, vars, clientVars, history, serverVars
  <2> QED
    BY <1>4, <2>1
<1> QED
  BY <1>6, <1>7, <1>8 DEF Next

\* The transport of lab4, for a client that connects once, implements the
\* reliable stream: what recvBuf was given is at every moment a prefix of what
\* mrt_client_send() appended, and neither end takes a byte back.
THEOREM Refinement ==
    SvrPort # SvrNodeID /\ MaxConnects <= 1 => (Spec => ImplementsStream)
<1> SUFFICES ASSUME SvrPort # SvrNodeID, MaxConnects <= 1 PROVE Spec => ImplementsStream
  OBVIOUS
<1> DEFINE All == InductiveInvariant /\ AgreementInv /\ TrackingInv
           Bounded == connects <= MaxConnects
<1>1. Init => Stream!Init
  BY DEF Init, ClientInit, ServerInit, Stream!Init
<1>2. Init => Bounded
  BY ClientConstants DEF Init, ClientInit
<1>3. All /\ Bounded /\ [Next]_vars => Bounded'
  BY ConnectsBounded
<1>4. All /\ All' /\ Bounded /\ [Next]_vars => [Stream!Next]_<<wrote, saved>>
  <2> SUFFICES ASSUME All, All', Bounded, [Next]_vars PROVE [Stream!Next]_<<wrote, saved>>
    OBVIOUS
  <2>1. FirstConnection
    <3>1. connects \in Nat
      BY Parts DEF TypeOK
    <3> QED
      BY <3>1, ClientConstants DEF FirstConnection
  <2> QED
    BY <2>1, StreamStep
<1>5. Spec => []All
  BY Tracking
<1> HIDE DEF All, Bounded
<1> QED
  BY <1>1, <1>2, <1>3, <1>4, <1>5, PTL DEF Spec, ImplementsStream, Stream!Spec
=============================================================================
