----------------------------- MODULE Lab2_proofs -----------------------------
(***************************************************************************)
(* The stream, the locks and the states of the client and server of lab2,   *)
(* for every window, segment length, buffer and number of segments.         *)
(***************************************************************************)
EXTENDS Lab2MRT, TLAPS

(* The segments on the way, and those that can be.                           *)
Elems(q) == {q[i] : i \in 1..Len(q)}

(* An answer of the server has nothing in seq_num that the client looks at.  *)
Acks == \A seg \in Elems(s2c) : seg.type = "DATAACK" => seg.seq = 0

(* What the seghandler of the server is about to save fits.                  *)
Fitting ==
    /\ smain = "counting" => bufMutex = "recv"
    /\ bufMutex = "free" =>
          /\ usedBufLen < RECEIVE_BUF_SIZE
          /\ shandler = "save" => (loaded.seghandler + segment.length) % Width < RECEIVE_BUF_SIZE

Early == {"NONE", "CLOSED", "LISTENING"}

(* This client sends no FIN, so that a server that has left LISTENING does not
   come back; and what the client takes for a connection, it has.            *)
Sent(seg) == seg.type # "FIN" /\ (seg.type = "SYN" => seg.seq = 0)
Answered ==
    /\ cmain = "other" => cstate = "NONE" /\ chandler = "ended"
    /\ cmain # "other" =>
          /\ closing = FALSE
          /\ smain = "sock" => sstate = "NONE"
          /\ Sent(segment) /\ \A seg \in Elems(c2s) : Sent(seg)
          /\ \/ sstate \notin Early
             \/ /\ \A seg \in Elems(s2c) : seg.type # "SYNACK"
                /\ cstate # "CONNECTED" /\ chandler # "accepting"

(* What DATA segments hold, and where the buffer is when one is being saved.  *)
Carries(seg) ==
    seg.type = "DATA" =>
        seg.data = seg.seq /\ seg.length < MAX_SEG_LEN /\ seg.seq + seg.length <= next_seqNum
Numbers ==
    /\ cmain \notin {"sending", "other"} => wants = 0
    /\ cmain = "sending" /\ Numbered => node.length = wants
    /\ Numbered => Carries(segment) /\ \A seg \in Elems(c2s) : Carries(seg)

Holds(n) == \A k \in Offsets : k < n => recvBuf[k] = k
Stream ==
    Numbered /\ bufMutex = "free" =>
        /\ usedBufLen = expect_seqNum /\ expect_seqNum <= next_seqNum
        /\ Holds(usedBufLen)
        /\ sstate \in Early => expect_seqNum = 0
        /\ shandler = "save" =>
              /\ sstate \notin Early
              /\ segment.type = "DATA" /\ segment.seq = expect_seqNum
              /\ loaded.seghandler = usedBufLen
              /\ usedBufLen + segment.length < RECEIVE_BUF_SIZE
              /\ Holds(usedBufLen + segment.length)

Inv == TypeOK /\ Acks /\ NoSelfLock /\ Fitting /\ Answered /\ Numbers /\ Stream
-----------------------------------------------------------------------------
(* Sequences of segments                                                    *)

LEMMA JoinElems ==
    ASSUME NEW S, NEW a \in Seq(S), NEW b \in Seq(S)
    PROVE  Elems(a \o b) = Elems(a) \cup Elems(b)
<1>1. /\ Len(a \o b) = Len(a) + Len(b) /\ Len(a) \in Nat /\ Len(b) \in Nat
      /\ \A i \in 1..Len(a) + Len(b) :
            (a \o b)[i] = IF i <= Len(a) THEN a[i] ELSE b[i - Len(a)]
  OBVIOUS
<1>2. ASSUME NEW x \in Elems(a \o b) PROVE x \in Elems(a) \cup Elems(b)
  <2>1. PICK i \in 1..Len(a) + Len(b) : x = (a \o b)[i]
    BY <1>1, <1>2 DEF Elems
  <2>2. CASE i <= Len(a)
    BY <1>1, <2>1, <2>2 DEF Elems
  <2>3. CASE i > Len(a)
    <3>1. i - Len(a) \in 1..Len(b) /\ x = b[i - Len(a)]
      BY <1>1, <2>1, <2>3
    <3> QED  BY <3>1 DEF Elems
  <2> QED  BY <1>1, <2>2, <2>3
<1>3. ASSUME NEW x \in Elems(a) PROVE x \in Elems(a \o b)
  <2>1. PICK i \in 1..Len(a) : x = a[i]
    BY <1>3 DEF Elems
  <2>2. i \in 1..Len(a \o b) /\ x = (a \o b)[i]
    BY <1>1, <2>1
  <2> QED  BY <2>2 DEF Elems
<1>4. ASSUME NEW x \in Elems(b) PROVE x \in Elems(a \o b)
  <2>1. PICK i \in 1..Len(b) : x = b[i]
    BY <1>4 DEF Elems
  <2>2. i + Len(a) \in 1..Len(a \o b) /\ x = (a \o b)[i + Len(a)]
    BY <1>1, <2>1
  <2> QED  BY <2>2 DEF Elems
<1> QED  BY <1>2, <1>3, <1>4

LEMMA TakeElems ==
    ASSUME NEW S, NEW q \in Seq(S), q # << >>
    PROVE  Head(q) \in Elems(q) /\ Elems(Tail(q)) \subseteq Elems(q) /\ Head(q) \in S /\ Tail(q) \in Seq(S)
<1>1. Len(q) \in Nat \ {0} /\ Head(q) = q[1] /\ Len(Tail(q)) = Len(q) - 1
      /\ \A i \in 1..Len(q) - 1 : Tail(q)[i] = q[i + 1]
  OBVIOUS
<1> QED  BY <1>1 DEF Elems

LEMMA SendElems ==
    ASSUME NetworkTypeOK, NEW from \in Processes, NEW segs \in Seq(Segment), mnp_sendseg(from, segs)
    PROVE  /\ NetworkTypeOK'
           /\ Elems(c2s') \subseteq Elems(c2s) \cup Elems(segs)
           /\ Elems(s2c') \subseteq Elems(s2c) \cup Elems(segs)
           /\ from = "client" => s2c' = s2c
           /\ from = "server" => c2s' = c2s
<1>1. c2s \in Seq(Segment) /\ s2c \in Seq(Segment) /\ alive \subseteq Processes
  BY DEF NetworkTypeOK
<1>2. /\ Elems(c2s \o segs) = Elems(c2s) \cup Elems(segs)
      /\ Elems(s2c \o segs) = Elems(s2c) \cup Elems(segs)
      /\ c2s \o segs \in Seq(Segment) /\ s2c \o segs \in Seq(Segment)
  BY <1>1, JoinElems
<1>3. c2s' \in {c2s, c2s \o segs} /\ s2c' \in {s2c, s2c \o segs} /\ alive' \in {alive, alive \ {from}}
      /\ (from = "client" => s2c' = s2c) /\ (from = "server" => c2s' = c2s)
  BY DEF mnp_sendseg, Dies
<1> QED  BY <1>1, <1>2, <1>3 DEF NetworkTypeOK

LEMMA OneElem ==
    ASSUME NEW seg \in Segment
    PROVE  <<seg>> \in Seq(Segment) /\ Elems(<<seg>>) = {seg}
<1>1. Len(<<seg>>) = 1 /\ <<seg>>[1] = seg
  OBVIOUS
<1> QED  BY <1>1 DEF Elems

LEMMA Made ==
    ASSUME NEW type \in SegTypes, NEW src \in Ports, NEW dest \in Ports, NEW seq \in Nat, NEW ack \in Nat
    PROVE  /\ Seg(type, src, dest, seq, ack) \in Segment
           /\ Seg(type, src, dest, seq, ack).type = type /\ Seg(type, src, dest, seq, ack).seq = seq
BY DEF Seg, Segment, Junk
-----------------------------------------------------------------------------
THEOREM InitInv == Init => Inv
<1> SUFFICES ASSUME Init PROVE Inv
  OBVIOUS
<1> USE SegmentConstants, ClientConstants, ServerConstants
<1>1. c2s = << >> /\ s2c = << >> /\ Elems(c2s) = {} /\ Elems(s2c) = {}
  BY DEF Init, NetworkInit, Elems
<1>2. segment \in Segment /\ segment.type = "SYN" /\ segment.seq = 0
  BY DEF Init, mrt_server_init, Seg, Segment, SegTypes, Ports, Processes, Junk
<1>3. TypeOK
  <2>1. /\ c2s \in Seq(Segment) /\ s2c \in Seq(Segment) /\ alive \subseteq Processes
        /\ segment \in Segment
    BY <1>1, <1>2 DEF Init, NetworkInit
  <2>2. recvBuf \in [Offsets -> Nat \cup {Junk, Unset}] /\ usedBufLen \in 0..Width - 1
        /\ loaded \in [main : 0..Width - 1, seghandler : 0..Width - 1]
    BY DEF Init, mrt_server_init
  <2>3. /\ smain = "sock" /\ sstate = "NONE" /\ bufMutex = "free" /\ shandler = "fetch"
        /\ asked \in Nat /\ expect_seqNum \in Nat /\ fetched = FALSE /\ closing = FALSE
        /\ client_portNum \in Ports
    BY DEF Init, mrt_server_init, Ports
  <2>4. /\ cmain \in {"sock", "other"} /\ cstate = "NONE" /\ chandler \in {"running", "ended"}
        /\ tries \in Nat /\ wants \in Nat /\ rounds \in Nat /\ next_seqNum \in Nat
        /\ node \in [seq : Nat, length : Nat] /\ unAck_segNum \in Nat
        /\ sendBufHead = FALSE /\ sendBufunSent = FALSE /\ timing = FALSE
    BY DEF Init, mrt_client_init, OtherClient
  <2> QED  BY <2>1, <2>2, <2>3, <2>4 DEF TypeOK, NetworkTypeOK, ClientTypeOK, ServerTypeOK
<1>4. Acks /\ NoSelfLock /\ Fitting
  BY <1>1 DEF Init, mrt_server_init, mrt_client_init, OtherClient, Acks, NoSelfLock, Fitting
<1>5. Answered
  BY <1>1, <1>2 DEF Init, mrt_server_init, mrt_client_init, OtherClient, Answered, Sent, Early
<1>6. Numbers
  BY <1>1, <1>2 DEF Init, mrt_server_init, mrt_client_init, OtherClient, Numbers, Carries
<1>7. Stream
  BY DEF Init, mrt_server_init, mrt_client_init, OtherClient, Stream, Holds, Offsets
<1> QED  BY <1>3, <1>4, <1>5, <1>6, <1>7 DEF Inv

LEMMA ReceiveElems ==
    ASSUME NetworkTypeOK, NEW to \in Processes, mnp_recvseg(to)
    PROVE  /\ c2s' \in Seq(Segment) /\ s2c' \in Seq(Segment)
           /\ Elems(c2s') \subseteq Elems(c2s) /\ Elems(s2c') \subseteq Elems(s2c)
           /\ to = "client" => Head(s2c) \in Elems(s2c) /\ Head(s2c) \in Segment /\ c2s' = c2s
           /\ to = "server" => Head(c2s) \in Elems(c2s) /\ Head(c2s) \in Segment /\ s2c' = s2c
<1>1. c2s \in Seq(Segment) /\ s2c \in Seq(Segment)
  BY DEF NetworkTypeOK
<1>2. CASE to = "client"
  BY <1>1, <1>2, TakeElems DEF mnp_recvseg
<1>3. CASE to = "server"
  BY <1>1, <1>3, TakeElems DEF mnp_recvseg
<1> QED  BY <1>2, <1>3 DEF Processes
-----------------------------------------------------------------------------
(* The steps of a client                                                    *)

ClientStep == (ClientNext \/ OtherSends \/ OtherEnds) /\ UNCHANGED svars


LEMMA DataIsSegment ==
    ASSUME ClientTypeOK
    PROVE  /\ Data(next_seqNum) \in Segment /\ Data(next_seqNum).type = "DATA"
           /\ Data(next_seqNum).seq = next_seqNum /\ Data(next_seqNum).length = node.length
           /\ wants < MAX_SEG_LEN => Data(next_seqNum).data = next_seqNum
BY DEF ClientTypeOK, Data, Seg, Segment, SegTypes, Ports, Processes, Junk

LEMMA SameElems ==
    ASSUME NEW seg \in Segment, NEW n \in Nat
    PROVE  [i \in 1..n |-> seg] \in Seq(Segment) /\ Elems([i \in 1..n |-> seg]) \subseteq {seg}
<1>1. [i \in 1..n |-> seg] \in Seq(Segment) /\ Len([i \in 1..n |-> seg]) = n
  OBVIOUS
<1> QED  BY <1>1 DEF Elems

LEMMA ClientTypes ==
    ASSUME Inv, ClientStep
    PROVE  NetworkTypeOK' /\ ClientTypeOK' /\ Elems(s2c') \subseteq Elems(s2c) /\ NoSelfLock'
<1> USE SegmentConstants, ClientConstants
<1>0. NetworkTypeOK /\ ClientTypeOK /\ Acks /\ NoSelfLock
  BY DEF Inv, TypeOK
<1>s. ASSUME NEW segs \in Seq(Segment), mnp_sendseg("client", segs)
      PROVE  NetworkTypeOK' /\ Elems(s2c') \subseteq Elems(s2c)
  BY <1>0, <1>s, SendElems DEF Processes
<1>k. ASSUME UNCHANGED <<c2s, s2c>>, alive' = alive \/ Dies("client")
      PROVE  NetworkTypeOK' /\ Elems(s2c') \subseteq Elems(s2c)
  BY <1>0, <1>k DEF NetworkTypeOK, Dies, Elems
<1>p. Syn \in Segment /\ <<Syn>> \in Seq(Segment)
  BY Made DEF Syn, SegTypes, Ports, Processes
<1>1. CASE mrt_client_sock
  BY <1>0, <1>1, <1>k DEF mrt_client_sock, Main, ClientTypeOK, NoSelfLock, network, sendVars
<1>2. CASE mrt_client_connect
  BY <1>0, <1>2, <1>s, <1>p DEF mrt_client_connect, Main, ClientTypeOK, NoSelfLock, sendVars
<1>3. CASE SynSent
  BY <1>0, <1>3, <1>k DEF SynSent, Main, ClientTypeOK, NoSelfLock, network, sendVars
<1>4. CASE Retry
  BY <1>0, <1>4, <1>s, <1>p DEF Retry, Main, ClientTypeOK, NoSelfLock, sendVars
<1>5. CASE ConnectReturns
  BY <1>0, <1>5, <1>k DEF ConnectReturns, Main, ClientTypeOK, NoSelfLock, network, sendVars
<1>6. CASE mrt_client_send
  BY <1>0, <1>6, <1>k DEF mrt_client_send, Main, ClientTypeOK, NoSelfLock, network
<1>7. CASE SendRound
  <2>w. Window \in Nat
    BY <1>0 DEF Window, ClientTypeOK
  <2>1. PICK n \in Nat : mnp_sendseg("client", [i \in 1..n |-> Data(next_seqNum)])
    BY <2>w, <1>7 DEF SendRound, send_buff
  <2>t. timing' \in BOOLEAN /\ sendBufunSent' \in BOOLEAN
    BY <1>7, Zenon DEF SendRound, send_buff
  <2>2. NetworkTypeOK' /\ Elems(s2c') \subseteq Elems(s2c)
    BY <1>0, <1>s, <2>1, DataIsSegment, SameElems
  <2>3. node' \in [seq : Nat, length : Nat] /\ next_seqNum' \in Nat
    BY <1>0, <1>7 DEF SendRound, ClientTypeOK
  <2>4. /\ cmain' = "sending" /\ sendBufHead' = TRUE /\ unAck_segNum' = unAck_segNum + 1
        /\ rounds' = rounds + 1 /\ UNCHANGED <<tries, wants, cstate, chandler>>
    BY <1>7 DEF SendRound, Main
  <2> QED  BY <1>0, <2>2, <2>t, <2>3, <2>4 DEF ClientTypeOK, NoSelfLock
<1>8. CASE mrt_client_disconnect
  BY <1>0, <1>8, <1>k DEF mrt_client_disconnect, Main, ClientTypeOK, NoSelfLock, network, sendVars
<1>15. CASE FreeBuffer
  BY <1>0, <1>15, <1>k DEF FreeBuffer, Main, ClientTypeOK, NoSelfLock, network, sendVars
<1>9. CASE mrt_client_close \/ overlay_stop
  BY <1>0, <1>9, <1>k DEF mrt_client_close, overlay_stop, Main, ClientTypeOK, NoSelfLock, sendVars
<1>10. CASE buffer_timer
  BY <1>0, <1>10, <1>k DEF buffer_timer, ClientTypeOK, NoSelfLock
<1>11. CASE client_seghandler
  <2>1. /\ c2s' \in Seq(Segment) /\ s2c' \in Seq(Segment) /\ Elems(s2c') \subseteq Elems(s2c)
        /\ Head(s2c) \in Elems(s2c) /\ Head(s2c) \in Segment
    BY <1>0, <1>11, ReceiveElems DEF client_seghandler, Processes
  <2>2. Head(s2c).type = "DATAACK" => ~(Head(s2c).seq > node.seq)
    BY <1>0, <2>1 DEF Acks, ClientTypeOK, Segment
  <2>3. /\ alive' \subseteq Processes
        /\ cstate' \in {cstate, "CLOSED"} /\ sendBufHead' = sendBufHead /\ unAck_segNum' = unAck_segNum
        /\ chandler' \in {chandler, "accepting"}
    BY <1>0, <1>11, <2>2 DEF client_seghandler, Receives, AckReceived, Dies, NetworkTypeOK
  <2> QED  BY <1>0, <1>11, <2>1, <2>3 DEF client_seghandler, NetworkTypeOK, ClientTypeOK, NoSelfLock
<1>12. CASE Accepting \/ SeghandlerEnds
  BY <1>0, <1>12, <1>k DEF Accepting, SeghandlerEnds, ClientTypeOK, NoSelfLock, network, sendVars
<1>13. CASE OtherSends
  <2>1. PICK seg \in OtherSegments : mnp_sendseg("client", <<seg>>)
    BY <1>13 DEF OtherSends
  <2>2. seg \in Segment
    <3>1. CASE seg \in {Seg(type, "client", "server", 0, 0) : type \in {"SYN", "FIN"}}
      <4>1. PICK type \in {"SYN", "FIN"} : seg = Seg(type, "client", "server", 0, 0)
        BY <3>1
      <4> QED  BY <4>1, Made DEF SegTypes, Ports, Processes
    <3>2. CASE seg \in {[Seg("DATA", "client", "server", seq, 0) EXCEPT !.length = 1, !.data = seq] : seq \in {0, 1}}
      <4>1. PICK seq \in {0, 1} : seg = [Seg("DATA", "client", "server", seq, 0) EXCEPT !.length = 1, !.data = seq]
        BY <3>2
      <4>2. seg = [type |-> "DATA", src |-> "client", dest |-> "server", seq |-> seq, ack |-> 0,
                   length |-> 1, data |-> seq]
        BY <4>1 DEF Seg
      <4> QED  BY <4>2 DEF Segment, SegTypes, Ports, Processes
    <3> QED  BY <2>1, <3>1, <3>2 DEF OtherSegments
  <2>3. NetworkTypeOK' /\ Elems(s2c') \subseteq Elems(s2c)
    BY <1>s, <2>1, <2>2, OneElem
  <2> QED  BY <1>0, <1>13, <2>3 DEF OtherSends, Main, ClientTypeOK, NoSelfLock, sendVars
<1>14. CASE OtherEnds
  BY <1>0, <1>14, <1>k DEF OtherEnds, Main, ClientTypeOK, NoSelfLock, sendVars
<1> QED
  BY <1>1, <1>2, <1>3, <1>4, <1>5, <1>6, <1>7, <1>8, <1>9, <1>10, <1>11, <1>12, <1>13, <1>14, <1>15
  DEF ClientStep, ClientNext, ClientMain, ClientHandler

LEMMA ClientSends ==
    ASSUME Inv, ClientStep
    PROVE  \A seg \in Elems(c2s') :
              \/ seg \in Elems(c2s) \/ cmain = "other" \/ seg = Syn
              \/ seg = Data(next_seqNum) /\ SendRound
<1> USE SegmentConstants, ClientConstants
<1>0. NetworkTypeOK /\ ClientTypeOK
  BY DEF Inv, TypeOK
<1>1. CASE UNCHANGED c2s
  BY <1>1 DEF Elems
<1>2. CASE mrt_client_connect \/ Retry
  <2>1. <<Syn>> \in Seq(Segment) /\ Elems(<<Syn>>) = {Syn}
    BY Made, OneElem DEF Syn, SegTypes, Ports, Processes
  <2>2. mnp_sendseg("client", <<Syn>>)
    BY <1>2 DEF mrt_client_connect, Retry
  <2> QED  BY <1>0, <2>1, <2>2, SendElems DEF Processes
<1>3. CASE SendRound
  <2>w. Window \in Nat
    BY <1>0 DEF Window, ClientTypeOK
  <2>1. PICK n \in Nat : mnp_sendseg("client", [i \in 1..n |-> Data(next_seqNum)])
    BY <2>w, <1>3 DEF SendRound, send_buff
  <2> QED  BY <1>0, <1>3, <2>1, DataIsSegment, SameElems, SendElems DEF Processes
<1>4. CASE client_seghandler
  BY <1>0, <1>4, ReceiveElems DEF client_seghandler, Processes
<1>5. CASE OtherSends
  BY <1>5 DEF OtherSends, Main
<1>6. CASE \/ mrt_client_sock \/ SynSent \/ ConnectReturns \/ mrt_client_send
           \/ mrt_client_disconnect \/ FreeBuffer \/ mrt_client_close \/ overlay_stop
           \/ buffer_timer \/ Accepting \/ SeghandlerEnds \/ OtherEnds
  BY <1>1, <1>6
  DEF mrt_client_sock, SynSent, ConnectReturns, mrt_client_send, mrt_client_disconnect,
      FreeBuffer, mrt_client_close, overlay_stop, buffer_timer, Accepting, SeghandlerEnds,
      OtherEnds, network
<1> QED
  BY <1>2, <1>3, <1>4, <1>5, <1>6
  DEF ClientStep, ClientNext, ClientMain, ClientHandler

LEMMA ClientStates ==
    ASSUME Inv, ClientStep
    PROVE  /\ cmain' = "other" <=> cmain = "other"
           /\ cmain = "other" => cstate' = cstate /\ chandler' = chandler
           /\ cstate' = "CONNECTED" => cstate = "CONNECTED" \/ chandler = "accepting"
           /\ \/ chandler' # "accepting" \/ chandler = "accepting"
              \/ \E seg \in Elems(s2c) : seg.type = "SYNACK"
<1>0. NetworkTypeOK /\ ClientTypeOK
  BY DEF Inv, TypeOK
<1>1. cmain = "other" => chandler = "ended"
  BY DEF Inv, Answered
<1>2. CASE client_seghandler
  <2>1. Head(s2c) \in Elems(s2c)
    BY <1>0, <1>2, ReceiveElems DEF client_seghandler, Processes
  <2> QED  BY <1>1, <1>2, <2>1 DEF client_seghandler, Receives, AckReceived
<1>3. CASE Accepting \/ SeghandlerEnds \/ buffer_timer
  BY <1>1, <1>3 DEF Accepting, SeghandlerEnds, buffer_timer
<1>4. CASE ClientMain
  BY <1>4
  DEF ClientMain, mrt_client_sock, mrt_client_connect, SynSent, Retry, ConnectReturns,
      mrt_client_send, SendRound, mrt_client_disconnect, FreeBuffer, mrt_client_close,
      overlay_stop, Main
<1>5. CASE OtherSends \/ OtherEnds
  BY <1>5 DEF OtherSends, OtherEnds, Main
<1> QED  BY <1>2, <1>3, <1>4, <1>5 DEF ClientStep, ClientNext, ClientHandler

LEMMA ClientNumbers ==
    ASSUME Inv, ClientStep
    PROVE  /\ next_seqNum' >= next_seqNum
           /\ Numbered' => Numbered
           /\ cmain' \notin {"sending", "other"} => wants' = 0
           /\ cmain' = "sending" /\ Numbered' => node'.length = wants'
<1> USE SegmentConstants
<1>0. ClientTypeOK /\ Numbers
  BY DEF Inv, TypeOK
<1>1. CASE mrt_client_send
  BY <1>0, <1>1 DEF mrt_client_send, Main, Numbers, Numbered, ClientTypeOK
<1>2. CASE SendRound
  BY <1>0, <1>2 DEF SendRound, Main, Numbers, Numbered, ClientTypeOK
<1>3. CASE UNCHANGED <<cmain, wants, next_seqNum, node>>
  BY <1>0, <1>3 DEF Numbers, Numbered, ClientTypeOK
<1>4. CASE client_seghandler \/ Accepting \/ SeghandlerEnds \/ buffer_timer \/ OtherSends \/ OtherEnds
  BY <1>3, <1>4 DEF client_seghandler, Accepting, SeghandlerEnds, buffer_timer, sendVars,
                    OtherSends, OtherEnds, Main
<1>5. CASE \/ mrt_client_sock \/ mrt_client_connect \/ SynSent \/ Retry \/ ConnectReturns
           \/ mrt_client_disconnect \/ FreeBuffer \/ mrt_client_close \/ overlay_stop
  <2>1. /\ UNCHANGED <<wants, next_seqNum, node>>
        /\ cmain \notin {"sending", "other"} /\ cmain' \notin {"sending", "other"}
    BY <1>5
    DEF mrt_client_sock, mrt_client_connect, SynSent, Retry, ConnectReturns,
        mrt_client_disconnect, FreeBuffer, mrt_client_close, overlay_stop, Main, sendVars
  <2> QED  BY <1>0, <2>1 DEF Numbers, Numbered, ClientTypeOK
<1> QED  BY <1>1, <1>2, <1>4, <1>5 DEF ClientStep, ClientNext, ClientMain, ClientHandler

LEMMA ClientKeepsInv == ASSUME Inv, ClientStep PROVE Inv'
<1> USE SegmentConstants, ClientConstants
<1>0. NetworkTypeOK /\ ClientTypeOK /\ ServerTypeOK /\ UNCHANGED svars
  BY DEF Inv, TypeOK, ClientStep
<1>1. NetworkTypeOK' /\ ClientTypeOK' /\ Elems(s2c') \subseteq Elems(s2c) /\ NoSelfLock'
  BY ClientTypes
<1>2. ServerTypeOK' /\ Fitting'
  BY <1>0 DEF Inv, ServerTypeOK, Fitting, svars
<1>3. Acks'
  BY <1>1 DEF Inv, Acks
<1>4. Answered'
  <2>1. \A seg \in Elems(c2s') : cmain # "other" => Sent(seg)
    <3>1. Sent(Syn) /\ Sent(Data(next_seqNum))
      <4>1. Syn.type = "SYN" /\ Syn.seq = 0
        BY DEF Syn, Seg
      <4> QED  BY <1>0, <4>1, DataIsSegment DEF Sent
    <3> QED  BY <3>1, ClientSends DEF Inv, Answered
  <2> QED  BY <1>0, <1>1, <2>1, ClientStates DEF Inv, Answered, Sent, svars
<1>5. Numbers'
  <2>1. ASSUME Numbered', NEW seg \in Elems(c2s') PROVE Carries(seg)'
    <3>1. Numbered /\ cmain # "other" /\ next_seqNum' >= next_seqNum
      BY <2>1, ClientNumbers DEF Numbered
    <3>2. CASE seg \in Elems(c2s)
      <4>1. seg \in Segment
        BY <1>0, <3>2 DEF NetworkTypeOK, Elems
      <4>2. Carries(seg)
        BY <3>1, <3>2 DEF Inv, Numbers
      <4> QED  BY <1>0, <1>1, <3>1, <4>1, <4>2 DEF Carries, Segment, ClientTypeOK
    <3>3. CASE seg = Syn
      BY <3>3, Made DEF Carries, Syn, SegTypes, Ports, Processes
    <3>4. CASE seg = Data(next_seqNum) /\ SendRound
      <4>1. node.length = wants /\ wants < MAX_SEG_LEN /\ next_seqNum' = next_seqNum + wants
        BY <3>1, <3>4 DEF Inv, Numbers, SendRound, Main, Numbered
      <4> QED  BY <1>0, <3>4, <4>1, DataIsSegment DEF Carries, ClientTypeOK
    <3> QED  BY <3>1, <3>2, <3>3, <3>4, ClientSends
  <2>2. ASSUME Numbered' PROVE Carries(segment)'
    <3>1. Carries(segment) /\ next_seqNum' >= next_seqNum /\ segment \in Segment /\ segment' = segment
      BY <1>0, <2>2, ClientNumbers DEF Inv, Numbers, ServerTypeOK, svars
    <3> QED  BY <1>0, <1>1, <3>1 DEF Carries, Segment, ClientTypeOK
  <2> QED  BY <2>1, <2>2, ClientNumbers DEF Numbers
<1>6. Stream'
  <2> SUFFICES ASSUME Numbered', bufMutex' = "free" PROVE Stream'
    BY DEF Stream
  <2>1. Numbered /\ bufMutex = "free" /\ next_seqNum' >= next_seqNum
    BY <1>0, ClientNumbers DEF svars
  <2> QED  BY <1>0, <1>1, <2>1 DEF Inv, Stream, Holds, svars, ClientTypeOK, ServerTypeOK
<1> QED  BY <1>1, <1>2, <1>3, <1>4, <1>5, <1>6 DEF Inv, TypeOK
-----------------------------------------------------------------------------
(* The steps of the server                                                  *)

ServerStep == ServerNext /\ UNCHANGED cvars

LEMMA Handled ==
    ASSUME server_seghandler
    PROVE  /\ shandler = "handle" /\ UNCHANGED <<smain, asked, bufMutex, fetched>>
           /\ \/ sstate = "LISTENING" /\ segment.type = "SYN" /\ SynReceived
              \/ sstate = "CONNECTED" /\ SynAgain
              \/ sstate = "CONNECTED" /\ segment.type = "DATA" /\ DataReceived
              \/ sstate = "CONNECTED" /\ segment.type = "FIN" /\ FinReceived
              \/ FinAgain
              \/ Ignored
BY DEF server_seghandler, appVars

LEMMA Answering ==
    ASSUME NEW type \in SegTypes, NEW dest \in Ports, NEW ack \in Nat
    PROVE  /\ Answer(type, dest, ack) \in Segment
           /\ Answer(type, dest, ack).type = type /\ Answer(type, dest, ack).seq = 0
BY Made DEF Answer, Ports, Processes

(* Of the answers only one to a SYN is a SYNACK.                             *)
LEMMA ServerSends ==
    ASSUME Inv, ServerStep
    PROVE  /\ NetworkTypeOK' /\ Elems(c2s') \subseteq Elems(c2s)
           /\ \A seg \in Elems(s2c') :
                 \/ seg \in Elems(s2c)
                 \/ seg.type = "DATAACK" /\ seg.seq = 0
                 \/ seg.type = "FINACK"
                 \/ sstate' = "CONNECTED" /\ seg.type = "SYNACK"
<1>0. NetworkTypeOK /\ ServerTypeOK
  BY DEF Inv, TypeOK
<1>t. segment.src \in Ports /\ client_portNum \in Ports /\ expect_seqNum \in Nat
  BY <1>0 DEF ServerTypeOK, Segment
<1>k. ASSUME UNCHANGED <<c2s, s2c>>, alive' = alive \/ Dies("server")
      PROVE  /\ NetworkTypeOK' /\ Elems(c2s') \subseteq Elems(c2s)
             /\ Elems(s2c') \subseteq Elems(s2c)
  BY <1>0, <1>k DEF NetworkTypeOK, Dies, Elems
<1>s. ASSUME NEW seg \in Segment, mnp_sendseg("server", <<seg>>)
      PROVE  /\ NetworkTypeOK' /\ Elems(c2s') \subseteq Elems(c2s)
             /\ Elems(s2c') \subseteq Elems(s2c) \cup {seg}
  <2>1. NetworkTypeOK' /\ c2s' = c2s /\ Elems(s2c') \subseteq Elems(s2c) \cup Elems(<<seg>>)
    BY <1>0, <1>s, SendElems, OneElem DEF Processes
  <2> QED  BY <2>1, OneElem DEF Elems
<1>1. CASE ServerMain
  BY <1>1, <1>k
  DEF ServerMain, mrt_server_sock, mrt_server_accept, AcceptReturns, mrt_server_recv, CopyOut,
      RecvReturns, mrt_server_close, server_overlay_stop, network
<1>2. CASE Fetch \/ Save \/ timer_handler
  BY <1>2, <1>k DEF Fetch, Save, timer_handler, network
<1>3. CASE Receive
  <2>1. CASE EndOfSegments("server")
    BY <1>3, <1>k, <2>1 DEF Receive, network
  <2>2. CASE ~EndOfSegments("server")
    <3>1. /\ c2s' \in Seq(Segment) /\ s2c' \in Seq(Segment) /\ alive' = alive
          /\ Elems(c2s') \subseteq Elems(c2s) /\ Elems(s2c') \subseteq Elems(s2c)
      BY <1>0, <1>3, <2>2, ReceiveElems DEF Receive, Processes
    <3> QED  BY <1>0, <3>1 DEF NetworkTypeOK
  <2> QED  BY <2>1, <2>2
<1>4. CASE server_seghandler
  <2>1. CASE SynReceived
    <3>1. Answer("SYNACK", segment.src, 0) \in Segment /\ Answer("SYNACK", segment.src, 0).type = "SYNACK"
      BY <1>t, Answering DEF SegTypes
    <3> QED  BY <1>s, <2>1, <3>1 DEF SynReceived
  <2>2. CASE sstate = "CONNECTED" /\ SynAgain
    <3>1. /\ Seg("SYNACK", "none", "none", expect_seqNum, 0) \in Segment
          /\ Seg("SYNACK", "none", "none", expect_seqNum, 0).type = "SYNACK"
      BY <1>t, Made DEF SegTypes, Ports
    <3> QED  BY <1>s, <2>2, <3>1 DEF SynAgain
  <2>3. CASE DataReceived
    <3>1. CASE InOrder
      BY <1>k, <2>3, <3>1 DEF DataReceived
    <3>2. CASE ~InOrder
      <4>1. /\ Answer("DATAACK", client_portNum, expect_seqNum) \in Segment
            /\ Answer("DATAACK", client_portNum, expect_seqNum).type = "DATAACK"
            /\ Answer("DATAACK", client_portNum, expect_seqNum).seq = 0
        BY <1>t, Answering DEF SegTypes
      <4> QED  BY <1>s, <2>3, <3>2, <4>1 DEF DataReceived
    <3> QED  BY <3>1, <3>2
  <2>4. CASE FinReceived \/ FinAgain
    <3>1. /\ Answer("FINACK", client_portNum, expect_seqNum) \in Segment
          /\ Answer("FINACK", client_portNum, expect_seqNum).type = "FINACK"
      BY <1>t, Answering DEF SegTypes
    <3> QED  BY <1>s, <2>4, <3>1 DEF FinReceived, FinAgain
  <2>5. CASE Ignored
    BY <1>k, <2>5 DEF Ignored, network
  <2> QED  BY <1>4, <2>1, <2>2, <2>3, <2>4, <2>5, Handled
<1> QED  BY <1>1, <1>2, <1>3, <1>4 DEF ServerStep, ServerNext, ServerHandler

LEMMA ServerTypes == ASSUME Inv, ServerStep PROVE ServerTypeOK'
<1> USE SegmentConstants, ServerConstants
<1>0. NetworkTypeOK /\ ServerTypeOK
  BY DEF Inv, TypeOK
<1>1. CASE mrt_server_sock
  BY <1>0, <1>1 DEF mrt_server_sock, App, ServerTypeOK, peer, threadVars
<1>2. CASE mrt_server_accept \/ AcceptReturns \/ mrt_server_close \/ server_overlay_stop
  BY <1>0, <1>2
  DEF mrt_server_accept, AcceptReturns, mrt_server_close, server_overlay_stop, App, ServerTypeOK,
      peer, threadVars
<1>3. CASE mrt_server_recv
  BY <1>0, <1>3 DEF mrt_server_recv, App, ServerTypeOK, peer, threadVars
<1>4. CASE CopyOut
  <2>1. recvBuf' \in [Offsets -> Nat \cup {Junk, Unset}]
    BY <1>0, <1>4 DEF CopyOut, ServerTypeOK
  <2> QED  BY <1>0, <1>4, <2>1 DEF CopyOut, App, ServerTypeOK, peer, threadVars
<1>5. CASE RecvReturns
  <2>1. usedBufLen' \in 0..Width - 1
    BY <1>0, <1>5 DEF RecvReturns, ServerTypeOK
  <2> QED  BY <1>0, <1>5, <2>1 DEF RecvReturns, App, ServerTypeOK, peer, threadVars
<1>6. CASE Fetch
  BY <1>0, <1>6 DEF Fetch, ServerTypeOK, peer, appVars
<1>7. CASE Receive
  <2>1. segment' \in Segment /\ shandler' \in {"fetch", "receive", "handle"}
    BY <1>0, <1>7, ReceiveElems DEF Receive, Found, ServerTypeOK, Processes
  <2> QED  BY <1>0, <1>7, <2>1 DEF Receive, ServerTypeOK, peer, appVars
<1>8. CASE Save
  <2>1. usedBufLen' \in 0..Width - 1 /\ expect_seqNum' \in Nat
    BY <1>0, <1>8 DEF Save, ServerTypeOK, Segment
  <2> QED  BY <1>0, <1>8, <2>1 DEF Save, ServerTypeOK, appVars
<1>9. CASE timer_handler
  <2>1. /\ sstate' \in {sstate, "CLOSED"} /\ usedBufLen' \in {usedBufLen, 0} /\ closing' = FALSE
        /\ UNCHANGED <<appVars, loaded, peer, recvBuf, threadVars>>
    BY <1>9 DEF timer_handler
  <2>2. usedBufLen' \in 0..Width - 1
    BY <1>0, <2>1 DEF ServerTypeOK
  <2>3. UNCHANGED <<smain, asked, bufMutex, loaded, client_portNum, expect_seqNum, recvBuf,
                    shandler, fetched, segment>>
    BY <2>1 DEF peer, appVars, threadVars
  <2> QED  BY <1>0, <2>1, <2>2, <2>3 DEF ServerTypeOK
<1>10. CASE server_seghandler
  <2>0. UNCHANGED <<smain, asked, bufMutex, fetched>>
    BY <1>10, Handled
  <2>1. CASE SynReceived
    BY <1>0, <2>0, <2>1 DEF SynReceived, ServerTypeOK, Segment
  <2>2. CASE SynAgain
    <3>1. segment' \in Segment
      BY <1>0, <2>2 DEF SynAgain, ServerTypeOK, Segment, Ports, Processes
    <3> QED  BY <1>0, <2>0, <2>2, <3>1 DEF SynAgain, ServerTypeOK, peer
  <2>3. CASE DataReceived
    <3>1. Saved \in [Offsets -> Nat \cup {Junk, Unset}]
      BY <1>0 DEF Saved, ServerTypeOK, Segment, Offsets, Junk, Unset
    <3>2. recvBuf' \in {recvBuf, Saved} /\ shandler' \in {"fetch", "save"}
          /\ loaded' \in {loaded, [loaded EXCEPT !.seghandler = usedBufLen]}
          /\ UNCHANGED <<sstate, peer, usedBufLen, segment, closing>>
      BY <2>3 DEF DataReceived
    <3> QED  BY <1>0, <2>0, <3>1, <3>2 DEF ServerTypeOK, peer
  <2>4. CASE FinReceived \/ FinAgain \/ Ignored
    BY <1>0, <2>0, <2>4 DEF FinReceived, FinAgain, Ignored, ServerTypeOK, peer
  <2> QED  BY <1>10, <2>1, <2>2, <2>3, <2>4, Handled
<1> QED
  BY <1>1, <1>2, <1>3, <1>4, <1>5, <1>6, <1>7, <1>8, <1>9, <1>10
  DEF ServerStep, ServerNext, ServerMain, ServerHandler

(* What the server does to its state, to the client's segments and to the
   buffer, for each of the other parts of the invariant.                     *)
LEMMA ServerAnswered == ASSUME Inv, ServerStep PROVE Answered'
<1>0. NetworkTypeOK /\ ServerTypeOK /\ Answered /\ UNCHANGED cvars
  BY DEF Inv, TypeOK, ServerStep
<1> SUFFICES ASSUME cmain # "other" PROVE Answered'
  BY <1>0 DEF Answered, cvars
<1>1. /\ Elems(c2s') \subseteq Elems(c2s)
      /\ sstate' = "CONNECTED" \/ \A seg \in Elems(s2c') : seg.type = "SYNACK" => seg \in Elems(s2c)
  BY ServerSends
<1>2. closing = FALSE /\ Sent(segment) /\ segment.type # "FIN"
  BY <1>0 DEF Answered, Sent
<1>3. Sent(segment')
  <2>1. CASE Receive
    <3>1. segment' = segment \/ segment' \in Elems(c2s)
      BY <1>0, <2>1, ReceiveElems DEF Receive, Processes
    <3> QED  BY <1>0, <3>1 DEF Answered
  <2>2. CASE server_seghandler
    <3>1. CASE SynAgain
      BY <1>0, <1>2, <3>1 DEF SynAgain, Sent, ServerTypeOK, Segment
    <3>2. CASE ~SynAgain
      <4>1. segment' = segment
        BY <2>2, <3>2, Handled DEF SynReceived, DataReceived, FinReceived, FinAgain, Ignored
      <4> QED  BY <1>2, <4>1
    <3> QED  BY <3>1, <3>2
  <2>3. CASE ServerMain \/ Fetch \/ Save \/ timer_handler
    <3>1. segment' = segment
      BY <2>3
      DEF ServerMain, mrt_server_sock, mrt_server_accept, AcceptReturns, mrt_server_recv, CopyOut,
          RecvReturns, mrt_server_close, server_overlay_stop, Fetch, Save, timer_handler, threadVars
    <3> QED  BY <1>2, <3>1
  <2> QED  BY <2>1, <2>2, <2>3 DEF ServerStep, ServerNext, ServerHandler
<1>4. /\ closing' = FALSE
      /\ smain' = "sock" => smain = "sock" /\ sstate' = sstate
      /\ sstate' = sstate \/ sstate \in Early \/ sstate' \notin Early
  <2>1. CASE server_seghandler
    <3>1. sstate' = sstate \/ sstate = "LISTENING"
      BY <1>2, <2>1, Handled DEF SynReceived, SynAgain, DataReceived, FinAgain, Ignored
    <3>2. closing' = FALSE /\ smain' = smain
      BY <1>2, <2>1, Handled DEF SynReceived, SynAgain, DataReceived, FinAgain, Ignored
    <3> QED  BY <1>0, <3>1, <3>2 DEF Answered, Early
  <2>2. CASE ServerMain
    BY <1>0, <1>2, <2>2
    DEF ServerMain, mrt_server_sock, mrt_server_accept, AcceptReturns, mrt_server_recv, CopyOut,
        RecvReturns, mrt_server_close, server_overlay_stop, App, Answered, Early
  <2>3. CASE Fetch \/ Receive \/ Save \/ timer_handler
    BY <1>2, <2>3 DEF Fetch, Receive, Save, timer_handler, appVars
  <2> QED  BY <2>1, <2>2, <2>3 DEF ServerStep, ServerNext, ServerHandler
<1>5. sstate' = "CONNECTED" => sstate' \notin Early
  BY DEF Early
<1>6. UNCHANGED <<cmain, cstate, chandler>>
  BY <1>0 DEF cvars
<1> QED  BY <1>0, <1>1, <1>3, <1>4, <1>5, <1>6 DEF Answered

LEMMA ServerFitting == ASSUME Inv, ServerStep PROVE Fitting'
<1> USE SegmentConstants, ServerConstants
<1>0. ServerTypeOK /\ Fitting
  BY DEF Inv, TypeOK
<1>1. CASE ServerMain
  <2>1. CASE \/ mrt_server_sock \/ mrt_server_accept \/ AcceptReturns \/ mrt_server_recv
             \/ mrt_server_close \/ server_overlay_stop
    BY <1>0, <2>1
    DEF mrt_server_sock, mrt_server_accept, AcceptReturns, mrt_server_recv,
        mrt_server_close, server_overlay_stop, App, Fitting, threadVars
  <2>2. CASE CopyOut \/ RecvReturns
    BY <1>0, <2>2 DEF CopyOut, RecvReturns, App, Fitting
  <2> QED  BY <1>1, <2>1, <2>2 DEF ServerMain
<1>2. CASE Fetch \/ Receive
  BY <1>0, <1>2 DEF Fetch, Receive, Found, Fitting, appVars
<1>3. CASE Save
  BY <1>0, <1>3 DEF Save, Fitting, appVars
<1>4. CASE timer_handler
  BY <1>0, <1>4 DEF timer_handler, Fitting, appVars, threadVars
<1>5. CASE server_seghandler
  <2>0. UNCHANGED <<smain, bufMutex>>
    BY <1>5, Handled
  <2>1. CASE SynReceived \/ SynAgain \/ FinReceived \/ FinAgain \/ Ignored
    BY <1>0, <2>0, <2>1 DEF SynReceived, SynAgain, FinReceived, FinAgain, Ignored, Fitting
  <2>2. CASE DataReceived
    <3>1. UNCHANGED <<usedBufLen, segment>>
      BY <2>2 DEF DataReceived
    <3>2. CASE shandler' = "save"
      <4>1. Fits(segment.length) /\ loaded' = [loaded EXCEPT !.seghandler = usedBufLen]
        BY <2>2, <3>2 DEF DataReceived
      <4>2. loaded'.seghandler = usedBufLen /\ usedBufLen + segment.length = segment.length + usedBufLen
        BY <1>0, <4>1 DEF ServerTypeOK, Segment
      <4> QED  BY <1>0, <2>0, <3>1, <4>1, <4>2 DEF Fitting, Fits
    <3> QED  BY <1>0, <2>0, <3>1, <3>2 DEF Fitting
  <2> QED  BY <1>5, <2>1, <2>2, Handled
<1> QED  BY <1>1, <1>2, <1>3, <1>4, <1>5 DEF ServerStep, ServerNext, ServerHandler

LEMMA ServerNumbers == ASSUME Inv, ServerStep PROVE Numbers'
<1>0. NetworkTypeOK /\ ServerTypeOK /\ Numbers /\ UNCHANGED cvars
  BY DEF Inv, TypeOK, ServerStep
<1>1. Elems(c2s') \subseteq Elems(c2s)
  BY ServerSends
<1>2. \/ segment' \in Elems(c2s)
      \/ /\ segment'.type = segment.type /\ segment'.seq = segment.seq
         /\ segment'.data = segment.data /\ segment'.length = segment.length
  <2>1. CASE Receive
    <3>1. segment' = segment \/ segment' \in Elems(c2s)
      BY <1>0, <2>1, ReceiveElems DEF Receive, Processes
    <3> QED  BY <3>1
  <2>2. CASE server_seghandler
    <3>1. CASE SynAgain
      BY <1>0, <3>1 DEF SynAgain, ServerTypeOK, Segment
    <3> QED
      BY <2>2, <3>1, Handled DEF SynReceived, DataReceived, FinReceived, FinAgain, Ignored
  <2>3. CASE ServerMain \/ Fetch \/ Save \/ timer_handler
    BY <2>3
    DEF ServerMain, mrt_server_sock, mrt_server_accept, AcceptReturns, mrt_server_recv, CopyOut,
        RecvReturns, mrt_server_close, server_overlay_stop, Fetch, Save, timer_handler, threadVars
  <2> QED  BY <2>1, <2>2, <2>3 DEF ServerStep, ServerNext, ServerHandler
<1> QED  BY <1>0, <1>1, <1>2 DEF Numbers, Numbered, Carries, cvars

(* The step that puts a segment into the buffer, and the one that counts it:
   between them the buffer is the beginning of the stream, and more.         *)
LEMMA Saving ==
    ASSUME Inv, DataReceived, sstate = "CONNECTED", segment.type = "DATA",
           Numbered, bufMutex = "free", shandler' = "save"
    PROVE  /\ segment.seq = expect_seqNum /\ loaded'.seghandler = usedBufLen
           /\ usedBufLen + segment.length < RECEIVE_BUF_SIZE
           /\ \A k \in Offsets : k < usedBufLen + segment.length => recvBuf'[k] = k
<1> USE SegmentConstants, ServerConstants, PairConstants
<1>0. ServerTypeOK /\ Stream /\ Fitting /\ Carries(segment)
  BY DEF Inv, TypeOK, Numbers
<1>1. /\ usedBufLen \in Nat /\ segment.length \in Nat /\ segment.seq \in Nat
      /\ loaded \in [main : 0..Width - 1, seghandler : 0..Width - 1]
  BY <1>0 DEF ServerTypeOK, Segment
<1>2. /\ segment.seq = expect_seqNum /\ Fits(segment.length) /\ recvBuf' = Saved
      /\ loaded' = [loaded EXCEPT !.seghandler = usedBufLen]
  BY DEF DataReceived, InOrder
<1>3. /\ segment.data = segment.seq /\ segment.length < MAX_SEG_LEN
      /\ usedBufLen = expect_seqNum /\ Holds(usedBufLen) /\ usedBufLen < RECEIVE_BUF_SIZE
  BY <1>0 DEF Carries, Stream, Fitting
<1>4. usedBufLen + segment.length < RECEIVE_BUF_SIZE
  <2>1. segment.length + usedBufLen \in 0..Width - 1
    BY <1>1, <1>3
  <2>2. (segment.length + usedBufLen) % Width = segment.length + usedBufLen
    BY <2>1
  <2> QED  BY <1>1, <1>2, <2>2 DEF Fits
<1>5. ASSUME NEW k \in Offsets, k < usedBufLen + segment.length PROVE recvBuf'[k] = k
  <2>1. CASE k < usedBufLen
    <3>1. k \notin usedBufLen..(usedBufLen + segment.length - 1)
      BY <1>1, <2>1 DEF Offsets
    <3> QED  BY <1>2, <1>3, <2>1, <3>1 DEF Saved, Holds
  <2>2. CASE k >= usedBufLen
    <3>1. k \in usedBufLen..(usedBufLen + segment.length - 1) /\ k \in Int
      BY <1>1, <1>5, <2>2 DEF Offsets
    <3>2. segment.data # Junk
      BY <1>1, <1>3 DEF Junk
    <3>3. recvBuf'[k] = segment.data + (k - usedBufLen)
      BY <1>2, <3>1, <3>2 DEF Saved
    <3> QED  BY <1>1, <1>2, <1>3, <3>1, <3>3
  <2> QED  BY <1>1, <2>1, <2>2 DEF Offsets
<1>6. loaded'.seghandler = usedBufLen
  BY <1>1, <1>2
<1> QED  BY <1>2, <1>4, <1>5, <1>6

LEMMA ServerStream == ASSUME Inv, ServerStep PROVE Stream'
<1> USE SegmentConstants, ServerConstants, PairConstants
<1>0. ServerTypeOK /\ Stream /\ Fitting /\ Answered /\ UNCHANGED cvars
  BY DEF Inv, TypeOK, ServerStep
<1>f. bufMutex' = "free" => bufMutex = "free"
  <2>1. bufMutex' = bufMutex \/ bufMutex' = "recv"
    <3>1. CASE server_seghandler
      BY <3>1, Handled
    <3> QED
      BY <3>1
      DEF ServerStep, ServerNext, ServerMain, ServerHandler, mrt_server_sock, mrt_server_accept,
          AcceptReturns, mrt_server_recv, CopyOut, RecvReturns, mrt_server_close,
          server_overlay_stop, Fetch, Receive, Save, timer_handler, appVars
  <2> QED  BY <2>1
<1> SUFFICES ASSUME Numbered, bufMutex = "free", bufMutex' = "free" PROVE Stream'
  BY <1>0, <1>f DEF Stream, Numbered, cvars
<1>1. /\ usedBufLen = expect_seqNum /\ expect_seqNum <= next_seqNum /\ next_seqNum' = next_seqNum
      /\ Holds(usedBufLen) /\ (sstate \in Early => expect_seqNum = 0)
      /\ expect_seqNum \in Nat /\ usedBufLen \in Nat
      /\ closing = FALSE /\ segment.type # "FIN" /\ (segment.type = "SYN" => segment.seq = 0)
      /\ (smain = "sock" => sstate = "NONE")
  BY <1>0 DEF Stream, Numbered, cvars, ServerTypeOK, Answered, Sent
<1>2. CASE ServerMain
  <2>1. CASE mrt_server_sock
    BY <1>0, <1>1, <2>1 DEF mrt_server_sock, App, Stream, Holds, Early, peer, threadVars
  <2>2. CASE mrt_server_accept \/ AcceptReturns \/ mrt_server_recv \/ mrt_server_close \/ server_overlay_stop
    BY <1>0, <1>1, <2>2
    DEF mrt_server_accept, AcceptReturns, mrt_server_recv, mrt_server_close, server_overlay_stop,
        App, Stream, Holds, Early, peer, threadVars
  <2>3. CASE CopyOut \/ RecvReturns
    BY <1>0, <2>3 DEF CopyOut, RecvReturns, App, Fitting
  <2> QED  BY <1>2, <2>1, <2>2, <2>3 DEF ServerMain
<1>3. CASE Fetch \/ Receive
  BY <1>0, <1>1, <1>3 DEF Fetch, Receive, Found, Stream, Holds, peer, appVars
<1>4. CASE Save
  <2>1. /\ sstate \notin Early /\ segment.seq = expect_seqNum /\ segment.type = "DATA"
        /\ usedBufLen + segment.length < RECEIVE_BUF_SIZE
        /\ loaded.seghandler = usedBufLen /\ Holds(usedBufLen + segment.length)
    BY <1>0, <1>4 DEF Save, Stream
  <2>2. segment.length \in Nat
    BY <1>0 DEF ServerTypeOK, Segment
  <2>3. (usedBufLen + segment.length) % Width = usedBufLen + segment.length
    <3>1. usedBufLen + segment.length \in 0..Width - 1
      BY <1>1, <2>1, <2>2
    <3> QED  BY <3>1
  <2>4. segment.seq + segment.length <= next_seqNum
    BY <2>1 DEF Inv, Numbers, Carries
  <2>5. /\ usedBufLen' = usedBufLen + segment.length /\ expect_seqNum' = usedBufLen + segment.length
        /\ UNCHANGED <<recvBuf, sstate>> /\ shandler' = "fetch"
    BY <1>1, <1>4, <2>1, <2>3 DEF Save
  <2> QED  BY <1>1, <2>1, <2>4, <2>5 DEF Stream, Holds
<1>5. CASE timer_handler
  BY <1>1, <1>5 DEF timer_handler
<1>6. CASE server_seghandler
  <2>1. CASE sstate = "LISTENING" /\ segment.type = "SYN" /\ SynReceived
    BY <1>1, <2>1 DEF SynReceived, Stream, Holds, Early
  <2>2. CASE SynAgain \/ FinAgain \/ Ignored
    BY <1>1, <2>2 DEF SynAgain, FinAgain, Ignored, Stream, Holds, peer
  <2>3. CASE sstate = "CONNECTED" /\ segment.type = "DATA" /\ DataReceived
    <3>1. UNCHANGED <<sstate, client_portNum, expect_seqNum, usedBufLen, segment>>
      BY <2>3 DEF DataReceived, peer
    <3>2. CASE shandler' = "save"
      <4>1. /\ segment.seq = expect_seqNum /\ loaded'.seghandler = usedBufLen
            /\ usedBufLen + segment.length < RECEIVE_BUF_SIZE
            /\ \A k \in Offsets : k < usedBufLen + segment.length => recvBuf'[k] = k
        BY <2>3, <3>2, Saving
      <4>2. segment.length \in Nat /\ \A k \in Offsets : k \in Nat
        BY <1>0 DEF ServerTypeOK, Segment, Offsets
      <4>3. \A k \in Offsets : k < usedBufLen => recvBuf'[k] = k
        BY <1>1, <4>1, <4>2
      <4> QED  BY <1>1, <2>3, <3>1, <4>1, <4>3 DEF Stream, Holds, Early
    <3>3. CASE shandler' # "save"
      <4>1. recvBuf' = recvBuf
        BY <2>3, <3>3 DEF DataReceived
      <4> QED  BY <1>1, <3>1, <3>3, <4>1 DEF Stream, Holds
    <3> QED  BY <3>2, <3>3
  <2> QED  BY <1>1, <1>6, <2>1, <2>2, <2>3, Handled
<1> QED  BY <1>2, <1>3, <1>4, <1>5, <1>6 DEF ServerStep, ServerNext, ServerHandler

LEMMA ServerKeepsInv == ASSUME Inv, ServerStep PROVE Inv'
<1>1. NetworkTypeOK' /\ ServerTypeOK' /\ Acks'
  BY ServerSends, ServerTypes DEF Inv, Acks
<1>2. ClientTypeOK' /\ NoSelfLock'
  BY DEF Inv, TypeOK, ClientTypeOK, NoSelfLock, ServerStep, cvars
<1> QED
  BY <1>1, <1>2, ServerAnswered, ServerFitting, ServerNumbers, ServerStream DEF Inv, TypeOK
-----------------------------------------------------------------------------
LEMMA InvKept == ASSUME Inv, [Next]_vars PROVE Inv'
<1>1. CASE ClientStep
  BY <1>1, ClientKeepsInv
<1>2. CASE ServerStep
  BY <1>2, ServerKeepsInv
<1>3. CASE UNCHANGED vars
  BY <1>3
  DEF vars, network, cvars, svars, Inv, TypeOK, NetworkTypeOK, ClientTypeOK, ServerTypeOK, Acks, Elems,
      NoSelfLock, Fitting, Answered, Sent, Numbers, Numbered, Carries, Stream, Holds
<1> QED  BY <1>1, <1>2, <1>3 DEF Next, ClientStep, ServerStep

(* The invariant of the pair holds, whatever a window, a buffer and a count
   of segments are.                                                          *)
THEOREM PairInvariant == Spec => []Inv
<1> QED  BY InitInv, InvKept, PTL DEF Spec

(* Every variable of the pair has its type.                                  *)
THEOREM PairTypes == Spec => []TypeOK
<1>1. Inv => TypeOK
  BY DEF Inv
<1> QED  BY <1>1, PairInvariant, PTL

(* Until the first recv the buffer of the server holds the beginning of what
   the client numbered, with no gap and nothing twice, whatever is lost:
   mrt_server.c:294-305.                                                     *)
THEOREM BufferIsPrefix == Spec => []StreamInOrder
<1> USE ServerConstants
<1>1. Inv => StreamInOrder
  <2> SUFFICES ASSUME Inv, Numbered, bufMutex = "free"
               PROVE  /\ usedBufLen = expect_seqNum /\ expect_seqNum <= next_seqNum
                      /\ \A k \in 0..usedBufLen - 1 : recvBuf[k] = k
    BY DEF StreamInOrder
  <2>1. usedBufLen < RECEIVE_BUF_SIZE /\ Stream /\ usedBufLen \in Nat
    BY DEF Inv, Fitting, TypeOK, ServerTypeOK
  <2> QED  BY <2>1 DEF Stream, Holds, Offsets
<1> QED  BY <1>1, PairInvariant, PTL

(* Saved data stays inside the receive buffer, also when the length is what
   malloc() left: mrt_server.c:295.                                          *)
THEOREM BufferHolds == Spec => []ReceivedFits
<1>1. Inv => ReceivedFits
  BY DEF Inv, Fitting, ReceivedFits
<1> QED  BY <1>1, PairInvariant, PTL

(* The client's seghandler never locks the mutex it holds, since no answer of
   this server has a sequence number: mrt_client.c:290 and mrt_server.c:307.  *)
THEOREM NeverLocksItself == Spec => []NoSelfLock
<1>1. Inv => NoSelfLock
  BY DEF Inv
<1> QED  BY <1>1, PairInvariant, PTL

(* A client that is connected was answered by a server that listened:
   mrt_client.c:280-286 and mrt_server.c:256-271.                            *)
THEOREM NoLoneConnection == Spec => []ConnectedWasAnswered
<1>1. Inv => ConnectedWasAnswered
  BY DEF Inv, Answered, Early, ConnectedWasAnswered
<1> QED  BY <1>1, PairInvariant, PTL
=============================================================================
