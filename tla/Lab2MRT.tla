------------------------------ MODULE Lab2MRT -------------------------------
(***************************************************************************)
(* A client and a server of lab2.  The client is the one of mrt_client.c,   *)
(* or another program that speaks the protocol of mrt_server.h: this client *)
(* never sends a FIN, which the server handles.                             *)
(***************************************************************************)
EXTENDS Lab2Client, Lab2Server

CONSTANTS MaxSegments   \* bound: segments another client sends

\* A length that is in order never wraps when it is added to what is stored.
ASSUME PairConstants == MaxSegments \in Nat /\ MAX_SEG_LEN + RECEIVE_BUF_SIZE <= Width

vars == <<network, cvars, svars>>

\* Another client has its thread "other", and counts its segments in tries.
OtherClient ==
    /\ cmain = "other" /\ tries = 0 /\ wants = 0 /\ rounds = 0
    /\ cstate = "NONE" /\ next_seqNum = 0
    /\ node = [seq |-> 0, length |-> 0]
    /\ sendBufHead = FALSE /\ sendBufunSent = FALSE /\ unAck_segNum = 0
    /\ timing = FALSE /\ chandler = "ended"

OtherSegments ==
    {Seg(type, "client", "server", 0, 0) : type \in {"SYN", "FIN"}} \cup
    {[Seg("DATA", "client", "server", seq, 0) EXCEPT !.length = 1, !.data = seq] : seq \in {0, 1}}

OtherSends ==
    /\ tries < MaxSegments
    /\ Main("other", "other")
    /\ tries' = tries + 1
    /\ \E seg \in OtherSegments : mnp_sendseg("client", <<seg>>)
    /\ UNCHANGED <<cstate, sendVars, chandler>>

OtherEnds ==
    /\ Main("other", "other") /\ Dies("client")
    /\ UNCHANGED <<c2s, s2c, tries, cstate, sendVars, chandler>>

Init == NetworkInit /\ mrt_server_init /\ (mrt_client_init \/ OtherClient)

Next ==
    \/ (ClientNext \/ OtherSends \/ OtherEnds) /\ UNCHANGED svars
    \/ ServerNext /\ UNCHANGED cvars

\* The threads of the server run as long as they can.
Spec ==
    /\ Init /\ [][Next]_vars
    /\ WF_vars(ServerMain /\ UNCHANGED cvars)
    /\ WF_vars(ServerHandler /\ UNCHANGED cvars)
    /\ WF_vars(timer_handler /\ UNCHANGED cvars)
-----------------------------------------------------------------------------
\* Type invariant.
TypeOK == NetworkTypeOK /\ ClientTypeOK /\ ServerTypeOK

\* Short segments: what the client sends is a part of the stream.
Numbered == cmain # "other" /\ wants < MAX_SEG_LEN

\* Lost, repeated and overtaken segments leave no gap and nothing twice in the
\* receive buffer: until the first recv it holds the beginning of what the
\* client numbered, up to the next sequence number that is expected
\* (mrt_server.c:294-305), and the client has numbered all of it.
StreamInOrder ==
    Numbered /\ bufMutex = "free" =>
        /\ usedBufLen = expect_seqNum /\ expect_seqNum <= next_seqNum
        /\ \A k \in 0..usedBufLen - 1 : recvBuf[k] = k

\* What is saved never reaches the end of the receive buffer, whatever length
\* an uninitialised segment names (mrt_server.c:295), before a recv takes more
\* than there is and the unsigned count wraps.
ReceivedFits == bufMutex = "free" => usedBufLen < RECEIVE_BUF_SIZE

\* The client's seghandler never asks for the mutex it holds
\* (mrt_client.c:290, 307 and 436): no acknowledgement of this server takes
\* anything from the send buffer.
NoSelfLock == chandler # "locked"

\* A client that takes itself for connected has been answered: the server has
\* seen a SYN while it listened (mrt_client.c:280-286, mrt_server.c:256-271).
\* What mrt_client_connect() returns does not tell it.
ConnectedWasAnswered ==
    cstate = "CONNECTED" \/ chandler = "accepting" =>
        sstate \notin {"NONE", "CLOSED", "LISTENING"}

\* A connection the client's FIN has ended is closed after CLOSEWAIT_TIME,
\* unless a recv, which returns with the mutex, keeps timer_handler() out
\* (mrt_server.c:131-146 and 384-397).
CloseWaitEnds ==
    sstate = "CLOSEWAIT" ~>
        \/ sstate \in {"CLOSED", "FREED"} \/ bufMutex = "recv" \/ "server" \notin alive

\* mrt_server_accept() does not miss a connection of this client
\* (mrt_server.c:96-102): with one that sends a FIN at once, the loop may find
\* the state changed again and never end.
AcceptSeesConnection ==
    sstate = "CONNECTED" /\ cmain # "other" ~> smain # "accepting" \/ "server" \notin alive
=============================================================================
