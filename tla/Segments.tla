------------------------------ MODULE Segments ------------------------------
(***************************************************************************)
(* The segments the MRT client and server exchange (lab4/common/seg.h) and  *)
(* the two directions of the network between them.  A segment keeps the     *)
(* header fields the two FSMs read: its type, seq_num, ack_num and data.    *)
(* Bytes are numbers.  Ports and node ids are those of the one connection   *)
(* modelled, so the tests that compare them succeed; the one test of the    *)
(* client that compares a port with a node id is kept (see MRTClient).      *)
(***************************************************************************)
EXTENDS Integers, Sequences

CONSTANT ReplyCap  \* bound: replies in flight; one too many counts as lost

ASSUME SegmentConstants == ReplyCap \in Nat

VARIABLES
    c2s,      \* segments in flight from the client to the server, oldest first
    s2c,      \* segments in flight from the server to the client
    crashed   \* the processes ("client", "server") that have died of a bad access

network == <<c2s, s2c, crashed>>

SegTypes == {"SYN", "SYNACK", "FIN", "FINACK", "DATA", "DATAACK"}

\* seg_t: header.type, header.seq_num, header.ack_num, data[0..header.length-1].
Segment == [type : SegTypes, seq : Nat, ack : Nat, data : Seq(Nat)]

\* A segment that is only a header: memset to 0, then the type.
Control(type) == [type |-> type, seq |-> 0, ack |-> 0, data |-> << >>]

\* A DATAACK carries expect_seqNum.
DataAck(n) == [type |-> "DATAACK", seq |-> 0, ack |-> n, data |-> << >>]

\* A segment of the send buffer as it is sent.
DataSeg(s) == [type |-> "DATA", seq |-> s.seq, ack |-> 0, data |-> s.data]

-----------------------------------------------------------------------------
\* mnp_sendseg(): the segment joins the others in its direction.  The path of
\* a pair of nodes never changes, and each hop is a TCP connection, so a
\* direction is FIFO.
ToServer(segs) == c2s' = c2s \o segs
ToClient(segs) == s2c' = IF Len(s2c) < ReplyCap THEN s2c \o segs ELSE s2c

\* mnp_recvseg() returns the oldest segment...
FromClient == /\ c2s # << >>
              /\ c2s' = Tail(c2s)
FromServer == /\ s2c # << >>
              /\ s2c' = Tail(s2c)

\* ... unless seglost() says that it is lost, and it reads the next one.
LoseToServer == /\ "server" \notin crashed
                /\ FromClient
                /\ UNCHANGED <<s2c, crashed>>

LoseToClient == /\ "client" \notin crashed
                /\ FromServer
                /\ UNCHANGED <<c2s, crashed>>

Crash(process) == crashed' = crashed \union {process}
=============================================================================
