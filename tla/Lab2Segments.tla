---------------------------- MODULE Lab2Segments ----------------------------
(***************************************************************************)
(* The segments of lab2/common/seg.h and the TCP connection between the one *)
(* client and the one server of lab2, which is their overlay network.       *)
(* A segment keeps its ports, since the server answers with ports it did    *)
(* not set; a length is a number of units of data.                          *)
(***************************************************************************)
EXTENDS Integers, Sequences

CONSTANTS
    MAX_SEG_LEN,      \* units
    MaxJunk           \* bound: what an uninitialised length may be

ASSUME SegmentConstants == MAX_SEG_LEN \in Nat \ {0} /\ MaxJunk \in Nat

VARIABLES
    c2s, s2c,   \* segments on the way, oldest first
    alive       \* the processes that have not ended

network == <<c2s, s2c, alive>>

Processes == {"client", "server"}
SegTypes == {"SYN", "SYNACK", "FIN", "FINACK", "DATA", "DATAACK"}
\* "none" is port 0, which nobody has.
Ports == {"none"} \cup Processes

\* "data" is what its first unit holds: a place of the stream, or Junk.
Junk == -1
Segment == [type : SegTypes, src : Ports, dest : Ports, seq : Nat, ack : Nat,
            length : Nat, data : Nat \cup {Junk}]

Seg(type, src, dest, seq, ack) ==
    [type |-> type, src |-> src, dest |-> dest, seq |-> seq, ack |-> ack,
     length |-> 0, data |-> Junk]

\* Mutant: the acknowledgement is where the client of lab2 looks for it.
Answer_InSeqNum(type, dest, ack) == Seg(type, "server", dest, ack, ack)

\* Only the fields named are set, after memset().
Answer(type, dest, ack) == Seg(type, "server", dest, 0, ack)

NetworkInit == c2s = << >> /\ s2c = << >> /\ alive = Processes

Dies(process) == alive' = alive \ {process}

\* What is sent to a process that has ended is lost, or SIGPIPE ends the sender.
mnp_sendseg(from, segs) ==
    /\ c2s' = IF from = "client" /\ "server" \in alive THEN c2s \o segs ELSE c2s
    /\ s2c' = IF from = "server" /\ "client" \in alive THEN s2c \o segs ELSE s2c
    /\ IF segs = << >> \/ alive = Processes THEN alive' = alive
       ELSE alive' = alive \/ Dies(from)

\* The next segment arrives; seglost() may drop it.
mnp_recvseg(to) ==
    IF to = "client" THEN s2c # << >> /\ s2c' = Tail(s2c) /\ UNCHANGED c2s
                     ELSE c2s # << >> /\ c2s' = Tail(c2s) /\ UNCHANGED s2c

\* recv() fails: the other end is closed and all it sent has been read.
EndOfSegments(to) ==
    IF to = "client" THEN s2c = << >> /\ "server" \notin alive
                     ELSE c2s = << >> /\ "client" \notin alive

NetworkTypeOK == c2s \in Seq(Segment) /\ s2c \in Seq(Segment) /\ alive \subseteq Processes
=============================================================================
