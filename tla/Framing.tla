------------------------------ MODULE Framing -------------------------------
(***************************************************************************)
(* One TCP connection of the lab4 stack, as lab4/common/pkt.c and seg.c     *)
(* use it.  A structure is written by three send() calls, "!&", the body,   *)
(* "!#", and nothing keeps two threads that write to the same connection    *)
(* apart; it is read byte by byte by a finite state machine, which does not *)
(* know a delimiter from two bytes of a body.                               *)
(*                                                                         *)
(* A byte on its way is known by its frame, in the order the frames are     *)
(* begun, and its place in it; which byte that is, the body sent says.      *)
(***************************************************************************)
EXTENDS Naturals, Sequences

CONSTANTS
    Writers,      \* threads that write to the connection
    Bodies,       \* what they may send as a body
    BodyLen,      \* bytes of the structure the reader reads
    Checked,      \* the reader asserts the length; recvpkt() does not
    FallsThrough, \* the case START1 has no break of its own (mnp_recvseg)
    MaxFrames,    \* bound: frames begun
    PipeCap       \* bound: bytes the socket buffers hold

\* "x" stands for every byte the state machines do not name.
Byte == {"!", "&", "#", "x"}

\* Only the frames of sendpkt(), read by recvpkt(), differ in length.
ASSUME FramingConstants ==
    /\ BodyLen \in Nat \ {0}
    /\ \A b \in Bodies : b \in Seq(Byte) /\ Len(b) \in 1..BodyLen
    /\ Checked \in BOOLEAN /\ FallsThrough \in BOOLEAN
    /\ Checked => \A b \in Bodies : Len(b) = BodyLen
    /\ MaxFrames \in Nat
    /\ PipeCap \in Nat

VARIABLES
    pipe,        \* what has been sent and not yet read
    wpc,         \* the next send() of each writer
    wframe,      \* the frame each writer is in
    open,        \* the writing process lives
    sent,        \* the bodies of the frames begun
    state,       \* of the reader; "EOF" when it has returned -1
    buf,         \* the bytes collected
    aborted,     \* the reading process has ended in the reader
    received     \* history: the bodies returned, with the frame of their end

writerVars == <<wpc, wframe, open, sent>>
readerVars == <<state, buf, aborted, received>>
vars == <<pipe, writerVars, readerVars>>

Framed(b) == <<"!", "&">> \o b \o <<"!", "#">>

Place == [frame : Nat, at : Nat]
Item == [frame : Nat, body : Seq(Byte)]

ByteAt(p) == Framed(sent[p.frame])[p.at]

FramingInit ==
    /\ pipe = << >>
    /\ wpc = [w \in Writers |-> "start"]
    /\ wframe = [w \in Writers |-> 0]
    /\ open = TRUE
    /\ sent = << >>
    /\ state = "PKTSTART1" /\ buf = << >>
    /\ aborted = FALSE
    /\ received = << >>
-----------------------------------------------------------------------------
\* n bytes of a frame from a place on.
Bytes(frame, first, n) == [i \in 1..n |-> [frame |-> frame, at |-> first + i - 1]]

\* A send() waits for room; once the reader is gone it fails.
Send(frame, first, n) ==
    /\ open /\ ~aborted
    /\ Len(pipe) + n <= PipeCap
    /\ pipe' = pipe \o Bytes(frame, first, n)
    /\ UNCHANGED <<open, readerVars>>

SendStart(w, b) ==
    /\ wpc[w] = "start"
    /\ Len(sent) < MaxFrames
    /\ Send(Len(sent) + 1, 1, 2)
    /\ sent' = Append(sent, b)
    /\ wframe' = [wframe EXCEPT ![w] = Len(sent) + 1]
    /\ wpc' = [wpc EXCEPT ![w] = "body"]

SendBody(w) ==
    /\ wpc[w] = "body"
    /\ Send(wframe[w], 3, Len(sent[wframe[w]]))
    /\ wpc' = [wpc EXCEPT ![w] = "stop"]
    /\ UNCHANGED <<sent, wframe>>

\* Mutant: the third send() is missing.
SendStop_Unsent(w) ==
    /\ wpc[w] = "stop"
    /\ open /\ ~aborted
    /\ wpc' = [wpc EXCEPT ![w] = "start"]
    /\ UNCHANGED <<pipe, open, sent, wframe, readerVars>>

SendStop(w) ==
    /\ wpc[w] = "stop"
    /\ Send(wframe[w], Len(sent[wframe[w]]) + 3, 2)
    /\ wpc' = [wpc EXCEPT ![w] = "start"]
    /\ UNCHANGED <<sent, wframe>>

\* The writing process ends, wherever its threads are, and the kernel closes
\* the connection after what was sent.
Close ==
    /\ open
    /\ open' = FALSE
    /\ UNCHANGED <<pipe, wpc, wframe, sent, readerVars>>
-----------------------------------------------------------------------------
\* recv() of one byte.
Read ==
    /\ ~aborted /\ state # "EOF"
    /\ pipe # << >>
    /\ pipe' = Tail(pipe)
    /\ UNCHANGED writerVars

\* The states before the body: PKTSTART2 goes back to PKTSTART1 on anything but
\* "&", another "!" too.
ReadStart ==
    /\ Read
    /\ LET c == ByteAt(Head(pipe))
       IN  \/ /\ state = "PKTSTART1"
              /\ state' = CASE c = "!" -> "PKTSTART2"
                            [] c = "&" /\ FallsThrough -> "PKTRECV"
                            [] OTHER -> "PKTSTART1"
           \/ /\ state = "PKTSTART2"
              /\ state' = IF c = "&" THEN "PKTRECV" ELSE "PKTSTART1"
    /\ UNCHANGED <<buf, aborted, received>>

\* Mutant: PKTSTOP1 forgets the "!" it stands for when another one comes.
Collect_ForgetsMark ==
    /\ Read
    /\ LET c == ByteAt(Head(pipe))
       IN  /\ state = "PKTRECV" \/ (state = "PKTSTOP1" /\ c # "#")
           /\ buf' = Append(buf, c)
           /\ state' = IF c = "!" /\ state = "PKTRECV" THEN "PKTSTOP1" ELSE "PKTRECV"
    /\ aborted' \in {FALSE, Len(buf) >= BodyLen + 2}
    /\ UNCHANGED received

\* A byte is stored; a store beyond the array, which has room for a body and a
\* delimiter, may end the process.
Collect ==
    /\ Read
    /\ LET c == ByteAt(Head(pipe))
       IN  /\ state = "PKTRECV" \/ (state = "PKTSTOP1" /\ c # "#")
           /\ buf' = Append(buf, c)
           /\ state' = IF c = "!" THEN "PKTSTOP1" ELSE "PKTRECV"
    /\ aborted' \in {FALSE, Len(buf) >= BodyLen + 2}
    /\ UNCHANGED received

\* What was collected, without the first byte of the delimiter, is returned; a
\* length that the assertion refuses, or the array has no room for, ends the
\* process.
Returned(body) ==
    IF Len(body) = BodyLen \/ (~Checked /\ Len(body) < BodyLen)
      THEN /\ received' = Append(received, [frame |-> Head(pipe).frame, body |-> body])
           /\ UNCHANGED aborted
      ELSE aborted' = TRUE /\ UNCHANGED received

\* Mutant: the reader does not begin again from an empty array.
Complete_KeepsBuf ==
    /\ Read
    /\ state = "PKTSTOP1" /\ ByteAt(Head(pipe)) = "#"
    /\ Returned(SubSeq(buf, 1, Len(buf) - 1))
    /\ state' = "PKTSTART1" /\ UNCHANGED buf

Complete ==
    /\ Read
    /\ state = "PKTSTOP1" /\ ByteAt(Head(pipe)) = "#"
    /\ Returned(SubSeq(buf, 1, Len(buf) - 1))
    /\ state' = "PKTSTART1" /\ buf' = << >>

\* recv() returns 0 or an error: -1, and what was collected is dropped.
ReadEof ==
    /\ ~aborted /\ ~open /\ pipe = << >> /\ state # "EOF"
    /\ state' = "EOF"
    /\ UNCHANGED <<pipe, writerVars, buf, aborted, received>>
-----------------------------------------------------------------------------
Writer == \E w \in Writers : \/ \E b \in Bodies : SendStart(w, b)
                             \/ SendBody(w)
                             \/ SendStop(w)

Reader == ReadStart \/ Collect \/ Complete \/ ReadEof

Next == Writer \/ Close \/ Reader

Spec == FramingInit /\ [][Next]_vars

\* recv() returns when there is something to read, and the reader is called
\* again by the loop it serves; a writer in a frame goes on when there is room.
FairSpec ==
    /\ Spec
    /\ WF_vars(Reader)
    /\ \A w \in Writers : WF_vars(SendBody(w) \/ SendStop(w))
-----------------------------------------------------------------------------
TypeOK ==
    /\ pipe \in Seq(Place)
    /\ wpc \in [Writers -> {"start", "body", "stop"}]
    /\ wframe \in [Writers -> Nat]
    /\ open \in BOOLEAN
    /\ sent \in Seq(Bodies)
    /\ state \in {"PKTSTART1", "PKTSTART2", "PKTRECV", "PKTSTOP1", "EOF"}
    /\ buf \in Seq(Byte)
    /\ aborted \in BOOLEAN
    /\ received \in Seq(Item)

\* The first n bytes of a body hold the end delimiter.
Cut(b, n) == \E i \in 1..(n - 1) : b[i] = "!" /\ b[i + 1] = "#"

\* A body without "!#"; it may end with "!" and hold "!&".
Clean(b) == ~Cut(b, Len(b))

\* The damage that a body with "!#" does stays within its frame.  A frame with a
\* clean body is returned once and with its body; one with "!#" may be returned
\* short, and what follows a "!&" after it may be returned as a further frame,
\* which was never sent: but each of these is shorter than the body, none is
\* returned under another frame, and no clean frame before one that was returned
\* is skipped or comes after it.  (The FSMs of pkt.c and seg.c with one writer,
\* which must find the next "!&" after a frame that ended early.)
FramesIntact ==
    /\ \A i \in 1..Len(received) :
          LET item == received[i]
          IN  /\ item.frame \in 1..Len(sent)
              /\ IF Clean(sent[item.frame])
                   THEN item.body = sent[item.frame]
                   ELSE Len(item.body) < Len(sent[item.frame])
    /\ \A i, j \in 1..Len(received) :
          i < j => \/ received[i].frame < received[j].frame
                   \/ received[i].frame = received[j].frame /\ ~Clean(sent[received[i].frame])
    /\ \A i \in 1..Len(received), f \in 1..Len(sent) :
          f < received[i].frame /\ Clean(sent[f])
             => \E j \in 1..Len(received) : received[j].frame = f

\* The assertion of the readers, and the room they have: a frame has the length
\* of the structure, and with recvpkt() none is collected that is longer.
WholeFrames == ~aborted

\* A frame whose body is clean and whose three sends were made, or whose writer
\* only waits for room, is returned, whatever the bodies before it held, unless
\* the writing process ends before.  (One writer.)
FramesArrive ==
    \A k \in 1..MaxFrames :
        (Len(sent) >= k /\ Clean(sent[k]))
            ~> (~open \/ aborted \/ \E i \in 1..Len(received) : received[i].frame = k)

=============================================================================
