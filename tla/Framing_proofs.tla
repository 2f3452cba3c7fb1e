--------------------------- MODULE Framing_proofs ---------------------------
(***************************************************************************)
(* With one thread that writes, the damage a body with "!#" does in a       *)
(* reader of Framing ends with its frame, for every set of bodies and       *)
(* wherever the process ends.                                               *)
(* The invariant is about the bytes that the reader has not read: those in  *)
(* the pipe and the one that the writer sends next follow one another as in *)
(* a frame, and the place of the first in its frame says which state the    *)
(* reader is in and what it has collected; after a "!#" in the body only    *)
(* that it has collected less than it has read.                             *)
(***************************************************************************)
EXTENDS Framing, SequenceTheorems, TLAPS

\* The first byte of the writer's next send().
Coming(w) ==
    IF wpc[w] = "start"
      THEN [frame |-> Len(sent) + 1, at |-> 1]
      ELSE [frame |-> Len(sent),
            at |-> IF wpc[w] = "body" THEN 3 ELSE Len(sent[Len(sent)]) + 3]

\* q is the place after p.
Follows(p, q, bodies) ==
    \/ q.frame = p.frame /\ q.at = p.at + 1 /\ p.at < Len(bodies[p.frame]) + 4
    \/ q.frame = p.frame + 1 /\ q.at = 1 /\ p.at = Len(bodies[p.frame]) + 4

\* The place at i of what is unread.
Ahead(w, i) == IF i \in 1..Len(pipe) THEN pipe[i] ELSE Coming(w)

\* p is a place of a frame that was begun.
InFrame(p, bodies) ==
    /\ p.frame \in 1..Len(bodies)
    /\ p.at \in 1..(Len(bodies[p.frame]) + 4)

Chain(w) ==
    /\ wframe[w] = Len(sent)
    /\ wpc[w] # "start" => Len(sent) > 0
    /\ \A i \in 1..Len(pipe) : /\ Follows(pipe[i], Ahead(w, i + 1), sent)
                               /\ InFrame(pipe[i], sent)

\* The reader in state s with the bytes c, k bytes of the body b being read.
InBody(b, k, s, c) ==
    IF Cut(b, k)
      THEN Len(c) < k
      ELSE /\ s = IF k > 0 /\ b[k] = "!" THEN "PKTSTOP1" ELSE "PKTRECV"
           /\ Len(c) = k
           /\ \A i \in 1..k : c[i] = b[i]

\* The same with the "!" of the end delimiter read too.
InStop(b, s, c) ==
    IF Clean(b)
      THEN /\ s = "PKTSTOP1"
           /\ Len(c) = Len(b) + 1
           /\ \A i \in 1..Len(b) : c[i] = b[i]
      ELSE s # "PKTRECV" /\ Len(c) <= Len(b)

\* The reader before the byte at p.
Standing(p, bodies, s, c) ==
    /\ p.at = 1 => s = "PKTSTART1"
    /\ p.at = 2 => s = "PKTSTART2"
    /\ p.at \in 3..(Len(bodies[p.frame]) + 3) => InBody(bodies[p.frame], p.at - 3, s, c)
    /\ p.at # 1 /\ p.at = Len(bodies[p.frame]) + 4 => InStop(bodies[p.frame], s, c)

\* What has been returned before the byte at p.
Before(p, bodies, items) ==
    /\ \A i \in 1..Len(items) :
          /\ items[i].frame <= p.frame
          /\ items[i].frame = p.frame => ~Clean(bodies[p.frame])
    /\ \A f \in 1..Len(bodies) :
          f < p.frame /\ Clean(bodies[f]) => \E j \in 1..Len(items) : items[j].frame = f

Position(w) ==
    ~aborted /\ state # "EOF" => /\ Standing(Ahead(w, 1), sent, state, buf)
                                 /\ Before(Ahead(w, 1), sent, received)

Collected ==
    /\ state \in {"PKTSTART1", "PKTSTART2"} => buf = << >>
    /\ state = "PKTSTOP1" => Len(buf) > 0

NoAbort == (Checked => \A b \in Bodies : Clean(b)) => ~aborted

Inv(w) == TypeOK /\ Chain(w) /\ Position(w) /\ Collected /\ FramesIntact /\ NoAbort
-----------------------------------------------------------------------------
LEMMA BodyFacts ==
    ASSUME NEW b \in Bodies
    PROVE  b \in Seq(Byte) /\ Len(b) \in Nat /\ Len(b) >= 1 /\ Len(b) <= BodyLen
           /\ BodyLen \in Nat
BY FramingConstants

LEMMA SentFacts ==
    ASSUME NEW s \in Seq(Bodies), NEW f \in 1..Len(s)
    PROVE  /\ s[f] \in Bodies /\ s[f] \in Seq(Byte)
           /\ Len(s[f]) \in Nat /\ Len(s[f]) >= 1 /\ Len(s[f]) <= BodyLen /\ BodyLen \in Nat
BY BodyFacts

\* Which byte is where in a frame.
LEMMA FramedBytes ==
    ASSUME NEW b \in Seq(Byte)
    PROVE  /\ Framed(b)[1] = "!" /\ Framed(b)[2] = "&"
           /\ \A i \in 1..Len(b) : Framed(b)[i + 2] = b[i]
           /\ Framed(b)[Len(b) + 3] = "!" /\ Framed(b)[Len(b) + 4] = "#"
<1>1. Framed(b) = [i \in 1..(Len(b) + 4) |->
                      IF i = 1 THEN "!" ELSE IF i = 2 THEN "&"
                      ELSE IF i <= Len(b) + 2 THEN b[i - 2]
                      ELSE IF i = Len(b) + 3 THEN "!" ELSE "#"]
  BY DEF Framed, Byte
<1>2. Len(b) \in Nat
  OBVIOUS
<1> QED
  BY <1>1, <1>2

LEMMA WithoutLast ==
    ASSUME NEW s \in Seq(Byte), Len(s) > 0
    PROVE  /\ SubSeq(s, 1, Len(s) - 1) \in Seq(Byte) /\ Len(s) - 1 \in Nat
           /\ Len(SubSeq(s, 1, Len(s) - 1)) = Len(s) - 1
           /\ \A i \in 1..(Len(s) - 1) : SubSeq(s, 1, Len(s) - 1)[i] = s[i]
<1> DEFINE m == Len(s) - 1
           t == SubSeq(s, 1, m)
<1>1. 1 \in Int /\ m \in Int /\ m \in Nat /\ \A i \in 1..m : s[i] \in Byte
  OBVIOUS
<1> HIDE DEF m
<1>2. /\ t \in Seq(Byte)
      /\ Len(t) = IF 1 <= m THEN m - 1 + 1 ELSE 0
      /\ \A i \in 1..(m - 1 + 1) : t[i] = s[1 + i - 1]
  BY <1>1, SubSeqProperties
<1> HIDE DEF t
<1>3. Len(t) = m /\ \A i \in 1..m : t[i] = s[i]
  BY <1>1, <1>2
<1> QED
  BY <1>1, <1>2, <1>3 DEF m, t

LEMMA CutGrows ==
    ASSUME NEW b, NEW k \in Nat
    PROVE  /\ ~Cut(b, 0)
           /\ Cut(b, k + 1) <=> (Cut(b, k) \/ (k > 0 /\ b[k] = "!" /\ b[k + 1] = "#"))
<1>1. \A i : i \in 1..((k + 1) - 1) <=> (i \in 1..(k - 1) \/ (k > 0 /\ i = k))
  OBVIOUS
<1>2. \A i : i \notin 1..(0 - 1)
  OBVIOUS
<1> QED
  BY <1>1, <1>2 DEF Cut

LEMMA CutStays ==
    ASSUME NEW b, NEW k \in Nat, NEW m \in Nat, k <= m, Cut(b, k)
    PROVE  Cut(b, m)
<1>1. \A i \in 1..(k - 1) : i \in 1..(m - 1)
  OBVIOUS
<1> QED
  BY <1>1 DEF Cut

\* Bytes join a pipe, and the first leaves it.
LEMMA PipeFacts ==
    ASSUME NEW s \in Seq(Place)
    PROVE  s # << >> =>
              /\ Len(s) >= 1 /\ Head(s) = s[1] /\ Head(s) \in Place
              /\ Tail(s) \in Seq(Place) /\ Len(Tail(s)) = Len(s) - 1
              /\ \A i \in 1..(Len(s) - 1) : i + 1 \in 1..Len(s) /\ Tail(s)[i] = s[i + 1]
OBVIOUS

LEMMA BytesFacts ==
    ASSUME NEW f \in Nat, NEW first \in Nat \ {0}, NEW n \in Nat
    PROVE  /\ Bytes(f, first, n) \in Seq(Place) /\ Len(Bytes(f, first, n)) = n
           /\ \A i \in 1..n : Bytes(f, first, n)[i] = [frame |-> f, at |-> first + i - 1]
BY DEF Bytes, Place

LEMMA PipeGrows ==
    ASSUME NEW f \in Nat, NEW first \in Nat \ {0}, NEW n \in Nat,
           pipe \in Seq(Place), pipe' = pipe \o Bytes(f, first, n)
    PROVE  /\ pipe' \in Seq(Place) /\ Len(pipe') = Len(pipe) + n
           /\ \A i \in 1..Len(pipe) : pipe'[i] = pipe[i]
           /\ \A i \in 1..n : pipe'[Len(pipe) + i] = [frame |-> f, at |-> first + i - 1]
<1> DEFINE t == Bytes(f, first, n)
<1>1. /\ t \in Seq(Place) /\ Len(t) = n
      /\ \A i \in 1..n : t[i] = [frame |-> f, at |-> first + i - 1]
  BY BytesFacts
<1>2. pipe' = pipe \o t /\ Len(pipe) \in Nat
  OBVIOUS
<1> HIDE DEF t
<1>3. /\ pipe \o t \in Seq(Place) /\ Len(pipe \o t) = Len(pipe) + Len(t)
      /\ \A i \in 1..(Len(pipe) + Len(t)) :
            (pipe \o t)[i] = IF i <= Len(pipe) THEN pipe[i] ELSE t[i - Len(pipe)]
  BY <1>1, ConcatProperties
<1>4. /\ pipe' \in Seq(Place) /\ Len(pipe') = Len(pipe) + n
      /\ \A i \in 1..(Len(pipe) + n) :
            pipe'[i] = IF i <= Len(pipe) THEN pipe[i] ELSE t[i - Len(pipe)]
  BY <1>1, <1>2, <1>3, Zenon
<1>5. \A i \in 1..n : /\ (Len(pipe) + i) - Len(pipe) = i /\ ~(Len(pipe) + i <= Len(pipe))
                      /\ Len(pipe) + i \in 1..(Len(pipe) + n)
  BY <1>2
<1>6. \A i \in 1..Len(pipe) : i <= Len(pipe) /\ i \in 1..(Len(pipe) + n)
  BY <1>2
<1>7. ASSUME NEW i \in 1..Len(pipe) PROVE pipe'[i] = pipe[i]
  <2>1. i <= Len(pipe) /\ i \in 1..(Len(pipe) + n)
    BY <1>6
  <2> QED
    BY <1>4, <2>1, Zenon
<1>8. ASSUME NEW i \in 1..n
      PROVE  pipe'[Len(pipe) + i] = [frame |-> f, at |-> first + i - 1]
  <2>1. /\ (Len(pipe) + i) - Len(pipe) = i /\ ~(Len(pipe) + i <= Len(pipe))
        /\ Len(pipe) + i \in 1..(Len(pipe) + n)
    BY <1>5
  <2>2. pipe'[Len(pipe) + i] = t[(Len(pipe) + i) - Len(pipe)]
    BY <1>4, <2>1, Zenon
  <2> QED
    BY <1>1, <2>1, <2>2, Zenon
<1> QED
  BY <1>4, <1>7, <1>8, Zenon

-----------------------------------------------------------------------------
\* The only writer sends the bytes that are coming: those after them come.
LEMMA SendKeeps ==
    ASSUME NEW w, Writers = {w}, Inv(w),
           NEW f \in Nat, NEW first \in Nat \ {0}, NEW n \in Nat \ {0}, Send(f, first, n),
           Coming(w) = [frame |-> f, at |-> first],
           wpc' \in [Writers -> {"start", "body", "stop"}],
           wframe' \in [Writers -> Nat], wframe'[w] = Len(sent'),
           sent' \in Seq(Bodies), Len(sent') >= Len(sent),
           \A g \in 1..Len(sent) : sent'[g] = sent[g],
           f \in 1..Len(sent'), first + n - 1 <= Len(sent'[f]) + 4,
           Follows([frame |-> f, at |-> first + n - 1], Coming(w)', sent')
    PROVE  Inv(w)'
<1>0. SUFFICES ASSUME NEW L \in Nat, L = Len(pipe)
               PROVE  Inv(w)'
  BY DEF Inv, TypeOK
<1>1. /\ pipe \in Seq(Place) /\ pipe' = pipe \o Bytes(f, first, n) /\ L = Len(pipe)
      /\ UNCHANGED <<open, state, buf, aborted, received>> /\ Len(sent) \in Nat
      /\ sent \in Seq(Bodies) /\ Len(sent') \in Nat
  BY <1>0 DEF Inv, TypeOK, Send, readerVars
<1>2. /\ pipe' \in Seq(Place) /\ Len(pipe') = L + n
      /\ \A i \in 1..L : pipe'[i] = pipe[i]
      /\ \A i \in 1..n : pipe'[L + i] = [frame |-> f, at |-> first + i - 1]
  <2>1. n \in Nat
    OBVIOUS
  <2>2. pipe \in Seq(Place) /\ pipe' = pipe \o Bytes(f, first, n) /\ L = Len(pipe)
    BY <1>1
  <2>3. pipe' \in Seq(Place) /\ Len(pipe') = Len(pipe) + n
    BY <2>1, <2>2, PipeGrows, Zenon
  <2>4. \A i \in 1..Len(pipe) : pipe'[i] = pipe[i]
    BY <2>1, <2>2, PipeGrows, Zenon
  <2>5. \A i \in 1..n : pipe'[Len(pipe) + i] = [frame |-> f, at |-> first + i - 1]
    BY <2>1, <2>2, PipeGrows, Zenon
  <2> QED
    BY <2>2, <2>3, <2>4, <2>5
<1>3. TypeOK'
  BY <1>1, <1>2 DEF Inv, TypeOK
<1>4. \A i \in 1..(L + 1) : Ahead(w, i)' = Ahead(w, i)
  <2>1. ASSUME NEW i \in 1..L PROVE Ahead(w, i)' = Ahead(w, i)
    BY <1>1, <1>2, <2>1 DEF Ahead
  <2>2. Ahead(w, L + 1)' = Ahead(w, L + 1)
    <3>1. L + 1 \in 1..Len(pipe') /\ L + 1 \notin 1..L
      BY <1>1, <1>2
    <3>2. pipe'[L + 1] = [frame |-> f, at |-> first]
      BY <1>1, <1>2
    <3> QED
      BY <1>1, <3>1, <3>2 DEF Ahead
  <2>3. \A i \in 1..(L + 1) : i \in 1..L \/ i = L + 1
    BY <1>1
  <2> QED
    BY <2>1, <2>2, <2>3
<1>5. Chain(w)'
  <2>1. ASSUME NEW i \in 1..L
        PROVE  Follows(pipe'[i], Ahead(w, i + 1)', sent') /\ InFrame(pipe'[i], sent')
    <3>1. /\ i + 1 \in 1..(L + 1) /\ pipe'[i] = pipe[i]
          /\ Follows(pipe[i], Ahead(w, i + 1), sent) /\ InFrame(pipe[i], sent)
      BY <1>1, <1>2 DEF Inv, Chain
    <3>2. pipe[i].frame \in 1..Len(sent') /\ sent'[pipe[i].frame] = sent[pipe[i].frame]
      <4>1. pipe[i].frame \in 1..Len(sent)
        BY <3>1 DEF InFrame
      <4>2. \A g \in 1..Len(sent) : g \in 1..Len(sent')
        BY <1>1
      <4> QED
        BY <4>1, <4>2
    <3> QED
      BY <1>4, <3>1, <3>2 DEF Follows, InFrame
  <2>2. ASSUME NEW i \in 1..n
        PROVE  /\ Follows(pipe'[L + i], Ahead(w, L + i + 1)', sent')
               /\ InFrame(pipe'[L + i], sent')
    <3>1. pipe'[L + i] = [frame |-> f, at |-> first + i - 1]
      BY <1>2
    <3>2. Len(sent'[f]) \in Nat
      BY SentFacts
    <3>3. InFrame(pipe'[L + i], sent')
      BY <3>1, <3>2 DEF InFrame
    <3>4. CASE i = n
      <4>1. Ahead(w, L + i + 1)' = Coming(w)'
        BY <1>1, <1>2, <3>4 DEF Ahead
      <4> QED
        BY <3>1, <3>3, <3>4, <4>1
    <3>5. CASE i # n
      <4>1. i + 1 \in 1..n
        BY <3>5
      <4>2. pipe'[L + (i + 1)] = [frame |-> f, at |-> first + (i + 1) - 1]
        BY <1>2, <4>1
      <4>3. L + i + 1 \in 1..Len(pipe') /\ L + (i + 1) = L + i + 1
        BY <1>1, <1>2, <4>1
      <4>4. Ahead(w, L + i + 1)' = [frame |-> f, at |-> first + i]
        BY <4>2, <4>3 DEF Ahead
      <4> QED
        BY <3>1, <3>2, <3>3, <3>5, <4>4 DEF Follows
    <3> QED
      BY <3>4, <3>5
  <2>3. \A i \in 1..Len(pipe') : i \in 1..L \/ \E j \in 1..n : i = L + j
    <3>1. ASSUME NEW i \in 1..Len(pipe'), i \notin 1..L PROVE i - L \in 1..n /\ i = L + (i - L)
      BY <1>1, <1>2, <3>1
    <3> QED
      BY <3>1
  <2>4. Len(sent') > 0
    BY <1>1
  <2> QED
    BY <2>1, <2>2, <2>3, <2>4 DEF Chain
<1>6. Position(w)'
  <2>1. Ahead(w, 1)' = Ahead(w, 1)
    BY <1>1, <1>4
  <2> DEFINE p == Ahead(w, 1)
  <2>2. p.frame \in 1..Len(sent) \/ (p.at = 1 /\ p.frame = Len(sent) + 1)
    <3>1. CASE L > 0
      BY <1>1, <3>1 DEF Inv, Chain, InFrame, Ahead
    <3>2. CASE L = 0
      BY <1>1, <3>2 DEF Inv, Chain, Ahead, Coming
    <3> QED
      BY <1>1, <3>1, <3>2
  <2>3. SUFFICES ASSUME ~aborted, state # "EOF"
                 PROVE  Standing(p, sent', state, buf) /\ Before(p, sent', received)
    BY <1>1, <2>1 DEF Position
  <2>4. Standing(p, sent, state, buf) /\ Before(p, sent, received)
    BY <2>3 DEF Inv, Position
  <2> HIDE DEF p
  <2>5. Standing(p, sent', state, buf)
    <3>1. CASE p.frame \in 1..Len(sent)
      BY <2>4, <3>1 DEF Standing
    <3>2. CASE p.at = 1
      BY <2>4, <3>2 DEF Standing
    <3> QED
      BY <2>2, <3>1, <3>2
  <2>6. Before(p, sent', received)
    <3>1. \A i \in 1..Len(received) : received[i].frame \in 1..Len(sent)
      BY DEF Inv, FramesIntact
    <3>2. p.frame \in Nat /\ p.frame <= Len(sent) + 1
      BY <1>1, <2>2
    <3>3. ASSUME NEW i \in 1..Len(received)
          PROVE  /\ received[i].frame <= p.frame
                 /\ received[i].frame = p.frame => ~Clean(sent'[p.frame])
      BY <2>4, <3>1 DEF Before
    <3>4. ASSUME NEW g \in 1..Len(sent'), g < p.frame, Clean(sent'[g])
          PROVE  \E j \in 1..Len(received) : received[j].frame = g
      <4>1. g \in 1..Len(sent)
        BY <1>1, <3>2, <3>4
      <4> QED
        BY <2>4, <3>4, <4>1 DEF Before
    <3> QED
      BY <3>3, <3>4 DEF Before
  <2> QED
    BY <2>5, <2>6
<1>7. FramesIntact'
  <2>1. \A i \in 1..Len(received) : /\ received[i].frame \in 1..Len(sent)
                                    /\ received[i].frame \in 1..Len(sent')
                                    /\ sent'[received[i].frame] = sent[received[i].frame]
    BY <1>1 DEF Inv, FramesIntact
  <2>2. ASSUME NEW i \in 1..Len(received), NEW g \in 1..Len(sent'),
               g < received[i].frame, Clean(sent'[g])
        PROVE  \E j \in 1..Len(received) : received[j].frame = g
    <3>1. g \in 1..Len(sent)
      BY <1>1, <2>1, <2>2
    <3> QED
      BY <2>2, <3>1 DEF Inv, FramesIntact
  <2> QED
    <3>1. /\ UNCHANGED received
          /\ \A i \in 1..Len(received) :
                IF Clean(sent[received[i].frame])
                  THEN received[i].body = sent[received[i].frame]
                  ELSE Len(received[i].body) < Len(sent[received[i].frame])
          /\ \A i, j \in 1..Len(received) :
                i < j => \/ received[i].frame < received[j].frame
                         \/ /\ received[i].frame = received[j].frame
                            /\ ~Clean(sent[received[i].frame])
      BY <1>1 DEF Inv, FramesIntact
    <3>2. \A i \in 1..Len(received) :
             IF Clean(sent'[received[i].frame])
               THEN received[i].body = sent'[received[i].frame]
               ELSE Len(received[i].body) < Len(sent'[received[i].frame])
      BY <2>1, <3>1
    <3>3. \A i, j \in 1..Len(received) :
             i < j => \/ received[i].frame < received[j].frame
                      \/ /\ received[i].frame = received[j].frame
                         /\ ~Clean(sent'[received[i].frame])
      BY <2>1, <3>1
    <3> QED
      BY <2>1, <2>2, <3>1, <3>2, <3>3 DEF FramesIntact
<1>8. Collected' /\ NoAbort'
  BY <1>1 DEF Inv, Collected, NoAbort
<1> QED
  BY <1>3, <1>5, <1>6, <1>7, <1>8 DEF Inv

\* A byte leaves the pipe; what the reader does with it is left to the caller.
LEMMA ReadShifts ==
    ASSUME NEW w, Writers = {w}, Inv(w), Read
    PROVE  /\ Head(pipe) \in Place /\ InFrame(Head(pipe), sent)
           /\ pipe' \in Seq(Place) /\ Chain(w)'
           /\ Follows(Head(pipe), Ahead(w, 1)', sent)
           /\ Standing(Head(pipe), sent, state, buf)
           /\ Before(Head(pipe), sent, received)
<1>1. /\ pipe \in Seq(Place) /\ pipe # << >> /\ pipe' = Tail(pipe) /\ Len(pipe) \in Nat
      /\ UNCHANGED <<wpc, wframe, open, sent>>
      /\ ~aborted /\ state # "EOF"
  BY DEF Inv, TypeOK, Read, writerVars
<1>2. /\ Len(pipe) >= 1 /\ Head(pipe) = pipe[1] /\ Head(pipe) \in Place
      /\ pipe' \in Seq(Place) /\ Len(pipe') = Len(pipe) - 1
      /\ \A i \in 1..(Len(pipe) - 1) : i + 1 \in 1..Len(pipe) /\ pipe'[i] = pipe[i + 1]
  BY <1>1, PipeFacts
<1>3. \A i \in 1..Len(pipe) : Ahead(w, i)' = Ahead(w, i + 1)
  <2>1. Coming(w)' = Coming(w)
    BY <1>1 DEF Coming
  <2> QED
    BY <1>1, <1>2, <2>1 DEF Ahead
<1>4. Chain(w)'
  <2>1. ASSUME NEW i \in 1..Len(pipe')
        PROVE  Follows(pipe'[i], Ahead(w, i + 1)', sent) /\ InFrame(pipe'[i], sent)
    <3>1. i + 1 \in 1..Len(pipe) /\ pipe'[i] = pipe[i + 1]
          /\ Ahead(w, i + 1)' = Ahead(w, i + 1 + 1)
      BY <1>1, <1>2, <1>3
    <3> QED
      BY <3>1 DEF Inv, Chain
  <2> QED
    BY <1>1, <2>1 DEF Inv, Chain
<1>5. 1 \in 1..Len(pipe)
  BY <1>1, <1>2
<1>6. Head(pipe) = Ahead(w, 1) /\ Ahead(w, 1)' = Ahead(w, 2)
  BY <1>2, <1>3, <1>5 DEF Ahead
<1> QED
  BY <1>1, <1>2, <1>4, <1>5, <1>6 DEF Inv, Chain, Position

\* With the pipe shifted, the rest of the invariant is what the reader makes of it.
LEMMA ReadKeeps ==
    ASSUME NEW w, Writers = {w}, Inv(w), Read,
           state' \in {"PKTSTART1", "PKTSTART2", "PKTRECV", "PKTSTOP1"},
           buf' \in Seq(Byte), aborted' \in BOOLEAN, received' \in Seq(Item),
           ~aborted' => /\ Standing(Ahead(w, 1)', sent, state', buf')
                        /\ Before(Ahead(w, 1)', sent, received'),
           Collected', FramesIntact', NoAbort'
    PROVE  Inv(w)'
<1>1. UNCHANGED <<wpc, wframe, open, sent>>
  BY DEF Read, writerVars
<1>2. TypeOK'
  BY <1>1, ReadShifts DEF Inv, TypeOK
<1>3. Position(w)'
  BY <1>1 DEF Position
<1> QED
  BY <1>2, <1>3, ReadShifts DEF Inv

\* The byte that is read, and the place after it.
LEMMA ReadByte ==
    ASSUME NEW w, Writers = {w}, Inv(w), Read
    PROVE  LET p == Head(pipe)
               q == Ahead(w, 1)'
               b == sent[p.frame]
           IN  /\ p.frame \in 1..Len(sent) /\ p.at \in 1..(Len(b) + 4)
               /\ p.at = 1 => ByteAt(p) = "!" /\ q.frame = p.frame /\ q.at = 2
               /\ p.at = 2 => ByteAt(p) = "&" /\ q.frame = p.frame /\ q.at = 3
               /\ p.at \in 3..(Len(b) + 2) =>
                     ByteAt(p) = b[p.at - 2] /\ q.frame = p.frame /\ q.at = p.at + 1
               /\ p.at = Len(b) + 3 => ByteAt(p) = "!" /\ q.frame = p.frame /\ q.at = p.at + 1
               /\ p.at = Len(b) + 4 => ByteAt(p) = "#" /\ q.frame = p.frame + 1 /\ q.at = 1
               /\ ByteAt(p) \in Byte
<1> DEFINE p == Head(pipe)
           q == Ahead(w, 1)'
           b == sent[p.frame]
<1>1. InFrame(p, sent) /\ Follows(p, q, sent) /\ sent \in Seq(Bodies)
  BY ReadShifts DEF Inv, TypeOK
<1>2. p.frame \in 1..Len(sent) /\ p.at \in 1..(Len(b) + 4)
  BY <1>1 DEF InFrame
<1>3. b \in Seq(Byte) /\ Len(b) \in Nat /\ Len(b) >= 1
  BY <1>1, <1>2, SentFacts
<1>4. ByteAt(p) = Framed(b)[p.at]
  BY DEF ByteAt
<1> HIDE DEF p, q
<1>5. /\ Framed(b)[1] = "!" /\ Framed(b)[2] = "&"
      /\ \A i \in 1..Len(b) : Framed(b)[i + 2] = b[i]
      /\ Framed(b)[Len(b) + 3] = "!" /\ Framed(b)[Len(b) + 4] = "#"
  BY <1>3, FramedBytes
<1>6. p.at < Len(b) + 4 => q.frame = p.frame /\ q.at = p.at + 1
  BY <1>1, <1>2, <1>3 DEF Follows
<1>7. p.at = Len(b) + 4 => q.frame = p.frame + 1 /\ q.at = 1
  BY <1>1, <1>2, <1>3 DEF Follows
<1>8. p.at \in 3..(Len(b) + 2) =>
         /\ ByteAt(p) = b[p.at - 2] /\ q.frame = p.frame /\ q.at = p.at + 1
         /\ ByteAt(p) \in Byte
  <2>1. SUFFICES ASSUME p.at \in 3..(Len(b) + 2)
                 PROVE  ByteAt(p) = b[p.at - 2] /\ b[p.at - 2] \in Byte
    BY <1>3, <1>6
  <2>2. p.at - 2 \in 1..Len(b) /\ (p.at - 2) + 2 = p.at
    BY <1>3, <2>1
  <2>3. b[p.at - 2] \in Byte
    BY <1>3, <2>2
  <2> QED
    BY <1>4, <1>5, <2>2, <2>3
<1>9. p.at = 1 => ByteAt(p) = "!" /\ q.frame = p.frame /\ q.at = 2
  BY <1>3, <1>4, <1>5, <1>6
<1>10. p.at = 2 => ByteAt(p) = "&" /\ q.frame = p.frame /\ q.at = 3
  BY <1>3, <1>4, <1>5, <1>6
<1>11. p.at = Len(b) + 3 => ByteAt(p) = "!" /\ q.frame = p.frame /\ q.at = p.at + 1
  BY <1>3, <1>4, <1>5, <1>6
<1>12. p.at = Len(b) + 4 => ByteAt(p) = "#" /\ q.frame = p.frame + 1 /\ q.at = 1
  BY <1>3, <1>4, <1>5, <1>7
<1>13. ByteAt(p) \in Byte
  <2>1. \/ p.at = 1 \/ p.at = 2 \/ p.at \in 3..(Len(b) + 2)
        \/ p.at = Len(b) + 3 \/ p.at = Len(b) + 4
    BY <1>2, <1>3
  <2> QED
    BY <1>8, <1>9, <1>10, <1>11, <1>12, <2>1 DEF Byte
<1> QED
  BY <1>2, <1>8, <1>9, <1>10, <1>11, <1>12, <1>13 DEF p, q

\* A return joins the history: of a frame no later one is returned before.
LEMMA ReturnKeeps ==
    ASSUME NEW w, Writers = {w}, Inv(w), Read, NEW body \in Seq(Byte),
           LET b == sent[Head(pipe).frame]
           IN  IF Clean(b) THEN body = b ELSE Len(body) < Len(b),
           received' = Append(received, [frame |-> Head(pipe).frame, body |-> body])
    PROVE  /\ received' \in Seq(Item) /\ FramesIntact'
           /\ Head(pipe).frame \in Nat
           /\ Len(received') = Len(received) + 1
           /\ \A i \in 1..Len(received) : received'[i] = received[i]
           /\ received'[Len(received) + 1].frame = Head(pipe).frame
<1>1. SUFFICES ASSUME NEW f \in Nat, f = Head(pipe).frame
               PROVE  /\ received' \in Seq(Item) /\ FramesIntact'
                      /\ Len(received') = Len(received) + 1
                      /\ \A i \in 1..Len(received) : received'[i] = received[i]
                      /\ received'[Len(received) + 1].frame = f
  BY ReadShifts DEF Place
<1> DEFINE e == [frame |-> f, body |-> body]
<1>2. /\ received \in Seq(Item) /\ received' = Append(received, e) /\ e \in Item
      /\ e.frame = f /\ e.body = body
      /\ UNCHANGED sent /\ f \in 1..Len(sent) /\ Before(Head(pipe), sent, received)
  BY <1>1, ReadShifts DEF Inv, TypeOK, Item, Read, writerVars, InFrame
<1> HIDE DEF e
<1>3. /\ received' \in Seq(Item) /\ Len(received') = Len(received) + 1 /\ Len(received) \in Nat
      /\ \A i \in 1..Len(received) : received'[i] = received[i]
      /\ received'[Len(received) + 1] = e
  BY <1>2
<1>4. \A i \in 1..Len(received') : i \in 1..Len(received) \/ i = Len(received) + 1
  BY <1>3
<1>5. ASSUME NEW i \in 1..Len(received')
      PROVE  /\ received'[i].frame \in 1..Len(sent)
             /\ IF Clean(sent[received'[i].frame])
                  THEN received'[i].body = sent[received'[i].frame]
                  ELSE Len(received'[i].body) < Len(sent[received'[i].frame])
  <2>1. CASE i \in 1..Len(received)
    BY <1>3, <2>1 DEF Inv, FramesIntact
  <2>2. CASE i = Len(received) + 1
    BY <1>1, <1>2, <1>3, <2>2
  <2> QED
    BY <1>4, <2>1, <2>2
<1>6. ASSUME NEW i \in 1..Len(received'), NEW j \in 1..Len(received'), i < j
      PROVE  \/ received'[i].frame < received'[j].frame
             \/ received'[i].frame = received'[j].frame /\ ~Clean(sent[received'[i].frame])
  <2>1. i \in 1..Len(received) /\ received'[i] = received[i]
    BY <1>3, <1>4, <1>6
  <2>2. CASE j \in 1..Len(received)
    BY <1>3, <1>6, <2>1, <2>2 DEF Inv, FramesIntact
  <2>3. CASE j = Len(received) + 1
    <3>1. received'[j].frame = f /\ received[i].frame <= f
      BY <1>1, <1>2, <1>3, <2>1, <2>3 DEF Before
    <3>2. received[i].frame = f => ~Clean(sent[f])
      BY <1>1, <1>2, <2>1 DEF Before
    <3>3. received[i].frame \in 1..Len(sent)
      BY <1>3, <1>5, <2>1
    <3> QED
      BY <1>2, <2>1, <3>1, <3>2, <3>3
  <2> QED
    BY <1>4, <2>2, <2>3
<1>7. ASSUME NEW i \in 1..Len(received'), NEW g \in 1..Len(sent),
             g < received'[i].frame, Clean(sent[g])
      PROVE  \E j \in 1..Len(received') : received'[j].frame = g
  <2>1. \E j \in 1..Len(received) : received[j].frame = g
    <3>1. CASE i \in 1..Len(received)
      BY <1>3, <1>7, <3>1 DEF Inv, FramesIntact
    <3>2. CASE i = Len(received) + 1
      BY <1>1, <1>2, <1>3, <1>7, <3>2 DEF Before
    <3> QED
      BY <1>4, <3>1, <3>2
  <2>2. \A j \in 1..Len(received) : j \in 1..Len(received')
    BY <1>3
  <2> QED
    BY <1>3, <2>1, <2>2
<1>8. FramesIntact'
  BY <1>2, <1>5, <1>6, <1>7 DEF FramesIntact
<1> QED
  BY <1>2, <1>3, <1>8

\* Within a frame nothing more is asked of what was returned before.
LEMMA BeforeStays ==
    ASSUME NEW p, NEW q, NEW bodies, NEW items, q.frame = p.frame, Before(p, bodies, items)
    PROVE  Before(q, bodies, items)
BY DEF Before

\* When a frame has been read, it is behind.
LEMMA PassedKeeps ==
    ASSUME NEW p, NEW q, NEW bodies, NEW items,
           p.frame \in 1..Len(bodies), Len(bodies) \in Nat, q.frame = p.frame + 1,
           \A i \in 1..Len(items) : items[i].frame \in Nat /\ items[i].frame <= p.frame,
           \A f \in 1..Len(bodies) :
              f < p.frame /\ Clean(bodies[f]) => \E j \in 1..Len(items) : items[j].frame = f,
           Clean(bodies[p.frame]) => \E j \in 1..Len(items) : items[j].frame = p.frame
    PROVE  Before(q, bodies, items)
<1>1. \A i \in 1..Len(items) : items[i].frame <= q.frame /\ items[i].frame # q.frame
  OBVIOUS
<1>2. \A f \in 1..Len(bodies) : f < q.frame => f < p.frame \/ f = p.frame
  OBVIOUS
<1> QED
  BY <1>1, <1>2 DEF Before

\* ReadStart: at the start of a frame, or after a "!#" in its body.
LEMMA ReadStartKeeps ==
    ASSUME NEW w, Writers = {w}, Inv(w), ReadStart
    PROVE  Inv(w)'
<1> DEFINE p == Head(pipe)
           q == Ahead(w, 1)'
           b == sent[p.frame]
           c == ByteAt(p)
<1>1. /\ Read /\ state \in {"PKTSTART1", "PKTSTART2"}
      /\ state' \in {"PKTSTART1", "PKTSTART2", "PKTRECV"}
      /\ UNCHANGED <<buf, aborted, received, sent>> /\ buf = << >>
  BY DEF ReadStart, Read, writerVars, Inv, Collected
<1>2. /\ Standing(p, sent, state, buf) /\ Before(p, sent, received)
      /\ p.frame \in 1..Len(sent) /\ p.at \in 1..(Len(b) + 4) /\ sent \in Seq(Bodies)
  BY <1>1, ReadShifts, ReadByte DEF Inv, TypeOK
<1>3. Len(b) \in Nat /\ Len(b) >= 1 /\ Len(buf) = 0
  BY <1>1, <1>2, SentFacts
<1>4. /\ p.at = 1 => c = "!" /\ q.frame = p.frame /\ q.at = 2
      /\ p.at = 2 => c = "&" /\ q.frame = p.frame /\ q.at = 3
      /\ p.at \in 3..(Len(b) + 2) => q.frame = p.frame /\ q.at = p.at + 1
      /\ p.at = Len(b) + 3 => c = "!" /\ q.frame = p.frame /\ q.at = p.at + 1
      /\ p.at = Len(b) + 4 => c = "#" /\ q.frame = p.frame + 1 /\ q.at = 1
  BY <1>1, ReadByte
<1>5. /\ c = "!" /\ state = "PKTSTART1" => state' = "PKTSTART2"
      /\ state = "PKTSTART2" => state' = IF c = "&" THEN "PKTRECV" ELSE "PKTSTART1"
      /\ c = "#" /\ state = "PKTSTART1" => state' = "PKTSTART1"
  BY DEF ReadStart
<1> HIDE DEF p, q, c
<1>6. Standing(q, sent, state', buf) /\ Before(q, sent, received)
  <2>1. CASE p.at = 1
    <3>1. Standing(q, sent, state', buf)
      BY <1>2, <1>3, <1>4, <1>5, <2>1 DEF Standing
    <3> QED
      BY <1>2, <1>4, <2>1, <3>1, BeforeStays
  <2>2. CASE p.at = 2
    <3>1. state' = "PKTRECV" /\ q.at = 3 /\ q.frame = p.frame
      BY <1>2, <1>4, <1>5, <2>2 DEF Standing
    <3>2. InBody(b, 0, "PKTRECV", buf)
      BY <1>3, CutGrows DEF InBody
    <3>3. Standing(q, sent, state', buf)
      BY <1>3, <3>1, <3>2 DEF Standing
    <3> QED
      BY <1>2, <3>1, <3>3, BeforeStays
  <2>3. CASE p.at \in 3..(Len(b) + 3)
    <3>1. PICK k \in 0..Len(b) : k = p.at - 3
      BY <1>3, <2>3
    <3>2. InBody(b, k, state, buf)
      BY <1>2, <2>3, <3>1 DEF Standing
    <3>3. Cut(b, k)
      BY <1>1, <3>2 DEF InBody
    <3>4. k > 0 /\ Len(buf) < k
      BY <1>3, <3>1, <3>2, <3>3 DEF InBody
    <3>5. q.frame = p.frame /\ q.at = p.at + 1 /\ q.at = k + 4
      BY <1>3, <1>4, <2>3, <3>1
    <3>6. CASE p.at \in 3..(Len(b) + 2)
      <4>1. Cut(b, k + 1)
        BY <3>1, <3>3, CutStays
      <4>2. InBody(b, k + 1, state', buf)
        BY <3>4, <4>1 DEF InBody
      <4>3. Standing(q, sent, state', buf)
        BY <1>3, <3>1, <3>4, <3>5, <3>6, <4>2 DEF Standing
      <4> QED
        BY <1>2, <3>5, <4>3, BeforeStays
    <3>7. CASE p.at = Len(b) + 3
      <4>1. k = Len(b) /\ c = "!"
        BY <1>3, <1>4, <3>1, <3>7
      <4>2. ~Clean(b) /\ state' # "PKTRECV"
        BY <1>1, <1>5, <3>3, <4>1 DEF Clean
      <4>3. InStop(b, state', buf)
        BY <1>3, <4>2 DEF InStop
      <4>4. Standing(q, sent, state', buf)
        BY <1>3, <3>5, <3>7, <4>3 DEF Standing
      <4> QED
        BY <1>2, <3>5, <4>4, BeforeStays
    <3> QED
      BY <1>3, <2>3, <3>6, <3>7
  <2>4. CASE p.at = Len(b) + 4
    <3>1. InStop(b, state, buf)
      BY <1>2, <1>3, <2>4 DEF Standing
    <3>2. ~Clean(b)
      BY <1>1, <3>1 DEF InStop
    <3>3. state' = "PKTSTART1" /\ q.at = 1 /\ q.frame = p.frame + 1
      BY <1>1, <1>4, <1>5, <2>4
    <3>4. Standing(q, sent, state', buf)
      <4>1. Len(sent[q.frame]) + 4 # 1 \/ q.at = 1
        BY <3>3
      <4> QED
        BY <3>3 DEF Standing
    <3>5. Before(q, sent, received)
      <4>1. \A i \in 1..Len(received) : received[i].frame \in Nat
        BY DEF Inv, FramesIntact
      <4>2. Len(sent) \in Nat
        BY <1>2
      <4>3. /\ \A i \in 1..Len(received) : received[i].frame <= p.frame
            /\ \A f \in 1..Len(sent) :
                  f < p.frame /\ Clean(sent[f])
                     => \E j \in 1..Len(received) : received[j].frame = f
        BY <1>2 DEF Before
      <4>4. Clean(sent[p.frame]) => \E j \in 1..Len(received) : received[j].frame = p.frame
        BY <3>2
      <4> QED
        BY <1>2, <3>3, <4>1, <4>2, <4>3, <4>4, PassedKeeps
    <3> QED
      BY <3>4, <3>5
  <2> QED
    BY <1>2, <1>3, <2>1, <2>2, <2>3, <2>4
<1>7. Collected' /\ FramesIntact' /\ NoAbort'
  BY <1>1 DEF Inv, Collected, FramesIntact, NoAbort
<1> QED
  BY <1>1, <1>6, <1>7, ReadKeeps DEF Inv, TypeOK, q

\* Collect: in a body or its delimiter; the array has room.
LEMMA CollectKeeps ==
    ASSUME NEW w, Writers = {w}, Inv(w), Collect
    PROVE  Inv(w)'
<1> DEFINE p == Head(pipe)
           q == Ahead(w, 1)'
           b == sent[p.frame]
           c == ByteAt(p)
<1>1. /\ Read /\ state \in {"PKTRECV", "PKTSTOP1"} /\ (state = "PKTSTOP1" => c # "#")
      /\ buf' = Append(buf, c) /\ buf \in Seq(Byte) /\ c \in Byte
      /\ state' = IF c = "!" THEN "PKTSTOP1" ELSE "PKTRECV"
      /\ aborted' \in {FALSE, Len(buf) >= BodyLen + 2}
      /\ UNCHANGED <<received, sent>> /\ aborted \in BOOLEAN /\ ~aborted
  BY ReadByte DEF Collect, Read, writerVars, Inv, TypeOK
<1>2. /\ Standing(p, sent, state, buf) /\ Before(p, sent, received)
      /\ p.frame \in 1..Len(sent) /\ p.at \in 1..(Len(b) + 4) /\ sent \in Seq(Bodies)
  BY <1>1, ReadShifts, ReadByte DEF Inv, TypeOK
<1>3. Len(b) \in Nat /\ Len(b) >= 1 /\ Len(b) <= BodyLen /\ BodyLen \in Nat /\ Len(buf) \in Nat
  BY <1>1, <1>2, SentFacts
<1>4. /\ p.at \in 3..(Len(b) + 2) => c = b[p.at - 2] /\ q.frame = p.frame /\ q.at = p.at + 1
      /\ p.at = Len(b) + 3 => c = "!" /\ q.frame = p.frame /\ q.at = p.at + 1
      /\ p.at = Len(b) + 4 => c = "#"
  BY <1>1, ReadByte
<1>5. /\ buf' \in Seq(Byte) /\ Len(buf') = Len(buf) + 1
      /\ \A i \in 1..Len(buf) : buf'[i] = buf[i]
      /\ buf'[Len(buf) + 1] = c
  BY <1>1
<1> HIDE DEF p, q, c
<1>6. p.at \in 3..(Len(b) + 3)
  <2>1. p.at # 1 /\ p.at # 2
    BY <1>1, <1>2 DEF Standing
  <2>2. p.at # Len(b) + 4
    <3>1. SUFFICES ASSUME p.at = Len(b) + 4 PROVE FALSE
      OBVIOUS
    <3>2. InStop(b, state, buf)
      BY <1>2, <1>3, <3>1 DEF Standing
    <3>3. state = "PKTSTOP1"
      BY <1>1, <3>2 DEF InStop
    <3> QED
      BY <1>1, <1>4, <3>1, <3>3
  <2> QED
    BY <1>2, <1>3, <2>1, <2>2
<1>7. PICK k \in 0..Len(b) : k = p.at - 3
  BY <1>3, <1>6
<1>8. InBody(b, k, state, buf)
  BY <1>2, <1>6, <1>7 DEF Standing
<1>9. Len(buf) <= k
  BY <1>3, <1>7, <1>8 DEF InBody
<1>10. aborted' = FALSE
  <2>1. (Len(buf) >= BodyLen + 2) = FALSE
    BY <1>3, <1>7, <1>9
  <2>2. aborted' \in {FALSE, Len(buf) >= BodyLen + 2}
    BY <1>1
  <2> QED
    BY <2>1, <2>2, Zenon
<1>11. q.frame = p.frame /\ q.at = p.at + 1 /\ q.at = k + 4
  BY <1>3, <1>4, <1>6, <1>7
<1>12. ASSUME Standing(q, sent, state', buf') PROVE Inv(w)'
  <2>1. Before(q, sent, received)
    BY <1>2, <1>11, BeforeStays
  <2>2. Collected' /\ FramesIntact' /\ NoAbort'
    BY <1>1, <1>3, <1>5, <1>10 DEF Inv, Collected, FramesIntact, NoAbort
  <2>3. state' \in {"PKTSTART1", "PKTSTART2", "PKTRECV", "PKTSTOP1"} /\ received' \in Seq(Item)
        /\ received' = received
    BY <1>1 DEF Inv, TypeOK
  <2> QED
    BY <1>1, <1>5, <1>10, <1>12, <2>1, <2>2, <2>3, ReadKeeps DEF q
<1>13. CASE p.at \in 3..(Len(b) + 2)
  <2>1. c = b[k + 1] /\ k + 1 <= Len(b)
    <3>1. p.at - 2 = k + 1
      BY <1>3, <1>7, <1>13
    <3> QED
      BY <1>3, <1>4, <1>7, <1>13, <3>1
  <2>2. InBody(b, k + 1, state', buf')
    <3>1. CASE Cut(b, k)
      <4>1. Cut(b, k + 1)
        BY <1>7, <3>1, CutStays
      <4> QED
        BY <1>3, <1>5, <1>7, <1>8, <3>1, <4>1 DEF InBody
    <3>2. CASE ~Cut(b, k)
      <4>1. /\ state = IF k > 0 /\ b[k] = "!" THEN "PKTSTOP1" ELSE "PKTRECV"
            /\ Len(buf) = k /\ \A i \in 1..k : buf[i] = b[i]
        BY <1>8, <3>2 DEF InBody
      <4>2. ~Cut(b, k + 1)
        <5>1. ~(k > 0 /\ b[k] = "!" /\ b[k + 1] = "#")
          BY <1>1, <2>1, <4>1
        <5> QED
          <6>1. k \in Nat
            BY <1>3, <1>7
          <6>2. Cut(b, k + 1) <=> (Cut(b, k) \/ (k > 0 /\ b[k] = "!" /\ b[k + 1] = "#"))
            BY <6>1, CutGrows
          <6> QED
            BY <3>2, <5>1, <6>2
      <4>3. state' = IF k + 1 > 0 /\ b[k + 1] = "!" THEN "PKTSTOP1" ELSE "PKTRECV"
        BY <1>1, <1>7, <2>1
      <4>4. \A i \in 1..(k + 1) : buf'[i] = b[i]
        <5>1. \A i \in 1..(k + 1) : i \in 1..k \/ i = k + 1
          BY <1>7
        <5> QED
          BY <1>5, <2>1, <4>1, <5>1
      <4> QED
        BY <1>5, <4>1, <4>2, <4>3, <4>4 DEF InBody
    <3> QED
      BY <3>1, <3>2
  <2>3. q.at \in 3..(Len(b) + 3) /\ q.at - 3 = k + 1
    BY <1>3, <1>7, <1>11, <2>1
  <2>4. Standing(q, sent, state', buf')
    BY <1>3, <1>7, <1>11, <2>2, <2>3 DEF Standing
  <2> QED
    BY <1>12, <2>4
<1>14. CASE p.at = Len(b) + 3
  <2>1. k = Len(b) /\ c = "!" /\ state' = "PKTSTOP1"
    BY <1>1, <1>3, <1>4, <1>7, <1>14
  <2>2. InStop(b, state', buf')
    BY <1>3, <1>5, <1>8, <2>1 DEF InStop, InBody, Clean
  <2>3. Standing(q, sent, state', buf')
    BY <1>3, <1>11, <1>14, <2>2 DEF Standing
  <2> QED
    BY <1>12, <2>3
<1> QED
  BY <1>3, <1>6, <1>13, <1>14

\* Complete: at the end delimiter, or at a "!#" in a body.
LEMMA CompleteKeeps ==
    ASSUME NEW w, Writers = {w}, Inv(w), Complete
    PROVE  Inv(w)'
<1> DEFINE p == Head(pipe)
           q == Ahead(w, 1)'
           b == sent[p.frame]
           body == SubSeq(buf, 1, Len(buf) - 1)
<1>1. /\ Read /\ state = "PKTSTOP1" /\ ByteAt(p) = "#" /\ Returned(body)
      /\ state' = "PKTSTART1" /\ buf' = << >> /\ buf \in Seq(Byte) /\ Len(buf) > 0
      /\ UNCHANGED sent /\ aborted \in BOOLEAN /\ ~aborted /\ received \in Seq(Item)
  BY DEF Complete, Read, writerVars, Inv, TypeOK, Collected
<1>2. /\ Standing(p, sent, state, buf) /\ Before(p, sent, received)
      /\ p.frame \in 1..Len(sent) /\ p.at \in 1..(Len(b) + 4) /\ sent \in Seq(Bodies)
  BY <1>1, ReadShifts, ReadByte DEF Inv, TypeOK
<1>3. /\ b \in Bodies /\ b \in Seq(Byte) /\ Len(b) \in Nat /\ Len(b) >= 1 /\ Len(b) <= BodyLen
      /\ BodyLen \in Nat /\ Len(buf) \in Nat
  BY <1>1, <1>2, SentFacts
<1>4. /\ p.at \in 3..(Len(b) + 2) => /\ b[p.at - 2] = "#"
                                     /\ q.frame = p.frame /\ q.at = p.at + 1
      /\ p.at # Len(b) + 3
      /\ p.at = Len(b) + 4 => q.frame = p.frame + 1 /\ q.at = 1
  BY <1>1, ReadByte
<1>5. /\ body \in Seq(Byte) /\ Len(body) = Len(buf) - 1 /\ Len(buf) - 1 \in Nat
      /\ \A i \in 1..(Len(buf) - 1) : body[i] = buf[i]
  BY <1>1, <1>3, WithoutLast
<1>6. /\ ~aborted' => received' = Append(received, [frame |-> p.frame, body |-> body])
      /\ aborted' => /\ received' = received /\ Len(body) # BodyLen
                     /\ ~Checked => Len(body) >= BodyLen
      /\ aborted' \in BOOLEAN
  <2> HIDE DEF p, body
  <2>1. CASE Len(body) = BodyLen \/ (~Checked /\ Len(body) < BodyLen)
    <3>1. received' = Append(received, [frame |-> p.frame, body |-> body]) /\ UNCHANGED aborted
      BY <1>1, <2>1 DEF Returned, p
    <3> QED
      BY <1>1, <3>1
  <2>2. CASE ~(Len(body) = BodyLen \/ (~Checked /\ Len(body) < BodyLen))
    <3>1. aborted' = TRUE /\ received' = received
      BY <1>1, <2>2 DEF Returned
    <3>2. Len(body) \in Nat
      BY <1>5
    <3> QED
      BY <1>3, <2>2, <3>1, <3>2
  <2> QED
    BY <2>1, <2>2
<1> HIDE DEF p, q, body
<1>7. ASSUME IF Clean(b) THEN body = b ELSE Len(body) < Len(b),
             ~aborted' => /\ Standing(q, sent, state', buf')
                          /\ Before(q, sent, received')
      PROVE  Inv(w)'
  <2>1. received' \in Seq(Item) /\ FramesIntact'
    <3>1. CASE aborted'
      BY <1>1, <1>6, <3>1 DEF Inv, FramesIntact
    <3>2. CASE ~aborted'
      BY <1>1, <1>5, <1>6, <1>7, <3>2, ReturnKeeps DEF p
    <3> QED
      BY <3>1, <3>2
  <2>2. Collected'
    BY <1>1 DEF Collected
  <2>3. NoAbort'
    <3>1. SUFFICES ASSUME Checked => \A d \in Bodies : Clean(d), aborted'
                   PROVE  FALSE
      BY DEF NoAbort
    <3>2. CASE Checked
      <4>1. Len(b) = BodyLen /\ Clean(b)
        BY <1>3, <3>1, <3>2, FramingConstants
      <4> QED
        BY <1>6, <1>7, <3>1, <4>1
    <3>3. CASE ~Checked
      BY <1>3, <1>5, <1>6, <1>7, <3>1, <3>3
    <3> QED
      BY <3>2, <3>3
  <2>4. state' \in {"PKTSTART1", "PKTSTART2", "PKTRECV", "PKTSTOP1"} /\ buf' \in Seq(Byte)
    BY <1>1
  <2> QED
    BY <1>1, <1>6, <1>7, <2>1, <2>2, <2>3, <2>4, ReadKeeps DEF q
<1>8. CASE p.at \in 3..(Len(b) + 2)
  <2>1. PICK k \in 0..Len(b) : k = p.at - 3
    BY <1>3, <1>8
  <2>2. InBody(b, k, state, buf) /\ k \in Nat /\ k + 1 <= Len(b) /\ b[k + 1] = "#"
    <3>1. p.at - 2 = k + 1 /\ k \in Nat /\ k + 1 <= Len(b) /\ p.at \in 3..(Len(b) + 3)
      BY <1>3, <1>8, <2>1
    <3>2. InBody(b, k, state, buf)
      BY <1>2, <2>1, <3>1 DEF Standing
    <3> QED
      BY <1>4, <1>8, <3>1, <3>2
  <2>3. Cut(b, k + 1) /\ Len(buf) <= k
    <3>1. CASE Cut(b, k)
      BY <1>3, <2>2, <3>1, CutStays DEF InBody
    <3>2. CASE ~Cut(b, k)
      <4>1. k > 0 /\ b[k] = "!" /\ Len(buf) = k
        BY <1>1, <2>2, <3>2 DEF InBody
      <4>2. Cut(b, k + 1)
        BY <2>2, <4>1, CutGrows
      <4> QED
        BY <2>2, <4>1, <4>2
    <3> QED
      BY <3>1, <3>2
  <2>4. ~Clean(b)
    BY <1>3, <2>2, <2>3, CutStays DEF Clean
  <2>5. Len(body) < Len(b)
    BY <1>3, <1>5, <2>2, <2>3
  <2>6. q.frame = p.frame /\ q.at = k + 4
    BY <1>3, <1>4, <1>8, <2>1
  <2>7. Standing(q, sent, state', buf')
    <3>1. InBody(b, k + 1, state', buf')
      BY <1>1, <2>2, <2>3 DEF InBody
    <3>2. q.at \in 3..(Len(b) + 3) /\ q.at - 3 = k + 1 /\ q.at # Len(b) + 4
      BY <1>3, <2>2, <2>6
    <3> QED
      BY <2>6, <3>1, <3>2 DEF Standing
  <2>8. ASSUME ~aborted' PROVE Before(q, sent, received')
    <3>1. received' = Append(received, [frame |-> p.frame, body |-> body])
      BY <1>6, <2>8
    <3>2. /\ Len(received') = Len(received) + 1 /\ Len(received) \in Nat
          /\ \A i \in 1..Len(received) : received'[i] = received[i]
          /\ received'[Len(received) + 1].frame = p.frame
      BY <1>1, <1>5, <2>4, <2>5, <3>1, ReturnKeeps DEF p
    <3>3. \A i \in 1..Len(received') : i \in 1..Len(received) \/ i = Len(received) + 1
      BY <3>2
    <3>4. \A i \in 1..Len(received) : i \in 1..Len(received')
      BY <3>2
    <3>5. /\ \A i \in 1..Len(received) : received[i].frame <= p.frame
          /\ \A f \in 1..Len(sent) :
                f < p.frame /\ Clean(sent[f])
                   => \E j \in 1..Len(received) : received[j].frame = f
      BY <1>2 DEF Before
    <3>6. \A i \in 1..Len(received') : received'[i].frame <= p.frame
      BY <1>2, <3>2, <3>3, <3>5
    <3>7. \A f \in 1..Len(sent) :
             f < p.frame /\ Clean(sent[f])
                => \E j \in 1..Len(received') : received'[j].frame = f
      BY <3>2, <3>4, <3>5
    <3> QED
      BY <2>4, <2>6, <3>6, <3>7 DEF Before
  <2> QED
    BY <1>7, <2>4, <2>5, <2>7, <2>8
<1>9. CASE p.at = Len(b) + 4
  <2>1. InStop(b, state, buf)
    BY <1>2, <1>3, <1>9 DEF Standing
  <2>2. IF Clean(b) THEN body = b ELSE Len(body) < Len(b)
    <3>1. CASE Clean(b)
      <4>1. Len(buf) = Len(b) + 1 /\ \A i \in 1..Len(b) : buf[i] = b[i]
        BY <2>1, <3>1 DEF InStop
      <4>2. Len(body) = Len(b) /\ \A i \in 1..Len(b) : body[i] = b[i]
        BY <1>3, <1>5, <4>1
      <4>3. body = b
        BY <1>3, <1>5, <4>2, SeqEqual
      <4> QED
        BY <3>1, <4>3
    <3>2. CASE ~Clean(b)
      BY <1>3, <1>5, <2>1, <3>2 DEF InStop
    <3> QED
      BY <3>1, <3>2
  <2>3. q.at = 1 /\ q.frame = p.frame + 1
    BY <1>4, <1>9
  <2>4. Standing(q, sent, state', buf')
    BY <1>1, <2>3 DEF Standing
  <2>5. ASSUME ~aborted' PROVE Before(q, sent, received')
    <3>1. received' = Append(received, [frame |-> p.frame, body |-> body])
      BY <1>6, <2>5
    <3>2. /\ Len(received') = Len(received) + 1 /\ Len(received) \in Nat
          /\ \A i \in 1..Len(received) : received'[i] = received[i]
          /\ received'[Len(received) + 1].frame = p.frame
          /\ FramesIntact'
      BY <1>1, <1>5, <2>2, <3>1, ReturnKeeps DEF p
    <3>3. \A i \in 1..Len(received') : i \in 1..Len(received) \/ i = Len(received) + 1
      BY <3>2
    <3>4. \A i \in 1..Len(received) : i \in 1..Len(received')
      BY <3>2
    <3>5. \A i \in 1..Len(received') : received'[i].frame \in Nat
      BY <1>1, <3>2 DEF FramesIntact
    <3>6. \A i \in 1..Len(received') : received'[i].frame <= p.frame
      BY <1>2, <3>2, <3>3 DEF Before
    <3>7. \A f \in 1..Len(sent) :
             f < p.frame /\ Clean(sent[f])
                => \E j \in 1..Len(received') : received'[j].frame = f
      BY <1>2, <3>2, <3>4 DEF Before
    <3>8. Clean(sent[p.frame]) => \E j \in 1..Len(received') : received'[j].frame = p.frame
      BY <3>2
    <3>9. Len(sent) \in Nat
      BY <1>2
    <3> QED
      BY <1>2, <2>3, <3>5, <3>6, <3>7, <3>8, <3>9, PassedKeeps
  <2> QED
    BY <1>7, <2>2, <2>4, <2>5
<1>10. p.at # 1 /\ p.at # 2
  BY <1>1, <1>2 DEF Standing
<1> QED
  BY <1>2, <1>3, <1>4, <1>8, <1>9, <1>10
-----------------------------------------------------------------------------
LEMMA InitHolds ==
    ASSUME NEW w, Writers = {w}, FramingInit
    PROVE  Inv(w)
<1>1. TypeOK
  <2>1. pipe \in Seq(Place) /\ received \in Seq(Item) /\ sent \in Seq(Bodies) /\ buf \in Seq(Byte)
    BY DEF FramingInit
  <2> QED
    BY <2>1 DEF FramingInit, TypeOK
<1>2. Len(pipe) = 0 /\ Len(received) = 0 /\ Len(sent) = 0
  BY DEF FramingInit
<1>3. Ahead(w, 1) = [frame |-> 1, at |-> 1]
  BY <1>2 DEF FramingInit, Ahead, Coming
<1>4. wpc[w] = "start" /\ wframe[w] = 0
  BY DEF FramingInit
<1>5. Position(w)
  BY <1>2, <1>3 DEF FramingInit, Position, Standing, Before
<1> QED
  BY <1>1, <1>2, <1>4, <1>5 DEF FramingInit, Inv, Chain, FramesIntact, NoAbort, Collected

LEMMA WriterKeeps ==
    ASSUME NEW w, Writers = {w}, Inv(w), Writer
    PROVE  Inv(w)'
<1>1. /\ wpc \in [Writers -> {"start", "body", "stop"}] /\ wframe \in [Writers -> Nat]
      /\ sent \in Seq(Bodies) /\ Len(sent) \in Nat /\ wframe[w] = Len(sent) /\ w \in Writers
      /\ wpc[w] # "start" => Len(sent) > 0
  BY DEF Inv, TypeOK, Chain
<1>2. SUFFICES ASSUME NEW n \in Nat, n = Len(sent)
               PROVE  Inv(w)'
  BY <1>1
<1>3. ASSUME NEW b \in Bodies, SendStart(w, b)
      PROVE  Inv(w)'
  <2>1. /\ wpc[w] = "start" /\ Send(n + 1, 1, 2) /\ sent' = Append(sent, b)
        /\ wpc'[w] = "body" /\ wframe'[w] = n + 1
        /\ wpc' \in [Writers -> {"start", "body", "stop"}] /\ wframe' \in [Writers -> Nat]
    BY <1>1, <1>2, <1>3 DEF SendStart
  <2>2. /\ sent' \in Seq(Bodies) /\ Len(sent') = n + 1 /\ sent'[n + 1] = b
        /\ \A g \in 1..n : sent'[g] = sent[g]
    BY <1>1, <1>2, <2>1
  <2>3. Coming(w) = [frame |-> n + 1, at |-> 1]
    BY <1>2, <2>1 DEF Coming
  <2>4. Coming(w)' = [frame |-> n + 1, at |-> 3]
    BY <2>1, <2>2 DEF Coming
  <2>5. Len(b) \in Nat
    BY BodyFacts
  <2>6. Follows([frame |-> n + 1, at |-> 1 + 2 - 1], Coming(w)', sent')
    BY <2>2, <2>4, <2>5 DEF Follows
  <2>7. n + 1 \in 1..Len(sent') /\ 1 + 2 - 1 <= Len(sent'[n + 1]) + 4
    BY <2>2, <2>5
  <2>8. n + 1 \in Nat /\ 1 \in Nat \ {0} /\ 2 \in Nat \ {0} /\ Len(sent') >= Len(sent)
        /\ wframe'[w] = Len(sent') /\ \A g \in 1..Len(sent) : sent'[g] = sent[g]
    BY <1>2, <2>1, <2>2
  <2> QED
    BY <2>1, <2>2, <2>3, <2>6, <2>7, <2>8, SendKeeps
<1>4. ASSUME wpc[w] # "start", UNCHANGED sent, wframe' = wframe,
             NEW first \in Nat \ {0}, NEW m \in Nat \ {0}, Send(n, first, m),
             Coming(w) = [frame |-> n, at |-> first],
             wpc' \in [Writers -> {"start", "body", "stop"}],
             first + m - 1 <= Len(sent[n]) + 4,
             Follows([frame |-> n, at |-> first + m - 1], Coming(w)', sent)
      PROVE  Inv(w)'
  <2>1. n \in 1..Len(sent')
    BY <1>1, <1>2, <1>4
  <2> QED
    BY <1>1, <1>2, <1>4, <2>1, SendKeeps
<1>5. n > 0 => Len(sent[n]) \in Nat /\ Len(sent[n]) >= 1
  BY <1>1, <1>2, SentFacts
<1>6. CASE SendBody(w)
  <2>1. /\ wpc[w] = "body" /\ Send(n, 3, Len(sent[n])) /\ UNCHANGED <<sent, wframe>>
        /\ wpc'[w] = "stop" /\ wpc' \in [Writers -> {"start", "body", "stop"}]
    BY <1>1, <1>2, <1>6 DEF SendBody
  <2>2. PICK m \in Nat \ {0} : m = Len(sent[n])
    BY <1>1, <1>2, <1>5, <2>1
  <2>3. Coming(w) = [frame |-> n, at |-> 3] /\ Coming(w)' = [frame |-> n, at |-> m + 3]
    BY <1>2, <2>1, <2>2 DEF Coming
  <2>4. Follows([frame |-> n, at |-> 3 + m - 1], Coming(w)', sent)
    BY <2>2, <2>3 DEF Follows
  <2> QED
    BY <1>4, <2>1, <2>2, <2>3, <2>4
<1>7. CASE SendStop(w)
  <2>1. /\ wpc[w] = "stop" /\ Send(n, Len(sent[n]) + 3, 2) /\ UNCHANGED <<sent, wframe>>
        /\ wpc'[w] = "start" /\ wpc' \in [Writers -> {"start", "body", "stop"}]
    BY <1>1, <1>2, <1>7 DEF SendStop
  <2>2. PICK first \in Nat \ {0} : first = Len(sent[n]) + 3
    BY <1>1, <1>2, <1>5, <2>1
  <2>3. Coming(w) = [frame |-> n, at |-> first] /\ Coming(w)' = [frame |-> n + 1, at |-> 1]
    BY <1>2, <2>1, <2>2 DEF Coming
  <2>4. /\ first + 2 - 1 <= Len(sent[n]) + 4
        /\ Follows([frame |-> n, at |-> first + 2 - 1], Coming(w)', sent)
    BY <1>1, <1>2, <1>5, <2>1, <2>2, <2>3 DEF Follows
  <2> QED
    BY <1>4, <2>1, <2>2, <2>3, <2>4
<1> QED
  BY <1>3, <1>6, <1>7 DEF Writer

LEMMA ReaderKeeps ==
    ASSUME NEW w, Writers = {w}, Inv(w), Reader
    PROVE  Inv(w)'
<1>1. CASE ReadEof
  <2>1. /\ state' = "EOF" /\ UNCHANGED <<pipe, writerVars, buf, aborted, received>>
    BY <1>1 DEF ReadEof
  <2> QED
    BY <2>1 DEF Inv, TypeOK, Chain, Ahead, Coming, Position, Collected, FramesIntact, NoAbort,
                writerVars
<1> QED
  BY <1>1, ReadStartKeeps, CollectKeeps, CompleteKeeps DEF Reader

LEMMA StepKeeps ==
    ASSUME NEW w, Writers = {w}, Inv(w), [Next]_vars
    PROVE  Inv(w)'
<1>1. CASE Close \/ UNCHANGED vars
  <2>1. /\ UNCHANGED <<pipe, wpc, wframe, sent, readerVars>>
        /\ open' \in BOOLEAN
    BY <1>1 DEF Close, vars, writerVars, Inv, TypeOK
  <2>2. TypeOK'
    BY <2>1 DEF Inv, TypeOK, readerVars
  <2>3. Chain(w)'
    BY <2>1 DEF Inv, Chain, Ahead, Coming
  <2>4. Position(w)'
    BY <2>1 DEF Inv, Position, Ahead, Coming, readerVars
  <2>5. FramesIntact' /\ NoAbort' /\ Collected'
    BY <2>1 DEF Inv, FramesIntact, NoAbort, Collected, readerVars
  <2> QED
    BY <2>2, <2>3, <2>4, <2>5 DEF Inv
<1> QED
  BY <1>1, WriterKeeps, ReaderKeeps DEF Next
-----------------------------------------------------------------------------
\* The damage done by "!#" in a body stays within its frame on a connection with
\* one writing thread: a clean frame is returned once, in order and with its
\* body, and what is returned of another, cut or begun at a "!&" within it, is
\* shorter than its body.  For every set of bodies and both kinds of readers.
THEOREM OneWriterIntact ==
    ASSUME NEW CONSTANT w, Writers = {w}
    PROVE  Spec => []FramesIntact
<1>1. FramingInit => Inv(w)
  BY InitHolds
<1>2. Inv(w) /\ [Next]_vars => Inv(w)'
  BY StepKeeps
<1>3. Inv(w) => FramesIntact
  BY DEF Inv
<1> QED
  BY <1>1, <1>2, <1>3, PTL DEF Spec

\* No reader ends on one writing thread, if either no body holds "!#" or the
\* reader does not ask for a length (recvpkt(), whatever the bodies).
THEOREM OneWriterWhole ==
    ASSUME NEW CONSTANT w, Writers = {w}, Checked => \A b \in Bodies : Clean(b)
    PROVE  Spec => []WholeFrames
<1>1. FramingInit => Inv(w)
  BY InitHolds
<1>2. Inv(w) /\ [Next]_vars => Inv(w)'
  BY StepKeeps
<1>3. Inv(w) => WholeFrames
  BY DEF Inv, NoAbort, WholeFrames
<1> QED
  BY <1>1, <1>2, <1>3, PTL DEF Spec
=============================================================================
