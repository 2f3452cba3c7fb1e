--------------------------- MODULE ReliableStream ---------------------------
(***************************************************************************)
(* What the transport promises of one connection: the bytes the receiving  *)
(* end has taken are, at every moment, a prefix of the bytes the sending    *)
(* end has put in, and neither end ever takes a byte back.                  *)
(***************************************************************************)
EXTENDS Naturals, Sequences

VARIABLES written, received

Extends(t, s) == /\ t \in Seq(Nat)
                 /\ Len(s) <= Len(t)
                 /\ \A i \in 1..Len(s) : t[i] = s[i]

Init == written = << >> /\ received = << >>

\* The sending end puts in more bytes.
Write == Extends(written', written) /\ UNCHANGED received

\* The receiving end takes the next bytes, as many as it likes.
Accept == /\ Extends(received', received)
          /\ Extends(written, received')
          /\ UNCHANGED written

Next == Write \/ Accept

Spec == Init /\ [][Next]_<<written, received>>
=============================================================================
