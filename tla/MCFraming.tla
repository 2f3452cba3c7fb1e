----------------------------- MODULE MCFraming ------------------------------
(* Model checking of Framing: bodies of four bytes, or shorter, for recvpkt(). *)
EXTENDS Framing

LinkBodies == {
    <<"x", "x", "x", "x">>,
    <<"x">>,
    <<"&", "x", "#", "!">>,    \* clean, with "!" before the end delimiter
    <<"!", "&", "!", "!">>,    \* clean, with the delimiter of a start
    <<"x", "x", "!", "#">>,    \* cut, nothing left
    <<"!", "#", "x", "!">>,    \* cut, "!" before the end delimiter
    <<"!", "#", "!", "&">>,    \* cut, and a frame that was never sent
    <<"x", "!", "!", "#">>,
    <<"!", "#">> }

CleanBodies == {<<"x", "x", "x", "x">>}
=============================================================================
