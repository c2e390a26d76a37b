----------------------------- MODULE EchoService -----------------------------
(***************************************************************************)
(* What an echo session promises its user, whatever transport it runs on:  *)
(* the bytes read from standard input come back in order, each at most     *)
(* once, and a session whose two sides end normally has brought every one  *)
(* of them back.  Bytes are counted, not named: the streams below this     *)
(* specification are first-in first-out, so a position in the stream       *)
(* identifies a byte.                                                      *)
(***************************************************************************)
EXTENDS Naturals

VARIABLES
    got,    \* bytes read from standard input so far
    out,    \* bytes shown to the user so far
    done    \* both sides have ended normally

Init ==
    /\ got = 0
    /\ out = 0
    /\ done = FALSE

\* Bytes are read from standard input.
Accept ==
    /\ ~done
    /\ got' \in Nat
    /\ got' > got
    /\ UNCHANGED <<out, done>>

\* Bytes that came back are shown, never one that was not read before.
Deliver ==
    /\ ~done
    /\ out' \in Nat
    /\ out' > out
    /\ out' <= got
    /\ UNCHANGED <<got, done>>

\* The session ends: nothing may be missing.
Finish ==
    /\ ~done
    /\ out = got
    /\ done' = TRUE
    /\ UNCHANGED <<got, out>>

Next == Accept \/ Deliver \/ Finish

Spec == Init /\ [][Next]_<<got, out, done>>
=============================================================================
