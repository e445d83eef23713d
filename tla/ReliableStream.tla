--------------------------- MODULE ReliableStream ---------------------------
(***************************************************************************)
(* What a stream between two endpoints promises its users: whatever one    *)
(* end pushes, the other end gets once, and in the order it was pushed.    *)
(* The abstract specification that the link and transport protocols below  *)
(* the message bus are shown to implement.                                 *)
(***************************************************************************)
EXTENDS Naturals, Sequences

VARIABLES pushed,   \* how many items the sender's user has handed over
          got       \* the items the receiver's user can have, in order

Init == pushed = 0 /\ got = << >>

\* The sender's user hands over item number pushed.
Push == pushed' = pushed + 1 /\ UNCHANGED got

\* The oldest item that was not yet handed to the receiver's user is.
Deliver == /\ Len(got) < pushed
           /\ got' = Append(got, Len(got))
           /\ UNCHANGED pushed

Next == Push \/ Deliver

Spec == Init /\ [][Next]_<<pushed, got>>
=============================================================================
