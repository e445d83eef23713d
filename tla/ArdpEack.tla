------------------------------ MODULE ArdpEack ------------------------------
(***************************************************************************)
(* The EACK mask of ArdpMask over a whole connection, beside the set of    *)
(* segments it is about: what AddRcvBuffer and AdvanceRcvQueue of          *)
(* alljoyn_core/router/ArdpProtocol.cc do to it, for any arrival order.    *)
(***************************************************************************)
EXTENDS ArdpMask

VARIABLES
    eack,     \* conn->rcv.eack
    more,     \* AdvanceRcvQueue is in its loop, nothing is sent before it ends
    got       \* what the mask is about: k stands for segment rcv.CUR + 2 + k

vars == <<eack, more, got>>

Offsets == 0..(Words * Bits - 1)

Init == eack = NoEack /\ more = FALSE /\ got = {}

\* AddRcvBuffer, for a segment that is not the expected one.
AddRcvBuffer(delta) ==
    /\ ~more
    /\ eack' = AddRcvMsk(eack, delta)
    /\ got' = got \cup {delta - 1}
    /\ UNCHANGED more

\* AdvanceRcvQueue moves past a segment: the first time it is the one that has
\* just arrived, then as long as the next one was buffered.
AdvanceRcvQueue ==
    /\ eack' = ShiftRcvMsk(eack)
    /\ more' = (0 \in got)
    /\ got' = {k \in Offsets : k + 1 \in got}

Next == AdvanceRcvQueue \/ \E delta \in 1..(Words * Bits) : AddRcvBuffer(delta)

Spec == Init /\ [][Next]_vars

-----------------------------------------------------------------------------
(* Properties.                                                             *)

\* Type invariant.
TypeOK ==
    /\ eack \in [mask : [Bin -> SUBSET Bit], htnMask : [Bin -> SUBSET Bit], sz : 0..Words]
    /\ more \in BOOLEAN /\ got \subseteq Offsets

\* The mask holds exactly the segments received out of order, across the word
\* boundaries: bit b of word w is segment rcv.CUR + 2 + w * Bits + b.
MaskTracks == \A w \in Bin, b \in Bit : b \in eack.mask[w] <=> w * Bits + b \in got

\* sz counts the words up to the last one that is not zero: a mask that is not
\* empty is never left out of a segment, and no word in use escapes a shift.
SzTight ==
    /\ \A w \in Bin : w >= eack.sz => eack.mask[w] = {}
    /\ eack.sz > 0 => eack.mask[eack.sz - 1] # {}

\* Whenever a segment may be sent, the mask it carries is the mask: the sender
\* is never told that a segment arrived that did not ("First bit represents
\* rcv.CUR + 2", ArdpProtocol.cc:2196).
WireIsMask == ~more /\ eack.sz > 0 => eack.htnMask = eack.mask
=============================================================================
