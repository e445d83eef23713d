------------------------------ MODULE ArdpSeq -------------------------------
(***************************************************************************)
(* The sequence number arithmetic of alljoyn_core/router/ArdpProtocol.cc.  *)
(* Numbers are unsigned and wrap around at SeqMod, 2^32 in the code.       *)
(***************************************************************************)
EXTENDS Integers

CONSTANT SeqMod

ASSUME SeqModAssumption == SeqMod \in Nat /\ SeqMod > 1

SeqNum == 0..(SeqMod - 1)

\* Unsigned sum and difference.
Add(a, n)  == IF a + n < SeqMod THEN a + n ELSE a + n - SeqMod
Diff(a, b) == IF b <= a THEN a - b ELSE a - b + SeqMod

\* The difference, read as a signed number, is negative.
SEQ32_LT(a, b)  == SeqMod <= 2 * Diff(a, b)
SEQ32_LET(a, b) == SEQ32_LT(a, b) \/ a = b

IN_RANGE(beg, sz, p) ==
    LET end == Add(beg, sz) IN
    \/ end > beg /\ p >= beg /\ p < end
    \/ end < beg /\ ~(p < beg /\ p >= end)
=============================================================================
