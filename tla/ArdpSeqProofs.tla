---------------------------- MODULE ArdpSeqProofs ---------------------------
(***************************************************************************)
(* What the sequence number macros of ArdpProtocol.cc compute, for every   *)
(* modulus: they agree with the distance between two numbers on the circle *)
(* as long as the numbers compared are less than half of it apart.         *)
(***************************************************************************)
EXTENDS ArdpSeq, TLAPS

\* Sums and differences are sequence numbers again and undo each other.
LEMMA AddDiff ==
    ASSUME NEW a \in SeqNum, NEW n \in SeqNum
    PROVE  /\ Add(a, n) \in SeqNum /\ Diff(a, n) \in SeqNum
           /\ Diff(Add(a, n), a) = n
           /\ Add(Diff(a, n), n) = a
BY SeqModAssumption DEF SeqNum, Add, Diff

\* IN_RANGE(beg, sz, p) holds exactly for the sz numbers from beg on, whether or
\* not the region wraps around.
THEOREM InRangeIsDistance ==
    ASSUME NEW beg \in SeqNum, NEW sz \in SeqNum, NEW p \in SeqNum
    PROVE  IN_RANGE(beg, sz, p) <=> Diff(p, beg) < sz
<1> USE SeqModAssumption DEF SeqNum
<1>1. CASE beg + sz < SeqMod
  <2>1. Add(beg, sz) = beg + sz
    BY <1>1 DEF Add
  <2>2. IN_RANGE(beg, sz, p) <=> p >= beg /\ p < beg + sz
    BY <1>1, <2>1 DEF IN_RANGE
  <2> QED
    BY <1>1, <2>2 DEF Diff
<1>2. CASE beg + sz >= SeqMod
  <2>1. Add(beg, sz) = beg + sz - SeqMod
    BY <1>2 DEF Add
  <2>2. IN_RANGE(beg, sz, p) <=> ~(p < beg /\ p >= beg + sz - SeqMod)
    BY <1>2, <2>1 DEF IN_RANGE
  <2> QED
    BY <1>2, <2>2 DEF Diff
<1> QED
  BY <1>1, <1>2

\* SEQ32_LT tells which of two numbers comes first, if they are less than half
\* of the circle apart: a is before a + n, and a + n is not before a.
THEOREM LtIsOrder ==
    ASSUME NEW a \in SeqNum, NEW n \in SeqNum, 2 * n < SeqMod
    PROVE  /\ SEQ32_LT(a, Add(a, n)) <=> n # 0
           /\ ~SEQ32_LT(Add(a, n), a)
           /\ SEQ32_LET(a, Add(a, n))
<1> USE SeqModAssumption DEF SeqNum
<1>1. CASE n = 0
  BY <1>1 DEF SEQ32_LT, SEQ32_LET, Add, Diff
<1>2. CASE n # 0
  <2>1. Diff(Add(a, n), a) = n
    BY AddDiff
  <2>2. Diff(a, Add(a, n)) = SeqMod - n
    BY <1>2 DEF Add, Diff
  <2> QED
    BY <1>2, <2>1, <2>2 DEF SEQ32_LT, SEQ32_LET
<1> QED
  BY <1>1, <1>2

\* Adding the same distance to two numbers does not change their distance, so a
\* window may slide across the wrap-around.
THEOREM DistanceSlides ==
    ASSUME NEW a \in SeqNum, NEW b \in SeqNum, NEW n \in SeqNum
    PROVE  Diff(Add(a, n), Add(b, n)) = Diff(a, b)
<1> USE SeqModAssumption DEF SeqNum
<1>1. CASE a + n < SeqMod
  BY <1>1 DEF Add, Diff
<1>2. CASE a + n >= SeqMod
  BY <1>2 DEF Add, Diff
<1> QED
  BY <1>1, <1>2
=============================================================================
