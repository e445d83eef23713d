--------------------------- MODULE ArdpEackProofs ---------------------------
(***************************************************************************)
(* Proofs about ArdpEack for every word size and every number of words:    *)
(* the mask in host order always holds exactly the segments that arrived.  *)
(***************************************************************************)
EXTENDS ArdpEack, TLAPS

\* A number has one quotient and one remainder by Bits.
LEMMA DivisionUnique ==
    ASSUME NEW v \in Nat, NEW w \in Int, NEW a \in Bit, NEW b \in Bit,
           v * Bits + a = w * Bits + b
    PROVE  w = v /\ b = a
<1> USE EackAssumption DEF Bit
<1>1. ASSUME NEW x \in Int, NEW y \in Int, x < y
      PROVE  y * Bits >= x * Bits + Bits
  <2>1. PICK d \in Nat : y = x + 1 + d
    BY <1>1
  <2>2. y * Bits = x * Bits + Bits + d * Bits
    BY <2>1
  <2>3. d * Bits >= 0
    BY <2>1
  <2> QED
    BY <2>2, <2>3
<1>2. ~(v < w)
  BY <1>1
<1>3. ~(w < v)
  BY <1>1
<1> QED
  BY <1>2, <1>3

\* The position of a bit determines the word and the bit.
LEMMA PositionUnique ==
    ASSUME NEW v \in Bin, NEW w \in Bin, NEW a \in Bit, NEW b \in Bit,
           v * Bits + a = w * Bits + b
    PROVE  v = w /\ a = b
<1>1. v \in Nat /\ w \in Int
  BY EackAssumption DEF Bin
<1> QED
  BY <1>1, DivisionUnique

\* A position is an offset, and the next position is the next bit or the first
\* bit of the next word.
LEMMA PositionInRange ==
    ASSUME NEW w \in Bin, NEW b \in Bit
    PROVE  w * Bits + b \in Offsets
<1> USE EackAssumption DEF Bin, Bit, Offsets
<1>1. PICK d \in Nat : Words = w + 1 + d
  OBVIOUS
<1>2. Words * Bits = w * Bits + Bits + d * Bits
  BY <1>1
<1>3. d * Bits >= 0 /\ w * Bits >= 0
  BY <1>1
<1> QED
  BY <1>2, <1>3

\* Every offset is the position of some bit.
LEMMA PositionOf ==
    ASSUME NEW k \in Offsets
    PROVE  \E w \in Bin, b \in Bit : k = w * Bits + b
<1> USE EackAssumption DEF Bin, Bit, Offsets
<1> DEFINE q == k \div Bits
           r == k % Bits
<1>1. k \in Nat /\ q \in Int /\ r \in 0..(Bits - 1) /\ k = q * Bits + r
  OBVIOUS
<1>2. q >= 0
  <2>1. ASSUME q < 0 PROVE FALSE
    <3>1. PICK d \in Nat : q = -1 - d
      BY <2>1, <1>1
    <3>2. q * Bits = -Bits - d * Bits
      BY <3>1, <1>1
    <3>3. d * Bits >= 0
      BY <3>1
    <3> QED
      BY <1>1, <3>2, <3>3
  <2> QED
    BY <2>1, <1>1
<1>3. q < Words
  <2>1. ASSUME q >= Words PROVE FALSE
    <3>1. PICK d \in Nat : q = Words + d
      BY <2>1, <1>1
    <3>2. q * Bits = Words * Bits + d * Bits
      BY <3>1, <1>1
    <3>3. d * Bits >= 0
      BY <3>1
    <3> QED
      BY <1>1, <3>2, <3>3
  <2> QED
    BY <2>1, <1>1
<1> HIDE DEF q, r
<1> QED
  BY <1>1, <1>2, <1>3

LEMMA NextPosition ==
    ASSUME NEW w \in Bin, NEW b \in Bit
    PROVE  w * Bits + b + 1 = IF b + 1 < Bits THEN w * Bits + (b + 1)
                              ELSE (w + 1) * Bits + 0
BY EackAssumption DEF Bin, Bit

\* SzTight and MaskTracks of any mask.
Tight(mask, sz) ==
    /\ \A w \in Bin : w >= sz => mask[w] = {}
    /\ sz > 0 => mask[sz - 1] # {}
Tracks(mask, S) == \A w \in Bin, b \in Bit : b \in mask[w] <=> w * Bits + b \in S

\* What NewSz is: no word at or after it is left with a bit, and the one before
\* it has one.
LEMMA NewSzCorrect ==
    ASSUME NEW mask \in [Bin -> SUBSET Bit], NEW sz \in 1..Words, Tight(mask, sz)
    PROVE  /\ NewSz(mask, sz) \in 0..Words
           /\ \A w \in Bin : w >= NewSz(mask, sz) => Shifted(mask, sz, w) = {}
           /\ NewSz(mask, sz) > 0 => Shifted(mask, sz, NewSz(mask, sz) - 1) # {}
<1> USE EackAssumption DEF Bin
<1> DEFINE top == sz - 1
<1>1. top \in Bin /\ mask[top] # {} /\ mask[top] \subseteq Bit
  BY DEF Tight
<1>2. CASE sz = 1
  <2>1. NewSz(mask, sz) = IF ShiftLeft(mask[0]) # {} THEN 1 ELSE 0
    BY <1>2 DEF NewSz
  <2>2. Shifted(mask, sz, 0) = ShiftLeft(mask[0])
    BY <1>2 DEF Shifted, CarryIn
  <2>3. \A w \in Bin : w >= 1 => Shifted(mask, sz, w) = {}
    BY <1>2 DEF Shifted, Tight
  <2> QED
    BY <2>1, <2>2, <2>3, <1>1
<1>3. CASE sz # 1
  <2>1. top \in 1..(sz - 1) /\ sz \in Nat
    BY <1>3
  <2> DEFINE P(w) == mask[w] # {} /\ \A v \in (w + 1)..(sz - 1) : mask[v] = {}
             c == CHOOSE w \in 1..(sz - 1) : P(w)
  <2>2. P(top)
    BY <1>1, <2>1
  <2>3. c \in 1..(sz - 1) /\ P(c)
    BY <2>1, <2>2
  <2>4. c = top
    BY <1>1, <2>1, <2>3
  <2>5. NewSz(mask, sz) = IF ShiftLeft(mask[top]) # {} THEN top + 1 ELSE top
    <3>1. \E w \in 1..(sz - 1) : mask[w] # {}
      BY <1>1, <2>1
    <3>2. NewSz(mask, sz) = IF ShiftLeft(mask[c]) # {} THEN c + 1 ELSE c
      BY <3>1 DEF NewSz
    <3> HIDE DEF c
    <3> QED
      BY <3>2, <2>4
  <2>6. Shifted(mask, sz, top) = ShiftLeft(mask[top])
    <3>1. CarryIn(mask, sz, top) = {}
      BY <2>1 DEF CarryIn
    <3>2. top < sz
      BY <2>1
    <3> QED
      BY <3>1, <3>2 DEF Shifted
  <2>7. \A w \in Bin : w >= sz => Shifted(mask, sz, w) = {}
    BY <2>1 DEF Shifted, Tight
  <2>8. ShiftLeft(mask[top]) = {} => Shifted(mask, sz, top - 1) # {}
    <3> SUFFICES ASSUME ShiftLeft(mask[top]) = {} PROVE Bits - 1 \in Shifted(mask, sz, top - 1)
      OBVIOUS
    <3>1. PICK b \in Bit : b \in mask[top]
      BY <1>1
    <3>2. b = 0
      <4>1. b \in Int /\ 0 <= b /\ b < Bits
        BY DEF Bit
      <4>2. b - 1 \in Bit => b - 1 \in ShiftLeft(mask[top])
        <5>1. b - 1 + 1 = b
          BY <4>1
        <5> QED
          BY <3>1, <5>1 DEF ShiftLeft
      <4> QED
        BY <4>1, <4>2 DEF Bit
    <3>3. Bits - 1 \in CarryIn(mask, sz, top - 1)
      BY <3>1, <3>2, <2>1 DEF CarryIn
    <3> QED
      BY <3>3, <2>1 DEF Shifted
  <2>9. CASE ShiftLeft(mask[top]) # {}
    BY <2>1, <2>5, <2>6, <2>7, <2>9, <1>1
  <2>10. CASE ShiftLeft(mask[top]) = {}
    <3>1. NewSz(mask, sz) = top /\ Shifted(mask, sz, top) = {} /\ Shifted(mask, sz, top - 1) # {}
      BY <2>5, <2>6, <2>8, <2>10
    <3>2. \A w \in Bin : w >= top => w = top \/ w >= sz
      BY <2>1
    <3> QED
      BY <3>1, <3>2, <2>7, <2>1, <1>1
  <2> QED
    BY <2>9, <2>10
<1> QED
  BY <1>2, <1>3

\* Shifting the words shifts what the mask is about.
LEMMA ShiftTracks ==
    ASSUME NEW mask \in [Bin -> SUBSET Bit], NEW sz \in 1..Words, Tight(mask, sz),
           NEW S \in SUBSET Offsets, Tracks(mask, S),
           NEW w \in Bin, NEW b \in Bit
    PROVE  b \in Shifted(mask, sz, w) <=> w * Bits + b + 1 \in S
<1> USE EackAssumption DEF Bin, Bit
<1>0. sz \in 1..Words /\ mask[w] \subseteq Bit
  OBVIOUS
<1>1. CASE b + 1 < Bits
  <2>1. b \in ShiftLeft(mask[w]) <=> w * Bits + (b + 1) \in S
    BY <1>1 DEF ShiftLeft, Tracks
  <2>2. b \notin CarryIn(mask, sz, w)
    BY <1>1 DEF CarryIn
  <2>3. w * Bits + b + 1 = w * Bits + (b + 1)
    BY <1>1, NextPosition
  <2>4. CASE w < sz
    <3>1. Shifted(mask, sz, w) = ShiftLeft(mask[w]) \cup CarryIn(mask, sz, w)
      BY <2>4 DEF Shifted
    <3> QED
      BY <2>1, <2>2, <2>3, <3>1
  <2>5. CASE ~(w < sz)
    <3>1. Shifted(mask, sz, w) = {} /\ ShiftLeft(mask[w]) = {}
      BY <2>5, <1>0 DEF Shifted, Tight, ShiftLeft
    <3> QED
      BY <2>1, <2>3, <3>1
  <2> QED
    BY <2>4, <2>5
<1>2. CASE b + 1 = Bits
  <2>1. Shifted(mask, sz, w) = IF w < sz THEN ShiftLeft(mask[w]) \cup CarryIn(mask, sz, w) ELSE {}
    <3>1. ~(w < sz) => mask[w] = {}
      BY <1>0 DEF Tight
    <3> QED
      BY <3>1 DEF Shifted
  <2>2. b \notin ShiftLeft(mask[w])
    BY <1>0, <1>2 DEF ShiftLeft
  <2>3. w * Bits + b + 1 = (w + 1) * Bits + 0
    BY <1>2, NextPosition
  <2>4. CASE w + 1 < Words
    <3>1. w + 1 \in Bin /\ 0 \in Bit
      BY <2>4
    <3>2. 0 \in mask[w + 1] <=> (w + 1) * Bits + 0 \in S
      BY <3>1 DEF Tracks
    <3>3. w + 1 >= sz => mask[w + 1] = {}
      BY <3>1 DEF Tight
    <3>4. b \in CarryIn(mask, sz, w) <=> 0 \in mask[w + 1]
      BY <3>1, <3>3, <1>0, <1>2 DEF CarryIn
    <3>5. w >= sz => mask[w] = {} /\ w + 1 >= sz
      BY <1>0 DEF Tight
    <3> QED
      BY <1>0, <2>1, <2>2, <2>3, <3>2, <3>3, <3>4, <3>5
  <2>5. CASE w + 1 = Words
    <3>1. (w + 1) * Bits + 0 \notin S
      BY <2>5 DEF Offsets
    <3>2. CarryIn(mask, sz, w) = {}
      BY <2>5, <1>0 DEF CarryIn
    <3> QED
      BY <2>1, <2>2, <2>3, <3>1, <3>2
  <2> QED
    BY <2>4, <2>5
<1> QED
  BY <1>1, <1>2

IInv == TypeOK /\ SzTight /\ MaskTracks

LEMMA InitEstablishes == Init => IInv
<1> SUFFICES ASSUME Init PROVE IInv
  OBVIOUS
<1>0. eack = [mask |-> Zeros, htnMask |-> Zeros, sz |-> 0] /\ more = FALSE /\ got = {}
  BY DEF Init, NoEack
<1>1. eack.sz = 0 /\ \A w \in Bin : eack.mask[w] = {}
  BY <1>0 DEF Zeros
<1>2. TypeOK
  <2>1. Zeros \in [Bin -> SUBSET Bit] /\ 0 \in 0..Words
    BY EackAssumption DEF Zeros
  <2> QED
    BY <1>0, <2>1 DEF TypeOK
<1>3. SzTight
  BY <1>1 DEF SzTight
<1>4. MaskTracks
  BY <1>0, <1>1 DEF MaskTracks
<1> QED
  BY <1>2, <1>3, <1>4 DEF IInv

LEMMA AddPreserves ==
    ASSUME IInv, NEW delta \in 1..(Words * Bits), AddRcvBuffer(delta)
    PROVE  IInv'
<1> USE EackAssumption DEF IInv
<1> DEFINE w == (delta - 1) \div Bits
           b == (delta - 1) % Bits
<1>0. delta - 1 \in Offsets /\ w \in Bin /\ b \in Bit /\ delta - 1 = w * Bits + b
  <2>1. delta - 1 \in Offsets
    BY DEF Offsets
  <2>2. PICK v \in Bin, a \in Bit : delta - 1 = v * Bits + a
    BY <2>1, PositionOf
  <2>3. w \in Int /\ b \in Bit /\ delta - 1 = w * Bits + b
    BY DEF Bit
  <2>4. w = v /\ b = a
    BY <2>2, <2>3, DivisionUnique DEF Bin, Bit
  <2> HIDE DEF w, b
  <2> QED
    BY <2>1, <2>2, <2>4
<1>1. /\ eack.mask \in [Bin -> SUBSET Bit] /\ eack.htnMask \in [Bin -> SUBSET Bit]
      /\ eack.sz \in 0..Words
  BY DEF TypeOK
<1>2. /\ eack' = [mask    |-> [eack.mask EXCEPT ![w] = eack.mask[w] \cup {b}],
                  htnMask |-> [eack.htnMask EXCEPT ![w] = eack.mask[w] \cup {b}],
                  sz      |-> IF eack.sz < w + 1 THEN w + 1 ELSE eack.sz]
      /\ got' = got \cup {delta - 1} /\ more' = more
  BY DEF AddRcvBuffer, AddRcvMsk
<1> HIDE DEF w, b
<1>3. /\ eack'.mask = [eack.mask EXCEPT ![w] = eack.mask[w] \cup {b}]
      /\ eack'.sz = IF eack.sz < w + 1 THEN w + 1 ELSE eack.sz
  BY <1>2
<1>4. TypeOK'
  BY <1>0, <1>1, <1>2 DEF TypeOK, Bin
<1>5. SzTight'
  <2>1. ASSUME NEW v \in Bin, v >= eack'.sz PROVE eack'.mask[v] = {}
    <3>1. v >= eack.sz /\ v # w
      BY <1>0, <1>1, <1>3, <2>1 DEF Bin
    <3>2. eack'.mask[v] = eack.mask[v]
      BY <1>1, <1>3, <3>1
    <3>3. eack.mask[v] = {}
      BY <3>1 DEF SzTight
    <3> QED
      BY <3>2, <3>3
  <2>2. CASE eack.sz < w + 1
    <3>1. eack'.sz = w + 1 /\ eack'.sz - 1 = w
      BY <1>0, <1>3, <2>2 DEF Bin
    <3>2. b \in eack'.mask[w]
      BY <1>0, <1>1, <1>3
    <3> QED
      BY <2>1, <3>1, <3>2 DEF SzTight
  <2>3. CASE ~(eack.sz < w + 1)
    <3>1. eack'.sz = eack.sz /\ eack.sz - 1 \in Bin /\ eack.mask[eack.sz - 1] # {}
      BY <1>0, <1>1, <1>3, <2>3 DEF SzTight, Bin
    <3>2. eack.mask[eack.sz - 1] \subseteq eack'.mask[eack.sz - 1]
      BY <1>0, <1>1, <1>3, <3>1
    <3> QED
      BY <2>1, <3>1, <3>2 DEF SzTight
  <2> QED
    BY <2>2, <2>3
<1>6. MaskTracks'
  <2> SUFFICES ASSUME NEW v \in Bin, NEW a \in Bit
               PROVE  a \in eack'.mask[v] <=> v * Bits + a \in got'
    BY DEF MaskTracks
  <2>2. a \in eack'.mask[v] <=> a \in eack.mask[v] \/ (v = w /\ a = b)
    BY <1>0, <1>1, <1>3
  <2>3. v * Bits + a \in got' <=> v * Bits + a \in got \/ v * Bits + a = w * Bits + b
    BY <1>0, <1>2
  <2>4. v * Bits + a = w * Bits + b <=> v = w /\ a = b
    BY <1>0, PositionUnique
  <2>5. a \in eack.mask[v] <=> v * Bits + a \in got
    BY DEF MaskTracks
  <2> QED
    BY <2>2, <2>3, <2>4, <2>5
<1> QED
  BY <1>4, <1>5, <1>6

LEMMA AdvancePreserves ==
    ASSUME IInv, AdvanceRcvQueue
    PROVE  IInv'
<1> USE EackAssumption DEF IInv
<1>0. /\ got' = {k \in Offsets : k + 1 \in got} /\ more' = (0 \in got)
      /\ eack' = ShiftRcvMsk(eack)
      /\ got' \subseteq Offsets /\ more' \in BOOLEAN
  BY DEF AdvanceRcvQueue
<1>1. CASE eack.sz = 0
  <2>1. eack' = eack
    BY <1>0, <1>1, SMTT(30) DEF ShiftRcvMsk
  <2>2. TypeOK' /\ SzTight'
    BY <2>1, <1>0 DEF TypeOK, SzTight
  <2>3. \A v \in Bin : eack.mask[v] = {}
    BY <1>1 DEF SzTight, Bin
  <2>4. \A k \in Offsets : k \notin got
    <3> SUFFICES ASSUME NEW k \in Offsets PROVE k \notin got
      OBVIOUS
    <3>1. PICK v \in Bin, a \in Bit : k = v * Bits + a
      BY PositionOf
    <3> QED
      BY <3>1, <2>3 DEF MaskTracks
  <2>5. got = {} /\ got' = {}
    BY <1>0, <2>4 DEF TypeOK
  <2> QED
    BY <2>1, <2>2, <2>3, <2>5 DEF MaskTracks
<1>2. CASE eack.sz # 0
  <2> DEFINE shifted == [w \in Bin |-> Shifted(eack.mask, eack.sz, w)]
             copied  == [w \in Bin |-> IF Copied(eack.mask, eack.sz, w)
                                       THEN Shifted(eack.mask, eack.sz, w) ELSE eack.htnMask[w]]
  <2>0. /\ eack.mask \in [Bin -> SUBSET Bit] /\ eack.htnMask \in [Bin -> SUBSET Bit]
        /\ eack.sz \in 1..Words /\ got \in SUBSET Offsets
        /\ Tight(eack.mask, eack.sz) /\ Tracks(eack.mask, got)
    BY <1>2 DEF TypeOK, SzTight, MaskTracks, Tight, Tracks
  <2>1. eack' = [mask |-> shifted, htnMask |-> copied, sz |-> NewSz(eack.mask, eack.sz)]
    BY <1>0, <1>2 DEF ShiftRcvMsk
  <2>2. \A w \in Bin : Shifted(eack.mask, eack.sz, w) \subseteq Bit
    BY <2>0 DEF Shifted, ShiftLeft, CarryIn, Bit
  <2>3. shifted \in [Bin -> SUBSET Bit] /\ copied \in [Bin -> SUBSET Bit]
    BY <2>0, <2>2
  <2>4. /\ NewSz(eack.mask, eack.sz) \in 0..Words
        /\ \A w \in Bin : w >= NewSz(eack.mask, eack.sz) => shifted[w] = {}
        /\ NewSz(eack.mask, eack.sz) > 0 => shifted[NewSz(eack.mask, eack.sz) - 1] # {}
    BY <2>0, NewSzCorrect DEF Bin
  <2>5. \A w \in Bin, b \in Bit : b \in shifted[w] <=> w * Bits + b + 1 \in got
    BY <2>0, ShiftTracks
  <2> HIDE DEF shifted, copied
  <2>6. TypeOK'
    BY <1>0, <2>1, <2>3, <2>4 DEF TypeOK
  <2>7. SzTight'
    BY <2>1, <2>4 DEF SzTight
  <2>8. MaskTracks'
    <3> SUFFICES ASSUME NEW w \in Bin, NEW b \in Bit
                 PROVE  b \in eack'.mask[w] <=> w * Bits + b \in got'
      BY DEF MaskTracks
    <3>1. b \in eack'.mask[w] <=> w * Bits + b + 1 \in got
      BY <2>1, <2>5
    <3>2. w * Bits + b \in Offsets
      BY PositionInRange
    <3> QED
      BY <1>0, <3>1, <3>2
  <2> QED
    BY <2>6, <2>7, <2>8
<1> QED
  BY <1>1, <1>2

\* The mask in host order is right in every state, whatever the word size and
\* the number of words.
THEOREM MaskCorrect == Spec => [](TypeOK /\ SzTight /\ MaskTracks)
<1>1. Init => IInv
  BY InitEstablishes
<1>2. IInv /\ [Next]_vars => IInv'
  <2> SUFFICES ASSUME IInv, [Next]_vars PROVE IInv'
    OBVIOUS
  <2>1. CASE AdvanceRcvQueue
    BY <2>1, AdvancePreserves
  <2>2. ASSUME NEW delta \in 1..(Words * Bits), AddRcvBuffer(delta) PROVE IInv'
    BY <2>2, AddPreserves
  <2>3. CASE UNCHANGED vars
    BY <2>3 DEF vars, IInv, TypeOK, SzTight, MaskTracks
  <2> QED
    BY <2>1, <2>2, <2>3 DEF Next
<1>3. IInv => TypeOK /\ SzTight /\ MaskTracks
  BY DEF IInv
<1> QED
  BY <1>1, <1>2, <1>3, PTL DEF Spec
=============================================================================
