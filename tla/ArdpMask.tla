------------------------------ MODULE ArdpMask ------------------------------
(***************************************************************************)
(* The EACK bit mask of alljoyn_core/router/ArdpProtocol.cc, word by word. *)
(* The receiver keeps the segments that arrived after a gap in the words   *)
(* of mask, of which the first sz are in use; htnMask is the copy in       *)
(* network order that goes into every segment with the flag EACK.  A word  *)
(* is the set of its one bits, counted from the most significant one, so   *)
(* that bit b of word w stands for segment rcv.CUR + 2 + w * Bits + b.     *)
(***************************************************************************)
EXTENDS Integers

CONSTANTS
    Bits,    \* bits of a word, 32 in the code
    Words    \* words of the mask: (SEGMAX + 31) >> 5

ASSUME EackAssumption == Bits \in Nat \ {0} /\ Words \in Nat \ {0}

Bin   == 0..(Words - 1)
Bit   == 0..(Bits - 1)
Zeros == [w \in Bin |-> {}]

NoEack == [mask |-> Zeros, htnMask |-> Zeros, sz |-> 0]

\* The segment rcv.CUR + 1 + delta arrived although rcv.CUR + 1 did not.
AddRcvMsk(e, delta) ==
    LET bin  == (delta - 1) \div Bits
        word == e.mask[bin] \cup {(delta - 1) % Bits}
    IN  [mask    |-> [e.mask EXCEPT ![bin] = word],
         htnMask |-> [e.htnMask EXCEPT ![bin] = word],
         sz      |-> IF e.sz < bin + 1 THEN bin + 1 ELSE e.sz]

\* One bit to the left; the top bit of the next word, if it is in use, moves in.
ShiftLeft(word) == {b \in Bit : b + 1 \in word}
CarryIn(mask, sz, w) == IF w + 1 < sz /\ 0 \in mask[w + 1] THEN {Bits - 1} ELSE {}

\* Variant for mutation: the bits that leave a word are lost.
ShiftedAlone(mask, sz, w) == IF w < sz THEN ShiftLeft(mask[w]) ELSE mask[w]

Shifted(mask, sz, w) ==
    IF w < sz THEN ShiftLeft(mask[w]) \cup CarryIn(mask, sz, w) ELSE mask[w]

\* newSz: the loop sets it at each word that is not zero, so the last one counts.
NewSz(mask, sz) ==
    IF \E w \in 1..(sz - 1) : mask[w] # {}
    THEN LET top == CHOOSE w \in 1..(sz - 1) :
                       mask[w] # {} /\ \A v \in (w + 1)..(sz - 1) : mask[v] = {}
         IN  IF ShiftLeft(mask[top]) # {} THEN top + 1 ELSE top
    ELSE IF ShiftLeft(mask[0]) # {} THEN 1 ELSE 0

\* The words copied to htnMask: the one before each word that is not zero (the
\* loop skips the others with "continue"), and the last one after the loop.
Copied(mask, sz, w) == \/ w + 1 < sz /\ mask[w + 1] # {}
                       \/ w + 1 = sz

\* rcv.CUR is about to move by one segment.
ShiftRcvMsk(e) ==
    IF e.sz = 0 THEN e
    ELSE [mask    |-> [w \in Bin |-> Shifted(e.mask, e.sz, w)],
          htnMask |-> [w \in Bin |-> IF Copied(e.mask, e.sz, w)
                                     THEN Shifted(e.mask, e.sz, w) ELSE e.htnMask[w]],
          sz      |-> NewSz(e.mask, e.sz)]
=============================================================================
