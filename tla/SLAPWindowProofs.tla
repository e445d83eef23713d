-------------------------- MODULE SLAPWindowProofs --------------------------
(***************************************************************************)
(* Proofs about the SLAP window protocol, for every window size the code   *)
(* admits and any number of packets.                                       *)
(***************************************************************************)
EXTENDS SLAPWindow, TLAPS

-----------------------------------------------------------------------------
(* Arithmetic of 3-bit sequence numbers.                                   *)

\* Two packets less than eight apart that carry the same sequence number are
\* the same packet.
LEMMA SeqNumUnique ==
    ASSUME NEW m \in Int, NEW n \in Int, m - n < 8, n - m < 8,
           m % 8 = n % 8
    PROVE  m = n
OBVIOUS

\* SEQ_GT, given the numbers of two packets that are not further apart than
\* the windows on either side allow, compares the packets themselves.
LEMMA SeqGtCompares ==
    ASSUME NEW a \in Int, NEW b \in Int, a - b <= Window, b - a <= Window - 1
    PROVE  SEQ_GT(a % 8, b % 8) <=> a > b
BY WindowAssumption DEF SEQ_GT

-----------------------------------------------------------------------------
(* Sequences.                                                              *)

LEMMA ConcatProperties ==
    ASSUME NEW S, NEW s \in Seq(S), NEW t \in Seq(S)
    PROVE  /\ s \o t \in Seq(S)
           /\ Len(s \o t) = Len(s) + Len(t)
           /\ \A i \in 1..Len(s) : (s \o t)[i] = s[i]
           /\ \A i \in (Len(s) + 1)..(Len(s) + Len(t)) :
                 (s \o t)[i] = t[i - Len(s)]
OBVIOUS

\* What the type invariant says of lengths and of the packets on the wires.
LEMMA TypeFacts ==
    ASSUME TypeOK
    PROVE  /\ Len(rcvd) \in Nat /\ Len(dataWire) \in Nat /\ Len(ackWire) \in Nat
           /\ \A i \in 1..Len(dataWire) :
                 dataWire[i].n \in Nat /\ dataWire[i].seq \in 0..7
           /\ \A i \in 1..Len(ackWire) : ackWire[i].upto \in Nat
<1>1. Len(rcvd) \in Nat /\ Len(dataWire) \in Nat /\ Len(ackWire) \in Nat
  BY DEF TypeOK
<1>2. \A i \in 1..Len(dataWire) : dataWire[i] \in DataPacket
  BY DEF TypeOK
<1>3. \A i \in 1..Len(ackWire) : ackWire[i] \in AckInfo
  BY DEF TypeOK
<1> QED BY <1>1, <1>2, <1>3 DEF DataPacket, AckInfo

\* The numbers among the state and the constants.
LEMMA NumberFacts ==
    ASSUME IInv
    PROVE  /\ nxt \in Nat /\ una \in Nat /\ snt \in Nat /\ pulled \in Nat
           /\ Len(rcvd) \in Nat /\ Window \in Nat /\ 1 <= Window
<1>1. nxt \in Nat /\ una \in Nat /\ snt \in Nat /\ pulled \in Nat /\ Len(rcvd) \in Nat
  BY DEF IInv, TypeOK
<1> QED BY <1>1, WindowAssumption

-----------------------------------------------------------------------------
(* The inductive invariant.                                                *)

LEMMA InitIInv == Init => IInv
BY WindowAssumption
   DEF Init, IInv, TypeOK, WindowOrdered, AckNamesExpected, InOrder,
       WireOrdered, AcksOrdered, DataPacket, AckInfo

LEMMA PushBytesIInv == IInv /\ PushBytes => IInv'
BY WindowAssumption
   DEF PushBytes, receiverVars, IInv, TypeOK, WindowOrdered, AckNamesExpected,
       InOrder, WireOrdered, AcksOrdered, DataPacket, AckInfo

LEMMA PullBytesIInv == IInv /\ PullBytes => IInv'
<1> SUFFICES ASSUME IInv, PullBytes PROVE IInv'
  OBVIOUS
<1>1. TypeOK'
  BY DEF PullBytes, senderVars, IInv, TypeOK
<1>2. WindowOrdered'
  BY NumberFacts DEF PullBytes, senderVars, IInv, WindowOrdered
<1>3. AckNamesExpected' /\ InOrder' /\ WireOrdered' /\ AcksOrdered'
  BY DEF PullBytes, senderVars, IInv, AckNamesExpected, InOrder, WireOrdered,
         AcksOrdered
<1> QED BY <1>1, <1>2, <1>3 DEF IInv

\* The packets of a (re)transmission are appended to the wire: they are not
\* older than una, so nothing ahead of them is more than a window younger.
LEMMA DeliverIInv ==
    ASSUME IInv, NEW lo \in una..nxt, Deliver(lo)
    PROVE  IInv'
<1> DEFINE k == nxt - lo
           new == [i \in 1..k |-> Packet(lo + i - 1)]
<1>1. /\ k \in Nat
      /\ nxt \in Nat /\ una \in Nat /\ snt \in Nat /\ lo \in Nat
      /\ dataWire \in Seq(DataPacket)
  BY DEF IInv, TypeOK, WindowOrdered
<1>2. new \in Seq(DataPacket) /\ Len(new) = k
  BY <1>1 DEF Packet, DataPacket
<1>3. \A i \in 1..k : new[i].n = lo + i - 1 /\ new[i].seq = new[i].n % 8
  BY <1>1 DEF Packet
<1>4. dataWire' = dataWire \o new
  BY DEF Deliver
<1> HIDE DEF new, k
<1>5. /\ dataWire' \in Seq(DataPacket)
      /\ Len(dataWire') = Len(dataWire) + k
      /\ \A i \in 1..Len(dataWire) : dataWire'[i] = dataWire[i]
      /\ \A i \in (Len(dataWire) + 1)..(Len(dataWire) + k) :
            dataWire'[i] = new[i - Len(dataWire)]
  BY <1>1, <1>2, <1>4, ConcatProperties
<1>6. TypeOK'
  BY <1>1, <1>5 DEF Deliver, receiverVars, IInv, TypeOK
<1>7. /\ AckNamesExpected' /\ InOrder' /\ AcksOrdered'
      /\ WindowOrdered'
  <2>1. AckNamesExpected' /\ InOrder' /\ AcksOrdered'
    BY DEF Deliver, receiverVars, IInv, AckNamesExpected, InOrder, AcksOrdered
  <2>2. WindowOrdered'
    BY <1>1, TypeFacts, WindowAssumption
       DEF Deliver, receiverVars, IInv, TypeOK, WindowOrdered
  <2> QED BY <2>1, <2>2
<1>8. WireOrdered'
  <2>1. \A i \in 1..Len(dataWire') : i \notin 1..Len(dataWire) =>
            /\ i - Len(dataWire) \in 1..k
            /\ dataWire'[i].n = lo + (i - Len(dataWire)) - 1
            /\ dataWire'[i].seq = dataWire'[i].n % 8
    BY <1>1, <1>3, <1>5
  <2>2. ASSUME NEW i \in 1..Len(dataWire')
        PROVE  /\ dataWire'[i].n < snt'
               /\ dataWire'[i].seq = dataWire'[i].n % 8
               /\ Len(rcvd') <= dataWire'[i].n + Window
    <3>1. CASE i \in 1..Len(dataWire)
      BY <1>1, <1>5, <3>1, TypeFacts, WindowAssumption
         DEF Deliver, receiverVars, IInv, WindowOrdered, WireOrdered
    <3>2. CASE i \notin 1..Len(dataWire)
      <4>1. /\ dataWire'[i].n \in lo..(nxt - 1)
            /\ dataWire'[i].seq = dataWire'[i].n % 8
        <5>1. Len(dataWire) \in Nat /\ nxt \in Nat
          BY TypeFacts, NumberFacts DEF IInv
        <5> QED BY <1>1, <2>1, <3>2, <5>1 DEF k
      <4>2. snt' = nxt /\ rcvd' = rcvd
        BY DEF Deliver, receiverVars
      <4>3. Len(rcvd) <= lo + Window
        BY <1>1, TypeFacts, WindowAssumption DEF IInv, WindowOrdered
      <4> QED BY <1>1, <4>1, <4>2, <4>3, TypeFacts, WindowAssumption, SMTT(30) DEF IInv
    <3> QED BY <3>1, <3>2
  <2>3. ASSUME NEW i \in 1..Len(dataWire'), NEW j \in 1..Len(dataWire'), i < j
        PROVE  dataWire'[i].n < dataWire'[j].n + Window
    <3>1. CASE j \in 1..Len(dataWire)
      BY <1>1, <1>5, <2>3, <3>1 DEF IInv, WireOrdered
    <3>2. CASE j \notin 1..Len(dataWire) /\ i \in 1..Len(dataWire)
      <4>1. dataWire[i].n < snt /\ dataWire[i].n \in Nat
        BY <3>2, TypeFacts DEF IInv, WireOrdered
      <4>2. dataWire'[i] = dataWire[i]
        BY <1>5, <3>2
      <4>3. dataWire'[j].n \in Nat /\ lo <= dataWire'[j].n
        BY <1>1, <2>1, <3>2, TypeFacts DEF IInv
      <4> QED BY <1>1, <4>1, <4>2, <4>3, WindowAssumption, SMTT(30) DEF IInv, WindowOrdered
    <3>3. CASE j \notin 1..Len(dataWire) /\ i \notin 1..Len(dataWire)
      <4>1. /\ dataWire'[i].n = lo + (i - Len(dataWire)) - 1
            /\ dataWire'[j].n = lo + (j - Len(dataWire)) - 1
        BY <2>1, <3>3
      <4>2. i \in Int /\ j \in Int /\ Len(dataWire) \in Int
        BY <1>1, <1>5, TypeFacts DEF IInv
      <4> QED BY <1>1, <2>3, <4>1, <4>2, WindowAssumption
    <3> QED BY <3>1, <3>2, <3>3
  <2> QED BY <2>2, <2>3 DEF WireOrdered
<1> QED BY <1>6, <1>7, <1>8 DEF IInv

\* Losing the packet at the head of the data wire keeps the invariant; so
\* does receiving it, as far as the rest of the wire is concerned.
LEMMA TailDataWire ==
    ASSUME TypeOK, dataWire # << >>, dataWire' = Tail(dataWire)
    PROVE  /\ dataWire' \in Seq(DataPacket)
           /\ Len(dataWire') = Len(dataWire) - 1
           /\ \A i \in 1..Len(dataWire') : dataWire'[i] = dataWire[i + 1]
           /\ Head(dataWire) = dataWire[1]
           /\ 1 \in 1..Len(dataWire)
BY DEF TypeOK

LEMMA TailAckWire ==
    ASSUME TypeOK, ackWire # << >>, ackWire' = Tail(ackWire)
    PROVE  /\ ackWire' \in Seq(AckInfo)
           /\ Len(ackWire') = Len(ackWire) - 1
           /\ \A i \in 1..Len(ackWire') : ackWire'[i] = ackWire[i + 1]
           /\ Head(ackWire) = ackWire[1]
           /\ 1 \in 1..Len(ackWire)
BY DEF TypeOK

LEMMA LoseDataIInv == IInv /\ LoseData => IInv'
<1> SUFFICES ASSUME IInv, LoseData PROVE IInv'
  OBVIOUS
<1>1. TypeOK' /\ WindowOrdered' /\ AckNamesExpected' /\ InOrder' /\ AcksOrdered'
  BY TailDataWire
     DEF LoseData, senderVars, receiverVars, IInv, TypeOK, WindowOrdered,
         AckNamesExpected, InOrder, AcksOrdered
<1>2. WireOrdered'
  BY TailDataWire DEF LoseData, senderVars, receiverVars, IInv, TypeOK, WireOrdered
<1> QED BY <1>1, <1>2 DEF IInv

LEMMA LoseAckIInv == IInv /\ LoseAck => IInv'
<1> SUFFICES ASSUME IInv, LoseAck PROVE IInv'
  OBVIOUS
<1>1. TypeOK' /\ WindowOrdered' /\ AckNamesExpected' /\ InOrder' /\ WireOrdered'
  BY TailAckWire
     DEF LoseAck, senderVars, receiverVars, IInv, TypeOK, WindowOrdered,
         AckNamesExpected, InOrder, WireOrdered
<1>2. AcksOrdered'
  BY TailAckWire DEF LoseAck, senderVars, receiverVars, IInv, TypeOK, AcksOrdered
<1> QED BY <1>1, <1>2 DEF IInv

\* An ack releases exactly the packets before the one it names.
LEMMA ReceiveAckIInv == IInv /\ ReceiveAck => IInv'
<1> SUFFICES ASSUME IInv, ReceiveAck PROVE IInv'
  OBVIOUS
<1> DEFINE a == Head(ackWire).upto
<1>1. /\ a \in Nat /\ una \in Nat /\ snt \in Nat
      /\ Head(ackWire).ack = a % 8
      /\ una <= a /\ a <= Len(rcvd)
  <2>1. Head(ackWire) = ackWire[1] /\ 1 \in 1..Len(ackWire)
    BY TailAckWire DEF ReceiveAck, IInv
  <2> QED BY <2>1, TypeFacts DEF IInv, TypeOK, AcksOrdered
<1>2. a <= snt /\ snt <= una + Window
  BY <1>1, TypeFacts, WindowAssumption DEF IInv, TypeOK, WindowOrdered
<1> HIDE DEF a
<1>3. PICK u \in una..snt :
            /\ \A j \in una..(u - 1) : SEQ_GT(a % 8, j % 8)
            /\ u < snt => ~SEQ_GT(a % 8, u % 8)
            /\ una' = u
  BY <1>1 DEF ReceiveAck, ProcessAckNum
<1>4. u >= a
  <2>1. CASE u = snt
    BY <1>1, <1>2, <2>1
  <2>2. CASE u < snt
    BY <1>1, <1>2, <1>3, <2>2, SeqGtCompares, WindowAssumption
  <2> QED BY <1>1, <2>1, <2>2
<1>5. u <= a
  <2>1. CASE u = una
    BY <1>1, <2>1
  <2>2. CASE u > una
    <3>1. u - 1 \in una..(u - 1) /\ u - 1 \in Int
      BY <1>1, <2>2
    <3>2. SEQ_GT(a % 8, (u - 1) % 8)
      BY <1>3, <3>1
    <3>3. a - (u - 1) <= Window /\ (u - 1) - a <= Window - 1
      BY <1>1, <1>2, <2>2, WindowAssumption
    <3>4. a > u - 1
      <4>1. a \in Int
        BY <1>1
      <4> DEFINE b == u - 1
      <4> HIDE DEF b
      <4>2. b \in Int /\ a - b <= Window /\ b - a <= Window - 1 /\ SEQ_GT(a % 8, b % 8)
        BY <3>1, <3>2, <3>3 DEF b
      <4>3. a > b
        BY <4>1, <4>2, SeqGtCompares
      <4> QED BY <4>3 DEF b
    <3> QED BY <1>1, <3>1, <3>4
  <2> QED BY <1>1, <2>1, <2>2
<1>6. una' = a
  BY <1>1, <1>3, <1>4, <1>5
<1>7. /\ ackWire' \in Seq(AckInfo)
      /\ Len(ackWire') = Len(ackWire) - 1
      /\ \A i \in 1..Len(ackWire') : ackWire'[i] = ackWire[i + 1]
      /\ 1 \in 1..Len(ackWire) /\ a = ackWire[1].upto
  BY TailAckWire DEF a, ReceiveAck, IInv
<1>8. TypeOK'
  BY <1>1, <1>6, <1>7 DEF ReceiveAck, receiverVars, IInv, TypeOK
<1>9. WindowOrdered'
  BY <1>1, <1>2, <1>6, TypeFacts, WindowAssumption
     DEF ReceiveAck, receiverVars, IInv, TypeOK, WindowOrdered
<1>10. AckNamesExpected' /\ InOrder' /\ WireOrdered'
  BY DEF ReceiveAck, receiverVars, IInv, AckNamesExpected, InOrder, WireOrdered
<1>11. AcksOrdered'
  <2>1. \A i \in 1..Len(ackWire') : i + 1 \in 1..Len(ackWire) /\ 1 < i + 1
    BY <1>7, TypeFacts DEF IInv
  <2>2. rcvd' = rcvd
    BY DEF ReceiveAck, receiverVars
  <2>3. \A i, j \in 1..Len(ackWire') :
            i < j => ackWire[i + 1].upto <= ackWire[j + 1].upto
    <3>1. \A i, j \in 1..Len(ackWire') : i < j => i + 1 < j + 1
      BY <1>7, TypeFacts DEF IInv
    <3> QED BY <2>1, <3>1 DEF IInv, AcksOrdered
  <2>4. \A i \in 1..Len(ackWire') :
            /\ ackWire[i + 1].ack = ackWire[i + 1].upto % 8
            /\ a <= ackWire[i + 1].upto /\ ackWire[i + 1].upto <= Len(rcvd)
    BY <1>7, <2>1 DEF IInv, AcksOrdered
  <2> QED
    BY <1>6, <1>7, <2>2, <2>3, <2>4 DEF AcksOrdered
<1> QED BY <1>8, <1>9, <1>10, <1>11 DEF IInv

LEMMA SendAckIInv ==
    ASSUME IInv, NEW k \in Nat, SendAck(k)
    PROVE  IInv'
<1> DEFINE info == [ack |-> currentTxAck, upto |-> Len(rcvd)]
           new  == [i \in 1..k |-> info]
<1>1. info \in AckInfo /\ info.ack = info.upto % 8 /\ info.upto = Len(rcvd)
  BY TypeFacts DEF IInv, TypeOK, AckNamesExpected, AckInfo
<1>2. /\ new \in Seq(AckInfo) /\ Len(new) = k /\ ackWire \in Seq(AckInfo)
      /\ \A i \in 1..k : new[i] = info
  BY <1>1 DEF IInv, TypeOK
<1>3. ackWire' = ackWire \o new
  BY DEF SendAck
<1> HIDE DEF new, info
<1>4. /\ ackWire' \in Seq(AckInfo)
      /\ Len(ackWire') = Len(ackWire) + k
      /\ \A i \in 1..Len(ackWire) : ackWire'[i] = ackWire[i]
      /\ \A i \in 1..Len(ackWire') :
            i \notin 1..Len(ackWire) => ackWire'[i] = info
  <2>1. /\ ackWire' \in Seq(AckInfo)
        /\ Len(ackWire') = Len(ackWire) + k
        /\ \A i \in 1..Len(ackWire) : ackWire'[i] = ackWire[i]
        /\ \A i \in (Len(ackWire) + 1)..(Len(ackWire) + k) :
              ackWire'[i] = new[i - Len(ackWire)]
    BY <1>2, <1>3, ConcatProperties
  <2>2. \A i \in 1..Len(ackWire') : i \notin 1..Len(ackWire) =>
            /\ i \in (Len(ackWire) + 1)..(Len(ackWire) + k)
            /\ i - Len(ackWire) \in 1..k
    BY <1>2, <2>1
  <2> QED BY <1>2, <2>1, <2>2
<1>5. TypeOK' /\ WindowOrdered' /\ AckNamesExpected' /\ InOrder' /\ WireOrdered'
  BY <1>4
     DEF SendAck, senderVars, receiverVars, IInv, TypeOK, WindowOrdered,
         AckNamesExpected, InOrder, WireOrdered
<1>6. AcksOrdered'
  <2>1. \A i \in 1..Len(ackWire') :
            /\ ackWire'[i].ack = ackWire'[i].upto % 8
            /\ una <= ackWire'[i].upto /\ ackWire'[i].upto <= Len(rcvd)
    <3>1. una <= Len(rcvd) /\ Len(rcvd) \in Nat
      BY TypeFacts DEF IInv, WindowOrdered
    <3>2. ASSUME NEW i \in 1..Len(ackWire')
          PROVE  /\ ackWire'[i].ack = ackWire'[i].upto % 8
                 /\ una <= ackWire'[i].upto /\ ackWire'[i].upto <= Len(rcvd)
      <4>1. CASE i \in 1..Len(ackWire)
        BY <1>4, <4>1 DEF IInv, AcksOrdered
      <4>2. CASE i \notin 1..Len(ackWire)
        BY <1>1, <1>4, <3>1, <4>2
      <4> QED BY <4>1, <4>2
    <3> QED BY <3>2
  <2>2. ASSUME NEW i \in 1..Len(ackWire'), NEW j \in 1..Len(ackWire'), i < j
        PROVE  ackWire'[i].upto <= ackWire'[j].upto
    <3>1. CASE j \in 1..Len(ackWire)
      <4>1. i \in 1..Len(ackWire)
        BY <1>2, <2>2, <3>1
      <4> QED BY <1>4, <2>2, <3>1, <4>1 DEF IInv, AcksOrdered
    <3>2. CASE j \notin 1..Len(ackWire)
      BY <1>1, <1>4, <2>1, <3>2
    <3> QED BY <3>1, <3>2
  <2> QED BY <2>1, <2>2 DEF SendAck, senderVars, receiverVars, AcksOrdered
<1> QED BY <1>5, <1>6 DEF IInv

\* The packet at the head of the wire is accepted only if it is the next one;
\* an older one leaves currentTxAck alone.
LEMMA ReceiveDataIInv == IInv /\ ReceiveData => IInv'
<1> SUFFICES ASSUME IInv, ReceiveData PROVE IInv'
  OBVIOUS
<1> DEFINE p == Head(dataWire)
           r == Len(rcvd)
<1>1. /\ p \in DataPacket /\ p.n \in Nat /\ p.seq = p.n % 8
      /\ p = dataWire[1]
      /\ p.n < snt /\ r <= p.n + Window
      /\ r \in Nat /\ expectedSeq = r % 8 /\ currentTxAck = r % 8
  <2>1. p = dataWire[1] /\ 1 \in 1..Len(dataWire)
    BY TailDataWire DEF ReceiveData, IInv
  <2>2. dataWire[1] \in DataPacket
    BY <2>1 DEF IInv, TypeOK
  <2> QED BY <2>1, <2>2, TypeFacts DEF IInv, WireOrdered, AckNamesExpected
<1>2. p.n < r + Window
  BY <1>1, TypeFacts, WindowAssumption DEF IInv, TypeOK, WindowOrdered
<1>3. p.seq = expectedSeq => p.n = r
  BY <1>1, <1>2, SeqNumUnique, WindowAssumption
<1>4. /\ dataWire' \in Seq(DataPacket)
      /\ Len(dataWire') = Len(dataWire) - 1
      /\ \A i \in 1..Len(dataWire') : dataWire'[i] = dataWire[i + 1]
      /\ \A i \in 1..Len(dataWire') : p.n < dataWire'[i].n + Window
  <2>1. \A i \in 1..Len(dataWire') : i + 1 \in 1..Len(dataWire) /\ 1 < i + 1
    BY TailDataWire DEF ReceiveData, IInv, TypeOK
  <2> QED
    BY <1>1, <2>1, TailDataWire DEF ReceiveData, IInv, WireOrdered
<1> HIDE DEF p
<1>5. CASE ReceiveExpected(p)
  <2>1. p.n = r
    BY <1>3, <1>5 DEF ReceiveExpected
  <2>2. ~SEQ_GT(currentTxAck, p.seq)
    BY <1>1, <2>1, SeqGtCompares, WindowAssumption
  <2>3. rcvd' = Append(rcvd, r) /\ rcvd \in Seq(Nat)
    BY <1>5, <2>1 DEF ReceiveExpected, IInv, TypeOK
  <2>4. /\ rcvd' \in Seq(Nat) /\ Len(rcvd') = r + 1 /\ rcvd'[r + 1] = r
        /\ \A i \in 1..r : rcvd'[i] = rcvd[i]
    BY <1>1, <2>3
  <2>5. expectedSeq' = (r + 1) % 8 /\ currentTxAck' = (r + 1) % 8
    BY <1>1, <1>5, <2>1, <2>2 DEF ReceiveExpected, ProcessDataSeqNum
  <2> HIDE DEF r
  <2>6. TypeOK'
    BY <1>1, <1>4, <2>4, <2>5 DEF ReceiveData, senderVars, IInv, TypeOK
  <2>7. WindowOrdered' /\ AckNamesExpected'
    <3>1. r < pulled + Window /\ r < snt
      BY <1>1, <1>5, <2>1, WindowAssumption
         DEF r, ReceiveExpected, RxFree, IInv, TypeOK
    <3> QED
      <4>1. UNCHANGED <<nxt, una, snt, pulled>>
        BY DEF ReceiveData, senderVars
      <4>2. /\ una \in Nat /\ snt \in Nat /\ nxt \in Nat /\ pulled \in Nat
            /\ r \in Nat /\ Window \in Nat
            /\ una <= r /\ snt <= nxt /\ nxt <= una + Window /\ pulled <= r
        BY <1>1, WindowAssumption DEF r, IInv, TypeOK, WindowOrdered
      <4>3. WindowOrdered'
        BY <2>4, <3>1, <4>1, <4>2 DEF WindowOrdered
      <4> QED BY <2>4, <2>5, <4>3 DEF AckNamesExpected
  <2>8. InOrder'
    <3>1. \A i \in 1..r : rcvd[i] = i - 1
      BY DEF r, IInv, InOrder
    <3>2. \A i \in 1..(r + 1) : i \in 1..r \/ i = r + 1
      BY <1>1
    <3>3. \A i \in 1..(r + 1) : rcvd'[i] = i - 1
      BY <1>1, <2>4, <3>1, <3>2
    <3> QED BY <2>4, <3>3 DEF InOrder
  <2>9. AcksOrdered'
    <3>1. \A i \in 1..Len(ackWire) : ackWire[i].upto <= r + 1
      BY <1>1, TypeFacts DEF r, IInv, AcksOrdered
    <3> QED BY <2>4, <3>1 DEF ReceiveData, senderVars, IInv, AcksOrdered
  <2>10. WireOrdered'
    <3>1. \A i \in 1..Len(dataWire') :
              i + 1 \in 1..Len(dataWire) /\ dataWire[i + 1].n \in Nat
      BY <1>4, TypeFacts DEF IInv
    <3>2. \A i \in 1..Len(dataWire') : r + 1 <= dataWire'[i].n + Window
      <4>1. r \in Nat /\ Window \in Nat
        BY <1>1, WindowAssumption
      <4>2. \A i \in 1..Len(dataWire') :
                dataWire'[i].n \in Nat /\ r < dataWire'[i].n + Window
        BY <1>4, <2>1, <3>1
      <4> QED BY <4>1, <4>2
    <3>3. \A i, j \in 1..Len(dataWire') :
              i < j => dataWire'[i].n < dataWire'[j].n + Window
      <4>1. \A i, j \in 1..Len(dataWire') : i < j => i + 1 < j + 1
        BY <1>4, TypeFacts DEF IInv
      <4>2. \A i, j \in 1..Len(dataWire') :
                i < j => dataWire[i + 1].n < dataWire[j + 1].n + Window
        BY <3>1, <4>1 DEF IInv, WireOrdered
      <4> QED BY <1>4, <4>2
    <3> QED
      BY <1>4, <2>4, <3>1, <3>2, <3>3
         DEF ReceiveData, senderVars, IInv, WireOrdered
  <2> QED BY <2>6, <2>7, <2>8, <2>9, <2>10 DEF IInv
<1>6. CASE ReceiveRepeated(p) \/ ReceiveIgnored(p)
  <2>1. currentTxAck' = currentTxAck
    <3>1. CASE ReceiveRepeated(p)
      <4>1. p.n # r /\ ~SEQ_GT(p.n % 8, r % 8)
        BY <1>1, <3>1 DEF ReceiveRepeated
      <4>2. p.n < r
        <5>1. CASE p.n > r
          BY <1>1, <1>2, <4>1, <5>1, SeqGtCompares, WindowAssumption
        <5> QED BY <1>1, <4>1, <5>1
      <4>3. SEQ_GT(currentTxAck, p.seq)
        <5>1. /\ r \in Int /\ p.n \in Int
              /\ r - p.n <= Window /\ p.n - r <= Window - 1
          BY <1>1, <4>2, WindowAssumption, SMTT(30)
        <5>2. SEQ_GT(r % 8, p.n % 8)
          BY <4>2, <5>1, SeqGtCompares
        <5> QED BY <1>1, <5>2
      <4> QED BY <3>1, <4>3 DEF ReceiveRepeated, ProcessDataSeqNum
    <3>2. CASE ReceiveIgnored(p)
      BY <3>2 DEF ReceiveIgnored
    <3> QED BY <1>6, <3>1, <3>2
  <2>2. rcvd' = rcvd /\ expectedSeq' = expectedSeq
    BY <1>6 DEF ReceiveRepeated, ReceiveIgnored
  <2>3. TypeOK' /\ WindowOrdered' /\ AckNamesExpected' /\ InOrder' /\ AcksOrdered'
    BY <1>4, <2>1, <2>2
       DEF ReceiveData, senderVars, IInv, TypeOK, WindowOrdered,
           AckNamesExpected, InOrder, AcksOrdered
  <2>4. WireOrdered'
    <3>1. \A i \in 1..Len(dataWire') : i + 1 \in 1..Len(dataWire)
      BY <1>4, TypeFacts DEF IInv
    <3>2. \A i, j \in 1..Len(dataWire') :
              i < j => dataWire'[i].n < dataWire'[j].n + Window
      <4>1. \A i, j \in 1..Len(dataWire') : i < j => i + 1 < j + 1
        BY <1>4, TypeFacts DEF IInv
      <4>2. \A i, j \in 1..Len(dataWire') :
                i < j => dataWire[i + 1].n < dataWire[j + 1].n + Window
        BY <3>1, <4>1 DEF IInv, WireOrdered
      <4> QED BY <1>4, <4>2
    <3> QED
      BY <1>4, <2>2, <3>1, <3>2 DEF ReceiveData, senderVars, IInv, WireOrdered
  <2> QED BY <2>3, <2>4 DEF IInv
<1> QED BY <1>5, <1>6 DEF ReceiveData, p

LEMMA NextIInv == IInv /\ [Next]_vars => IInv'
<1> SUFFICES ASSUME IInv, [Next]_vars PROVE IInv'
  OBVIOUS
<1>1. CASE PushBytes BY <1>1, PushBytesIInv
<1>2. CASE TransmitToLink
  BY <1>2, DeliverIInv DEF TransmitToLink, IInv, TypeOK, WindowOrdered
<1>3. CASE ResendData
  BY <1>3, DeliverIInv DEF ResendData, IInv, TypeOK, WindowOrdered
<1>4. CASE ReceiveAck BY <1>4, ReceiveAckIInv
<1>5. CASE ReceiveData BY <1>5, ReceiveDataIInv
<1>6. CASE PullBytes BY <1>6, PullBytesIInv
<1>7. CASE \E k \in 1..(Window + 1) : SendAck(k)
  <2>1. PICK k \in 1..(Window + 1) : SendAck(k)
    BY <1>7
  <2> QED BY <2>1, SendAckIInv, WindowAssumption
<1>8. CASE LoseData BY <1>8, LoseDataIInv
<1>9. CASE LoseAck BY <1>9, LoseAckIInv
<1>10. CASE UNCHANGED vars
  BY <1>10
     DEF vars, senderVars, receiverVars, IInv, TypeOK, WindowOrdered,
         AckNamesExpected, InOrder, WireOrdered, AcksOrdered
<1> QED
  BY <1>1, <1>2, <1>3, <1>4, <1>5, <1>6, <1>7, <1>8, <1>9, <1>10 DEF Next

-----------------------------------------------------------------------------
(* The theorems.                                                           *)

\* Every state SLAPStream reaches on an active link satisfies the inductive
\* invariant.
THEOREM Invariance == Spec => []IInv
<1> QED BY InitIInv, NextIInv, PTL DEF Spec

\* Type correctness of the lists, counters and 3-bit numbers of SLAPStream.
THEOREM TypeCorrect == Spec => []TypeOK
<1>1. IInv => TypeOK
  BY DEF IInv
<1> QED BY <1>1, Invariance, PTL

\* ReadEventTriggered puts on m_rxQueue exactly the packets pushed by the
\* other end, in order, whatever the link loses and however often the
\* resend alarm fires.
THEOREM InOrderDelivery == Spec => []InOrder
<1>1. IInv => InOrder
  BY DEF IInv
<1> QED BY <1>1, Invariance, PTL

\* ProcessAckNum never releases a packet the other end has not queued.
THEOREM NoEarlyRelease == Spec => []AckedIsReceived
<1>1. IInv => AckedIsReceived
  BY DEF IInv, WindowOrdered, AckedIsReceived
<1> QED BY <1>1, Invariance, PTL

\* Every data packet in flight is within a window of the packet expected, so
\* the eight sequence numbers tell them apart: this is what bounds the
\* window to 4.
THEOREM WireStaysNear == Spec => []WireNearExpected
<1>1. IInv => WireNearExpected
  <2> SUFFICES ASSUME IInv, NEW i \in 1..Len(dataWire)
               PROVE  /\ dataWire[i].n < Len(rcvd) + Window
                      /\ Len(rcvd) <= dataWire[i].n + Window
    BY DEF WireNearExpected
  <2>1. dataWire[i].n < snt /\ Len(rcvd) <= dataWire[i].n + Window
    BY DEF IInv, WireOrdered
  <2>2. snt <= Len(rcvd) + Window
    BY TypeFacts, WindowAssumption DEF IInv, TypeOK, WindowOrdered
  <2> QED BY <2>1, <2>2, TypeFacts, WindowAssumption DEF IInv, TypeOK
<1> QED BY <1>1, Invariance, PTL

\* PushBytes and ReadEventTriggered, with everything between them, implement
\* the abstract stream.
THEOREM Refinement == Spec => ImplementsStream
<1>1. Init => Stream!Init
  BY DEF Init, Stream!Init
<1>2. IInv /\ [Next]_vars => [Stream!Next]_<<nxt, rcvd>>
  <2> SUFFICES ASSUME IInv, [Next]_vars PROVE [Stream!Next]_<<nxt, rcvd>>
    OBVIOUS
  <2>1. CASE PushBytes
    BY <2>1 DEF PushBytes, receiverVars, Stream!Next, Stream!Push
  <2>2. CASE ReceiveData
    <3> DEFINE p == Head(dataWire)
    <3>1. CASE ReceiveExpected(p)
      <4>1. /\ p.n \in Nat /\ Len(rcvd) \in Nat
            /\ p.n < Len(rcvd) + Window /\ Len(rcvd) <= p.n + Window
            /\ p.n % 8 = Len(rcvd) % 8 /\ p.n < nxt
        <5>1. p = dataWire[1] /\ 1 \in 1..Len(dataWire)
          BY <2>2, TailDataWire DEF ReceiveData, IInv
        <5>2. /\ p.n < snt /\ Len(rcvd) <= p.n + Window
              /\ p.n \in Nat /\ Len(rcvd) \in Nat
              /\ p.n % 8 = Len(rcvd) % 8
          BY <3>1, <5>1, TypeFacts
             DEF ReceiveExpected, IInv, WireOrdered, AckNamesExpected
        <5>3. snt <= nxt /\ snt <= Len(rcvd) + Window
          BY TypeFacts, WindowAssumption DEF IInv, TypeOK, WindowOrdered
        <5> QED BY <5>2, <5>3, WindowAssumption DEF IInv, TypeOK
      <4>2. p.n = Len(rcvd)
        BY <4>1, SeqNumUnique, WindowAssumption
      <4> QED
        BY <2>2, <3>1, <4>1, <4>2
           DEF ReceiveData, senderVars, ReceiveExpected, Stream!Next, Stream!Deliver
    <3>2. CASE ReceiveRepeated(p) \/ ReceiveIgnored(p)
      BY <2>2, <3>2 DEF ReceiveData, senderVars, ReceiveRepeated, ReceiveIgnored
    <3> QED BY <2>2, <3>1, <3>2 DEF ReceiveData
  <2>3. CASE TransmitToLink \/ ResendData \/ ReceiveAck \/ PullBytes
             \/ (\E k \in 1..(Window + 1) : SendAck(k)) \/ LoseData \/ LoseAck
    BY <2>3 DEF TransmitToLink, ResendData, Deliver, ReceiveAck, PullBytes,
                SendAck, LoseData, LoseAck, senderVars, receiverVars
  <2>4. CASE UNCHANGED vars
    BY <2>4 DEF vars, senderVars, receiverVars
  <2> QED BY <2>1, <2>2, <2>3, <2>4 DEF Next
<1> QED BY <1>1, <1>2, Invariance, PTL DEF Spec, ImplementsStream, Stream!Spec

=============================================================================
