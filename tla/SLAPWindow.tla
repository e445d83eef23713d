----------------------------- MODULE SLAPWindow -----------------------------
(***************************************************************************)
(* The window protocol of qcc::SLAPStream (common/src/SLAPStream.cc) on an *)
(* active link, in one direction: the data packets one end pushes, and the *)
(* acknowledgements that come back from the other end.  Both ends of a     *)
(* link run it, once as the sender and once as the receiver.               *)
(*                                                                         *)
(* The raw UART stream keeps the order of what is written to it, but a     *)
(* packet whose CRC does not match is discarded, so the two wires are      *)
(* lossy FIFO queues.  Packets are numbered 0, 1, 2, ... in the order      *)
(* PushBytes queues them; that number stands for the payload.  What the    *)
(* code sees of it is the 3-bit sequence number of the header.             *)
(*                                                                         *)
(* m_txSent holds the packets una .. snt-1 and the data packets of         *)
(* m_txQueue are snt .. nxt-1: the lists are only ever appended to at the  *)
(* back, popped at the front, and spliced as a whole by the resend alarm.  *)
(***************************************************************************)
EXTENDS Integers, Sequences

CONSTANTS Window,       \* m_linkParams.windowSize, agreed at negotiation
          MaxData,      \* bound: packets pushed in a behaviour
          MaxWire       \* bound: packets in flight in each direction

\* The constructor and the negotiation admit the sizes 1, 2 and 4.
ASSUME WindowAssumption == /\ Window \in 1..4
                           /\ MaxData \in Nat
                           /\ MaxWire \in Nat

VARIABLES
    nxt,           \* packets pushed so far; m_txSeqNum is nxt % 8
    una,           \* oldest packet not yet acknowledged
    snt,           \* first packet that was not yet delivered to the link
    dataWire,      \* data packets on the wire: [n, seq]
    rcvd,          \* payloads put on m_rxQueue so far, in order
    pulled,        \* how many of them PullBytes has returned
    expectedSeq,   \* m_expectedSeq of the receiver
    currentTxAck,  \* m_currentTxAck of the receiver
    ackWire        \* packets that carry an ack: [ack, upto]

senderVars   == <<nxt, una, snt>>
receiverVars == <<rcvd, pulled, expectedSeq, currentTxAck>>
vars == <<senderVars, receiverVars, dataWire, ackWire>>

-----------------------------------------------------------------------------
(* Relative order of two sequence numbers, modulo 8.                       *)
SEQ_GT(s1, s2) == (7 + s1 - s2) % 8 < Window

Packet(n) == [n |-> n, seq |-> n % 8]

\* m_rxFreeList starts with windowSize buffers; each packet on m_rxQueue has
\* taken one.
RxFree == Window - (Len(rcvd) - pulled)

Init ==
    /\ nxt = 0 /\ una = 0 /\ snt = 0
    /\ rcvd = << >> /\ pulled = 0
    /\ expectedSeq = 0 /\ currentTxAck = 0
    /\ dataWire = << >> /\ ackWire = << >>

-----------------------------------------------------------------------------
(* Sender.                                                                 *)

\* A free packet is taken from m_txFreeList, numbered and queued.
PushBytes ==
    /\ nxt - una < Window
    /\ nxt < MaxData
    /\ nxt' = nxt + 1
    /\ UNCHANGED <<una, snt, receiverVars, dataWire, ackWire>>

\* Packets lo .. nxt-1 go out in order and join m_txSent.
Deliver(lo) ==
    /\ Len(dataWire) + (nxt - lo) <= MaxWire
    /\ dataWire' = dataWire \o [i \in 1..(nxt - lo) |-> Packet(lo + i - 1)]
    /\ snt' = nxt
    /\ UNCHANGED <<nxt, una, receiverVars, ackWire>>

\* SEND_DATA_ALARM.
TransmitToLink == snt < nxt /\ Deliver(snt)

\* RESEND_DATA_ALARM: everything unacknowledged is sent again, in order.
ResendData == una < snt /\ Deliver(una)

\* Variant for mutation: the packet the receiver expects next counts as acked.
ProcessAckNumInclusive(ack) ==
    \E u \in una..snt :
        /\ \A j \in una..(u - 1) : SEQ_GT((ack + 1) % 8, j % 8)
        /\ u < snt => ~SEQ_GT((ack + 1) % 8, u % 8)
        /\ una' = u

\* An ack releases the packets at the head of m_txSent that SEQ_GT says are
\* older, and stops at the first that is not.
ProcessAckNum(ack) ==
    \E u \in una..snt :
        /\ \A j \in una..(u - 1) : SEQ_GT(ack, j % 8)
        /\ u < snt => ~SEQ_GT(ack, u % 8)
        /\ una' = u

ReceiveAck ==
    /\ ackWire # << >>
    /\ ProcessAckNum(Head(ackWire).ack)
    /\ ackWire' = Tail(ackWire)
    /\ UNCHANGED <<nxt, snt, receiverVars, dataWire>>

-----------------------------------------------------------------------------
(* Receiver.                                                               *)

\* Variant for mutation: a repeated packet takes the ack number back.
ProcessDataSeqNumAlways(seq) == currentTxAck' = (seq + 1) % 8

\* The acknowledged number never goes back.
ProcessDataSeqNum(seq) ==
    currentTxAck' = IF SEQ_GT(currentTxAck, seq) THEN currentTxAck
                                                 ELSE (seq + 1) % 8

\* Variant for mutation: the sequence number does not advance.
ReceiveExpectedStuck(p) ==
    /\ p.seq = expectedSeq
    /\ RxFree > 0
    /\ ProcessDataSeqNum(p.seq)
    /\ rcvd' = Append(rcvd, p.n)
    /\ UNCHANGED expectedSeq

ReceiveExpected(p) ==
    /\ p.seq = expectedSeq
    /\ RxFree > 0
    /\ expectedSeq' = (expectedSeq + 1) % 8
    /\ ProcessDataSeqNum(p.seq)
    /\ rcvd' = Append(rcvd, p.n)

\* Repeated packets are acknowledged again.
ReceiveRepeated(p) ==
    /\ p.seq # expectedSeq
    /\ ~SEQ_GT(p.seq, expectedSeq)
    /\ ProcessDataSeqNum(p.seq)
    /\ UNCHANGED <<rcvd, expectedSeq>>

\* A packet after a gap, or one there is no buffer for, is dropped.
ReceiveIgnored(p) ==
    /\ \/ p.seq # expectedSeq /\ SEQ_GT(p.seq, expectedSeq)
       \/ p.seq = expectedSeq /\ RxFree = 0
    /\ UNCHANGED <<rcvd, expectedSeq, currentTxAck>>

ReceiveData ==
    /\ dataWire # << >>
    /\ LET p == Head(dataWire) IN
          ReceiveExpected(p) \/ ReceiveRepeated(p) \/ ReceiveIgnored(p)
    /\ dataWire' = Tail(dataWire)
    /\ UNCHANGED <<senderVars, pulled, ackWire>>

\* k packets leave this end (an ACK packet, data of the other direction); the
\* current ack number is put in the header of each.
SendAck(k) ==
    /\ Len(ackWire) + k <= MaxWire
    /\ ackWire' = ackWire \o
           [i \in 1..k |-> [ack |-> currentTxAck, upto |-> Len(rcvd)]]
    /\ UNCHANGED <<senderVars, receiverVars, dataWire>>

PullBytes ==
    /\ pulled < Len(rcvd)
    /\ pulled' = pulled + 1
    /\ UNCHANGED <<senderVars, rcvd, expectedSeq, currentTxAck, dataWire, ackWire>>

-----------------------------------------------------------------------------
(* The UART: a packet that fails the CRC is discarded by Validate.         *)
LoseData ==
    /\ dataWire # << >>
    /\ dataWire' = Tail(dataWire)
    /\ UNCHANGED <<senderVars, receiverVars, ackWire>>

LoseAck ==
    /\ ackWire # << >>
    /\ ackWire' = Tail(ackWire)
    /\ UNCHANGED <<senderVars, receiverVars, dataWire>>

Next ==
    \/ PushBytes \/ TransmitToLink \/ ResendData \/ ReceiveAck
    \/ ReceiveData \/ PullBytes
    \/ \E k \in 1..(Window + 1) : SendAck(k)
    \/ LoseData \/ LoseAck

Spec == Init /\ [][Next]_vars

-----------------------------------------------------------------------------
(* Properties.                                                             *)

DataPacket == [n : Nat, seq : 0..7]
AckInfo    == [ack : 0..7, upto : Nat]

\* Type invariant.
TypeOK ==
    /\ nxt \in Nat /\ una \in Nat /\ snt \in Nat
    /\ rcvd \in Seq(Nat) /\ pulled \in Nat
    /\ expectedSeq \in 0..7 /\ currentTxAck \in 0..7
    /\ dataWire \in Seq(DataPacket)
    /\ ackWire \in Seq(AckInfo)

\* What the receiver hands to PullBytes is what the other end pushed, in the
\* order it was pushed: nothing is lost, repeated or swapped, although the
\* receiver only compares 3-bit sequence numbers.
InOrder == \A i \in 1..Len(rcvd) : rcvd[i] = i - 1

\* The window protocol implements a reliable stream: every push and every
\* packet put on m_rxQueue is a step of it, all the rest is stuttering.
Stream == INSTANCE ReliableStream WITH pushed <- nxt, got <- rcvd
ImplementsStream == Stream!Spec

\* A packet is released from m_txSent (its buffer is filled with new bytes)
\* only after the receiver has queued it.
AckedIsReceived == una <= Len(rcvd)

\* An ack number computed from the 3-bit numbers alone names the same packet
\* as the count of packets received: currentTxAck follows expectedSeq and
\* repeated packets never take it back.
AckNamesExpected ==
    /\ expectedSeq = Len(rcvd) % 8
    /\ currentTxAck = expectedSeq

\* The receiver can tell old from new: whatever is on the wire lies within a
\* window behind or ahead of the next packet expected.
WireNearExpected ==
    \A i \in 1..Len(dataWire) :
        /\ dataWire[i].n < Len(rcvd) + Window
        /\ Len(rcvd) <= dataWire[i].n + Window

\* The inductive invariant.
WireOrdered ==
    /\ \A i \in 1..Len(dataWire) :
          /\ dataWire[i].n < snt
          /\ dataWire[i].seq = dataWire[i].n % 8
          /\ Len(rcvd) <= dataWire[i].n + Window
    /\ \A i, j \in 1..Len(dataWire) :
          i < j => dataWire[i].n < dataWire[j].n + Window

AcksOrdered ==
    /\ \A i \in 1..Len(ackWire) :
          /\ ackWire[i].ack = ackWire[i].upto % 8
          /\ una <= ackWire[i].upto /\ ackWire[i].upto <= Len(rcvd)
    /\ \A i, j \in 1..Len(ackWire) :
          i < j => ackWire[i].upto <= ackWire[j].upto

WindowOrdered ==
    /\ una <= Len(rcvd) /\ Len(rcvd) <= snt
    /\ snt <= nxt /\ nxt <= una + Window
    /\ pulled <= Len(rcvd) /\ Len(rcvd) <= pulled + Window

IInv ==
    /\ TypeOK
    /\ WindowOrdered
    /\ AckNamesExpected
    /\ InOrder
    /\ WireOrdered
    /\ AcksOrdered
=============================================================================
