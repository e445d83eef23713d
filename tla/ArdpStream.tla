---------------------------- MODULE ArdpStream ------------------------------
(***************************************************************************)
(* The OPEN state of the AllJoyn reliable datagram protocol                *)
(* (alljoyn_core/router/ArdpProtocol.cc), data in one direction: "S" sends *)
(* messages, "R" receives them and returns acknowledgements.  Messages are *)
(* cut into fragments, each fragment is a segment with its own retransmit  *)
(* timer; the receiver acknowledges cumulatively (ACK), selectively (EACK) *)
(* and says what the application has consumed (LCS); a message may have a  *)
(* time to live, which may run out at either side.                         *)
(*                                                                         *)
(* ARDP runs on one thread per handle (UDPTransport calls it with its lock *)
(* held), so an action is one call of the API, one segment read by         *)
(* ARDP_Run, or one timer handler called by CheckTimers.  Time is not      *)
(* modelled: a timer that is on may fire at any moment, a finite TTL may   *)
(* have run out at any moment.  A write that would block is left to the    *)
(* retransmit timer, as a lost segment is; a write that fails for good     *)
(* ends the connection, in the middle of a message too.                    *)
(*                                                                         *)
(* The receive side of S and the send side of R never change, so their     *)
(* part of each segment is left out.  So is the RST that a closed end      *)
(* sends in answer to a NUL segment: SendRst sends a header that was never *)
(* initialised, which is taken not to match a connection of the receiver.  *)
(***************************************************************************)
EXTENDS ArdpSeq, ArdpMask, Sequences, FiniteSets

CONSTANTS
    SEGMAX,      \* segments the receiver buffers, told to the sender at SYN
    ISS,         \* initial sequence number of S
    Msgs,        \* messages to send, in order: [fcnt, ttl], ttl "inf" or "fin"
    Cap,         \* bound: segments the network holds in one direction
    MaxLoss,     \* bound: segments lost in a behaviour
    Reorder,     \* TRUE: the network may deliver segments in any order
    CanTimeout,  \* TRUE: retransmit, persist and probe timers may give up
    SocketFails  \* TRUE: the write of a data segment may fail for good

ASSUME ArdpAssumption ==
    /\ SEGMAX \in Nat \ {0} /\ 2 * SEGMAX < SeqMod
    /\ ISS \in SeqNum
    /\ \A m \in 1..Len(Msgs) : Msgs[m].fcnt \in 1..SEGMAX /\ Msgs[m].ttl \in {"inf", "fin"}
    /\ Words = (SEGMAX + Bits - 1) \div Bits
    /\ Cap \in Nat /\ MaxLoss \in Nat
    /\ Reorder \in BOOLEAN /\ CanTimeout \in BOOLEAN /\ SocketFails \in BOOLEAN

VARIABLES
    snd,      \* the connection record of S
    rcv,      \* the connection record of R
    toR,      \* segments on their way to R
    toS,      \* segments on their way to S
    sent,     \* messages handed to ARDP_Send so far
    refused,  \* the one for which ARDP_Send returned a socket error, or 0
    sendCb,   \* sendCb[m]: the statuses SendCb was called with for message m
    recvd,    \* messages RecvCb was called with, in order
    held,     \* those the application has not consumed: [m, som, fcnt]
    flaws,    \* assertions of the code that failed
    losses    \* segments lost so far

vars == <<snd, rcv, toR, toS, sent, refused, sendCb, recvd, held, flaws, losses>>

Slots == 0..(SEGMAX - 1)
Slot(seq) == seq % SEGMAX
NextSlot(i) == (i + 1) % SEGMAX

-----------------------------------------------------------------------------
(* Send side.                                                              *)

\* Marks the slots of a message free, from the one that holds its start.
RECURSIVE FreeSlots(_, _, _)
FreeSlots(buf, i, n) ==
    IF n = 0 THEN buf
    ELSE FreeSlots([buf EXCEPT ![i].inUse = FALSE, ![i].timer = FALSE], NextSlot(i), n - 1)

\* c is what a handler has computed so far: the record of S, the callbacks it
\* made and the assertions that failed.
FlushMessage(c, i, status) ==
    LET b == c.s.buf[i]
        running == \E j \in Slots : (j - i) % SEGMAX < b.fcnt /\ c.s.buf[j].timer
    IN
    [c EXCEPT !.s.buf = FreeSlots(@, i, b.fcnt),
              !.s.pending = (@ - b.fcnt) % 65536,
              !.cb = [@ EXCEPT ![b.pay[1]] = Append(@, status)],
              !.flaws = @ \cup (IF c.s.pending < b.fcnt THEN {"pending"} ELSE {})
                          \cup (IF running /\ c.s.state = "OPEN" THEN {"timer"} ELSE {})]

RECURSIVE FlushSlots(_, _, _)
FlushSlots(c, i, n) ==
    IF n = 0 THEN c
    ELSE FlushSlots(IF c.s.buf[i].inUse /\ c.s.buf[i].seq = c.s.buf[i].som
                    THEN FlushMessage(c, i, "DISCONNECTING") ELSE c,
                    NextSlot(i), n - 1)

FlushSendQueue(c) == FlushSlots(c, Slot(Add(c.s.LCS, 1)), SEGMAX)

\* Variant for mutation: the messages still pending are forgotten.
DisconnectForgets(c) == [c EXCEPT !.s.state = "CLOSE_WAIT"]

\* Disconnect with a reason other than ER_OK: RST is sent by the caller.
DisconnectS(c) ==
    LET d == [c EXCEPT !.s.state = "CLOSE_WAIT"]
    IN  IF c.s.pending # 0 THEN FlushSendQueue(d) ELSE d

\* The buffers from snd.LCS + 1 on, n of them: their timers stop, and the
\* messages the receiver has consumed are flushed.  ok is FALSE after "Bad
\* update".
RECURSIVE AckSlots(_, _, _, _, _)
AckSlots(c, i, n, ack, lcs) ==
    LET b == c.s.buf[i]
        d == [c EXCEPT !.s.buf[i].timer = FALSE]
        last == b.seq = Add(b.som, b.fcnt - 1)
    IN  IF n = 0 THEN [c EXCEPT !.at = i]
        ELSE IF ~b.inUse \/ SEQ32_LT(ack, b.seq) THEN [c EXCEPT !.ok = FALSE]
        ELSE AckSlots(IF SEQ32_LET(b.seq, lcs) /\ last
                      THEN FlushMessage(d, Slot(b.som),
                                        IF b.ttl = "expired" THEN "TTL_EXPIRED" ELSE "OK")
                      ELSE d,
                      NextSlot(i), n - 1, ack, lcs)

\* Expired segments that follow the last acknowledged one are skipped: the loop
\* goes on as long as the next slot holds one, and n counts how far it has got.
\* When every slot does, it never ends and the thread is stuck in it.
RECURSIVE SkipExpired(_, _, _)
SkipExpired(s, i, n) ==
    IF ~(s.buf[i].inUse /\ s.buf[i].ttl = "expired") THEN s
    ELSE IF n = SEGMAX THEN [s EXCEPT !.state = "STUCK"]
    ELSE SkipExpired([s EXCEPT !.UNA = Add(s.buf[i].seq, 1), !.ackTimer = TRUE],
                     NextSlot(i), n + 1)

\* Variant for mutation: what was received counts as consumed.
UpdateEarly(c, ack, lcs) ==
    IF c.s.pending = 0 THEN [c EXCEPT !.s.LCS = ack]
    ELSE LET d == AckSlots(c, Slot(Add(c.s.LCS, 1)), Diff(ack, c.s.LCS), ack, ack)
         IN  IF d.ok THEN [d EXCEPT !.s = [SkipExpired(@, d.at, 0) EXCEPT !.LCS = ack]] ELSE d

UpdateSndSegments(c, ack, lcs) ==
    IF c.s.pending = 0 THEN [c EXCEPT !.s.LCS = lcs]
    ELSE LET d == AckSlots(c, Slot(Add(c.s.LCS, 1)), Diff(ack, c.s.LCS), ack, lcs)
         IN  IF d.ok THEN [d EXCEPT !.s = [SkipExpired(@, d.at, 0) EXCEPT !.LCS = lcs]] ELSE d

\* Variant for mutation: the mask is read one segment too far.
CancelShifted(buf, ack, msk) ==
    [i \in Slots |-> IF \E w \in Bin : \E b \in msk[w] :
                           (Slot(Add(ack, w * Bits + 1)) + b) % SEGMAX = i
                     THEN [buf[i] EXCEPT !.timer = FALSE] ELSE buf[i]]

\* The mask of a segment starts at ACK + 2.  FastRetransmit only makes a timer
\* fire earlier.
CancelEackedSegments(buf, ack, msk) ==
    [i \in Slots |-> IF \E w \in Bin : \E b \in msk[w] :
                           (Slot(Add(ack, w * Bits + 2)) + b) % SEGMAX = i
                     THEN [buf[i] EXCEPT !.timer = FALSE] ELSE buf[i]]

\* Whether the code thinks that two or more segments wait for an ACK.
IsDataRetransmitScheduled(s) == Add(s.UNA, 1) # s.NXT /\ s.UNA # s.NXT

PersistAndWindow(s, window) ==
    LET sched == IsDataRetransmitScheduled(s)
    IN  [s EXCEPT !.persist = IF @ THEN ~(window >= SEGMAX \/ sched)
                                   ELSE ~sched /\ window < SEGMAX,
                  !.window = window]

-----------------------------------------------------------------------------
(* Receive side.                                                           *)

RECURSIVE MarkSlots(_, _, _, _)
MarkSlots(buf, i, n, f) ==      \* f: "expired" or "delivered"
    IF n = 0 THEN buf
    ELSE MarkSlots(IF f = "expired" THEN [buf EXCEPT ![i].ttl = "expired"]
                                    ELSE [buf EXCEPT ![i].delivered = TRUE],
                   NextSlot(i), n - 1, f)

\* The buffers of the message, and the expired ones that follow it.
RECURSIVE ReleaseSlots(_, _, _)
ReleaseSlots(r, i, n) ==
    IF n = 0 /\ ~(r.buf[i].ttl = "expired" /\ ~r.buf[i].delivered) THEN r
    ELSE ReleaseSlots([r EXCEPT !.buf[i].inUse = FALSE, !.buf[i].delivered = FALSE,
                                !.buf[i].ttl = "inf", !.LCS = Add(@, 1)],
                      NextSlot(i), IF n = 0 THEN 0 ELSE n - 1)

ReleaseRcvBuffers(r, seq, fcnt) ==
    IF seq # Add(r.LCS, 1) THEN r
    ELSE LET q == ReleaseSlots(r, Slot(seq), fcnt)
         IN  [q EXCEPT !.CUR = IF SEQ32_LT(@, q.LCS) THEN q.LCS ELSE @,
                       !.ackTimer = TRUE]

\* What the application gets: the message whose fragments the slots hold, or 0
\* if they do not hold the fragments of one message in order.
RECURSIVE Holds(_, _, _, _)
Holds(buf, i, m, k) ==
    \/ k > Msgs[m].fcnt
    \/ buf[i].pay = <<m, k>> /\ Holds(buf, NextSlot(i), m, k + 1)
Content(buf, i) ==
    LET m == buf[i].pay[1] IN IF m # 0 /\ Holds(buf, i, m, 1) THEN m ELSE 0

\* The loop of AdvanceRcvQueue, at slot i with sequence number seq.  exp is
\* << >>, or the [som, fcnt] of the expired message it is skipping; late is
\* the set of slots whose TTL has run out.  c holds the record of R and the
\* messages handed to RecvCb.
RECURSIVE AdvanceFrom(_, _, _, _, _)
AdvanceFrom(c, i, seq, exp, late) ==
    LET b == c.r.buf[i]
        start == Slot(b.som)
        lastOf(som, fcnt) == seq = Add(som, fcnt - 1)
        c0 == [c EXCEPT !.r.eack = ShiftRcvMsk(@),
                        !.flaws = @ \cup (IF Diff(seq, c.r.LCS) > SEGMAX
                                          THEN {"advance"} ELSE {})]
        c1 == IF exp # << >>
              THEN IF lastOf(exp.som, exp.fcnt)
                   THEN [c0 EXCEPT !.r = ReleaseRcvBuffers(@, exp.som, exp.fcnt)] ELSE c0
              ELSE IF b.ttl = "fin" /\ i \in late
              THEN LET marked == [c0 EXCEPT !.r.buf = MarkSlots(@, start, b.fcnt, "expired")]
                   IN  IF lastOf(b.som, b.fcnt)
                       THEN [marked EXCEPT !.r = ReleaseRcvBuffers(@, b.som, b.fcnt)]
                       ELSE marked
              ELSE IF b.seq = Add(b.som, b.fcnt - 1)
              THEN [c0 EXCEPT !.r.buf = MarkSlots(@, start, b.fcnt, "delivered"),
                              !.up = Append(@, [m |-> Content(c.r.buf, start),
                                                som |-> b.som, fcnt |-> b.fcnt])]
              ELSE c0
        exp1 == IF exp # << >>
                THEN IF lastOf(exp.som, exp.fcnt) THEN << >> ELSE exp
                ELSE IF b.ttl = "fin" /\ i \in late /\ ~lastOf(b.som, b.fcnt)
                THEN [som |-> b.som, fcnt |-> b.fcnt] ELSE << >>
        j == NextSlot(i)
        more == c1.r.buf[j].inUse /\ ~c1.r.buf[j].delivered
    IN  IF more \/ exp1 # << >>
        THEN AdvanceFrom(c1, j, Add(seq, 1), exp1, late)
        ELSE [c1 EXCEPT !.r.CUR = IF SEQ32_LT(@, seq) THEN seq ELSE @,
                        !.r.ackTimer = TRUE]

AdvanceRcvQueue(c, i, late) == AdvanceFrom(c, i, c.r.buf[i].seq, << >>, late)

RECURSIVE ShiftBy(_, _)
ShiftBy(eack, n) == IF n = 0 THEN eack ELSE ShiftBy(ShiftRcvMsk(eack), n - 1)

\* The sender has given up everything before acknxt.
FlushExpiredRcvMessages(c, acknxt, late) ==
    LET r == c.r
        b == r.buf[Slot(r.CUR)]
        whole == ~b.inUse \/ b.seq = Add(b.som, b.fcnt - 1)
        from == IF whole THEN Add(r.CUR, 1) ELSE b.som
        i == IF whole THEN NextSlot(Slot(r.CUR)) ELSE Slot(b.som)
        n == Diff(acknxt, from)
        skip == Diff(Add(r.CUR, 1), from)
        marked == [r EXCEPT !.buf = MarkSlots(@, i, n, "expired"),
                            !.eack = ShiftBy(@, n - skip),
                            !.CUR = IF SEQ32_LT(@, Diff(acknxt, 1)) THEN Diff(acknxt, 1) ELSE @]
        q == [ReleaseRcvBuffers(marked, from, n) EXCEPT !.ackTimer = TRUE]
        j == (i + n) % SEGMAX
        bad == \E k \in 0..(n - 1) : r.buf[(i + k) % SEGMAX].delivered
        c1 == [c EXCEPT !.r = q, !.flaws = @ \cup (IF bad THEN {"flush"} ELSE {})]
    IN  IF whole /\ r.eack.sz = 0 /\ r.LCS = r.CUR
        THEN [c EXCEPT !.r.LCS = Diff(acknxt, 1), !.r.CUR = Diff(acknxt, 1),
                       !.r.ackTimer = TRUE]
        ELSE IF q.buf[j].inUse /\ ~q.buf[j].delivered
        THEN AdvanceRcvQueue(c1, j, late)
        ELSE c1

\* Variant for mutation: a segment is passed on although one before it is missing.
AddEagerly(c, seg, late) ==
    LET i == Slot(seg.seq)
    IN  IF c.r.buf[i].seq = seg.seq THEN c
        ELSE AdvanceRcvQueue([c EXCEPT !.r.buf[i] =
                [inUse |-> TRUE, delivered |-> FALSE, seq |-> seg.seq, som |-> seg.som,
                 fcnt |-> seg.fcnt, ttl |-> seg.ttl, pay |-> seg.pay]], i, late)

\* ok is FALSE when the segment could not be stored.
AddRcvBuffer(c, seg, late) ==
    LET i == Slot(seg.seq)
        b == c.r.buf[i]
        c1 == [c EXCEPT !.r.buf[i] = [inUse |-> TRUE, delivered |-> FALSE, seq |-> seg.seq,
                                      som |-> seg.som, fcnt |-> seg.fcnt, ttl |-> seg.ttl,
                                      pay |-> seg.pay]]
    IN  IF b.seq = seg.seq THEN c
        ELSE IF b.inUse THEN [c EXCEPT !.ok = FALSE, !.flaws = @ \cup {"overwrite"}]
        ELSE IF seg.seq = Add(c.r.CUR, 1) THEN AdvanceRcvQueue(c1, i, late)
        ELSE [c1 EXCEPT !.r.eack = AddRcvMsk(@, Diff(seg.seq, Add(c.r.CUR, 1)))]

-----------------------------------------------------------------------------
(* Actions.                                                                *)

CallS == [s |-> snd, cb |-> sendCb, flaws |-> flaws, ok |-> TRUE, at |-> 0]
CallR == [r |-> rcv, up |-> << >>, flaws |-> flaws, ok |-> TRUE]

ReturnS(c) == snd' = c.s /\ sendCb' = c.cb /\ flaws' = c.flaws
ReturnR(c) ==
    /\ rcv' = c.r /\ flaws' = c.flaws
    /\ held' = held \o c.up
    /\ recvd' = recvd \o [k \in 1..Len(c.up) |-> c.up[k].m]

RST == [k |-> "RST"]
HeaderS(s, kind) == [k |-> kind, seq |-> s.NXT, acknxt |-> s.UNA]
HeaderR(r, kind) == [k |-> kind, ack |-> r.CUR, lcs |-> r.LCS,
                     eack |-> IF r.eack.sz # 0 THEN r.eack.htnMask ELSE Zeros]
DataSeg(s, b) == [k |-> "DATA", seq |-> b.seq, som |-> b.som, fcnt |-> b.fcnt,
                  ttl |-> b.ttl, pay |-> b.pay, acknxt |-> s.UNA]

OpenS == snd.state = "OPEN"
OpenR == rcv.state = "OPEN"
RoomToR(n) == Len(toR) + n <= Cap
RoomToS(n) == Len(toS) + n <= Cap

\* Variant for mutation: the segments in flight are counted, not those to come.
RoomForAny(n) == snd.window # 0 /\ Diff(snd.NXT, snd.UNA) < SEGMAX

\* The receiver's window and the send queue have room for n segments.
RoomFor(n) ==
    /\ snd.window # 0 /\ Diff(snd.NXT, snd.UNA) < SEGMAX
    /\ n <= snd.window /\ n <= SEGMAX - snd.pending

\* The send side once the first k fragments of message m have been written and
\* queued: the slots are taken one after the other from that of snd.NXT.
Queued(m, k) ==
    LET first == Slot(snd.NXT)
        frag(j) == [inUse |-> TRUE, timer |-> TRUE, seq |-> Add(snd.NXT, j), som |-> snd.NXT,
                    fcnt |-> Msgs[m].fcnt, ttl |-> Msgs[m].ttl, pay |-> <<m, j + 1>>]
    IN  [s   |-> [snd EXCEPT
                    !.buf = [i \in Slots |-> IF (i - first) % SEGMAX < k
                                             THEN frag((i - first) % SEGMAX) ELSE @[i]],
                    !.NXT = Add(@, k), !.pending = @ + k,
                    !.persist = @ /\ k = 0, !.ackTimer = @ /\ k = 0],
         out |-> [j \in 1..k |-> DataSeg(snd, frag(j - 1))]]

\* The assertions of SendData when it has come to fragment k.
SendFlaws(k) ==
    IF Diff(snd.NXT, snd.UNA) + k > SEGMAX \/ snd.pending + k > SEGMAX THEN {"send"} ELSE {}

\* ARDP_Send and SendData: a whole message, if there is room for it.
ARDP_Send ==
    LET m == sent + 1
        n == Msgs[m].fcnt
    IN  /\ OpenS /\ sent < Len(Msgs)
        /\ RoomFor(n)
        /\ RoomToR(n)
        /\ sent' = m
        /\ snd' = Queued(m, n).s
        /\ toR' = toR \o Queued(m, n).out
        /\ flaws' = flaws \cup SendFlaws(n)
        /\ UNCHANGED <<rcv, toS, refused, sendCb, recvd, held, losses>>

\* The same, when the write of fragment k fails for good: SendData disconnects
\* and returns the error, the fragments before it are on their way.  The RST
\* may meet the same error.
ARDP_SendFails ==
    LET m == sent + 1
    IN  /\ SocketFails
        /\ OpenS /\ sent < Len(Msgs)
        /\ RoomFor(Msgs[m].fcnt)
        /\ RoomToR(Msgs[m].fcnt)
        /\ sent' = m /\ refused' = m
        /\ \E k \in 1..Msgs[m].fcnt :
              /\ ReturnS(DisconnectS([CallS EXCEPT !.s = Queued(m, k - 1).s,
                                                   !.flaws = @ \cup SendFlaws(k)]))
              /\ \E rst \in {<<RST>>, << >>} : toR' = toR \o Queued(m, k - 1).out \o rst
        /\ UNCHANGED <<rcv, toS, recvd, held, losses>>

\* RetransmitTimerHandler of the buffer in slot i, sending it again.
Retransmit(i) ==
    /\ OpenS /\ snd.buf[i].inUse /\ snd.buf[i].timer
    /\ RoomToR(1)
    /\ toR' = Append(toR, DataSeg(snd, snd.buf[i]))
    /\ snd' = [snd EXCEPT !.ackTimer = FALSE]
    /\ UNCHANGED <<rcv, toS, sent, refused, sendCb, recvd, held, flaws, losses>>

\* RetransmitTimerHandler when the TTL has run out: the whole message expires,
\* and snd.UNA moves past it if it was in it.
ExpireMessageSnd(i) ==
    LET b == snd.buf[i]
        start == Slot(b.som)
        of(j) == (j - start) % SEGMAX < b.fcnt
        unaIn == SEQ32_LET(b.som, snd.UNA) /\ SEQ32_LT(snd.UNA, Add(b.som, b.fcnt))
    IN  /\ OpenS /\ b.inUse /\ b.timer /\ b.ttl = "fin"
        /\ snd' = [snd EXCEPT
               !.buf = [j \in Slots |-> IF of(j) THEN [@[j] EXCEPT !.timer = FALSE,
                                                                  !.ttl = "expired"]
                                        ELSE @[j]],
               !.UNA = IF unaIn THEN Add(b.som, b.fcnt) ELSE @,
               !.ackTimer = @ \/ unaIn]
        /\ UNCHANGED <<rcv, toR, toS, sent, refused, sendCb, recvd, held, flaws, losses>>

\* A retransmit, persist or probe timer that has run out of retries, or whose
\* write failed for good.
TimeoutS ==
    /\ CanTimeout /\ OpenS
    /\ ReturnS(DisconnectS(CallS))
    /\ toR' = Append(toR, RST)
    /\ UNCHANGED <<rcv, toS, sent, refused, recvd, held, losses>>

AckTimerS ==
    /\ OpenS /\ snd.ackTimer /\ RoomToR(1)
    /\ toR' = Append(toR, HeaderS(snd, "ACK"))
    /\ snd' = [snd EXCEPT !.ackTimer = FALSE]
    /\ UNCHANGED <<rcv, toS, sent, refused, sendCb, recvd, held, flaws, losses>>

AckTimerR ==
    /\ OpenR /\ rcv.ackTimer /\ RoomToS(1)
    /\ toS' = Append(toS, HeaderR(rcv, "ACK"))
    /\ rcv' = [rcv EXCEPT !.ackTimer = FALSE, !.ackPending = 0]
    /\ UNCHANGED <<snd, toR, sent, refused, sendCb, recvd, held, flaws, losses>>

PersistTimer ==
    /\ OpenS /\ snd.persist /\ RoomToR(1)
    /\ snd.window < SEGMAX /\ ~IsDataRetransmitScheduled(snd)
    /\ toR' = Append(toR, HeaderS(snd, "NUL"))
    /\ snd' = [snd EXCEPT !.ackTimer = FALSE]
    /\ UNCHANGED <<rcv, toS, sent, refused, sendCb, recvd, held, flaws, losses>>

\* Nothing was heard from the other side for a probe interval.
ProbeTimer ==
    /\ toR = << >> /\ toS = << >> /\ Cap > 0
    /\ \/ OpenS /\ toR' = <<HeaderS(snd, "NUL")>> /\ snd' = [snd EXCEPT !.ackTimer = FALSE]
          /\ UNCHANGED <<rcv, toS>>
       \/ OpenR /\ toS' = <<HeaderR(rcv, "NUL")>>
          /\ rcv' = [rcv EXCEPT !.ackTimer = FALSE, !.ackPending = 0]
          /\ UNCHANGED <<snd, toR>>
    /\ UNCHANGED <<sent, refused, sendCb, recvd, held, flaws, losses>>

\* The slots whose TTL may have run out when R reads seg.  R looks at it only in
\* AdvanceRcvQueue: when seg is the next in sequence, or tells that the sender
\* has given up what is.
MayBeLate(seg) ==
    LET next == Add(rcv.CUR, 1)
        data == seg.k = "DATA"
        advances == /\ seg # RST
                    /\ SEQ32_LT(next, seg.acknxt) \/ (data /\ seg.seq = next)
    IN  {i \in {j \in Slots : advances} :
            \/ rcv.buf[i].inUse /\ rcv.buf[i].ttl = "fin"
            \/ data /\ seg.ttl = "fin" /\ Slot(seg.seq) = i}

\* Which segment ARDP_Run reads next.
Readable(q) == IF Reorder THEN 1..Len(q) ELSE {i \in {1} : q # << >>}
Without(q, i) == SubSeq(q, 1, i - 1) \o SubSeq(q, i + 1, Len(q))

\* Receive and ArdpMachine at S.
ReceiveAtS(i) ==
    LET seg == toS[i]
        rest == Without(toS, i)
        window == (SEGMAX - Diff(snd.NXT, Add(seg.lcs, 1))) % 65536
        valid == ~SEQ32_LT(snd.NXT, seg.ack) /\ ~SEQ32_LT(seg.ack, seg.lcs)
        update == \/ IN_RANGE(snd.UNA, Diff(snd.NXT, snd.UNA) + 1, seg.ack)
                  \/ snd.LCS # seg.lcs
        c0 == [CallS EXCEPT !.s.UNA = IF update THEN Add(seg.ack, 1) ELSE @,
                            !.s.buf = CancelEackedSegments(@, seg.ack, seg.eack)]
        c1 == IF update THEN UpdateSndSegments(c0, seg.ack, seg.lcs) ELSE c0
        nul == seg.k = "NUL"
        s2 == PersistAndWindow([c1.s EXCEPT !.ackTimer = @ /\ ~nul], window)
    IN  /\ toS' = rest
        /\ IF ~OpenS \/ seg = RST
           THEN ReturnS(IF OpenS THEN DisconnectS(CallS) ELSE CallS) /\ UNCHANGED toR
           ELSE IF ~valid
           THEN ReturnS(DisconnectS(CallS)) /\ toR' = Append(toR, RST)
           ELSE IF c1.s.state = "STUCK"
           THEN ReturnS(c1) /\ UNCHANGED toR
           ELSE IF ~c1.ok
           THEN ReturnS(DisconnectS(c1)) /\ toR' = Append(toR, RST)
           ELSE /\ ReturnS([c1 EXCEPT !.s = s2])
                /\ toR' = IF nul THEN Append(toR, HeaderS(c1.s, "ACK")) ELSE toR
        /\ UNCHANGED <<rcv, sent, refused, recvd, held, losses>>

\* Disconnect at R.
DisconnectR(c) == [c EXCEPT !.r.state = "CLOSE_WAIT"]

\* Receive and ArdpMachine at R; late: the slots whose TTL has run out.
ReceiveAtR(i, late) ==
    LET seg == toR[i]
        rest == Without(toR, i)
        data == seg.k = "DATA"
        ahead == Diff(seg.seq, seg.acknxt)
        valid == /\ ahead <= SEGMAX /\ ~SEQ32_LT(seg.seq, seg.acknxt)
                 /\ data => ahead # SEGMAX
        inWindow == IN_RANGE(Add(rcv.LCS, 1), IF data THEN SEGMAX ELSE SEGMAX + 1, seg.seq)
        old == /\ data /\ ~inWindow
               /\ IN_RANGE(Diff(Add(rcv.CUR, 1), SEGMAX), SEGMAX, seg.seq)
        c1 == IF SEQ32_LT(Add(rcv.CUR, 1), seg.acknxt)
              THEN FlushExpiredRcvMessages(CallR, seg.acknxt, late) ELSE CallR
        dup == old \/ SEQ32_LT(seg.seq, Add(c1.r.CUR, 1))
        c2 == IF data /\ ~dup THEN AddRcvBuffer(c1, seg, late) ELSE c1
        ackNow == \/ seg.k = "NUL"
                  \/ data /\ c2.r.ackTimer /\ c2.r.ackPending + 1 >= SEGMAX \div 4
        r3 == IF ackNow THEN [c2.r EXCEPT !.ackTimer = FALSE, !.ackPending = 0]
              ELSE IF data THEN [c2.r EXCEPT !.ackTimer = TRUE, !.ackPending = @ + 1]
              ELSE c2.r
    IN  /\ RoomToS(1)
        /\ toR' = rest
        /\ IF ~OpenR \/ seg = RST
           THEN ReturnR(IF OpenR THEN DisconnectR(CallR) ELSE CallR) /\ UNCHANGED toS
           ELSE IF ~valid \/ (~inWindow /\ ~old)
           THEN ReturnR(DisconnectR(CallR)) /\ toS' = Append(toS, RST)
           ELSE IF ~c2.ok
           THEN ReturnR(DisconnectR(c2)) /\ toS' = Append(toS, RST)
           ELSE /\ ReturnR([c2 EXCEPT !.r = r3])
                /\ toS' = IF ackNow THEN Append(toS, HeaderR(c2.r, "ACK")) ELSE toS
        /\ UNCHANGED <<snd, sent, refused, sendCb, losses>>

\* The application returns the messages in the order it got them.
ARDP_RecvReady ==
    LET h == Head(held) IN
    /\ held # << >>
    /\ held' = Tail(held)
    /\ IF ~OpenR
       THEN UNCHANGED <<rcv, flaws>>
       ELSE IF h.som # Add(rcv.LCS, 1) \/ rcv.buf[Slot(h.som)].seq # h.som
       THEN flaws' = flaws \cup {"recvready"} /\ UNCHANGED rcv
       ELSE rcv' = ReleaseRcvBuffers(rcv, h.som, h.fcnt) /\ UNCHANGED flaws
    /\ UNCHANGED <<snd, toR, toS, sent, refused, sendCb, recvd, losses>>

Lose ==
    /\ losses < MaxLoss
    /\ losses' = losses + 1
    /\ \/ \E i \in Readable(toR) : toR' = Without(toR, i) /\ UNCHANGED toS
       \/ \E i \in Readable(toS) : toS' = Without(toS, i) /\ UNCHANGED toR
    /\ UNCHANGED <<snd, rcv, sent, refused, sendCb, recvd, held, flaws>>

Init ==
    /\ snd = [state |-> "OPEN", NXT |-> Add(ISS, 1), UNA |-> Add(ISS, 1), LCS |-> ISS,
              window |-> SEGMAX, pending |-> 0, persist |-> FALSE, ackTimer |-> FALSE,
              buf |-> [i \in Slots |-> [inUse |-> FALSE, timer |-> FALSE, seq |-> 0, som |-> 0,
                                        fcnt |-> 1, ttl |-> "inf", pay |-> <<0, 0>>]]]
    /\ rcv = [state |-> "OPEN", CUR |-> ISS, LCS |-> ISS, eack |-> NoEack,
              ackTimer |-> FALSE, ackPending |-> 0,
              buf |-> [i \in Slots |-> [inUse |-> FALSE, delivered |-> FALSE, seq |-> ISS,
                                        som |-> 0, fcnt |-> 1, ttl |-> "inf", pay |-> <<0, 0>>]]]
    /\ toR = << >> /\ toS = << >>
    /\ sent = 0 /\ refused = 0
    /\ sendCb = [m \in 1..Len(Msgs) |-> << >>]
    /\ recvd = << >> /\ held = << >>
    /\ flaws = {} /\ losses = 0

ReceiveS == \E i \in Readable(toS) : ReceiveAtS(i)
ReceiveR ==
    \E i \in Readable(toR) : \E late \in SUBSET MayBeLate(toR[i]) : ReceiveAtR(i, late)

Next ==
    \/ ARDP_Send \/ ARDP_SendFails
    \/ \E i \in Slots : Retransmit(i) \/ ExpireMessageSnd(i)
    \/ TimeoutS \/ AckTimerS \/ AckTimerR \/ PersistTimer \/ ProbeTimer
    \/ ReceiveS \/ ReceiveR
    \/ ARDP_RecvReady
    \/ Lose

Spec == Init /\ [][Next]_vars

\* ARDP_Run keeps reading the socket and running the timers, and the
\* application keeps consuming.  Nothing is assumed of the user that sends, and
\* of the probe timer only that it fires when nothing else is going on.
\* Reading and consuming are named by what they take: only MaxLoss times is it
\* the network that takes a segment.
Fairness ==
    /\ \A i \in Slots : SF_vars(Retransmit(i))
    /\ SF_vars(AckTimerS) /\ SF_vars(AckTimerR)
    /\ SF_vars(PersistTimer) /\ WF_vars(ProbeTimer)
    /\ WF_toS(toS # << >> /\ toS' = Tail(toS))
    /\ WF_toR(toR # << >> /\ RoomToS(1) /\ toR' = Tail(toR))
    /\ WF_held(held # << >> /\ held' = Tail(held))

LiveSpec == Spec /\ Fairness

-----------------------------------------------------------------------------
(* Properties.                                                             *)

\* Type invariant.
TypeOK ==
    /\ {snd.NXT, snd.UNA, snd.LCS, rcv.CUR, rcv.LCS} \subseteq SeqNum
    /\ snd.state \in {"OPEN", "CLOSE_WAIT", "STUCK"} /\ rcv.state \in {"OPEN", "CLOSE_WAIT"}
    /\ snd.window \in 0..65535 /\ snd.pending \in 0..65535
    /\ rcv.eack.mask \in [Bin -> SUBSET Bit] /\ rcv.eack.htnMask \in [Bin -> SUBSET Bit]
    /\ rcv.eack.sz \in 0..Words
    /\ sent \in 0..Len(Msgs) /\ refused \in 0..sent /\ losses \in 0..MaxLoss

\* The application gets the messages in the order they were sent, none twice
\* and none put together from fragments of different messages; only a message
\* with a finite TTL may be left out.
DeliveredInOrder ==
    /\ \A k \in 1..Len(recvd) : recvd[k] \in 1..sent
    /\ \A j, k \in 1..Len(recvd) : j < k => recvd[j] < recvd[k]
    /\ \A k \in 1..Len(recvd) : \A m \in 1..(recvd[k] - 1) :
          Msgs[m].ttl = "inf" => \E j \in 1..(k - 1) : recvd[j] = m

\* SendCb is called at most once for a message, and once for each message that
\* ARDP_Send took, at the latest when the connection goes down, by a socket
\* error in the middle of a message too: the transport frees the buffer in it.
SendCbOnce ==
    \A m \in 1..Len(Msgs) :
        /\ Len(sendCb[m]) <= (IF m <= sent THEN 1 ELSE 0)
        /\ m <= sent /\ m # refused /\ snd.state = "CLOSE_WAIT" => Len(sendCb[m]) = 1

\* A message for which ARDP_Send returned an error gets no SendCb: "Since the
\* buffer wasn't sent, the callback won't happen and we need to dispose of it
\* here and now" (UDPTransport.cc:2670).
RefusedHasNoSendCb == refused # 0 => sendCb[refused] = << >>

\* SendCb(ER_OK) means that the receiving application is done with the message,
\* unless its TTL ran out at the receiver.
SendCbMeansConsumed ==
    \A m \in 1..Len(Msgs) : sendCb[m] = <<"OK">> /\ Msgs[m].ttl = "inf" =>
        /\ \E k \in 1..Len(recvd) : recvd[k] = m
        /\ \A k \in 1..Len(held) : held[k].m # m

\* The EACK mask tells exactly which segments after the first gap are buffered.
EackMatchesBuffers ==
    rcv.state = "OPEN" =>
        UNION {{Add(rcv.CUR, w * Bits + b + 2) : b \in rcv.eack.mask[w]} : w \in Bin} =
        {rcv.buf[i].seq : i \in {j \in Slots :
            rcv.buf[j].inUse /\ SEQ32_LT(rcv.CUR, rcv.buf[j].seq)}}

\* No QCC_ASSERT of the data path fails: the send queue and the receive queue
\* are never overrun, buffers are released in order, and no buffer is flushed
\* while its retransmit timer runs.
AssertionsHold == flaws = {}

\* Two ends that both follow the protocol never take each other for a "bad
\* remote", and no handler is caught in a loop: without a timeout the connection
\* stays open.
StaysOpen == snd.state = "OPEN" /\ rcv.state = "OPEN"

\* Every message handed to ARDP_Send is completed by a SendCb: as the user sends
\* finitely many, from some time on none is waiting for one.
AllCompleted == <>[](\A m \in 1..sent : sendCb[m] # << >>)
=============================================================================
