----------------------------- MODULE SLAPStream -----------------------------
(***************************************************************************)
(* Two qcc::SLAPStream objects (common/src/SLAPStream.cc) at the ends of a *)
(* UART: link establishment, negotiation, the window protocol, the alarms  *)
(* of the timer thread, disconnection, and an end that goes down and comes *)
(* back up.                                                                *)
(*                                                                         *)
(* Every entry point of the class takes m_streamLock and keeps it until it *)
(* returns or waits, so one action is one entry point: a packet read by    *)
(* ReadEventTriggered, an alarm handled by AlarmTriggered, a round of      *)
(* PushBytes or PullBytes, Close up to its wait and Close after it.        *)
(* m_txState is therefore TX_IDLE between any two actions.  An alarm is    *)
(* taken off the timer before it gets the lock; RemoveAlarm(.., false)     *)
(* does not wait for it, so a handler may run after its alarm was removed. *)
(*                                                                         *)
(* An end is a record whose fields are the members of the class; the       *)
(* methods are operators on that record.  Payloads are pairs <<epoch, n>>: *)
(* the n-th packet pushed in that life of the stream.                      *)
(***************************************************************************)
EXTENDS Integers, Sequences, FiniteSets

CONSTANTS
    MaxWindow,      \* [End -> {1, 2, 4}]: m_linkParams.maxWindowSize
    MaxPacket,      \* [End -> Nat]: m_linkParams.maxPacketSize, any unit
    MaxPush,        \* [End -> Nat], bound: packets pushed per life of a stream
    WireCap,        \* bound: packets the UART buffers in one direction
    MaxLoss,        \* bound: packets lost in a behaviour
    MaxOpen,        \* [End -> Nat], bound: lives of the stream at each end
    Closers,        \* ends whose user may call Close while the link is up
    CanBlock,       \* TRUE: a full UART makes Deliver fail (EAGAIN);
                    \* FALSE: the timer thread waits until there is room
    SlowControl     \* TRUE: the 200 ms of a control alarm do not pass while
                    \* a control packet is on its way or about to be sent

End == {"A", "B"}
Peer(e) == CHOOSE f \in End : f # e

ASSUME SLAPAssumption ==
    /\ MaxWindow \in [End -> {1, 2, 4}]
    /\ MaxPacket \in [End -> Nat]
    /\ MaxPush \in [End -> Nat] /\ MaxOpen \in [End -> Nat]
    /\ WireCap \in Nat /\ MaxLoss \in Nat
    /\ Closers \subseteq End
    /\ CanBlock \in BOOLEAN /\ SlowControl \in BOOLEAN

VARIABLES
    st,       \* st[e]: the SLAPStream object of end e
    wire,     \* wire[e]: packets on their way to e
    epoch,    \* epoch[e]: which life of the stream this is
    pushed,   \* pushed[e]: packets pushed at e in this life
    got,      \* got[e]: payloads put on m_rxQueue at e in this life
    losses    \* packets lost so far

vars == <<st, wire, epoch, pushed, got, losses>>

-----------------------------------------------------------------------------
(* Packets.  m_txQueue holds data packets and at most one reference to the *)
(* shared control packet m_txCtrl, whose content is read when it is sent.  *)

PROTOCOL_VERSION == 1       \* SLAP_PROTOCOL_VERSION_NUMBER
DISCONNECT_FEATURE == 1     \* SLAP_VERSION_DISCONNECT_FEATURE

CtrlRef == [type |-> "CTRL"]
Junk    == [type |-> "JUNK"]
NoConf  == [win |-> 0, size |-> 0, ver |-> 0]
Ctrl(type, conf) == IF type \in {"NEGO", "NEGO_RESP"}
                    THEN [type |-> type, conf |-> conf]
                    ELSE [type |-> type]

SmallerOf(a, b) == IF a < b THEN a ELSE b

\* The constructor.  It leaves protocolVersion uninitialised.
Garbage == 2
NewStream(e) ==
    [link |-> "UNINITIALIZED",
     win |-> MaxWindow[e], size |-> MaxPacket[e], ver |-> Garbage, conf |-> NoConf,
     expectedSeq |-> 0, txSeqNum |-> 0, currentTxAck |-> 0, pendingAcks |-> FALSE,
     txQueue |-> << >>, txSent |-> << >>, txFree |-> 0, rxQueue |-> 0, rxFree |-> 0,
     txCtrl |-> Junk, txCurrent |-> << >>,
     alarms |-> {}, firing |-> "none",
     source |-> FALSE, sink |-> FALSE, close |-> "open"]

SEQ_GT(s, s1, s2) == (7 + s1 - s2) % 8 < s.win

-----------------------------------------------------------------------------
(* Methods.                                                                *)

Arm(s, a) == [s EXCEPT !.alarms = @ \cup {a}]

\* m_txCtrl is overwritten, even while it is being delivered: Clear() resets
\* its write pointer, and what is left to deliver is a stray byte.
FillCtrl(s, pkt) ==
    [s EXCEPT !.txCtrl = pkt,
              !.txCurrent = IF @ # << >> /\ @[1].type # "DATA" THEN <<Junk>> ELSE @,
              !.txQueue = IF @ # << >> /\ Head(@) = CtrlRef THEN @ ELSE <<CtrlRef>> \o @]

EnqueueCtrl(s, type, conf) == Arm(FillCtrl(s, Ctrl(type, conf)), "SEND")

\* Variant for mutation: the control packet is not repeated.
ScheduleOnce(s) ==
    CASE s.link = "UNINITIALIZED" -> EnqueueCtrl(s, "CONN", s.conf)
      [] s.link = "INITIALIZED"   -> EnqueueCtrl(s, "NEGO", s.conf)
      [] s.link = "DYING"         -> EnqueueCtrl(s, "DISCONN", s.conf)
      [] OTHER                    -> s

\* Repeats the control packet of the link state and keeps its alarm going.
ScheduleLinkControlPacket(s) ==
    CASE s.link = "UNINITIALIZED" -> Arm(EnqueueCtrl(s, "CONN", s.conf), "CONTROL")
      [] s.link = "INITIALIZED"   -> Arm(EnqueueCtrl(s, "NEGO", s.conf), "CONTROL")
      [] s.link = "DYING"         -> Arm(EnqueueCtrl(s, "DISCONN", s.conf), "CONTROL")
      [] OTHER                    -> s

\* The ack number is put in the header when the packet is taken off the queue.
Stamp(s, item) ==
    LET pkt == IF item = CtrlRef THEN s.txCtrl ELSE item
    IN  IF pkt.type \in {"DATA", "ACK"} THEN [pkt EXCEPT !.ack = s.currentTxAck] ELSE pkt

\* What TransmitToLink will try to deliver.  The packet that was being
\* delivered when the link last refused comes first; the loop does not run at
\* all when m_txQueue is empty.
ToTransmit(s) ==
    IF s.txQueue = << >> THEN << >>
    ELSE s.txCurrent \o [i \in 1..Len(s.txQueue) |-> Stamp(s, s.txQueue[i])]

IsData(p) == p.type = "DATA"

\* The packets of q that are of one of the types T, in their order.
OfType(q, T) ==
    LET Upto[i \in 0..Len(q)] ==
            IF i = 0 THEN << >>
            ELSE IF q[i].type \in T THEN Append(Upto[i - 1], q[i]) ELSE Upto[i - 1]
    IN  Upto[Len(q)]

\* The types of the packets that pass Validate at the other end.
Valid == {"DATA", "ACK", "CONN", "ACCEPT", "NEGO", "NEGO_RESP", "DISCONN", "DISCONN_RESP"}

\* TransmitToLink after k packets of ToTransmit(s) were delivered; when the
\* next one was refused it stays behind as m_txCurrent.
AfterTransmit(s, k) ==
    LET all   == ToTransmit(s)
        taken == SubSeq(all, 1, SmallerOf(k + 1, Len(all)))
        fresh == SubSeq(taken, Len(s.txCurrent) + 1, Len(taken))
        acked == \E i \in 1..Len(fresh) : fresh[i].type \in {"DATA", "ACK"}
        sent  == s.txSent \o OfType(SubSeq(all, 1, k), {"DATA"})
    IN  IF all = << >>
        THEN IF s.txSent # << >> THEN Arm(s, "RESEND") ELSE s
        ELSE [s EXCEPT
                !.txCurrent = IF k < Len(all) THEN <<all[k + 1]>> ELSE << >>,
                !.txQueue = SubSeq(@, Len(fresh) + 1, Len(@)),
                !.txSent = sent,
                !.pendingAcks = @ /\ ~acked,
                !.alarms = (IF acked /\ s.pendingAcks THEN @ \ {"ACK"} ELSE @)
                           \cup (IF sent # << >> THEN {"RESEND"} ELSE {})]

\* Variants for mutation: an ack empties m_txSent; one that leaves the buffers,
\* the resend alarm or the sink event as it should not.
ReleaseAll(s, ack) ==
    [s EXCEPT !.txSent = << >>, !.txFree = @ + Len(s.txSent),
              !.sink = TRUE, !.alarms = @ \ {"RESEND"}]
StillUnacked(s, ack) == LET Newer(p) == ~SEQ_GT(s, ack, p.seq) IN SelectSeq(s.txSent, Newer)
ReleaseLeaks(s, ack) ==
    LET rest == StillUnacked(s, ack)
    IN  [s EXCEPT !.txSent = rest, !.sink = @ \/ rest # s.txSent,
                  !.alarms = IF rest # << >> THEN @ \cup {"RESEND"} ELSE @ \ {"RESEND"}]
ReleaseDisarms(s, ack) ==
    LET rest == StillUnacked(s, ack)
    IN  [s EXCEPT !.txSent = rest, !.txFree = @ + Len(s.txSent) - Len(rest),
                  !.sink = @ \/ rest # s.txSent, !.alarms = @ \ {"RESEND"}]
ReleaseSilent(s, ack) ==
    LET rest == StillUnacked(s, ack)
    IN  [s EXCEPT !.txSent = rest, !.txFree = @ + Len(s.txSent) - Len(rest),
                  !.alarms = IF rest # << >> THEN @ \cup {"RESEND"} ELSE @ \ {"RESEND"}]

\* Packets the receiver has acknowledged leave m_txSent from the front.
ProcessAckNum(s, ack) ==
    LET k == CHOOSE n \in 0..Len(s.txSent) :
                /\ \A i \in 1..n : SEQ_GT(s, ack, s.txSent[i].seq)
                /\ n < Len(s.txSent) => ~SEQ_GT(s, ack, s.txSent[n + 1].seq)
    IN  [s EXCEPT !.txSent = SubSeq(@, k + 1, Len(@)),
                  !.txFree = @ + k,
                  !.sink = @ \/ k > 0,
                  !.alarms = IF k < Len(s.txSent) THEN @ \cup {"RESEND"}
                                                  ELSE @ \ {"RESEND"}]

ProcessDataSeqNum(s, seq) ==
    [s EXCEPT !.currentTxAck = IF SEQ_GT(s, @, seq) THEN @ ELSE (seq + 1) % 8,
              !.pendingAcks = TRUE,
              !.alarms = @ \cup {"ACK"}]

\* Variant for mutation: repeated packets are not acknowledged.
ProcessDataNoRepeat(s, p) ==
    LET s1 == ProcessAckNum(s, p.ack) IN
    IF p.seq = s1.expectedSeq /\ s1.rxFree > 0
    THEN ProcessDataSeqNum([s1 EXCEPT !.expectedSeq = (@ + 1) % 8,
                                      !.rxQueue = @ + 1, !.rxFree = @ - 1,
                                      !.source = TRUE], p.seq)
    ELSE s1

\* A data packet: in sequence with a buffer free, repeated, or ignored.
ProcessData(s, p) ==
    LET s1 == ProcessAckNum(s, p.ack) IN
    CASE p.seq = s1.expectedSeq /\ s1.rxFree > 0 ->
            ProcessDataSeqNum([s1 EXCEPT !.expectedSeq = (@ + 1) % 8,
                                         !.rxQueue = @ + 1, !.rxFree = @ - 1,
                                         !.source = TRUE], p.seq)
      [] p.seq # s1.expectedSeq /\ ~SEQ_GT(s1, p.seq, s1.expectedSeq) ->
            ProcessDataSeqNum(s1, p.seq)
      [] OTHER -> s1

Accepted(s, p) == IsData(p) /\ p.seq = s.expectedSeq /\ s.rxFree > 0

\* Variant for mutation: nobody is woken.
DeadSilent(s) == [s EXCEPT !.link = "DEAD"]

Dead(s) == [s EXCEPT !.link = "DEAD", !.source = TRUE, !.sink = TRUE]

\* Variant for mutation: the answer is taken without its parameters.
ConfigureOwn(s, e, c) ==
    [s EXCEPT !.ver = c.ver, !.txFree = @ + s.win, !.rxFree = @ + s.win,
              !.link = "ACTIVE", !.sink = TRUE]

\* NEGO_RESP while configuring: take the agreed parameters and allocate
\* windowSize buffers each way, unless the other end exceeded our maximum.
Configure(s, e, c) ==
    LET s1 == [s EXCEPT !.size = c.size, !.win = c.win, !.ver = c.ver]
    IN  IF c.size > MaxPacket[e] \/ c.win > MaxWindow[e]
        THEN [s1 EXCEPT !.link = "DEAD"]
        ELSE [s1 EXCEPT !.txFree = @ + c.win, !.rxFree = @ + c.win,
                        !.link = "ACTIVE", !.sink = TRUE]

\* NEGO while configuring: settle on the smaller values and say so.
Agree(s, e, c) ==
    LET agreed == [size |-> IF c.size < MaxPacket[e] THEN c.size ELSE s.size,
                   win  |-> SmallerOf(c.win, MaxWindow[e]),
                   ver  |-> SmallerOf(c.ver, PROTOCOL_VERSION)]
    IN  EnqueueCtrl([s EXCEPT !.size = agreed.size, !.win = agreed.win,
                              !.ver = agreed.ver, !.conf = agreed],
                    "NEGO_RESP", agreed)

\* Variants for mutation: a restart of the other end is ignored; DISCONN is
\* answered but the link stays up.
ProcessControlNoRestart(s, e, p) ==
    LET own == [win |-> MaxWindow[e], size |-> MaxPacket[e], ver |-> PROTOCOL_VERSION]
        now == [win |-> s.win, size |-> s.size, ver |-> s.ver]
    IN  CASE p.type = "CONN" /\ s.link \in {"UNINITIALIZED", "INITIALIZED", "ACTIVE"} ->
                EnqueueCtrl(s, "ACCEPT", NoConf)
          [] p.type = "ACCEPT" /\ s.link = "UNINITIALIZED" ->
                EnqueueCtrl([s EXCEPT !.link = "INITIALIZED", !.conf = own], "NEGO", own)
          [] p.type = "NEGO_RESP" /\ s.link = "INITIALIZED" -> Configure(s, e, p.conf)
          [] p.type = "NEGO" /\ s.link = "INITIALIZED" -> Agree(s, e, p.conf)
          [] p.type = "NEGO" /\ s.link = "ACTIVE" ->
                EnqueueCtrl([s EXCEPT !.conf = now], "NEGO_RESP", now)
          [] OTHER -> s
ProcessControlHalf(s, e, p) ==
    LET own == [win |-> MaxWindow[e], size |-> MaxPacket[e], ver |-> PROTOCOL_VERSION]
    IN  CASE p.type = "CONN" -> EnqueueCtrl(s, "ACCEPT", NoConf)
          [] p.type = "ACCEPT" /\ s.link = "UNINITIALIZED" ->
                EnqueueCtrl([s EXCEPT !.link = "INITIALIZED", !.conf = own], "NEGO", own)
          [] p.type = "NEGO_RESP" /\ s.link = "INITIALIZED" -> Configure(s, e, p.conf)
          [] p.type = "NEGO" /\ s.link = "INITIALIZED" -> Agree(s, e, p.conf)
          [] p.type = "DISCONN" -> EnqueueCtrl(s, "DISCONN_RESP", NoConf)
          [] p.type = "DISCONN_RESP" /\ s.link = "DYING" -> Dead(s)
          [] OTHER -> s

ProcessControlPacket(s, e, p) ==
    LET own == [win |-> MaxWindow[e], size |-> MaxPacket[e], ver |-> PROTOCOL_VERSION]
        now == [win |-> s.win, size |-> s.size, ver |-> s.ver]
        is(link, type) == s.link = link /\ p.type = type
    IN  CASE is("UNINITIALIZED", "CONN") \/ is("INITIALIZED", "CONN") ->
                EnqueueCtrl(s, "ACCEPT", NoConf)
          [] is("UNINITIALIZED", "ACCEPT") ->
                EnqueueCtrl([s EXCEPT !.link = "INITIALIZED", !.conf = own], "NEGO", own)
          [] is("INITIALIZED", "NEGO_RESP") -> Configure(s, e, p.conf)
          [] is("INITIALIZED", "NEGO")      -> Agree(s, e, p.conf)
          [] is("ACTIVE", "NEGO") ->
                EnqueueCtrl([s EXCEPT !.conf = now], "NEGO_RESP", now)
          [] is("ACTIVE", "CONN")    -> Dead(s)
          [] is("ACTIVE", "DISCONN") -> Dead(EnqueueCtrl(s, "DISCONN_RESP", NoConf))
          [] is("DYING", "DISCONN_RESP") -> Dead(s)
          [] is("DYING", "DISCONN")  -> EnqueueCtrl(s, "DISCONN_RESP", NoConf)
          [] OTHER -> s

-----------------------------------------------------------------------------
(* Actions.                                                                *)

\* TransmitToLink from state s; the handler of ACK_ALARM goes on to schedule
\* a control packet.  A full UART refuses a packet, or takes the first part of it:
\* Deliver returns ER_OK then, and the other end discards it.  When it refuses,
\* Deliver moves the write pointer by a number that was never set, so that the
\* packet may not be intact when it is tried again.
TransmitFrom(e, s, acking) ==
    LET f    == Peer(e)
        all  == ToTransmit(s)
        room == WireCap - Len(wire[f])
        fit  == SmallerOf(Len(all), room)
        left(cut) == AfterTransmit(s, fit + cut)
    IN  /\ CanBlock \/ Len(all) <= room
        /\ \E cut \in (IF fit < Len(all) THEN {0, 1} ELSE {0}),
              first \in (IF s.txCurrent = << >> THEN {1} ELSE {1, 2}) :
              /\ wire' = [wire EXCEPT ![f] =
                             @ \o OfType(SubSeq(all, first, fit), Valid)]
              /\ st' = [st EXCEPT ![e] = IF acking THEN ScheduleLinkControlPacket(left(cut))
                                         ELSE left(cut)]

\* No control packet is on the wire, and none is about to be sent.
Quiet == \A e \in End :
            /\ \A i \in 1..Len(wire[e]) : wire[e][i].type \in {"DATA", "ACK"}
            /\ "SEND" \notin st[e].alarms /\ st[e].firing \notin {"SEND", "CONTROL"}

\* The timer thread takes an alarm that is due off its queue.
AlarmDue(e, a) ==
    /\ st[e].firing = "none"
    /\ a \in st[e].alarms
    /\ SlowControl /\ a = "CONTROL" => Quiet
    /\ st' = [st EXCEPT ![e].firing = a, ![e].alarms = @ \ {a}]
    /\ UNCHANGED <<wire, epoch, pushed, got, losses>>

SendDataAlarm(e) ==
    /\ st[e].firing = "SEND"
    /\ TransmitFrom(e, [st[e] EXCEPT !.firing = "none"], FALSE)
    /\ UNCHANGED <<epoch, pushed, got, losses>>

\* Everything on m_txSent goes back to the head of m_txQueue, behind m_txCtrl
\* if that is waiting there.
ResendDataAlarm(e) ==
    LET s == [st[e] EXCEPT !.firing = "none"]
        q == IF s.txQueue # << >> /\ Head(s.txQueue) = CtrlRef
             THEN <<CtrlRef>> \o s.txSent \o Tail(s.txQueue)
             ELSE s.txSent \o s.txQueue
    IN  /\ st[e].firing = "RESEND"
        /\ IF s.link = "ACTIVE" /\ s.txSent # << >>
           THEN TransmitFrom(e, [s EXCEPT !.txQueue = q, !.txSent = << >>], FALSE)
           ELSE st' = [st EXCEPT ![e] = s] /\ UNCHANGED wire
        /\ UNCHANGED <<epoch, pushed, got, losses>>

\* ACK_ALARM falls through to RESEND_CONTROL_ALARM.
AckAlarm(e) ==
    LET s == [st[e] EXCEPT !.firing = "none"]
        t == FillCtrl([s EXCEPT !.pendingAcks = FALSE],
                      [type |-> "ACK", ack |-> s.currentTxAck])
    IN  /\ st[e].firing = "ACK"
        /\ IF s.pendingAcks
           THEN TransmitFrom(e, t, TRUE)
           ELSE /\ st' = [st EXCEPT ![e] = ScheduleLinkControlPacket(s)]
                /\ UNCHANGED wire
        /\ UNCHANGED <<epoch, pushed, got, losses>>

ResendControlAlarm(e) ==
    /\ st[e].firing = "CONTROL"
    /\ st' = [st EXCEPT ![e] =
                 ScheduleLinkControlPacket([st[e] EXCEPT !.firing = "none"])]
    /\ UNCHANGED <<wire, epoch, pushed, got, losses>>

\* The UART controller read a packet that passed Validate.
ReadEventTriggered(e) ==
    /\ wire[e] # << >>
    /\ LET p == Head(wire[e])
           s == st[e]
       IN  /\ st' = [st EXCEPT ![e] =
                        CASE IsData(p)        -> ProcessData(s, p)
                          [] p.type = "ACK"   -> ProcessAckNum(s, p.ack)
                          [] OTHER            -> ProcessControlPacket(s, e, p)]
           /\ got' = IF Accepted(s, p) THEN [got EXCEPT ![e] = Append(@, p.pay)] ELSE got
    /\ wire' = [wire EXCEPT ![e] = Tail(@)]
    /\ UNCHANGED <<epoch, pushed, losses>>

\* One packet of PushBytes.
PushBytes(e) ==
    LET s == st[e]
        pkt == [type |-> "DATA", seq |-> s.txSeqNum, ack |-> 0,
                pay |-> <<epoch[e], pushed[e]>>]
    IN  /\ s.link # "DEAD"
        /\ s.txFree > 0
        /\ pushed[e] < MaxPush[e]
        /\ pushed' = [pushed EXCEPT ![e] = @ + 1]
        /\ st' = [st EXCEPT ![e] =
                     Arm([s EXCEPT !.txFree = @ - 1,
                                   !.txSeqNum = (@ + 1) % 8,
                                   !.txQueue = Append(@, pkt),
                                   !.sink = @ /\ s.txFree > 1], "SEND")]
        /\ UNCHANGED <<wire, epoch, got, losses>>

\* One packet of PullBytes.
PullBytes(e) ==
    LET s == st[e] IN
    /\ s.link # "DEAD"
    /\ s.rxQueue > 0
    /\ st' = [st EXCEPT ![e] = [s EXCEPT !.rxQueue = @ - 1, !.rxFree = @ + 1,
                                         !.source = @ /\ s.rxQueue > 1]]
    /\ UNCHANGED <<wire, epoch, pushed, got, losses>>

\* Close up to its wait for m_deadEvent.  A user closes when it wants to, or
\* once it learns that the link is dead.
Close(e) ==
    LET s == st[e] IN
    /\ s.close = "open"
    /\ e \in Closers \/ s.link = "DEAD"
    /\ \E ver \in (IF s.ver = Garbage THEN {0, 1} ELSE {s.ver}) :
          st' = [st EXCEPT ![e] =
                    IF ver < DISCONNECT_FEATURE \/ s.link = "DEAD"
                    THEN [s EXCEPT !.link = "DEAD", !.close = "closed"]
                    ELSE ScheduleLinkControlPacket([s EXCEPT !.link = "DYING",
                                                             !.close = "closing"])]
    /\ UNCHANGED <<wire, epoch, pushed, got, losses>>

\* Close after the wait: the DISCONN_RESP has come, or 800 ms have passed.
CloseReturns(e) ==
    /\ st[e].close = "closing"
    /\ st' = [st EXCEPT ![e] =
                 [(IF st[e].link = "DEAD" THEN st[e] ELSE Dead(st[e]))
                     EXCEPT !.close = "closed"]]
    /\ UNCHANGED <<wire, epoch, pushed, got, losses>>

\* The port is opened again, after Close or because the process went down.
\* Opening flushes the UART: what had not left this end, and what had already
\* reached it, is gone.
Reopen(e) ==
    /\ epoch[e] < MaxOpen[e]
    /\ epoch' = [epoch EXCEPT ![e] = @ + 1]
    /\ st' = [st EXCEPT ![e] = ScheduleLinkControlPacket(NewStream(e))]
    /\ \E i \in 0..Len(wire[e]), j \in 0..Len(wire[Peer(e)]) :
          wire' = [wire EXCEPT ![e] = SubSeq(@, i + 1, Len(@)),
                               ![Peer(e)] = SubSeq(@, 1, j)]
    /\ pushed' = [pushed EXCEPT ![e] = 0]
    /\ got' = [got EXCEPT ![e] = << >>]
    /\ UNCHANGED losses

\* A packet that fails the CRC is discarded.
Lose(e) ==
    /\ losses < MaxLoss
    /\ wire[e] # << >>
    /\ losses' = losses + 1
    /\ wire' = [wire EXCEPT ![e] = Tail(@)]
    /\ UNCHANGED <<st, epoch, pushed, got>>

Init ==
    /\ st = [e \in End |-> ScheduleLinkControlPacket(NewStream(e))]
    /\ wire = [e \in End |-> << >>]
    /\ epoch = [e \in End |-> 1]
    /\ pushed = [e \in End |-> 0]
    /\ got = [e \in End |-> << >>]
    /\ losses = 0

\* The state both ends reach once the link is negotiated and the alarms of the
\* establishment have run out.
AgreedConf == [win  |-> SmallerOf(MaxWindow["A"], MaxWindow["B"]),
               size |-> SmallerOf(MaxPacket["A"], MaxPacket["B"]),
               ver  |-> PROTOCOL_VERSION]

InitActive ==
    /\ st = [e \in End |->
                [NewStream(e) EXCEPT !.link = "ACTIVE", !.conf = AgreedConf,
                    !.win = AgreedConf.win, !.size = AgreedConf.size, !.ver = AgreedConf.ver,
                    !.txFree = AgreedConf.win, !.rxFree = AgreedConf.win,
                    !.sink = TRUE]]
    /\ wire = [e \in End |-> << >>]
    /\ epoch = [e \in End |-> 1]
    /\ pushed = [e \in End |-> 0]
    /\ got = [e \in End |-> << >>]
    /\ losses = 0

AlarmTriggered(e) ==
    SendDataAlarm(e) \/ ResendDataAlarm(e) \/ AckAlarm(e) \/ ResendControlAlarm(e)

Step(e) ==
    \/ \E a \in {"SEND", "RESEND", "ACK", "CONTROL"} : AlarmDue(e, a)
    \/ AlarmTriggered(e)
    \/ ReadEventTriggered(e)
    \/ PushBytes(e) \/ PullBytes(e)
    \/ Close(e) \/ CloseReturns(e) \/ Reopen(e)
    \/ Lose(e)

Next == \E e \in End : Step(e)

Spec == Init /\ [][Next]_vars

\* The timer thread and the UART controller keep running, and so does the
\* reader; nothing is assumed of those who push, close or reopen.  Alarms are
\* handled in the order of their times, so none waits for ever behind others.
Fairness ==
    \A e \in End :
        /\ \A a \in {"SEND", "RESEND", "ACK", "CONTROL"} : SF_vars(AlarmDue(e, a))
        /\ SF_vars(AlarmTriggered(e))
        /\ WF_vars(ReadEventTriggered(e))
        /\ WF_vars(PullBytes(e))

SpecActive == InitActive /\ [][Next]_vars
LiveSpec == Spec /\ Fairness
LiveSpecActive == SpecActive /\ Fairness

-----------------------------------------------------------------------------
(* Properties.                                                             *)

DataIn(q) == Len(OfType(q, {"DATA"}))

\* The first packet not yet delivered to the link, and the first not released.
Snt(e) == pushed[e] - DataIn(st[e].txQueue) - DataIn(st[e].txCurrent)
Una(e) == Snt(e) - Len(st[e].txSent)

\* Type invariant.
TypeOK ==
    /\ \A e \in End :
          /\ st[e].link \in {"UNINITIALIZED", "INITIALIZED", "ACTIVE", "DYING", "DEAD"}
          /\ st[e].win \in {1, 2, 4} /\ st[e].ver \in {0, 1, Garbage}
          /\ {st[e].expectedSeq, st[e].txSeqNum, st[e].currentTxAck} \subseteq 0..7
          /\ st[e].txFree \in 0..4 /\ st[e].rxFree \in 0..4 /\ st[e].rxQueue \in 0..4
          /\ st[e].alarms \subseteq {"SEND", "RESEND", "ACK", "CONTROL"}
          /\ st[e].firing \in {"none", "SEND", "RESEND", "ACK", "CONTROL"}
          /\ Len(st[e].txCurrent) <= 1
          /\ Len(wire[e]) <= WireCap
    /\ losses \in 0..MaxLoss

\* Each of the windowSize write packets allocated at configuration is in one
\* place: free, queued, being delivered, or sent and not acknowledged; the
\* read packets are free or on m_rxQueue.  EnqueueCtrl: "It would NOT be OK for
\* the unreliable packet to get queued twice": m_txCtrl is only ever at the head
\* of m_txQueue, whatever order acks, control packets and resends come in.
BuffersConserved ==
    \A e \in End : LET s == st[e] IN
        LET inUse == DataIn(s.txQueue) + DataIn(s.txCurrent) + Len(s.txSent)
        IN  /\ IF s.txFree + inUse + s.rxFree + s.rxQueue = 0
               THEN s.link # "ACTIVE"
               ELSE s.txFree + inUse = s.win /\ s.rxFree + s.rxQueue = s.win
            /\ \A i \in 2..Len(s.txQueue) : s.txQueue[i] # CtrlRef

\* The reader gets what one life of the other end pushed, in order and once.
DeliveredInOrder ==
    \A e \in End : \A i \in 1..Len(got[e]) :
        got[e][i] = <<got[e][1][1], i - 1>>

\* Two ends that both consider the link up use the same window, packet size
\* and version, and they are the smaller of what each supports.
ParamsAgree ==
    (\A e \in End : st[e].link = "ACTIVE") =>
        \A e \in End : [win |-> st[e].win, size |-> st[e].size, ver |-> st[e].ver]
                           = AgreedConf

\* When the link dies under its user, whoever waits in PullBytes or PushBytes
\* has been woken up, and stays so: no later Reset of the events undoes it.
DeadWakesWaiters ==
    \A e \in End : st[e].link = "DEAD" /\ st[e].close # "closed" =>
                        st[e].source /\ st[e].sink

\* Close that was answered by DISCONN_RESP leaves no half of the link behind:
\* the other end is down too, or on its way.
DisconnectAgreed ==
    \A e \in End : st[e].close = "closing" /\ st[e].link = "DEAD" =>
                        st[Peer(e)].link \in {"DYING", "DEAD"}

\* A writer finds the sink event set when there is a free packet, a reader
\* finds the source event set when there is something to read.
EventsMatchQueues ==
    \A e \in End : LET s == st[e] IN
        /\ s.txFree > 0 => s.sink
        /\ s.rxQueue > 0 => s.source

\* An unacknowledged packet is never forgotten: while the link is up, m_txSent
\* is not empty only if the resend alarm is armed or its handler is waiting
\* for the lock.
SentHasResend ==
    \A e \in End : st[e].link = "ACTIVE" /\ st[e].txSent # << >> =>
        "RESEND" \in st[e].alarms \/ st[e].firing = "RESEND"

\* TransmitToLink: "Nothing to send so we go idle".  An end of an active link
\* with no alarm armed or firing has nothing left to deliver.
IdleHasNothingToSend ==
    \A e \in End : /\ st[e].link = "ACTIVE"
                    /\ st[e].alarms = {} /\ st[e].firing = "none"
                 => st[e].txCurrent = << >> /\ st[e].txQueue = << >>

\* A packet is released at the sender only if the other end, as long as it was
\* not itself reopened, has put that very packet on its m_rxQueue.
ReleasedWasDelivered ==
    \A e \in End : epoch[Peer(e)] = 1 =>
        \A n \in 0..(Una(e) - 1) :
            \E i \in 1..Len(got[Peer(e)]) : got[Peer(e)][i] = <<epoch[e], n>>

\* Both directions of an established link implement the window protocol.
DataWire(e) ==
    LET data == OfType(wire[Peer(e)], {"DATA"})
    IN  [i \in 1..Len(data) |-> [n |-> data[i].pay[2], seq |-> data[i].seq]]
AckWire(e) ==
    LET acks == OfType(wire[e], {"DATA", "ACK"})
        una == Una(e)
    IN  [i \in 1..Len(acks) |->
            [ack |-> acks[i].ack, upto |-> una + ((acks[i].ack - una) % 8)]]

FromA == INSTANCE SLAPWindow
    WITH Window <- AgreedConf.win, MaxData <- MaxPush["A"], MaxWire <- 2 * WireCap,
         nxt <- pushed["A"], una <- Una("A"), snt <- Snt("A"),
         dataWire <- DataWire("A"), ackWire <- AckWire("A"),
         rcvd <- [i \in 1..Len(got["B"]) |-> got["B"][i][2]],
         pulled <- Len(got["B"]) - st["B"].rxQueue,
         expectedSeq <- st["B"].expectedSeq, currentTxAck <- st["B"].currentTxAck
FromB == INSTANCE SLAPWindow
    WITH Window <- AgreedConf.win, MaxData <- MaxPush["B"], MaxWire <- 2 * WireCap,
         nxt <- pushed["B"], una <- Una("B"), snt <- Snt("B"),
         dataWire <- DataWire("B"), ackWire <- AckWire("B"),
         rcvd <- [i \in 1..Len(got["A"]) |-> got["A"][i][2]],
         pulled <- Len(got["A"]) - st["A"].rxQueue,
         expectedSeq <- st["A"].expectedSeq, currentTxAck <- st["A"].currentTxAck

WindowFromA == FromA!Spec
WindowFromB == FromB!Spec

\* Without a Close the two ends find each other: both become active, although
\* a single control packet buffer is shared by everything either has to say.
Establishes == <>(\A e \in End : st[e].link = "ACTIVE")

\* Whatever is pushed on a link that stays up reaches the other end, is
\* acknowledged and leaves the writer all its packets free again, even if it was
\* pushed while the other end was still negotiating.
AllDelivered ==
    \A e \in End : []<>(Len(got[Peer(e)]) = pushed[e] /\ st[e].txFree = AgreedConf.win)
=============================================================================
