--------------------------- MODULE SLAPOrderProofs ---------------------------
(***************************************************************************)
(* The order of packets in the SLAP stream, for all windows, any number of *)
(* packets and losses, on a UART that never refuses and as long as neither *)
(* end is reopened: what is delivered is what was pushed, what is released *)
(* was delivered, and each direction implements the window protocol.       *)
(***************************************************************************)
EXTENDS SLAPStreamProofs

-----------------------------------------------------------------------------
(* The inductive invariant, for one direction: s sends, r receives, P      *)
(* packets were pushed, the packets g were put on m_rxQueue, w is the wire *)
(* from s to r and v the wire back.                                        *)

Win == AgreedConf.win

\* The data packets that wait on m_txQueue, and all that are not acknowledged.
Waits(s) == IF s.txQueue # << >> /\ Head(s.txQueue) = CtrlRef THEN Tail(s.txQueue)
            ELSE s.txQueue
Unacked(s) == s.txSent \o Waits(s)
First(s, P) == P - Len(Unacked(s))
Sent(s, P) == P - Len(Waits(s))

\* Packet p is the n-th one pushed.
IsNth(p, n) == p.pay = <<1, n>> /\ p.seq = n % 8

SendOrder(s, P) ==
    /\ P \in Nat /\ First(s, P) \in Nat /\ Len(Unacked(s)) <= Win
    /\ s.txSeqNum = P % 8
    /\ \A i \in 1..Len(Unacked(s)) : IsNth(Unacked(s)[i], First(s, P) + i - 1)

\* An end that was never configured has no buffers and has received nothing.
Unset(s) == s.rxFree = 0 /\ s.rxQueue = 0

RecvOrder(r, g) ==
    /\ g \in Seq(Nat \X Nat) /\ \A i \in 1..Len(g) : g[i] = <<1, i - 1>>
    /\ r.expectedSeq = Len(g) % 8 /\ r.currentTxAck = Len(g) % 8
    /\ r.rxQueue <= Len(g)
    /\ Unset(r) => g = << >>

\* What is on the wire is within a window of what the receiver expects, and no
\* packet is a window or more ahead of one that follows it.
Near(p, R, sent) ==
    p.type = "DATA" => /\ p.pay[2] \in Nat /\ IsNth(p, p.pay[2])
                       /\ p.pay[2] < sent /\ R <= p.pay[2] + Win
Ahead(p, q) == p.type = "DATA" /\ q.type = "DATA" => p.pay[2] < q.pay[2] + Win
DataOrder(w, R, sent) ==
    /\ \A i \in 1..Len(w) : Near(w[i], R, sent)
    /\ \A i, j \in 1..Len(w) : i < j => Ahead(w[i], w[j])

\* An ack names a packet from the first unacknowledged one to the next one
\* expected, and none names an earlier one than the ack before it.
Acks(p) == p.type \in {"DATA", "ACK"}
Names(p, una) == (p.ack - una) % 8
AckOrder(v, una, R) ==
    /\ \A i \in 1..Len(v) : Acks(v[i]) => Names(v[i], una) <= R - una
    /\ \A i, j \in 1..Len(v) :
          i < j /\ Acks(v[i]) /\ Acks(v[j]) => Names(v[i], una) <= Names(v[j], una)

Dir(s, P, w, r, g, v) ==
    /\ SendOrder(s, P) /\ RecvOrder(r, g)
    /\ First(s, P) <= Len(g) /\ Len(g) <= Sent(s, P)
    /\ DataOrder(w, Len(g), Sent(s, P))
    /\ AckOrder(v, First(s, P), Len(g))

\* An end that has buffers uses the window that was agreed.
Settled(e, s) == s.win \in {MaxWindow[e], Win} /\ (Unset(s) \/ s.win = Win)

OrderInv ==
    /\ got = [e \in End |-> got[e]]
    /\ \A e \in End :
          /\ epoch[e] = 1 /\ Settled(e, st[e])
          /\ Dir(st[e], pushed[e], wire[Peer(e)], st[Peer(e)], got[Peer(e)], wire[e])

-----------------------------------------------------------------------------
(* What a method leaves alone.                                             *)

\* The end sends the same packets, and expects the same one.
SameSend(s, t) ==
    t.txSent = s.txSent /\ Waits(t) = Waits(s) /\ t.txSeqNum = s.txSeqNum
SameRecv(s, t) ==
    /\ t.expectedSeq = s.expectedSeq /\ t.currentTxAck = s.currentTxAck
    /\ t.rxQueue = s.rxQueue /\ (Unset(t) => Unset(s))
Keep(e, s, t) == SameSend(s, t) /\ SameRecv(s, t) /\ (Settled(e, s) => Settled(e, t))

\* The fields that matter to the order of packets.
SameFields(s, t) ==
    /\ t.txSent = s.txSent /\ t.txSeqNum = s.txSeqNum
    /\ t.expectedSeq = s.expectedSeq /\ t.currentTxAck = s.currentTxAck
    /\ t.win = s.win /\ t.rxFree = s.rxFree /\ t.rxQueue = s.rxQueue

LEMMA WaitsData ==
    ASSUME NEW e, NEW s \in Stream(e), CtrlFirst(s)
    PROVE  /\ Waits(s) \in Seq(DataPacket) /\ s.txSent \in Seq(DataPacket)
           /\ Unacked(s) \in Seq(DataPacket)
           /\ Len(Waits(s)) \in Nat /\ Len(s.txSent) \in Nat
           /\ Len(Unacked(s)) = Len(s.txSent) + Len(Waits(s))
           /\ DataIn(s.txQueue) = Len(Waits(s))
           /\ s.txQueue = Waits(s) \/ s.txQueue = <<CtrlRef>> \o Waits(s)
<1>2. PICK q, D : q = s.txQueue /\ D = Waits(s)
  OBVIOUS
<1>3. q \in Seq(Item) /\ s.txSent \in Seq(DataPacket)
      /\ \A i \in 2..Len(q) : q[i].type = "DATA"
  BY <1>2, StreamFields DEF CtrlFirst
<1>4. D = IF q # << >> /\ Head(q) = CtrlRef THEN Tail(q) ELSE q
  BY <1>2 DEF Waits
<1>5. D \in Seq(DataPacket) /\ (q = D \/ q = <<CtrlRef>> \o D)
  BY ONLY <1>3, <1>4, QueueShape, Zenon
<1>6. DataIn(q) = Len(D)
  BY ONLY <1>5, DataQueue
<1>7. PICK x : x = s.txSent
  OBVIOUS
<1>8. x \in Seq(DataPacket)
  BY <1>3, <1>7
<1>9. x \o D \in Seq(DataPacket) /\ Len(x \o D) = Len(x) + Len(D) /\ Len(x) \in Nat
      /\ Len(D) \in Nat
  BY ONLY <1>5, <1>8
<1> QED
  BY ONLY <1>2, <1>5, <1>6, <1>7, <1>8, <1>9 DEF Unacked

\* The data packets of a queue of this shape are what Waits returns.
LEMMA WaitsOf ==
    ASSUME NEW D \in Seq(DataPacket), NEW s, s.txQueue = D \/ s.txQueue = <<CtrlRef>> \o D
    PROVE  Waits(s) = D
<1>1. PICK q : q = s.txQueue
  OBVIOUS
<1>2. CASE q = D
  <2>1. q # << >> => Head(q) \in DataPacket
    BY <1>2
  <2>2. ~(q # << >> /\ Head(q) = CtrlRef)
    BY <2>1, PacketTypes
  <2> QED
    BY ONLY <1>1, <1>2, <2>2, Zenon DEF Waits
<1>3. CASE q = <<CtrlRef>> \o D
  <2>1. q # << >> /\ Head(q) = CtrlRef /\ Tail(q) = D
    <3>1. q = <<CtrlRef>> \o D /\ D \in Seq(DataPacket \cup {CtrlRef})
      BY <1>3
    <3> QED
      BY ONLY <3>1
  <2> QED
    BY ONLY <1>1, <2>1, Zenon DEF Waits
<1> QED
  BY <1>1, <1>2, <1>3

LEMMA KeepFields ==
    ASSUME NEW e, NEW s, NEW t, s.rxQueue \in Nat, SameFields(s, t), Waits(t) = Waits(s)
    PROVE  Keep(e, s, t)
<1>1. SameSend(s, t) /\ (Settled(e, s) => Settled(e, t)) /\ (Unset(t) => Unset(s))
  BY Zenon DEF SameFields, SameSend, Settled, Unset
<1>2. SameRecv(s, t)
  BY <1>1 DEF SameFields, SameRecv
<1> QED
  BY <1>1, <1>2, Zenon DEF Keep

LEMMA KeepQueue ==
    ASSUME NEW e, NEW s, NEW t, s.rxQueue \in Nat, SameFields(s, t), t.txQueue = s.txQueue
    PROVE  Keep(e, s, t)
<1>1. Waits(t) = Waits(s)
  BY Zenon DEF Waits
<1> QED
  BY <1>1, KeepFields

LEMMA KeepSelf ==
    ASSUME NEW e, NEW s, s.rxQueue \in Nat PROVE Keep(e, s, s)
<1>1. SameFields(s, s)
  BY DEF SameFields
<1> QED
  BY <1>1, KeepFields

LEMMA KeepTrans ==
    ASSUME NEW e, NEW s, NEW t, NEW u, s.rxQueue \in Nat, t.rxQueue \in Nat, u.rxQueue \in Nat,
           Keep(e, s, t), Keep(e, t, u)
    PROVE  Keep(e, s, u)
<1>1. SameSend(s, u) /\ (Settled(e, s) => Settled(e, u))
  BY Zenon DEF Keep, SameSend
<1>2. u.rxQueue = s.rxQueue
  BY DEF Keep, SameRecv
<1>3. SameRecv(s, u)
  BY <1>2, Zenon DEF Keep, SameRecv
<1> QED
  BY <1>1, <1>3, Zenon DEF Keep

LEMMA KeepFill ==
    ASSUME NEW e, NEW s \in Stream(e), CtrlFirst(s), NEW p PROVE Keep(e, s, FillCtrl(s, p))
<1>1. s \in Stream(e) /\ s.rxQueue \in Nat
  BY StreamFields
<1>2. PICK c, q : /\ c = IF s.txCurrent # << >> /\ s.txCurrent[1].type # "DATA" THEN <<Junk>>
                         ELSE s.txCurrent
                  /\ q = IF s.txQueue # << >> /\ Head(s.txQueue) = CtrlRef THEN s.txQueue
                         ELSE <<CtrlRef>> \o s.txQueue
  OBVIOUS
<1>3. PICK t : t = FillCtrl(s, p)
  OBVIOUS
<1>4. t = [s EXCEPT !.txCtrl = p, !.txCurrent = c, !.txQueue = q]
  BY <1>2, <1>3 DEF FillCtrl
<1>5. SameFields(s, t) /\ t.txQueue = q
  BY <1>1, <1>4 DEF Stream, SameFields
<1>6. Waits(s) \in Seq(DataPacket)
      /\ (s.txQueue = Waits(s) \/ s.txQueue = <<CtrlRef>> \o Waits(s))
  BY WaitsData
<1>7. q = Waits(s) \/ q = <<CtrlRef>> \o Waits(s)
  <2>1. CASE s.txQueue # << >> /\ Head(s.txQueue) = CtrlRef
    BY <1>2, <1>6, <2>1, Zenon
  <2>2. CASE ~(s.txQueue # << >> /\ Head(s.txQueue) = CtrlRef)
    <3>1. Waits(s) = s.txQueue
      BY <2>2, Zenon DEF Waits
    <3> QED
      BY <1>2, <2>2, <3>1, Zenon
  <2> QED
    BY <2>1, <2>2
<1>8. Waits(t) = Waits(s)
  BY ONLY <1>5, <1>6, <1>7, WaitsOf
<1> QED
  BY <1>1, <1>3, <1>5, <1>8, KeepFields

LEMMA KeepArm ==
    ASSUME NEW e, NEW s, s \in Stream(e), NEW a PROVE Keep(e, s, Arm(s, a))
<1>1. s.rxQueue \in Nat
  BY StreamFields
<1>2. PICK t : t = Arm(s, a)
  OBVIOUS
<1>3. SameFields(s, t) /\ t.txQueue = s.txQueue
  BY <1>2 DEF Arm, Stream, SameFields
<1> QED
  BY <1>1, <1>2, <1>3, KeepQueue

LEMMA KeepEnqueue ==
    ASSUME NEW e, NEW s \in Stream(e), CtrlFirst(s), NEW type, NEW c
    PROVE  Keep(e, s, EnqueueCtrl(s, type, c))
<1>1. PICK u, t : u = FillCtrl(s, Ctrl(type, c)) /\ t = Arm(u, "SEND")
  OBVIOUS
<1>2. Keep(e, s, u) /\ s.rxQueue \in Nat
  BY <1>1, KeepFill, StreamFields
<1>3. SameFields(u, t) /\ t.txQueue = u.txQueue /\ u.rxQueue = s.rxQueue
      /\ t.rxQueue = s.rxQueue
  BY <1>1 DEF FillCtrl, Arm, Stream, SameFields
<1>4. Keep(e, u, t)
  BY <1>2, <1>3, KeepQueue
<1>7. Keep(e, s, t)
  BY ONLY <1>2, <1>3, <1>4, KeepTrans
<1> QED
  BY <1>1, <1>7 DEF EnqueueCtrl

LEMMA KeepSchedule ==
    ASSUME NEW e, NEW s, StreamOK(e, s) PROVE Keep(e, s, ScheduleLinkControlPacket(s))
<1>1. s \in Stream(e) /\ s.link \in Links /\ s.rxQueue \in Nat
      /\ (s.link = "INITIALIZED" => s.conf \in Proposals(e))
  BY StreamFields DEF StreamOK, Core, Params
<1>2. ASSUME NEW type \in {"CONN", "NEGO", "DISCONN"}, type = "NEGO" => s.conf \in Proposals(e)
      PROVE  Keep(e, s, Arm(EnqueueCtrl(s, type, s.conf), "CONTROL"))
  <2>1. PICK u, t : u = EnqueueCtrl(s, type, s.conf) /\ t = Arm(u, "CONTROL")
    OBVIOUS
  <2>2. Ctrl(type, s.conf) \in Control(e) /\ Ctrl(type, s.conf).type = type
    BY <1>2, CtrlPacket, NegoPacket
  <2>3. Core(e, s)
    BY DEF StreamOK
  <2>a. s \in Stream(e) /\ CtrlFirst(s)
    BY <2>3 DEF Core
  <2>4. Core(e, u) /\ Keep(e, s, u)
    BY <2>1, <2>2, <2>3, <2>a, EnqueueKeeps, KeepEnqueue
  <2>5. "CONTROL" \in AlarmTypes
    BY DEF AlarmTypes
  <2>6. Core(e, t)
    BY <2>1, <2>4, <2>5, ArmKeeps
  <2>7. u \in Stream(e) /\ t \in Stream(e)
    BY <2>4, <2>6 DEF Core
  <2>8. Keep(e, u, t) /\ u.rxQueue \in Nat /\ t.rxQueue \in Nat
    BY <2>1, <2>7, KeepArm, StreamFields
  <2>9. Keep(e, s, t)
    BY ONLY <1>1, <2>4, <2>8, KeepTrans
  <2> QED
    BY <2>1, <2>9
<1>3. CASE s.link = "UNINITIALIZED"
  BY <1>2, <1>3 DEF ScheduleLinkControlPacket
<1>4. CASE s.link = "INITIALIZED"
  BY <1>1, <1>2, <1>4 DEF ScheduleLinkControlPacket
<1>5. CASE s.link = "DYING"
  BY <1>2, <1>5 DEF ScheduleLinkControlPacket
<1>6. CASE s.link \in {"ACTIVE", "DEAD"}
  <2>1. ScheduleLinkControlPacket(s) = s
    BY <1>6 DEF ScheduleLinkControlPacket
  <2> QED
    BY <1>1, <2>1, KeepSelf
<1> QED
  BY <1>1, <1>3, <1>4, <1>5, <1>6 DEF Links

LEMMA KeepDead ==
    ASSUME NEW e, NEW s, s \in Stream(e) PROVE Keep(e, s, Dead(s))
<1>1. s.rxQueue \in Nat
  BY StreamFields
<1>2. PICK t : t = Dead(s)
  OBVIOUS
<1>3. SameFields(s, t) /\ t.txQueue = s.txQueue
  BY <1>2 DEF Dead, Stream, SameFields
<1> QED
  BY <1>1, <1>2, <1>3, KeepQueue

LEMMA KeepConfigure ==
    ASSUME NEW e \in End, NEW s, StreamOK(e, s), s.link = "INITIALIZED"
    PROVE  Keep(e, s, Configure(s, e, AgreedConf))
<1>1. s \in Stream(e) /\ s.rxQueue \in Nat /\ NoPackets(s)
  BY StreamFields DEF StreamOK, Core, Buffers
<1>2. PICK t : t = Configure(s, e, AgreedConf)
  OBVIOUS
<1>3. Win \in {1, 2, 4} /\ ~(AgreedConf.size > MaxPacket[e] \/ AgreedConf.win > MaxWindow[e])
  BY ConfFacts DEF Win
<1>4. t = [s EXCEPT !.size = AgreedConf.size, !.win = Win, !.ver = AgreedConf.ver,
                    !.txFree = s.txFree + Win, !.rxFree = s.rxFree + Win,
                    !.link = "ACTIVE", !.sink = TRUE]
  BY <1>1, <1>2, <1>3 DEF Configure, Stream, Win
<1>5. /\ t.txSent = s.txSent /\ t.txSeqNum = s.txSeqNum /\ t.txQueue = s.txQueue
      /\ t.expectedSeq = s.expectedSeq /\ t.currentTxAck = s.currentTxAck
      /\ t.win = Win /\ t.rxQueue = s.rxQueue
  BY <1>1, <1>4 DEF Stream
<1>6. SameSend(s, t)
  BY <1>5, Zenon DEF SameSend, Waits
<1>7. SameRecv(s, t)
  BY <1>1, <1>5 DEF SameRecv, Unset, NoPackets
<1>8. Settled(e, t)
  BY <1>5 DEF Settled
<1> QED
  BY <1>2, <1>6, <1>7, <1>8 DEF Keep

LEMMA KeepAgree ==
    ASSUME NEW e \in End, NEW s, StreamOK(e, s), s.link = "INITIALIZED",
           NEW c \in Proposals(Peer(e))
    PROVE  Keep(e, s, Agree(s, e, c))
<1>1. PICK u : u = AgreedAs(s)
  OBVIOUS
<1>2. Agree(s, e, c) = EnqueueCtrl(u, "NEGO_RESP", AgreedConf) /\ StreamOK(e, u)
  BY <1>1, AgreeIs
<1>3. s \in Stream(e) /\ u \in Stream(e) /\ s.rxQueue \in Nat /\ u.rxQueue \in Nat /\ NoPackets(s)
  BY <1>2, StreamFields DEF StreamOK, Core, Buffers
<1>5. /\ u.txSent = s.txSent /\ u.txSeqNum = s.txSeqNum /\ u.txQueue = s.txQueue
      /\ u.expectedSeq = s.expectedSeq /\ u.currentTxAck = s.currentTxAck
      /\ u.win = Win /\ u.rxQueue = s.rxQueue /\ u.rxFree = s.rxFree
  BY <1>1, <1>3 DEF AgreedAs, Stream, Win
<1>6. SameSend(s, u)
  BY <1>5, Zenon DEF SameSend, Waits
<1>7. SameRecv(s, u)
  BY <1>3, <1>5 DEF SameRecv, Unset
<1>8. Settled(e, u)
  BY <1>5 DEF Settled
<1>9. Keep(e, s, u)
  BY <1>6, <1>7, <1>8 DEF Keep
<1>10. PICK t : t = EnqueueCtrl(u, "NEGO_RESP", AgreedConf)
  OBVIOUS
<1>11. Ctrl("NEGO_RESP", AgreedConf) \in Control(e)
       /\ Ctrl("NEGO_RESP", AgreedConf).type = "NEGO_RESP" /\ Core(e, u)
  BY <1>2, NegoRespPacket DEF StreamOK
<1>a. u \in Stream(e) /\ CtrlFirst(u)
  BY <1>11 DEF Core
<1>12. Keep(e, u, t) /\ Core(e, t)
  BY <1>10, <1>11, <1>a, KeepEnqueue, EnqueueKeeps
<1>13. t.rxQueue \in Nat
  BY <1>12, StreamFields DEF Core
<1>14. Keep(e, s, t)
  BY ONLY <1>3, <1>9, <1>12, <1>13, KeepTrans
<1> QED
  BY <1>2, <1>10, <1>14

\* EnqueueCtrl on an end whose link state or proposal was just set.
LEMMA KeepEnqueueConf ==
    ASSUME NEW e, NEW s, StreamOK(e, s), NEW l \in Links, NEW c \in Proposals(e), NEW type,
           NEW u, u = [s EXCEPT !.link = l, !.conf = c] \/ u = [s EXCEPT !.conf = c],
           NEW t, t = EnqueueCtrl(u, type, c), t.rxQueue \in Nat
    PROVE  Keep(e, s, t)
<1>1. s \in Stream(e) /\ CtrlFirst(s) /\ s.rxQueue \in Nat
  BY StreamFields DEF StreamOK, Core
<1>2. u \in Stream(e) /\ u.txQueue = s.txQueue /\ SameFields(s, u) /\ u.rxQueue = s.rxQueue
  <2>1. CASE u = [s EXCEPT !.link = l, !.conf = c]
    BY <1>1, <2>1 DEF Stream, SameFields
  <2>2. CASE u = [s EXCEPT !.conf = c]
    BY <1>1, <2>2 DEF Stream, SameFields
  <2> QED
    BY <2>1, <2>2
<1>3. CtrlFirst(u) /\ Keep(e, s, u)
  BY <1>1, <1>2, KeepQueue DEF CtrlFirst
<1>4. Keep(e, u, t)
  BY <1>2, <1>3, KeepEnqueue
<1> QED
  BY ONLY <1>1, <1>2, <1>3, <1>4, t.rxQueue \in Nat, KeepTrans

\* No control packet changes what is sent and expected.
LEMMA KeepControl ==
    ASSUME NEW e \in End, NEW s, StreamOK(e, s), NEW p \in Packet(Peer(e)),
           p.type \notin {"DATA", "ACK"}
    PROVE  Keep(e, s, ProcessControlPacket(s, e, p))
<1> DEFINE t == ProcessControlPacket(s, e, p)
           is(link, type) == s.link = link /\ p.type = type
           now == [win |-> s.win, size |-> s.size, ver |-> s.ver]
<1>1. s.link \in Links /\ Core(e, s) /\ s \in Stream(e) /\ CtrlFirst(s) /\ s.rxQueue \in Nat
      /\ Params(e, s)
  BY StreamFields DEF StreamOK, Core
<1>a. t.rxQueue \in Nat
  <2>1. PICK u : u = t
    OBVIOUS
  <2>2. StreamOK(e, u)
    BY <2>1, ControlKeeps
  <2> QED
    BY <2>1, <2>2, StreamFields DEF StreamOK, Core
<1>2. CASE is("UNINITIALIZED", "CONN") \/ is("INITIALIZED", "CONN")
  <2>1. t = EnqueueCtrl(s, "ACCEPT", NoConf)
    BY <1>2 DEF ProcessControlPacket
  <2> QED
    BY <1>1, <2>1, KeepEnqueue
<1>3. CASE is("UNINITIALIZED", "ACCEPT")
  <2>1. PICK u : u = [s EXCEPT !.link = "INITIALIZED", !.conf = Own(e)]
    OBVIOUS
  <2>2. t = EnqueueCtrl(u, "NEGO", Own(e))
    BY <1>3, <2>1 DEF ProcessControlPacket, Own
  <2>3. "INITIALIZED" \in Links /\ Own(e) \in Proposals(e)
    BY DEF Links, Proposals
  <2> HIDE DEF t
  <2> QED
    BY <1>a, <2>1, <2>2, <2>3, KeepEnqueueConf DEF t
<1>4. CASE is("INITIALIZED", "NEGO_RESP")
  <2>1. t = Configure(s, e, p.conf)
    BY <1>4 DEF ProcessControlPacket
  <2>2. p.conf = AgreedConf
    BY <1>4 DEF Packet, Control, DataPacket
  <2> QED
    BY <1>4, <2>1, <2>2, KeepConfigure
<1>5. CASE is("INITIALIZED", "NEGO")
  <2>1. t = Agree(s, e, p.conf)
    BY <1>5 DEF ProcessControlPacket
  <2>2. p.conf \in Proposals(Peer(e))
    BY <1>5 DEF Packet, Control, DataPacket
  <2> QED
    BY <1>5, <2>1, <2>2, KeepAgree
<1>6. CASE is("ACTIVE", "NEGO")
  <2>1. PICK u, c : c = now /\ u = [s EXCEPT !.conf = c]
    OBVIOUS
  <2>2. t = EnqueueCtrl(u, "NEGO_RESP", c)
    BY <1>6, <2>1 DEF ProcessControlPacket
  <2>3. c \in Proposals(e)
    <3>1. s.win = AgreedConf.win /\ s.size = AgreedConf.size /\ s.ver = AgreedConf.ver
      BY <1>1, <1>6 DEF Params
    <3>2. AgreedConf = [win |-> AgreedConf.win, size |-> AgreedConf.size, ver |-> AgreedConf.ver]
      BY DEF AgreedConf
    <3>3. c = AgreedConf
      BY <2>1, <3>1, <3>2
    <3> QED
      BY <3>3 DEF Proposals
  <2> HIDE DEF t
  <2> QED
    BY <1>a, <1>1, <2>1, <2>2, <2>3, KeepEnqueueConf DEF t
<1>7. CASE is("ACTIVE", "CONN") \/ is("DYING", "DISCONN_RESP")
  <2>1. t = Dead(s)
    BY <1>7 DEF ProcessControlPacket
  <2> QED
    BY <1>1, <2>1, KeepDead
<1>8. CASE is("ACTIVE", "DISCONN")
  <2>1. PICK u : u = EnqueueCtrl(s, "DISCONN_RESP", NoConf)
    OBVIOUS
  <2>2. t = Dead(u)
    BY <1>8, <2>1 DEF ProcessControlPacket
  <2>3. Core(e, u) /\ Keep(e, s, u)
    <3>1. Ctrl("DISCONN_RESP", NoConf) \in Control(e)
          /\ Ctrl("DISCONN_RESP", NoConf).type = "DISCONN_RESP"
      BY CtrlPacket
    <3> QED
      BY <1>1, <2>1, <3>1, EnqueueKeeps, KeepEnqueue
  <2>4. u \in Stream(e) /\ u.rxQueue \in Nat
    BY <2>3, StreamFields DEF Core
  <2>5. PICK x : x = Dead(u)
    OBVIOUS
  <2>6. Keep(e, u, x) /\ x.rxQueue \in Nat
    BY <1>a, <2>2, <2>4, <2>5, KeepDead
  <2>7. Keep(e, s, x)
    BY ONLY <1>1, <2>3, <2>4, <2>6, KeepTrans
  <2> QED
    BY <2>2, <2>5, <2>7
<1>10. CASE is("DYING", "DISCONN")
  <2>1. t = EnqueueCtrl(s, "DISCONN_RESP", NoConf)
    BY <1>10 DEF ProcessControlPacket
  <2> QED
    BY <1>1, <2>1, KeepEnqueue
<1>11. CASE ~ \/ is("UNINITIALIZED", "CONN") \/ is("INITIALIZED", "CONN")
              \/ is("UNINITIALIZED", "ACCEPT") \/ is("INITIALIZED", "NEGO_RESP")
              \/ is("INITIALIZED", "NEGO") \/ is("ACTIVE", "NEGO") \/ is("ACTIVE", "CONN")
              \/ is("ACTIVE", "DISCONN") \/ is("DYING", "DISCONN_RESP") \/ is("DYING", "DISCONN")
  <2>1. t = s
    BY <1>11 DEF ProcessControlPacket
  <2> QED
    BY <1>1, <2>1, KeepSelf
<1> QED
  BY <1>2, <1>3, <1>4, <1>5, <1>6, <1>7, <1>8, <1>10, <1>11

-----------------------------------------------------------------------------
(* Sequence numbers.                                                       *)

LEMMA ModSame ==
    ASSUME NEW a \in Nat, NEW b \in Nat, a % 8 = b % 8, a < b + 8, b < a + 8 PROVE a = b
OBVIOUS

LEMMA ModNext ==
    ASSUME NEW a \in Nat PROVE ((a % 8) + 1) % 8 = (a + 1) % 8
OBVIOUS

LEMMA ModSmall ==
    ASSUME NEW a \in Nat, NEW b \in Nat, b <= a, a < b + 8 PROVE ((a % 8) - b) % 8 = a - b
OBVIOUS

LEMMA ModGap ==
    ASSUME NEW a \in Nat, NEW b \in Nat PROVE (7 + (a % 8) - (b % 8)) % 8 = (7 + a - b) % 8
OBVIOUS

LEMMA ModRange ==
    ASSUME NEW a \in Int, NEW u \in Int PROVE (a - u) % 8 \in 0..7
OBVIOUS

LEMMA ModShift ==
    ASSUME NEW a \in Int, NEW u \in Nat, NEW m \in Nat, m <= (a - u) % 8
    PROVE  (a - (u + m)) % 8 = ((a - u) % 8) - m
OBVIOUS

LEMMA ModAck ==
    ASSUME NEW a \in Int, NEW u \in Nat, NEW m \in Nat, m = (a - u) % 8, NEW i \in Nat, i > 0,
           NEW y, y = (u + i - 1) % 8, NEW d, d = (8 + m - i) % 8
    PROVE  (7 + a - y) % 8 = d
OBVIOUS

\* Within a window, SEQ_GT of the sequence numbers is the order of the packets.
LEMMA SeqGtOrder ==
    ASSUME NEW s, NEW W \in {1, 2, 4}, s.win = W, NEW a \in Nat, NEW b \in Nat,
           a <= b + W, b <= a + 3, NEW x, x = a % 8, NEW y, y = b % 8
    PROVE  SEQ_GT(s, x, y) <=> a > b
<1>1. W = s.win
  OBVIOUS
<1>2. (7 + (a % 8) - (b % 8)) % 8 = (7 + a - b) % 8
  BY ModGap
<1>3. PICK d : d = a - b
  OBVIOUS
<1>4. d \in Int /\ d <= W /\ -3 <= d /\ W \in {1, 2, 4} /\ (7 + a - b) % 8 = (7 + d) % 8
  BY <1>1, <1>3
<1>5. (7 + d) % 8 < W <=> d > 0
  BY ONLY <1>4
<1>6. d > 0 <=> a > b
  BY <1>3
<1>7. (7 + x - y) % 8 < W <=> d > 0
  BY ONLY <1>2, <1>4, <1>5, x = a % 8, y = b % 8
<1> QED
  BY ONLY <1>1, <1>6, <1>7 DEF SEQ_GT

-----------------------------------------------------------------------------
(* One direction of the link.                                              *)

\* The numbers of a direction: acknowledged, received, sent, pushed.
LEMMA DirNumbers ==
    ASSUME NEW e, NEW s \in Stream(e), CtrlFirst(s), NEW P, NEW w, NEW r, NEW g, NEW v,
           Dir(s, P, w, r, g, v)
    PROVE  /\ First(s, P) \in Nat /\ Len(g) \in Nat /\ Sent(s, P) \in Nat /\ P \in Nat
           /\ Win \in {1, 2, 4}
           /\ First(s, P) <= Len(g) /\ Len(g) <= Sent(s, P) /\ Sent(s, P) <= P
           /\ P <= First(s, P) + Win
           /\ Sent(s, P) = First(s, P) + Len(s.txSent) /\ P = First(s, P) + Len(Unacked(s))
<1>1. /\ Len(Waits(s)) \in Nat /\ Len(s.txSent) \in Nat
      /\ Len(Unacked(s)) = Len(s.txSent) + Len(Waits(s))
  BY WaitsData
<1>2. P \in Nat /\ First(s, P) \in Nat /\ Len(Unacked(s)) <= Win
  BY DEF Dir, SendOrder
<1>3. First(s, P) <= Len(g) /\ Len(g) <= Sent(s, P) /\ g \in Seq(Nat \X Nat)
  BY DEF Dir, RecvOrder
<1>4. Win \in {1, 2, 4} /\ Len(g) \in Nat
  BY <1>3, ConfFacts, LenProperties DEF Win
<1>5. PICK a, b, u : a = Len(s.txSent) /\ b = Len(Waits(s)) /\ u = Len(Unacked(s))
  OBVIOUS
<1>6. First(s, P) = P - u /\ Sent(s, P) = P - b /\ u = a + b /\ a \in Nat /\ b \in Nat /\ u <= Win
  BY <1>1, <1>2, <1>5 DEF First, Sent
<1>7. PICK f, n, R : f = First(s, P) /\ n = Sent(s, P) /\ R = Len(g)
  OBVIOUS
<1>8. /\ f = P - u /\ n = P - b /\ u = a + b /\ a \in Nat /\ b \in Nat /\ u <= Win
      /\ P \in Nat /\ f \in Nat /\ f <= R /\ R <= n /\ Win \in {1, 2, 4} /\ R \in Nat
  BY <1>2, <1>3, <1>4, <1>6, <1>7
<1>9. n \in Nat /\ n <= P /\ P <= f + Win /\ n = f + a /\ P = f + u
  BY ONLY <1>8
<1> QED
  BY <1>5, <1>7, <1>8, <1>9

\* Neither end does anything that matters.
LEMMA DirSame ==
    ASSUME NEW s, NEW P, NEW w, NEW r, NEW g, NEW v, Dir(s, P, w, r, g, v),
           NEW t, SameSend(s, t), NEW q, SameRecv(r, q), r.rxQueue \in Nat, q.rxQueue \in Nat
    PROVE  Dir(t, P, w, q, g, v)
<1>1. Unacked(t) = Unacked(s) /\ First(t, P) = First(s, P) /\ Sent(t, P) = Sent(s, P)
  BY Zenon DEF SameSend, Unacked, First, Sent
<1>2. SendOrder(t, P)
  BY <1>1, Zenon DEF Dir, SendOrder, SameSend
<1>3. RecvOrder(q, g)
  <2>1. RecvOrder(r, g) /\ SameRecv(r, q)
    BY DEF Dir
  <2>2. g \in Seq(Nat \X Nat) /\ Len(g) \in Nat
    BY <2>1, LenProperties DEF RecvOrder
  <2>3. q.rxQueue <= Len(g)
    BY <2>1, <2>2 DEF RecvOrder, SameRecv
  <2> QED
    BY <2>1, <2>3, Zenon DEF RecvOrder, SameRecv
<1> QED
  BY <1>1, <1>2, <1>3, Zenon DEF Dir

LEMMA TailFacts ==
    ASSUME NEW S, NEW w \in Seq(S), w # << >>
    PROVE  /\ Tail(w) \in Seq(S) /\ Len(Tail(w)) = Len(w) - 1 /\ Len(w) \in Nat /\ Len(w) > 0
           /\ \A i \in 1..Len(Tail(w)) : i + 1 \in 1..Len(w) /\ Tail(w)[i] = w[i + 1]
           /\ \A i \in 1..Len(Tail(w)) : \E j \in 1..Len(w) : j = i + 1 /\ Tail(w)[i] = w[j]
           /\ Head(w) = w[1] /\ 1 \in 1..Len(w)
<1>1. Tail(w) \in Seq(S) /\ Len(Tail(w)) = Len(w) - 1 /\ Len(w) \in Nat /\ Len(w) > 0
      /\ Head(w) = w[1] /\ 1 \in 1..Len(w)
  OBVIOUS
<1>2. \A i \in 1..Len(Tail(w)) : i + 1 \in 1..Len(w) /\ Tail(w)[i] = w[i + 1]
  OBVIOUS
<1> QED
  BY <1>1, <1>2

\* A packet to the receiver is lost, or is none of the data.
LEMMA DirDropData ==
    ASSUME NEW s, NEW P, NEW S, NEW w \in Seq(S), w # << >>, NEW r, NEW g, NEW v,
           Dir(s, P, w, r, g, v)
    PROVE  Dir(s, P, Tail(w), r, g, v)
<1>1. PICK x : x = Tail(w)
  OBVIOUS
<1>2. \A i \in 1..Len(x) : \E j \in 1..Len(w) : j = i + 1 /\ x[i] = w[j]
  BY <1>1, TailFacts
<1>3. PICK R, n : R = Len(g) /\ n = Sent(s, P)
  OBVIOUS
<1>4. DataOrder(w, R, n)
  BY <1>3 DEF Dir
<1>5. \A i \in 1..Len(x) : Near(x[i], R, n)
  BY ONLY <1>2, <1>4, Zenon DEF DataOrder
<1>6. \A i, j \in 1..Len(x) : i < j => Ahead(x[i], x[j])
  <2> SUFFICES ASSUME NEW i \in 1..Len(x), NEW j \in 1..Len(x), i < j PROVE Ahead(x[i], x[j])
    OBVIOUS
  <2>1. PICK k \in 1..Len(w) : k = i + 1 /\ x[i] = w[k]
    BY <1>2
  <2>2. PICK l \in 1..Len(w) : l = j + 1 /\ x[j] = w[l]
    BY <1>2
  <2>3. k < l
    BY <2>1, <2>2
  <2> QED
    BY ONLY <1>4, <2>1, <2>2, <2>3, Zenon DEF DataOrder
<1>7. DataOrder(x, R, n)
  BY <1>5, <1>6 DEF DataOrder
<1> QED
  BY <1>1, <1>3, <1>7, Zenon DEF Dir

\* A packet to the sender is lost, or carries no ack.
LEMMA DirDropAck ==
    ASSUME NEW s, NEW P, NEW S, NEW v \in Seq(S), v # << >>, NEW r, NEW g, NEW w,
           Dir(s, P, w, r, g, v)
    PROVE  Dir(s, P, w, r, g, Tail(v))
<1>1. PICK x : x = Tail(v)
  OBVIOUS
<1>2. \A i \in 1..Len(x) : \E j \in 1..Len(v) : j = i + 1 /\ x[i] = v[j]
  BY <1>1, TailFacts
<1>3. PICK R, n : R = Len(g) /\ n = First(s, P)
  OBVIOUS
<1>4. AckOrder(v, n, R)
  BY <1>3 DEF Dir
<1>5. \A i \in 1..Len(x) : Acks(x[i]) => Names(x[i], n) <= R - n
  BY ONLY <1>2, <1>4, Zenon DEF AckOrder
<1>6. \A i, j \in 1..Len(x) :
          i < j /\ Acks(x[i]) /\ Acks(x[j]) => Names(x[i], n) <= Names(x[j], n)
  <2> SUFFICES ASSUME NEW i \in 1..Len(x), NEW j \in 1..Len(x), i < j,
                      Acks(x[i]), Acks(x[j])
               PROVE  Names(x[i], n) <= Names(x[j], n)
    OBVIOUS
  <2>1. PICK k \in 1..Len(v) : k = i + 1 /\ x[i] = v[k]
    BY <1>2
  <2>2. PICK l \in 1..Len(v) : l = j + 1 /\ x[j] = v[l]
    BY <1>2
  <2>3. k < l
    BY <2>1, <2>2
  <2> QED
    BY <1>4, <2>1, <2>2, <2>3, Zenon DEF AckOrder
<1>7. AckOrder(x, n, R)
  BY <1>5, <1>6 DEF AckOrder
<1> QED
  BY <1>1, <1>3, <1>7, Zenon DEF Dir

LEMMA ConcatIndex ==
    ASSUME NEW S, NEW w \in Seq(S), NEW n \in Seq(S), NEW x, x = w \o n, NEW i \in 1..Len(x)
    PROVE  \/ i \in 1..Len(w) /\ x[i] = w[i]
           \/ \E k \in 1..Len(n) : i = Len(w) + k /\ x[i] = n[k]
<1>1. PICK k : k = i - Len(w)
  OBVIOUS
<1>2. Len(w) \in Nat /\ Len(n) \in Nat /\ Len(x) = Len(w) + Len(n)
  OBVIOUS
<1>3. \/ i \in 1..Len(w) /\ x[i] = w[i]
      \/ k \in 1..Len(n) /\ x[i] = n[k]
  BY <1>1, <1>2
<1> QED
  BY <1>1, <1>2, <1>3

\* All unacknowledged packets go out, again or for the first time.
SamePacket(p, q) == p.pay = q.pay /\ p.seq = q.seq
Repeats(s, t) ==
    /\ t.txSent \in Seq(DataPacket) /\ Waits(t) = << >> /\ t.txSeqNum = s.txSeqNum
    /\ Len(t.txSent) = Len(Unacked(s))
    /\ \A i \in 1..Len(Unacked(s)) : SamePacket(t.txSent[i], Unacked(s)[i])
Sends(s, n) ==
    \A k \in 1..Len(n) : n[k].type = "DATA" =>
        \E i \in 1..Len(Unacked(s)) : SamePacket(n[k], Unacked(s)[i])

LEMMA DirSends ==
    ASSUME NEW e, NEW s \in Stream(e), CtrlFirst(s), NEW P, NEW S, NEW w \in Seq(S), NEW r,
           NEW g, NEW v, Dir(s, P, w, r, g, v), NEW n \in Seq(S), Sends(s, n),
           NEW t, Repeats(s, t)
    PROVE  Dir(t, P, w \o n, r, g, v)
<1>1. PICK una, R, snt, x, U : una = First(s, P) /\ R = Len(g) /\ snt = Sent(s, P) /\ x = w \o n
                               /\ U = Unacked(s)
  OBVIOUS
<1>2. /\ una \in Nat /\ R \in Nat /\ snt \in Nat /\ P \in Nat /\ Win \in {1, 2, 4}
      /\ una <= R /\ R <= snt /\ snt <= P /\ P <= una + Win /\ P = una + Len(U)
  BY <1>1, DirNumbers
<1>3. Unacked(t) = t.txSent /\ Len(Unacked(t)) = Len(U) /\ Len(U) \in Nat
  <2>1. t.txSent \in Seq(DataPacket) /\ Waits(t) = << >> /\ Len(t.txSent) = Len(U)
    BY <1>1 DEF Repeats
  <2>2. t.txSent \o << >> = t.txSent /\ Len(t.txSent) \in Nat
    BY <2>1
  <2> QED
    BY <2>1, <2>2 DEF Unacked
<1>4. First(t, P) = una /\ Sent(t, P) = P
  <2>1. Len(<< >>) = 0 /\ Waits(t) = << >>
    BY DEF Repeats
  <2>2. First(t, P) = P - Len(U) /\ Sent(t, P) = P - Len(<< >>)
    BY <1>3, <2>1 DEF First, Sent
  <2> QED
    BY ONLY <1>2, <1>3, <2>1, <2>2
<1>5. \A i \in 1..Len(U) : IsNth(U[i], una + i - 1)
  BY <1>1 DEF Dir, SendOrder
<1>6. SendOrder(t, P)
  <2>1. \A i \in 1..Len(U) : IsNth(Unacked(t)[i], una + i - 1)
    BY <1>1, <1>3, <1>5, Zenon DEF Repeats, SamePacket, IsNth
  <2>2. t.txSeqNum = P % 8 /\ Len(U) <= Win
    BY <1>1 DEF Repeats, Dir, SendOrder
  <2> QED
    BY <1>2, <1>3, <1>4, <2>1, <2>2 DEF SendOrder
<1>7. DataOrder(w, R, snt)
  BY <1>1 DEF Dir
<1>8. \A k \in 1..Len(n) : n[k].type = "DATA" =>
          n[k].pay[2] \in Nat /\ IsNth(n[k], n[k].pay[2]) /\ una <= n[k].pay[2] /\ n[k].pay[2] < P
  <2> SUFFICES ASSUME NEW k \in 1..Len(n), n[k].type = "DATA"
               PROVE  n[k].pay[2] \in Nat /\ IsNth(n[k], n[k].pay[2]) /\ una <= n[k].pay[2]
                      /\ n[k].pay[2] < P
    OBVIOUS
  <2>1. PICK i \in 1..Len(U) : SamePacket(n[k], U[i])
    BY <1>1 DEF Sends
  <2>2. PICK m : m = una + i - 1
    OBVIOUS
  <2>3. m \in Nat /\ una <= m /\ m < P
    BY <1>2, <1>3, <2>2
  <2>4. n[k].pay = <<1, m>> /\ n[k].seq = m % 8
    BY <1>5, <2>1, <2>2 DEF IsNth, SamePacket
  <2>5. n[k].pay[2] = m
    BY <2>4
  <2> QED
    BY <2>3, <2>4, <2>5 DEF IsNth
<1>9. \A i \in 1..Len(w) : w[i].type = "DATA" =>
          w[i].pay[2] \in Nat /\ IsNth(w[i], w[i].pay[2]) /\ w[i].pay[2] < P
          /\ R <= w[i].pay[2] + Win
  BY <1>2, <1>7 DEF DataOrder, Near
<1>10. \A i \in 1..Len(x) : \/ i \in 1..Len(w) /\ x[i] = w[i]
                            \/ \E k \in 1..Len(n) : i = Len(w) + k /\ x[i] = n[k]
  BY <1>1, ConcatIndex
<1>11. ASSUME NEW i \in 1..Len(x) PROVE Near(x[i], R, P)
  <2>1. CASE i \in 1..Len(w) /\ x[i] = w[i]
    BY <1>9, <2>1 DEF Near
  <2>2. CASE \E k \in 1..Len(n) : x[i] = n[k]
    <3>1. PICK k \in 1..Len(n) : x[i] = n[k]
      BY <2>2
    <3> QED
      BY <1>2, <1>8, <3>1, SMTT(30) DEF Near
  <2> QED
    BY <1>10, <2>1, <2>2
<1>12. ASSUME NEW i \in 1..Len(x), NEW j \in 1..Len(x), i < j PROVE Ahead(x[i], x[j])
  <2>0. Len(w) \in Nat /\ Len(n) \in Nat
    OBVIOUS
  <2>1. CASE j \in 1..Len(w) /\ x[j] = w[j]
    <3>1. i \in 1..Len(w) /\ x[i] = w[i]
      BY <1>10, <1>12, <2>0, <2>1
    <3> QED
      BY <1>7, <1>12, <2>1, <3>1 DEF DataOrder
  <2>2. CASE \E k \in 1..Len(n) : x[j] = n[k]
    <3>1. PICK k \in 1..Len(n) : x[j] = n[k]
      BY <2>2
    <3>2. x[i].type = "DATA" => x[i].pay[2] \in Nat /\ x[i].pay[2] < P
      BY <1>11 DEF Near
    <3>3. x[j].type = "DATA" => x[j].pay[2] \in Nat /\ una <= x[j].pay[2]
      BY <1>8, <3>1
    <3>4. PICK a, b : a = x[i].pay[2] /\ b = x[j].pay[2]
      OBVIOUS
    <3>5. ASSUME x[i].type = "DATA", x[j].type = "DATA" PROVE a < b + Win
      <4>1. a \in Nat /\ a < P /\ b \in Nat /\ una <= b
        BY <3>2, <3>3, <3>4, <3>5
      <4> QED
        BY ONLY <1>2, <4>1
    <3> QED
      BY <3>4, <3>5 DEF Ahead
  <2> QED
    BY <1>10, <2>1, <2>2
<1>13. DataOrder(x, R, P)
  BY <1>11, <1>12 DEF DataOrder
<1>14. R <= P
  BY <1>2
<1> QED
  BY <1>1, <1>2, <1>4, <1>6, <1>13, <1>14, Zenon DEF Dir

\* The receiver sends: every ack names the packet it expects.
LEMMA DirAnswers ==
    ASSUME NEW e, NEW s \in Stream(e), CtrlFirst(s), NEW P, NEW S, NEW w, NEW r,
           NEW g, NEW v \in Seq(S), Dir(s, P, w, r, g, v), NEW n \in Seq(S),
           \A k \in 1..Len(n) : Acks(n[k]) => n[k].ack = r.currentTxAck,
           \A p \in S : Acks(p) => p.ack \in 0..7
    PROVE  Dir(s, P, w, r, g, v \o n)
<1>1. PICK una, R, x : una = First(s, P) /\ R = Len(g) /\ x = v \o n
  OBVIOUS
<1>2. una \in Nat /\ R \in Nat /\ una <= R /\ R < una + 8
  <2>1. PICK snt : snt = Sent(s, P)
    OBVIOUS
  <2>2. /\ una \in Nat /\ R \in Nat /\ snt \in Nat /\ P \in Nat /\ Win \in {1, 2, 4}
        /\ una <= R /\ R <= snt /\ snt <= P /\ P <= una + Win
    BY <1>1, <2>1, DirNumbers
  <2> QED
    BY ONLY <2>2
<1>3. AckOrder(v, una, R) /\ r.currentTxAck = R % 8
  BY <1>1 DEF Dir, RecvOrder
<1>4. \A k \in 1..Len(n) : Acks(n[k]) => Names(n[k], una) = R - una
  <2>1. ((R % 8) - una) % 8 = R - una
    BY <1>2, ModSmall
  <2> QED
    BY <1>3, <2>1 DEF Names
<1>5. \A i \in 1..Len(x) : \/ i \in 1..Len(v) /\ x[i] = v[i]
                           \/ \E k \in 1..Len(n) : i = Len(v) + k /\ x[i] = n[k]
  BY <1>1, ConcatIndex
<1>6. ASSUME NEW i \in 1..Len(x), Acks(x[i]) PROVE Names(x[i], una) <= R - una
  <2>1. CASE i \in 1..Len(v) /\ x[i] = v[i]
    BY <1>3, <1>6, <2>1 DEF AckOrder
  <2>2. CASE \E k \in 1..Len(n) : x[i] = n[k]
    BY <1>2, <1>4, <1>6, <2>2
  <2> QED
    BY <1>5, <2>1, <2>2
<1>7. ASSUME NEW i \in 1..Len(x), NEW j \in 1..Len(x), i < j, Acks(x[i]), Acks(x[j])
      PROVE  Names(x[i], una) <= Names(x[j], una)
  <2>0. Len(v) \in Nat /\ Len(n) \in Nat
    OBVIOUS
  <2>1. CASE j \in 1..Len(v) /\ x[j] = v[j]
    <3>1. i \in 1..Len(v) /\ x[i] = v[i]
      BY <1>5, <1>7, <2>0, <2>1
    <3> QED
      BY <1>3, <1>7, <2>1, <3>1 DEF AckOrder
  <2>2. CASE \E k \in 1..Len(n) : x[j] = n[k]
    <3>1. Names(x[j], una) = R - una
      BY <1>4, <1>7, <2>2
    <3> QED
      BY <1>6, <1>7, <3>1
  <2> QED
    BY <1>5, <2>1, <2>2
<1>8. AckOrder(x, una, R)
  BY <1>6, <1>7 DEF AckOrder
<1> QED
  BY <1>1, <1>8, Zenon DEF Dir

\* ProcessAckNum releases k packets, and leaves what is received alone.
Released(s, k, t) ==
    /\ t.txSent = SubSeq(s.txSent, k + 1, Len(s.txSent))
    /\ t.txQueue = s.txQueue /\ t.txSeqNum = s.txSeqNum
SameRead(s, t) ==
    /\ t.expectedSeq = s.expectedSeq /\ t.currentTxAck = s.currentTxAck
    /\ t.win = s.win /\ t.rxFree = s.rxFree /\ t.rxQueue = s.rxQueue

\* The packets of m_txSent are consecutive, so an ack between the first and the
\* one after the last releases exactly those before it.
LEMMA AckReleases ==
    ASSUME NEW e \in End, NEW s, Core(e, s), Settled(e, s), NEW P, SendOrder(s, P),
           NEW ack \in 0..7, NEW m, m = (ack - First(s, P)) % 8, m <= Len(s.txSent)
    PROVE  Released(s, m, ProcessAckNum(s, ack)) /\ SameRead(s, ProcessAckNum(s, ack))
<1>1. s \in Stream(e) /\ CtrlFirst(s) /\ Buffers(s)
  BY DEF Core
<1>2. PICK t : t = ProcessAckNum(s, ack)
  OBVIOUS
<1>3. PICK k \in 0..Len(s.txSent) :
          /\ \A i \in 1..k : SEQ_GT(s, ack, s.txSent[i].seq)
          /\ k < Len(s.txSent) => ~SEQ_GT(s, ack, s.txSent[k + 1].seq)
          /\ t = [s EXCEPT !.txSent = SubSeq(s.txSent, k + 1, Len(s.txSent)),
                        !.txFree = s.txFree + k,
                        !.sink = s.sink \/ k > 0,
                        !.alarms = IF k < Len(s.txSent) THEN s.alarms \cup {"RESEND"}
                                                        ELSE s.alarms \ {"RESEND"}]
  BY <1>1, <1>2, AckStops, Zenon DEF ProcessAckNum
<1>4. Released(s, k, t) /\ SameRead(s, t)
  BY <1>1, <1>3 DEF Stream, Released, SameRead
<1>5. PICK una, L : una = First(s, P) /\ L = Len(s.txSent)
  OBVIOUS
<1>6. una \in Nat /\ L \in Nat /\ Len(Waits(s)) \in Nat /\ Len(Unacked(s)) = L + Len(Waits(s))
      /\ Len(Unacked(s)) <= Win /\ Win \in {1, 2, 4} /\ s.txSent \in Seq(DataPacket)
      /\ Waits(s) \in Seq(DataPacket)
  BY <1>1, <1>5, WaitsData, ConfFacts DEF SendOrder, Win
<1>7. m \in 0..7 /\ m <= L /\ L <= Win /\ k \in 0..L
  <2>1. m \in 0..7
    <3>1. ack \in Int /\ una \in Int /\ m = (ack - una) % 8
      BY <1>5, <1>6
    <3> QED
      BY ONLY <3>1, ModRange
  <2> QED
    BY <1>3, <1>5, <1>6, <2>1
<1>8. L > 0 => s.win = Win
  <2>1. NoPackets(s) => L = 0
    <3>1. DataIn(s.txQueue) \in Nat /\ DataIn(s.txCurrent) \in Nat
      BY <1>1, DataInStream
    <3>2. PICK x, y : x = DataIn(s.txQueue) /\ y = DataIn(s.txCurrent)
      OBVIOUS
    <3>3. x \in Nat /\ y \in Nat /\ InUse(s) = x + y + L
      BY <1>5, <3>1, <3>2 DEF InUse
    <3>4. NoPackets(s) => x + y + L = 0
      BY <3>3 DEF NoPackets
    <3> QED
      BY ONLY <1>6, <3>3, <3>4
  <2>2. AllPackets(s) => ~Unset(s)
    BY <1>1, StreamFields DEF AllPackets, Unset
  <2> QED
    BY <1>1, <2>1, <2>2 DEF Buffers, Settled
<1>9. ASSUME NEW i \in 1..L PROVE s.txSent[i].seq = (una + i - 1) % 8
  <2>1. i \in 1..Len(Unacked(s)) /\ Unacked(s)[i] = s.txSent[i]
    <3>1. PICK x, y : x = s.txSent /\ y = Waits(s)
      OBVIOUS
    <3>2. x \in Seq(DataPacket) /\ y \in Seq(DataPacket) /\ i \in 1..Len(x)
      BY <1>5, <1>6, <3>1
    <3>3. i \in 1..Len(x \o y) /\ (x \o y)[i] = x[i]
      BY ONLY <3>2
    <3> QED
      BY <3>1, <3>3 DEF Unacked
  <2> QED
    BY <1>5, <2>1 DEF SendOrder, IsNth
<1>10. ASSUME NEW i \in 1..L PROVE SEQ_GT(s, ack, s.txSent[i].seq) <=> i <= m
  <2>1. PICK y : y = s.txSent[i].seq
    OBVIOUS
  <2>b. PICK d : d = (8 + m - i) % 8
    OBVIOUS
  <2>2. (7 + ack - y) % 8 = d
    <3>1. ack \in Int /\ una \in Nat /\ m \in Nat /\ i \in Nat /\ i > 0
      BY <1>5, <1>6, <1>7, SMTT(30)
    <3>2. m = (ack - una) % 8
      BY ONLY <1>5, m = (ack - First(s, P)) % 8
    <3>3. y = (una + i - 1) % 8
      BY <1>9, <2>1
    <3> QED
      BY ONLY <3>1, <3>2, <3>3, <2>b, ModAck
  <2>a. s.win = Win
    BY <1>6, <1>8
  <2>4. SEQ_GT(s, ack, y) <=> d < Win
    BY ONLY <2>2, <2>a DEF SEQ_GT
  <2>3. d < Win <=> i <= m
    <3>1. m \in 0..4 /\ i \in 1..4 /\ m <= Win /\ i <= Win /\ Win \in {1, 2, 4}
      BY <1>6, <1>7
    <3> QED
      BY ONLY <3>1, <2>b
  <2> QED
    BY <2>1, <2>3, <2>4
<1>11. ~(k < m)
  <2>1. ASSUME k < m PROVE FALSE
    <3>1. PICK i : i = k + 1
      OBVIOUS
    <3>2. i \in 1..L /\ i <= m /\ k < Len(s.txSent)
      BY <1>5, <1>6, <1>7, <2>1, <3>1, SMTT(30)
    <3>3. ~SEQ_GT(s, ack, s.txSent[i].seq)
      BY <1>3, <3>1, <3>2
    <3> QED
      BY <1>10, <3>2, <3>3
  <2> QED
    BY <2>1
<1>12. ~(m < k)
  <2>1. ASSUME m < k PROVE FALSE
    <3>1. PICK i : i = m + 1
      OBVIOUS
    <3>2. i \in 1..L /\ ~(i <= m) /\ i \in 1..k
      BY <1>6, <1>7, <2>1, <3>1, SMTT(30)
    <3> QED
      BY <1>3, <1>10, <3>2
  <2> QED
    BY <2>1
<1>13. k = m
  BY <1>6, <1>7, <1>11, <1>12
<1> QED
  BY <1>2, <1>4, <1>13

\* Beyond the first sequence a concatenation goes on with the second.
LEMMA ConcatTail ==
    ASSUME NEW T, NEW a \in Seq(T), NEW b \in Seq(T),
           NEW i \in 1..(Len(a) + Len(b)), ~(i <= Len(a))
    PROVE  (a \o b)[i] = b[i - Len(a)]
<1>1. \A j \in 1..(Len(a) + Len(b)) : (a \o b)[j] = IF j <= Len(a) THEN a[j] ELSE b[j - Len(a)]
  BY ConcatProperties, Zenon
<1> QED
  BY <1>1, Zenon

\* The sender reads an ack.
LEMMA DirReleases ==
    ASSUME NEW e, NEW s \in Stream(e), CtrlFirst(s), NEW P, NEW S, NEW w, NEW r,
           NEW g, NEW v \in Seq(S), Dir(s, P, w, r, g, v), v # << >>, Acks(v[1]),
           \A p \in S : Acks(p) => p.ack \in 0..7,
           NEW m, m = Names(v[1], First(s, P)), NEW t, Released(s, m, t)
    PROVE  Dir(t, P, w, r, g, Tail(v)) /\ m \in Nat /\ m <= Len(s.txSent)
           /\ First(t, P) = First(s, P) + m /\ Sent(t, P) = Sent(s, P)
<1>1. PICK una, R, snt, x, U, L : una = First(s, P) /\ R = Len(g) /\ snt = Sent(s, P)
                                  /\ x = Tail(v) /\ U = Unacked(s) /\ L = Len(s.txSent)
  OBVIOUS
<1>2. /\ una \in Nat /\ R \in Nat /\ snt \in Nat /\ P \in Nat /\ Win \in {1, 2, 4}
      /\ una <= R /\ R <= snt /\ snt <= P /\ P <= una + Win /\ P = una + Len(U)
      /\ snt = una + L
  BY <1>1, DirNumbers
<1>3. /\ AckOrder(v, una, R) /\ 1 \in 1..Len(v) /\ Len(v) \in Nat
      /\ \A i \in 1..Len(x) : \E j \in 1..Len(v) : j = i + 1 /\ x[i] = v[j]
  BY <1>1, TailFacts DEF Dir
<1>4. \A i \in 1..Len(v) : Acks(v[i]) => v[i].ack \in 0..7
  <2>1. \A i \in 1..Len(v) : v[i] \in S
    BY ElementOfSeq
  <2> QED
    BY <2>1
<1>5. m \in Nat /\ m <= R - una
  <2>1. v[1].ack \in 0..7 /\ Names(v[1], una) <= R - una
    BY <1>3, <1>4 DEF AckOrder
  <2>2. PICK a : a = v[1].ack
    OBVIOUS
  <2>a. a \in Int /\ una \in Int
    BY <1>2, <2>1, <2>2, SMTT(30)
  <2>3. a \in Int /\ una \in Int /\ m = (a - una) % 8 /\ m <= R - una
    BY <1>1, <2>a, <2>1, <2>2, Zenon DEF Names
  <2>4. m \in 0..7
    BY ONLY <2>3, ModRange
  <2> QED
    BY <2>3, <2>4
<1>6. /\ Len(s.txSent) \in Nat /\ Len(Waits(s)) \in Nat /\ Len(U) = L + Len(Waits(s))
      /\ s.txSent \in Seq(DataPacket) /\ Waits(s) \in Seq(DataPacket) /\ L \in Nat
  BY <1>1, WaitsData
<1>7. m <= L
  BY <1>2, <1>5, <1>6
<1>8. Waits(t) = Waits(s) /\ t.txSent = SubSeq(s.txSent, m + 1, L)
  BY <1>1, Zenon DEF Released, Waits
<1>9. /\ Len(Unacked(t)) = Len(U) - m
      /\ \A i \in 1..Len(Unacked(t)) : \E j \in 1..Len(U) : j = m + i /\ Unacked(t)[i] = U[j]
  <2>1. PICK a, b, c : a = s.txSent /\ b = Waits(s) /\ c = SubSeq(a, m + 1, L)
    OBVIOUS
  <2>2. a \in Seq(DataPacket) /\ b \in Seq(DataPacket) /\ L = Len(a) /\ m \in 0..L
    BY <1>1, <1>5, <1>6, <1>7, <2>1
  <2>3. c \in Seq(DataPacket) /\ Len(c) = L - m /\ \A i \in 1..(L - m) : c[i] = a[m + i]
    BY ONLY <2>1, <2>2
  <2>4. U = a \o b /\ Unacked(t) = c \o b
    BY <1>1, <1>8, <2>1 DEF Unacked
  <2>5. Len(c \o b) = Len(a \o b) - m /\ Len(a) \in Nat /\ Len(b) \in Nat
        /\ Len(a \o b) = Len(a) + Len(b)
    <3>1. Len(c \o b) = Len(c) + Len(b) /\ Len(a \o b) = Len(a) + Len(b)
      BY ONLY <2>2, <2>3, ConcatProperties
    <3>2. Len(a) \in Nat /\ Len(b) \in Nat
      BY ONLY <2>2, LenProperties
    <3>3. PICK x1, x2, x3 : x1 = Len(a) /\ x2 = Len(b) /\ x3 = Len(c)
      OBVIOUS
    <3>4. x1 \in Nat /\ x2 \in Nat /\ x3 = x1 - m /\ m \in Nat
      BY <1>5, <2>2, <2>3, <3>2, <3>3
    <3>7. PICK y, z : y = Len(c \o b) /\ z = Len(a \o b)
      OBVIOUS
    <3>5. y = x3 + x2 /\ z = x1 + x2
      BY ONLY <3>1, <3>3, <3>7
    <3>8. y = z - m
      BY ONLY <3>4, <3>5
    <3> QED
      BY ONLY <3>1, <3>2, <3>7, <3>8
  <2>6. ASSUME NEW i \in 1..Len(c \o b) PROVE (c \o b)[i] = (a \o b)[m + i] /\ m + i \in 1..Len(a \o b)
    <3>1. CASE i <= L - m
      BY ONLY <2>2, <2>3, <2>5, <3>1, <2>6, SMTT(30)
    <3>2. CASE ~(i <= L - m)
      <4>1. PICK p, q \in Nat : p = Len(a) /\ q = Len(b)
        BY ONLY <2>5
      <4>2. /\ Len(c) = p - m /\ L = p /\ m \in 0..p
            /\ i \in 1..(p - m + q) /\ ~(i <= p - m) /\ Len(a \o b) = p + q
        BY ONLY <2>2, <2>3, <2>5, <2>6, <3>2, <4>1
      <4>3. /\ i - (p - m) = (m + i) - p /\ m + i \in 1..(p + q) /\ ~(m + i <= p)
            /\ i \in 1..((p - m) + q)
        BY ONLY <4>1, <4>2
      <4>4. (c \o b)[i] = b[i - (p - m)]
        <5>1. i \in 1..(Len(c) + Len(b)) /\ ~(i <= Len(c))
          BY ONLY <4>1, <4>2, <4>3
        <5>2. (c \o b)[i] = b[i - Len(c)]
          BY ONLY <2>2, <2>3, <5>1, ConcatTail
        <5> QED
          BY ONLY <5>2, <4>2
      <4>5. (a \o b)[m + i] = b[(m + i) - p]
        <5>1. m + i \in 1..(Len(a) + Len(b)) /\ ~(m + i <= Len(a))
          BY ONLY <4>1, <4>3
        <5>2. (a \o b)[m + i] = b[(m + i) - Len(a)]
          BY ONLY <2>2, <5>1, ConcatTail
        <5> QED
          BY ONLY <5>2, <4>1
      <4> QED
        BY ONLY <4>2, <4>3, <4>4, <4>5
    <3> QED
      BY <3>1, <3>2
  <2> QED
    BY <2>4, <2>5, <2>6
<1>10. First(t, P) = una + m /\ Sent(t, P) = snt
  <2>1. First(t, P) = P - (Len(U) - m)
    BY <1>9 DEF First
  <2>2. Sent(t, P) = snt
    BY <1>1, <1>8, Zenon DEF Sent
  <2> QED
    BY <1>2, <1>5, <1>6, <2>1, <2>2
<1>11. SendOrder(t, P)
  <2>1. t.txSeqNum = P % 8 /\ Len(U) <= Win /\ \A i \in 1..Len(U) : IsNth(U[i], una + i - 1)
    BY <1>1 DEF Dir, SendOrder, Released
  <2>2. ASSUME NEW i \in 1..Len(Unacked(t)) PROVE IsNth(Unacked(t)[i], una + m + i - 1)
    <3>1. PICK j \in 1..Len(U) : j = m + i /\ Unacked(t)[i] = U[j]
      BY <1>9
    <3>2. IsNth(U[j], una + j - 1)
      BY <2>1
    <3>3. una + j - 1 = una + m + i - 1
      <4>1. Len(Unacked(t)) \in Int /\ Len(U) \in Int
        BY <1>5, <1>6, <1>9
      <4>2. i \in Int /\ j = m + i /\ una \in Int /\ m \in Int
        BY <1>2, <1>5, <3>1, <4>1
      <4> QED
        BY ONLY <4>2
    <3> QED
      BY <3>1, <3>2, <3>3
  <2>3. Len(Unacked(t)) <= Win /\ una + m \in Nat
    BY <1>2, <1>5, <1>6, <1>9, <2>1, SMTT(30)
  <2> QED
    BY <1>2, <1>10, <2>1, <2>2, <2>3 DEF SendOrder
<1>12. ASSUME NEW i \in 1..Len(x), Acks(x[i])
       PROVE  \E j \in 1..Len(v) : /\ j = i + 1 /\ Acks(v[j]) /\ x[i] = v[j]
                                   /\ Names(x[i], una + m) = Names(v[j], una) - m
                                   /\ Names(v[j], una) \in Nat
  <2>1. PICK j \in 1..Len(v) : j = i + 1 /\ x[i] = v[j]
    BY <1>3
  <2>2. Acks(v[j]) /\ 1 < j
    BY <1>12, <2>1
  <2>3. m <= Names(v[j], una)
    BY <1>1, <1>3, <2>2 DEF AckOrder
  <2>4. v[j].ack \in 0..7
    BY <1>4, <2>2
  <2>5. PICK a : a = v[j].ack
    OBVIOUS
  <2>6. a \in Int /\ una \in Nat /\ m \in Nat /\ m <= (a - una) % 8 /\ (a - una) % 8 \in Nat
    <3>1. a \in Int /\ una \in Int /\ una \in Nat /\ m \in Nat /\ m <= (a - una) % 8
      <4>1. a \in Int /\ una \in Int
        BY <1>2, <2>4, <2>5, SMTT(30)
      <4> QED
        BY <1>2, <1>5, <2>3, <2>5, <4>1, Zenon DEF Names
    <3>2. (a - una) % 8 \in 0..7
      BY ONLY <3>1, ModRange
    <3> QED
      BY <3>1, <3>2
  <2>7. (a - (una + m)) % 8 = ((a - una) % 8) - m
    BY ONLY <2>6, ModShift
  <2>8. Names(x[i], una + m) = Names(v[j], una) - m /\ Names(v[j], una) \in Nat
    BY <2>1, <2>5, <2>6, <2>7 DEF Names
  <2> QED
    BY <2>1, <2>2, <2>8
<1>13. AckOrder(x, una + m, R)
  <2>1. ASSUME NEW i \in 1..Len(x), Acks(x[i]) PROVE Names(x[i], una + m) <= R - (una + m)
    <3>1. PICK j \in 1..Len(v) : /\ j = i + 1 /\ Acks(v[j]) /\ x[i] = v[j]
                                 /\ Names(x[i], una + m) = Names(v[j], una) - m
                                 /\ Names(v[j], una) \in Nat
      BY <1>12, <2>1
    <3>2. Names(v[j], una) <= R - una
      BY <1>3, <3>1 DEF AckOrder
    <3> QED
      BY <1>2, <1>5, <3>1, <3>2, SMTT(30)
  <2>2. ASSUME NEW i \in 1..Len(x), NEW j \in 1..Len(x), i < j, Acks(x[i]), Acks(x[j])
        PROVE  Names(x[i], una + m) <= Names(x[j], una + m)
    <3>1. PICK k \in 1..Len(v) : /\ k = i + 1 /\ Acks(v[k]) /\ x[i] = v[k]
                                 /\ Names(x[i], una + m) = Names(v[k], una) - m
                                 /\ Names(v[k], una) \in Nat
      BY <1>12, <2>2
    <3>2. PICK l \in 1..Len(v) : /\ l = j + 1 /\ Acks(v[l]) /\ x[j] = v[l]
                                 /\ Names(x[j], una + m) = Names(v[l], una) - m
                                 /\ Names(v[l], una) \in Nat
      BY <1>12, <2>2
    <3>3. k < l
      BY <2>2, <3>1, <3>2
    <3>4. Names(v[k], una) <= Names(v[l], una)
      BY <1>3, <3>1, <3>2, <3>3 DEF AckOrder
    <3> QED
      BY <1>5, <3>1, <3>2, <3>4
  <2> QED
    BY <2>1, <2>2 DEF AckOrder
<1>14. una + m <= R
  BY <1>2, <1>5
<1>15. Dir(t, P, w, r, g, x)
  BY <1>1, <1>10, <1>11, <1>13, <1>14, Zenon DEF Dir
<1> QED
  BY <1>1, <1>5, <1>7, <1>10, <1>15

\* What ProcessData does to the receiving half of an end: the packet is the one
\* expected and there is a buffer, or it is an earlier one, or it is ignored.
Acked(s, p) == IF SEQ_GT(s, s.currentTxAck, p.seq) THEN s.currentTxAck ELSE (p.seq + 1) % 8
TookNext(s, p, t) ==
    /\ p.seq = s.expectedSeq /\ s.rxFree > 0
    /\ t.expectedSeq = (s.expectedSeq + 1) % 8 /\ t.currentTxAck = Acked(s, p)
    /\ t.rxQueue = s.rxQueue + 1 /\ t.rxFree = s.rxFree - 1
TookAgain(s, p, t) ==
    /\ p.seq # s.expectedSeq /\ ~SEQ_GT(s, p.seq, s.expectedSeq)
    /\ t.expectedSeq = s.expectedSeq /\ t.currentTxAck = Acked(s, p)
    /\ t.rxQueue = s.rxQueue /\ t.rxFree = s.rxFree
Ignored(s, p, t) ==
    /\ ~(p.seq = s.expectedSeq /\ s.rxFree > 0)
    /\ t.expectedSeq = s.expectedSeq /\ t.currentTxAck = s.currentTxAck
    /\ t.rxQueue = s.rxQueue /\ t.rxFree = s.rxFree
Took(s, p, t) ==
    t.win = s.win /\ (TookNext(s, p, t) \/ TookAgain(s, p, t) \/ Ignored(s, p, t))

LEMMA DataTakes ==
    ASSUME NEW e, NEW s, Core(e, s), NEW p \in DataPacket, NEW m,
           NEW u, u = ProcessAckNum(s, p.ack), Released(s, m, u), SameRead(s, u)
    PROVE  Released(s, m, ProcessData(s, p)) /\ Took(s, p, ProcessData(s, p))
<1>1. u \in Stream(e)
  <2>1. Core(e, u)
    BY AckNumKeeps
  <2> QED
    BY <2>1 DEF Core
<1>2. PICK t : t = ProcessData(s, p)
  OBVIOUS
<1>3. PICK x : x = [u EXCEPT !.expectedSeq = (u.expectedSeq + 1) % 8,
                             !.rxQueue = u.rxQueue + 1, !.rxFree = u.rxFree - 1,
                             !.source = TRUE]
  OBVIOUS
<1>4. t = CASE p.seq = u.expectedSeq /\ u.rxFree > 0 -> ProcessDataSeqNum(x, p.seq)
            [] p.seq # u.expectedSeq /\ ~SEQ_GT(u, p.seq, u.expectedSeq) ->
                   ProcessDataSeqNum(u, p.seq)
            [] OTHER -> u
  BY <1>2, <1>3 DEF ProcessData
<1>5. /\ u.win = s.win /\ u.expectedSeq = s.expectedSeq /\ u.rxFree = s.rxFree
      /\ u.rxQueue = s.rxQueue /\ u.currentTxAck = s.currentTxAck
  BY DEF SameRead
<1>6. /\ x.win = u.win /\ x.currentTxAck = u.currentTxAck
      /\ x.expectedSeq = (u.expectedSeq + 1) % 8
      /\ x.rxQueue = u.rxQueue + 1 /\ x.rxFree = u.rxFree - 1
      /\ x.txSent = u.txSent /\ x.txQueue = u.txQueue /\ x.txSeqNum = u.txSeqNum
  BY <1>1, <1>3 DEF Stream
<1>7. ASSUME NEW y, y = u \/ y = x, NEW z, z = ProcessDataSeqNum(y, p.seq)
      PROVE  /\ z.txSent = y.txSent /\ z.txQueue = y.txQueue /\ z.txSeqNum = y.txSeqNum
             /\ z.win = y.win /\ z.expectedSeq = y.expectedSeq
             /\ z.rxQueue = y.rxQueue /\ z.rxFree = y.rxFree
             /\ z.currentTxAck = Acked(s, p)
  <2>1. PICK a : a = IF SEQ_GT(y, y.currentTxAck, p.seq) THEN y.currentTxAck
                     ELSE (p.seq + 1) % 8
    OBVIOUS
  <2>2. z = [y EXCEPT !.currentTxAck = a, !.pendingAcks = TRUE,
                      !.alarms = y.alarms \cup {"ACK"}]
    BY <1>7, <2>1 DEF ProcessDataSeqNum
  <2>3. /\ z.txSent = y.txSent /\ z.txQueue = y.txQueue /\ z.txSeqNum = y.txSeqNum
        /\ z.win = y.win /\ z.expectedSeq = y.expectedSeq
        /\ z.rxQueue = y.rxQueue /\ z.rxFree = y.rxFree /\ z.currentTxAck = a
    <3>1. CASE y = u
      BY <1>1, <2>2, <3>1 DEF Stream
    <3>2. CASE y = x
      BY <1>1, <1>3, <2>2, <3>2 DEF Stream
    <3> QED
      BY <1>7, <3>1, <3>2
  <2>4. y.win = s.win /\ y.currentTxAck = s.currentTxAck
    BY <1>5, <1>6, <1>7
  <2>5. SEQ_GT(y, y.currentTxAck, p.seq) = SEQ_GT(s, s.currentTxAck, p.seq)
    BY <2>4 DEF SEQ_GT
  <2>6. a = Acked(s, p)
    BY <2>1, <2>4, <2>5, Zenon DEF Acked
  <2> QED
    BY <2>3, <2>6
<1>8. CASE p.seq = u.expectedSeq /\ u.rxFree > 0
  <2>1. t = ProcessDataSeqNum(x, p.seq)
    BY <1>4, <1>8
  <2>2. Released(s, m, t)
    BY <1>6, <1>7, <2>1 DEF Released
  <2>3. TookNext(s, p, t) /\ t.win = s.win
    BY <1>5, <1>6, <1>7, <1>8, <2>1 DEF TookNext
  <2> QED
    BY <1>2, <2>2, <2>3 DEF Took
<1>9. CASE p.seq # u.expectedSeq /\ ~SEQ_GT(u, p.seq, u.expectedSeq)
  <2>1. t = ProcessDataSeqNum(u, p.seq)
    BY <1>4, <1>9
  <2>2. Released(s, m, t)
    BY <1>7, <2>1 DEF Released
  <2>3. SEQ_GT(u, p.seq, u.expectedSeq) = SEQ_GT(s, p.seq, s.expectedSeq)
    BY <1>5 DEF SEQ_GT
  <2>4. TookAgain(s, p, t) /\ t.win = s.win
    BY <1>5, <1>7, <1>9, <2>1, <2>3 DEF TookAgain
  <2> QED
    BY <1>2, <2>2, <2>4 DEF Took
<1>10. CASE ~(p.seq = u.expectedSeq /\ u.rxFree > 0)
            /\ ~(p.seq # u.expectedSeq /\ ~SEQ_GT(u, p.seq, u.expectedSeq))
  <2>1. t = u
    BY <1>4, <1>10
  <2>2. Ignored(s, p, t) /\ t.win = s.win
    BY <1>5, <1>10, <2>1 DEF Ignored
  <2> QED
    BY <1>2, <2>1, <2>2 DEF Took
<1> QED
  BY <1>8, <1>9, <1>10

\* The receiver reads a data packet.
LEMMA DirReads ==
    ASSUME NEW e, NEW s \in Stream(e), CtrlFirst(s), NEW P, NEW S, NEW w \in Seq(S), w # << >>,
           NEW r, NEW g, NEW v, Dir(s, P, w, r, g, v), w[1].type = "DATA",
           \A i \in 1..Len(v) : Acks(v[i]) => v[i].ack \in 0..7,
           r.win \in {1, 2, 4}, Win <= r.win, Unset(r) \/ r.win = Win,
           r.rxQueue \in Nat, r.rxFree \in Nat,
           NEW t, Took(r, w[1], t),
           NEW h, h = IF Accepted(r, w[1]) THEN Append(g, w[1].pay) ELSE g
    PROVE  Dir(s, P, Tail(w), t, h, v)
<1>1. PICK una, R, snt, x, p : una = First(s, P) /\ R = Len(g) /\ snt = Sent(s, P)
                               /\ x = Tail(w) /\ p = w[1]
  OBVIOUS
<1>2. /\ una \in Nat /\ R \in Nat /\ snt \in Nat /\ P \in Nat /\ Win \in {1, 2, 4}
      /\ una <= R /\ R <= snt /\ snt <= P /\ P <= una + Win
  BY <1>1, DirNumbers
<1>3. /\ 1 \in 1..Len(w) /\ Len(w) \in Nat
      /\ \A i \in 1..Len(x) : \E j \in 1..Len(w) : j = i + 1 /\ x[i] = w[j]
  BY <1>1, TailFacts
<1>4. DataOrder(w, R, snt)
  BY <1>1 DEF Dir
<1>5. PICK n : n = p.pay[2]
  OBVIOUS
<1>6. n \in Nat /\ p.pay = <<1, n>> /\ p.seq = n % 8 /\ n < snt /\ R <= n + Win
  BY <1>1, <1>3, <1>4, <1>5 DEF DataOrder, Near, IsNth
<1>7. /\ r.expectedSeq = R % 8 /\ r.currentTxAck = R % 8 /\ r.rxQueue <= R
      /\ g \in Seq(Nat \X Nat) /\ (\A i \in 1..Len(g) : g[i] = <<1, i - 1>>)
      /\ Unset(r) => R = 0
  BY <1>1 DEF Dir, RecvOrder
<1>8. n < R + 8 /\ R < n + 8 /\ R <= n + r.win /\ n <= R + 3 /\ n <= R + r.win
  <2>1. PICK W : W = r.win
    OBVIOUS
  <2>2. W \in {1, 2, 4} /\ Win <= W
    BY <2>1
  <2>3. n \in Nat /\ n < snt /\ R <= n + Win
    BY <1>6
  <2>4. n < R + 8 /\ R < n + 8 /\ R <= n + W /\ n <= R + 3 /\ n <= R + W
    BY ONLY <1>2, <2>2, <2>3
  <2> QED
    BY <2>1, <2>4
<1>9. p.seq = r.expectedSeq => n = R
  BY <1>2, <1>6, <1>7, <1>8, ModSame
<1>10. Accepted(r, p) <=> p.seq = r.expectedSeq /\ r.rxFree > 0
  BY <1>1 DEF Accepted, IsData
<1>11. Dir(s, P, x, r, g, v)
  BY <1>1, DirDropData
<1>12. CASE TookNext(r, p, t)
  <2>1. n = R /\ h = Append(g, p.pay) /\ r.rxFree > 0
    BY <1>1, <1>9, <1>10, <1>12 DEF TookNext
  <2>2. h \in Seq(Nat \X Nat) /\ Len(h) = R + 1 /\ \A i \in 1..Len(h) : h[i] = <<1, i - 1>>
    <3>1. PICK c, T : c = <<1, R>> /\ T = Nat \X Nat
      OBVIOUS
    <3>2. h = Append(g, c) /\ c \in T /\ g \in Seq(T) /\ Len(g) = R /\ R \in Nat
      BY <1>1, <1>2, <1>6, <1>7, <2>1, <3>1
    <3>3. h \in Seq(T) /\ Len(h) = R + 1 /\ h[R + 1] = c /\ \A i \in 1..R : h[i] = g[i]
      BY ONLY <3>2
    <3>4. ASSUME NEW i \in 1..(R + 1) PROVE h[i] = <<1, i - 1>>
      <4>1. CASE i = R + 1
        <5>1. i - 1 = R
          BY <1>2, <4>1
        <5> QED
          BY <3>1, <3>3, <4>1, <5>1
      <4>2. CASE i # R + 1
        <5>1. i \in 1..R
          BY <1>2, <4>2
        <5> QED
          BY <1>1, <1>7, <3>3, <5>1
      <4> QED
        BY <4>1, <4>2
    <3> QED
      BY <3>1, <3>3, <3>4
  <2>3. t.expectedSeq = (R + 1) % 8
    BY <1>2, <1>7, <1>12, ModNext DEF TookNext
  <2>4. t.currentTxAck = (R + 1) % 8
    <3>1. PICK y : y = R % 8
      OBVIOUS
    <3>5. PICK W : W = r.win
      OBVIOUS
    <3>3. R <= R + W /\ R <= R + 3 /\ ~(R > R) /\ W \in {1, 2, 4}
      BY <1>2, <3>5, SMTT(30)
    <3>4. ~SEQ_GT(r, y, y)
      BY ONLY <1>2, <3>1, <3>3, <3>5, SeqGtOrder
    <3>2. t.currentTxAck = (p.seq + 1) % 8
      BY <1>6, <1>7, <1>12, <2>1, <3>1, <3>4 DEF TookNext, Acked
    <3> QED
      BY <1>2, <1>6, <2>1, <3>2, ModNext
  <2>5. t.rxQueue = r.rxQueue + 1 /\ t.rxQueue <= R + 1 /\ ~Unset(t)
    BY <1>2, <1>7, <1>12, SMTT(30) DEF TookNext, Unset
  <2>6. RecvOrder(t, h)
    BY <2>2, <2>3, <2>4, <2>5 DEF RecvOrder
  <2>7. DataOrder(x, R + 1, snt)
    <3>1. DataOrder(x, R, snt)
      BY <1>1, <1>11 DEF Dir
    <3>2. ASSUME NEW i \in 1..Len(x) PROVE Near(x[i], R + 1, snt)
      <4>1. PICK j \in 1..Len(w) : j = i + 1 /\ x[i] = w[j]
        BY <1>3
      <4>2. Ahead(w[1], w[j]) /\ Near(x[i], R, snt)
        BY <1>3, <1>4, <3>1, <4>1 DEF DataOrder
      <4>3. x[i].type = "DATA" => R < x[i].pay[2] + Win
        BY <1>1, <1>5, <2>1, <4>1, <4>2 DEF Ahead
      <4> QED
        BY <1>2, <4>2, <4>3, SMTT(30) DEF Near
    <3> QED
      BY <3>1, <3>2 DEF DataOrder
  <2>8. AckOrder(v, una, R + 1)
    <3>1. AckOrder(v, una, R)
      BY <1>1 DEF Dir
    <3>3. PICK R1 : R1 = R + 1
      OBVIOUS
    <3>2. \A i \in 1..Len(v) : Acks(v[i]) => Names(v[i], una) <= R1 - una
      <4> SUFFICES ASSUME NEW i \in 1..Len(v), Acks(v[i]) PROVE Names(v[i], una) <= R1 - una
        OBVIOUS
      <4>1. Names(v[i], una) <= R - una
        BY <3>1 DEF AckOrder
      <4>2. PICK a, d : a = v[i].ack /\ d = Names(v[i], una)
        OBVIOUS
      <4>8. v[i].ack \in 0..7
        BY Zenon
      <4>3. a \in Int /\ una \in Int
        BY ONLY <1>2, <4>2, <4>8
      <4>4. d = (a - una) % 8
        BY <4>2 DEF Names
      <4>5. d \in 0..7
        BY ONLY <4>3, <4>4, ModRange
      <4>6. d <= R - una
        BY <4>1, <4>2
      <4>7. d <= R1 - una
        BY ONLY <1>2, <3>3, <4>5, <4>6
      <4> QED
        BY <4>2, <4>7
    <3>5. AckOrder(v, una, R1)
      BY ONLY <3>1, <3>2, Zenon DEF AckOrder
    <3> QED
      BY <3>3, <3>5
  <2>9. una <= R + 1 /\ R + 1 <= snt
    BY <1>2, <1>6, <2>1
  <2>10. SendOrder(s, P)
    BY DEF Dir
  <2> QED
    BY <1>1, <2>2, <2>6, <2>7, <2>8, <2>9, <2>10 DEF Dir
<1>13. CASE TookAgain(r, p, t) \/ Ignored(r, p, t)
  <2>1. h = g
    BY <1>1, <1>10, <1>13 DEF TookAgain, Ignored
  <2>2. t.currentTxAck = r.currentTxAck
    <3>1. CASE Ignored(r, p, t)
      BY <3>1 DEF Ignored
    <3>2. CASE TookAgain(r, p, t)
      <4>1. PICK y, z : y = n % 8 /\ z = R % 8
        OBVIOUS
      <4>2. n # R /\ ~SEQ_GT(r, y, z) /\ p.seq = y /\ r.currentTxAck = z
        BY <1>6, <1>7, <3>2, <4>1 DEF TookAgain
      <4>0. PICK W : W = r.win
        OBVIOUS
      <4>3. /\ R \in Nat /\ n \in Nat /\ R <= n + W /\ n <= R + 3 /\ n <= R + W
            /\ W \in {1, 2, 4}
        BY <1>2, <1>6, <1>8, <4>0
      <4>4. ASSUME n > R PROVE FALSE
        <5>1. R <= n + 3
          BY ONLY <4>3, <4>4
        <5>2. SEQ_GT(r, y, z) <=> n > R
          BY ONLY <4>0, <4>1, <4>3, <5>1, SeqGtOrder, SMTT(30)
        <5> QED
          BY <4>2, <4>4, <5>2
      <4>5. R > n
        BY ONLY <4>2, <4>3, <4>4
      <4>6. SEQ_GT(r, z, y) <=> R > n
        BY ONLY <4>0, <4>1, <4>3, SeqGtOrder, SMTT(30)
      <4>7. SEQ_GT(r, r.currentTxAck, p.seq)
        BY ONLY <4>2, <4>5, <4>6, Zenon
      <4> QED
        BY <3>2, <4>7, Zenon DEF TookAgain, Acked
    <3> QED
      BY <1>13, <3>1, <3>2
  <2>3. SameRecv(r, t) /\ t.rxQueue = r.rxQueue
    BY <1>13, <2>2 DEF TookAgain, Ignored, SameRecv, Unset
  <2>4. SameSend(s, s)
    BY DEF SameSend
  <2>5. Dir(s, P, x, t, g, v)
    BY <1>11, <2>3, <2>4, DirSame
  <2> QED
    BY <1>1, <2>1, <2>5
<1> QED
  BY <1>1, <1>12, <1>13 DEF Took

\* One more packet is pushed.
LEMMA DirPushes ==
    ASSUME NEW e, NEW s \in Stream(e), CtrlFirst(s), NEW P, NEW w, NEW r,
           NEW g, NEW v, Dir(s, P, w, r, g, v), Len(Unacked(s)) < Win,
           NEW p \in DataPacket, IsNth(p, P),
           NEW t, t.txSent = s.txSent, Waits(t) = Append(Waits(s), p),
           t.txSeqNum = (s.txSeqNum + 1) % 8
    PROVE  Dir(t, P + 1, w, r, g, v)
<1>1. PICK una, R, snt, U, Q : una = First(s, P) /\ R = Len(g) /\ snt = Sent(s, P)
                               /\ U = Unacked(s) /\ Q = P + 1
  OBVIOUS
<1>2. /\ una \in Nat /\ R \in Nat /\ snt \in Nat /\ P \in Nat /\ Win \in {1, 2, 4}
      /\ una <= R /\ R <= snt /\ snt <= P /\ P <= una + Win /\ P = una + Len(U)
  BY <1>1, DirNumbers
<1>3. PICK a, b : a = s.txSent /\ b = Waits(s)
  OBVIOUS
<1>4. /\ a \in Seq(DataPacket) /\ b \in Seq(DataPacket) /\ U = a \o b
      /\ U \in Seq(DataPacket) /\ Len(U) \in Nat /\ Len(b) \in Nat
  BY <1>1, <1>3, WaitsData, LenProperties DEF Unacked
<1>5. Unacked(t) = Append(U, p)
  <2>1. Unacked(t) = a \o Append(b, p)
    BY <1>3 DEF Unacked
  <2>2. a \o Append(b, p) = Append(a \o b, p)
    BY ONLY <1>4, p \in DataPacket
  <2> QED
    BY <1>4, <2>1, <2>2
<1>6. /\ Len(Unacked(t)) = Len(U) + 1 /\ Unacked(t)[Len(U) + 1] = p
      /\ \A i \in 1..Len(U) : Unacked(t)[i] = U[i]
      /\ Len(Waits(t)) = Len(b) + 1
  <2>1. /\ Len(Append(U, p)) = Len(U) + 1 /\ Append(U, p)[Len(U) + 1] = p
        /\ \A i \in 1..Len(U) : Append(U, p)[i] = U[i]
        /\ Len(Append(b, p)) = Len(b) + 1
    BY ONLY <1>4, p \in DataPacket
  <2> QED
    BY <1>3, <1>5, <2>1
<1>7. First(t, Q) = una /\ Sent(t, Q) = snt
  <2>1. PICK k, l : k = Len(U) /\ l = Len(b)
    OBVIOUS
  <2>2. /\ First(t, Q) = Q - (k + 1) /\ Sent(t, Q) = Q - (l + 1)
        /\ una = P - k /\ snt = P - l
    BY <1>1, <1>3, <1>6, <2>1 DEF First, Sent
  <2>3. Q - (k + 1) = P - k /\ Q - (l + 1) = P - l
    <3>1. Q = P + 1 /\ P \in Nat /\ k \in Nat /\ l \in Nat
      BY <1>1, <1>2, <1>4, <2>1
    <3> QED
      BY ONLY <3>1
  <2> QED
    BY ONLY <2>2, <2>3
<1>8. SendOrder(t, Q)
  <2>1. s.txSeqNum = P % 8 /\ \A i \in 1..Len(U) : IsNth(U[i], una + i - 1)
    BY <1>1 DEF Dir, SendOrder
  <2>2. t.txSeqNum = Q % 8
    BY <1>1, <1>2, <2>1, ModNext
  <2>3. ASSUME NEW i \in 1..(Len(U) + 1) PROVE IsNth(Unacked(t)[i], una + i - 1)
    <3>1. CASE i = Len(U) + 1
      <4>1. una + i - 1 = P
        BY ONLY <1>2, <1>4, <3>1
      <4> QED
        BY <1>6, <3>1, <4>1
    <3>2. CASE i # Len(U) + 1
      <4>1. i \in 1..Len(U)
        BY ONLY <1>4, <3>2, <2>3
      <4> QED
        BY <1>6, <2>1, <4>1
    <3> QED
      BY <3>1, <3>2
  <2>4. Q \in Nat /\ Len(U) + 1 <= Win
    BY <1>1, <1>2, <1>4, SMTT(30)
  <2> QED
    BY <1>2, <1>6, <1>7, <2>2, <2>3, <2>4 DEF SendOrder
<1>9. Dir(t, Q, w, r, g, v)
  BY <1>1, <1>7, <1>8, Zenon DEF Dir
<1> QED
  BY <1>1, <1>9

-----------------------------------------------------------------------------
(* TransmitToLink.                                                         *)

\* A filter that lets everything through.
LEMMA OfTypeAll ==
    ASSUME NEW S, NEW T, \A x \in S : x.type \in T
    PROVE  \A q \in Seq(S) : OfType(q, T) = q
<1> DEFINE Bad == {n \in Nat : \E q \in Seq(S) : Len(q) = n /\ OfType(q, T) # q}
<1>1. SUFFICES ASSUME Bad # {} PROVE FALSE
  OBVIOUS
<1>2. PICK n \in Bad : \A k \in Bad : n <= k
  BY <1>1, LeastExists
<1>3. PICK q \in Seq(S) : Len(q) = n /\ OfType(q, T) # q
  BY <1>2
<1>4. n # 0
  BY <1>3, OfTypeEmpty, EmptySeq
<1>a. Len(q) # 0
  BY <1>3, <1>4
<1>b. \E r \in Seq(S), x \in S : q = Append(r, x) /\ Len(r) = Len(q) - 1
  BY ONLY q \in Seq(S), <1>a, SplitLast
<1>5. PICK r \in Seq(S), x \in S : q = Append(r, x) /\ Len(r) = n - 1
  BY ONLY <1>b, <1>3
<1>6. OfType(r, T) = r
  <2>1. n - 1 \in Nat /\ ~(n <= n - 1)
    BY <1>2, <1>4
  <2> QED
    BY <2>1, <1>2, <1>5
<1>7. OfType(q, T) = IF x.type \in T THEN Append(OfType(r, T), x) ELSE OfType(r, T)
  BY <1>5, OfTypeAppend
<1> QED
  BY <1>3, <1>5, <1>6, <1>7

\* A data packet is stamped with the current ack, and is otherwise the same.
LEMMA StampData ==
    ASSUME NEW e, NEW s \in Stream(e), NEW x \in DataPacket
    PROVE  /\ Stamp(s, x) \in DataPacket /\ SamePacket(Stamp(s, x), x)
           /\ Stamp(s, x).ack = s.currentTxAck
<1>1. x # CtrlRef /\ x.type = "DATA" /\ s.currentTxAck \in 0..7
  BY PacketTypes, StreamFields
<1>2. Stamp(s, x) = [x EXCEPT !.ack = s.currentTxAck]
  BY <1>1 DEF Stamp
<1> QED
  BY <1>1, <1>2 DEF DataPacket, SamePacket

LEMMA StampAck ==
    ASSUME NEW e, NEW s \in Stream(e), NEW x \in Item, Acks(Stamp(s, x))
    PROVE  Stamp(s, x).ack = s.currentTxAck
<1>1. CASE x \in DataPacket
  BY <1>1, StampData
<1>2. CASE x = CtrlRef
  <2>1. s.txCtrl \in Control(e)
    BY StreamFields
  <2>2. Stamp(s, x) = IF s.txCtrl.type \in {"DATA", "ACK"}
                      THEN [s.txCtrl EXCEPT !.ack = s.currentTxAck] ELSE s.txCtrl
    BY <1>2 DEF Stamp
  <2>3. CASE s.txCtrl.type \in {"DATA", "ACK"}
    <3>1. s.txCtrl \in [type : {"ACK"}, ack : 0..7]
      BY <2>1, <2>3 DEF Control
    <3> QED
      BY <2>2, <2>3, <3>1
  <2>4. CASE ~(s.txCtrl.type \in {"DATA", "ACK"})
    BY <2>2, <2>4 DEF Acks
  <2> QED
    BY <2>3, <2>4
<1> QED
  BY <1>1, <1>2 DEF Item

\* What an end that is not held up sends: the data packets that wait, stamped.
Stamped(s, d) ==
    /\ d \in Seq(DataPacket) /\ Len(d) = Len(Waits(s))
    /\ \A i \in 1..Len(d) : SamePacket(d[i], Waits(s)[i])

LEMMA TransmitData ==
    ASSUME NEW e, NEW s \in Stream(e), CtrlFirst(s), s.txCurrent = << >>, s.txQueue # << >>,
           NEW all, all = ToTransmit(s), NEW d, d = OfType(all, {"DATA"})
    PROVE  Stamped(s, d)
<1>1. PICK q, D : q = s.txQueue /\ D = Waits(s)
  OBVIOUS
<1>2. D \in Seq(DataPacket) /\ (q = D \/ q = <<CtrlRef>> \o D) /\ Len(D) \in Nat
  BY <1>1, WaitsData
<1>3. PICK x : x = [i \in 1..Len(D) |-> Stamp(s, D[i])]
  OBVIOUS
<1>4. /\ x \in Seq(DataPacket) /\ Len(x) = Len(D)
      /\ \A i \in 1..Len(x) : SamePacket(x[i], D[i])
  <2>1. \A i \in 1..Len(D) : D[i] \in DataPacket
    BY <1>2, ElementOfSeq
  <2>2. \A i \in 1..Len(D) : Stamp(s, D[i]) \in DataPacket /\ SamePacket(Stamp(s, D[i]), D[i])
    BY <2>1, StampData
  <2>3. x \in [1..Len(D) -> DataPacket] /\ \A i \in 1..Len(D) : x[i] = Stamp(s, D[i])
    BY <1>3, <2>2
  <2>4. x \in Seq(DataPacket) /\ Len(x) = Len(D)
    BY ONLY <1>2, <2>3
  <2> QED
    BY <2>2, <2>3, <2>4
<1>5. OfType(x, {"DATA"}) = x
  <2>1. \A p \in DataPacket : p.type \in {"DATA"}
    BY PacketTypes
  <2> QED
    BY <1>4, <2>1, OfTypeAll
<1>6. /\ all \in Seq(Packet(e)) /\ Len(all) = Len(q)
      /\ \A i \in 1..Len(q) : all[i] = Stamp(s, q[i])
  <2>1. /\ all \in Seq(Packet(e)) /\ Len(all) = Len(s.txCurrent) + Len(s.txQueue)
        /\ Len(s.txQueue) \in Nat
        /\ \A i \in 1..Len(s.txQueue) : all[Len(s.txCurrent) + i] = Stamp(s, s.txQueue[i])
    BY TransmitList
  <2>2. Len(s.txCurrent) = 0
    OBVIOUS
  <2>3. ASSUME NEW i \in 1..Len(q) PROVE all[i] = Stamp(s, q[i])
    <3>1. Len(s.txCurrent) + i = i
      BY ONLY <1>1, <2>1, <2>2, <2>3
    <3> QED
      BY <1>1, <2>1, <3>1
  <2>4. Len(all) = Len(q)
    BY <1>1, <2>1, <2>2
  <2> QED
    BY <2>1, <2>3, <2>4
<1>7. CASE q = D
  <2>1. all = x
    <3>1. Len(all) = Len(x) /\ \A i \in 1..Len(all) : all[i] = x[i]
      BY <1>3, <1>4, <1>6, <1>7
    <3> QED
      BY ONLY <1>4, <1>6, <3>1, SeqEqual
  <2> QED
    BY <1>1, <1>4, <1>5, <2>1 DEF Stamped
<1>8. CASE q = <<CtrlRef>> \o D
  <2>1. PICK c : c = Stamp(s, CtrlRef)
    OBVIOUS
  <2>2. c.type # "DATA" /\ c \in Packet(e) /\ DataPacket \subseteq Packet(e)
    BY <2>1, StampFacts, PacketTypes
  <2>3. Len(q) = Len(D) + 1 /\ q[1] = CtrlRef /\ \A i \in 2..Len(q) : q[i] = D[i - 1]
    <3>1. PICK k : k = CtrlRef
      OBVIOUS
    <3>2. D \in Seq(DataPacket \cup {k}) /\ q = <<k>> \o D
      BY <1>2, <1>8, <3>1
    <3>3. Len(q) = Len(D) + 1 /\ q[1] = k /\ \A i \in 2..Len(q) : q[i] = D[i - 1]
      BY ONLY <3>2
    <3> QED
      BY <3>1, <3>3
  <2>4. x \in Seq(Packet(e)) /\ <<c>> \in Seq(Packet(e))
    BY <1>4, <2>2
  <2>5. all = <<c>> \o x
    <3>1. PICK y : y = <<c>> \o x
      OBVIOUS
    <3>2. y \in Seq(Packet(e)) /\ Len(y) = Len(x) + 1 /\ y[1] = c
          /\ \A i \in 2..Len(y) : y[i] = x[i - 1]
      BY ONLY <2>4, <3>1
    <3>3. Len(all) = Len(y)
      BY <1>4, <1>6, <2>3, <3>2
    <3>4. ASSUME NEW i \in 1..Len(all) PROVE all[i] = y[i]
      <4>1. CASE i = 1
        BY <1>6, <2>1, <2>3, <3>2, <4>1
      <4>2. CASE i # 1
        <5>1. i \in 2..Len(q) /\ i \in 2..Len(y) /\ i - 1 \in 1..Len(D)
          BY <1>2, <1>4, <1>6, <2>3, <3>2, <4>2
        <5>2. all[i] = Stamp(s, D[i - 1])
          BY <1>6, <2>3, <5>1
        <5>3. y[i] = x[i - 1] /\ x[i - 1] = Stamp(s, D[i - 1])
          BY <1>3, <3>2, <5>1
        <5> QED
          BY <5>2, <5>3
      <4> QED
        BY <4>1, <4>2
    <3> QED
      BY <1>6, <3>1, <3>2, <3>3, <3>4, SeqEqual
  <2>6. OfType(all, {"DATA"}) = OfType(<<c>>, {"DATA"}) \o OfType(x, {"DATA"})
    <3>1. PICK y, T, Z : y = <<c>> /\ T = {"DATA"} /\ Z = Packet(e)
      OBVIOUS
    <3>2. y \in Seq(Z) /\ x \in Seq(Z) /\ all = y \o x
      BY <2>4, <2>5, <3>1
    <3>3. OfType(y \o x, T) = OfType(y, T) \o OfType(x, T)
      BY ONLY <3>2, OfTypeConcat
    <3> QED
      BY <3>1, <3>2, <3>3
  <2>7. OfType(<<c>>, {"DATA"}) = << >>
    BY <2>2, OfTypeOne
  <2>8. << >> \o x = x
    BY <1>4
  <2> QED
    BY <1>1, <1>4, <1>5, <2>6, <2>7, <2>8 DEF Stamped
<1> QED
  BY <1>2, <1>7, <1>8

\* The packets on the wire are stamped with the ack of the moment.
FromWaits(s, p) ==
    /\ Acks(p) => p.ack = s.currentTxAck
    /\ p.type = "DATA" => \E i \in 1..Len(Waits(s)) : SamePacket(p, Waits(s)[i])

LEMMA TransmitPackets ==
    ASSUME NEW e, NEW s \in Stream(e), CtrlFirst(s), s.txCurrent = << >>,
           NEW all, all = ToTransmit(s), NEW n, n = OfType(all, Valid)
    PROVE  n \in Seq({p \in Packet(e) : FromWaits(s, p)})
<1> DEFINE S == {p \in Packet(e) : FromWaits(s, p)}
<1>1. all \in Seq(S)
  <2>1. CASE s.txQueue = << >>
    <3>1. all = << >>
      BY <2>1 DEF ToTransmit
    <3> QED
      BY <3>1
  <2>2. CASE s.txQueue # << >>
    <3>1. PICK q, D : q = s.txQueue /\ D = Waits(s)
      OBVIOUS
    <3>2. D \in Seq(DataPacket) /\ (q = D \/ q = <<CtrlRef>> \o D) /\ Len(D) \in Nat
      BY <3>1, WaitsData
    <3>3. q \in Seq(Item) /\ Len(q) \in Nat
      BY <3>1, StreamFields, LenProperties
    <3>4. /\ all \in Seq(Packet(e)) /\ Len(all) = Len(q)
          /\ \A i \in 1..Len(q) : all[i] = Stamp(s, q[i])
      <4>1. /\ all \in Seq(Packet(e)) /\ Len(all) = Len(s.txCurrent) + Len(s.txQueue)
            /\ Len(s.txQueue) \in Nat
            /\ \A i \in 1..Len(s.txQueue) : all[Len(s.txCurrent) + i] = Stamp(s, s.txQueue[i])
        BY <2>2, TransmitList
      <4>2. Len(s.txCurrent) = 0
        OBVIOUS
      <4>3. ASSUME NEW i \in 1..Len(q) PROVE all[i] = Stamp(s, q[i])
        <5>1. Len(s.txCurrent) + i = i
          BY ONLY <3>1, <4>1, <4>2, <4>3
        <5> QED
          BY <3>1, <4>1, <5>1
      <4>4. Len(all) = Len(q)
        BY <3>1, <4>1, <4>2
      <4> QED
        BY <4>1, <4>3, <4>4
    <3>5. ASSUME NEW i \in 1..Len(q) PROVE q[i] = CtrlRef \/ \E j \in 1..Len(D) : q[i] = D[j]
      <4>1. CASE q = D
        BY <3>5, <4>1
      <4>2. CASE q = <<CtrlRef>> \o D
        <5>1. PICK k, T : k = CtrlRef /\ T = DataPacket \cup {CtrlRef}
          OBVIOUS
        <5>2. D \in Seq(T) /\ <<k>> \in Seq(T) /\ q = <<k>> \o D
          BY <3>2, <4>2, <5>1
        <5>3. \/ i \in 1..Len(<<k>>) /\ q[i] = <<k>>[i]
              \/ \E j \in 1..Len(D) : i = Len(<<k>>) + j /\ q[i] = D[j]
          BY ONLY <3>5, <5>2, ConcatIndex
        <5>4. i \in 1..Len(<<k>>) => <<k>>[i] = k
          OBVIOUS
        <5> QED
          BY <5>1, <5>3, <5>4
      <4> QED
        BY <3>2, <4>1, <4>2
    <3>6. ASSUME NEW i \in 1..Len(all) PROVE all[i] \in S
      <4>1. i \in 1..Len(q) /\ all[i] = Stamp(s, q[i]) /\ q[i] \in Item /\ all[i] \in Packet(e)
        BY <3>3, <3>4, <3>6, ElementOfSeq
      <4>2. Acks(all[i]) => all[i].ack = s.currentTxAck
        BY <4>1, StampAck
      <4>3. all[i].type = "DATA" => q[i].type = "DATA"
        BY <4>1, StampFacts
      <4>4. ASSUME all[i].type = "DATA" PROVE \E j \in 1..Len(D) : SamePacket(all[i], D[j])
        <5>1. q[i] \in DataPacket /\ q[i] # CtrlRef
          BY <4>1, <4>3, <4>4, PacketTypes
        <5>2. PICK j \in 1..Len(D) : q[i] = D[j]
          BY <3>5, <4>1, <5>1
        <5>3. SamePacket(Stamp(s, q[i]), q[i])
          BY <5>1, StampData
        <5> QED
          BY <4>1, <5>2, <5>3
      <4>5. FromWaits(s, all[i])
        BY <3>1, <4>2, <4>4 DEF FromWaits
      <4> QED
        BY <4>1, <4>5
    <3> HIDE DEF S
    <3> QED
      BY <3>4, <3>6
  <2> QED
    BY <2>1, <2>2
<1>2. n \in Seq({p \in S : p.type \in Valid})
  <2> HIDE DEF S
  <2> QED
    BY <1>1, OfTypeElements
<1>3. {p \in S : p.type \in Valid} \subseteq S
  OBVIOUS
<1> HIDE DEF S
<1>4. n \in Seq(S)
  BY <1>2, <1>3
<1> QED
  BY <1>4 DEF S

\* After TransmitToLink nothing waits, and what waited is unacknowledged.
LEMMA TransmitLeaves ==
    ASSUME NEW e, NEW s \in Stream(e), CtrlFirst(s), s.txCurrent = << >>,
           NEW all, all = ToTransmit(s), NEW u, u = AfterTransmit(s, Len(all))
    PROVE  /\ \E d : Stamped(s, d) /\ u.txSent = s.txSent \o d
           /\ Waits(u) = << >> /\ u.txSeqNum = s.txSeqNum /\ SameRead(s, u)
<1>a. s.txQueue \in Seq(Item) /\ s.txSent \in Seq(DataPacket)
  BY StreamFields
<1>1. CASE s.txQueue = << >>
  <2>1. all = << >>
    BY <1>1 DEF ToTransmit
  <2>2. u = s \/ u = Arm(s, "RESEND")
    BY <2>1 DEF AfterTransmit
  <2>3. u.txSent = s.txSent /\ u.txQueue = s.txQueue /\ u.txSeqNum = s.txSeqNum /\ SameRead(s, u)
    <3>1. CASE u = s
      BY <3>1 DEF SameRead
    <3>2. CASE u = Arm(s, "RESEND")
      BY <3>2 DEF Arm, Stream, SameRead
    <3> QED
      BY <2>2, <3>1, <3>2
  <2>4. Waits(s) = << >> /\ Waits(u) = << >>
    BY <1>1, <2>3 DEF Waits
  <2>5. Stamped(s, << >>) /\ s.txSent \o << >> = s.txSent
    BY <1>a, <2>4 DEF Stamped
  <2> QED
    BY <2>3, <2>4, <2>5
<1>2. CASE s.txQueue # << >>
  <2>1. PICK A : A = Len(all)
    OBVIOUS
  <2>2. /\ all \in Seq(Packet(e)) /\ A = Len(s.txQueue) /\ all # << >> /\ A \in Nat /\ A > 0
    <3>1. /\ all \in Seq(Packet(e)) /\ Len(all) = Len(s.txCurrent) + Len(s.txQueue)
          /\ all # << >> /\ Len(s.txQueue) \in Nat /\ Len(s.txQueue) > 0
      BY <1>2, TransmitList
    <3>2. Len(s.txCurrent) = 0
      OBVIOUS
    <3> QED
      BY <2>1, <3>1, <3>2
  <2>3. SmallerOf(A + 1, A) = A
    BY <2>2 DEF SmallerOf
  <2>4. SubSeq(all, 1, A) = all
    BY ONLY <2>1, <2>2, SubSeqFull
  <2>5. PICK fresh : fresh = SubSeq(SubSeq(all, 1, SmallerOf(A + 1, A)), Len(s.txCurrent) + 1,
                                    Len(SubSeq(all, 1, SmallerOf(A + 1, A))))
    OBVIOUS
  <2>6. fresh = all
    <3>1. Len(s.txCurrent) + 1 = 1
      OBVIOUS
    <3>2. fresh = SubSeq(all, 1, A)
      BY ONLY <2>1, <2>3, <2>4, <2>5, <3>1
    <3> QED
      BY <2>4, <3>2
  <2>7. PICK d, rest, pend, al :
            /\ d = OfType(all, {"DATA"})
            /\ rest = SubSeq(s.txQueue, A + 1, Len(s.txQueue))
            /\ pend = (s.pendingAcks /\ ~ \E i \in 1..Len(fresh) : fresh[i].type \in {"DATA", "ACK"})
            /\ al = (IF (\E i \in 1..Len(fresh) : fresh[i].type \in {"DATA", "ACK"})
                        /\ s.pendingAcks THEN s.alarms \ {"ACK"} ELSE s.alarms)
                    \cup (IF s.txSent \o d # << >> THEN {"RESEND"} ELSE {})
    OBVIOUS
  <2>8. u = [s EXCEPT !.txCurrent = << >>, !.txQueue = rest, !.txSent = s.txSent \o d,
                      !.pendingAcks = pend, !.alarms = al]
    <3>1. ~(A < Len(all))
      BY <2>1, <2>2
    <3>2. u = [s EXCEPT
                !.txCurrent = << >>,
                !.txQueue = SubSeq(s.txQueue, Len(fresh) + 1, Len(s.txQueue)),
                !.txSent = s.txSent \o OfType(SubSeq(all, 1, A), {"DATA"}),
                !.pendingAcks = s.pendingAcks
                                /\ ~ \E i \in 1..Len(fresh) : fresh[i].type \in {"DATA", "ACK"},
                !.alarms = (IF (\E i \in 1..Len(fresh) : fresh[i].type \in {"DATA", "ACK"})
                               /\ s.pendingAcks THEN s.alarms \ {"ACK"} ELSE s.alarms)
                           \cup (IF s.txSent \o OfType(SubSeq(all, 1, A), {"DATA"}) # << >>
                                 THEN {"RESEND"} ELSE {})]
      BY <2>1, <2>2, <2>5, <3>1, ZenonT(60) DEF AfterTransmit
    <3> QED
      BY <2>1, <2>4, <2>6, <2>7, <3>2, Zenon
  <2>9. /\ u.txQueue = rest /\ u.txSent = s.txSent \o d /\ u.txSeqNum = s.txSeqNum
        /\ SameRead(s, u)
    BY <2>8 DEF Stream, SameRead
  <2>10. rest = << >>
    <3>1. A + 1 > Len(s.txQueue)
      BY <2>2
    <3> QED
      BY <1>a, <2>2, <2>7, <3>1
  <2>11. Waits(u) = << >>
    BY <2>9, <2>10 DEF Waits
  <2>12. Stamped(s, d)
    BY <1>2, <2>7, TransmitData
  <2> QED
    BY <2>9, <2>11, <2>12
<1> QED
  BY <1>1, <1>2

-----------------------------------------------------------------------------
(* What SLAPWindow sees of one direction, and how steps change it.         *)

\* The data packets and the acks of a wire, as SLAPWindow sees them.
Datas(q) == [i \in 1..Len(q) |-> [n |-> q[i].pay[2], seq |-> q[i].seq]]
Upto(p, una) == una + Names(p, una)
Infos(q, una) == [i \in 1..Len(q) |-> [ack |-> q[i].ack, upto |-> Upto(q[i], una)]]
DataOf(w) == Datas(OfType(w, {"DATA"}))
AcksOf(v, una) == Infos(OfType(v, {"DATA", "ACK"}), una)

Info(p, una) == [ack |-> p.ack, upto |-> Upto(p, una)]
Data(p) == [n |-> p.pay[2], seq |-> p.seq]

LEMMA DatasSeq ==
    ASSUME NEW S, NEW q \in Seq(S)
    PROVE  /\ Datas(q) \in Seq({Data(p) : p \in S}) /\ Len(Datas(q)) = Len(q)
           /\ \A i \in 1..Len(q) : Datas(q)[i] = Data(q[i])
<1>1. PICK k, T, d : k = Len(q) /\ T = {Data(p) : p \in S} /\ d = Datas(q)
  OBVIOUS
<1>2. k \in Nat /\ \A i \in 1..k : q[i] \in S
  BY <1>1, ElementOfSeq, LenProperties
<1>3. d = [i \in 1..k |-> Data(q[i])]
  BY <1>1 DEF Datas, Data
<1>4. \A i \in 1..k : Data(q[i]) \in T
  BY <1>1, <1>2
<1>5. d \in [1..k -> T] /\ \A i \in 1..k : d[i] = Data(q[i])
  BY ONLY <1>3, <1>4
<1>6. d \in Seq(T) /\ Len(d) = k
  BY ONLY <1>2, <1>5
<1> QED
  BY ONLY <1>1, <1>5, <1>6

LEMMA DatasConcat ==
    ASSUME NEW S, NEW x \in Seq(S), NEW y \in Seq(S) PROVE Datas(x \o y) = Datas(x) \o Datas(y)
<1>1. PICK z, T, a, b : z = x \o y /\ T = {Data(p) : p \in S} /\ a = Datas(x) /\ b = Datas(y)
  OBVIOUS
<1>2. z \in Seq(S) /\ Len(z) = Len(x) + Len(y) /\ Len(x) \in Nat /\ Len(y) \in Nat
  BY ONLY <1>1, x \in Seq(S), y \in Seq(S)
<1>3. a \in Seq(T) /\ Len(a) = Len(x) /\ (\A i \in 1..Len(x) : a[i] = Data(x[i]))
      /\ b \in Seq(T) /\ Len(b) = Len(y) /\ (\A i \in 1..Len(y) : b[i] = Data(y[i]))
  BY <1>1, DatasSeq
<1>4. PICK c : c = Datas(z)
  OBVIOUS
<1>5. c \in Seq(T) /\ Len(c) = Len(z) /\ \A i \in 1..Len(z) : c[i] = Data(z[i])
  BY <1>1, <1>2, <1>4, DatasSeq
<1>6. PICK d : d = a \o b
  OBVIOUS
<1>7. d \in Seq(T) /\ Len(d) = Len(z)
  <2>1. a \in Seq(T) /\ b \in Seq(T) /\ Len(a) = Len(x) /\ Len(b) = Len(y)
    BY ONLY <1>3
  <2>2. d \in Seq(T) /\ Len(d) = Len(a) + Len(b)
    BY ONLY <1>6, <2>1, ConcatProperties
  <2> QED
    BY ONLY <1>2, <2>1, <2>2
<1>8. ASSUME NEW i \in 1..Len(z) PROVE c[i] = d[i]
  <2>1. CASE i <= Len(x)
    <3>1. z[i] = x[i] /\ d[i] = a[i] /\ i \in 1..Len(x)
      BY ONLY <1>1, <1>2, <1>3, <1>6, <1>8, <2>1, x \in Seq(S), y \in Seq(S)
    <3> QED
      BY <1>3, <1>5, <3>1
  <2>2. CASE i > Len(x)
    <3>1. PICK j : j = i - Len(x)
      OBVIOUS
    <3>2. j \in 1..Len(y) /\ z[i] = y[j] /\ d[i] = b[j]
      BY ONLY <1>1, <1>2, <1>3, <1>6, <1>8, <2>2, <3>1, x \in Seq(S), y \in Seq(S)
    <3> QED
      BY <1>3, <1>5, <3>2
  <2> QED
    BY <1>2, <2>1, <2>2
<1>9. c = d
  BY ONLY <1>5, <1>7, <1>8, SeqEqual
<1> QED
  BY <1>1, <1>4, <1>6, <1>9

LEMMA InfosSeq ==
    ASSUME NEW S, NEW q \in Seq(S), NEW una
    PROVE  /\ Infos(q, una) \in Seq({Info(p, una) : p \in S}) /\ Len(Infos(q, una)) = Len(q)
           /\ \A i \in 1..Len(q) : Infos(q, una)[i] = Info(q[i], una)
<1>1. PICK k, T, d : k = Len(q) /\ T = {Info(p, una) : p \in S} /\ d = Infos(q, una)
  OBVIOUS
<1>2. k \in Nat /\ \A i \in 1..k : q[i] \in S
  BY <1>1, ElementOfSeq, LenProperties
<1>3. d = [i \in 1..k |-> Info(q[i], una)]
  BY <1>1 DEF Infos, Info
<1>4. \A i \in 1..k : Info(q[i], una) \in T
  BY <1>1, <1>2
<1>5. d \in [1..k -> T] /\ \A i \in 1..k : d[i] = Info(q[i], una)
  BY ONLY <1>3, <1>4
<1>6. d \in Seq(T) /\ Len(d) = k
  BY ONLY <1>2, <1>5
<1> QED
  BY ONLY <1>1, <1>5, <1>6

LEMMA InfosConcat ==
    ASSUME NEW S, NEW x \in Seq(S), NEW y \in Seq(S), NEW una
    PROVE  Infos(x \o y, una) = Infos(x, una) \o Infos(y, una)
<1>1. PICK z, T, a, b : /\ z = x \o y /\ T = {Info(p, una) : p \in S}
                        /\ a = Infos(x, una) /\ b = Infos(y, una)
  OBVIOUS
<1>2. z \in Seq(S) /\ Len(z) = Len(x) + Len(y) /\ Len(x) \in Nat /\ Len(y) \in Nat
  BY ONLY <1>1, x \in Seq(S), y \in Seq(S)
<1>3. a \in Seq(T) /\ Len(a) = Len(x) /\ (\A i \in 1..Len(x) : a[i] = Info(x[i], una))
      /\ b \in Seq(T) /\ Len(b) = Len(y) /\ (\A i \in 1..Len(y) : b[i] = Info(y[i], una))
  BY <1>1, InfosSeq
<1>4. PICK c : c = Infos(z, una)
  OBVIOUS
<1>5. c \in Seq(T) /\ Len(c) = Len(z) /\ \A i \in 1..Len(z) : c[i] = Info(z[i], una)
  BY <1>1, <1>2, <1>4, InfosSeq
<1>6. PICK d : d = a \o b
  OBVIOUS
<1>7. d \in Seq(T) /\ Len(d) = Len(z)
  <2>1. a \in Seq(T) /\ b \in Seq(T) /\ Len(a) = Len(x) /\ Len(b) = Len(y)
    BY ONLY <1>3
  <2>2. d \in Seq(T) /\ Len(d) = Len(a) + Len(b)
    BY ONLY <1>6, <2>1, ConcatProperties
  <2> QED
    BY ONLY <1>2, <2>1, <2>2
<1>8. ASSUME NEW i \in 1..Len(z) PROVE c[i] = d[i]
  <2>1. CASE i <= Len(x)
    <3>1. z[i] = x[i] /\ d[i] = a[i] /\ i \in 1..Len(x)
      BY ONLY <1>1, <1>2, <1>3, <1>6, <1>8, <2>1, x \in Seq(S), y \in Seq(S)
    <3> QED
      BY <1>3, <1>5, <3>1
  <2>2. CASE i > Len(x)
    <3>1. PICK j : j = i - Len(x)
      OBVIOUS
    <3>2. j \in 1..Len(y) /\ z[i] = y[j] /\ d[i] = b[j]
      BY ONLY <1>1, <1>2, <1>3, <1>6, <1>8, <2>2, <3>1, x \in Seq(S), y \in Seq(S)
    <3> QED
      BY <1>3, <1>5, <3>2
  <2> QED
    BY <1>2, <2>1, <2>2
<1>9. c = d
  BY ONLY <1>5, <1>7, <1>8, SeqEqual
<1> QED
  BY <1>1, <1>4, <1>6, <1>9

\* The first packet of a sequence, and the rest.
LEMMA HeadTail ==
    ASSUME NEW S, NEW w \in Seq(S), w # << >>, NEW T
    PROVE  /\ w[1] \in S /\ Tail(w) \in Seq(S)
           /\ w[1].type \in T => OfType(w, T) = <<w[1]>> \o OfType(Tail(w), T)
           /\ w[1].type \notin T => OfType(w, T) = OfType(Tail(w), T)
<1>1. PICK p, x, y : p = w[1] /\ x = Tail(w) /\ y = <<p>>
  OBVIOUS
<1>2. p \in S /\ x \in Seq(S) /\ w = <<p>> \o x
  <2>1. w = <<w[1]>> \o Tail(w) /\ w[1] \in S /\ Tail(w) \in Seq(S)
    OBVIOUS
  <2> QED
    BY <1>1, <2>1
<1>3. y \in Seq(S) /\ w = y \o x
  BY <1>1, <1>2
<1>4. OfType(y \o x, T) = OfType(y, T) \o OfType(x, T)
  BY ONLY <1>2, <1>3, OfTypeConcat
<1>5. OfType(y, T) = IF p.type \in T THEN <<p>> ELSE << >>
  BY <1>1, OfTypeOne
<1>6. OfType(x, T) \in Seq({z \in S : z.type \in T})
  BY <1>2, OfTypeElements
<1>7. << >> \o OfType(x, T) = OfType(x, T)
  BY <1>6, ConcatEmptySeq
<1> QED
  BY <1>1, <1>2, <1>3, <1>4, <1>5, <1>7

LEMMA DataOfTail ==
    ASSUME NEW S, NEW w \in Seq(S), w # << >>
    PROVE  /\ w[1].type = "DATA" => /\ DataOf(w) # << >> /\ Head(DataOf(w)) = Data(w[1])
                                    /\ DataOf(Tail(w)) = Tail(DataOf(w))
           /\ w[1].type # "DATA" => DataOf(Tail(w)) = DataOf(w)
<1>1. PICK T, p, x, U : /\ T = {"DATA"} /\ p = w[1] /\ x = OfType(Tail(w), T)
                        /\ U = {z \in S : z.type \in T}
  OBVIOUS
<1>2. /\ Tail(w) \in Seq(S) /\ p \in S
      /\ p.type \in T => OfType(w, T) = <<p>> \o x
      /\ p.type \notin T => OfType(w, T) = x
  BY <1>1, HeadTail
<1>3. x \in Seq(S)
  <2>1. PICK y : y \in Seq(S) /\ x = OfType(y, T)
    BY ONLY <1>1, <1>2
  <2>2. OfType(y, T) \in Seq({z \in S : z.type \in T})
    BY ONLY <2>1, OfTypeElements
  <2>3. {z \in S : z.type \in T} \subseteq S
    OBVIOUS
  <2> QED
    BY ONLY <2>1, <2>2, <2>3
<1>4. CASE w[1].type = "DATA"
  <2>1. OfType(w, T) = <<p>> \o x /\ <<p>> \in Seq(S)
    BY <1>1, <1>2, <1>4
  <2>2. PICK y : y = <<p>>
    OBVIOUS
  <2>3. Datas(y \o x) = Datas(y) \o Datas(x)
    BY ONLY <1>3, <2>1, <2>2, DatasConcat
  <2>4. Datas(y) = <<Data(p)>>
    <3>1. Len(y) = 1 /\ y[1] = p
      BY ONLY <2>2
    <3>2. Datas(y) = [i \in 1..1 |-> Data(y[i])]
      BY <3>1 DEF Datas, Data
    <3>3. PICK d : d = Data(p)
      OBVIOUS
    <3>4. Datas(y) = [i \in 1..1 |-> d]
      BY ONLY <3>1, <3>2, <3>3
    <3> QED
      BY ONLY <3>3, <3>4
  <2>5. PICK V, b, d : V = {Data(z) : z \in S} /\ b = Datas(x) /\ d = Data(p)
    OBVIOUS
  <2>6. b \in Seq(V) /\ d \in V
    BY <1>2, <1>3, <2>5, DatasSeq
  <2>7. DataOf(w) = <<d>> \o b /\ DataOf(Tail(w)) = b
    BY <1>1, <2>1, <2>2, <2>3, <2>4, <2>5 DEF DataOf
  <2>8. <<d>> \o b # << >> /\ Head(<<d>> \o b) = d /\ Tail(<<d>> \o b) = b
    BY ONLY <2>6
  <2> QED
    BY <1>1, <1>4, <2>5, <2>7, <2>8
<1>5. CASE w[1].type # "DATA"
  BY <1>1, <1>2, <1>5 DEF DataOf
<1> QED
  BY <1>4, <1>5

LEMMA AcksOfTail ==
    ASSUME NEW S, NEW v \in Seq(S), v # << >>, NEW una
    PROVE  /\ Acks(v[1]) => /\ AcksOf(v, una) # << >> /\ Head(AcksOf(v, una)) = Info(v[1], una)
                            /\ AcksOf(Tail(v), una) = Tail(AcksOf(v, una))
           /\ ~Acks(v[1]) => AcksOf(Tail(v), una) = AcksOf(v, una)
<1>1. PICK T, p, x, U : /\ T = {"DATA", "ACK"} /\ p = v[1] /\ x = OfType(Tail(v), T)
                        /\ U = {z \in S : z.type \in T}
  OBVIOUS
<1>2. /\ Tail(v) \in Seq(S) /\ p \in S
      /\ p.type \in T => OfType(v, T) = <<p>> \o x
      /\ p.type \notin T => OfType(v, T) = x
  BY <1>1, HeadTail
<1>3. x \in Seq(S)
  <2>1. PICK y : y \in Seq(S) /\ x = OfType(y, T)
    BY ONLY <1>1, <1>2
  <2>2. OfType(y, T) \in Seq({z \in S : z.type \in T})
    BY ONLY <2>1, OfTypeElements
  <2>3. {z \in S : z.type \in T} \subseteq S
    OBVIOUS
  <2> QED
    BY ONLY <2>1, <2>2, <2>3
<1>4. CASE Acks(v[1])
  <2>1. OfType(v, T) = <<p>> \o x /\ <<p>> \in Seq(S)
    BY <1>1, <1>2, <1>4 DEF Acks
  <2>2. PICK y : y = <<p>>
    OBVIOUS
  <2>a. y \in Seq(S)
    BY ONLY <2>1, <2>2
  <2>3. Infos(y \o x, una) = Infos(y, una) \o Infos(x, una)
    BY ONLY <1>3, <2>a, InfosConcat
  <2>4. Infos(y, una) = <<Info(p, una)>>
    <3>1. Len(y) = 1 /\ y[1] = p
      BY ONLY <2>2
    <3>2. Infos(y, una) = [i \in 1..1 |-> Info(y[i], una)]
      BY <3>1 DEF Infos, Info
    <3>3. PICK d : d = Info(p, una)
      OBVIOUS
    <3>4. Infos(y, una) = [i \in 1..1 |-> d]
      BY ONLY <3>1, <3>2, <3>3
    <3> QED
      BY ONLY <3>3, <3>4
  <2>5. PICK V, b, d : V = {Info(z, una) : z \in S} /\ b = Infos(x, una) /\ d = Info(p, una)
    OBVIOUS
  <2>6. b \in Seq(V) /\ d \in V
    BY <1>2, <1>3, <2>5, InfosSeq
  <2>7. AcksOf(v, una) = <<d>> \o b /\ AcksOf(Tail(v), una) = b
    BY <1>1, <2>1, <2>2, <2>3, <2>4, <2>5 DEF AcksOf
  <2>8. <<d>> \o b # << >> /\ Head(<<d>> \o b) = d /\ Tail(<<d>> \o b) = b
    BY ONLY <2>6
  <2> QED
    BY <1>1, <1>4, <2>5, <2>7, <2>8
<1>5. CASE ~Acks(v[1])
  BY <1>1, <1>2, <1>5 DEF AcksOf, Acks
<1> QED
  BY <1>4, <1>5

LEMMA DataOfConcat ==
    ASSUME NEW S, NEW w \in Seq(S), NEW n \in Seq(S)
    PROVE  DataOf(w \o n) = DataOf(w) \o DataOf(n) /\ Len(DataOf(w)) <= Len(w)
           /\ Len(DataOf(w)) \in Nat
<1>1. PICK T, x, y, U : /\ T = {"DATA"} /\ x = OfType(w, T) /\ y = OfType(n, T)
                        /\ U = {z \in S : z.type \in T}
  OBVIOUS
<1>2. x \in Seq(U) /\ y \in Seq(U) /\ Len(x) <= Len(w)
  BY <1>1, OfTypeElements
<1>3. OfType(w \o n, T) = x \o y
  <2>1. OfType(w \o n, T) = OfType(w, T) \o OfType(n, T)
    BY ONLY w \in Seq(S), n \in Seq(S), OfTypeConcat
  <2> QED
    BY ONLY <1>1, <2>1
<1>4. Datas(x \o y) = Datas(x) \o Datas(y)
  BY ONLY <1>2, DatasConcat
<1>5. Len(Datas(x)) = Len(x) /\ Len(x) \in Nat
  BY <1>2, DatasSeq, LenProperties
<1> QED
  BY <1>1, <1>2, <1>3, <1>4, <1>5 DEF DataOf

LEMMA AcksOfConcat ==
    ASSUME NEW S, NEW v \in Seq(S), NEW n \in Seq(S), NEW una
    PROVE  AcksOf(v \o n, una) = AcksOf(v, una) \o AcksOf(n, una) /\ Len(AcksOf(v, una)) <= Len(v)
           /\ Len(AcksOf(v, una)) \in Nat
<1>1. PICK T, x, y, U : /\ T = {"DATA", "ACK"} /\ x = OfType(v, T) /\ y = OfType(n, T)
                        /\ U = {z \in S : z.type \in T}
  OBVIOUS
<1>2. x \in Seq(U) /\ y \in Seq(U) /\ Len(x) <= Len(v)
  BY <1>1, OfTypeElements
<1>3. OfType(v \o n, T) = x \o y
  <2>1. OfType(v \o n, T) = OfType(v, T) \o OfType(n, T)
    BY ONLY v \in Seq(S), n \in Seq(S), OfTypeConcat
  <2> QED
    BY ONLY <1>1, <2>1
<1>4. Infos(x \o y, una) = Infos(x, una) \o Infos(y, una)
  BY ONLY <1>2, InfosConcat
<1>5. Len(Infos(x, una)) = Len(x) /\ Len(x) \in Nat
  BY <1>2, InfosSeq, LenProperties
<1> QED
  BY <1>1, <1>2, <1>3, <1>4, <1>5 DEF AcksOf

\* One direction of the link as SLAPWindow sees it.
Pays(g) == [i \in 1..Len(g) |-> g[i][2]]
View(s, P, w, r, g, v) ==
    [nxt |-> P, una |-> First(s, P), snt |-> Sent(s, P), data |-> DataOf(w),
     rcvd |-> Pays(g), pulled |-> Len(g) - r.rxQueue,
     exp |-> r.expectedSeq, ack |-> r.currentTxAck, acks |-> AcksOf(v, First(s, P))]

\* The steps of SLAPWindow from view a to view b.
Newer(x, y) == (7 + x - y) % 8 < Win
Run(lo, n) == [i \in 1..n |-> [n |-> lo + i - 1, seq |-> (lo + i - 1) % 8]]
Pushing(a, b, M) ==
    a.nxt - a.una < Win /\ a.nxt < M /\ b = [a EXCEPT !.nxt = a.nxt + 1]
Sending(a, b, lo) ==
    /\ Len(a.data) + (a.nxt - lo) <= 2 * WireCap
    /\ b = [nxt |-> a.nxt, una |-> a.una, snt |-> a.nxt,
            data |-> a.data \o Run(lo, a.nxt - lo), rcvd |-> a.rcvd,
            pulled |-> a.pulled, exp |-> a.exp, ack |-> a.ack, acks |-> a.acks]
Releasing(a, b) ==
    /\ a.acks # << >>
    /\ \E u \in a.una..a.snt :
          /\ \A j \in a.una..(u - 1) : Newer(Head(a.acks).ack, j % 8)
          /\ u < a.snt => ~Newer(Head(a.acks).ack, u % 8)
          /\ b = [nxt |-> a.nxt, una |-> u, snt |-> a.snt, data |-> a.data, rcvd |-> a.rcvd,
                  pulled |-> a.pulled, exp |-> a.exp, ack |-> a.ack, acks |-> Tail(a.acks)]
Accepting(a, b) ==
    /\ a.data # << >> /\ Head(a.data).seq = a.exp /\ Win - (Len(a.rcvd) - a.pulled) > 0
    /\ b = [nxt |-> a.nxt, una |-> a.una, snt |-> a.snt, data |-> Tail(a.data),
            rcvd |-> Append(a.rcvd, Head(a.data).n), pulled |-> a.pulled,
            exp |-> (a.exp + 1) % 8,
            ack |-> IF Newer(a.ack, Head(a.data).seq) THEN a.ack
                    ELSE (Head(a.data).seq + 1) % 8,
            acks |-> a.acks]
Acking(a, b) ==
    \E k \in 1..(Win + 1) :
        /\ Len(a.acks) + k <= 2 * WireCap
        /\ b = [a EXCEPT !.acks = a.acks \o
                             [i \in 1..k |-> [ack |-> a.ack, upto |-> Len(a.rcvd)]]]
Pulling(a, b) == a.pulled < Len(a.rcvd) /\ b = [a EXCEPT !.pulled = a.pulled + 1]
Dropping(a, b) == a.data # << >> /\ b = [a EXCEPT !.data = Tail(a.data)]
AckDropping(a, b) == a.acks # << >> /\ b = [a EXCEPT !.acks = Tail(a.acks)]
Moves(a, b, M) ==
    \/ b = a \/ Pushing(a, b, M) \/ Releasing(a, b) \/ Accepting(a, b)
    \/ (a.snt < a.nxt /\ Sending(a, b, a.snt)) \/ (a.una < a.snt /\ Sending(a, b, a.una))
    \/ Acking(a, b) \/ Pulling(a, b) \/ Dropping(a, b) \/ AckDropping(a, b)

\* A step that leaves both halves alone is not seen.
LEMMA ViewSame ==
    ASSUME NEW s, NEW P, NEW w, NEW r, NEW g, NEW v,
           NEW t, SameSend(s, t), NEW q, SameRecv(r, q)
    PROVE  View(t, P, w, q, g, v) = View(s, P, w, r, g, v)
<1>1. First(t, P) = First(s, P) /\ Sent(t, P) = Sent(s, P)
  BY Zenon DEF SameSend, Unacked, First, Sent
<1>2. q.expectedSeq = r.expectedSeq /\ q.currentTxAck = r.currentTxAck /\ q.rxQueue = r.rxQueue
  BY DEF SameRecv
<1> QED
  BY ONLY <1>1, <1>2, Zenon DEF View

\* A packet to the receiver is lost, or taken without effect.
LEMMA ViewDropData ==
    ASSUME NEW s, NEW P, NEW S, NEW w \in Seq(S), w # << >>, NEW r, NEW g, NEW v, NEW a, NEW b,
           a = View(s, P, w, r, g, v), b = View(s, P, Tail(w), r, g, v)
    PROVE  (b = a \/ Dropping(a, b)) /\ (w[1].type # "DATA" => b = a)
<1>1. PICK x, y : x = DataOf(w) /\ y = DataOf(Tail(w))
  OBVIOUS
<1>2. CASE w[1].type = "DATA"
  <2>1. x # << >> /\ y = Tail(x)
    BY <1>1, <1>2, DataOfTail
  <2>2. a.data = x /\ b = [a EXCEPT !.data = y]
    BY <1>1 DEF View
  <2> QED
    BY <1>2, <2>1, <2>2 DEF Dropping
<1>3. CASE w[1].type # "DATA"
  <2>1. y = x
    BY <1>1, <1>3, DataOfTail
  <2> QED
    BY <1>1, <2>1 DEF View
<1> QED
  BY <1>2, <1>3

LEMMA ViewDropAck ==
    ASSUME NEW s, NEW P, NEW S, NEW v \in Seq(S), v # << >>, NEW r, NEW g, NEW w, NEW a, NEW b,
           a = View(s, P, w, r, g, v), b = View(s, P, w, r, g, Tail(v))
    PROVE  (b = a \/ AckDropping(a, b)) /\ (~Acks(v[1]) => b = a)
<1>1. PICK una, x, y : una = First(s, P) /\ x = AcksOf(v, una) /\ y = AcksOf(Tail(v), una)
  OBVIOUS
<1>2. CASE Acks(v[1])
  <2>1. x # << >> /\ y = Tail(x)
    BY <1>1, <1>2, AcksOfTail
  <2>2. a.acks = x /\ b = [a EXCEPT !.acks = y]
    BY <1>1 DEF View
  <2> QED
    BY <1>2, <2>1, <2>2 DEF AckDropping
<1>3. CASE ~Acks(v[1])
  <2>1. y = x
    BY <1>1, <1>3, AcksOfTail
  <2> QED
    BY <1>1, <2>1 DEF View
<1> QED
  BY <1>2, <1>3

LEMMA PaysLen ==
    ASSUME NEW g, Len(g) \in Nat
    PROVE  /\ Len(Pays(g)) = Len(g) /\ Pays(g) \in Seq({g[i][2] : i \in 1..Len(g)})
           /\ \A i \in 1..Len(g) : Pays(g)[i] = g[i][2]
<1>1. PICK R, f, T : R = Len(g) /\ f = Pays(g) /\ T = {g[i][2] : i \in 1..Len(g)}
  OBVIOUS
<1>2. f = [i \in 1..R |-> g[i][2]]
  BY <1>1 DEF Pays
<1>3. f \in [1..R -> T] /\ \A i \in 1..R : f[i] = g[i][2]
  BY ONLY <1>1, <1>2
<1>4. f \in Seq(T) /\ Len(f) = R
  BY <1>1, <1>3
<1> QED
  BY ONLY <1>1, <1>3, <1>4

LEMMA PaysAppend ==
    ASSUME NEW S, NEW g \in Seq(S), NEW p \in S
    PROVE  Pays(Append(g, p)) = Append(Pays(g), p[2])
<1>1. PICK h, R, T, n : h = Append(g, p) /\ R = Len(g) /\ T = {q[2] : q \in S} /\ n = p[2]
  OBVIOUS
<1>2. h \in Seq(S) /\ R \in Nat /\ Len(h) = R + 1 /\ h[R + 1] = p /\ \A i \in 1..R : h[i] = g[i]
  BY ONLY <1>1, g \in Seq(S), p \in S
<1>3. PICK x, y : x = Pays(g) /\ y = Pays(h)
  OBVIOUS
<1>4. \A i \in 1..R : g[i][2] \in T
  BY <1>1, ElementOfSeq
<1>5. x = [i \in 1..R |-> g[i][2]] /\ y = [i \in 1..(R + 1) |-> h[i][2]]
  BY <1>1, <1>2, <1>3 DEF Pays
<1>6. x \in Seq(T) /\ Len(x) = R /\ \A i \in 1..R : x[i] = g[i][2]
  <2>1. x \in [1..R -> T] /\ \A i \in 1..R : x[i] = g[i][2]
    BY ONLY <1>4, <1>5
  <2> QED
    BY ONLY <1>2, <2>1
<1>7. n \in T
  BY <1>1
<1>8. y \in Seq(T) /\ Len(y) = R + 1 /\ \A i \in 1..(R + 1) : y[i] = h[i][2]
  <2>1. \A i \in 1..(R + 1) : h[i] \in S
    BY ONLY <1>2, ElementOfSeq
  <2>2. \A i \in 1..(R + 1) : h[i][2] \in T
    BY <1>1, <2>1
  <2>3. y \in [1..(R + 1) -> T] /\ \A i \in 1..(R + 1) : y[i] = h[i][2]
    BY ONLY <1>5, <2>2
  <2> QED
    BY ONLY <1>2, <2>3
<1>9. PICK z : z = Append(x, n)
  OBVIOUS
<1>10. z \in Seq(T) /\ Len(z) = R + 1 /\ z[R + 1] = n /\ \A i \in 1..R : z[i] = x[i]
  BY ONLY <1>2, <1>6, <1>7, <1>9
<1>11. ASSUME NEW i \in 1..(R + 1) PROVE y[i] = z[i]
  <2>1. CASE i = R + 1
    BY <1>1, <1>2, <1>8, <1>10, <2>1
  <2>2. CASE i # R + 1
    <3>1. i \in 1..R
      BY <1>2, <1>11, <2>2
    <3> QED
      BY <1>2, <1>6, <1>8, <1>10, <3>1
  <2> QED
    BY <2>1, <2>2
<1>12. y = z
  BY ONLY <1>8, <1>10, <1>11, SeqEqual
<1> QED
  BY <1>1, <1>3, <1>9, <1>12

\* PullBytes.
LEMMA ViewPulls ==
    ASSUME NEW s, NEW P, NEW w, NEW r, NEW g, NEW v, NEW t, NEW a, NEW b,
           a = View(s, P, w, r, g, v), b = View(s, P, w, t, g, v),
           t.expectedSeq = r.expectedSeq, t.currentTxAck = r.currentTxAck,
           r.rxQueue \in Nat, t.rxQueue = r.rxQueue - 1, t.rxQueue \in Nat, Len(g) \in Nat
    PROVE  Pulling(a, b)
<1>1. PICK k, R : k = r.rxQueue /\ R = Len(g)
  OBVIOUS
<1>3. Len(Pays(g)) = R
  BY <1>1, PaysLen
<1>4. a.rcvd = Pays(g) /\ a.pulled = R - k /\ b = [a EXCEPT !.pulled = R - (k - 1)]
  BY <1>1 DEF View
<1>5. R - (k - 1) = R - k + 1 /\ R - k < R
  BY <1>1
<1> QED
  BY ONLY <1>3, <1>4, <1>5 DEF Pulling

\* PushBytes.
LEMMA ViewPushes ==
    ASSUME NEW e, NEW s \in Stream(e), CtrlFirst(s), NEW P, NEW w, NEW r,
           NEW g, NEW v, Dir(s, P, w, r, g, v), Len(Unacked(s)) < Win,
           NEW M, P < M, NEW p \in DataPacket,
           NEW t, t.txSent = s.txSent, Waits(t) = Append(Waits(s), p),
           NEW Q, Q = P + 1, NEW a, NEW b,
           a = View(s, P, w, r, g, v), b = View(t, Q, w, r, g, v)
    PROVE  Pushing(a, b, M)
<1>1. PICK x, y : x = s.txSent /\ y = Waits(s)
  OBVIOUS
<1>2. x \in Seq(DataPacket) /\ y \in Seq(DataPacket) /\ P \in Nat
  BY <1>1, WaitsData DEF Dir, SendOrder
<1>3. PICK m, k : m = Len(x) /\ k = Len(y)
  OBVIOUS
<1>4. m \in Nat /\ k \in Nat /\ Len(x \o y) = m + k
  BY ONLY <1>2, <1>3
<1>5. PICK z : z = Append(y, p)
  OBVIOUS
<1>6. z \in Seq(DataPacket) /\ Len(z) = k + 1
  BY ONLY <1>2, <1>3, <1>5, p \in DataPacket
<1>7. Len(x \o z) = m + (k + 1)
  BY ONLY <1>2, <1>3, <1>4, <1>6
<1>8. /\ Unacked(s) = x \o y /\ Unacked(t) = x \o z /\ Waits(t) = z
  BY <1>1, <1>5 DEF Unacked
<1>9. PICK una, snt : una = First(s, P) /\ snt = Sent(s, P)
  OBVIOUS
<1>10. una = P - (m + k) /\ snt = P - k /\ First(t, Q) = Q - (m + (k + 1)) /\ Sent(t, Q) = Q - (k + 1)
  BY <1>1, <1>3, <1>4, <1>6, <1>7, <1>8, <1>9 DEF First, Sent
<1>11. First(t, Q) = una /\ Sent(t, Q) = snt /\ P - una = m + k
  BY ONLY <1>2, <1>4, <1>10, Q = P + 1
<1>12. m + k < Win
  BY ONLY <1>4, <1>8, Len(Unacked(s)) < Win
<1>13. a.nxt = P /\ a.una = una /\ b = [a EXCEPT !.nxt = Q]
  BY <1>9, <1>11 DEF View
<1> QED
  BY ONLY <1>11, <1>12, <1>13, P < M, Q = P + 1 DEF Pushing

\* The receiver reads a data packet.
LEMMA ViewReads ==
    ASSUME NEW s, NEW P, NEW S, NEW w \in Seq(S), w # << >>,
           NEW r, NEW g, NEW v, Dir(s, P, w, r, g, v), w[1].type = "DATA", w[1].seq \in 0..7,
           w[1].pay \in Nat \X Nat,
           Unset(r) \/ r.win = Win, r.rxQueue \in Nat, r.rxFree \in Nat,
           r.rxFree > 0 => r.rxQueue < Win,
           NEW t, Took(r, w[1], t),
           NEW h, h = IF Accepted(r, w[1]) THEN Append(g, w[1].pay) ELSE g,
           Dir(s, P, Tail(w), t, h, v), NEW a, NEW b,
           a = View(s, P, w, r, g, v), b = View(s, P, Tail(w), t, h, v)
    PROVE  b = a \/ Dropping(a, b) \/ Accepting(a, b)
<1>1. PICK p, R, x : p = w[1] /\ R = Len(g) /\ x = DataOf(w)
  OBVIOUS
<1>2. x # << >> /\ Head(x) = Data(p) /\ DataOf(Tail(w)) = Tail(x)
  BY <1>1, DataOfTail
<1>3. /\ g \in Seq(Nat \X Nat) /\ R \in Nat /\ r.currentTxAck = R % 8
      /\ t.currentTxAck = Len(h) % 8
  <2>1. g \in Seq(Nat \X Nat) /\ r.currentTxAck = R % 8 /\ t.currentTxAck = Len(h) % 8
    BY <1>1 DEF Dir, RecvOrder
  <2> QED
    BY <1>1, <2>1, LenProperties
<1>4. CASE TookNext(r, p, t)
  <2>1. /\ p.seq = r.expectedSeq /\ r.rxFree > 0 /\ t.expectedSeq = (r.expectedSeq + 1) % 8
        /\ t.currentTxAck = Acked(r, p) /\ t.rxQueue = r.rxQueue + 1
    BY <1>4 DEF TookNext
  <2>2. r.win = Win
    BY <2>1 DEF Unset
  <2>3. Acked(r, p) = IF Newer(r.currentTxAck, p.seq) THEN r.currentTxAck ELSE (p.seq + 1) % 8
    BY ONLY <2>2 DEF Acked, SEQ_GT, Newer
  <2>4. h = Append(g, p.pay)
    BY <1>1, <2>1 DEF Accepted, IsData
  <2>5. Pays(h) = Append(Pays(g), p.pay[2])
    <3>1. PICK y, T : y = p.pay /\ T = Nat \X Nat
      OBVIOUS
    <3>2. y \in T /\ g \in Seq(T)
      BY <1>1, <1>3, <3>1
    <3>3. Pays(Append(g, y)) = Append(Pays(g), y[2])
      BY ONLY <3>2, PaysAppend
    <3> QED
      BY <2>4, <3>1, <3>3
  <2>6. Len(h) = R + 1
    BY <1>1, <1>3, <2>4
  <2>7. Len(h) - t.rxQueue = R - r.rxQueue /\ R - (R - r.rxQueue) = r.rxQueue
    <3>1. PICK k, l : k = r.rxQueue /\ l = Len(h)
      OBVIOUS
    <3>2. k \in Nat /\ R \in Nat /\ l = R + 1 /\ t.rxQueue = k + 1
      BY <1>3, <2>1, <2>6, <3>1
    <3>3. l - (k + 1) = R - k /\ R - (R - k) = k
      BY ONLY <3>2
    <3> QED
      BY <3>1, <3>2, <3>3
  <2>8. /\ a.data = x /\ a.exp = r.expectedSeq /\ a.ack = r.currentTxAck
        /\ a.rcvd = Pays(g) /\ a.pulled = R - r.rxQueue
    BY <1>1 DEF View
  <2>9. b = [nxt |-> a.nxt, una |-> a.una, snt |-> a.snt, data |-> Tail(x), rcvd |-> Pays(h),
             pulled |-> a.pulled, exp |-> t.expectedSeq, ack |-> t.currentTxAck,
             acks |-> a.acks]
    <3>1. PICK n : n = R - r.rxQueue
      OBVIOUS
    <3>2. Len(h) - t.rxQueue = n /\ Len(g) - r.rxQueue = n
      BY ONLY <1>1, <2>7, <3>1
    <3>3. b = [nxt |-> P, una |-> First(s, P), snt |-> Sent(s, P), data |-> Tail(x),
               rcvd |-> Pays(h), pulled |-> n, exp |-> t.expectedSeq, ack |-> t.currentTxAck,
               acks |-> AcksOf(v, First(s, P))]
      BY ONLY <1>2, <3>2, b = View(s, P, Tail(w), t, h, v), Zenon DEF View
    <3>4. /\ a.nxt = P /\ a.una = First(s, P) /\ a.snt = Sent(s, P) /\ a.pulled = n
          /\ a.acks = AcksOf(v, First(s, P))
      BY ONLY <3>2, a = View(s, P, w, r, g, v) DEF View
    <3> QED
      BY ONLY <3>3, <3>4, Zenon
  <2>10. Head(x).seq = p.seq /\ Head(x).n = p.pay[2]
    BY <1>2 DEF Data
  <2>11. Len(Pays(g)) = R
    BY <1>1, <1>3, PaysLen
  <2>12. Win - (Len(a.rcvd) - a.pulled) > 0
    <3>1. r.rxQueue < Win /\ Win \in {1, 2, 4}
      BY <2>1, ConfFacts DEF Win
    <3>2. Len(a.rcvd) - a.pulled = r.rxQueue
      BY ONLY <2>7, <2>8, <2>11
    <3> QED
      BY ONLY <3>1, <3>2, r.rxQueue \in Nat
  <2> QED
    BY ONLY <1>2, <2>1, <2>3, <2>5, <2>8, <2>9, <2>10, <2>12 DEF Accepting
<1>5. CASE TookAgain(r, p, t) \/ Ignored(r, p, t)
  <2>1. ~(p.seq = r.expectedSeq /\ r.rxFree > 0) /\ t.expectedSeq = r.expectedSeq
        /\ t.rxQueue = r.rxQueue
    BY <1>5 DEF TookAgain, Ignored
  <2>2. h = g
    BY <1>1, <2>1 DEF Accepted
  <2>3. t.currentTxAck = r.currentTxAck
    BY <1>1, <1>3, <2>2
  <2>4. b = View(s, P, Tail(w), r, g, v)
    BY ONLY <2>1, <2>2, <2>3, b = View(s, P, Tail(w), t, h, v), Zenon DEF View
  <2> QED
    BY ONLY <2>4, w \in Seq(S), w # << >>, a = View(s, P, w, r, g, v), ViewDropData
<1> QED
  BY <1>1, <1>4, <1>5 DEF Took

LEMMA InfosShift ==
    ASSUME NEW U, NEW y \in Seq(U), NEW una, NEW k, \A q \in U : Upto(q, k) = Upto(q, una)
    PROVE  Infos(y, k) = Infos(y, una)
<1>1. \A i \in 1..Len(y) : y[i] \in U
  BY ElementOfSeq
<1>2. \A i \in 1..Len(y) : Upto(y[i], k) = Upto(y[i], una)
  BY ONLY <1>1, \A q \in U : Upto(q, k) = Upto(q, una)
<1> QED
  BY ONLY <1>2 DEF Infos

\* An ack that is still on its way names the same packet when some before that
\* packet are released.
LEMMA AcksShift ==
    ASSUME NEW S, NEW x \in Seq(S), NEW una \in Nat, NEW m \in Nat, NEW u, u = una + m,
           \A p \in S : Acks(p) => p.ack \in 0..7,
           \A i \in 1..Len(x) : Acks(x[i]) => m <= Names(x[i], una)
    PROVE  AcksOf(x, u) = AcksOf(x, una)
<1>1. PICK T, V : T = {"DATA", "ACK"} /\ V = {q \in S : Acks(q) => m <= Names(q, una)}
  OBVIOUS
<1>2. \A i \in 1..Len(x) : x[i] \in V
  BY <1>1, ElementOfSeq
<1>3. x \in Seq(V)
  BY <1>2
<1>4. PICK U : U = {q \in V : q.type \in T}
  OBVIOUS
<1>5. OfType(x, T) \in Seq(U)
  <2>1. OfType(x, T) \in Seq({q \in V : q.type \in T})
    BY ONLY <1>3, OfTypeElements
  <2> QED
    BY ONLY <1>4, <2>1
<1>6. ASSUME NEW q \in U PROVE Upto(q, u) = Upto(q, una)
  <2>1. Acks(q) /\ q \in S /\ m <= Names(q, una)
    BY <1>1, <1>4 DEF Acks
  <2>2. PICK c, k : c = q.ack /\ k = Names(q, una)
    OBVIOUS
  <2>3. c \in Int /\ m <= (c - una) % 8 /\ k = (c - una) % 8
    BY <2>1, <2>2 DEF Names
  <2>4. (c - (una + m)) % 8 = ((c - una) % 8) - m
    BY ONLY <2>3, una \in Nat, m \in Nat, ModShift
  <2>5. Names(q, u) = k - m
    BY ONLY <2>2, <2>3, <2>4, u = una + m DEF Names
  <2>6. k \in Int
    <3>1. c \in Int /\ una \in Int
      BY <2>3
    <3>2. (c - una) % 8 \in 0..7
      BY ONLY <3>1, ModRange
    <3> QED
      BY ONLY <2>3, <3>2
  <2>7. u + (k - m) = una + k
    BY ONLY <2>6, una \in Nat, m \in Nat, u = una + m
  <2> QED
    BY ONLY <2>2, <2>5, <2>7 DEF Upto
<1>7. PICK y : y = OfType(x, T)
  OBVIOUS
<1>8. Infos(y, u) = Infos(y, una)
  BY ONLY <1>5, <1>6, <1>7, InfosShift
<1> QED
  BY ONLY <1>1, <1>7, <1>8, Zenon DEF AcksOf

\* The sender reads an ack.
LEMMA ViewReleases ==
    ASSUME NEW e, NEW s \in Stream(e), CtrlFirst(s), NEW P, NEW S, NEW w, NEW r,
           NEW g, NEW v \in Seq(S), Dir(s, P, w, r, g, v), v # << >>, Acks(v[1]),
           \A p \in S : Acks(p) => p.ack \in 0..7,
           NEW m, m = Names(v[1], First(s, P)), NEW t, m \in Nat, m <= Len(s.txSent),
           First(t, P) = First(s, P) + m, Sent(t, P) = Sent(s, P), NEW a, NEW b,
           a = View(s, P, w, r, g, v), b = View(t, P, w, r, g, Tail(v))
    PROVE  Releasing(a, b)
<1>1. PICK una, snt, x, L, u, c, z : /\ una = First(s, P) /\ snt = Sent(s, P) /\ x = Tail(v)
                                     /\ L = Len(s.txSent) /\ u = una + m /\ c = v[1].ack
                                     /\ z = AcksOf(v, una)
  OBVIOUS
<1>a. u = una + m
  BY ONLY <1>1
<1>2. /\ una \in Nat /\ snt \in Nat /\ P \in Nat /\ Win \in {1, 2, 4} /\ L \in Nat
      /\ snt = una + L /\ snt <= P /\ P <= una + Win
  <2>1. L \in Nat
    BY <1>1, WaitsData
  <2> QED
    BY <1>1, <2>1, DirNumbers
<1>3. m <= L /\ L <= Win
  <2>1. L <= Win
    BY ONLY <1>2
  <2> QED
    BY <1>1, <2>1
<1>4. c \in 0..7 /\ m = (c - una) % 8 /\ 1 \in 1..Len(v)
  <2>1. v[1] \in S /\ 1 \in 1..Len(v)
    BY TailFacts, ElementOfSeq
  <2>2. c \in 0..7
    BY <1>1, <2>1
  <2>3. m = (c - una) % 8
    BY ONLY <1>1, m = Names(v[1], First(s, P)), Zenon DEF Names
  <2> QED
    BY <2>1, <2>2, <2>3
<1>5. ASSUME NEW i \in Nat, i > 0, i <= m + 1
      PROVE  (7 + c - ((una + i - 1) % 8)) % 8 = (8 + m - i) % 8
  <2>1. PICK y, d : y = (una + i - 1) % 8 /\ d = (8 + m - i) % 8
    OBVIOUS
  <2>2. (7 + c - y) % 8 = d
    <3>1. c \in Int
      BY <1>4
    <3> QED
      BY ONLY <1>2, <1>4, <1>5, <2>1, <3>1, m \in Nat, ModAck
  <2> QED
    BY <2>1, <2>2
<1>6. ASSUME NEW j \in una..(u - 1) PROVE Newer(c, j % 8)
  <2>1. PICK i : i = j - una + 1
    OBVIOUS
  <2>2. i \in Nat /\ i > 0 /\ i <= m /\ j = una + i - 1 /\ i <= m + 1
    BY ONLY <1>a, <1>2, <1>6, <2>1, m \in Nat
  <2>3. (7 + c - (j % 8)) % 8 = (8 + m - i) % 8
    BY ONLY <1>5, <2>2
  <2>4. (8 + m - i) % 8 < Win
    BY ONLY <1>2, <1>3, <2>2, m \in Nat
  <2> QED
    BY ONLY <2>3, <2>4 DEF Newer
<1>7. ~Newer(c, u % 8)
  <2>1. PICK i : i = m + 1
    OBVIOUS
  <2>2. i \in Nat /\ i > 0 /\ i <= m + 1 /\ u = una + i - 1
    BY ONLY <1>a, <1>2, <2>1, m \in Nat
  <2>3. (7 + c - (u % 8)) % 8 = (8 + m - i) % 8
    BY ONLY <1>5, <2>2
  <2>4. (8 + m - i) % 8 = 7
    BY ONLY <2>1, m \in Nat
  <2>5. ~(7 < Win)
    BY ONLY <1>2
  <2> QED
    BY ONLY <2>3, <2>4, <2>5 DEF Newer
<1>8. z # << >> /\ Head(z) = Info(v[1], una) /\ AcksOf(x, una) = Tail(z)
  BY <1>1, AcksOfTail
<1>9. AcksOf(x, u) = Tail(z)
  <2>1. x \in Seq(S) /\ \A i \in 1..Len(x) : \E j \in 1..Len(v) : j = i + 1 /\ x[i] = v[j]
    BY <1>1, TailFacts
  <2>2. PICK R : AckOrder(v, una, R)
    BY <1>1 DEF Dir
  <2>3. ASSUME NEW i \in 1..Len(x), Acks(x[i]) PROVE m <= Names(x[i], una)
    <3>1. PICK j \in 1..Len(v) : j = i + 1 /\ x[i] = v[j]
      BY <2>1
    <3>2. 1 < j
      BY ONLY <2>3, <3>1
    <3>3. Names(v[1], una) <= Names(v[j], una)
      BY ONLY <1>4, <2>2, <2>3, <3>1, <3>2, Acks(v[1]), Zenon DEF AckOrder
    <3> QED
      BY <1>1, <3>1, <3>3
  <2>4. AcksOf(x, u) = AcksOf(x, una)
    <3>1. x \in Seq(S) /\ una \in Nat
      BY ONLY <1>2, <2>1
    <3> QED
      BY ONLY <1>a, <2>3, <3>1, m \in Nat, \A p \in S : Acks(p) => p.ack \in 0..7, AcksShift
  <2> QED
    BY <1>8, <2>4
<1>10. /\ a.acks = z /\ a.una = una /\ a.snt = snt
       /\ b = [nxt |-> a.nxt, una |-> u, snt |-> a.snt, data |-> a.data, rcvd |-> a.rcvd,
               pulled |-> a.pulled, exp |-> a.exp, ack |-> a.ack, acks |-> Tail(z)]
  <2>1. First(t, P) = u /\ Sent(t, P) = snt
    BY <1>1
  <2>2. b = [nxt |-> P, una |-> u, snt |-> snt, data |-> DataOf(w), rcvd |-> Pays(g),
             pulled |-> Len(g) - r.rxQueue, exp |-> r.expectedSeq, ack |-> r.currentTxAck,
             acks |-> Tail(z)]
    BY ONLY <1>1, <1>9, <2>1, b = View(t, P, w, r, g, Tail(v)), Zenon DEF View
  <2>3. /\ a.nxt = P /\ a.una = una /\ a.snt = snt /\ a.data = DataOf(w) /\ a.rcvd = Pays(g)
        /\ a.pulled = Len(g) - r.rxQueue /\ a.exp = r.expectedSeq /\ a.ack = r.currentTxAck
        /\ a.acks = z
    BY ONLY <1>1, a = View(s, P, w, r, g, v) DEF View
  <2> QED
    BY ONLY <2>2, <2>3, Zenon
<1>11. u \in una..snt
  BY ONLY <1>a, <1>2, <1>3, m \in Nat
<1>12. Head(a.acks).ack = c
  BY <1>1, <1>8, <1>10 DEF Info
<1> QED
  BY ONLY <1>6, <1>7, <1>8, <1>10, <1>11, <1>12 DEF Releasing

\* The receiver sends packets that carry its ack number.
LEMMA ViewAnswers ==
    ASSUME NEW e, NEW s \in Stream(e), CtrlFirst(s), NEW P, NEW S, NEW w, NEW r,
           NEW g, NEW v \in Seq(S), Dir(s, P, w, r, g, v), NEW n \in Seq(S),
           \A k \in 1..Len(n) : Acks(n[k]) => n[k].ack = r.currentTxAck,
           Len(v) + Len(n) <= WireCap, Len(n) <= Win + 1, NEW a, NEW b,
           a = View(s, P, w, r, g, v), b = View(s, P, w, r, g, v \o n)
    PROVE  b = a \/ Acking(a, b)
<1>1. PICK una, R, c, T : una = First(s, P) /\ R = Len(g) /\ c = r.currentTxAck
                          /\ T = {"DATA", "ACK"}
  OBVIOUS
<1>2. una \in Nat /\ R \in Nat /\ una <= R /\ R < una + 8
  <2>1. PICK snt : snt = Sent(s, P)
    OBVIOUS
  <2>2. /\ una \in Nat /\ R \in Nat /\ snt \in Nat /\ P \in Nat /\ Win \in {1, 2, 4}
        /\ una <= R /\ R <= snt /\ snt <= P /\ P <= una + Win
    BY <1>1, <2>1, DirNumbers
  <2> QED
    BY ONLY <2>2
<1>3. c = R % 8
  BY <1>1 DEF Dir, RecvOrder
<1>4. (c - una) % 8 = R - una
  BY ONLY <1>2, <1>3, ModSmall
<1>5. PICK y, k, z, d : y = OfType(n, T) /\ k = Len(y) /\ z = AcksOf(v, una) /\ d = AcksOf(n, una)
  OBVIOUS
<1>6. PICK U : U = {q \in S : q.type \in T /\ q.ack = c}
  OBVIOUS
<1>7. y \in Seq(U) /\ Len(y) <= Len(n)
  <2>1. PICK V : V = {q \in S : Acks(q) => q.ack = c}
    OBVIOUS
  <2>2. \A i \in 1..Len(n) : n[i] \in V
    BY <1>1, <2>1, ElementOfSeq
  <2>3. n \in Seq(V)
    BY <2>2
  <2>4. OfType(n, T) \in Seq({q \in V : q.type \in T}) /\ Len(OfType(n, T)) <= Len(n)
    BY ONLY <2>3, OfTypeElements
  <2>5. {q \in V : q.type \in T} \subseteq U
    BY <1>1, <1>6, <2>1 DEF Acks
  <2> QED
    BY ONLY <1>5, <2>4, <2>5
<1>8. k \in Nat /\ \A i \in 1..k : y[i].ack = c
  <2>1. \A i \in 1..k : y[i] \in U
    BY <1>5, <1>7, ElementOfSeq
  <2> QED
    BY <1>5, <1>6, <1>7, <2>1, LenProperties
<1>9. d = [i \in 1..k |-> [ack |-> c, upto |-> R]]
  <2>1. \A i \in 1..k : Upto(y[i], una) = R
    <3>1. una + (R - una) = R
      BY ONLY <1>2
    <3> QED
      BY ONLY <1>4, <1>8, <3>1 DEF Upto, Names
  <2>2. d = [i \in 1..k |-> [ack |-> y[i].ack, upto |-> Upto(y[i], una)]]
    BY ONLY <1>1, <1>5, Zenon DEF AcksOf, Infos
  <2> QED
    BY ONLY <1>8, <2>1, <2>2
<1>10. AcksOf(v \o n, una) = z \o d /\ Len(z) <= Len(v) /\ Len(z) \in Nat
  <2>1. AcksOf(v \o n, una) = AcksOf(v, una) \o AcksOf(n, una) /\ Len(AcksOf(v, una)) <= Len(v)
        /\ Len(AcksOf(v, una)) \in Nat
    BY ONLY v \in Seq(S), n \in Seq(S), AcksOfConcat
  <2> QED
    BY ONLY <1>5, <2>1
<1>11. a.acks = z /\ a.ack = c /\ a.rcvd = Pays(g) /\ b = [a EXCEPT !.acks = z \o d]
  <2>1. PICK x : x = z \o d
    OBVIOUS
  <2>2. AcksOf(v \o n, First(s, P)) = x /\ AcksOf(v, First(s, P)) = z
    BY <1>1, <1>5, <1>10, <2>1
  <2>3. a.acks = z /\ a.ack = c /\ a.rcvd = Pays(g) /\ b = [a EXCEPT !.acks = x]
    BY ONLY <1>1, <2>2, a = View(s, P, w, r, g, v), b = View(s, P, w, r, g, v \o n) DEF View
  <2> QED
    BY <2>1, <2>3
<1>12. Len(Pays(g)) = R
  BY <1>1, <1>2, PaysLen
<1>13. CASE k = 0
  <2>1. z \in Seq({Info(q, una) : q \in S})
    <3>1. PICK x : x = OfType(v, T)
      OBVIOUS
    <3>2. x \in Seq({q \in S : q.type \in T})
      BY ONLY <3>1, v \in Seq(S), OfTypeElements
    <3>3. x \in Seq(S)
      BY ONLY <3>2
    <3>4. Infos(x, una) \in Seq({Info(q, una) : q \in S})
      BY ONLY <3>3, InfosSeq
    <3> QED
      BY ONLY <1>1, <1>5, <3>1, <3>4 DEF AcksOf
  <2>2. d = << >>
    BY ONLY <1>9, <1>13
  <2>3. z \o d = z
    BY ONLY <2>1, <2>2, ConcatEmptySeq
  <2>4. AcksOf(v \o n, First(s, P)) = AcksOf(v, First(s, P))
    BY <1>1, <1>5, <1>10, <2>3
  <2> QED
    BY ONLY <2>4, a = View(s, P, w, r, g, v), b = View(s, P, w, r, g, v \o n), Zenon DEF View
<1>14. CASE k # 0
  <2>1. PICK l, m, q : l = Len(v) /\ m = Len(n) /\ q = Len(z)
    OBVIOUS
  <2>2. l \in Nat /\ m \in Nat /\ q \in Nat /\ q <= l /\ k <= m /\ k \in Nat
    BY <1>5, <1>7, <1>8, <1>10, <2>1, LenProperties
  <2>3. l + m <= WireCap /\ m <= Win + 1 /\ WireCap \in Nat /\ Win \in Nat
    BY <2>1, SLAPAssumption, ConfFacts DEF Win
  <2>4. k \in 1..(Win + 1) /\ q + k <= 2 * WireCap
    BY ONLY <1>14, <2>2, <2>3
  <2>5. b = [a EXCEPT !.acks = a.acks \o [i \in 1..k |-> [ack |-> a.ack, upto |-> Len(a.rcvd)]]]
    BY ONLY <1>9, <1>11, <1>12
  <2>6. Len(a.acks) + k <= 2 * WireCap
    BY ONLY <1>11, <2>1, <2>4
  <2> QED
    BY ONLY <2>4, <2>5, <2>6 DEF Acking
<1> QED
  BY <1>13, <1>14

\* The sender sends what waits, or all that is not acknowledged again.
Bundle(s, D) == D = Waits(s) \/ (D = Unacked(s) /\ s.txSent # << >>)

LEMMA BundleNumbers ==
    ASSUME NEW e, NEW s \in Stream(e), CtrlFirst(s), NEW P, NEW w, NEW r, NEW g, NEW v,
           Dir(s, P, w, r, g, v), NEW D, Bundle(s, D), NEW k, k = Len(D), NEW lo, lo = P - k
    PROVE  /\ k \in Nat /\ lo \in Nat /\ \A i \in 1..k : IsNth(D[i], lo + i - 1)
           /\ \/ lo = Sent(s, P)
              \/ lo = First(s, P) /\ First(s, P) < Sent(s, P)
<1>1. PICK x, y, U, L, una, snt : /\ x = s.txSent /\ y = Waits(s) /\ U = Unacked(s)
                                  /\ L = Len(x) /\ una = First(s, P) /\ snt = Sent(s, P)
  OBVIOUS
<1>2. x \in Seq(DataPacket) /\ y \in Seq(DataPacket) /\ U = x \o y
  BY <1>1, WaitsData DEF Unacked
<1>3. L \in Nat /\ Len(y) \in Nat /\ Len(U) = L + Len(y)
      /\ \A i \in 1..Len(y) : L + i \in 1..Len(U) /\ U[L + i] = y[i]
  BY ONLY <1>1, <1>2, SMTT(30)
<1>4. P \in Nat /\ una \in Nat /\ \A i \in 1..Len(U) : IsNth(U[i], una + i - 1)
  BY <1>1 DEF Dir, SendOrder
<1>5. una = P - Len(U) /\ snt = P - Len(y)
  BY ONLY <1>1 DEF First, Sent
<1>6. CASE D = y
  <2>1. lo = snt /\ lo = una + L /\ lo \in Nat
    BY ONLY <1>3, <1>4, <1>5, <1>6, k = Len(D), lo = P - k
  <2>2. ASSUME NEW i \in 1..k PROVE IsNth(D[i], lo + i - 1)
    <3>1. L + i \in 1..Len(U) /\ U[L + i] = D[i]
      BY ONLY <1>3, <1>6, <2>2, k = Len(D)
    <3>2. una + (L + i) - 1 = lo + i - 1
      BY ONLY <1>3, <1>4, <1>6, <2>1, <2>2, k = Len(D)
    <3>3. IsNth(U[L + i], una + (L + i) - 1)
      BY ONLY <1>4, <3>1
    <3> QED
      BY <3>1, <3>2, <3>3
  <2> QED
    BY <1>1, <1>3, <1>6, <2>1, <2>2
<1>7. CASE D = U /\ x # << >>
  <2>1. L > 0
    BY ONLY <1>1, <1>2, <1>7
  <2>2. lo = una /\ k \in Nat /\ una < snt
    BY ONLY <1>3, <1>4, <1>5, <1>7, <2>1, k = Len(D), lo = P - k
  <2>3. \A i \in 1..k : IsNth(D[i], lo + i - 1)
    BY ONLY <1>4, <1>7, <2>2, k = Len(D)
  <2> QED
    BY ONLY <1>1, <1>4, <2>2, <2>3
<1> QED
  BY <1>1, <1>6, <1>7 DEF Bundle

LEMMA ViewSends ==
    ASSUME NEW e, NEW s \in Stream(e), CtrlFirst(s), NEW P, NEW S, NEW w \in Seq(S), NEW r,
           NEW g, NEW v, Dir(s, P, w, r, g, v), NEW n \in Seq(S), NEW D, Bundle(s, D),
           NEW d, d = OfType(n, {"DATA"}), Len(d) = Len(D),
           \A i \in 1..Len(d) : SamePacket(d[i], D[i]),
           NEW t, Waits(t) = << >>, Len(Unacked(t)) = Len(Unacked(s)),
           Len(w) + Len(n) <= WireCap, NEW a, NEW b,
           a = View(s, P, w, r, g, v), b = View(t, P, w \o n, r, g, v)
    PROVE  \/ b = a \/ (a.snt < a.nxt /\ Sending(a, b, a.snt))
           \/ (a.una < a.snt /\ Sending(a, b, a.una))
<1>1. PICK k, lo, una, snt, x : /\ k = Len(D) /\ lo = P - k /\ una = First(s, P) /\ snt = Sent(s, P)
                                /\ x = DataOf(w)
  OBVIOUS
<1>2. /\ k \in Nat /\ lo \in Nat /\ (\A i \in 1..k : IsNth(D[i], lo + i - 1))
      /\ lo = snt \/ (lo = una /\ una < snt)
  BY <1>1, BundleNumbers
<1>3. P \in Nat /\ una \in Nat /\ snt \in Nat /\ snt <= P
  BY <1>1, DirNumbers
<1>4. DataOf(n) = Run(lo, k)
  <2>1. ASSUME NEW i \in 1..k PROVE d[i].pay[2] = lo + i - 1 /\ d[i].seq = (lo + i - 1) % 8
    <3>1. PICK m : m = lo + i - 1
      OBVIOUS
    <3>2. IsNth(D[i], m) /\ SamePacket(d[i], D[i])
      BY <1>1, <1>2, <3>1
    <3>3. d[i].pay = <<1, m>> /\ d[i].seq = m % 8
      BY ONLY <3>2 DEF IsNth, SamePacket
    <3> QED
      BY ONLY <3>1, <3>3
  <2>2. DataOf(n) = [i \in 1..k |-> [n |-> d[i].pay[2], seq |-> d[i].seq]]
    BY <1>1 DEF DataOf, Datas
  <2> QED
    BY ONLY <2>1, <2>2 DEF Run
<1>5. DataOf(w \o n) = x \o Run(lo, k) /\ Len(x) <= Len(w) /\ Len(x) \in Nat
  <2>1. DataOf(w \o n) = DataOf(w) \o DataOf(n) /\ Len(DataOf(w)) <= Len(w)
        /\ Len(DataOf(w)) \in Nat
    BY ONLY w \in Seq(S), n \in Seq(S), DataOfConcat
  <2> QED
    BY ONLY <1>1, <1>4, <2>1
<1>6. First(t, P) = una /\ Sent(t, P) = P
  <2>1. Sent(t, P) = P - 0
    BY DEF Sent
  <2> QED
    BY ONLY <1>1, <1>3, <2>1, Len(Unacked(t)) = Len(Unacked(s)) DEF First
<1>7. /\ a.nxt = P /\ a.una = una /\ a.snt = snt /\ a.data = x /\ a.rcvd = Pays(g)
      /\ a.pulled = Len(g) - r.rxQueue /\ a.exp = r.expectedSeq /\ a.ack = r.currentTxAck
      /\ a.acks = AcksOf(v, una)
  BY ONLY <1>1, a = View(s, P, w, r, g, v) DEF View
<1>8. b = [nxt |-> P, una |-> una, snt |-> P, data |-> x \o Run(lo, k), rcvd |-> Pays(g),
           pulled |-> Len(g) - r.rxQueue, exp |-> r.expectedSeq, ack |-> r.currentTxAck,
           acks |-> AcksOf(v, una)]
  BY ONLY <1>5, <1>6, b = View(t, P, w \o n, r, g, v), Zenon DEF View
<1>9. CASE k = 0
  <2>1. lo = P
    BY ONLY <1>1, <1>3, <1>9
  <2>2. snt = P
    BY ONLY <1>2, <1>3, <2>1
  <2>3. x \o Run(lo, k) = x
    <3>1. x \in Seq({Data(p) : p \in S})
      <4>1. PICK y, T : y = OfType(w, T) /\ T = {"DATA"}
        OBVIOUS
      <4>2. y \in Seq({q \in S : q.type \in T})
        BY ONLY <4>1, w \in Seq(S), OfTypeElements
      <4>3. y \in Seq(S)
        BY ONLY <4>2
      <4>4. Datas(y) \in Seq({Data(q) : q \in S})
        BY ONLY <4>3, DatasSeq
      <4> QED
        BY ONLY <1>1, <4>1, <4>4 DEF DataOf
    <3>2. Run(lo, k) = << >>
      BY ONLY <1>9 DEF Run
    <3> QED
      BY ONLY <3>1, <3>2, ConcatEmptySeq
  <2>4. DataOf(w \o n) = DataOf(w) /\ First(t, P) = First(s, P) /\ Sent(t, P) = Sent(s, P)
    BY ONLY <1>1, <1>5, <1>6, <2>2, <2>3
  <2>5. b = a
    BY ONLY <2>4, a = View(s, P, w, r, g, v), b = View(t, P, w \o n, r, g, v), Zenon DEF View
  <2> QED
    BY <2>5
<1>10. CASE k # 0
  <2>1. P - lo = k /\ lo < P
    BY ONLY <1>1, <1>2, <1>3, <1>10
  <2>2. Len(a.data) + (a.nxt - lo) <= 2 * WireCap
    <3>1. PICK i, j, l, m : i = Len(x) /\ j = Len(w) /\ l = Len(n) /\ m = Len(d)
      OBVIOUS
    <3>2. i \in Nat /\ j \in Nat /\ l \in Nat /\ i <= j /\ j + l <= WireCap /\ WireCap \in Nat
      BY <1>5, <3>1, SLAPAssumption, LenProperties
    <3>3. k <= l
      <4>1. Len(OfType(n, {"DATA"})) <= Len(n)
        BY ONLY n \in Seq(S), OfTypeElements
      <4> QED
        BY <1>1, <3>1, <4>1
    <3>4. i + k <= 2 * WireCap
      BY ONLY <1>2, <3>2, <3>3
    <3> QED
      BY ONLY <1>7, <2>1, <3>1, <3>4
  <2>3. Sending(a, b, lo)
    BY ONLY <1>7, <1>8, <2>1, <2>2, Zenon DEF Sending
  <2> QED
    BY ONLY <1>2, <1>7, <2>1, <2>3
<1> QED
  BY <1>9, <1>10

-----------------------------------------------------------------------------
(* Steps.                                                                  *)

\* Seen from either end, a step of the link is a step of the window protocol
\* or none.
ViewFrom(e) == View(st[e], pushed[e], wire[Peer(e)], st[Peer(e)], got[Peer(e)], wire[e])
Simulates == \A e \in End : Moves(ViewFrom(e), ViewFrom(e)', MaxPush[e])

LEMMA Stutters == ASSUME NEW a, NEW b, b = a, NEW M PROVE Moves(a, b, M)
BY Zenon DEF Moves

\* Both directions, after a step of end e.
LEMMA OrderStep ==
    ASSUME Inv, OrderInv, NEW e \in End, NEW f, f = Peer(e),
           NEW t, NEW we, NEW wf, NEW P, NEW g,
           st' = [st EXCEPT ![e] = t], wire' = [x \in End |-> IF x = e THEN we ELSE wf],
           epoch' = epoch, pushed' = [pushed EXCEPT ![e] = P], got' = [got EXCEPT ![e] = g],
           Settled(e, t), Dir(t, P, wf, st[f], got[f], we), Dir(st[f], pushed[f], we, t, g, wf),
           Moves(View(st[e], pushed[e], wire[f], st[f], got[f], wire[e]),
                 View(t, P, wf, st[f], got[f], we), MaxPush[e]),
           Moves(View(st[f], pushed[f], wire[e], st[e], got[e], wire[f]),
                 View(st[f], pushed[f], we, t, g, wf), MaxPush[f])
    PROVE  OrderInv' /\ Simulates
<1>1. f \in End /\ f # e /\ Peer(f) = e /\ (\A x \in End : x = e \/ x = f) /\ Peer(e) = f
  BY PeerFacts
<1>2. PICK S, W, N, G, E : S = st' /\ W = wire' /\ N = pushed' /\ G = got' /\ E = epoch'
  OBVIOUS
<1>3. /\ st = [x \in End |-> st[x]] /\ pushed \in [End -> Nat] /\ got = [x \in End |-> got[x]]
      /\ \A x \in End : epoch[x] = 1 /\ Settled(x, st[x])
  BY DEF Inv, Counters, OrderInv
<1>4. /\ S[e] = t /\ S[f] = st[f] /\ N[e] = P /\ N[f] = pushed[f] /\ G[e] = g /\ G[f] = got[f]
      /\ W[e] = we /\ W[f] = wf
      /\ G = [x \in End |-> G[x]]
  BY <1>1, <1>2, <1>3
<1>5. \A x \in End : E[x] = 1
  BY <1>2, <1>3
<1>6. Dir(S[e], N[e], W[Peer(e)], S[Peer(e)], G[Peer(e)], W[e]) /\ Settled(e, S[e])
  BY <1>1, <1>4
<1>7. Dir(S[f], N[f], W[Peer(f)], S[Peer(f)], G[Peer(f)], W[f]) /\ Settled(f, S[f])
  BY <1>1, <1>3, <1>4
<1>8. \A x \in End : /\ E[x] = 1 /\ Settled(x, S[x])
                     /\ Dir(S[x], N[x], W[Peer(x)], S[Peer(x)], G[Peer(x)], W[x])
  BY <1>1, <1>5, <1>6, <1>7
<1>9. OrderInv'
  BY <1>2, <1>4, <1>8 DEF OrderInv
<1>10. \A x \in End : Moves(View(st[x], pushed[x], wire[Peer(x)], st[Peer(x)], got[Peer(x)], wire[x]),
                            View(S[x], N[x], W[Peer(x)], S[Peer(x)], G[Peer(x)], W[x]), MaxPush[x])
  BY <1>1, <1>4
<1>11. Simulates
  BY <1>2, <1>10 DEF Simulates, ViewFrom
<1> QED
  BY <1>9, <1>11

\* What the invariants say of an end and the other one.
LEMMA OrderParts ==
    ASSUME Inv, OrderInv, NEW e \in End, NEW f, f = Peer(e)
    PROVE  /\ f \in End /\ f # e /\ Peer(f) = e
           /\ \A x \in {e, f} : StreamOK(x, st[x]) /\ Core(x, st[x]) /\ st[x] \in Stream(x)
                                /\ CtrlFirst(st[x]) /\ Settled(x, st[x]) /\ st[x].rxQueue \in Nat
           /\ wire[e] \in Seq(Packet(f)) /\ wire[f] \in Seq(Packet(e))
           /\ Dir(st[e], pushed[e], wire[f], st[f], got[f], wire[e])
           /\ Dir(st[f], pushed[f], wire[e], st[e], got[e], wire[f])
           /\ pushed = [pushed EXCEPT ![e] = pushed[e]] /\ got = [got EXCEPT ![e] = got[e]]
           /\ st = [st EXCEPT ![e] = st[e]]
           /\ wire = [x \in End |-> IF x = e THEN wire[e] ELSE wire[f]]
           /\ pushed[e] \in Nat /\ epoch[e] = 1
<1>1. f \in End /\ f # e /\ Peer(f) = e /\ (\A x \in End : x = e \/ x = f) /\ Peer(e) = f
  BY PeerFacts
<1>2. \A x \in End : StreamOK(x, st[x]) /\ WireOK(x, wire[x])
  BY DEF Inv
<1>3. \A x \in End : Core(x, st[x]) /\ st[x] \in Stream(x) /\ CtrlFirst(st[x])
  BY <1>2 DEF StreamOK, Core
<1>4. \A x \in End : st[x].rxQueue \in Nat
  BY <1>3, StreamFields
<1>5. \A x \in End : Settled(x, st[x])
  BY DEF OrderInv
<1>6. wire[e] \in Seq(Packet(f)) /\ wire[f] \in Seq(Packet(e))
  BY <1>1, <1>2 DEF WireOK
<1>7. /\ Dir(st[e], pushed[e], wire[f], st[f], got[f], wire[e])
      /\ Dir(st[f], pushed[f], wire[e], st[e], got[e], wire[f])
  BY <1>1 DEF OrderInv
<1>8. /\ pushed \in [End -> Nat] /\ got = [x \in End |-> got[x]] /\ st = [x \in End |-> st[x]]
      /\ wire = [x \in End |-> wire[x]] /\ epoch[e] = 1
  BY DEF Inv, Counters, OrderInv
<1>9. /\ pushed = [pushed EXCEPT ![e] = pushed[e]] /\ got = [got EXCEPT ![e] = got[e]]
      /\ st = [st EXCEPT ![e] = st[e]]
      /\ wire = [x \in End |-> IF x = e THEN wire[e] ELSE wire[f]]
  BY ONLY <1>1, <1>8, e \in End
<1> QED
  BY <1>1, <1>2, <1>3, <1>4, <1>5, <1>6, <1>7, <1>8, <1>9

\* A step of one end that sends nothing and reads nothing.
LEMMA QuietOrder ==
    ASSUME Inv, OrderInv, NEW e \in End, NEW t, st' = [st EXCEPT ![e] = t],
           UNCHANGED <<wire, epoch, pushed, got>>, Keep(e, st[e], t), t.rxQueue \in Nat
    PROVE  OrderInv' /\ Simulates
<1>1. PICK f : f = Peer(e)
  OBVIOUS
<1>2. PICK s, r, we, wf, P, g : /\ s = st[e] /\ r = st[f] /\ we = wire[e] /\ wf = wire[f]
                                /\ P = pushed[e] /\ g = got[e]
  OBVIOUS
<1>3. /\ Settled(e, s) /\ s.rxQueue \in Nat /\ r.rxQueue \in Nat
      /\ Dir(s, P, wf, r, got[f], we) /\ Dir(r, pushed[f], we, s, g, wf)
      /\ pushed = [pushed EXCEPT ![e] = P] /\ got = [got EXCEPT ![e] = g]
      /\ wire = [x \in End |-> IF x = e THEN we ELSE wf]
  BY <1>1, <1>2, OrderParts
<1>4. SameSend(s, t) /\ SameRecv(s, t) /\ Settled(e, t)
  BY <1>2, <1>3 DEF Keep
<1>5. SameSend(r, r) /\ SameRecv(r, r)
  BY <1>3, KeepSelf DEF Keep
<1>6. Dir(t, P, wf, r, got[f], we)
  BY ONLY <1>3, <1>4, <1>5, DirSame
<1>7. Dir(r, pushed[f], we, t, g, wf)
  BY ONLY <1>3, <1>4, <1>5, t.rxQueue \in Nat, DirSame
<1>8. /\ wire' = [x \in End |-> IF x = e THEN we ELSE wf] /\ epoch' = epoch
      /\ pushed' = [pushed EXCEPT ![e] = P] /\ got' = [got EXCEPT ![e] = g]
  BY <1>3
<1>9. /\ View(t, P, wf, r, got[f], we) = View(s, P, wf, r, got[f], we)
      /\ View(r, pushed[f], we, t, g, wf) = View(r, pushed[f], we, s, g, wf)
  BY ONLY <1>4, <1>5, ViewSame
<1>10. /\ Moves(View(s, P, wf, r, got[f], we), View(t, P, wf, r, got[f], we), MaxPush[e])
       /\ Moves(View(r, pushed[f], we, s, g, wf), View(r, pushed[f], we, t, g, wf), MaxPush[f])
  BY ONLY <1>9, Stutters
<1> QED
  BY ONLY Inv, OrderInv, e \in End, st' = [st EXCEPT ![e] = t], <1>1, <1>2, <1>4, <1>6, <1>7, <1>8,
          <1>10, OrderStep

LEMMA SameReadKeeps ==
    ASSUME NEW e, NEW s, NEW t, s.rxQueue \in Nat, SameRead(s, t)
    PROVE  SameRecv(s, t) /\ (Settled(e, s) => Settled(e, t))
<1>1. (Unset(t) => Unset(s)) /\ (Settled(e, s) => Settled(e, t))
  BY Zenon DEF SameRead, Unset, Settled
<1>2. t.rxQueue = s.rxQueue
  BY DEF SameRead
<1> QED
  BY <1>1, <1>2, Zenon DEF SameRead, SameRecv

\* What TransmitToLink sends and leaves, when nothing is refused.
LEMMA TransmitRepeats ==
    ASSUME NEW e, NEW s \in Stream(e), CtrlFirst(s), NEW u, NEW d, Stamped(s, d),
           u.txSent = s.txSent \o d, Waits(u) = << >>, u.txSeqNum = s.txSeqNum,
           NEW n \in Seq({p \in Packet(e) : FromWaits(s, p)}),
           NEW o, Unacked(o) = Unacked(s), o.txSeqNum = s.txSeqNum
    PROVE  Repeats(o, u) /\ Sends(o, n)
<1>1. PICK x, y, z, a, b : /\ x = s.txSent /\ y = Waits(s) /\ z = Unacked(s)
                           /\ a = Len(x) /\ b = Len(y)
  OBVIOUS
<1>2. x \in Seq(DataPacket) /\ y \in Seq(DataPacket) /\ z = x \o y
  BY <1>1, WaitsData DEF Unacked
<1>3. d \in Seq(DataPacket) /\ Len(d) = b /\ \A i \in 1..b : SamePacket(d[i], y[i])
  BY <1>1 DEF Stamped
<1>4. a \in Nat /\ b \in Nat /\ Len(z) = a + b
  BY ONLY <1>1, <1>2
<1>5. PICK v : v = x \o d
  OBVIOUS
<1>6. v \in Seq(DataPacket) /\ Len(v) = a + b
  BY ONLY <1>1, <1>2, <1>3, <1>4, <1>5, SMTT(30)
<1>7. \A i \in 1..a : v[i] = x[i] /\ z[i] = x[i]
  BY ONLY <1>1, <1>2, <1>3, <1>4, <1>5
<1>8. \A i \in 1..b : v[a + i] = d[i] /\ z[a + i] = y[i]
  BY ONLY <1>1, <1>2, <1>3, <1>4, <1>5
<1>9. ASSUME NEW i \in 1..Len(z) PROVE SamePacket(v[i], z[i])
  <2>1. CASE i <= a
    <3>1. v[i] = z[i]
      BY <1>4, <1>7, <2>1
    <3> QED
      BY <3>1 DEF SamePacket
  <2>2. CASE i > a
    <3>1. PICK j : j = i - a
      OBVIOUS
    <3>2. j \in 1..b /\ i = a + j
      BY <1>4, <2>2, <3>1
    <3>3. v[i] = d[j] /\ z[i] = y[j] /\ SamePacket(d[j], y[j])
      BY <1>3, <1>8, <3>2
    <3> QED
      BY <3>3
  <2> QED
    BY <1>4, <2>1, <2>2
<1>10. Repeats(o, u)
  BY <1>1, <1>4, <1>5, <1>6, <1>9 DEF Repeats
<1>11. ASSUME NEW k \in 1..Len(n), n[k].type = "DATA"
       PROVE  \E i \in 1..Len(z) : SamePacket(n[k], z[i])
  <2>1. PICK S : S = {p \in Packet(e) : FromWaits(s, p)}
    OBVIOUS
  <2>2. n[k] \in S
    BY <2>1, ElementOfSeq
  <2>3. FromWaits(s, n[k])
    BY <2>1, <2>2
  <2>4. PICK i \in 1..b : SamePacket(n[k], y[i])
    BY <1>1, <1>11, <2>3 DEF FromWaits
  <2>5. PICK j : j = a + i
    OBVIOUS
  <2>6. j \in 1..Len(z) /\ z[j] = y[i]
    BY <1>4, <1>8, <2>5
  <2> QED
    BY <2>4, <2>6
<1>12. Sends(o, n)
  BY <1>1, <1>11 DEF Sends
<1> QED
  BY <1>10, <1>12

\* Filtering twice, the second time by fewer types.
LEMMA OfTypeTwice ==
    ASSUME NEW S, NEW T, NEW U, U \subseteq T
    PROVE  \A q \in Seq(S) : OfType(OfType(q, T), U) = OfType(q, U)
<1> DEFINE Bad == {n \in Nat : \E q \in Seq(S) : Len(q) = n /\ OfType(OfType(q, T), U) # OfType(q, U)}
<1>1. SUFFICES ASSUME Bad # {} PROVE FALSE
  OBVIOUS
<1>2. PICK n \in Bad : \A k \in Bad : n <= k
  BY <1>1, LeastExists
<1>3. PICK q \in Seq(S) : Len(q) = n /\ OfType(OfType(q, T), U) # OfType(q, U)
  BY <1>2
<1>4. n # 0
  BY <1>3, OfTypeEmpty, EmptySeq
<1>a. Len(q) # 0
  BY <1>3, <1>4
<1>b. \E r \in Seq(S), x \in S : q = Append(r, x) /\ Len(r) = Len(q) - 1
  BY ONLY q \in Seq(S), <1>a, SplitLast
<1>5. PICK r \in Seq(S), x \in S : q = Append(r, x) /\ Len(r) = n - 1
  BY ONLY <1>b, <1>3
<1>6. OfType(OfType(r, T), U) = OfType(r, U)
  <2>1. n - 1 \in Nat /\ ~(n <= n - 1)
    BY <1>2, <1>4
  <2> QED
    BY <2>1, <1>2, <1>5
<1>7. /\ OfType(q, T) = IF x.type \in T THEN Append(OfType(r, T), x) ELSE OfType(r, T)
      /\ OfType(q, U) = IF x.type \in U THEN Append(OfType(r, U), x) ELSE OfType(r, U)
  BY <1>5, OfTypeAppend
<1>8. PICK y : y = OfType(r, T)
  OBVIOUS
<1>9. y \in Seq(S)
  <2>1. y \in Seq({z \in S : z.type \in T})
    BY <1>8, OfTypeElements
  <2> QED
    BY <2>1
<1>10. OfType(Append(y, x), U) = IF x.type \in U THEN Append(OfType(y, U), x) ELSE OfType(y, U)
  BY <1>9, OfTypeAppend
<1> QED
  BY <1>3, <1>6, <1>7, <1>8, <1>10

\* The data packets that TransmitToLink writes, and how many packets it writes.
LEMMA TransmitBundle ==
    ASSUME NEW e, NEW s \in Stream(e), CtrlFirst(s), s.txCurrent = << >>,
           NEW all, all = ToTransmit(s), NEW n, n = OfType(all, Valid),
           NEW d, d = OfType(n, {"DATA"}), NEW D, D = Waits(s)
    PROVE  Stamped(s, d) /\ Len(n) <= Len(all) /\ Len(all) <= Len(D) + 1
<1>1. CASE s.txQueue = << >>
  <2>1. all = << >> /\ D = << >>
    BY <1>1 DEF ToTransmit, Waits
  <2>2. n = << >>
    BY <2>1, OfTypeEmpty
  <2>3. d = << >>
    BY <2>2, OfTypeEmpty
  <2>4. Len(all) = 0 /\ Len(n) = 0 /\ Len(d) = 0 /\ Len(D) = 0 /\ d \in Seq(DataPacket)
    BY ONLY <2>1, <2>2, <2>3
  <2>5. Stamped(s, d)
    BY ONLY <2>4, D = Waits(s) DEF Stamped
  <2> QED
    BY ONLY <2>4, <2>5
<1>2. CASE s.txQueue # << >>
  <2>1. all \in Seq(Packet(e)) /\ Len(all) = Len(s.txCurrent) + Len(s.txQueue)
    BY <1>2, TransmitList
  <2>2. OfType(OfType(all, Valid), {"DATA"}) = OfType(all, {"DATA"})
    <3>1. {"DATA"} \subseteq Valid
      BY DEF Valid
    <3> QED
      BY <2>1, <3>1, OfTypeTwice
  <2>3. Stamped(s, d)
    <3>1. d = OfType(all, {"DATA"})
      BY <2>2
    <3> QED
      BY <1>2, <3>1, TransmitData
  <2>4. Len(n) <= Len(all)
    BY <2>1, OfTypeElements
  <2>5. D \in Seq(DataPacket) /\ (s.txQueue = D \/ s.txQueue = <<CtrlRef>> \o D)
    BY WaitsData
  <2>6. Len(s.txQueue) <= Len(D) + 1 /\ Len(s.txQueue) \in Nat
    <3>1. PICK k, T : k = CtrlRef /\ T = DataPacket \cup {CtrlRef}
      OBVIOUS
    <3>2. D \in Seq(T) /\ <<k>> \in Seq(T) /\ (s.txQueue = D \/ s.txQueue = <<k>> \o D)
      BY <2>5, <3>1
    <3> QED
      BY ONLY <3>2
  <2>7. Len(s.txCurrent) = 0
    OBVIOUS
  <2>8. Len(all) <= Len(D) + 1
    BY ONLY <2>1, <2>6, <2>7
  <2> QED
    BY <2>3, <2>4, <2>8
<1> QED
  BY <1>1, <1>2

LEMMA AckTypes ==
    ASSUME NEW e PROVE \A p \in Packet(e) : Acks(p) => p.ack \in 0..7
BY DEF Packet, DataPacket, Control, Acks

\* TransmitToLink from a state that differs from st[e] only in where the
\* unacknowledged packets wait and in the control packet.
LEMMA TransmitOrder ==
    ASSUME Inv, OrderInv, ~CanBlock, NEW e \in End, NEW s, NEW acking \in BOOLEAN,
           TransmitFrom(e, s, acking), Core(e, s), Answers(s), s.txCurrent = << >>,
           SameRead(st[e], s), Unacked(st[e]) = Unacked(s), st[e].txSeqNum = s.txSeqNum,
           Bundle(st[e], Waits(s)),
           UNCHANGED <<epoch, pushed, got>>
    PROVE  OrderInv' /\ Simulates
<1>1. PICK f, all, w : f = Peer(e) /\ all = ToTransmit(s) /\ w = wire[f]
  OBVIOUS
<1>2. PICK o, r, we, P, g : /\ o = st[e] /\ r = st[f] /\ we = wire[e]
                            /\ P = pushed[e] /\ g = got[e]
  OBVIOUS
<1>3. /\ Settled(e, o) /\ o.rxQueue \in Nat /\ r.rxQueue \in Nat /\ f \in End /\ f # e
      /\ o \in Stream(e) /\ CtrlFirst(o) /\ r \in Stream(f) /\ CtrlFirst(r)
      /\ w \in Seq(Packet(e)) /\ we \in Seq(Packet(f))
      /\ Dir(o, P, w, r, got[f], we) /\ Dir(r, pushed[f], we, o, g, w)
      /\ pushed = [pushed EXCEPT ![e] = P] /\ got = [got EXCEPT ![e] = g]
      /\ wire = [x \in End |-> IF x = e THEN we ELSE w]
  BY <1>1, <1>2, OrderParts
<1>4. s \in Stream(e) /\ CtrlFirst(s)
  BY DEF Core
<1>5. all \in Seq(Packet(e))
  <2>1. s.txQueue # << >> => all \in Seq(Packet(e))
    BY <1>1, <1>4, TransmitList
  <2>2. s.txQueue = << >> => all \in Seq(Packet(e))
    BY <1>1 DEF ToTransmit
  <2> QED
    BY <2>1, <2>2
<1>6. PICK A, room, fit : /\ A = Len(all) /\ room = WireCap - Len(w)
                          /\ fit = SmallerOf(A, room)
  OBVIOUS
<1>7. /\ CanBlock \/ A <= room
      /\ \E cut \in (IF fit < A THEN {0, 1} ELSE {0}),
            first \in (IF s.txCurrent = << >> THEN {1} ELSE {1, 2}) :
            /\ wire' = [wire EXCEPT ![f] = w \o OfType(SubSeq(all, first, fit), Valid)]
            /\ st' = [st EXCEPT ![e] =
                         IF acking THEN ScheduleLinkControlPacket(AfterTransmit(s, fit + cut))
                         ELSE AfterTransmit(s, fit + cut)]
  BY <1>1, <1>6, Zenon DEF TransmitFrom
<1>8. A \in Nat /\ room \in Int /\ WireCap \in Nat
  BY <1>3, <1>5, <1>6, LenProperties, SLAPAssumption
<1>9. fit = A
  BY ONLY ~CanBlock, <1>6, <1>7, <1>8 DEF SmallerOf
<1>10. PICK cut \in {0}, first \in {1} :
            /\ wire' = [wire EXCEPT ![f] = w \o OfType(SubSeq(all, first, fit), Valid)]
            /\ st' = [st EXCEPT ![e] =
                         IF acking THEN ScheduleLinkControlPacket(AfterTransmit(s, fit + cut))
                         ELSE AfterTransmit(s, fit + cut)]
  <2>1. ~(fit < A)
    BY ONLY <1>8, <1>9
  <2> QED
    BY ONLY s.txCurrent = << >>, <1>7, <2>1, Zenon
<1>11. fit + cut = A /\ first = 1
  BY ONLY <1>8, <1>9, <1>10
<1>12. SubSeq(all, 1, A) = all
  BY ONLY <1>5, <1>6, SubSeqFull
<1>13. PICK n, u : n = OfType(all, Valid) /\ u = AfterTransmit(s, A)
  OBVIOUS
<1>14. PICK t : t = IF acking THEN ScheduleLinkControlPacket(u) ELSE u
  OBVIOUS
<1>15. st' = [st EXCEPT ![e] = t]
  BY ONLY <1>10, <1>11, <1>13, <1>14, Zenon
<1>16. PICK wf : wf = w \o n
  OBVIOUS
<1>17. wire' = [x \in End |-> IF x = e THEN we ELSE wf]
  <2>1. wire' = [wire EXCEPT ![f] = wf]
    BY ONLY <1>9, <1>10, <1>11, <1>12, <1>13, <1>16, Zenon
  <2>2. \A x \in End : x = e \/ x = f
    BY <1>1, PeerFacts
  <2> QED
    BY ONLY <1>3, <2>1, <2>2
<1>18. StreamOK(e, u)
  <2>1. A \in 0..Len(ToTransmit(s))
    BY <1>1, <1>6, <1>8
  <2>2. /\ Core(e, u) /\ (Answers(s) => Answers(u))
        /\ s.txCurrent = << >> /\ A = Len(ToTransmit(s)) => Scheduled(u)
    BY <2>1, <1>13, AfterTransmitKeeps
  <2> QED
    BY <1>1, <1>6, <2>2 DEF StreamOK
<1>19. /\ \E d : Stamped(s, d) /\ u.txSent = s.txSent \o d
       /\ Waits(u) = << >> /\ u.txSeqNum = s.txSeqNum /\ SameRead(s, u)
  BY ONLY <1>1, <1>4, <1>6, <1>13, s.txCurrent = << >>, TransmitLeaves, ZenonT(60)
<1>20. PICK d : Stamped(s, d) /\ u.txSent = s.txSent \o d
  BY <1>19
<1>21. PICK S : S = {p \in Packet(e) : FromWaits(s, p)}
  OBVIOUS
<1>22. n \in Seq(S)
  BY ONLY <1>1, <1>4, <1>13, <1>21, s.txCurrent = << >>, TransmitPackets
<1>23. Repeats(o, u) /\ Sends(o, n)
  BY ONLY <1>2, <1>4, <1>19, <1>20, <1>21, <1>22, TransmitRepeats,
          Unacked(st[e]) = Unacked(s), st[e].txSeqNum = s.txSeqNum
<1>24. n \in Seq(Packet(e)) /\ \A k \in 1..Len(n) : Acks(n[k]) => n[k].ack = o.currentTxAck
  <2>1. \A k \in 1..Len(n) : n[k] \in S
    BY <1>22, ElementOfSeq
  <2>2. S \subseteq Packet(e)
    BY <1>21
  <2>3. \A p \in S : Acks(p) => p.ack = o.currentTxAck
    BY <1>2, <1>21 DEF FromWaits, SameRead
  <2> QED
    BY ONLY <1>22, <2>1, <2>2, <2>3
<1>25. Dir(u, P, wf, r, got[f], we)
  BY ONLY <1>3, <1>16, <1>23, <1>24, DirSends
<1>26. Dir(r, pushed[f], we, o, g, wf)
  BY ONLY <1>3, <1>16, <1>24, AckTypes, DirAnswers
<1>27. u.rxQueue \in Nat /\ Keep(e, u, t) /\ t.rxQueue \in Nat
  <2>1. u.rxQueue \in Nat
    BY <1>18, StreamFields DEF StreamOK, Core
  <2>2. PICK q : q = ScheduleLinkControlPacket(u)
    OBVIOUS
  <2>3. Keep(e, u, q) /\ Keep(e, u, u)
    BY <1>18, <2>1, <2>2, KeepSchedule, KeepSelf
  <2>4. q.rxQueue \in Nat
    BY <1>18, <2>2, ScheduleKeeps, StreamFields DEF StreamOK, Core
  <2> QED
    BY ONLY <1>14, <2>1, <2>2, <2>3, <2>4
<1>28. SameRecv(o, u) /\ Settled(e, u)
  <2>1. SameRead(o, u)
    BY <1>2, <1>19 DEF SameRead
  <2> QED
    BY <1>3, <2>1, SameReadKeeps
<1>29. SameSend(u, t) /\ SameRecv(u, t) /\ Settled(e, t)
  BY ONLY <1>27, <1>28 DEF Keep
<1>30. SameSend(r, r) /\ SameRecv(r, r)
  BY <1>3, KeepSelf DEF Keep
<1>31. Dir(t, P, wf, r, got[f], we)
  BY ONLY <1>3, <1>25, <1>29, <1>30, DirSame
<1>32. Dir(r, pushed[f], we, t, g, wf)
  <2>1. Dir(r, pushed[f], we, u, g, wf)
    BY ONLY <1>3, <1>26, <1>27, <1>28, <1>30, DirSame
  <2> QED
    BY ONLY <1>27, <1>29, <1>30, <2>1, DirSame
<1>33. epoch' = epoch /\ pushed' = [pushed EXCEPT ![e] = P] /\ got' = [got EXCEPT ![e] = g]
  BY <1>3
<1>34. PICK D, z : D = Waits(s) /\ z = OfType(n, {"DATA"})
  OBVIOUS
<1>35. Stamped(s, z) /\ Len(n) <= Len(all) /\ Len(all) <= Len(D) + 1
  BY ONLY <1>1, <1>4, <1>13, <1>34, s.txCurrent = << >>, TransmitBundle
<1>36. Len(w) + Len(n) <= WireCap /\ Len(n) <= Win + 1
  <2>1. PICK i, j, k, l : i = Len(w) /\ j = Len(n) /\ k = Len(D) /\ l = Len(Unacked(o))
    OBVIOUS
  <2>2. i \in Nat /\ j \in Nat
    BY <1>3, <1>24, <2>1, LenProperties
  <2>3. k \in Nat /\ l \in Nat /\ k <= l
    <3>1. PICK x : x = Len(s.txSent)
      OBVIOUS
    <3>2. x \in Nat /\ k \in Nat /\ l = x + k
      BY <1>2, <1>4, <1>34, <2>1, <3>1, WaitsData
    <3> QED
      BY ONLY <3>2
  <2>4. l <= Win /\ Win \in Nat
    <3>1. SendOrder(o, P)
      BY <1>3 DEF Dir
    <3>2. Len(Unacked(o)) <= Win
      BY ONLY <3>1 DEF SendOrder
    <3> QED
      BY <2>1, <3>2, ConfFacts DEF Win
  <2>5. A <= WireCap - i /\ j <= A /\ A <= k + 1
    BY ~CanBlock, <1>6, <1>7, <1>35, <2>1
  <2>6. i + j <= WireCap /\ j <= Win + 1
    BY ONLY <1>8, <2>2, <2>3, <2>4, <2>5
  <2> QED
    BY <2>1, <2>6
<1>37. PICK a, b, c : /\ a = View(o, P, w, r, got[f], we) /\ b = View(u, P, wf, r, got[f], we)
                      /\ c = View(t, P, wf, r, got[f], we)
  OBVIOUS
<1>38. Moves(a, c, MaxPush[e])
  <2>1. Len(z) = Len(D) /\ \A i \in 1..Len(z) : SamePacket(z[i], D[i])
    BY <1>34, <1>35 DEF Stamped
  <2>2. Len(Unacked(u)) = Len(Unacked(o))
    <3>1. u.txSent \in Seq(DataPacket) /\ Len(u.txSent) = Len(Unacked(o))
      BY <1>23 DEF Repeats
    <3>2. u.txSent \o << >> = u.txSent
      BY ONLY <3>1, ConcatEmptySeq
    <3> QED
      BY ONLY <1>19, <3>1, <3>2 DEF Unacked
  <2>3. Bundle(o, D)
    BY <1>2, <1>34
  <2>4. b = View(u, P, w \o n, r, got[f], we)
    BY <1>16, <1>37
  <2>5. \/ b = a \/ (a.snt < a.nxt /\ Sending(a, b, a.snt))
        \/ (a.una < a.snt /\ Sending(a, b, a.una))
    <3>1. PICK Z, h : Z = Packet(e) /\ h = got[f]
      OBVIOUS
    <3>2. /\ o \in Stream(e) /\ CtrlFirst(o) /\ w \in Seq(Z) /\ n \in Seq(Z) /\ Waits(u) = << >>
          /\ Dir(o, P, w, r, h, we) /\ a = View(o, P, w, r, h, we) /\ b = View(u, P, w \o n, r, h, we)
      BY <1>3, <1>19, <1>24, <1>37, <2>4, <3>1
    <3>3. z = OfType(n, {"DATA"}) /\ Len(w) + Len(n) <= WireCap
      BY <1>34, <1>36
    <3> QED
      BY ONLY <2>1, <2>2, <2>3, <3>2, <3>3, ViewSends
  <2>6. c = b
    BY ONLY <1>29, <1>30, <1>37, ViewSame
  <2> QED
    BY ONLY <2>5, <2>6, Zenon DEF Moves
<1>39. PICK h, k, l : /\ h = View(r, pushed[f], we, o, g, w) /\ k = View(r, pushed[f], we, o, g, wf)
                      /\ l = View(r, pushed[f], we, t, g, wf)
  OBVIOUS
<1>40. Moves(h, l, MaxPush[f])
  <2>1. k = View(r, pushed[f], we, o, g, w \o n)
    BY <1>16, <1>39
  <2>2. k = h \/ Acking(h, k)
    BY ONLY <1>3, <1>24, <1>36, <1>39, <2>1, ViewAnswers
  <2>3. View(r, pushed[f], we, u, g, wf) = View(r, pushed[f], we, o, g, wf)
    BY ONLY <1>28, <1>30, ViewSame
  <2>4. View(r, pushed[f], we, t, g, wf) = View(r, pushed[f], we, u, g, wf)
    BY ONLY <1>29, <1>30, ViewSame
  <2>5. l = k
    BY ONLY <1>39, <2>3, <2>4
  <2> QED
    BY ONLY <2>2, <2>5, Zenon DEF Moves
<1>41. /\ Moves(View(o, P, w, r, got[f], we), View(t, P, wf, r, got[f], we), MaxPush[e])
       /\ Moves(View(r, pushed[f], we, o, g, w), View(r, pushed[f], we, t, g, wf), MaxPush[f])
  BY ONLY <1>37, <1>38, <1>39, <1>40
<1> QED
  BY ONLY Inv, OrderInv, e \in End, <1>1, <1>2, <1>15, <1>17, <1>29, <1>31, <1>32, <1>33, <1>41,
          OrderStep

\* A handler that has the lock: nothing but its alarm is different.
LEMMA RestSame ==
    ASSUME NEW e, NEW s \in Stream(e), NEW t, t = [s EXCEPT !.firing = "none"]
    PROVE  /\ SameFields(s, t) /\ t.txQueue = s.txQueue /\ SameRead(s, t)
           /\ Unacked(t) = Unacked(s) /\ Keep(e, s, t) /\ t.rxQueue \in Nat
           /\ t \in Stream(e) /\ t.txCurrent = s.txCurrent /\ t.pendingAcks = s.pendingAcks
<1>1. s.rxQueue \in Nat
  BY StreamFields
<1>2. /\ SameFields(s, t) /\ t.txQueue = s.txQueue /\ t \in Stream(e)
      /\ t.txCurrent = s.txCurrent /\ t.pendingAcks = s.pendingAcks
  BY DEF Stream, SameFields
<1>3. SameRead(s, t) /\ Unacked(t) = Unacked(s)
  <2>1. SameRead(s, t)
    BY ONLY <1>2, Zenon DEF SameFields, SameRead
  <2>2. Waits(t) = Waits(s)
    BY ONLY <1>2, Zenon DEF Waits
  <2>3. Unacked(t) = Unacked(s)
    BY ONLY <1>2, <2>2, Zenon DEF SameFields, Unacked
  <2> QED
    BY <2>1, <2>3
<1>4. Keep(e, s, t)
  BY ONLY <1>1, <1>2, KeepQueue
<1> QED
  BY <1>1, <1>2, <1>3, <1>4 DEF SameFields

LEMMA AlarmDueOrder ==
    ASSUME Inv, OrderInv, NEW e \in End, NEW a \in {"SEND", "RESEND", "ACK", "CONTROL"},
           AlarmDue(e, a)
    PROVE  OrderInv' /\ Simulates
<1>1. PICK s : s = st[e]
  OBVIOUS
<1>2. PICK t : t = [s EXCEPT !.firing = a, !.alarms = s.alarms \ {a}]
  OBVIOUS
<1>3. s \in Stream(e) /\ s.rxQueue \in Nat
  BY <1>1, StreamFields DEF Inv, StreamOK, Core
<1>4. SameFields(s, t) /\ t.txQueue = s.txQueue /\ t.rxQueue \in Nat
  BY ONLY <1>2, <1>3 DEF Stream, SameFields
<1>5. Keep(e, s, t)
  BY ONLY <1>3, <1>4, KeepQueue
<1>6. st' = [st EXCEPT ![e] = t]
  BY <1>1, <1>2, <1>3 DEF AlarmDue, Inv
<1>7. UNCHANGED <<wire, epoch, pushed, got>>
  BY DEF AlarmDue
<1> QED
  BY <1>1, <1>4, <1>5, <1>6, <1>7, QuietOrder

LEMMA SendDataOrder ==
    ASSUME Inv, OrderInv, ~CanBlock, NEW e \in End, SendDataAlarm(e) PROVE OrderInv' /\ Simulates
<1>1. PICK b, s : b = st[e] /\ s = [b EXCEPT !.firing = "none"]
  OBVIOUS
<1>2. Core(e, b) /\ Answers(b) /\ b \in Stream(e) /\ b.txCurrent = << >> /\ b.firing = "SEND"
  BY <1>1 DEF Inv, StreamOK, Core, Scheduled, SendDataAlarm
<1>3. Core(e, s) /\ Answers(s)
  BY <1>1, <1>2, RestKeeps
<1>4. SameRead(b, s) /\ Unacked(s) = Unacked(b) /\ s.txCurrent = b.txCurrent
      /\ s.txSeqNum = b.txSeqNum
  BY ONLY <1>1, <1>2, RestSame DEF SameFields
<1>5. TransmitFrom(e, s, FALSE) /\ UNCHANGED <<epoch, pushed, got>>
  BY <1>1 DEF SendDataAlarm
<1>6. s.txQueue = b.txQueue
  BY ONLY <1>1, <1>2, RestSame
<1>7. Bundle(b, Waits(s))
  BY ONLY <1>6, Zenon DEF Bundle, Waits
<1> QED
  BY <1>1, <1>2, <1>3, <1>4, <1>5, <1>7, TransmitOrder

\* What goes back to m_txQueue stays in its order, before what waits there.
LEMMA BackOrder ==
    ASSUME NEW e, NEW s \in Stream(e), CtrlFirst(s), NEW t, t = Returned(s)
    PROVE  /\ Unacked(t) = Unacked(s) /\ SameRead(s, t) /\ t.txSeqNum = s.txSeqNum
           /\ Waits(t) = Unacked(s)
<1>1. PICK q, x, y, D : q = s.txQueue /\ x = s.txSent /\ y = Waits(s) /\ D = x \o y
  OBVIOUS
<1>2. x \in Seq(DataPacket) /\ y \in Seq(DataPacket) /\ D = Unacked(s)
  BY <1>1, WaitsData DEF Unacked
<1>3. D \in Seq(DataPacket)
  BY <1>2, WaitsData
<1>4. PICK b : b = BackQueue(s)
  OBVIOUS
<1>5. b = D \/ b = <<CtrlRef>> \o D
  <2>1. CASE q # << >> /\ Head(q) = CtrlRef
    <3>1. b = (<<CtrlRef>> \o x) \o y
      BY <1>1, <1>4, <2>1, Zenon DEF BackQueue, Waits
    <3>2. <<CtrlRef>> \in Seq(Item) /\ x \in Seq(Item) /\ y \in Seq(Item)
      BY ONLY <1>2 DEF Item
    <3>3. (<<CtrlRef>> \o x) \o y = <<CtrlRef>> \o (x \o y)
      BY ONLY <3>2, ConcatAssociative
    <3> QED
      BY <1>1, <3>1, <3>3
  <2>2. CASE ~(q # << >> /\ Head(q) = CtrlRef)
    BY <1>1, <1>4, <2>2, Zenon DEF BackQueue, Waits
  <2> QED
    BY <2>1, <2>2
<1>6. t = [s EXCEPT !.firing = "none", !.txQueue = b, !.txSent = << >>]
  BY <1>4 DEF Returned
<1>7. t.txQueue = b /\ t.txSent = << >> /\ SameRead(s, t) /\ t.txSeqNum = s.txSeqNum
  BY <1>6 DEF Stream, SameRead
<1>8. Waits(t) = D
  BY ONLY <1>3, <1>5, <1>7, WaitsOf
<1>9. << >> \o D = D
  BY ONLY <1>3, ConcatEmptySeq
<1> QED
  BY ONLY <1>2, <1>7, <1>8, <1>9 DEF Unacked

LEMMA ResendDataOrder ==
    ASSUME Inv, OrderInv, ~CanBlock, NEW e \in End, ResendDataAlarm(e) PROVE OrderInv' /\ Simulates
<1>1. PICK b, s : b = st[e] /\ s = [b EXCEPT !.firing = "none"]
  OBVIOUS
<1>2. /\ Core(e, b) /\ Answers(b) /\ b \in Stream(e) /\ b.txCurrent = << >> /\ CtrlFirst(b)
  BY <1>1 DEF Inv, StreamOK, Core, Scheduled
<1>3. s.link = b.link /\ s.txSent = b.txSent /\ s.txQueue = b.txQueue
  BY <1>1, <1>2 DEF Stream
<1>4. PICK q : q = IF s.txQueue # << >> /\ Head(s.txQueue) = CtrlRef
                   THEN <<CtrlRef>> \o s.txSent \o Tail(s.txQueue)
                   ELSE s.txSent \o s.txQueue
  OBVIOUS
<1>5. IF s.link = "ACTIVE" /\ s.txSent # << >>
      THEN TransmitFrom(e, [s EXCEPT !.txQueue = q, !.txSent = << >>], FALSE)
      ELSE st' = [st EXCEPT ![e] = s] /\ UNCHANGED wire
  BY <1>1, <1>4, Zenon DEF ResendDataAlarm
<1>6. UNCHANGED <<epoch, pushed, got>>
  BY DEF ResendDataAlarm
<1>7. CASE s.link = "ACTIVE" /\ s.txSent # << >>
  <2>1. PICK t : t = Returned(b)
    OBVIOUS
  <2>2. q = BackQueue(b)
    BY ONLY <1>3, <1>4, Zenon DEF BackQueue
  <2>3. t = [b EXCEPT !.firing = "none", !.txQueue = q, !.txSent = << >>]
    BY ONLY <2>1, <2>2, Zenon DEF Returned
  <2>4. t = [s EXCEPT !.txQueue = q, !.txSent = << >>]
    BY <1>1, <1>2, <2>3 DEF Stream
  <2>5. TransmitFrom(e, t, FALSE)
    BY ONLY <1>5, <1>7, <2>4, Zenon
  <2>6. b.link = "ACTIVE"
    BY <1>3, <1>7
  <2>7. Core(e, t) /\ t.txCurrent = b.txCurrent /\ Answers(t)
    BY ONLY <1>2, <2>1, <2>6, BackKeeps
  <2>8. Unacked(t) = Unacked(b) /\ SameRead(b, t) /\ t.txSeqNum = b.txSeqNum
        /\ Waits(t) = Unacked(b)
    BY ONLY <1>2, <2>1, BackOrder
  <2>9. Bundle(b, Waits(t))
    BY ONLY <1>3, <1>7, <2>8 DEF Bundle
  <2> QED
    BY <1>1, <1>2, <1>6, <2>5, <2>7, <2>8, <2>9, TransmitOrder
<1>8. CASE ~(s.link = "ACTIVE" /\ s.txSent # << >>)
  <2>1. st' = [st EXCEPT ![e] = s] /\ wire' = wire
    BY <1>5, <1>8
  <2>2. Keep(e, b, s) /\ s.rxQueue \in Nat
    BY ONLY <1>1, <1>2, RestSame
  <2> QED
    BY <1>1, <1>6, <2>1, <2>2, QuietOrder
<1> QED
  BY <1>7, <1>8

LEMMA AckAlarmOrder ==
    ASSUME Inv, OrderInv, ~CanBlock, NEW e \in End, AckAlarm(e) PROVE OrderInv' /\ Simulates
<1>1. PICK b, s : b = st[e] /\ s = [b EXCEPT !.firing = "none"]
  OBVIOUS
<1>2. /\ StreamOK(e, b) /\ b.firing = "ACK" /\ b \in Stream(e) /\ b.txCurrent = << >>
      /\ b.rxQueue \in Nat
  BY <1>1, StreamFields DEF Inv, AckAlarm, StreamOK, Scheduled, Core
<1>3. StreamOK(e, s)
  BY <1>1, <1>2, RestKeeps DEF StreamOK
<1>4. /\ SameFields(b, s) /\ s.txQueue = b.txQueue /\ SameRead(b, s) /\ s \in Stream(e)
      /\ Unacked(s) = Unacked(b) /\ Keep(e, b, s) /\ s.rxQueue \in Nat
      /\ s.txCurrent = b.txCurrent
  BY ONLY <1>1, <1>2, RestSame
<1>5. PICK y : y = [s EXCEPT !.pendingAcks = FALSE]
  OBVIOUS
<1>6. PICK p : p = [type |-> "ACK", ack |-> s.currentTxAck]
  OBVIOUS
<1>7. IF s.pendingAcks THEN TransmitFrom(e, FillCtrl(y, p), TRUE)
      ELSE st' = [st EXCEPT ![e] = ScheduleLinkControlPacket(s)] /\ UNCHANGED wire
  BY <1>1, <1>5, <1>6, Zenon DEF AckAlarm
<1>8. UNCHANGED <<epoch, pushed, got>>
  BY DEF AckAlarm
<1>9. CASE s.pendingAcks
  <2>1. s \in Stream(e) /\ Len(s.txCurrent) <= 1 /\ CtrlFirst(s) /\ Resends(s) /\ Core(e, s)
        /\ Answers(s)
    BY <1>3 DEF Core, StreamOK
  <2>2. /\ y \in Stream(e) /\ y.txCurrent = s.txCurrent /\ y.txQueue = s.txQueue
        /\ y.txCtrl = s.txCtrl
        /\ y.link = s.link /\ y.win = s.win /\ y.size = s.size /\ y.ver = s.ver
        /\ y.conf = s.conf
        /\ y.txFree = s.txFree /\ y.rxFree = s.rxFree /\ y.rxQueue = s.rxQueue
        /\ y.txSent = s.txSent /\ y.alarms = s.alarms /\ y.firing = s.firing
        /\ y.source = s.source /\ y.sink = s.sink /\ y.close = s.close
    BY <1>5, <2>1 DEF Stream
  <2>3. InUse(y) = InUse(s) /\ CtrlFirst(y) /\ Resends(y)
    BY <2>1, <2>2 DEF InUse, CtrlFirst, Resends
  <2>4. s.link = "INITIALIZED" => y.conf \in Proposals(e)
    BY <2>1, <2>2 DEF Core, Params
  <2>5. Core(e, y)
    BY ONLY <2>1, <2>2, <2>3, <2>4, CoreTransfer
  <2>6. p \in Control(e) /\ p.type = "ACK"
    <3>1. s.currentTxAck \in 0..7
      BY <2>1, StreamFields
    <3> QED
      BY <1>6, <3>1 DEF Control
  <2>7. PICK t : t = FillCtrl(y, p)
    OBVIOUS
  <2>8. /\ Core(e, t) /\ t.link = y.link /\ t.close = y.close /\ t.txCtrl = p
        /\ t.txCurrent = y.txCurrent \/ (y.txCurrent # << >> /\ t.txCurrent = <<Junk>>)
    BY ONLY <2>5, <2>6, <2>7, FillCtrlKeeps
  <2>9. Answers(t)
    BY <2>1, <2>2, <2>6, <2>8, PacketTypes DEF Answers, Down
  <2>10. t.txCurrent = << >>
    BY <1>2, <1>4, <2>2, <2>8
  <2>11. TransmitFrom(e, t, TRUE)
    BY ONLY <1>7, <1>9, <2>7, Zenon
  <2>12. y.expectedSeq = s.expectedSeq /\ y.currentTxAck = s.currentTxAck
         /\ y.txSeqNum = s.txSeqNum
    BY <1>5, <2>1 DEF Stream
  <2>13. SameSend(y, t)
    BY ONLY <2>2, <2>3, <2>7, KeepFill DEF Keep
  <2>14. SameRead(y, t)
    BY ONLY <2>2, <2>7 DEF FillCtrl, Stream, SameRead
  <2>15. SameRead(b, t)
    BY ONLY <1>4, <2>2, <2>12, <2>14 DEF SameRead
  <2>16. Unacked(b) = Unacked(t) /\ b.txSeqNum = t.txSeqNum
    <3>1. Waits(y) = Waits(b) /\ y.txSent = b.txSent
      BY ONLY <1>4, <2>2 DEF SameFields, Waits
    <3> QED
      BY ONLY <1>4, <2>12, <2>13, <3>1 DEF SameSend, Unacked, SameFields
  <2>17. Bundle(b, Waits(t))
    <3>1. Waits(y) = Waits(b)
      BY ONLY <1>4, <2>2, Zenon DEF Waits
    <3> QED
      BY ONLY <2>13, <3>1, Zenon DEF SameSend, Bundle
  <2> QED
    BY <1>1, <1>8, <2>8, <2>9, <2>10, <2>11, <2>15, <2>16, <2>17, TransmitOrder
<1>10. CASE ~s.pendingAcks
  <2>1. PICK u : u = ScheduleLinkControlPacket(s)
    OBVIOUS
  <2>2. st' = [st EXCEPT ![e] = u] /\ wire' = wire
    BY <1>7, <1>10, <2>1
  <2>3. Keep(e, s, u)
    BY <1>3, <2>1, KeepSchedule
  <2>4. u.rxQueue \in Nat
    BY <1>3, <2>1, ScheduleKeeps, StreamFields DEF StreamOK, Core
  <2>5. Keep(e, b, u)
    BY ONLY <1>2, <1>4, <2>3, <2>4, KeepTrans
  <2> QED
    BY <1>1, <1>8, <2>2, <2>4, <2>5, QuietOrder
<1> QED
  BY <1>9, <1>10

LEMMA ResendControlOrder ==
    ASSUME Inv, OrderInv, NEW e \in End, ResendControlAlarm(e) PROVE OrderInv' /\ Simulates
<1>1. PICK b, s : b = st[e] /\ s = [b EXCEPT !.firing = "none"]
  OBVIOUS
<1>2. StreamOK(e, b) /\ b.firing = "CONTROL" /\ b \in Stream(e) /\ b.rxQueue \in Nat
  BY <1>1, StreamFields DEF Inv, ResendControlAlarm, StreamOK, Core
<1>3. StreamOK(e, s)
  BY <1>1, <1>2, RestKeeps DEF StreamOK
<1>4. Keep(e, b, s) /\ s.rxQueue \in Nat
  BY ONLY <1>1, <1>2, RestSame
<1>5. PICK u : u = ScheduleLinkControlPacket(s)
  OBVIOUS
<1>6. Keep(e, s, u)
  BY <1>3, <1>5, KeepSchedule
<1>7. u.rxQueue \in Nat
  BY <1>3, <1>5, ScheduleKeeps, StreamFields DEF StreamOK, Core
<1>8. Keep(e, b, u)
  BY ONLY <1>2, <1>4, <1>6, <1>7, KeepTrans
<1>9. st' = [st EXCEPT ![e] = u] /\ UNCHANGED <<wire, epoch, pushed, got>>
  BY <1>1, <1>5 DEF ResendControlAlarm
<1> QED
  BY <1>1, <1>7, <1>8, <1>9, QuietOrder

LEMMA AckWithin ==
    ASSUME NEW e, NEW s \in Stream(e), CtrlFirst(s), NEW P, NEW w, NEW r, NEW g, NEW v,
           Dir(s, P, w, r, g, v), 1 \in 1..Len(v), Acks(v[1]), v[1].ack \in 0..7
    PROVE  Names(v[1], First(s, P)) <= Len(s.txSent)
<1>1. PICK una, R, L, m, a : /\ una = First(s, P) /\ R = Len(g) /\ L = Len(s.txSent)
                             /\ m = Names(v[1], una) /\ a = v[1].ack
  OBVIOUS
<1>2. una \in Nat /\ R \in Nat /\ R <= una + L
  <2>1. una \in Nat /\ R \in Nat /\ R <= Sent(s, P) /\ Sent(s, P) = una + L
    BY <1>1, DirNumbers
  <2> QED
    BY ONLY <2>1
<1>3. L \in Nat
  BY <1>1, WaitsData
<1>4. m <= R - una
  BY <1>1 DEF Dir, AckOrder
<1>5. a \in Int /\ una \in Int
  BY <1>1, <1>2
<1>6. m = (a - una) % 8
  BY ONLY <1>1, Zenon DEF Names
<1>7. m \in 0..7
  BY ONLY <1>5, <1>6, ModRange
<1>8. m <= L
  BY ONLY <1>2, <1>3, <1>4, <1>7
<1> QED
  BY ONLY <1>1, <1>8

\* A step of end e that takes the first packet off its wire.
LEMMA TakenOrder ==
    ASSUME Inv, OrderInv, NEW e \in End, NEW f, f = Peer(e), NEW t, NEW g, NEW w, w = Tail(wire[e]),
           st' = [st EXCEPT ![e] = t], wire' = [wire EXCEPT ![e] = Tail(@)],
           UNCHANGED <<epoch, pushed>>, got' = [got EXCEPT ![e] = g], Settled(e, t),
           Dir(t, pushed[e], wire[f], st[f], got[f], w),
           Dir(st[f], pushed[f], w, t, g, wire[f]),
           Moves(View(st[e], pushed[e], wire[f], st[f], got[f], wire[e]),
                 View(t, pushed[e], wire[f], st[f], got[f], w), MaxPush[e]),
           Moves(View(st[f], pushed[f], wire[e], st[e], got[e], wire[f]),
                 View(st[f], pushed[f], w, t, g, wire[f]), MaxPush[f])
    PROVE  OrderInv' /\ Simulates
<1>1. PICK we, wf, P : we = wire[e] /\ wf = wire[f] /\ P = pushed[e]
  OBVIOUS
<1>2. pushed = [pushed EXCEPT ![e] = P] /\ wire = [x \in End |-> IF x = e THEN we ELSE wf]
  BY <1>1, OrderParts
<1>3. wire' = [wire EXCEPT ![e] = w]
  BY Zenon
<1>4. wire' = [x \in End |-> IF x = e THEN w ELSE wf]
  BY ONLY <1>2, <1>3, e \in End
<1>5. epoch' = epoch /\ pushed' = [pushed EXCEPT ![e] = P]
  BY <1>2
<1>6. Dir(t, P, wf, st[f], got[f], w) /\ Dir(st[f], pushed[f], w, t, g, wf)
  BY <1>1
<1>7. /\ Moves(View(st[e], pushed[e], wire[f], st[f], got[f], wire[e]),
               View(t, P, wf, st[f], got[f], w), MaxPush[e])
      /\ Moves(View(st[f], pushed[f], wire[e], st[e], got[e], wire[f]),
               View(st[f], pushed[f], w, t, g, wf), MaxPush[f])
  BY <1>1
<1> QED
  BY ONLY Inv, OrderInv, e \in End, f = Peer(e), st' = [st EXCEPT ![e] = t], Settled(e, t),
          got' = [got EXCEPT ![e] = g], <1>4, <1>5, <1>6, <1>7, OrderStep

LEMMA LoseOrder ==
    ASSUME Inv, OrderInv, NEW e \in End, Lose(e) PROVE OrderInv' /\ Simulates
<1>1. PICK f : f = Peer(e)
  OBVIOUS
<1>2. PICK s, we, wf, w, g : /\ s = st[e] /\ we = wire[e] /\ wf = wire[f] /\ w = Tail(we)
                             /\ g = got[e]
  OBVIOUS
<1>3. /\ Settled(e, s) /\ we \in Seq(Packet(f))
      /\ Dir(s, pushed[e], wf, st[f], got[f], we) /\ Dir(st[f], pushed[f], we, s, g, wf)
      /\ st = [st EXCEPT ![e] = s] /\ got = [got EXCEPT ![e] = g]
  BY <1>1, <1>2, OrderParts
<1>4. we # << >> /\ wire' = [wire EXCEPT ![e] = Tail(@)] /\ UNCHANGED <<epoch, pushed, got, st>>
  BY <1>2 DEF Lose
<1>5. Dir(s, pushed[e], wf, st[f], got[f], w)
  BY ONLY <1>2, <1>3, <1>4, DirDropAck
<1>6. Dir(st[f], pushed[f], w, s, g, wf)
  BY ONLY <1>2, <1>3, <1>4, DirDropData
<1>7. st' = [st EXCEPT ![e] = s] /\ got' = [got EXCEPT ![e] = g]
  BY <1>3, <1>4
<1>8. PICK a, b, c, d :
          /\ a = View(s, pushed[e], wf, st[f], got[f], we) /\ b = View(s, pushed[e], wf, st[f], got[f], w)
          /\ c = View(st[f], pushed[f], we, s, g, wf) /\ d = View(st[f], pushed[f], w, s, g, wf)
  OBVIOUS
<1>9. b = a \/ AckDropping(a, b)
  BY ONLY <1>2, <1>3, <1>4, <1>8, ViewDropAck
<1>10. d = c \/ Dropping(c, d)
  BY ONLY <1>2, <1>3, <1>4, <1>8, ViewDropData
<1>11. Moves(a, b, MaxPush[e]) /\ Moves(c, d, MaxPush[f])
  BY ONLY <1>9, <1>10, Zenon DEF Moves
<1>12. /\ Moves(View(st[e], pushed[e], wire[f], st[f], got[f], wire[e]),
                View(s, pushed[e], wire[f], st[f], got[f], w), MaxPush[e])
       /\ Moves(View(st[f], pushed[f], wire[e], st[e], got[e], wire[f]),
                View(st[f], pushed[f], w, s, g, wire[f]), MaxPush[f])
  BY ONLY <1>2, <1>8, <1>11
<1> QED
  BY <1>1, <1>2, <1>3, <1>4, <1>5, <1>6, <1>7, <1>12, TakenOrder

LEMMA TookSettled ==
    ASSUME NEW e, NEW s, Settled(e, s), NEW p, NEW t, Took(s, p, t), s.rxFree \in Nat
    PROVE  Settled(e, t)
<1>1. t.win = s.win
  BY DEF Took
<1>2. CASE s.win = Win
  BY <1>1, <1>2 DEF Settled
<1>3. CASE s.win # Win
  <2>1. Unset(s) /\ s.win \in {MaxWindow[e], Win}
    BY <1>3 DEF Settled
  <2>2. ~(s.rxFree > 0)
    BY <2>1 DEF Unset
  <2>3. t.rxFree = s.rxFree /\ t.rxQueue = s.rxQueue
    BY <2>2, Zenon DEF Took, TookNext, TookAgain, Ignored
  <2> QED
    BY <1>1, <2>1, <2>3, Zenon DEF Settled, Unset
<1> QED
  BY <1>2, <1>3

LEMMA ReadOrder ==
    ASSUME Inv, OrderInv, NEW e \in End, ReadEventTriggered(e) PROVE OrderInv' /\ Simulates
<1>1. PICK f : f = Peer(e)
  OBVIOUS
<1>2. PICK s, r, we, wf, w, P : /\ s = st[e] /\ r = st[f] /\ we = wire[e] /\ wf = wire[f]
                                /\ w = Tail(we) /\ P = pushed[e]
  OBVIOUS
<1>3. /\ StreamOK(e, s) /\ Core(e, s) /\ s \in Stream(e) /\ CtrlFirst(s) /\ Settled(e, s)
      /\ s.rxQueue \in Nat /\ r \in Stream(f) /\ CtrlFirst(r) /\ r.rxQueue \in Nat
      /\ we \in Seq(Packet(f)) /\ wf \in Seq(Packet(e))
      /\ Dir(s, P, wf, r, got[f], we) /\ Dir(r, pushed[f], we, s, got[e], wf)
      /\ got = [got EXCEPT ![e] = got[e]]
  BY <1>1, <1>2, OrderParts
<1>4. we # << >> /\ wire' = [wire EXCEPT ![e] = Tail(@)] /\ UNCHANGED <<epoch, pushed>>
  BY <1>2 DEF ReadEventTriggered
<1>5. PICK p : p = we[1]
  OBVIOUS
<1>6. p = Head(we) /\ p \in Packet(f) /\ 1 \in 1..Len(we)
  <2>1. WireOK(e, we)
    BY <1>2 DEF Inv
  <2> QED
    BY ONLY <1>1, <1>2, <1>4, <1>5, <2>1, WireTail
<1>7. PICK t : t = CASE IsData(p)      -> ProcessData(s, p)
                     [] p.type = "ACK" -> ProcessAckNum(s, p.ack)
                     [] OTHER          -> ProcessControlPacket(s, e, p)
  OBVIOUS
<1>8. PICK g : g = IF Accepted(s, p) THEN Append(got[e], p.pay) ELSE got[e]
  OBVIOUS
<1>9. st' = [st EXCEPT ![e] = t] /\ got' = [got EXCEPT ![e] = g]
  <2>1. /\ st' = [st EXCEPT ![e] = t]
        /\ got' = IF Accepted(s, p) THEN [got EXCEPT ![e] = Append(@, p.pay)] ELSE got
    BY <1>2, <1>6, <1>7, Zenon DEF ReadEventTriggered
  <2> QED
    BY ONLY <1>3, <1>8, <2>1, Zenon
<1>10. \A x \in End : \A q \in Packet(x) : Acks(q) => q.ack \in 0..7
  BY AckTypes
<1>11. f \in End
  BY <1>1, PeerFacts
<1>a. PICK a, b, c, d :
          /\ a = View(s, P, wf, r, got[f], we) /\ b = View(t, P, wf, r, got[f], w)
          /\ c = View(r, pushed[f], we, s, got[e], wf) /\ d = View(r, pushed[f], w, t, g, wf)
  OBVIOUS
<1>12. /\ Settled(e, t) /\ Dir(t, P, wf, r, got[f], w) /\ Dir(r, pushed[f], w, t, g, wf)
       /\ Moves(a, b, MaxPush[e]) /\ Moves(c, d, MaxPush[f])
  <2>1. PICK m : m = Names(p, First(s, P))
    OBVIOUS
  <2>2. ASSUME Acks(p)
        PROVE  /\ Released(s, m, ProcessAckNum(s, p.ack))
               /\ SameRead(s, ProcessAckNum(s, p.ack))
               /\ p.ack \in 0..7
    <3>1. p.ack \in 0..7
      BY <1>6, <1>10, <1>11, <2>2
    <3>2. m <= Len(s.txSent)
      BY ONLY <1>3, <1>5, <1>6, <2>1, <2>2, <3>1, AckWithin
    <3>3. SendOrder(s, P) /\ m = (p.ack - First(s, P)) % 8
      BY ONLY <1>3, <2>1, Zenon DEF Dir, Names
    <3>4. Released(s, m, ProcessAckNum(s, p.ack)) /\ SameRead(s, ProcessAckNum(s, p.ack))
      BY ONLY e \in End, <1>3, <3>1, <3>2, <3>3, AckReleases
    <3> QED
      BY <3>1, <3>4
  <2>3. ASSUME Acks(p), Released(s, m, t)
        PROVE  Dir(t, P, wf, r, got[f], w) /\ Moves(a, b, MaxPush[e])
    <3>1. /\ Dir(t, P, wf, r, got[f], w) /\ m \in Nat /\ m <= Len(s.txSent)
          /\ First(t, P) = First(s, P) + m /\ Sent(t, P) = Sent(s, P)
      <4>1. PICK S, h : S = Packet(f) /\ h = got[f]
        OBVIOUS
      <4>2. /\ s \in Stream(e) /\ CtrlFirst(s) /\ we \in Seq(S) /\ we # << >>
            /\ Dir(s, P, wf, r, h, we) /\ Acks(we[1]) /\ \A q \in S : Acks(q) => q.ack \in 0..7
            /\ m = Names(we[1], First(s, P))
        BY <1>3, <1>4, <1>5, <1>10, <1>11, <2>1, <2>3, <4>1
      <4>3. /\ Dir(t, P, wf, r, h, Tail(we)) /\ m \in Nat /\ m <= Len(s.txSent)
            /\ First(t, P) = First(s, P) + m /\ Sent(t, P) = Sent(s, P)
        BY ONLY <4>2, <2>3, DirReleases
      <4> QED
        BY <1>2, <4>1, <4>3
    <3>2. Releasing(a, b)
      <4>1. b = View(t, P, wf, r, got[f], Tail(we))
        BY <1>2, <1>a
      <4> QED
        BY ONLY <1>3, <1>4, <1>5, <1>10, <1>11, <1>a, <2>1, <2>3, <3>1, <4>1, ViewReleases
    <3> QED
      BY <3>1, <3>2, Zenon DEF Moves
  <2>4. CASE p.type = "DATA"
    <3>1. Acks(p) /\ p \in DataPacket
      BY <1>6, <2>4, PacketTypes DEF Acks
    <3>2. t = ProcessData(s, p)
      BY <1>7, <2>4 DEF IsData
    <3>3. PICK u : u = ProcessAckNum(s, p.ack)
      OBVIOUS
    <3>4. Released(s, m, u) /\ SameRead(s, u)
      BY <2>2, <3>1, <3>3
    <3>5. Released(s, m, t) /\ Took(s, p, t)
      BY ONLY <1>3, <3>1, <3>2, <3>3, <3>4, DataTakes
    <3>6. Dir(t, P, wf, r, got[f], w) /\ Moves(a, b, MaxPush[e])
      BY <2>3, <3>1, <3>5
    <3>7. s.win \in {1, 2, 4} /\ s.rxFree \in Nat
      BY <1>3, StreamFields
    <3>8. Settled(e, t)
      BY ONLY <1>3, <3>5, <3>7, TookSettled
    <3>9. Win <= s.win /\ (Unset(s) \/ s.win = Win)
      <4>1. Win <= MaxWindow[e] /\ Win \in {1, 2, 4}
        BY ConfFacts DEF Win
      <4> QED
        BY <1>3, <4>1 DEF Settled
    <3>10. \A i \in 1..Len(wf) : Acks(wf[i]) => wf[i].ack \in 0..7
      <4>1. \A i \in 1..Len(wf) : wf[i] \in Packet(e)
        BY <1>3, ElementOfSeq
      <4> QED
        BY <1>10, <4>1
    <3>11. Dir(r, pushed[f], w, t, g, wf)
      BY ONLY <1>2, <1>3, <1>4, <1>5, <1>8, <2>4, <3>5, <3>7, <3>9, <3>10, DirReads
    <3>12. s.rxFree > 0 => s.rxQueue < Win
      <4>1. ASSUME s.rxFree > 0 PROVE s.rxQueue < Win
        <5>1. ~NoPackets(s) /\ ~Unset(s)
          BY <4>1, <3>7 DEF NoPackets, Unset
        <5>2. s.rxFree + s.rxQueue = s.win /\ s.win = Win
          BY <1>3, <3>9, <5>1 DEF Core, Buffers, AllPackets
        <5> QED
          BY ONLY <1>3, <3>7, <4>1, <5>2
      <4> QED
        BY <4>1
    <3>13. we[1].seq \in 0..7 /\ we[1].pay \in Nat \X Nat /\ we[1].type = "DATA"
      BY <1>5, <2>4, <3>1 DEF DataPacket
    <3>14. d = c \/ Dropping(c, d) \/ Accepting(c, d)
      <4>1. /\ d = View(r, pushed[f], Tail(we), t, g, wf) /\ Dir(r, pushed[f], Tail(we), t, g, wf)
            /\ Took(s, we[1], t) /\ g = IF Accepted(s, we[1]) THEN Append(got[e], we[1].pay) ELSE got[e]
        BY <1>2, <1>5, <1>8, <1>a, <3>5, <3>11
      <4>2. PICK S, N, h : S = Packet(f) /\ N = pushed[f] /\ h = got[e]
        OBVIOUS
      <4>3. /\ we \in Seq(S) /\ we # << >> /\ Dir(r, N, we, s, h, wf) /\ s.rxQueue \in Nat
            /\ (Unset(s) \/ s.win = Win) /\ s.rxFree \in Nat
            /\ c = View(r, N, we, s, h, wf)
        BY <1>3, <1>4, <1>a, <3>7, <3>9, <4>2
      <4>4. /\ d = View(r, N, Tail(we), t, g, wf) /\ Dir(r, N, Tail(we), t, g, wf)
            /\ Took(s, we[1], t) /\ g = IF Accepted(s, we[1]) THEN Append(h, we[1].pay) ELSE h
        BY ONLY <4>1, <4>2
      <4> QED
        BY ONLY <3>12, <3>13, <4>3, <4>4, ViewReads
    <3>15. Moves(c, d, MaxPush[f])
      BY ONLY <3>14, Zenon DEF Moves
    <3> QED
      BY <3>6, <3>8, <3>11, <3>15
  <2>5. CASE p.type # "DATA"
    <3>1. g = got[e]
      BY <1>8, <2>5 DEF Accepted, IsData
    <3>2. Dir(r, pushed[f], w, s, g, wf)
      BY ONLY <1>2, <1>3, <1>4, <3>1, DirDropData
    <3>3. SameSend(r, r)
      BY <1>3, KeepSelf DEF Keep
    <3>a. View(r, pushed[f], w, s, g, wf) = c
      <4>1. PICK k : k = View(r, pushed[f], w, s, g, wf)
        OBVIOUS
      <4>2. c = View(r, pushed[f], we, s, g, wf) /\ k = View(r, pushed[f], Tail(we), s, g, wf)
            /\ we[1].type # "DATA"
        BY <1>2, <1>5, <1>a, <2>5, <3>1, <4>1
      <4>3. k = c
        BY ONLY <1>3, <1>4, <4>2, ViewDropData
      <4> QED
        BY <4>1, <4>3
    <3>b. ASSUME SameRecv(s, t) PROVE Moves(c, d, MaxPush[f])
      <4>1. View(r, pushed[f], w, t, g, wf) = View(r, pushed[f], w, s, g, wf)
        BY ONLY <3>3, <3>b, ViewSame
      <4>2. d = c
        BY ONLY <1>a, <3>a, <4>1
      <4> QED
        BY ONLY <4>2, Stutters
    <3>4. CASE p.type = "ACK"
      <4>1. t = ProcessAckNum(s, p.ack) /\ Acks(p)
        BY <1>7, <3>4 DEF IsData, Acks
      <4>2. Released(s, m, t) /\ SameRead(s, t)
        BY <2>2, <4>1
      <4>3. SameRecv(s, t) /\ Settled(e, t)
        BY ONLY <1>3, <4>2, SameReadKeeps
      <4>4. t.rxQueue \in Nat
        BY <1>3, <4>2 DEF SameRead
      <4>5. Dir(r, pushed[f], w, t, g, wf)
        BY ONLY <1>3, <3>2, <3>3, <4>3, <4>4, DirSame
      <4> QED
        BY <2>3, <3>b, <4>1, <4>2, <4>3, <4>5
    <3>5. CASE p.type # "ACK"
      <4>1. t = ProcessControlPacket(s, e, p) /\ p.type \notin {"DATA", "ACK"}
        BY <1>7, <2>5, <3>5 DEF IsData
      <4>2. Keep(e, s, t)
        BY ONLY e \in End, <1>1, <1>3, <1>6, <4>1, KeepControl
      <4>3. StreamOK(e, t)
        BY ONLY e \in End, <1>1, <1>3, <1>6, <4>1, ControlKeeps
      <4>4. t.rxQueue \in Nat
        BY <4>3, StreamFields DEF StreamOK, Core
      <4>5. SameSend(s, t) /\ SameRecv(s, t) /\ Settled(e, t) /\ SameRecv(r, r)
        BY <1>3, <4>2, KeepSelf DEF Keep
      <4>6. Dir(r, pushed[f], w, t, g, wf)
        BY ONLY <1>3, <3>2, <3>3, <4>4, <4>5, DirSame
      <4>7. Dir(s, P, wf, r, got[f], w)
        BY ONLY <1>2, <1>3, <1>4, DirDropAck
      <4>8. Dir(t, P, wf, r, got[f], w)
        BY ONLY <1>3, <4>5, <4>7, DirSame
      <4>9. Moves(a, b, MaxPush[e])
        <5>1. PICK k : k = View(s, P, wf, r, got[f], w)
          OBVIOUS
        <5>2. k = View(s, P, wf, r, got[f], Tail(we)) /\ ~Acks(we[1])
          BY <1>2, <1>5, <4>1, <5>1 DEF Acks
        <5>3. k = a
          BY ONLY <1>3, <1>4, <1>a, <5>2, ViewDropAck
        <5>4. b = k
          BY ONLY <1>a, <4>5, <5>1, ViewSame
        <5> QED
          BY ONLY <5>3, <5>4, Stutters
      <4> QED
        BY <3>b, <4>5, <4>6, <4>8, <4>9
    <3> QED
      BY <3>4, <3>5
  <2> QED
    BY <2>4, <2>5
<1>13. /\ Moves(View(st[e], pushed[e], wire[f], st[f], got[f], wire[e]),
                View(t, pushed[e], wire[f], st[f], got[f], w), MaxPush[e])
       /\ Moves(View(st[f], pushed[f], wire[e], st[e], got[e], wire[f]),
                View(st[f], pushed[f], w, t, g, wire[f]), MaxPush[f])
  BY ONLY <1>2, <1>a, <1>12
<1> QED
  BY <1>1, <1>2, <1>4, <1>9, <1>12, <1>13, TakenOrder

LEMMA PushOrder ==
    ASSUME Inv, OrderInv, ~CanBlock, NEW e \in End, PushBytes(e) PROVE OrderInv' /\ Simulates
<1>1. PICK f : f = Peer(e)
  OBVIOUS
<1>2. PICK s, r, we, wf, g, P : /\ s = st[e] /\ r = st[f] /\ we = wire[e] /\ wf = wire[f]
                                /\ g = got[e] /\ P = pushed[e]
  OBVIOUS
<1>3. /\ StreamOK(e, s) /\ Core(e, s) /\ s \in Stream(e) /\ CtrlFirst(s) /\ Settled(e, s)
      /\ s.rxQueue \in Nat /\ r.rxQueue \in Nat /\ P \in Nat /\ epoch[e] = 1
      /\ Dir(s, P, wf, r, got[f], we) /\ Dir(r, pushed[f], we, s, g, wf)
      /\ got = [got EXCEPT ![e] = g] /\ wire = [x \in End |-> IF x = e THEN we ELSE wf]
  BY <1>1, <1>2, OrderParts
<1>4. PICK pkt : pkt = [type |-> "DATA", seq |-> s.txSeqNum, ack |-> 0, pay |-> <<1, P>>]
  OBVIOUS
<1>5. PICK q : q = Append(s.txQueue, pkt)
  OBVIOUS
<1>6. PICK u : u = [s EXCEPT !.txFree = s.txFree - 1, !.txSeqNum = (s.txSeqNum + 1) % 8,
                             !.txQueue = q, !.sink = s.sink /\ s.txFree > 1]
  OBVIOUS
<1>7. PICK t : t = Arm(u, "SEND")
  OBVIOUS
<1>8. /\ s.txFree > 0 /\ P < MaxPush[e] /\ st' = [st EXCEPT ![e] = t]
      /\ pushed' = [pushed EXCEPT ![e] = @ + 1] /\ UNCHANGED <<wire, epoch, got>>
  BY <1>2, <1>3, <1>4, <1>5, <1>6, <1>7 DEF PushBytes
<1>9. /\ s.txQueue \in Seq(Item) /\ s.txSeqNum \in 0..7 /\ s.txFree \in Nat /\ s.win \in {1, 2, 4}
      /\ s.rxFree \in Nat /\ InUse(s) \in Nat
  BY <1>3, StreamFields, DataInStream
<1>10. pkt \in DataPacket /\ pkt \in Item /\ pkt.pay = <<1, P>> /\ pkt.seq = s.txSeqNum
  BY <1>3, <1>4, <1>9 DEF DataPacket, Item
<1>11. IsNth(pkt, P)
  BY <1>3, <1>10 DEF IsNth, Dir, SendOrder
<1>12. PICK D, x, y : D = Waits(s) /\ x = Len(s.txSent) /\ y = Len(D)
  OBVIOUS
<1>13. /\ D \in Seq(DataPacket) /\ x \in Nat /\ y \in Nat /\ Len(Unacked(s)) = x + y
       /\ DataIn(s.txQueue) = y
       /\ s.txQueue = D \/ s.txQueue = <<CtrlRef>> \o D
  BY <1>3, <1>12, WaitsData
<1>14. Len(Unacked(s)) < Win
  <2>1. ~NoPackets(s)
    BY <1>8, <1>9 DEF NoPackets
  <2>2. s.txFree + InUse(s) = s.win /\ s.rxFree + s.rxQueue = s.win
    BY <1>3, <2>1 DEF Core, Buffers, AllPackets
  <2>3. s.win = Win
    <3>1. PICK a, b, c : a = s.rxFree /\ b = s.rxQueue /\ c = s.win
      OBVIOUS
    <3>2. a \in Nat /\ b \in Nat /\ c \in {1, 2, 4} /\ a + b = c
      BY ONLY <1>3, <1>9, <2>2, <3>1
    <3>3. ~(a = 0 /\ b = 0)
      BY ONLY <3>2
    <3>4. ~Unset(s)
      BY ONLY <3>1, <3>3 DEF Unset
    <3> QED
      BY <1>3, <3>4 DEF Settled
  <2>4. s.txCurrent = << >>
    BY <1>3 DEF StreamOK, Scheduled
  <2>5. DataIn(<< >>) = 0
    <3>1. << >> \in Seq(DataPacket) /\ Len(<< >>) = 0
      OBVIOUS
    <3> QED
      BY <3>1, DataQueue
  <2>6. InUse(s) = y + 0 + x
    BY <1>12, <1>13, <2>4, <2>5 DEF InUse
  <2> QED
    BY ONLY <1>8, <1>9, <1>13, <2>2, <2>3, <2>6
<1>15. /\ t.txSent = s.txSent /\ t.txQueue = q /\ t.txSeqNum = (s.txSeqNum + 1) % 8
       /\ SameRead(s, t)
  <2>1. /\ u.txSent = s.txSent /\ u.txQueue = q /\ u.txSeqNum = (s.txSeqNum + 1) % 8
        /\ SameRead(s, u) /\ u.alarms = s.alarms
    BY ONLY <1>3, <1>6 DEF Stream, SameRead
  <2>2. /\ t.txSent = u.txSent /\ t.txQueue = u.txQueue /\ t.txSeqNum = u.txSeqNum
        /\ SameRead(u, t)
    BY ONLY <1>3, <1>6, <1>7 DEF Arm, Stream, SameRead
  <2> QED
    BY ONLY <2>1, <2>2 DEF SameRead
<1>16. Waits(t) = Append(D, pkt)
  <2>1. PICK E : E = Append(D, pkt)
    OBVIOUS
  <2>2. E \in Seq(DataPacket)
    BY ONLY <1>10, <1>13, <2>1
  <2>3. q = E \/ q = <<CtrlRef>> \o E
    <3>1. CASE s.txQueue = D
      BY <1>5, <2>1, <3>1
    <3>2. CASE s.txQueue = <<CtrlRef>> \o D
      <4>1. D \in Seq(Item) /\ <<CtrlRef>> \in Seq(Item)
        BY ONLY <1>13 DEF Item
      <4>2. Append(<<CtrlRef>> \o D, pkt) = <<CtrlRef>> \o Append(D, pkt)
        BY ONLY <1>10, <4>1
      <4> QED
        BY <1>5, <2>1, <3>2, <4>2
    <3> QED
      BY <1>13, <3>1, <3>2
  <2>4. Waits(t) = E
    BY ONLY <1>15, <2>2, <2>3, WaitsOf
  <2> QED
    BY <2>1, <2>4
<1>17. Dir(t, P + 1, wf, r, got[f], we)
  BY ONLY <1>3, <1>10, <1>11, <1>12, <1>14, <1>15, <1>16, DirPushes
<1>18. SameRecv(s, t) /\ Settled(e, t)
  BY ONLY <1>3, <1>15, SameReadKeeps
<1>19. SameSend(r, r) /\ t.rxQueue \in Nat
  BY <1>3, <1>15, KeepSelf DEF Keep, SameRead
<1>20. Dir(r, pushed[f], we, t, g, wf)
  BY ONLY <1>3, <1>18, <1>19, DirSame
<1>21. /\ wire' = [x1 \in End |-> IF x1 = e THEN we ELSE wf] /\ epoch' = epoch
       /\ pushed' = [pushed EXCEPT ![e] = P + 1] /\ got' = [got EXCEPT ![e] = g]
  BY <1>2, <1>3, <1>8
<1>22. st' = [st EXCEPT ![e] = t]
  BY <1>8
<1>23. PICK a, b : a = View(s, P, wf, r, got[f], we) /\ b = View(t, P + 1, wf, r, got[f], we)
  OBVIOUS
<1>24. Pushing(a, b, MaxPush[e])
  <2>1. PICK Q, M : Q = P + 1 /\ M = MaxPush[e]
    OBVIOUS
  <2>2. b = View(t, Q, wf, r, got[f], we) /\ P < M /\ Waits(t) = Append(Waits(s), pkt)
    BY <1>8, <1>12, <1>16, <1>23, <2>1
  <2>3. Pushing(a, b, M)
    BY ONLY <1>3, <1>10, <1>14, <1>15, <1>23, <2>1, <2>2, ViewPushes, SMTT(30)
  <2> QED
    BY <2>1, <2>3
<1>25. Moves(View(s, P, wf, r, got[f], we), View(t, P + 1, wf, r, got[f], we), MaxPush[e])
  BY ONLY <1>23, <1>24, Zenon DEF Moves
<1>26. Moves(View(r, pushed[f], we, s, g, wf), View(r, pushed[f], we, t, g, wf), MaxPush[f])
  <2>1. View(r, pushed[f], we, t, g, wf) = View(r, pushed[f], we, s, g, wf)
    BY ONLY <1>18, <1>19, ViewSame
  <2> QED
    BY ONLY <2>1, Stutters
<1> QED
  BY ONLY Inv, OrderInv, e \in End, <1>1, <1>2, <1>17, <1>18, <1>20, <1>21, <1>22, <1>25, <1>26,
          OrderStep

LEMMA PullOrder ==
    ASSUME Inv, OrderInv, NEW e \in End, PullBytes(e) PROVE OrderInv' /\ Simulates
<1>1. PICK f : f = Peer(e)
  OBVIOUS
<1>2. PICK s, r, we, wf, g, P : /\ s = st[e] /\ r = st[f] /\ we = wire[e] /\ wf = wire[f]
                                /\ g = got[e] /\ P = pushed[e]
  OBVIOUS
<1>3. /\ s \in Stream(e) /\ Settled(e, s) /\ r.rxQueue \in Nat
      /\ Dir(s, P, wf, r, got[f], we) /\ Dir(r, pushed[f], we, s, g, wf)
      /\ got = [got EXCEPT ![e] = g] /\ pushed = [pushed EXCEPT ![e] = P]
      /\ wire = [x \in End |-> IF x = e THEN we ELSE wf]
  BY <1>1, <1>2, OrderParts
<1>4. PICK t : t = [s EXCEPT !.rxQueue = s.rxQueue - 1, !.rxFree = s.rxFree + 1,
                             !.source = s.source /\ s.rxQueue > 1]
  OBVIOUS
<1>5. s.rxQueue > 0 /\ st' = [st EXCEPT ![e] = t] /\ UNCHANGED <<wire, epoch, pushed, got>>
  BY <1>2, <1>4 DEF PullBytes
<1>6. s.rxQueue \in Nat /\ s.rxFree \in Nat
  BY <1>3, StreamFields
<1>7. /\ t.txSent = s.txSent /\ t.txQueue = s.txQueue /\ t.txSeqNum = s.txSeqNum
      /\ t.expectedSeq = s.expectedSeq /\ t.currentTxAck = s.currentTxAck /\ t.win = s.win
      /\ t.rxQueue = s.rxQueue - 1 /\ t.rxFree = s.rxFree + 1
  BY ONLY <1>3, <1>4 DEF Stream
<1>8. SameSend(s, t)
  BY <1>7, Zenon DEF SameSend, Waits
<1>9. ~Unset(s) /\ ~Unset(t) /\ t.rxQueue <= s.rxQueue /\ t.rxQueue \in Nat
  BY <1>5, <1>6, <1>7 DEF Unset
<1>10. Settled(e, t)
  BY <1>3, <1>7, <1>9 DEF Settled
<1>11. SameRecv(r, r)
  BY <1>3, KeepSelf DEF Keep
<1>12. Dir(t, P, wf, r, got[f], we)
  BY ONLY <1>3, <1>8, <1>11, DirSame
<1>13. Dir(r, pushed[f], we, t, g, wf)
  <2>1. RecvOrder(s, g)
    BY <1>3 DEF Dir
  <2>2. Len(g) \in Nat
    BY <2>1, LenProperties DEF RecvOrder
  <2>3. t.rxQueue <= Len(g)
    BY <1>6, <1>9, <2>1, <2>2 DEF RecvOrder
  <2>4. RecvOrder(t, g)
    BY ONLY <1>7, <1>9, <2>1, <2>3, Zenon DEF RecvOrder
  <2> QED
    BY <1>3, <2>4, Zenon DEF Dir
<1>14. /\ wire' = [x \in End |-> IF x = e THEN we ELSE wf] /\ epoch' = epoch
       /\ pushed' = [pushed EXCEPT ![e] = P] /\ got' = [got EXCEPT ![e] = g]
       /\ st' = [st EXCEPT ![e] = t]
  BY <1>3, <1>5
<1>15. Moves(View(s, P, wf, r, got[f], we), View(t, P, wf, r, got[f], we), MaxPush[e])
  <2>1. View(t, P, wf, r, got[f], we) = View(s, P, wf, r, got[f], we)
    BY ONLY <1>8, <1>11, ViewSame
  <2> QED
    BY ONLY <2>1, Stutters
<1>16. PICK a, b : a = View(r, pushed[f], we, s, g, wf) /\ b = View(r, pushed[f], we, t, g, wf)
  OBVIOUS
<1>17. Pulling(a, b)
  <2>1. Len(g) \in Nat
    BY <1>3, LenProperties DEF Dir, RecvOrder
  <2> QED
    BY ONLY <1>6, <1>7, <1>9, <1>16, <2>1, ViewPulls
<1>18. Moves(View(r, pushed[f], we, s, g, wf), View(r, pushed[f], we, t, g, wf), MaxPush[f])
  BY ONLY <1>16, <1>17, Zenon DEF Moves
<1> QED
  BY ONLY Inv, OrderInv, e \in End, <1>1, <1>2, <1>10, <1>12, <1>13, <1>14, <1>15, <1>18, OrderStep

LEMMA ClosedSame ==
    ASSUME NEW e, NEW s \in Stream(e), NEW l, NEW t, t = ClosedAs(s, l)
    PROVE  Keep(e, s, t) /\ t.rxQueue \in Nat
<1>1. s.rxQueue \in Nat
  BY StreamFields
<1>2. PICK c : c = HowClosed(l)
  OBVIOUS
<1>3. t = [s EXCEPT !.link = l, !.close = c]
  BY <1>2 DEF ClosedAs
<1>4. SameFields(s, t) /\ t.txQueue = s.txQueue
  BY <1>3 DEF Stream, SameFields
<1>5. Keep(e, s, t)
  BY <1>1, <1>4, KeepQueue
<1> QED
  BY <1>1, <1>4, <1>5 DEF SameFields

LEMMA CloseOrder ==
    ASSUME Inv, OrderInv, NEW e \in End, Close(e) PROVE OrderInv' /\ Simulates
<1>1. PICK s : s = st[e]
  OBVIOUS
<1>2. PICK t, y : t = ClosedAs(s, "DEAD") /\ y = ClosedAs(s, "DYING")
  OBVIOUS
<1>3. PICK u : u = ScheduleLinkControlPacket(y)
  OBVIOUS
<1>4. PICK ver : st' = [st EXCEPT ![e] = IF ver < DISCONNECT_FEATURE \/ s.link = "DEAD"
                                         THEN t ELSE u]
  BY <1>1, <1>2, <1>3, Zenon DEF Close, ClosedAs, HowClosed
<1>5. StreamOK(e, s) /\ s \in Stream(e) /\ s.rxQueue \in Nat
  BY <1>1, StreamFields DEF Inv, StreamOK, Core
<1>6. UNCHANGED <<wire, epoch, pushed, got>>
  BY DEF Close
<1>7. Keep(e, s, t) /\ t.rxQueue \in Nat /\ Keep(e, s, y) /\ y.rxQueue \in Nat
  BY ONLY <1>2, <1>5, ClosedSame
<1>8. StreamOK(e, y)
  BY ONLY <1>2, <1>5, ClosedKeeps
<1>9. Keep(e, y, u)
  BY <1>3, <1>8, KeepSchedule
<1>10. u.rxQueue \in Nat
  BY <1>3, <1>8, ScheduleKeeps, StreamFields DEF StreamOK, Core
<1>11. Keep(e, s, u)
  BY ONLY <1>5, <1>7, <1>9, <1>10, KeepTrans
<1>12. CASE st' = [st EXCEPT ![e] = t]
  BY <1>1, <1>6, <1>7, <1>12, QuietOrder
<1>13. CASE st' = [st EXCEPT ![e] = u]
  BY <1>1, <1>6, <1>10, <1>11, <1>13, QuietOrder
<1> QED
  BY <1>4, <1>12, <1>13

LEMMA CloseReturnsOrder ==
    ASSUME Inv, OrderInv, NEW e \in End, CloseReturns(e) PROVE OrderInv' /\ Simulates
<1>1. PICK s : s = st[e]
  OBVIOUS
<1>2. PICK y : y = IF s.link = "DEAD" THEN s ELSE Dead(s)
  OBVIOUS
<1>3. PICK t : t = [y EXCEPT !.close = "closed"]
  OBVIOUS
<1>4. /\ StreamOK(e, s) /\ st' = [st EXCEPT ![e] = t]
      /\ UNCHANGED <<wire, epoch, pushed, got>>
  BY <1>1, <1>2, <1>3 DEF Inv, CloseReturns
<1>5. s \in Stream(e) /\ s.rxQueue \in Nat
  BY <1>4, StreamFields DEF StreamOK, Core
<1>6. StreamOK(e, y) /\ y.link = "DEAD"
  BY <1>2, <1>4, DeadKeeps DEF StreamOK
<1>7. Keep(e, s, y)
  BY <1>2, <1>5, KeepDead, KeepSelf
<1>8. t = ClosedAs(y, "DEAD") /\ y \in Stream(e) /\ y.rxQueue \in Nat
  BY <1>3, <1>6, StreamFields DEF StreamOK, Core, Stream, ClosedAs, HowClosed
<1>9. Keep(e, y, t) /\ t.rxQueue \in Nat
  BY ONLY <1>8, ClosedSame
<1>10. Keep(e, s, t)
  BY ONLY <1>5, <1>7, <1>8, <1>9, KeepTrans
<1> QED
  BY <1>1, <1>4, <1>9, <1>10, QuietOrder

\* The first step of an end's second life is out of reach.
LEMMA NoReopen ==
    ASSUME OneLife, OrderInv, NEW e \in End PROVE ~Reopen(e)
<1>1. epoch[e] = 1 /\ MaxOpen[e] <= 1 /\ MaxOpen[e] \in Nat
  BY SLAPAssumption DEF OrderInv, OneLife
<1> QED
  BY <1>1 DEF Reopen

LEMMA NextOrder ==
    ASSUME OneLife, ~CanBlock, Inv, OrderInv, [Next]_vars PROVE OrderInv' /\ Simulates
<1>1. CASE Next
  <2>1. PICK e \in End : Step(e)
    BY <1>1 DEF Next
  <2>2. CASE \E a \in {"SEND", "RESEND", "ACK", "CONTROL"} : AlarmDue(e, a)
    BY <2>2, AlarmDueOrder
  <2>3. CASE AlarmTriggered(e)
    BY <2>3, SendDataOrder, ResendDataOrder, AckAlarmOrder, ResendControlOrder
       DEF AlarmTriggered
  <2>4. CASE ReadEventTriggered(e)
    BY <2>4, ReadOrder
  <2>5. CASE PushBytes(e)
    BY <2>5, PushOrder
  <2>6. CASE PullBytes(e)
    BY <2>6, PullOrder
  <2>7. CASE Close(e)
    BY <2>7, CloseOrder
  <2>8. CASE CloseReturns(e)
    BY <2>8, CloseReturnsOrder
  <2>9. CASE Lose(e)
    BY <2>9, LoseOrder
  <2> QED
    BY <2>1, <2>2, <2>3, <2>4, <2>5, <2>6, <2>7, <2>8, <2>9, NoReopen DEF Step
<1>2. CASE UNCHANGED vars
  <2>1. OrderInv'
    BY <1>2 DEF vars, OrderInv
  <2>2. PICK S, W, N, G : S = st' /\ W = wire' /\ N = pushed' /\ G = got'
    OBVIOUS
  <2>3. S = st /\ W = wire /\ N = pushed /\ G = got
    BY <1>2, <2>2 DEF vars
  <2>4. ASSUME NEW e \in End
        PROVE  Moves(View(st[e], pushed[e], wire[Peer(e)], st[Peer(e)], got[Peer(e)], wire[e]),
                     View(S[e], N[e], W[Peer(e)], S[Peer(e)], G[Peer(e)], W[e]), MaxPush[e])
    <3>1. View(S[e], N[e], W[Peer(e)], S[Peer(e)], G[Peer(e)], W[e])
          = View(st[e], pushed[e], wire[Peer(e)], st[Peer(e)], got[Peer(e)], wire[e])
      BY ONLY <2>3
    <3> QED
      BY ONLY <3>1, Stutters
  <2>5. Simulates
    BY ONLY <2>2, <2>4 DEF Simulates, ViewFrom
  <2> QED
    BY <2>1, <2>5
<1> QED
  BY <1>1, <1>2

-----------------------------------------------------------------------------
(* What the invariant says of the order of packets.                        *)

\* An end before its first packet.
Fresh(e, s) ==
    /\ s.txSent = << >> /\ Waits(s) = << >> /\ s.rxQueue = 0
    /\ s.txSeqNum = 0 /\ s.expectedSeq = 0 /\ s.currentTxAck = 0 /\ Settled(e, s)

LEMMA FreshDir ==
    ASSUME NEW e, NEW s, NEW f, NEW r, Fresh(e, s), Fresh(f, r)
    PROVE  Dir(s, 0, << >>, r, << >>, << >>)
<1>1. PICK E : E = << >>
  OBVIOUS
<1>2. Len(E) = 0 /\ E \o E = E /\ E \in Seq(Nat \X Nat)
  BY ONLY <1>1
<1>3. Unacked(s) = E /\ Waits(s) = E
  BY <1>1, <1>2 DEF Fresh, Unacked
<1>4. First(s, 0) = 0 /\ Sent(s, 0) = 0
  <2>1. Len(Unacked(s)) = 0 /\ Len(Waits(s)) = 0
    BY ONLY <1>2, <1>3, Zenon
  <2>2. First(s, 0) = 0 - 0 /\ Sent(s, 0) = 0 - 0
    BY ONLY <2>1, Zenon DEF First, Sent
  <2> QED
    BY ONLY <2>2
<1>5. Win \in {1, 2, 4} /\ 0 % 8 = 0
  BY ConfFacts DEF Win
<1>6. SendOrder(s, 0)
  BY <1>2, <1>3, <1>4, <1>5 DEF SendOrder, Fresh
<1>7. RecvOrder(r, E)
  BY <1>1, <1>2, <1>5 DEF RecvOrder, Fresh
<1>8. DataOrder(E, 0, 0) /\ AckOrder(E, 0, 0)
  BY ONLY <1>2 DEF DataOrder, AckOrder
<1>9. Dir(s, 0, E, r, E, E)
  BY ONLY <1>2, <1>4, <1>6, <1>7, <1>8 DEF Dir
<1> QED
  BY <1>1, <1>9

Starts ==
    /\ \A e \in End : Fresh(e, st[e])
    /\ wire = [e \in End |-> << >>] /\ epoch = [e \in End |-> 1]
    /\ pushed = [e \in End |-> 0] /\ got = [e \in End |-> << >>]

LEMMA StartOrder == ASSUME Starts PROVE OrderInv
<1>a. /\ \A e \in End : Fresh(e, st[e])
      /\ wire = [e \in End |-> << >>] /\ epoch = [e \in End |-> 1]
      /\ pushed = [e \in End |-> 0] /\ got = [e \in End |-> << >>]
  BY DEF Starts
<1>1. ASSUME NEW e \in End
      PROVE  /\ epoch[e] = 1 /\ Settled(e, st[e])
             /\ Dir(st[e], pushed[e], wire[Peer(e)], st[Peer(e)], got[Peer(e)], wire[e])
  <2>1. PICK f : f = Peer(e)
    OBVIOUS
  <2>2. f \in End
    BY <2>1, PeerFacts
  <2>3. pushed[e] = 0 /\ wire[f] = << >> /\ got[f] = << >> /\ wire[e] = << >> /\ epoch[e] = 1
    BY <1>a, <2>2
  <2>4. Fresh(e, st[e]) /\ Fresh(f, st[f])
    BY <1>a, <2>2
  <2>5. Dir(st[e], 0, << >>, st[f], << >>, << >>)
    BY ONLY <2>4, FreshDir
  <2> QED
    BY <2>1, <2>3, <2>4, <2>5 DEF Fresh
<1> QED
  BY <1>1, <1>a DEF OrderInv

LEMMA InitStarts == ASSUME Init PROVE Starts
<1>1. ASSUME NEW e \in End PROVE Fresh(e, st[e])
  <2>1. PICK n, t : n = NewStream(e) /\ t = ScheduleLinkControlPacket(n)
    OBVIOUS
  <2>2. /\ n \in Stream(e) /\ n.txQueue = << >> /\ n.txSent = << >> /\ n.rxQueue = 0
        /\ n.rxFree = 0 /\ n.win = MaxWindow[e]
    BY <2>1, NewFields
  <2>3. n.txSeqNum = 0 /\ n.expectedSeq = 0 /\ n.currentTxAck = 0
    BY <2>1 DEF NewStream
  <2>4. Waits(n) = << >> /\ Settled(e, n)
    BY <2>2, Zenon DEF Waits, Settled, Unset
  <2>5. StreamOK(e, n)
    BY <2>1, NewKeeps
  <2>6. Keep(e, n, t)
    BY <2>1, <2>5, KeepSchedule
  <2>7. t.rxQueue \in Nat
    BY <2>1, <2>5, ScheduleKeeps, StreamFields DEF StreamOK, Core
  <2>8. t.rxQueue = 0
    BY <2>2, <2>6, <2>7 DEF Keep, SameRecv
  <2>9. Fresh(e, t)
    BY <2>2, <2>3, <2>4, <2>6, <2>8 DEF Fresh, Keep, SameSend, SameRecv
  <2>10. st[e] = t
    BY <2>1 DEF Init
  <2> QED
    BY <2>9, <2>10
<1> QED
  BY <1>1 DEF Init, Starts

LEMMA InitActiveStarts == ASSUME InitActive PROVE Starts
<1>1. ASSUME NEW e \in End PROVE Fresh(e, st[e])
  <2>1. PICK n, c : n = NewStream(e) /\ c = AgreedConf
    OBVIOUS
  <2>2. st[e] = [n EXCEPT !.link = "ACTIVE", !.conf = c, !.win = c.win, !.size = c.size,
                          !.ver = c.ver, !.txFree = c.win, !.rxFree = c.win, !.sink = TRUE]
    BY <2>1 DEF InitActive
  <2>3. PICK t : t = st[e]
    OBVIOUS
  <2>4. /\ t.txSent = << >> /\ t.txQueue = << >> /\ t.rxQueue = 0 /\ t.win = c.win
        /\ t.txSeqNum = 0 /\ t.expectedSeq = 0 /\ t.currentTxAck = 0
    BY ONLY <2>1, <2>2, <2>3 DEF NewStream
  <2>5. Waits(t) = << >> /\ Settled(e, t)
    BY <2>1, <2>4, Zenon DEF Waits, Settled, Win
  <2> QED
    BY <2>3, <2>4, <2>5 DEF Fresh
<1> QED
  BY <1>1 DEF InitActive, Starts

\* The invariant of the order of packets holds of an established link and of
\* one that starts up, if the timer thread waits for room on the UART
\* (SLAPStream::TransmitToLink is never refused) and no end is reopened.
THEOREM OrderHolds == ASSUME OneLife, ~CanBlock PROVE Spec \/ SpecActive => []OrderInv
<1>1. Init \/ InitActive => OrderInv
  BY InitStarts, InitActiveStarts, StartOrder
<1>2. Inv /\ OrderInv /\ [Next]_vars => OrderInv'
  BY NextOrder
<1>3. Spec \/ SpecActive => []Inv
  BY InvHolds
<1> QED
  BY <1>1, <1>2, <1>3, PTL DEF Spec, SpecActive

\* ProcessDataPacket puts on m_rxQueue what the other end pushed, in order,
\* once and without a gap, whatever is lost, repeated or acknowledged late.
THEOREM OrderDelivered ==
    ASSUME OneLife, ~CanBlock PROVE Spec \/ SpecActive => []DeliveredInOrder
<1>1. OrderInv => DeliveredInOrder
  <2> SUFFICES ASSUME OrderInv, NEW e \in End, NEW i \in 1..Len(got[e])
               PROVE  got[e][i] = <<got[e][1][1], i - 1>>
    BY DEF DeliveredInOrder
  <2>1. PICK f : f = Peer(e)
    OBVIOUS
  <2>2. f \in End /\ Peer(f) = e
    BY <2>1, PeerFacts
  <2>3. RecvOrder(st[e], got[e])
    BY <2>2 DEF OrderInv, Dir
  <2>4. PICK g : g = got[e]
    OBVIOUS
  <2>5. \A j \in 1..Len(g) : g[j] = <<1, j - 1>>
    BY <2>3, <2>4 DEF RecvOrder
  <2>6. Len(g) \in Nat
    BY <2>3, <2>4 DEF RecvOrder
  <2>7. 1 \in 1..Len(g)
    BY <2>4, <2>6
  <2>8. g[1][1] = 1
    BY ONLY <2>5, <2>7
  <2>9. g[i] = <<1, i - 1>>
    BY <2>4, <2>5
  <2> QED
    BY ONLY <2>4, <2>8, <2>9
<1> QED
  BY <1>1, OrderHolds, PTL

\* ProcessAckNum releases a packet only after the other end has put that very
\* packet on its m_rxQueue: an ack that is old, repeated or wrapped around
\* never frees a packet that would have to be sent again.
THEOREM OrderReleased ==
    ASSUME OneLife, ~CanBlock PROVE Spec \/ SpecActive => []ReleasedWasDelivered
<1>1. Inv /\ OrderInv => ReleasedWasDelivered
  <2> SUFFICES ASSUME Inv, OrderInv, NEW e \in End, NEW n \in 0..(Una(e) - 1)
               PROVE  \E i \in 1..Len(got[Peer(e)]) : got[Peer(e)][i] = <<epoch[e], n>>
    BY DEF ReleasedWasDelivered
  <2>1. PICK f, s, P, g : f = Peer(e) /\ s = st[e] /\ P = pushed[e] /\ g = got[f]
    OBVIOUS
  <2>2. /\ StreamOK(e, s) /\ s \in Stream(e) /\ CtrlFirst(s) /\ P \in Nat /\ epoch[e] = 1
        /\ Dir(s, P, wire[f], st[f], g, wire[e])
    BY <2>1, OrderParts
  <2>3. s.txCurrent = << >>
    BY <2>2 DEF StreamOK, Scheduled
  <2>4. DataIn(<< >>) = 0
    <3>1. << >> \in Seq(DataPacket) /\ Len(<< >>) = 0
      OBVIOUS
    <3> QED
      BY <3>1, DataQueue
  <2>5. PICK x, y : x = Len(s.txSent) /\ y = Len(Waits(s))
    OBVIOUS
  <2>6. x \in Nat /\ y \in Nat /\ Len(Unacked(s)) = x + y /\ DataIn(s.txQueue) = y
    BY <2>2, <2>5, WaitsData
  <2>7. Una(e) = P - y - 0 - x
    BY <2>1, <2>3, <2>4, <2>5, <2>6 DEF Una, Snt
  <2>8. First(s, P) = P - (x + y)
    BY <2>6 DEF First
  <2>9. PICK u, R : u = First(s, P) /\ R = Len(g)
    OBVIOUS
  <2>10. u \in Nat /\ R \in Nat /\ u <= R
    BY <2>2, <2>9, DirNumbers
  <2>11. Una(e) = u
    BY ONLY <2>2, <2>6, <2>7, <2>8, <2>9
  <2>12. n + 1 \in 1..R /\ n \in Nat
    BY ONLY <2>10, <2>11, n \in 0..(Una(e) - 1)
  <2>13. \A j \in 1..R : g[j] = <<1, j - 1>>
    BY <2>2, <2>9 DEF Dir, RecvOrder
  <2>14. g[n + 1] = <<1, n>>
    BY ONLY <2>12, <2>13
  <2> QED
    BY <2>1, <2>2, <2>9, <2>12, <2>14
<1> QED
  BY <1>1, InvHolds, OrderHolds, PTL

-----------------------------------------------------------------------------
(* Each direction of the link implements the window protocol.              *)

\* The variables of SLAPWindow for the packets end e sends, as the instances
\* FromA and FromB define them.
Abstract(e) ==
    [nxt |-> pushed[e], una |-> Una(e), snt |-> Snt(e), data |-> DataWire(e),
     rcvd |-> [i \in 1..Len(got[Peer(e)]) |-> got[Peer(e)][i][2]],
     pulled |-> Len(got[Peer(e)]) - st[Peer(e)].rxQueue,
     exp |-> st[Peer(e)].expectedSeq, ack |-> st[Peer(e)].currentTxAck, acks |-> AckWire(e)]
Mapped == \A e \in End : Abstract(e) = ViewFrom(e)

\* The refinement mapping counts what is not acknowledged as the invariant does.
LEMMA AbstractIsView == ASSUME ~CanBlock, Inv, OrderInv PROVE Mapped
<1> SUFFICES ASSUME NEW e \in End PROVE Abstract(e) = ViewFrom(e)
  BY DEF Mapped
<1>1. PICK f, s, P, w, r, g, v : /\ f = Peer(e) /\ s = st[e] /\ P = pushed[e] /\ w = wire[f]
                                 /\ r = st[f] /\ g = got[f] /\ v = wire[e]
  OBVIOUS
<1>2. StreamOK(e, s) /\ s \in Stream(e) /\ CtrlFirst(s) /\ P \in Nat
  <2>1. StreamOK(e, st[e]) /\ st[e] \in Stream(e) /\ CtrlFirst(st[e]) /\ pushed[e] \in Nat
    BY ONLY Inv, OrderInv, e \in End, <1>1, OrderParts
  <2> QED
    BY ONLY <1>1, <2>1
<1>3. s.txCurrent = << >>
  BY <1>2 DEF StreamOK, Scheduled
<1>4. DataIn(<< >>) = 0
  <2>1. << >> \in Seq(DataPacket) /\ Len(<< >>) = 0
    OBVIOUS
  <2> QED
    BY <2>1, DataQueue
<1>5. PICK x, y : x = Len(s.txSent) /\ y = Len(Waits(s))
  OBVIOUS
<1>6. x \in Nat /\ y \in Nat /\ Len(Unacked(s)) = x + y /\ DataIn(s.txQueue) = y
  BY <1>2, <1>5, WaitsData
<1>7. Una(e) = P - y - 0 - x /\ Snt(e) = P - y - 0
  BY <1>1, <1>3, <1>4, <1>5, <1>6 DEF Una, Snt
<1>8. First(s, P) = P - (x + y) /\ Sent(s, P) = P - y
  BY <1>5, <1>6 DEF First, Sent
<1>9. Una(e) = First(s, P) /\ Snt(e) = Sent(s, P)
  BY ONLY <1>2, <1>6, <1>7, <1>8
<1>10. DataWire(e) = DataOf(w)
  BY <1>1, Zenon DEF DataWire, DataOf, Datas
<1>11. AckWire(e) = AcksOf(v, Una(e))
  BY <1>1, Zenon DEF AckWire, AcksOf, Infos, Upto, Names
<1>12. Abstract(e) = View(s, P, w, r, g, v)
  BY ONLY <1>1, <1>9, <1>10, <1>11, Zenon DEF Abstract, View, Pays
<1> QED
  BY <1>1, <1>12 DEF ViewFrom

\* Sending and Accepting, field by field.
LEMMA SendingFields ==
    ASSUME NEW a, NEW b, NEW lo, Sending(a, b, lo)
    PROVE  /\ Len(a.data) + (a.nxt - lo) <= 2 * WireCap
           /\ b.nxt = a.nxt /\ b.una = a.una /\ b.snt = a.nxt
           /\ b.data = a.data \o Run(lo, a.nxt - lo) /\ b.rcvd = a.rcvd /\ b.pulled = a.pulled
           /\ b.exp = a.exp /\ b.ack = a.ack /\ b.acks = a.acks
BY DEF Sending

LEMMA AcceptingFields ==
    ASSUME NEW a, NEW b, Accepting(a, b)
    PROVE  /\ a.data # << >> /\ Head(a.data).seq = a.exp /\ Win - (Len(a.rcvd) - a.pulled) > 0
           /\ b.nxt = a.nxt /\ b.una = a.una /\ b.snt = a.snt /\ b.data = Tail(a.data)
           /\ b.rcvd = Append(a.rcvd, Head(a.data).n) /\ b.pulled = a.pulled
           /\ b.exp = (a.exp + 1) % 8 /\ b.acks = a.acks
           /\ b.ack = IF Newer(a.ack, Head(a.data).seq) THEN a.ack ELSE (Head(a.data).seq + 1) % 8
BY DEF Accepting

\* Both initial states look like the initial state of SLAPWindow.
LEMMA StartView ==
    ASSUME Starts, NEW e \in End
    PROVE  ViewFrom(e) = [nxt |-> 0, una |-> 0, snt |-> 0, data |-> << >>, rcvd |-> << >>,
                          pulled |-> 0, exp |-> 0, ack |-> 0, acks |-> << >>]
<1>1. PICK f, s, r, E : f = Peer(e) /\ s = st[e] /\ r = st[f] /\ E = << >>
  OBVIOUS
<1>2. f \in End
  BY <1>1, PeerFacts
<1>3. pushed[e] = 0 /\ wire[f] = E /\ got[f] = E /\ wire[e] = E
  BY <1>1, <1>2 DEF Starts
<1>4. /\ s.txSent = E /\ Waits(s) = E /\ r.rxQueue = 0 /\ r.expectedSeq = 0 /\ r.currentTxAck = 0
  BY <1>1, <1>2 DEF Starts, Fresh
<1>5. Len(E) = 0 /\ E \o E = E
  BY ONLY <1>1
<1>6. First(s, 0) = 0 /\ Sent(s, 0) = 0
  <2>1. Len(Unacked(s)) = 0 /\ Len(Waits(s)) = 0
    BY ONLY <1>4, <1>5, Zenon DEF Unacked
  <2>2. First(s, 0) = 0 - 0 /\ Sent(s, 0) = 0 - 0
    BY ONLY <2>1, Zenon DEF First, Sent
  <2> QED
    BY ONLY <2>2
<1>7. \A T : OfType(E, T) = E
  BY ONLY <1>1, OfTypeEmpty
<1>8. DataOf(E) = E /\ AcksOf(E, 0) = E /\ Pays(E) = E
  <2>1. Datas(E) = E /\ Infos(E, 0) = E /\ Pays(E) = E
    BY ONLY <1>1 DEF Datas, Infos, Pays
  <2> QED
    BY ONLY <1>7, <2>1, Zenon DEF DataOf, AcksOf
<1>9. Len(E) - r.rxQueue = 0
  BY ONLY <1>4, <1>5
<1>10. View(s, 0, E, r, E, E) = [nxt |-> 0, una |-> 0, snt |-> 0, data |-> E, rcvd |-> E,
                                pulled |-> 0, exp |-> 0, ack |-> 0, acks |-> E]
  BY ONLY <1>4, <1>6, <1>8, <1>9, Zenon DEF View
<1> QED
  BY ONLY <1>1, <1>3, <1>10, Zenon DEF ViewFrom

\* What the stream of end A writes goes through the window protocol: whatever
\* alarms, losses and control packets come in between, every step of the link
\* is a step of SLAPWindow for the packets from A, or changes nothing there.
THEOREM OrderWindowA == ASSUME OneLife, ~CanBlock PROVE Spec \/ SpecActive => WindowFromA
<1>1. (Init \/ InitActive) /\ Mapped => FromA!Init
  <2> SUFFICES ASSUME Init \/ InitActive, Mapped PROVE FromA!Init
    OBVIOUS
  <2>1. Starts
    BY InitStarts, InitActiveStarts
  <2>2. "A" \in End /\ Peer("A") = "B"
    BY DEF End, Peer
  <2>3. Abstract("A") = [nxt |-> 0, una |-> 0, snt |-> 0, data |-> << >>, rcvd |-> << >>,
                         pulled |-> 0, exp |-> 0, ack |-> 0, acks |-> << >>]
    BY <2>1, <2>2, StartView DEF Mapped
  <2> QED
    BY ONLY <2>2, <2>3 DEF Abstract, FromA!Init
<1>2. Inv /\ OrderInv /\ Mapped /\ Mapped' /\ [Next]_vars => [FromA!Next]_FromA!vars
  <2> SUFFICES ASSUME Inv, OrderInv, Mapped, Mapped', [Next]_vars
               PROVE  [FromA!Next]_FromA!vars
    OBVIOUS
  <2>1. "A" \in End /\ Peer("A") = "B"
    BY DEF End, Peer
  <2>2. PICK a, b, M : a = Abstract("A") /\ b = Abstract("A")' /\ M = MaxPush["A"]
    OBVIOUS
  <2>3. Moves(a, b, M)
    <3>1. Simulates
      BY NextOrder
    <3>2. Moves(ViewFrom("A"), ViewFrom("A")', M)
      BY <2>1, <2>2, <3>1 DEF Simulates
    <3>3. a = ViewFrom("A") /\ b = ViewFrom("A")'
      BY <2>1, <2>2 DEF Mapped
    <3> QED
      BY ONLY <3>2, <3>3
  <2>4. a = [nxt |-> pushed["A"], una |-> Una("A"), snt |-> Snt("A"), data |-> DataWire("A"),
             rcvd |-> [i \in 1..Len(got["B"]) |-> got["B"][i][2]],
             pulled |-> Len(got["B"]) - st["B"].rxQueue, exp |-> st["B"].expectedSeq,
             ack |-> st["B"].currentTxAck, acks |-> AckWire("A")]
    BY ONLY <2>1, <2>2 DEF Abstract
  <2>5. b = [nxt |-> pushed["A"]', una |-> Una("A")', snt |-> Snt("A")', data |-> DataWire("A")',
             rcvd |-> [i \in 1..Len(got["B"]') |-> got["B"][i][2]'],
             pulled |-> (Len(got["B"]) - st["B"].rxQueue)', exp |-> st["B"].expectedSeq',
             ack |-> st["B"].currentTxAck', acks |-> AckWire("A")']
    BY ONLY <2>1, <2>2 DEF Abstract
  <2>a. /\ a.nxt = pushed["A"] /\ a.una = Una("A") /\ a.snt = Snt("A") /\ a.data = DataWire("A")
        /\ a.rcvd = [i \in 1..Len(got["B"]) |-> got["B"][i][2]]
        /\ a.pulled = Len(got["B"]) - st["B"].rxQueue /\ a.exp = st["B"].expectedSeq
        /\ a.ack = st["B"].currentTxAck /\ a.acks = AckWire("A")
    BY ONLY <2>4
  <2>b. /\ b.nxt = pushed["A"]' /\ b.una = Una("A")' /\ b.snt = Snt("A")' /\ b.data = DataWire("A")'
        /\ b.rcvd = [i \in 1..Len(got["B"]) |-> got["B"][i][2]]'
        /\ b.pulled = (Len(got["B"]) - st["B"].rxQueue)' /\ b.exp = st["B"].expectedSeq'
        /\ b.ack = st["B"].currentTxAck' /\ b.acks = AckWire("A")'
    BY ONLY <2>5
  <2>6. CASE b = a
    BY ONLY <2>4, <2>5, <2>6 DEF FromA!vars, FromA!senderVars, FromA!receiverVars
  <2>7. CASE Pushing(a, b, M)
    <3>1. FromA!PushBytes
      <4>1. /\ a.nxt - a.una < Win /\ a.nxt < M /\ b.nxt = a.nxt + 1
            /\ b.una = a.una /\ b.snt = a.snt /\ b.data = a.data /\ b.rcvd = a.rcvd
            /\ b.pulled = a.pulled /\ b.exp = a.exp /\ b.ack = a.ack /\ b.acks = a.acks
        BY ONLY <2>4, <2>7 DEF Pushing
      <4> QED
        BY ONLY <2>2, <2>a, <2>b, <4>1, Zenon DEF Win, FromA!PushBytes, FromA!receiverVars
    <3> QED
      BY ONLY <3>1 DEF FromA!Next
  <2>8. CASE Releasing(a, b)
    <3>1. FromA!ReceiveAck
      BY ONLY <2>4, <2>5, <2>8, ZenonT(60)
         DEF Releasing, Newer, Win, FromA!ReceiveAck, FromA!ProcessAckNum, FromA!SEQ_GT,
             FromA!receiverVars
    <3> QED
      BY ONLY <3>1 DEF FromA!Next
  <2>9. CASE Accepting(a, b)
    <3>1. FromA!ReceiveData
      <4>1. /\ a.data # << >> /\ Head(a.data).seq = a.exp /\ Win - (Len(a.rcvd) - a.pulled) > 0
            /\ b.nxt = a.nxt /\ b.una = a.una /\ b.snt = a.snt /\ b.data = Tail(a.data)
            /\ b.rcvd = Append(a.rcvd, Head(a.data).n) /\ b.pulled = a.pulled
            /\ b.exp = (a.exp + 1) % 8 /\ b.acks = a.acks
            /\ b.ack = IF Newer(a.ack, Head(a.data).seq) THEN a.ack ELSE (Head(a.data).seq + 1) % 8
        BY ONLY <2>9, AcceptingFields
      <4>2. FromA!SEQ_GT(st["B"].currentTxAck, Head(DataWire("A")).seq)
            <=> Newer(a.ack, Head(a.data).seq)
        BY ONLY <2>a, Zenon DEF Newer, Win, FromA!SEQ_GT
      <4>3. FromA!RxFree > 0
        BY ONLY <2>a, <4>1, Zenon DEF Win, FromA!RxFree
      <4>4. FromA!ReceiveExpected(Head(DataWire("A")))
        BY ONLY <2>a, <2>b, <4>1, <4>2, <4>3, Zenon DEF FromA!ReceiveExpected, FromA!ProcessDataSeqNum
      <4> QED
        BY ONLY <2>a, <2>b, <4>1, <4>4, ZenonT(60) DEF FromA!ReceiveData, FromA!senderVars
    <3> QED
      BY ONLY <3>1 DEF FromA!Next
  <2>10. CASE a.snt < a.nxt /\ Sending(a, b, a.snt)
    <3>1. FromA!TransmitToLink
      <4>1. /\ Len(a.data) + (a.nxt - a.snt) <= 2 * WireCap
            /\ b.nxt = a.nxt /\ b.una = a.una /\ b.snt = a.nxt
            /\ b.data = a.data \o Run(a.snt, a.nxt - a.snt) /\ b.rcvd = a.rcvd /\ b.pulled = a.pulled
            /\ b.exp = a.exp /\ b.ack = a.ack /\ b.acks = a.acks
        BY ONLY <2>10, SendingFields
      <4>2. Run(Snt("A"), pushed["A"] - Snt("A"))
            = [i \in 1..(pushed["A"] - Snt("A")) |-> FromA!Packet(Snt("A") + i - 1)]
        BY ONLY Zenon DEF Run, FromA!Packet
      <4>3. FromA!Deliver(Snt("A"))
        BY ONLY <2>a, <2>b, <4>1, <4>2, Zenon DEF FromA!Deliver, FromA!receiverVars
      <4> QED
        BY ONLY <2>a, <2>10, <4>3, Zenon DEF FromA!TransmitToLink
    <3> QED
      BY ONLY <3>1 DEF FromA!Next
  <2>11. CASE a.una < a.snt /\ Sending(a, b, a.una)
    <3>1. FromA!ResendData
      <4>1. /\ Len(a.data) + (a.nxt - a.una) <= 2 * WireCap
            /\ b.nxt = a.nxt /\ b.una = a.una /\ b.snt = a.nxt
            /\ b.data = a.data \o Run(a.una, a.nxt - a.una) /\ b.rcvd = a.rcvd /\ b.pulled = a.pulled
            /\ b.exp = a.exp /\ b.ack = a.ack /\ b.acks = a.acks
        BY ONLY <2>11, SendingFields
      <4>2. Run(Una("A"), pushed["A"] - Una("A"))
            = [i \in 1..(pushed["A"] - Una("A")) |-> FromA!Packet(Una("A") + i - 1)]
        BY ONLY Zenon DEF Run, FromA!Packet
      <4>3. FromA!Deliver(Una("A"))
        BY ONLY <2>a, <2>b, <4>1, <4>2, Zenon DEF FromA!Deliver, FromA!receiverVars
      <4> QED
        BY ONLY <2>a, <2>11, <4>3, Zenon DEF FromA!ResendData
    <3> QED
      BY ONLY <3>1 DEF FromA!Next
  <2>12. CASE Acking(a, b)
    <3>1. \E k \in 1..(AgreedConf.win + 1) : FromA!SendAck(k)
      BY ONLY <2>4, <2>5, <2>12, ZenonT(60)
         DEF Acking, Win, FromA!SendAck, FromA!senderVars, FromA!receiverVars
    <3> QED
      BY ONLY <3>1 DEF FromA!Next
  <2>13. CASE Pulling(a, b)
    <3>1. FromA!PullBytes
      BY ONLY <2>4, <2>5, <2>13 DEF Pulling, FromA!PullBytes, FromA!senderVars
    <3> QED
      BY ONLY <3>1 DEF FromA!Next
  <2>14. CASE Dropping(a, b)
    <3>1. FromA!LoseData
      BY ONLY <2>4, <2>5, <2>14, SMTT(30)
         DEF Dropping, FromA!LoseData, FromA!senderVars, FromA!receiverVars
    <3> QED
      BY ONLY <3>1 DEF FromA!Next
  <2>15. CASE AckDropping(a, b)
    <3>1. FromA!LoseAck
      BY ONLY <2>4, <2>5, <2>15, SMTT(30)
         DEF AckDropping, FromA!LoseAck, FromA!senderVars, FromA!receiverVars
    <3> QED
      BY ONLY <3>1 DEF FromA!Next
  <2> QED
    BY ONLY <2>3, <2>6, <2>7, <2>8, <2>9, <2>10, <2>11, <2>12, <2>13, <2>14, <2>15 DEF Moves
<1>3. Inv /\ OrderInv => Mapped
  BY AbstractIsView
<1>4. Spec \/ SpecActive => []Inv
  BY InvHolds
<1>5. Spec \/ SpecActive => []OrderInv
  BY OrderHolds
<1> QED
  BY <1>1, <1>2, <1>3, <1>4, <1>5, PTL DEF Spec, SpecActive, WindowFromA, FromA!Spec

\* What the stream of end B writes goes through the window protocol: whatever
\* alarms, losses and control packets come in between, every step of the link
\* is a step of SLAPWindow for the packets from B, or changes nothing there.
THEOREM OrderWindowB == ASSUME OneLife, ~CanBlock PROVE Spec \/ SpecActive => WindowFromB
<1>1. (Init \/ InitActive) /\ Mapped => FromB!Init
  <2> SUFFICES ASSUME Init \/ InitActive, Mapped PROVE FromB!Init
    OBVIOUS
  <2>1. Starts
    BY InitStarts, InitActiveStarts
  <2>2. "B" \in End /\ Peer("B") = "A"
    BY DEF End, Peer
  <2>3. Abstract("B") = [nxt |-> 0, una |-> 0, snt |-> 0, data |-> << >>, rcvd |-> << >>,
                         pulled |-> 0, exp |-> 0, ack |-> 0, acks |-> << >>]
    BY <2>1, <2>2, StartView DEF Mapped
  <2> QED
    BY ONLY <2>2, <2>3 DEF Abstract, FromB!Init
<1>2. Inv /\ OrderInv /\ Mapped /\ Mapped' /\ [Next]_vars => [FromB!Next]_FromB!vars
  <2> SUFFICES ASSUME Inv, OrderInv, Mapped, Mapped', [Next]_vars
               PROVE  [FromB!Next]_FromB!vars
    OBVIOUS
  <2>1. "B" \in End /\ Peer("B") = "A"
    BY DEF End, Peer
  <2>2. PICK a, b, M : a = Abstract("B") /\ b = Abstract("B")' /\ M = MaxPush["B"]
    OBVIOUS
  <2>3. Moves(a, b, M)
    <3>1. Simulates
      BY NextOrder
    <3>2. Moves(ViewFrom("B"), ViewFrom("B")', M)
      BY <2>1, <2>2, <3>1 DEF Simulates
    <3>3. a = ViewFrom("B") /\ b = ViewFrom("B")'
      BY <2>1, <2>2 DEF Mapped
    <3> QED
      BY ONLY <3>2, <3>3
  <2>4. a = [nxt |-> pushed["B"], una |-> Una("B"), snt |-> Snt("B"), data |-> DataWire("B"),
             rcvd |-> [i \in 1..Len(got["A"]) |-> got["A"][i][2]],
             pulled |-> Len(got["A"]) - st["A"].rxQueue, exp |-> st["A"].expectedSeq,
             ack |-> st["A"].currentTxAck, acks |-> AckWire("B")]
    BY ONLY <2>1, <2>2 DEF Abstract
  <2>5. b = [nxt |-> pushed["B"]', una |-> Una("B")', snt |-> Snt("B")', data |-> DataWire("B")',
             rcvd |-> [i \in 1..Len(got["A"]') |-> got["A"][i][2]'],
             pulled |-> (Len(got["A"]) - st["A"].rxQueue)', exp |-> st["A"].expectedSeq',
             ack |-> st["A"].currentTxAck', acks |-> AckWire("B")']
    BY ONLY <2>1, <2>2 DEF Abstract
  <2>a. /\ a.nxt = pushed["B"] /\ a.una = Una("B") /\ a.snt = Snt("B") /\ a.data = DataWire("B")
        /\ a.rcvd = [i \in 1..Len(got["A"]) |-> got["A"][i][2]]
        /\ a.pulled = Len(got["A"]) - st["A"].rxQueue /\ a.exp = st["A"].expectedSeq
        /\ a.ack = st["A"].currentTxAck /\ a.acks = AckWire("B")
    BY ONLY <2>4
  <2>b. /\ b.nxt = pushed["B"]' /\ b.una = Una("B")' /\ b.snt = Snt("B")' /\ b.data = DataWire("B")'
        /\ b.rcvd = [i \in 1..Len(got["A"]) |-> got["A"][i][2]]'
        /\ b.pulled = (Len(got["A"]) - st["A"].rxQueue)' /\ b.exp = st["A"].expectedSeq'
        /\ b.ack = st["A"].currentTxAck' /\ b.acks = AckWire("B")'
    BY ONLY <2>5
  <2>6. CASE b = a
    BY ONLY <2>4, <2>5, <2>6 DEF FromB!vars, FromB!senderVars, FromB!receiverVars
  <2>7. CASE Pushing(a, b, M)
    <3>1. FromB!PushBytes
      <4>1. /\ a.nxt - a.una < Win /\ a.nxt < M /\ b.nxt = a.nxt + 1
            /\ b.una = a.una /\ b.snt = a.snt /\ b.data = a.data /\ b.rcvd = a.rcvd
            /\ b.pulled = a.pulled /\ b.exp = a.exp /\ b.ack = a.ack /\ b.acks = a.acks
        BY ONLY <2>4, <2>7 DEF Pushing
      <4> QED
        BY ONLY <2>2, <2>a, <2>b, <4>1, Zenon DEF Win, FromB!PushBytes, FromB!receiverVars
    <3> QED
      BY ONLY <3>1 DEF FromB!Next
  <2>8. CASE Releasing(a, b)
    <3>1. FromB!ReceiveAck
      BY ONLY <2>4, <2>5, <2>8, ZenonT(60)
         DEF Releasing, Newer, Win, FromB!ReceiveAck, FromB!ProcessAckNum, FromB!SEQ_GT,
             FromB!receiverVars
    <3> QED
      BY ONLY <3>1 DEF FromB!Next
  <2>9. CASE Accepting(a, b)
    <3>1. FromB!ReceiveData
      <4>1. /\ a.data # << >> /\ Head(a.data).seq = a.exp /\ Win - (Len(a.rcvd) - a.pulled) > 0
            /\ b.nxt = a.nxt /\ b.una = a.una /\ b.snt = a.snt /\ b.data = Tail(a.data)
            /\ b.rcvd = Append(a.rcvd, Head(a.data).n) /\ b.pulled = a.pulled
            /\ b.exp = (a.exp + 1) % 8 /\ b.acks = a.acks
            /\ b.ack = IF Newer(a.ack, Head(a.data).seq) THEN a.ack ELSE (Head(a.data).seq + 1) % 8
        BY ONLY <2>9, AcceptingFields
      <4>2. FromB!SEQ_GT(st["A"].currentTxAck, Head(DataWire("B")).seq)
            <=> Newer(a.ack, Head(a.data).seq)
        BY ONLY <2>a, Zenon DEF Newer, Win, FromB!SEQ_GT
      <4>3. FromB!RxFree > 0
        BY ONLY <2>a, <4>1, Zenon DEF Win, FromB!RxFree
      <4>4. FromB!ReceiveExpected(Head(DataWire("B")))
        BY ONLY <2>a, <2>b, <4>1, <4>2, <4>3, Zenon DEF FromB!ReceiveExpected, FromB!ProcessDataSeqNum
      <4> QED
        BY ONLY <2>a, <2>b, <4>1, <4>4, Zenon DEF FromB!ReceiveData, FromB!senderVars
    <3> QED
      BY ONLY <3>1 DEF FromB!Next
  <2>10. CASE a.snt < a.nxt /\ Sending(a, b, a.snt)
    <3>1. FromB!TransmitToLink
      <4>1. /\ Len(a.data) + (a.nxt - a.snt) <= 2 * WireCap
            /\ b.nxt = a.nxt /\ b.una = a.una /\ b.snt = a.nxt
            /\ b.data = a.data \o Run(a.snt, a.nxt - a.snt) /\ b.rcvd = a.rcvd /\ b.pulled = a.pulled
            /\ b.exp = a.exp /\ b.ack = a.ack /\ b.acks = a.acks
        BY ONLY <2>10, SendingFields
      <4>2. Run(Snt("B"), pushed["B"] - Snt("B"))
            = [i \in 1..(pushed["B"] - Snt("B")) |-> FromB!Packet(Snt("B") + i - 1)]
        BY ONLY Zenon DEF Run, FromB!Packet
      <4>3. FromB!Deliver(Snt("B"))
        BY ONLY <2>a, <2>b, <4>1, <4>2, Zenon DEF FromB!Deliver, FromB!receiverVars
      <4> QED
        BY ONLY <2>a, <2>10, <4>3, Zenon DEF FromB!TransmitToLink
    <3> QED
      BY ONLY <3>1 DEF FromB!Next
  <2>11. CASE a.una < a.snt /\ Sending(a, b, a.una)
    <3>1. FromB!ResendData
      <4>1. /\ Len(a.data) + (a.nxt - a.una) <= 2 * WireCap
            /\ b.nxt = a.nxt /\ b.una = a.una /\ b.snt = a.nxt
            /\ b.data = a.data \o Run(a.una, a.nxt - a.una) /\ b.rcvd = a.rcvd /\ b.pulled = a.pulled
            /\ b.exp = a.exp /\ b.ack = a.ack /\ b.acks = a.acks
        BY ONLY <2>11, SendingFields
      <4>2. Run(Una("B"), pushed["B"] - Una("B"))
            = [i \in 1..(pushed["B"] - Una("B")) |-> FromB!Packet(Una("B") + i - 1)]
        BY ONLY Zenon DEF Run, FromB!Packet
      <4>3. FromB!Deliver(Una("B"))
        BY ONLY <2>a, <2>b, <4>1, <4>2, Zenon DEF FromB!Deliver, FromB!receiverVars
      <4> QED
        BY ONLY <2>a, <2>11, <4>3, Zenon DEF FromB!ResendData
    <3> QED
      BY ONLY <3>1 DEF FromB!Next
  <2>12. CASE Acking(a, b)
    <3>1. \E k \in 1..(AgreedConf.win + 1) : FromB!SendAck(k)
      BY ONLY <2>4, <2>5, <2>12
         DEF Acking, Win, FromB!SendAck, FromB!senderVars, FromB!receiverVars
    <3> QED
      BY ONLY <3>1 DEF FromB!Next
  <2>13. CASE Pulling(a, b)
    <3>1. FromB!PullBytes
      BY ONLY <2>4, <2>5, <2>13 DEF Pulling, FromB!PullBytes, FromB!senderVars
    <3> QED
      BY ONLY <3>1 DEF FromB!Next
  <2>14. CASE Dropping(a, b)
    <3>1. FromB!LoseData
      BY ONLY <2>4, <2>5, <2>14, SMTT(30)
         DEF Dropping, FromB!LoseData, FromB!senderVars, FromB!receiverVars
    <3> QED
      BY ONLY <3>1 DEF FromB!Next
  <2>15. CASE AckDropping(a, b)
    <3>1. FromB!LoseAck
      BY ONLY <2>4, <2>5, <2>15, SMTT(30)
         DEF AckDropping, FromB!LoseAck, FromB!senderVars, FromB!receiverVars
    <3> QED
      BY ONLY <3>1 DEF FromB!Next
  <2> QED
    BY ONLY <2>3, <2>6, <2>7, <2>8, <2>9, <2>10, <2>11, <2>12, <2>13, <2>14, <2>15 DEF Moves
<1>3. Inv /\ OrderInv => Mapped
  BY AbstractIsView
<1>4. Spec \/ SpecActive => []Inv
  BY InvHolds
<1>5. Spec \/ SpecActive => []OrderInv
  BY OrderHolds
<1> QED
  BY <1>1, <1>2, <1>3, <1>4, <1>5, PTL DEF Spec, SpecActive, WindowFromB, FromB!Spec

-----------------------------------------------------------------------------
(* Each direction of the link is a reliable stream.                        *)

\* What the users of the stream see of a step of the window protocol.
LEMMA MovesStream ==
    ASSUME NEW s, NEW P, NEW w, NEW r, NEW g, NEW v, NEW t, NEW Q, NEW y, NEW q, NEW h, NEW z,
           RecvOrder(r, g), RecvOrder(q, h), P \in Nat, Q \in Nat, Len(h) <= Q,
           NEW a, NEW b, a = View(s, P, w, r, g, v), b = View(t, Q, y, q, h, z),
           NEW M, Moves(a, b, M)
    PROVE  \/ (Q = P /\ Pays(h) = Pays(g))
           \/ (Q = P + 1 /\ Pays(h) = Pays(g))
           \/ (Q = P /\ Len(Pays(g)) < P /\ Pays(h) = Append(Pays(g), Len(Pays(g))))
<1>1. a.nxt = P /\ a.rcvd = Pays(g) /\ b.nxt = Q /\ b.rcvd = Pays(h)
  BY DEF View
<1>2. PICK n, u, l, d, p, x, c, k, m :
          a = [nxt |-> n, una |-> u, snt |-> l, data |-> d, rcvd |-> m, pulled |-> p, exp |-> x,
               ack |-> c, acks |-> k]
  BY Zenon DEF View
<1>3. CASE Pushing(a, b, M)
  <2>1. b.nxt = a.nxt + 1 /\ b.rcvd = a.rcvd
    BY ONLY <1>2, <1>3 DEF Pushing
  <2> QED
    BY <1>1, <2>1
<1>4. CASE Accepting(a, b)
  <2>1. b.nxt = a.nxt /\ b.rcvd = Append(a.rcvd, Head(a.data).n)
    BY ONLY <1>4, AcceptingFields
  <2>2. PICK X, Y, o, i : X = Pays(g) /\ Y = Pays(h) /\ o = Head(a.data).n /\ i = Len(X)
    OBVIOUS
  <2>3. g \in Seq(Nat \X Nat) /\ h \in Seq(Nat \X Nat) /\ \A j \in 1..Len(h) : h[j] = <<1, j - 1>>
    BY DEF RecvOrder
  <2>4. Len(g) \in Nat /\ Len(h) \in Nat
    BY ONLY <2>3, LenProperties
  <2>5. /\ Len(X) = Len(g) /\ X \in Seq({g[j][2] : j \in 1..Len(g)})
        /\ Len(Y) = Len(h) /\ \A j \in 1..Len(h) : Y[j] = h[j][2]
    BY ONLY <2>2, <2>4, PaysLen
  <2>6. Y = Append(X, o)
    BY <1>1, <2>1, <2>2
  <2>7. i \in Nat /\ Len(Y) = i + 1 /\ Y[i + 1] = o
    BY ONLY <2>2, <2>5, <2>6
  <2>8. i + 1 \in 1..Len(h)
    BY ONLY <2>5, <2>7
  <2>9. Y[i + 1] = i
    <3>1. h[i + 1] = <<1, i>>
      BY ONLY <2>3, <2>7, <2>8
    <3> QED
      BY ONLY <2>5, <2>8, <3>1
  <2>10. o = i
    BY ONLY <2>7, <2>9
  <2>11. i < P
    BY <1>1, <2>1, <2>5, <2>7
  <2> QED
    BY <1>1, <2>1, <2>2, <2>6, <2>10, <2>11
<1>5. CASE Sending(a, b, a.snt) \/ Sending(a, b, a.una)
  <2>1. b.nxt = a.nxt /\ b.rcvd = a.rcvd
    BY ONLY <1>5, SendingFields
  <2> QED
    BY <1>1, <2>1
<1>6. CASE b = a \/ Releasing(a, b) \/ Acking(a, b) \/ Pulling(a, b) \/ Dropping(a, b)
           \/ AckDropping(a, b)
  <2>1. b.nxt = a.nxt /\ b.rcvd = a.rcvd
    <3>1. CASE b = a
      BY ONLY <3>1
    <3>2. CASE Releasing(a, b)
      BY ONLY <3>2 DEF Releasing
    <3>3. CASE Acking(a, b)
      <4>1. PICK A : b = [a EXCEPT !.acks = A]
        BY ONLY <3>3, Zenon DEF Acking
      <4> QED
        BY ONLY <1>2, <4>1
    <3>4. CASE Pulling(a, b) \/ Dropping(a, b) \/ AckDropping(a, b)
      BY ONLY <1>2, <3>4 DEF Pulling, Dropping, AckDropping
    <3> QED
      BY <1>6, <3>1, <3>2, <3>3, <3>4
  <2> QED
    BY <1>1, <2>1
<1> QED
  BY <1>3, <1>4, <1>5, <1>6 DEF Moves

\* The receiver's packets in order, and none that was not pushed.
NoneAhead == \A e \in End : /\ RecvOrder(st[Peer(e)], got[Peer(e)]) /\ pushed[e] \in Nat
                         /\ Len(got[Peer(e)]) <= pushed[e]

LEMMA OrderAhead == ASSUME Inv, OrderInv PROVE NoneAhead
<1> SUFFICES ASSUME NEW e \in End
             PROVE  /\ RecvOrder(st[Peer(e)], got[Peer(e)]) /\ pushed[e] \in Nat
                    /\ Len(got[Peer(e)]) <= pushed[e]
  BY DEF NoneAhead
<1>1. PICK f, s, P, w, r, g, v : /\ f = Peer(e) /\ s = st[e] /\ P = pushed[e] /\ w = wire[f]
                                 /\ r = st[f] /\ g = got[f] /\ v = wire[e]
  OBVIOUS
<1>2. s \in Stream(e) /\ CtrlFirst(s) /\ Dir(s, P, w, r, g, v)
  <2>1. st[e] \in Stream(e) /\ CtrlFirst(st[e]) /\ Dir(st[e], pushed[e], wire[f], st[f], got[f], wire[e])
    BY ONLY Inv, OrderInv, e \in End, <1>1, OrderParts
  <2> QED
    BY ONLY <1>1, <2>1
<1>3. PICK R, snt : R = Len(g) /\ snt = Sent(s, P)
  OBVIOUS
<1>4. P \in Nat /\ R \in Nat /\ snt \in Nat /\ R <= snt /\ snt <= P
  BY <1>2, <1>3, DirNumbers
<1>5. R <= P /\ P \in Nat
  BY ONLY <1>4
<1>6. RecvOrder(r, g)
  BY <1>2 DEF Dir
<1> QED
  BY ONLY <1>1, <1>3, <1>5, <1>6

\* Every step hands over one packet at one end, or is not seen.
LEMMA StreamSteps ==
    ASSUME OneLife, ~CanBlock, Inv, OrderInv, NoneAhead, NoneAhead', [Next]_vars,
           NEW e \in End, NEW f, f = Peer(e)
    PROVE  \/ (pushed[e]' = pushed[e] /\ Pays(got[f])' = Pays(got[f]))
           \/ (pushed[e]' = pushed[e] + 1 /\ Pays(got[f])' = Pays(got[f]))
           \/ /\ pushed[e]' = pushed[e] /\ Len(Pays(got[f])) < pushed[e]
              /\ Pays(got[f])' = Append(Pays(got[f]), Len(Pays(got[f])))
<1>1. PICK S, W, N, G : S = st' /\ W = wire' /\ N = pushed' /\ G = got'
  OBVIOUS
<1>2. Moves(View(st[e], pushed[e], wire[f], st[f], got[f], wire[e]),
            View(S[e], N[e], W[f], S[f], G[f], W[e]), MaxPush[e])
  BY <1>1, NextOrder DEF Simulates, ViewFrom
<1>3. RecvOrder(st[f], got[f]) /\ pushed[e] \in Nat
  BY DEF NoneAhead
<1>4. RecvOrder(S[f], G[f]) /\ N[e] \in Nat /\ Len(G[f]) <= N[e]
  BY <1>1 DEF NoneAhead
<1>5. PICK a, b : /\ a = View(st[e], pushed[e], wire[f], st[f], got[f], wire[e])
                  /\ b = View(S[e], N[e], W[f], S[f], G[f], W[e])
  OBVIOUS
<1>6. PICK P, Q, g, h, M : P = pushed[e] /\ Q = N[e] /\ g = got[f] /\ h = G[f] /\ M = MaxPush[e]
  OBVIOUS
<1>7. \/ (Q = P /\ Pays(h) = Pays(g))
      \/ (Q = P + 1 /\ Pays(h) = Pays(g))
      \/ (Q = P /\ Len(Pays(g)) < P /\ Pays(h) = Append(Pays(g), Len(Pays(g))))
  <2>1. PICK s, w, r, v, t, y, q, z : /\ s = st[e] /\ w = wire[f] /\ r = st[f] /\ v = wire[e]
                                      /\ t = S[e] /\ y = W[f] /\ q = S[f] /\ z = W[e]
    OBVIOUS
  <2>2. /\ RecvOrder(r, g) /\ RecvOrder(q, h) /\ P \in Nat /\ Q \in Nat /\ Len(h) <= Q
        /\ a = View(s, P, w, r, g, v) /\ b = View(t, Q, y, q, h, z) /\ Moves(a, b, M)
    BY ONLY <1>2, <1>3, <1>4, <1>5, <1>6, <2>1
  <2> QED
    BY ONLY <2>2, MovesStream
<1>8. pushed[e]' = Q /\ Pays(got[f])' = Pays(h)
  BY <1>1, <1>6, PeerFacts DEF Pays
<1> QED
  BY ONLY <1>6, <1>7, <1>8

\* End to end: what the users of the two SLAPStream objects see of the packets
\* from A is a reliable stream, in which PushBytes hands over a packet and
\* ProcessDataPacket delivers the oldest one that was not delivered.
THEOREM OrderStreamA ==
    ASSUME OneLife, ~CanBlock PROVE Spec \/ SpecActive => FromA!ImplementsStream
<1>1. FromA!Init => FromA!Stream!Init
  BY DEF FromA!Init, FromA!Stream!Init
<1>2. Inv /\ OrderInv /\ NoneAhead /\ NoneAhead' /\ [Next]_vars =>
          [FromA!Stream!Next]_<<pushed["A"], [i \in 1..Len(got["B"]) |-> got["B"][i][2]]>>
  <2> SUFFICES ASSUME Inv, OrderInv, NoneAhead, NoneAhead', [Next]_vars
               PROVE  [FromA!Stream!Next]_<<pushed["A"], [i \in 1..Len(got["B"]) |-> got["B"][i][2]]>>
    OBVIOUS
  <2>1. "A" \in End /\ Peer("A") = "B"
    BY DEF End, Peer
  <2>2. \/ (pushed["A"]' = pushed["A"] /\ Pays(got["B"])' = Pays(got["B"]))
        \/ (pushed["A"]' = pushed["A"] + 1 /\ Pays(got["B"])' = Pays(got["B"]))
        \/ /\ pushed["A"]' = pushed["A"] /\ Len(Pays(got["B"])) < pushed["A"]
           /\ Pays(got["B"])' = Append(Pays(got["B"]), Len(Pays(got["B"])))
    BY <2>1, StreamSteps
  <2> QED
    BY ONLY <2>2, Zenon DEF Pays, FromA!Stream!Next, FromA!Stream!Push, FromA!Stream!Deliver
<1>3. Inv /\ OrderInv => NoneAhead
  BY OrderAhead
<1>4. Spec \/ SpecActive => []Inv
  BY InvHolds
<1>5. Spec \/ SpecActive => []OrderInv
  BY OrderHolds
<1>6. Spec \/ SpecActive => WindowFromA
  BY OrderWindowA
<1> QED
  BY <1>1, <1>2, <1>3, <1>4, <1>5, <1>6, PTL
     DEF Spec, SpecActive, WindowFromA, FromA!Spec, FromA!ImplementsStream, FromA!Stream!Spec

\* End to end: what the users of the two SLAPStream objects see of the packets
\* from B is a reliable stream, in which PushBytes hands over a packet and
\* ProcessDataPacket delivers the oldest one that was not delivered.
THEOREM OrderStreamB ==
    ASSUME OneLife, ~CanBlock PROVE Spec \/ SpecActive => FromB!ImplementsStream
<1>1. FromB!Init => FromB!Stream!Init
  BY DEF FromB!Init, FromB!Stream!Init
<1>2. Inv /\ OrderInv /\ NoneAhead /\ NoneAhead' /\ [Next]_vars =>
          [FromB!Stream!Next]_<<pushed["B"], [i \in 1..Len(got["A"]) |-> got["A"][i][2]]>>
  <2> SUFFICES ASSUME Inv, OrderInv, NoneAhead, NoneAhead', [Next]_vars
               PROVE  [FromB!Stream!Next]_<<pushed["B"], [i \in 1..Len(got["A"]) |-> got["A"][i][2]]>>
    OBVIOUS
  <2>1. "B" \in End /\ Peer("B") = "A"
    BY DEF End, Peer
  <2>2. \/ (pushed["B"]' = pushed["B"] /\ Pays(got["A"])' = Pays(got["A"]))
        \/ (pushed["B"]' = pushed["B"] + 1 /\ Pays(got["A"])' = Pays(got["A"]))
        \/ /\ pushed["B"]' = pushed["B"] /\ Len(Pays(got["A"])) < pushed["B"]
           /\ Pays(got["A"])' = Append(Pays(got["A"]), Len(Pays(got["A"])))
    BY <2>1, StreamSteps
  <2> QED
    BY ONLY <2>2, Zenon DEF Pays, FromB!Stream!Next, FromB!Stream!Push, FromB!Stream!Deliver
<1>3. Inv /\ OrderInv => NoneAhead
  BY OrderAhead
<1>4. Spec \/ SpecActive => []Inv
  BY InvHolds
<1>5. Spec \/ SpecActive => []OrderInv
  BY OrderHolds
<1>6. Spec \/ SpecActive => WindowFromB
  BY OrderWindowB
<1> QED
  BY <1>1, <1>2, <1>3, <1>4, <1>5, <1>6, PTL
     DEF Spec, SpecActive, WindowFromB, FromB!Spec, FromB!ImplementsStream, FromB!Stream!Spec

=============================================================================
