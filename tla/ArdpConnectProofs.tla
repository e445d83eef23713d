------------------------- MODULE ArdpConnectProofs -------------------------
(***************************************************************************)
(* Proofs about ARDP's connection management, for any number of records    *)
(* and any number of retries: every step of the protocol is one of a few   *)
(* steps in the life of one connection, and none of them reports twice.    *)
(***************************************************************************)
EXTENDS ArdpConnect, TLAPS

-----------------------------------------------------------------------------
(* The inductive invariant of the records and of the callback queues.      *)

\* What the state of a record says about its timer and about the callbacks
\* that were made for it.
RecordOK(r) ==
    LET c == conn[r] IN
    /\ c.state \in {"none", "SYN_SENT", "SYN_RCVD"} => c.told = 0 /\ c.ended = 0
    /\ c.state = "OPEN" => c.ended = 0
    /\ c.state = "CLOSED" => c.told = 1 /\ c.ended = 0
    /\ c.state = "CLOSE_WAIT" => /\ c.reason # "none"
                                 /\ c.ended = IF c.reason = "ok" THEN 0 ELSE 1
    /\ c.told <= 1 /\ c.ended <= 1
    /\ c.timer = "connect" => c.state \in {"SYN_SENT", "SYN_RCVD"}
    /\ c.timer = "disconnect" => c.state = "CLOSE_WAIT"
    /\ c.state = "SYN_SENT" => r \in Active
    /\ c.state = "SYN_RCVD" => r \in Passive
    /\ c.state = "OPEN" /\ r \in Passive => c.told = 1
RecordsOK == \A r \in Recs : RecordOK(r)

\* A callback that waits to be worked off was counted; what it says of the
\* connection is still true, or the connection went after it (f is conn).
CallbackOK(f, s, b) ==
    /\ Side(b.rec) = s
    /\ b.cmd = "CONNECT_CB" =>
          /\ f[b.rec].told = 1
          /\ b.status = "err" => f[b.rec].state \in {"CLOSED", "gone"}
    /\ b.cmd = "DISCONNECT_CB" =>
          /\ f[b.rec].ended = 1
          /\ f[b.rec].state \in {"CLOSE_WAIT", "gone"}
CallbacksOK ==
    \A s \in Sides : \A i \in 1 .. Len(queue[s]) : CallbackOK(conn, s, queue[s][i])

\* Of one connection a queue holds at most its ConnectCb and, behind it, its
\* DisconnectCb.
QueueOrder ==
    \A s \in Sides : \A i, j \in 1 .. Len(queue[s]) :
        i < j /\ queue[s][i].rec = queue[s][j].rec =>
            queue[s][i].cmd = "CONNECT_CB" /\ queue[s][j].cmd = "DISCONNECT_CB"

ArdpInv == ArdpTypeOK /\ RecordsOK /\ CallbacksOK /\ QueueOrder

-----------------------------------------------------------------------------
(* The steps in the life of one connection: c is the record afterwards.    *)

Becomes(r, c, cbs) ==
    /\ c \in ConnRecord
    /\ conn' = [conn EXCEPT ![r] = c]
    /\ queue' = Called(queue, r, cbs)

\* Nothing happens that another component could see.
Stays(r, c) ==
    /\ Becomes(r, c, <<>>)
    /\ c.state = conn[r].state /\ c.timer = conn[r].timer /\ c.reason = conn[r].reason
    /\ c.told = conn[r].told /\ c.ended = conn[r].ended

\* The handshake fails, and is reported.
Fails(r, c) ==
    /\ conn[r].state \in {"SYN_SENT", "SYN_RCVD"}
    /\ Becomes(r, c, <<Callback("CONNECT_CB", r, "err")>>)
    /\ c.state = "CLOSED" /\ c.timer = "off"
    /\ c.told = conn[r].told + 1 /\ c.ended = conn[r].ended

\* The handshake succeeds, and is reported.
Opens(r, c) ==
    /\ conn[r].state \in {"SYN_SENT", "SYN_RCVD"}
    /\ Becomes(r, c, <<Callback("CONNECT_CB", r, "ok")>>)
    /\ c.state = "OPEN" /\ c.timer = "off"
    /\ c.told = conn[r].told + 1 /\ c.ended = conn[r].ended

\* The handshake succeeds and the write of the last ACK would block: no report.
OpensUnsaid(r, c) ==
    /\ conn[r].state = "SYN_SENT"
    /\ Becomes(r, c, <<>>)
    /\ c.state = "OPEN" /\ c.timer = "off"
    /\ c.told = conn[r].told /\ c.ended = conn[r].ended

\* The connection breaks, at either end, and is reported.
Breaks(r, c) ==
    /\ conn[r].state \in {"SYN_SENT", "SYN_RCVD", "OPEN"}
    /\ Becomes(r, c, <<Callback("DISCONNECT_CB", r, "err")>>)
    /\ c.state = "CLOSE_WAIT" /\ c.timer = "disconnect" /\ c.reason \in {"remote", "local"}
    /\ c.told = conn[r].told /\ c.ended = conn[r].ended + 1

\* The record is deleted after a disconnect, which is reported unless it was.
Expires(r, c) ==
    /\ conn[r].state = "CLOSE_WAIT"
    /\ c.state = "gone" /\ c.timer = "off" /\ c.told = conn[r].told
    /\ \/ /\ conn[r].reason = "ok"
          /\ Becomes(r, c, <<Callback("DISCONNECT_CB", r, "ok")>>)
          /\ c.ended = conn[r].ended + 1
       \/ /\ conn[r].reason # "ok"
          /\ Becomes(r, c, <<>>)
          /\ c.ended = conn[r].ended

ArdpLife(r, c) ==
    \/ Stays(r, c) \/ Fails(r, c) \/ Opens(r, c) \/ OpensUnsaid(r, c)
    \/ Breaks(r, c) \/ Expires(r, c)

\* What the transport does: it starts a record, disconnects it, releases it.
Starts(r, c) ==
    /\ conn[r].state = "none"
    /\ Becomes(r, c, <<>>)
    /\ c.timer \in {"off", "connect"} /\ c.told = conn[r].told /\ c.ended = conn[r].ended
    /\ \/ c.state = (IF r \in Active THEN "SYN_SENT" ELSE "SYN_RCVD")
       \/ c.state = "gone" /\ c.timer = "off"
Closes(r, c) ==
    /\ conn[r].state \in {"SYN_SENT", "SYN_RCVD", "OPEN"}
    /\ Becomes(r, c, <<>>)
    /\ c.state = "CLOSE_WAIT" /\ c.timer = "disconnect" /\ c.reason = "ok"
    /\ c.told = conn[r].told /\ c.ended = conn[r].ended
Releases(r, c) ==
    /\ conn[r].state # "none"
    /\ Becomes(r, c, <<>>)
    /\ c.state = "gone" /\ c.timer = "off"
    /\ c.told = conn[r].told /\ c.ended = conn[r].ended

Life(r, c) == ArdpLife(r, c) \/ Starts(r, c) \/ Closes(r, c) \/ Releases(r, c)

-----------------------------------------------------------------------------
(* Queues.                                                                 *)

LEMMA SideTyped == ASSUME NEW r \in Recs PROVE Side(r) \in Sides /\ Other(Side(r)) \in Sides
BY DEF Side, Sides, Other

\* What a callback added at the end does to the queue of its side.
LEMMA CalledOne ==
    ASSUME ArdpTypeOK, NEW r \in Recs, NEW b \in CallbackRecord
    PROVE  LET q == Called(queue, r, <<b>>) IN
           /\ q \in [Sides -> Seq(CallbackRecord)]
           /\ \A s \in Sides : s # Side(r) => q[s] = queue[s]
           /\ Len(q[Side(r)]) = Len(queue[Side(r)]) + 1
           /\ \A i \in 1 .. Len(queue[Side(r)]) : q[Side(r)][i] = queue[Side(r)][i]
           /\ q[Side(r)][Len(queue[Side(r)]) + 1] = b
BY SideTyped DEF ArdpTypeOK, Called

LEMMA CalledNone ==
    ASSUME ArdpTypeOK, NEW r \in Recs
    PROVE  Called(queue, r, <<>>) = queue
<1>1. queue[Side(r)] \o <<>> = queue[Side(r)]
  BY SideTyped DEF ArdpTypeOK
<1> QED BY <1>1, SideTyped DEF ArdpTypeOK, Called

-----------------------------------------------------------------------------
(* A step in the life of one connection preserves the invariant.           *)

LEMMA LifeRecords ==
    ASSUME ArdpInv, NEW r \in Recs, NEW c, Life(r, c)
    PROVE  /\ conn' \in [Recs -> ConnRecord]
           /\ RecordsOK'
           /\ \A x \in Recs \ {r} : conn'[x] = conn[x]
           /\ conn'[r] = c
<1>1. c \in ConnRecord /\ conn' = [conn EXCEPT ![r] = c]
  BY DEF Life, ArdpLife, Stays, Fails, Opens, OpensUnsaid, Breaks, Expires, Starts, Closes,
         Releases, Becomes
<1>2. conn \in [Recs -> ConnRecord]
  BY DEF ArdpInv, ArdpTypeOK
<1>3. /\ conn' \in [Recs -> ConnRecord]
      /\ \A x \in Recs \ {r} : conn'[x] = conn[x]
      /\ conn'[r] = c
  BY <1>1, <1>2
<1>4. RecordOK(r)'
  BY <1>1, <1>2, <1>3, RecordAssumption
     DEF ArdpInv, RecordsOK, RecordOK, Life, ArdpLife, Stays, Fails, Opens, OpensUnsaid, Breaks,
         Expires, Starts, Closes, Releases, ConnRecord, Recs
<1>5. \A x \in Recs \ {r} : RecordOK(x)'
  BY <1>3 DEF ArdpInv, RecordsOK, RecordOK
<1> QED BY <1>3, <1>4, <1>5 DEF RecordsOK

LEMMA LifeQueues ==
    ASSUME ArdpInv, NEW r \in Recs, NEW c, Life(r, c)
    PROVE  queue' \in [Sides -> Seq(CallbackRecord)] /\ CallbacksOK' /\ QueueOrder'
<1> DEFINE side == Side(r)
           n == Len(queue[side])
<1>1. /\ queue \in [Sides -> Seq(CallbackRecord)] /\ side \in Sides /\ n \in Nat
      /\ \A s \in Sides : Len(queue[s]) \in Nat
      /\ \A s \in Sides : \A i \in 1 .. Len(queue[s]) :
            queue[s][i] \in CallbackRecord /\ queue[s][i].rec \in Recs
  <2>1. queue \in [Sides -> Seq(CallbackRecord)] /\ side \in Sides
    BY SideTyped DEF ArdpInv, ArdpTypeOK
  <2>2. \A s \in Sides : /\ Len(queue[s]) \in Nat
                         /\ \A i \in 1 .. Len(queue[s]) : queue[s][i] \in CallbackRecord
    BY <2>1
  <2>3. \A b \in CallbackRecord : b.rec \in Recs
    BY DEF CallbackRecord
  <2> QED BY <2>1, <2>2, <2>3
<1>2. /\ \A x \in Recs \ {r} : conn'[x] = conn[x]
      /\ conn'[r] = c /\ RecordOK(r) /\ RecordOK(r)'
      /\ conn[r] \in ConnRecord /\ c \in ConnRecord
  <2>1. /\ conn' \in [Recs -> ConnRecord] /\ RecordsOK'
        /\ \A x \in Recs \ {r} : conn'[x] = conn[x]
        /\ conn'[r] = c
    BY LifeRecords
  <2>2. conn \in [Recs -> ConnRecord] /\ RecordsOK
    BY DEF ArdpInv, ArdpTypeOK
  <2> QED BY <2>1, <2>2 DEF RecordsOK
\* What was said of a waiting callback stays true.
<1>3. ASSUME NEW s \in Sides, NEW i \in 1 .. Len(queue[s])
      PROVE  CallbackOK(conn', s, queue[s][i])
  <2>1. CASE queue[s][i].rec # r
    BY <1>1, <1>2, <1>3, <2>1 DEF ArdpInv, CallbacksOK, CallbackOK
  <2>2. CASE queue[s][i].rec = r
    <3>1. CallbackOK(conn, s, queue[s][i]) /\ queue[s][i] \in CallbackRecord
      BY <1>1 DEF ArdpInv, CallbacksOK
    <3> QED
      BY <1>2, <2>2, <3>1, SMTT(30)
         DEF CallbackOK, RecordOK, CallbackRecord, ConnRecord, Life, ArdpLife, Stays, Fails,
             Opens, OpensUnsaid, Breaks, Expires, Starts, Closes, Releases
  <2> QED BY <2>1, <2>2
<1>4. CASE queue' = Called(queue, r, <<>>)
  <2>1. queue' = queue
    BY <1>4, CalledNone DEF ArdpInv
  <2> QED BY <1>1, <1>3, <2>1 DEF ArdpInv, CallbacksOK, QueueOrder
<1>5. ASSUME NEW b \in CallbackRecord, queue' = Called(queue, r, <<b>>), b.rec = r,
             CallbackOK(conn', side, b),
             \A i \in 1 .. n : queue[side][i].rec = r =>
                 queue[side][i].cmd = "CONNECT_CB" /\ b.cmd = "DISCONNECT_CB"
      PROVE  queue' \in [Sides -> Seq(CallbackRecord)] /\ CallbacksOK' /\ QueueOrder'
  <2>1. /\ queue' \in [Sides -> Seq(CallbackRecord)]
        /\ \A s \in Sides \ {side} : queue'[s] = queue[s]
        /\ Len(queue'[side]) = n + 1
        /\ \A i \in 1 .. n : queue'[side][i] = queue[side][i]
        /\ queue'[side][n + 1] = b
    BY <1>5, CalledOne, SMTT(30) DEF ArdpInv
  <2> HIDE DEF side, n
  <2>2. \A i \in 1 .. (n + 1) : i \in 1 .. n \/ i = n + 1
    BY <1>1
  <2>3. CallbacksOK'
    <3>1. ASSUME NEW s \in Sides, NEW i \in 1 .. Len(queue'[s])
          PROVE  CallbackOK(conn', s, queue'[s][i])
      <4>1. CASE s # side
        BY <1>3, <2>1, <4>1
      <4>2. CASE s = side /\ i \in 1 .. n
        BY <1>3, <2>1, <4>2 DEF n
      <4>3. CASE s = side /\ i = n + 1
        BY <1>5, <2>1, <4>3
      <4> QED BY <2>1, <2>2, <4>1, <4>2, <4>3
    <3> QED BY <3>1 DEF CallbacksOK
  <2>4. QueueOrder'
    <3>1. ASSUME NEW s \in Sides, NEW i \in 1 .. Len(queue'[s]), NEW j \in 1 .. Len(queue'[s]),
                 i < j, queue'[s][i].rec = queue'[s][j].rec
          PROVE  queue'[s][i].cmd = "CONNECT_CB" /\ queue'[s][j].cmd = "DISCONNECT_CB"
      <4>1. CASE s # side
        BY <2>1, <3>1, <4>1 DEF ArdpInv, QueueOrder
      <4>2. CASE s = side /\ j \in 1 .. n
        <5>1. i \in 1 .. n
          BY <1>1, <2>1, <3>1, <4>2
        <5> QED BY <1>1, <2>1, <3>1, <4>2, <5>1 DEF ArdpInv, QueueOrder, n
      <4>3. CASE s = side /\ j = n + 1
        <5>1. i \in 1 .. n
          BY <1>1, <2>1, <3>1, <4>3
        <5> QED BY <1>1, <1>5, <2>1, <3>1, <4>3, <5>1
      <4> QED BY <2>1, <2>2, <4>1, <4>2, <4>3
    <3> QED BY <3>1 DEF QueueOrder
  <2> QED BY <2>1, <2>3, <2>4
\* A connection that is reported now was not reported before.
<1>6. /\ conn[r].told = 0 => \A i \in 1 .. n : queue[side][i].rec = r =>
                                  queue[side][i].cmd = "DISCONNECT_CB"
      /\ conn[r].ended = 0 => \A i \in 1 .. n : queue[side][i].rec = r =>
                                  queue[side][i].cmd = "CONNECT_CB"
  BY <1>1 DEF ArdpInv, CallbacksOK, CallbackOK, CallbackRecord
<1>7. ASSUME NEW st \in {"ok", "err"}
      PROVE  /\ Callback("CONNECT_CB", r, st) \in CallbackRecord
             /\ Callback("DISCONNECT_CB", r, st) \in CallbackRecord
             /\ Callback("CONNECT_CB", r, st).rec = r /\ Callback("DISCONNECT_CB", r, st).rec = r
             /\ Callback("CONNECT_CB", r, st).cmd = "CONNECT_CB"
             /\ Callback("DISCONNECT_CB", r, st).cmd = "DISCONNECT_CB"
             /\ Callback("CONNECT_CB", r, st).status = st
  BY DEF Callback, CallbackRecord
<1>8. CASE Fails(r, c)
  <2>1. CallbackOK(conn', side, Callback("CONNECT_CB", r, "err"))
    BY <1>2, <1>7, <1>8 DEF CallbackOK, Fails, RecordOK
  <2> QED BY <1>2, <1>5, <1>6, <1>7, <1>8, <2>1 DEF Fails, Becomes, RecordOK
<1>9. CASE Opens(r, c)
  <2>1. CallbackOK(conn', side, Callback("CONNECT_CB", r, "ok"))
    BY <1>2, <1>7, <1>9 DEF CallbackOK, Opens, RecordOK
  <2> QED BY <1>2, <1>5, <1>6, <1>7, <1>9, <2>1 DEF Opens, Becomes, RecordOK
<1>10. CASE Breaks(r, c)
  <2>1. CallbackOK(conn', side, Callback("DISCONNECT_CB", r, "err"))
    BY <1>2, <1>7, <1>10 DEF CallbackOK, Breaks, RecordOK
  <2> QED BY <1>2, <1>5, <1>6, <1>7, <1>10, <2>1 DEF Breaks, Becomes, RecordOK
<1>11. CASE Expires(r, c) /\ conn[r].reason = "ok"
  <2>1. CallbackOK(conn', side, Callback("DISCONNECT_CB", r, "ok"))
    BY <1>2, <1>7, <1>11 DEF CallbackOK, Expires, RecordOK
  <2> QED BY <1>2, <1>5, <1>6, <1>7, <1>11, <2>1 DEF Expires, Becomes, RecordOK
<1> QED
  BY <1>4, <1>8, <1>9, <1>10, <1>11
     DEF Life, ArdpLife, Stays, OpensUnsaid, Expires, Starts, Closes, Releases, Becomes

-----------------------------------------------------------------------------
(* Every step of ARDP is a step in the life of one connection.             *)

\* What an action says about the network and the counters of the bounds.
Typed == net' \subseteq Segment /\ dups' \in Nat /\ bad' \in Nat

LEMMA SegTyped ==
    ASSUME NEW r \in Recs, NEW dst \in Recs \cup {Half},
           NEW kind \in {"SYN", "SYNACK", "ACK", "NUL", "RST"}
    PROVE  Seg(kind, r, dst) \in Segment
BY SideTyped DEF Seg, Segment

LEMMA PutTyped ==
    ASSUME NEW n \in SUBSET Segment, NEW segs \in SUBSET Segment
    PROVE  Put(n, segs) \subseteq Segment
BY DEF Put

LEMMA SentTyped ==
    ASSUME NEW st, NEW seg \in Segment PROVE Sent(st, seg) \subseteq Segment
BY DEF Sent

LEMMA WriteTyped ==
    ASSUME ArdpTypeOK, NEW st, Write(st)
    PROVE  bad' \in Nat /\ st \in SendStatus
BY DEF Write, ArdpTypeOK

LEMMA RecordTyped ==
    ASSUME ArdpInv, NEW r \in Recs
    PROVE  /\ conn \in [Recs -> ConnRecord]
           /\ conn[r] \in ConnRecord /\ conn[r].foreign \in Recs \cup {Half}
           /\ conn[r].told + 1 \in Nat /\ conn[r].ended + 1 \in Nat
           /\ conn[r].told \in Nat /\ conn[r].ended \in Nat
           /\ RecordOK(r)
BY DEF ArdpInv, ArdpTypeOK, RecordsOK, ConnRecord

LEMMA StateNames ==
    {"CLOSED", "SYN_SENT", "SYN_RCVD", "OPEN", "CLOSE_WAIT", "gone"} \subseteq States
BY DEF States

LEMMA DeletedTyped ==
    ASSUME NEW d \in ConnRecord
    PROVE  /\ Deleted(d) \in ConnRecord /\ Deleted(d).state = "gone" /\ Deleted(d).timer = "off"
           /\ Deleted(d).told = d.told /\ Deleted(d).ended = d.ended
<1>1. "gone" \in States /\ "none" \in States /\ 0 \in 0 .. ProbeRetries
  BY ConfigAssumption DEF States
<1>2. NewRecord \in ConnRecord
  BY <1>1 DEF NewRecord, ConnRecord
<1>3. d.told \in Nat /\ d.ended \in Nat
  BY DEF ConnRecord
<1>4. [NewRecord EXCEPT !.state = "gone", !.told = d.told, !.ended = d.ended] \in ConnRecord
  BY <1>1, <1>2, <1>3 DEF ConnRecord
<1> QED BY <1>2, <1>3, <1>4 DEF Deleted, NewRecord, ConnRecord

LEMMA DisconnectStep ==
    ASSUME ArdpInv, NEW r \in Recs, conn[r].state \in {"SYN_SENT", "SYN_RCVD", "OPEN"},
           NEW reason \in {"remote", "local"}, NEW base \in SUBSET Segment,
           Disconnect(r, reason, base)
    PROVE  net' \subseteq Segment /\ \E c : Breaks(r, c)
<1> DEFINE c == Disconnected(conn[r], reason)
<1>1. /\ c \in ConnRecord /\ c.state = "CLOSE_WAIT" /\ c.timer = "disconnect"
      /\ c.reason = reason /\ c.told = conn[r].told /\ c.ended = conn[r].ended + 1
  <2>1. c = [conn[r] EXCEPT !.state = "CLOSE_WAIT", !.timer = "disconnect", !.retry = 1,
                            !.reason = reason, !.ended = conn[r].ended + 1]
    BY DEF Disconnected, IsDead
  <2> HIDE DEF c
  <2>2. conn[r] \in ConnRecord /\ conn[r].ended + 1 \in Nat /\ "CLOSE_WAIT" \in States
    BY RecordTyped, StateNames
  <2>3. c \in ConnRecord
    BY <2>1, <2>2 DEF ConnRecord
  <2> QED BY <2>1, <2>2, <2>3 DEF ConnRecord
<1>2. conn' = [conn EXCEPT ![r] = c]
  BY RecordTyped DEF Disconnect
<1>3. queue' = Called(queue, r, <<Callback("DISCONNECT_CB", r, "err")>>)
  BY DEF Disconnect, DisconnectCbs, IsDead
<1>4. Breaks(r, c)
  BY <1>1, <1>2, <1>3 DEF Breaks, Becomes
<1>5. DisconnectSegs(r, reason) \subseteq Segment
  BY RecordTyped, SegTyped DEF DisconnectSegs
<1> QED BY <1>4, <1>5, PutTyped DEF Disconnect

LEMMA FailConnectStep ==
    ASSUME ArdpInv, NEW r \in Recs, conn[r].state \in {"SYN_SENT", "SYN_RCVD"}, FailConnect(r)
    PROVE  \E c : Fails(r, c)
<1> DEFINE c == [conn[r] EXCEPT !.state = "CLOSED", !.timer = "off", !.retry = 0, !.told = @ + 1]
<1>1. /\ c \in ConnRecord /\ c.state = "CLOSED" /\ c.timer = "off"
      /\ c.told = conn[r].told + 1 /\ c.ended = conn[r].ended
  <2>1. conn[r] \in ConnRecord /\ conn[r].told + 1 \in Nat /\ "CLOSED" \in States
    BY RecordTyped, StateNames
  <2>2. c \in ConnRecord
    BY <2>1 DEF ConnRecord
  <2> QED BY <2>1, <2>2 DEF ConnRecord
<1>2. conn' = [conn EXCEPT ![r] = c]
  BY RecordTyped DEF FailConnect
<1>3. Fails(r, c)
  BY <1>1, <1>2 DEF Fails, Becomes, FailConnect
<1> QED BY <1>3

\* A record of which only the retry count, the peer or the probe count changed.
LEMMA StaysStep ==
    ASSUME ArdpInv, NEW r \in Recs, NEW c \in ConnRecord,
           conn' = [conn EXCEPT ![r] = c], UNCHANGED queue,
           c.state = conn[r].state, c.timer = conn[r].timer, c.reason = conn[r].reason,
           c.told = conn[r].told, c.ended = conn[r].ended
    PROVE  Stays(r, c)
BY CalledNone DEF Stays, Becomes, ArdpInv

LEMMA ConnectTimerStep ==
    ASSUME ArdpInv, NEW r \in Recs, NEW st, ConnectTimer(r, st)
    PROVE  Typed /\ \E c : ArdpLife(r, c)
<1>1. conn[r].state \in {"SYN_SENT", "SYN_RCVD"}
  BY RecordTyped DEF ConnectTimer, RecordOK
<1>2. dups' \in Nat /\ bad' \in Nat
  BY WriteTyped DEF ConnectTimer, ArdpInv, ArdpTypeOK
<1>3. net' \subseteq Segment
  <2>1. /\ Seg("SYN", r, conn[r].foreign) \in Segment
        /\ Seg("SYNACK", r, conn[r].foreign) \in Segment
        /\ Seg("RST", r, conn[r].foreign) \in Segment
    BY RecordTyped, SegTyped
  <2>2. net \in SUBSET Segment
    BY DEF ArdpInv, ArdpTypeOK
  <2> QED BY <2>1, <2>2, PutTyped, SentTyped DEF ConnectTimer
<1>4. CASE FailConnect(r)
  <2>1. \E c : Fails(r, c)
    BY <1>1, <1>4, FailConnectStep
  <2> QED BY <1>2, <1>3, <2>1 DEF ArdpLife, Typed
<1>5. CASE conn' = [conn EXCEPT ![r].retry = @ - 1] /\ conn[r].retry > 1 /\ UNCHANGED queue
  <2> DEFINE c == [conn[r] EXCEPT !.retry = @ - 1]
  <2>1. /\ c \in ConnRecord /\ c.state = conn[r].state /\ c.timer = conn[r].timer
        /\ c.reason = conn[r].reason /\ c.told = conn[r].told /\ c.ended = conn[r].ended
        /\ conn' = [conn EXCEPT ![r] = c]
    <3>1. conn[r] \in ConnRecord /\ conn[r].retry - 1 \in Nat
      BY <1>5, RecordTyped DEF ConnRecord
    <3>2. c \in ConnRecord
      BY <3>1 DEF ConnRecord
    <3>3. conn' = [conn EXCEPT ![r] = c]
      BY <1>5, RecordTyped
    <3> QED BY <3>1, <3>2, <3>3 DEF ConnRecord
  <2> HIDE DEF c
  <2> QED BY <1>2, <1>3, <1>5, <2>1, StaysStep DEF ArdpLife, Typed
<1> QED BY <1>2, <1>3, <1>4, <1>5 DEF ConnectTimer, Typed

LEMMA DisconnectTimerStep ==
    ASSUME ArdpInv, NEW r \in Recs, DisconnectTimer(r)
    PROVE  Typed /\ \E c : ArdpLife(r, c)
<1> DEFINE owes == conn[r].reason = "ok"
           c == [Deleted(conn[r]) EXCEPT !.ended = IF owes THEN @ + 1 ELSE @]
<1>1. conn[r].state = "CLOSE_WAIT"
  BY RecordTyped DEF DisconnectTimer, RecordOK
<1>2. /\ c \in ConnRecord /\ c.state = "gone" /\ c.timer = "off" /\ c.told = conn[r].told
      /\ c.ended = IF owes THEN conn[r].ended + 1 ELSE conn[r].ended
  <2>1. conn[r] \in ConnRecord /\ conn[r].ended \in Nat /\ conn[r].ended + 1 \in Nat
    BY RecordTyped
  <2>2. /\ Deleted(conn[r]) \in ConnRecord /\ Deleted(conn[r]).ended = conn[r].ended
        /\ Deleted(conn[r]).told = conn[r].told /\ Deleted(conn[r]).state = "gone"
        /\ Deleted(conn[r]).timer = "off"
    BY <2>1, DeletedTyped
  <2>3. CASE owes
    BY <2>1, <2>2, <2>3 DEF ConnRecord
  <2>4. CASE ~owes
    BY <2>1, <2>2, <2>4 DEF ConnRecord
  <2> QED BY <2>3, <2>4
<1>3. conn' = [conn EXCEPT ![r] = c]
  BY RecordTyped DEF DisconnectTimer
<1>4. CASE owes
  <2>1. queue' = Called(queue, r, <<Callback("DISCONNECT_CB", r, "ok")>>)
    BY <1>4 DEF DisconnectTimer
  <2>2. Expires(r, c)
    BY <1>1, <1>2, <1>3, <1>4, <2>1 DEF Expires, Becomes
  <2> QED BY <2>2 DEF ArdpLife, DisconnectTimer, Typed, ArdpInv, ArdpTypeOK
<1>5. CASE ~owes
  <2>1. queue' = Called(queue, r, <<>>)
    BY <1>5, CalledNone DEF DisconnectTimer, ArdpInv
  <2>2. Expires(r, c)
    BY <1>1, <1>2, <1>3, <1>5, <2>1 DEF Expires, Becomes
  <2> QED BY <2>2 DEF ArdpLife, DisconnectTimer, Typed, ArdpInv, ArdpTypeOK
<1> QED BY <1>4, <1>5

LEMMA ProbeTimerStep ==
    ASSUME ArdpInv, NEW r \in Recs, NEW st, ProbeTimer(r, st)
    PROVE  Typed /\ \E c : ArdpLife(r, c)
<1>1. conn[r].state = "OPEN" /\ net \in SUBSET Segment
  BY DEF ProbeTimer, ArdpInv, ArdpTypeOK
<1>2. dups' \in Nat /\ bad' \in Nat
  BY WriteTyped DEF ProbeTimer, ArdpInv, ArdpTypeOK
<1>3. CASE Disconnect(r, "local", net)
  BY <1>1, <1>2, <1>3, DisconnectStep DEF ArdpLife, Typed
<1>4. CASE /\ conn[r].probe # 0
           /\ conn' = [conn EXCEPT ![r].probe = IF st = "ok" THEN @ - 1 ELSE @]
           /\ net' = Put(net, Sent(st, Seg("NUL", r, conn[r].foreign)))
           /\ UNCHANGED queue
  <2> DEFINE c == [conn[r] EXCEPT !.probe = IF st = "ok" THEN @ - 1 ELSE @]
  <2>1. /\ c \in ConnRecord /\ c.state = conn[r].state /\ c.timer = conn[r].timer
        /\ c.reason = conn[r].reason /\ c.told = conn[r].told /\ c.ended = conn[r].ended
        /\ conn' = [conn EXCEPT ![r] = c]
    <3>1. conn[r] \in ConnRecord /\ (IF st = "ok" THEN conn[r].probe - 1 ELSE conn[r].probe)
                                       \in 0 .. ProbeRetries
      <4>1. conn[r] \in ConnRecord
        BY RecordTyped
      <4>2. conn[r].probe \in 0 .. ProbeRetries /\ ProbeRetries \in Nat
        BY <4>1, ConfigAssumption DEF ConnRecord
      <4> QED BY <1>4, <4>1, <4>2
    <3>2. c \in ConnRecord
      BY <3>1 DEF ConnRecord
    <3>3. conn' = [conn EXCEPT ![r] = c]
      BY <1>4, RecordTyped
    <3> QED BY <3>1, <3>2, <3>3 DEF ConnRecord
  <2> HIDE DEF c
  <2>2. net' \subseteq Segment
    BY <1>1, <1>4, RecordTyped, SegTyped, SentTyped, PutTyped
  <2> QED BY <1>2, <1>4, <2>1, <2>2, StaysStep DEF ArdpLife, Typed
<1> QED BY <1>3, <1>4 DEF ProbeTimer

LEMMA OpenedTyped ==
    ASSUME NEW d \in ConnRecord, NEW peer \in Recs \cup {Half}
    PROVE  /\ Opened(d, peer) \in ConnRecord /\ Opened(d, peer).state = "OPEN"
           /\ Opened(d, peer).timer = "off" /\ Opened(d, peer).told = d.told
           /\ Opened(d, peer).ended = d.ended
<1>1. "OPEN" \in States /\ ProbeRetries \in 0 .. ProbeRetries
  BY StateNames, ConfigAssumption
<1>2. [d EXCEPT !.state = "OPEN", !.foreign = peer, !.timer = "off", !.retry = 0,
                !.probe = ProbeRetries] \in ConnRecord
  BY <1>1 DEF ConnRecord
<1> QED BY <1>2 DEF Opened, ConnRecord

LEMMA HeardStep ==
    ASSUME ArdpInv, NEW r \in Recs, conn' = [conn EXCEPT ![r] = Heard(@)], UNCHANGED queue
    PROVE  \E c : ArdpLife(r, c)
<1> DEFINE c == [conn[r] EXCEPT !.probe = ProbeRetries]
<1>1. conn[r] \in ConnRecord /\ ProbeRetries \in 0 .. ProbeRetries
  BY RecordTyped, ConfigAssumption
<1>2. c \in ConnRecord
  BY <1>1 DEF ConnRecord
<1>3. /\ c.state = conn[r].state /\ c.timer = conn[r].timer /\ c.reason = conn[r].reason
      /\ c.told = conn[r].told /\ c.ended = conn[r].ended
  BY <1>1, <1>2 DEF ConnRecord
<1>4. conn' = [conn EXCEPT ![r] = c]
  BY RecordTyped DEF Heard
<1> HIDE DEF c
<1> QED BY <1>2, <1>3, <1>4, StaysStep DEF ArdpLife

LEMMA RecvSynSentStep ==
    ASSUME ArdpInv, NEW r \in Recs, NEW m \in Segment, NEW st, NEW base \in SUBSET Segment,
           RecvSynSent(r, m, st, base)
    PROVE  net' \subseteq Segment /\ bad' \in Nat /\ \E c : ArdpLife(r, c)
<1>1. conn[r].state = "SYN_SENT" /\ m.src \in Recs \cup {Half}
  BY DEF RecvSynSent, Segment
<1>2. bad' \in Nat
  BY WriteTyped DEF RecvSynSent, ArdpInv, ArdpTypeOK
<1>3. net' \subseteq Segment
  BY <1>1, SegTyped, SentTyped, PutTyped DEF RecvSynSent
<1>4. CASE FailConnect(r)
  <2>1. \E c : Fails(r, c)
    BY <1>1, <1>4, FailConnectStep
  <2> QED BY <1>2, <1>3, <2>1 DEF ArdpLife
<1>5. CASE conn' = [conn EXCEPT ![r] = Heard(@)] /\ UNCHANGED queue
  BY <1>2, <1>3, <1>5, HeardStep
<1> DEFINE o == Opened(conn[r], m.src)
<1>6. /\ conn \in [Recs -> ConnRecord] /\ conn[r] \in ConnRecord /\ o \in ConnRecord
      /\ o.state = "OPEN" /\ o.timer = "off" /\ o.told = conn[r].told /\ o.ended = conn[r].ended
      /\ conn[r].told \in Nat /\ conn[r].told + 1 \in Nat /\ "CLOSED" \in States
  BY <1>1, RecordTyped, OpenedTyped, StateNames
<1>7. CASE /\ st = "ok"
           /\ conn' = [conn EXCEPT ![r] = [o EXCEPT !.told = @ + 1]]
           /\ queue' = Called(queue, r, <<Callback("CONNECT_CB", r, "ok")>>)
  <2> DEFINE c == [o EXCEPT !.told = conn[r].told + 1]
  <2> HIDE DEF o
  <2>1. c \in ConnRecord
    BY <1>6 DEF ConnRecord
  <2>2. /\ c.state = "OPEN" /\ c.timer = "off" /\ c.told = conn[r].told + 1
        /\ c.ended = conn[r].ended /\ conn' = [conn EXCEPT ![r] = c]
    BY <1>6, <1>7, <2>1 DEF ConnRecord
  <2> HIDE DEF c
  <2>3. Opens(r, c)
    BY <1>1, <1>7, <2>1, <2>2 DEF Opens, Becomes
  <2> QED BY <1>2, <1>3, <2>3 DEF ArdpLife
<1>8. CASE /\ st = "fail"
           /\ conn' = [conn EXCEPT ![r] = [o EXCEPT !.state = "CLOSED", !.told = @ + 1]]
           /\ queue' = Called(queue, r, <<Callback("CONNECT_CB", r, "err")>>)
  <2> DEFINE c == [o EXCEPT !.state = "CLOSED", !.told = conn[r].told + 1]
  <2> HIDE DEF o
  <2>1. c \in ConnRecord
    BY <1>6 DEF ConnRecord
  <2>2. /\ c.state = "CLOSED" /\ c.timer = "off" /\ c.told = conn[r].told + 1
        /\ c.ended = conn[r].ended /\ conn' = [conn EXCEPT ![r] = c]
    BY <1>6, <1>8, <2>1 DEF ConnRecord
  <2> HIDE DEF c
  <2>3. Fails(r, c)
    BY <1>1, <1>8, <2>1, <2>2 DEF Fails, Becomes
  <2> QED BY <1>2, <1>3, <2>3 DEF ArdpLife
<1>9. CASE /\ st # "ok"
           /\ conn' = [conn EXCEPT ![r] = [o EXCEPT !.told = @]]
           /\ queue' = Called(queue, r, <<>>)
  <2> HIDE DEF o
  <2>1. [o EXCEPT !.told = @] = o
    BY <1>6 DEF ConnRecord
  <2>2. conn' = [conn EXCEPT ![r] = o]
    BY <1>9, <2>1
  <2>3. OpensUnsaid(r, o)
    BY <1>1, <1>6, <1>9, <2>2 DEF OpensUnsaid, Becomes
  <2> QED BY <1>2, <1>3, <2>3 DEF ArdpLife
<1>10. CASE m.kind = "SYNACK"
  BY <1>6, <1>7, <1>8, <1>9, <1>10 DEF RecvSynSent
<1> QED BY <1>4, <1>5, <1>10 DEF RecvSynSent

LEMMA RecvSynRcvdStep ==
    ASSUME ArdpInv, NEW r \in Recs, NEW m \in Segment, NEW base \in SUBSET Segment,
           RecvSynRcvd(r, m, base)
    PROVE  net' \subseteq Segment /\ \E c : ArdpLife(r, c)
<1>1. conn[r].state = "SYN_RCVD" /\ m.src \in Recs \cup {Half}
  BY DEF RecvSynRcvd, Segment
<1>2. CASE Disconnect(r, "remote", base)
  BY <1>1, <1>2, DisconnectStep DEF ArdpLife
<1>3. CASE m.kind \in {"ACK", "NUL"}
  <2> DEFINE o == Opened(conn[r], m.src)
             c == [o EXCEPT !.told = conn[r].told + 1]
  <2>1. /\ conn \in [Recs -> ConnRecord] /\ conn[r] \in ConnRecord /\ o \in ConnRecord
        /\ o.state = "OPEN" /\ o.timer = "off" /\ o.told = conn[r].told
        /\ o.ended = conn[r].ended /\ conn[r].told + 1 \in Nat
    BY <1>1, RecordTyped, OpenedTyped
  <2>2. /\ conn' = [conn EXCEPT ![r] = [o EXCEPT !.told = @ + 1]]
        /\ queue' = Called(queue, r, <<Callback("CONNECT_CB", r, "ok")>>)
    BY <1>3, <2>1 DEF RecvSynRcvd
  <2>3. net' \subseteq Segment
    BY <1>1, <1>3, SegTyped, PutTyped DEF RecvSynRcvd
  <2> HIDE DEF o
  <2>4. c \in ConnRecord
    BY <2>1 DEF ConnRecord
  <2>5. /\ c.state = "OPEN" /\ c.timer = "off" /\ c.told = conn[r].told + 1
        /\ c.ended = conn[r].ended /\ conn' = [conn EXCEPT ![r] = c]
    BY <2>1, <2>2, <2>4 DEF ConnRecord
  <2> HIDE DEF c
  <2>6. Opens(r, c)
    BY <1>1, <2>2, <2>4, <2>5 DEF Opens, Becomes
  <2> QED BY <2>3, <2>6 DEF ArdpLife
<1> QED BY <1>2, <1>3 DEF RecvSynRcvd

LEMMA RecvOpenStep ==
    ASSUME ArdpInv, NEW r \in Recs, NEW m \in Segment, NEW base \in SUBSET Segment,
           RecvOpen(r, m, base)
    PROVE  net' \subseteq Segment /\ \E c : ArdpLife(r, c)
<1>1. conn[r].state = "OPEN" /\ m.src \in Recs \cup {Half}
  BY DEF RecvOpen, Segment
<1>2. CASE Disconnect(r, "remote", base)
  BY <1>1, <1>2, DisconnectStep DEF ArdpLife
<1>3. CASE m.kind # "RST"
  BY <1>1, <1>3, HeardStep, SegTyped, PutTyped DEF RecvOpen
<1> QED BY <1>2, <1>3 DEF RecvOpen

LEMMA GarbageTyped == ASSUME NEW s \in Sides PROVE Garbage(s) \in Segment
BY DEF Garbage, Segment, Sides, Other

LEMMA RecvGarbageStep ==
    ASSUME ArdpInv, NEW m \in Segment, NEW base \in SUBSET Segment, RecvGarbage(m, base)
    PROVE  /\ net' \subseteq Segment
           /\ \/ UNCHANGED <<conn, queue>>
              \/ \E r \in Recs : \E c : ArdpLife(r, c)
<1>1. CASE net' = base /\ UNCHANGED <<conn, queue>>
  BY <1>1
<1>2. ASSUME NEW r \in Recs, IsConnValid(r), ~IsDead(conn[r]),
             \/ conn[r].state = "SYN_SENT" /\ FailConnect(r) /\ net' = base
             \/ Disconnect(r, "remote", base)
             \/ Disconnect(r, "local", base)
      PROVE  net' \subseteq Segment /\ \E c : ArdpLife(r, c)
  <2>1. conn[r].state \in {"SYN_SENT", "SYN_RCVD", "OPEN"}
    <3>1. conn[r].state \in States
      BY RecordTyped DEF ConnRecord
    <3> QED BY <1>2, <3>1 DEF IsConnValid, IsDead, States
  <2>2. CASE conn[r].state = "SYN_SENT" /\ FailConnect(r) /\ net' = base
    BY <2>2, FailConnectStep DEF ArdpLife
  <2>3. CASE Disconnect(r, "remote", base)
    BY <2>1, <2>3, DisconnectStep DEF ArdpLife
  <2>4. CASE Disconnect(r, "local", base)
    BY <2>1, <2>4, DisconnectStep DEF ArdpLife
  <2> QED BY <1>2, <2>2, <2>3, <2>4
<1> QED BY <1>1, <1>2 DEF RecvGarbage

LEMMA ReceiveStep ==
    ASSUME ArdpInv, ReceiveSegment
    PROVE  Typed /\ (UNCHANGED <<conn, queue>> \/ \E r \in Recs : \E c : ArdpLife(r, c))
<1>m. PICK m \in net : \E base \in {net, net \ {m}} : Take(m, base) /\ Deliver(m, base)
  BY DEF ReceiveSegment
<1>1. PICK base \in {net, net \ {m}} : Take(m, base) /\ Deliver(m, base)
  BY <1>m
<1>2. /\ net \subseteq Segment /\ m \in Segment /\ base \in SUBSET Segment
      /\ dups' \in Nat /\ bad \in Nat
  BY <1>1 DEF ArdpInv, ArdpTypeOK, Take
<1>3. ASSUME NEW r \in Recs, NEW st, RecvSynSent(r, m, st, base)
      PROVE  Typed /\ \E c : ArdpLife(r, c)
  BY <1>2, <1>3, RecvSynSentStep DEF Typed
<1>4. ASSUME NEW r \in Recs, UNCHANGED bad, RecvSynRcvd(r, m, base)
      PROVE  Typed /\ \E c : ArdpLife(r, c)
  BY <1>2, <1>4, RecvSynRcvdStep DEF Typed
<1>5. ASSUME NEW r \in Recs, UNCHANGED bad, RecvOpen(r, m, base)
      PROVE  Typed /\ \E c : ArdpLife(r, c)
  BY <1>2, <1>5, RecvOpenStep DEF Typed
<1>6. ASSUME NEW r \in Recs, UNCHANGED bad, RecvDead(r, m, base)
      PROVE  Typed /\ UNCHANGED <<conn, queue>>
  BY <1>2, <1>6, SideTyped, GarbageTyped, PutTyped DEF Typed, RecvDead
<1>7. CASE UNCHANGED bad /\ RecvUnknown(m, base)
  BY <1>2, <1>7 DEF Typed, RecvUnknown
<1>8. CASE UNCHANGED bad /\ RecvNoRequest(m, base)
  BY <1>2, <1>8, GarbageTyped, PutTyped DEF Typed, RecvNoRequest, Sides
<1>9. CASE UNCHANGED bad /\ RecvGarbage(m, base)
  BY <1>2, <1>9, RecvGarbageStep DEF Typed
<1> QED BY <1>1, <1>3, <1>4, <1>5, <1>6, <1>7, <1>8, <1>9 DEF Deliver, FindConn

\* Every step of ARDP's threads leaves the records alone or is one step in the
\* life of one connection.
LEMMA ArdpNextStep ==
    ASSUME ArdpInv, ArdpNext
    PROVE  Typed /\ (UNCHANGED <<conn, queue>> \/ \E r \in Recs : \E c : ArdpLife(r, c))
<1>1. CASE Lose
  BY <1>1 DEF Lose, Typed, ArdpInv, ArdpTypeOK
<1> QED BY <1>1, ConnectTimerStep, ProbeTimerStep, DisconnectTimerStep, ReceiveStep DEF ArdpNext

\* A step in the life of a connection preserves the invariant.
LEMMA LifeInv ==
    ASSUME ArdpInv, Typed, NEW r \in Recs, NEW c, Life(r, c)
    PROVE  ArdpInv'
BY LifeRecords, LifeQueues DEF ArdpInv, ArdpTypeOK, Typed
=============================================================================
