---------------------------- MODULE ArdpConnect ----------------------------
(***************************************************************************)
(* Connection management of ARDP (alljoyn_core/router/ArdpProtocol.cc):    *)
(* the three-way handshake, the connect, probe and disconnect timers, and  *)
(* the callbacks they make, between one handle that connects and one that  *)
(* accepts, over a network that loses, repeats and reorders datagrams.     *)
(* The data path of an open connection is the module ArdpStream; here a    *)
(* connection carries only its handshake and its probes, so every segment  *)
(* of the right ports passes the sequence number checks and the receive    *)
(* queue is always empty.  What the upper layer does in AcceptCb() and     *)
(* with the callbacks is the module UDPTransport, which extends this one.  *)
(***************************************************************************)
EXTENDS Integers, Sequences, FiniteSets

CONSTANTS
    Active,         \* connection records the connecting handle may allocate
    Passive,        \* connection records the accepting handle may allocate
    ConnectTries,   \* config.connectRetries + 1
    ProbeRetries,   \* config.keepaliveRetries
    SendStatus,     \* what a socket write may return: "ok", "wouldblock", "fail"
    GarbageReads,   \* how the header SendRst() never fills in may read: "rst", "bad"
    WireCap,        \* bound: datagrams in flight
    MaxDup,         \* bound: datagrams the network repeats
    MaxBad          \* bound: writes that do not return "ok"

(***************************************************************************)
(* A record is named by a number which stands for its id, its ARDP port    *)
(* and its initial sequence number: all three are drawn at random and      *)
(* taken never to repeat, and ids are 32 bits wide, so there are finitely  *)
(* many.  0 is the port of a peer not known yet.                           *)
(***************************************************************************)
ASSUME RecordAssumption ==
    /\ Active \subseteq Nat \ {0} /\ Passive \subseteq Nat \ {0}
    /\ IsFiniteSet(Active) /\ IsFiniteSet(Passive)
    /\ Active \cap Passive = {}

ASSUME ConfigAssumption ==
    /\ ConnectTries \in Nat \ {0} /\ ProbeRetries \in Nat
    /\ SendStatus \subseteq {"ok", "wouldblock", "fail"}
    /\ GarbageReads \subseteq {"rst", "bad"}

Recs == Active \cup Passive
Half == 0
Sides == {"C", "S"}
Side(r) == IF r \in Active THEN "C" ELSE "S"
Other(s) == IF s = "C" THEN "S" ELSE "C"

VARIABLES
    conn,    \* [Recs -> record], the two handles' lists of records
    net,     \* the set of segments in flight
    queue,   \* [Sides -> Seq(callback)], m_workerCommandQueue of each transport
    dups,    \* datagrams repeated so far
    bad      \* writes that failed so far

ardpVars == <<conn, net, queue, dups, bad>>

(***************************************************************************)
(* State of a record: "none" before NewConnRecord(), "gone" after          *)
(* DelConnRecord().  timer tells which handler connectTimer holds; told    *)
(* and ended count the ConnectCb and DisconnectCb calls made for it.       *)
(***************************************************************************)
States == {"none", "CLOSED", "SYN_SENT", "SYN_RCVD", "OPEN", "CLOSE_WAIT", "gone"}
NewRecord == [state |-> "none", foreign |-> Half, timer |-> "off", retry |-> 0,
              reason |-> "none", probe |-> 0, told |-> 0, ended |-> 0]

IsConnValid(r) == conn[r].state \notin {"none", "gone"}
IsDead(c) == c.state \in {"CLOSED", "CLOSE_WAIT"}

\* NewConnRecord() and InitConnRecord(): the next unused id of the handle.
Unused(S) == {r \in S : conn[r].state = "none"}
IsNext(r, S) == r \in Unused(S) /\ \A q \in Unused(S) : r <= q

Seg(kind, r, dst) == [kind |-> kind, src |-> r, dst |-> dst, to |-> Other(Side(r))]
\* A full network drops what is written to it.
Put(n, segs) == IF Cardinality(n \cup segs) <= WireCap THEN n \cup segs ELSE n

Callback(cmd, r, status) == [cmd |-> cmd, rec |-> r, status |-> status]
Called(q, r, cbs) == [q EXCEPT ![Side(r)] = @ \o cbs]

\* The outcome of a write where the code looks at it.
Write(st) ==
    /\ st \in SendStatus
    /\ st # "ok" => bad < MaxBad
    /\ bad' = IF st = "ok" THEN bad ELSE bad + 1
Sent(st, seg) == IF st = "ok" THEN {seg} ELSE {}

\* DelConnRecord().
Deleted(c) == [NewRecord EXCEPT !.state = "gone", !.told = c.told, !.ended = c.ended]

(***************************************************************************)
(* Disconnect(): the record it leaves, the segment it sends and the        *)
(* callback it makes.  reason is "ok" for ARDP_Disconnect(), "remote" for  *)
(* a received RST, "local" for every other cause.                          *)
(***************************************************************************)
Disconnected(c, reason) ==
    IF IsDead(c) THEN c
    ELSE [c EXCEPT !.state = "CLOSE_WAIT", !.timer = "disconnect", !.retry = 1,
                   !.reason = reason, !.ended = IF reason = "ok" THEN @ ELSE @ + 1]
DisconnectSegs(r, reason) ==
    IF IsDead(conn[r]) \/ reason = "remote" THEN {}
    ELSE {Seg("RST", r, conn[r].foreign)}
\* Variant for mutation: an RST of the peer is not reported.
DisconnectCbsLocal(r, reason) ==
    IF IsDead(conn[r]) \/ reason # "local" THEN <<>>
    ELSE <<Callback("DISCONNECT_CB", r, "err")>>
DisconnectCbs(r, reason) ==
    IF IsDead(conn[r]) \/ reason = "ok" THEN <<>>
    ELSE <<Callback("DISCONNECT_CB", r, "err")>>

Disconnect(r, reason, base) ==
    /\ conn' = [conn EXCEPT ![r] = Disconnected(@, reason)]
    /\ net' = Put(base, DisconnectSegs(r, reason))
    /\ queue' = Called(queue, r, DisconnectCbs(r, reason))

\* Variant for mutation: the connect timer of a failed connect keeps running.
FailConnectArmed(r) ==
    /\ conn' = [conn EXCEPT ![r].state = "CLOSED", ![r].told = @ + 1]
    /\ queue' = Called(queue, r, <<Callback("CONNECT_CB", r, "err")>>)

\* The record is closed with an error before it was open: ConnectCb(status).
FailConnect(r) ==
    /\ conn' = [conn EXCEPT ![r].state = "CLOSED", ![r].timer = "off",
                            ![r].retry = 0, ![r].told = @ + 1]
    /\ queue' = Called(queue, r, <<Callback("CONNECT_CB", r, "err")>>)

(***************************************************************************)
(* ARDP_Connect(): allocate a record and send the SYN.  A write that       *)
(* would block counts as sent; one that fails deletes the record.          *)
(***************************************************************************)
SendSyn(r, c, st) ==
    IF st = "fail" THEN Deleted(c)
    ELSE [c EXCEPT !.state = IF r \in Active THEN "SYN_SENT" ELSE "SYN_RCVD",
                   !.timer = "connect", !.retry = ConnectTries]

ARDP_Connect(r, st) ==
    /\ IsNext(r, Active)
    /\ Write(st)
    /\ conn' = [conn EXCEPT ![r] = SendSyn(r, @, st)]
    /\ net' = Put(net, Sent(st, Seg("SYN", r, Half)))
    /\ UNCHANGED <<queue, dups>>

-----------------------------------------------------------------------------
(***************************************************************************)
(* Timers, each fired by CheckConnTimers().                                *)
(***************************************************************************)

\* ConnectTimerHandler(): send the SYN or SYN-ACK again, or give up.
ConnectTimer(r, st) ==
    LET c == conn[r]
        kind == IF r \in Active THEN "SYN" ELSE "SYNACK"
    IN  /\ c.timer = "connect" /\ c.retry # 0
        /\ UNCHANGED dups
        /\ \/ /\ c.retry > 1
              /\ Write(st)
              /\ \/ /\ st # "fail"
                    /\ conn' = [conn EXCEPT ![r].retry = @ - 1]
                    /\ net' = Put(net, Sent(st, Seg(kind, r, c.foreign)))
                    /\ UNCHANGED queue
                 \/ /\ st = "fail"
                    /\ FailConnect(r)
                    /\ net' = Put(net, {Seg("RST", r, c.foreign)})
           \/ /\ c.retry = 1 /\ st = "ok"
              /\ FailConnect(r)
              /\ net' = Put(net, {Seg("RST", r, c.foreign)})
              /\ UNCHANGED bad

\* DisconnectTimerHandler(): the last callback of a local disconnect, then
\* the record goes.
DisconnectTimer(r) ==
    LET c == conn[r]
        owes == c.reason = "ok"
    IN  /\ c.timer = "disconnect" /\ c.retry # 0
        /\ conn' = [conn EXCEPT ![r] = [Deleted(c) EXCEPT
                        !.ended = IF owes THEN @ + 1 ELSE @]]
        /\ queue' = IF owes THEN Called(queue, r, <<Callback("DISCONNECT_CB", r, "ok")>>)
                    ELSE queue
        /\ UNCHANGED <<net, dups, bad>>

\* Variant for mutation: a probe that was sent is not counted.
ProbeTimerUncounted(r, st) ==
    /\ conn[r].state = "OPEN" /\ conn[r].probe # 0
    /\ Write(st)
    /\ \/ /\ st # "fail"
          /\ net' = Put(net, Sent(st, Seg("NUL", r, conn[r].foreign)))
          /\ UNCHANGED <<conn, queue>>
       \/ /\ st = "fail"
          /\ Disconnect(r, "local", net)
    /\ UNCHANGED dups

\* ProbeTimerHandler() when nothing was heard for one interval.
ProbeTimer(r, st) ==
    /\ conn[r].state = "OPEN"
    /\ UNCHANGED dups
    /\ \/ /\ conn[r].probe = 0 /\ st = "ok"
          /\ Disconnect(r, "local", net)
          /\ UNCHANGED bad
       \/ /\ conn[r].probe # 0
          /\ Write(st)
          /\ \/ /\ st # "fail"
                /\ conn' = [conn EXCEPT ![r].probe = IF st = "ok" THEN @ - 1 ELSE @]
                /\ net' = Put(net, Sent(st, Seg("NUL", r, conn[r].foreign)))
                /\ UNCHANGED queue
             \/ /\ st = "fail"
                /\ Disconnect(r, "local", net)

-----------------------------------------------------------------------------
(***************************************************************************)
(* ARDP_Run(): one datagram.  base is the network once it was read.        *)
(***************************************************************************)

\* FindConn(local, foreign), then the half open FindConn(local, 0).
FindConn(m) ==
    {r \in Recs : /\ r = m.dst /\ IsConnValid(r)
                  /\ conn[r].foreign \in {m.src, Half}}

\* ARDP_Run() notes that the peer was heard before it looks at the segment.
Heard(c) == [c EXCEPT !.probe = ProbeRetries]
Opened(c, peer) == [c EXCEPT !.state = "OPEN", !.foreign = peer, !.timer = "off",
                             !.retry = 0, !.probe = ProbeRetries]

\* What SendRst() sends is the uninitialised h, not the RST it composed.
Garbage(s) == [kind |-> "GARBAGE", src |-> Half, dst |-> Half, to |-> Other(s)]

\* ArdpMachine(), case SYN_SENT.
RecvSynSent(r, m, st, base) ==
    /\ conn[r].state = "SYN_SENT"
    /\ \/ /\ m.kind = "RST" /\ st = "ok"
          /\ FailConnect(r)
          /\ net' = base
          /\ UNCHANGED bad
       \/ /\ m.kind = "SYNACK"
          /\ Write(st)
          /\ \/ /\ st # "fail"
                /\ conn' = [conn EXCEPT ![r] = [Opened(conn[r], m.src) EXCEPT
                                !.told = IF st = "ok" THEN @ + 1 ELSE @]]
                /\ queue' = Called(queue, r,
                       IF st = "ok" THEN <<Callback("CONNECT_CB", r, "ok")>> ELSE <<>>)
                /\ net' = Put(base, Sent(st, Seg("ACK", r, m.src)))
             \/ /\ st = "fail"
                /\ conn' = [conn EXCEPT ![r] = [Opened(conn[r], m.src) EXCEPT
                                !.state = "CLOSED", !.told = @ + 1]]
                /\ queue' = Called(queue, r, <<Callback("CONNECT_CB", r, "err")>>)
                /\ net' = base
       \/ /\ m.kind \notin {"RST", "SYNACK"} /\ st = "ok"
          /\ conn' = [conn EXCEPT ![r] = Heard(@)]
          /\ net' = base
          /\ UNCHANGED <<queue, bad>>

\* ArdpMachine(), case SYN_RCVD.
RecvSynRcvd(r, m, base) ==
    /\ conn[r].state = "SYN_RCVD"
    /\ \/ /\ m.kind = "RST"
          /\ Disconnect(r, "remote", base)
       \/ /\ m.kind \in {"ACK", "NUL"}
          /\ conn' = [conn EXCEPT ![r] = [Opened(conn[r], m.src) EXCEPT !.told = @ + 1]]
          /\ queue' = Called(queue, r, <<Callback("CONNECT_CB", r, "ok")>>)
          /\ net' = Put(base, IF m.kind = "NUL" THEN {Seg("ACK", r, m.src)} ELSE {})

\* ArdpMachine(), case OPEN.  A repeated SYN-ACK carries the hello reply, so
\* it counts as a duplicate data segment and is acknowledged again.
RecvOpen(r, m, base) ==
    /\ conn[r].state = "OPEN"
    /\ \/ /\ m.kind = "RST"
          /\ Disconnect(r, "remote", base)
       \/ /\ m.kind # "RST"
          /\ conn' = [conn EXCEPT ![r] = Heard(@)]
          /\ net' = Put(base, IF m.kind = "ACK" THEN {} ELSE {Seg("ACK", r, m.src)})
          /\ UNCHANGED queue

\* A record that is CLOSED or in CLOSE_WAIT answers a NUL segment only.
RecvDead(r, m, base) ==
    /\ IsDead(conn[r])
    /\ net' = Put(base, IF m.kind = "NUL" THEN {Garbage(Side(r))} ELSE {})
    /\ UNCHANGED <<conn, queue>>

\* A segment of no known connection is dropped.
RecvUnknown(m, base) ==
    /\ m.dst # Half /\ FindConn(m) = {}
    /\ net' = base
    /\ UNCHANGED <<conn, queue>>

\* IsDuplicateConnRequest(): the peer's port already has a record.
IsDuplicateConnRequest(m) == \E r \in Passive : IsConnValid(r) /\ conn[r].foreign = m.src

\* A connection request that makes no record: a repeated SYN is left to the
\* connect timer; an RST of a connection not yet open goes to port 0, where
\* it is ignored or answered by SendRst().
RecvNoRequest(m, base) ==
    /\ m.kind \in {"SYN", "RST"} /\ m.dst = Half
    /\ m.kind = "RST" \/ IsDuplicateConnRequest(m)
    /\ net' = Put(base, IF IsDuplicateConnRequest(m) THEN {} ELSE {Garbage("S")})
    /\ UNCHANGED <<conn, queue>>

\* The bytes of an unfilled header match no record, or read as an RST of a
\* live one, or as a segment of it that fails the checks of Receive().
RecvGarbage(m, base) ==
    /\ m.kind = "GARBAGE"
    /\ \/ /\ net' = base
          /\ UNCHANGED <<conn, queue>>
       \/ \E r \in {q \in Recs : Side(q) = m.to /\ IsConnValid(q) /\ ~IsDead(conn[q])} :
            \/ /\ "rst" \in GarbageReads
               /\ IF conn[r].state = "SYN_SENT" THEN FailConnect(r) /\ net' = base
                  ELSE Disconnect(r, "remote", base)
            \/ /\ "bad" \in GarbageReads
               /\ Disconnect(r, "local", base)

\* The network delivers m, and may keep a copy of it.
Take(m, base) ==
    \/ base = net \ {m} /\ UNCHANGED dups
    \/ base = net /\ dups < MaxDup /\ dups' = dups + 1

Deliver(m, base) ==
    \/ \E r \in FindConn(m) :
         \/ \E st \in SendStatus : RecvSynSent(r, m, st, base)
         \/ UNCHANGED bad /\ \/ RecvSynRcvd(r, m, base)
                             \/ RecvOpen(r, m, base)
                             \/ RecvDead(r, m, base)
    \/ UNCHANGED bad /\ \/ RecvUnknown(m, base)
                        \/ RecvNoRequest(m, base)
                        \/ RecvGarbage(m, base)

ReceiveSegment == \E m \in net : \E base \in {net, net \ {m}} : Take(m, base) /\ Deliver(m, base)

\* The network loses a datagram.
Lose == \E m \in net : net' = net \ {m} /\ UNCHANGED <<conn, queue, dups, bad>>

ArdpInit ==
    /\ conn = [r \in Recs |-> NewRecord]
    /\ net = {}
    /\ queue = [s \in Sides |-> <<>>]
    /\ dups = 0 /\ bad = 0

\* The steps of the two ARDP threads that need nothing of the layer above.
ArdpNext ==
    \/ \E r \in Recs, st \in SendStatus : ConnectTimer(r, st) \/ ProbeTimer(r, st)
    \/ \E r \in Recs : DisconnectTimer(r)
    \/ ReceiveSegment
    \/ Lose

-----------------------------------------------------------------------------
\* Types.
ConnRecord ==
    [state : States, foreign : Recs \cup {Half}, timer : {"off", "connect", "disconnect"},
     retry : Nat, reason : {"none", "ok", "remote", "local"}, probe : 0 .. ProbeRetries,
     told : Nat, ended : Nat]
Segment ==
    [kind : {"SYN", "SYNACK", "ACK", "NUL", "RST", "GARBAGE"}, src : Recs \cup {Half},
     dst : Recs \cup {Half}, to : Sides]
CallbackRecord ==
    [cmd : {"CONNECT_CB", "DISCONNECT_CB"}, rec : Recs, status : {"ok", "err"}]

ArdpTypeOK ==
    /\ conn \in [Recs -> ConnRecord]
    /\ net \subseteq Segment
    /\ queue \in [Sides -> Seq(CallbackRecord)]
    /\ dups \in Nat /\ bad \in Nat
=============================================================================
