------------------------- MODULE UDPTransportProofs -------------------------
(***************************************************************************)
(* Proofs about the UDP transport, for any number of records and any       *)
(* limits: no slot is lost, no endpoint is left without the callback that  *)
(* stops it, no open connection without an owner.  The argument follows    *)
(* one connection at a time: what ties its ARDP record, its endpoint, its  *)
(* connecting thread and its waiting callbacks together (Bound) is changed *)
(* by few steps, and the counters count the connections in each situation. *)
(***************************************************************************)
EXTENDS UDPTransport, ArdpConnectProofs, FiniteSetTheorems

-----------------------------------------------------------------------------
(* The inductive invariant.                                                *)

\* The callback waits in the queue of its router.
Waits(r, cmd, status) ==
    \E i \in 1 .. Len(queue[Side(r)]) : queue[Side(r)][i] = Callback(cmd, r, status)
ConnectWaits(r) == Waits(r, "CONNECT_CB", "ok") \/ Waits(r, "CONNECT_CB", "err")
DisconnectWaits(r) == Waits(r, "DISCONNECT_CB", "ok") \/ Waits(r, "DISCONNECT_CB", "err")

\* A record is made by a thread in Connect() or by AcceptCb() with its endpoint.
Made(r) ==
    /\ r \in Active => /\ IsConnValid(r) => thread[r] # "none"
                       /\ conn[r].state = "none" => thread[r] = "none"
    /\ conn[r].state = "none" => ep[r].list = "none"

\* An active endpoint is made by the ConnectCb, a passive one before it.
Told(r) ==
    /\ r \in Active => /\ ep[r].list \notin {"pre", "auth"}
                       /\ conn[r].told = 0 \/ ConnectWaits(r) => ep[r].list = "none"
    /\ conn[r].state = "SYN_RCVD" => ep[r].list \in {"pre", "auth"}
    /\ r \in Passive /\ IsConnValid(r) =>
          (conn[r].told = 1 /\ ep[r].list \in {"pre", "auth"} <=> ConnectWaits(r))

\* What a ConnectCb that waits says of the connection.
ConnectTells(r) ==
    /\ ConnectWaits(r) /\ conn[r].ended = 1 => DisconnectWaits(r)
    /\ Waits(r, "CONNECT_CB", "ok") =>
          /\ conn[r].state \in {"OPEN", "CLOSE_WAIT", "gone"}
          /\ conn[r].state = "CLOSE_WAIT" => conn[r].reason # "ok"

\* How far an endpoint has come.
Stage(r) ==
    /\ ep[r].list \in {"pre", "auth"} => ep[r].st = "PASSIVE_STARTED"
    /\ waking = r => ep[r].list = "ep" /\ ep[r].st = "ACTIVE_STARTED"
    /\ ep[r].st \in {"JOINED", "DONE"} => ep[r].disc
    /\ ep[r].st = "STOPPING" => ep[r].list = "ep"
    /\ ep[r].disc \/ ep[r].discSent =>
          ep[r].list = "ep" /\ conn[r].state \in {"CLOSED", "CLOSE_WAIT", "gone"}

\* A disconnect of the transport's own was made by this endpoint's stream.
Asked(r) ==
    /\ \/ conn[r].state = "CLOSE_WAIT" /\ conn[r].reason = "ok"
       \/ Waits(r, "DISCONNECT_CB", "ok")
       => ep[r].list = "erased" \/ ep[r].discSent
    /\ ep[r].wait => ep[r].disc \/ ~ep[r].discSent

\* EndpointHears and OpenHasOwner, of one connection.
Owned(r) ==
    /\ ep[r].list = "ep" /\ ep[r].st \in {"ACTIVE_STARTED", "STARTED"} =>
          conn[r].state = "OPEN" \/ DisconnectWaits(r)
    /\ conn[r].state = "OPEN" /\ conn[r].told = 1 =>
          ConnectWaits(r) \/ (ep[r].list = "ep" /\ ~ep[r].disc)

Bound(r) ==
    Made(r) /\ Told(r) /\ ConnectTells(r) /\ Stage(r) /\ Asked(r) /\ Owned(r)

\* The connection holds a slot of m_currAuth, of m_currConn, is an untrusted
\* client that a DisconnectCb will take off the count.
InAuth(r) ==
    \/ ep[r].list \in {"pre", "auth"}
    \/ r \in Active /\ ((thread[r] # "none" /\ conn[r].told = 0) \/ ConnectWaits(r))
InConn(r) == InAuth(r) \/ ep[r].list = "ep"
IsCovered(r) ==
    /\ ep[r].list \in {"pre", "auth", "ep"}
    /\ \/ conn[r].state \in {"SYN_RCVD", "OPEN"}
       \/ conn[r].state = "CLOSE_WAIT" /\ conn[r].reason = "ok"
       \/ DisconnectWaits(r)

AuthSet(s) == {r \in Recs : Side(r) = s /\ InAuth(r)}
ConnSet(s) == {r \in Recs : Side(r) = s /\ InConn(r)}
Covered == {r \in Untrusted : IsCovered(r)}

Counts ==
    /\ \A s \in Sides : /\ currAuth[s] = Cardinality(AuthSet(s))
                        /\ currConn[s] = Cardinality(ConnSet(s))
    /\ untrusted >= Cardinality(Covered)

Inv == TypeOK /\ ArdpInv /\ (\A r \in Recs : Bound(r)) /\ Counts

-----------------------------------------------------------------------------
(* The callback queues.                                                    *)

\* What waits in the queue, in the terms of the model's properties and in
\* those of the invariant of the protocol below.
LEMMA WaitsMeans ==
    ASSUME ArdpInv, NEW r \in Recs
    PROVE  /\ Queued(r, "CONNECT_CB") # {} <=> ConnectWaits(r)
           /\ Queued(r, "DISCONNECT_CB") # {} <=> DisconnectWaits(r)
           /\ \A i \in Queued(r, "DISCONNECT_CB") :
                 queue[Side(r)][i].status = "ok" => Waits(r, "DISCONNECT_CB", "ok")
           /\ ConnectWaits(r) => conn[r].told = 1
           /\ Waits(r, "CONNECT_CB", "err") => conn[r].state \in {"CLOSED", "gone"}
           /\ DisconnectWaits(r) => conn[r].ended = 1 /\ conn[r].state \in {"CLOSE_WAIT", "gone"}
<1> DEFINE q == queue[Side(r)]
<1>1. /\ Side(r) \in Sides /\ Len(q) \in Nat
      /\ \A i \in 1 .. Len(q) : q[i] \in CallbackRecord /\ CallbackOK(conn, Side(r), q[i])
  BY SideTyped DEF ArdpInv, ArdpTypeOK, CallbacksOK
<1>2. \A b \in CallbackRecord : /\ b.cmd \in {"CONNECT_CB", "DISCONNECT_CB"}
                                /\ b.status \in {"ok", "err"}
                                /\ b = Callback(b.cmd, b.rec, b.status)
  BY DEF CallbackRecord, Callback
<1>3. \A cmd, st : /\ Callback(cmd, r, st).cmd = cmd /\ Callback(cmd, r, st).rec = r
                   /\ Callback(cmd, r, st).status = st
  BY DEF Callback
<1>4. \A cmd \in {"CONNECT_CB", "DISCONNECT_CB"} :
        Queued(r, cmd) # {} <=> Waits(r, cmd, "ok") \/ Waits(r, cmd, "err")
  BY <1>1, <1>2, <1>3 DEF Queued, Waits
<1>5. \A i \in Queued(r, "DISCONNECT_CB") :
         queue[Side(r)][i].status = "ok" => Waits(r, "DISCONNECT_CB", "ok")
  BY <1>1, <1>2 DEF Queued, Waits
<1>6. ASSUME NEW cmd, NEW st, Waits(r, cmd, st)
      PROVE  CallbackOK(conn, Side(r), Callback(cmd, r, st))
  BY <1>1, <1>6 DEF Waits
<1>7. /\ ConnectWaits(r) => conn[r].told = 1
      /\ Waits(r, "CONNECT_CB", "err") => conn[r].state \in {"CLOSED", "gone"}
      /\ DisconnectWaits(r) => conn[r].ended = 1 /\ conn[r].state \in {"CLOSE_WAIT", "gone"}
  BY <1>3, <1>6 DEF CallbackOK, ConnectWaits, DisconnectWaits
<1> QED BY <1>4, <1>5, <1>7 DEF ConnectWaits, DisconnectWaits

SameWaits(r) ==
    /\ Waits(r, "CONNECT_CB", "ok")' <=> Waits(r, "CONNECT_CB", "ok")
    /\ Waits(r, "CONNECT_CB", "err")' <=> Waits(r, "CONNECT_CB", "err")
    /\ Waits(r, "DISCONNECT_CB", "ok")' <=> Waits(r, "DISCONNECT_CB", "ok")
    /\ Waits(r, "DISCONNECT_CB", "err")' <=> Waits(r, "DISCONNECT_CB", "err")

LEMMA QueueSame ==
    ASSUME UNCHANGED queue, NEW r \in Recs PROVE SameWaits(r)
BY DEF SameWaits, Waits

\* A callback that is made waits from now on, and nothing else changes.
LEMMA LoudWaits ==
    ASSUME ArdpInv, NEW r \in Recs, NEW c, NEW k \in {"CONNECT_CB", "DISCONNECT_CB"},
           NEW st \in {"ok", "err"}, Becomes(r, c, <<Callback(k, r, st)>>)
    PROVE  /\ \A x \in Recs \ {r} : SameWaits(x)
           /\ \A cmd \in {"CONNECT_CB", "DISCONNECT_CB"}, status \in {"ok", "err"} :
                 Waits(r, cmd, status)' <=> Waits(r, cmd, status) \/ (cmd = k /\ status = st)
<1> DEFINE b == Callback(k, r, st)
           n == Len(queue[Side(r)])
<1>1. b \in CallbackRecord
  BY DEF Callback, CallbackRecord
<1>2. /\ \A s \in Sides : s # Side(r) => queue'[s] = queue[s]
      /\ Len(queue'[Side(r)]) = n + 1
      /\ \A i \in 1 .. n : queue'[Side(r)][i] = queue[Side(r)][i]
      /\ queue'[Side(r)][n + 1] = b
  BY <1>1, CalledOne DEF ArdpInv, Becomes
<1>3. n \in Nat
  BY SideTyped DEF ArdpInv, ArdpTypeOK
<1>4. ASSUME NEW x \in Recs, NEW cmd \in {"CONNECT_CB", "DISCONNECT_CB"},
             NEW status \in {"ok", "err"}
      PROVE  Waits(x, cmd, status)' <=>
                Waits(x, cmd, status) \/ (x = r /\ cmd = k /\ status = st)
  <2>1. Callback(cmd, x, status) = b <=> x = r /\ cmd = k /\ status = st
    BY DEF Callback
  <2>2. CASE Side(x) # Side(r)
    BY <1>2, <2>2, SideTyped DEF Waits
  <2>3. CASE Side(x) = Side(r)
    <3> HIDE DEF n, b
    <3>1. \A i \in 1 .. (n + 1) : i \in 1 .. n \/ i = n + 1
      BY <1>3
    <3>2. n + 1 \in 1 .. (n + 1) /\ \A i \in 1 .. n : i \in 1 .. (n + 1)
      BY <1>3
    <3> QED BY <1>2, <2>1, <2>3, <3>1, <3>2 DEF Waits, n
  <2> QED BY <2>2, <2>3
<1> QED BY <1>4 DEF SameWaits

\* Working off the first callback takes that one away, and a DisconnectCb is
\* worked off after the ConnectCb of its connection.
LEMMA PopWaits ==
    ASSUME ArdpInv, NEW s \in Sides, queue[s] # <<>>, Pop(s),
           NEW r, NEW k, NEW st, Head(queue[s]) = Callback(k, r, st)
    PROVE  /\ r \in Recs /\ Side(r) = s
           /\ k \in {"CONNECT_CB", "DISCONNECT_CB"} /\ st \in {"ok", "err"}
           /\ Waits(r, k, st)
           /\ k = "DISCONNECT_CB" => ~ConnectWaits(r)
           /\ \A x \in Recs, cmd \in {"CONNECT_CB", "DISCONNECT_CB"}, status \in {"ok", "err"} :
                 Waits(x, cmd, status)' <=>
                    Waits(x, cmd, status) /\ ~(x = r /\ cmd = k /\ status = st)
           /\ \A status \in {"ok", "err"} : Waits(r, k, status) => status = st
<1> DEFINE q == queue[s]
           b == Callback(k, r, st)
<1>1. /\ q \in Seq(CallbackRecord) /\ q # <<>> /\ Len(q) \in Nat \ {0} /\ q[1] = b
      /\ queue \in [Sides -> Seq(CallbackRecord)]
      /\ \A i \in 1 .. Len(q) : q[i] \in CallbackRecord
  BY DEF ArdpInv, ArdpTypeOK
<1>2. b \in CallbackRecord /\ b.rec = r /\ b.cmd = k /\ b.status = st
  BY <1>1 DEF Callback
<1>3. /\ r \in Recs
      /\ k \in {"CONNECT_CB", "DISCONNECT_CB"} /\ st \in {"ok", "err"}
  BY <1>2 DEF CallbackRecord
<1>4. Side(r) = s
  BY <1>1, <1>2 DEF ArdpInv, CallbacksOK, CallbackOK
<1>5. Waits(r, k, st)
  BY <1>1, <1>4 DEF Waits
<1>6. /\ queue'[s] = Tail(q) /\ \A t \in Sides \ {s} : queue'[t] = queue[t]
      /\ Len(queue'[s]) = Len(q) - 1
      /\ \A i \in 1 .. (Len(q) - 1) : queue'[s][i] = q[i + 1]
  BY <1>1 DEF Pop
\* No other callback of this connection is of the same kind.
<1>7. \A j \in 2 .. Len(q) : q[j].rec = r => k = "CONNECT_CB" /\ q[j].cmd = "DISCONNECT_CB"
  BY <1>1, <1>2 DEF ArdpInv, QueueOrder
<1>8. ASSUME NEW x \in Recs, NEW cmd \in {"CONNECT_CB", "DISCONNECT_CB"},
             NEW status \in {"ok", "err"}
      PROVE  /\ Callback(cmd, x, status).rec = x /\ Callback(cmd, x, status).cmd = cmd
             /\ Callback(cmd, x, status) = b <=> x = r /\ cmd = k /\ status = st
  BY DEF Callback
<1> HIDE DEF b
<1>9. ASSUME NEW x \in Recs, NEW cmd \in {"CONNECT_CB", "DISCONNECT_CB"},
             NEW status \in {"ok", "err"}
      PROVE  Waits(x, cmd, status)' <=>
                    Waits(x, cmd, status) /\ ~(x = r /\ cmd = k /\ status = st)
  <2>1. CASE Side(x) # s
    BY <1>4, <1>6, <2>1, SideTyped DEF Waits
  <2>2. CASE Side(x) = s
    <3>1. ASSUME Waits(x, cmd, status)'
          PROVE  Waits(x, cmd, status) /\ ~(x = r /\ cmd = k /\ status = st)
      <4>1. PICK i \in 1 .. (Len(q) - 1) : q[i + 1] = Callback(cmd, x, status)
        BY <1>6, <2>2, <3>1 DEF Waits
      <4>2. i + 1 \in 1 .. Len(q) /\ i + 1 \in 2 .. Len(q)
        BY <1>1, <4>1
      <4>3. Waits(x, cmd, status)
        BY <2>2, <4>1, <4>2 DEF Waits
      <4> QED BY <1>7, <1>8, <4>1, <4>2, <4>3
    <3>2. ASSUME Waits(x, cmd, status), ~(x = r /\ cmd = k /\ status = st)
          PROVE  Waits(x, cmd, status)'
      <4>1. PICK i \in 1 .. Len(q) : q[i] = Callback(cmd, x, status)
        BY <2>2, <3>2 DEF Waits
      <4>2. i # 1
        BY <1>1, <1>8, <3>2, <4>1
      <4>3. i - 1 \in 1 .. (Len(q) - 1) /\ (i - 1) + 1 = i
        BY <1>1, <4>1, <4>2
      <4>4. queue'[s][i - 1] = q[i]
        BY <1>6, <4>3
      <4> QED BY <1>6, <2>2, <4>1, <4>3, <4>4 DEF Waits
    <3> QED BY <3>1, <3>2
  <2> QED BY <2>1, <2>2
<1>10. ASSUME NEW cmd \in {"CONNECT_CB", "DISCONNECT_CB"}, NEW status \in {"ok", "err"},
              Waits(r, cmd, status)
       PROVE  (k = "CONNECT_CB" /\ cmd = "DISCONNECT_CB") \/ (cmd = k /\ status = st)
  <2>1. PICK i \in 1 .. Len(q) : q[i] = Callback(cmd, r, status)
    BY <1>4, <1>10 DEF Waits
  <2>2. i = 1 \/ i \in 2 .. Len(q)
    BY <1>1
  <2> QED BY <1>1, <1>3, <1>7, <1>8, <2>1, <2>2
<1> QED BY <1>3, <1>4, <1>5, <1>9, <1>10 DEF ConnectWaits

-----------------------------------------------------------------------------
(* One connection at a time.                                               *)

\* The step does nothing to r, except that its endpoint may be moved from
\* m_preList to m_authList.
Same(r) ==
    /\ conn'[r] = conn[r]
    /\ \/ ep'[r] = ep[r]
       \/ ep[r].list = "pre" /\ ep'[r] = [ep[r] EXCEPT !.list = "auth"]
    /\ r \in Active => thread'[r] = thread[r]
    /\ waking' = r => waking = r
    /\ SameWaits(r)

LEMMA EpTyped ==
    ASSUME TypeOK, NEW r \in Recs
    PROVE  /\ ep[r] \in Endpoint
           /\ ep[r].list \in {"none", "pre", "auth", "ep", "erased"}
           /\ ep[r].st \in {"INITIALIZED", "PASSIVE_STARTED", "ACTIVE_STARTED", "STARTED",
                            "STOPPING", "JOINED", "DONE"}
           /\ ep[r].wait \in BOOLEAN /\ ep[r].disc \in BOOLEAN /\ ep[r].discSent \in BOOLEAN
<1>1. ep[r] \in Endpoint
  BY DEF TypeOK
<1> QED BY <1>1 DEF Endpoint

\* A connection that is left alone stays what it was.
LEMMA SameBound ==
    ASSUME TypeOK, NEW r \in Recs, Bound(r), Same(r)
    PROVE  /\ Bound(r)'
           /\ InAuth(r)' <=> InAuth(r)
           /\ InConn(r)' <=> InConn(r)
           /\ IsCovered(r)' <=> IsCovered(r)
<1> DEFINE e == ep[r]
<1>1. /\ ep'[r].list = e.list \/ (e.list = "pre" /\ ep'[r].list = "auth")
      /\ ep'[r].st = e.st /\ ep'[r].wait = e.wait /\ ep'[r].disc = e.disc
      /\ ep'[r].discSent = e.discSent
  <2>1. e \in Endpoint
    BY EpTyped
  <2> QED BY <2>1 DEF Same, Endpoint
<1>2. /\ conn'[r] = conn[r] /\ (r \in Active => thread'[r] = thread[r])
      /\ (waking' = r => waking = r) /\ SameWaits(r)
  BY DEF Same
<1>3. (ConnectWaits(r)' <=> ConnectWaits(r)) /\ (DisconnectWaits(r)' <=> DisconnectWaits(r))
  BY <1>2 DEF SameWaits, ConnectWaits, DisconnectWaits
<1>4. Made(r)'
  BY <1>1, <1>2 DEF Bound, Made, IsConnValid
<1>5. Told(r)'
  BY <1>1, <1>2, <1>3 DEF Bound, Told, IsConnValid
<1>6. ConnectTells(r)'
  BY <1>1, <1>2, <1>3 DEF Bound, ConnectTells, SameWaits
<1>7. Stage(r)'
  BY <1>1, <1>2, <1>3 DEF Bound, Stage
<1>8. Asked(r)'
  BY <1>1, <1>2, <1>3 DEF Bound, Asked, SameWaits
<1>9. Owned(r)'
  BY <1>1, <1>2, <1>3 DEF Bound, Owned
<1>10. InAuth(r)' <=> InAuth(r)
  BY <1>1, <1>2, <1>3 DEF InAuth
<1>11. IsCovered(r)' <=> IsCovered(r)
  BY <1>1, <1>2, <1>3 DEF IsCovered
<1> QED
  BY <1>1, <1>4, <1>5, <1>6, <1>7, <1>8, <1>9, <1>10, <1>11 DEF Bound, InConn

\* The step takes or gives back the slots of r, or leaves them.
AuthMoves(r) ==
    \/ (InAuth(r)' <=> InAuth(r)) /\ UNCHANGED currAuth
    \/ ~InAuth(r) /\ InAuth(r)' /\ currAuth' = [currAuth EXCEPT ![Side(r)] = @ + 1]
    \/ InAuth(r) /\ ~InAuth(r)' /\ currAuth' = [currAuth EXCEPT ![Side(r)] = @ - 1]
ConnMoves(r) ==
    \/ (InConn(r)' <=> InConn(r)) /\ UNCHANGED currConn
    \/ ~InConn(r) /\ InConn(r)' /\ currConn' = [currConn EXCEPT ![Side(r)] = @ + 1]
    \/ InConn(r) /\ ~InConn(r)' /\ currConn' = [currConn EXCEPT ![Side(r)] = @ - 1]
UntrustedMoves(r) ==
    \/ (r \in Untrusted /\ IsCovered(r)' => IsCovered(r)) /\ UNCHANGED untrusted
    \/ r \in Untrusted /\ untrusted' = untrusted + 1
    \/ r \in Untrusted /\ IsCovered(r) /\ ~IsCovered(r)' /\ untrusted' = untrusted - 1

\* The cardinality of a set that gains or loses one element, or none.
LEMMA OneMore ==
    ASSUME NEW S, NEW T, NEW x, IsFiniteSet(S), IsFiniteSet(T),
           \A y : y # x => (y \in S <=> y \in T)
    PROVE  /\ Cardinality(S) \in Nat /\ Cardinality(T) \in Nat
           /\ (x \in S <=> x \in T) => Cardinality(T) = Cardinality(S)
           /\ x \notin S /\ x \in T => Cardinality(T) = Cardinality(S) + 1
           /\ x \in S /\ x \notin T => Cardinality(T) = Cardinality(S) - 1
<1>1. Cardinality(S) \in Nat /\ Cardinality(T) \in Nat
  BY FS_CardinalityType
<1>2. ASSUME x \in S <=> x \in T PROVE Cardinality(T) = Cardinality(S)
  <2>1. S = T
    BY <1>2
  <2> QED BY <2>1
<1>3. ASSUME x \notin S, x \in T PROVE Cardinality(T) = Cardinality(S) + 1
  <2>1. T = S \cup {x}
    BY <1>3
  <2> QED BY <1>3, <2>1, FS_AddElement
<1>4. ASSUME x \in S, x \notin T PROVE Cardinality(T) = Cardinality(S) - 1
  <2>1. T = S \ {x}
    BY <1>4
  <2> QED BY <1>4, <2>1, FS_RemoveElement
<1> QED BY <1>1, <1>2, <1>3, <1>4

LEMMA FiniteParts ==
    /\ IsFiniteSet(Recs) /\ IsFiniteSet(Untrusted)
    /\ \A S \in SUBSET Recs : IsFiniteSet(S) /\ Cardinality(S) \in Nat
<1>1. IsFiniteSet(Recs)
  BY RecordAssumption, FS_Union DEF Recs
<1>2. Untrusted \in SUBSET Recs
  BY UntrustedAssumption DEF Recs
<1> QED BY <1>1, <1>2, FS_Subset, FS_CardinalityType

\* A step on one connection keeps the counters in step.
LEMMA MovesCount ==
    ASSUME TypeOK, Counts, NEW r \in Recs,
           \A x \in Recs \ {r} : /\ InAuth(x)' <=> InAuth(x)
                                 /\ InConn(x)' <=> InConn(x)
                                 /\ IsCovered(x)' <=> IsCovered(x),
           AuthMoves(r), ConnMoves(r), UntrustedMoves(r)
    PROVE  Counts'
<1>1. \A s \in Sides : /\ IsFiniteSet(AuthSet(s)) /\ IsFiniteSet(AuthSet(s)')
                       /\ IsFiniteSet(ConnSet(s)) /\ IsFiniteSet(ConnSet(s)')
  BY FiniteParts DEF AuthSet, ConnSet
<1>2. /\ IsFiniteSet(Covered) /\ IsFiniteSet(Covered') /\ Untrusted \subseteq Recs
      /\ Cardinality(Covered) \in Nat /\ Cardinality(Covered') \in Nat
  BY FiniteParts, UntrustedAssumption DEF Covered, Recs
<1>3. currAuth \in [Sides -> Int] /\ currConn \in [Sides -> Int] /\ untrusted \in Int
  BY DEF TypeOK
<1>4. Side(r) \in Sides
  BY SideTyped
<1>5. ASSUME NEW s \in Sides PROVE currAuth'[s] = Cardinality(AuthSet(s))'
  <2>1. currAuth[s] = Cardinality(AuthSet(s))
    BY DEF Counts
  <2>2. \A y : y # r => (y \in AuthSet(s) <=> y \in AuthSet(s)')
    BY DEF AuthSet
  <2>3. CASE s # Side(r)
    <3>1. r \notin AuthSet(s) /\ r \notin AuthSet(s)' /\ currAuth'[s] = currAuth[s]
      BY <1>3, <1>4, <2>3 DEF AuthSet, AuthMoves
    <3> QED BY <1>1, <2>1, <2>2, <3>1, OneMore
  <2>4. CASE s = Side(r)
    <3>1. (r \in AuthSet(s) <=> InAuth(r)) /\ (r \in AuthSet(s)' <=> InAuth(r)')
      BY <2>4 DEF AuthSet
    <3>2. \/ (InAuth(r)' <=> InAuth(r)) /\ currAuth'[s] = currAuth[s]
          \/ ~InAuth(r) /\ InAuth(r)' /\ currAuth'[s] = currAuth[s] + 1
          \/ InAuth(r) /\ ~InAuth(r)' /\ currAuth'[s] = currAuth[s] - 1
      BY <1>3, <2>4 DEF AuthMoves
    <3> QED BY <1>1, <2>1, <2>2, <3>1, <3>2, OneMore
  <2> QED BY <2>3, <2>4
<1>6. ASSUME NEW s \in Sides PROVE currConn'[s] = Cardinality(ConnSet(s))'
  <2>1. currConn[s] = Cardinality(ConnSet(s))
    BY DEF Counts
  <2>2. \A y : y # r => (y \in ConnSet(s) <=> y \in ConnSet(s)')
    BY DEF ConnSet
  <2>3. CASE s # Side(r)
    <3>1. r \notin ConnSet(s) /\ r \notin ConnSet(s)' /\ currConn'[s] = currConn[s]
      BY <1>3, <1>4, <2>3 DEF ConnSet, ConnMoves
    <3> QED BY <1>1, <2>1, <2>2, <3>1, OneMore
  <2>4. CASE s = Side(r)
    <3>1. (r \in ConnSet(s) <=> InConn(r)) /\ (r \in ConnSet(s)' <=> InConn(r)')
      BY <2>4 DEF ConnSet
    <3>2. \/ (InConn(r)' <=> InConn(r)) /\ currConn'[s] = currConn[s]
          \/ ~InConn(r) /\ InConn(r)' /\ currConn'[s] = currConn[s] + 1
          \/ InConn(r) /\ ~InConn(r)' /\ currConn'[s] = currConn[s] - 1
      BY <1>3, <2>4 DEF ConnMoves
    <3> QED BY <1>1, <2>1, <2>2, <3>1, <3>2, OneMore
  <2> QED BY <2>3, <2>4
<1>7. untrusted' >= Cardinality(Covered')
  <2>1. untrusted >= Cardinality(Covered)
    BY DEF Counts
  <2>2. \A y : y # r => (y \in Covered <=> y \in Covered')
    BY <1>2 DEF Covered
  <2>3. (r \in Covered <=> r \in Untrusted /\ IsCovered(r))
        /\ (r \in Covered' <=> r \in Untrusted /\ IsCovered(r)')
    BY DEF Covered
  <2>4. /\ Cardinality(Covered') <= Cardinality(Covered) + 1
        /\ (r \in Covered' => r \in Covered) => Cardinality(Covered') <= Cardinality(Covered)
        /\ r \in Covered /\ r \notin Covered' => Cardinality(Covered') = Cardinality(Covered) - 1
    BY <1>2, <2>2, OneMore
  <2> QED BY <1>2, <1>3, <2>1, <2>3, <2>4 DEF UntrustedMoves
<1> QED BY <1>5, <1>6, <1>7 DEF Counts

\* So a step that changes one connection preserves the invariant when it does
\* so for this connection.
LEMMA OneConnection ==
    ASSUME Inv, TypeOK', ArdpInv', NEW r \in Recs, \A x \in Recs \ {r} : Same(x),
           Bound(r)', AuthMoves(r), ConnMoves(r), UntrustedMoves(r)
    PROVE  Inv'
<1>1. TypeOK /\ Counts /\ \A x \in Recs : Bound(x)
  BY DEF Inv
<1>2. \A x \in Recs \ {r} : /\ Bound(x)'
                            /\ InAuth(x)' <=> InAuth(x)
                            /\ InConn(x)' <=> InConn(x)
                            /\ IsCovered(x)' <=> IsCovered(x)
  BY <1>1, SameBound
<1>3. Counts'
  BY <1>1, <1>2, MovesCount
<1> QED BY <1>2, <1>3 DEF Inv

LEMMA NoConnection ==
    ASSUME Inv, TypeOK', ArdpInv', \A x \in Recs : Same(x), UNCHANGED countVars
    PROVE  Inv'
<1>1. TypeOK /\ Counts /\ \A x \in Recs : Bound(x)
  BY DEF Inv
<1>2. \A x \in Recs : /\ Bound(x)'
                      /\ InAuth(x)' <=> InAuth(x)
                      /\ InConn(x)' <=> InConn(x)
                      /\ IsCovered(x)' <=> IsCovered(x)
  BY <1>1, SameBound
<1>3. /\ \A s \in Sides : AuthSet(s)' = AuthSet(s) /\ ConnSet(s)' = ConnSet(s)
      /\ Covered' = Covered
  BY <1>2, UntrustedAssumption DEF AuthSet, ConnSet, Covered, Recs
<1>4. Counts'
  BY <1>1, <1>3 DEF Counts, countVars
<1> QED BY <1>2, <1>4 DEF Inv

-----------------------------------------------------------------------------
(* Steps of ARDP.                                                          *)

\* What is known of one connection, in a form the steps below can use.
LEMMA Known ==
    ASSUME Inv, NEW r \in Recs
    PROVE  /\ Bound(r) /\ RecordOK(r) /\ conn[r] \in ConnRecord /\ ep[r] \in Endpoint
           /\ conn[r].state \in States /\ (r \in Active <=> r \notin Passive)
           /\ ConnectWaits(r) => conn[r].told = 1
           /\ Waits(r, "CONNECT_CB", "err") => conn[r].state \in {"CLOSED", "gone"}
           /\ DisconnectWaits(r) => conn[r].ended = 1 /\ conn[r].state \in {"CLOSE_WAIT", "gone"}
<1>1. TypeOK /\ ArdpInv /\ Bound(r)
  BY DEF Inv
<1>2. conn[r] \in ConnRecord /\ RecordOK(r)
  BY <1>1, RecordTyped
<1>3. conn[r].state \in States
  BY <1>2 DEF ConnRecord
<1>4. r \in Active <=> r \notin Passive
  BY RecordAssumption DEF Recs
<1> QED BY <1>1, <1>2, <1>3, <1>4, WaitsMeans, EpTyped

\* A record that changes while nothing is called changes nothing else.
LEMMA QuietWaits ==
    ASSUME ArdpInv, NEW r \in Recs, NEW c, Becomes(r, c, <<>>)
    PROVE  \A x \in Recs : SameWaits(x)
BY CalledNone, QueueSame DEF ArdpInv, Becomes

LEMMA ArdpBound ==
    ASSUME Inv, NEW r \in Recs, NEW c, ArdpLife(r, c), UNCHANGED <<epVars, countVars>>
    PROVE  /\ \A x \in Recs \ {r} : Same(x)
           /\ Bound(r)' /\ AuthMoves(r) /\ ConnMoves(r) /\ UntrustedMoves(r)
<1>1. ArdpInv
  BY DEF Inv
<1>2. /\ \A x \in Recs \ {r} : conn'[x] = conn[x]
      /\ conn'[r] = c
  BY <1>1, LifeRecords DEF Life
<1>3. /\ Bound(r) /\ RecordOK(r) /\ conn[r] \in ConnRecord
      /\ (r \in Active <=> r \notin Passive)
      /\ ConnectWaits(r) => conn[r].told = 1
      /\ Waits(r, "CONNECT_CB", "err") => conn[r].state \in {"CLOSED", "gone"}
      /\ DisconnectWaits(r) => conn[r].ended = 1 /\ conn[r].state \in {"CLOSE_WAIT", "gone"}
  BY Known
<1>4. UNCHANGED <<ep, thread, waking, currAuth, currConn, untrusted>>
  BY DEF epVars, countVars
<1>5. ASSUME \A x \in Recs \ {r} : SameWaits(x)
      PROVE  \A x \in Recs \ {r} : Same(x)
  BY <1>2, <1>4, <1>5 DEF Same
<1>6. CASE Stays(r, c)
  <2>1. \A x \in Recs : SameWaits(x)
    BY <1>1, <1>6, QuietWaits DEF Stays
  <2>2. /\ ConnectWaits(r)' <=> ConnectWaits(r)
        /\ DisconnectWaits(r)' <=> DisconnectWaits(r)
    BY <2>1 DEF SameWaits, ConnectWaits, DisconnectWaits
  <2>3. Bound(r)'
    BY <1>2, <1>3, <1>4, <1>6, <2>1, <2>2
       DEF Stays, SameWaits, Bound, Made, Told, ConnectTells, Stage, Asked, Owned, IsConnValid
  <2>4. AuthMoves(r) /\ ConnMoves(r) /\ UntrustedMoves(r)
    BY <1>2, <1>4, <1>6, <2>2
       DEF Stays, AuthMoves, ConnMoves, UntrustedMoves, InAuth, InConn, IsCovered
  <2> QED BY <1>5, <2>1, <2>3, <2>4
<1>7. CASE Fails(r, c)
  <2>1. /\ \A x \in Recs \ {r} : SameWaits(x)
        /\ \A cmd \in {"CONNECT_CB", "DISCONNECT_CB"}, status \in {"ok", "err"} :
              Waits(r, cmd, status)' <=>
                 Waits(r, cmd, status) \/ (cmd = "CONNECT_CB" /\ status = "err")
    BY <1>1, <1>7, LoudWaits DEF Fails
  <2>2. /\ ConnectWaits(r)' /\ ~ConnectWaits(r)
        /\ ~DisconnectWaits(r)' /\ ~DisconnectWaits(r)
        /\ ~Waits(r, "CONNECT_CB", "ok")' /\ ~Waits(r, "DISCONNECT_CB", "ok")'
    BY <1>3, <1>7, <2>1 DEF Fails, RecordOK, ConnectWaits, DisconnectWaits
  <2>3. Bound(r)'
    BY <1>2, <1>3, <1>4, <1>7, <2>2
       DEF Fails, RecordOK, Bound, Made, Told, ConnectTells, Stage, Asked, Owned, IsConnValid
  <2>4. AuthMoves(r) /\ ConnMoves(r) /\ UntrustedMoves(r)
    BY <1>2, <1>3, <1>4, <1>7, <2>2
       DEF Fails, RecordOK, Bound, Made, IsConnValid,
           AuthMoves, ConnMoves, UntrustedMoves, InAuth, InConn, IsCovered
  <2> QED BY <1>5, <2>1, <2>3, <2>4
<1>8. CASE Opens(r, c)
  <2>1. /\ \A x \in Recs \ {r} : SameWaits(x)
        /\ \A cmd \in {"CONNECT_CB", "DISCONNECT_CB"}, status \in {"ok", "err"} :
              Waits(r, cmd, status)' <=>
                 Waits(r, cmd, status) \/ (cmd = "CONNECT_CB" /\ status = "ok")
    BY <1>1, <1>8, LoudWaits DEF Opens
  <2>2. /\ ConnectWaits(r)' /\ ~ConnectWaits(r)
        /\ ~DisconnectWaits(r)' /\ ~DisconnectWaits(r)
        /\ Waits(r, "CONNECT_CB", "ok")' /\ ~Waits(r, "DISCONNECT_CB", "ok")'
    BY <1>3, <1>8, <2>1 DEF Opens, RecordOK, ConnectWaits, DisconnectWaits
  <2>3. Bound(r)'
    BY <1>2, <1>3, <1>4, <1>8, <2>2
       DEF Opens, RecordOK, Bound, Made, Told, ConnectTells, Stage, Asked, Owned, IsConnValid
  <2>4. AuthMoves(r) /\ ConnMoves(r) /\ UntrustedMoves(r)
    BY <1>2, <1>3, <1>4, <1>8, <2>2, UntrustedAssumption
       DEF Opens, RecordOK, Bound, Made, IsConnValid,
           AuthMoves, ConnMoves, UntrustedMoves, InAuth, InConn, IsCovered
  <2> QED BY <1>5, <2>1, <2>3, <2>4
<1>9. CASE OpensUnsaid(r, c)
  <2>1. \A x \in Recs : SameWaits(x)
    BY <1>1, <1>9, QuietWaits DEF OpensUnsaid
  <2>2. /\ ~ConnectWaits(r)' /\ ~ConnectWaits(r)
        /\ ~DisconnectWaits(r)' /\ ~DisconnectWaits(r)
        /\ ~Waits(r, "CONNECT_CB", "ok")' /\ ~Waits(r, "DISCONNECT_CB", "ok")'
    BY <1>3, <1>9, <2>1 DEF OpensUnsaid, RecordOK, SameWaits, ConnectWaits, DisconnectWaits
  <2>3. Bound(r)'
    BY <1>2, <1>3, <1>4, <1>9, <2>2
       DEF OpensUnsaid, RecordOK, Bound, Made, Told, ConnectTells, Stage, Asked, Owned,
           IsConnValid
  <2>4. AuthMoves(r) /\ ConnMoves(r) /\ UntrustedMoves(r)
    BY <1>2, <1>3, <1>4, <1>9, <2>2, UntrustedAssumption
       DEF OpensUnsaid, RecordOK, Bound, Made, IsConnValid,
           AuthMoves, ConnMoves, UntrustedMoves, InAuth, InConn, IsCovered
  <2> QED BY <1>5, <2>1, <2>3, <2>4
<1>10. CASE Breaks(r, c)
  <2>1. /\ \A x \in Recs \ {r} : SameWaits(x)
        /\ \A cmd \in {"CONNECT_CB", "DISCONNECT_CB"}, status \in {"ok", "err"} :
              Waits(r, cmd, status)' <=>
                 Waits(r, cmd, status) \/ (cmd = "DISCONNECT_CB" /\ status = "err")
    BY <1>1, <1>10, LoudWaits DEF Breaks
  <2>2. /\ ConnectWaits(r)' <=> ConnectWaits(r)
        /\ DisconnectWaits(r)' /\ ~DisconnectWaits(r)
        /\ Waits(r, "CONNECT_CB", "ok")' <=> Waits(r, "CONNECT_CB", "ok")
        /\ ~Waits(r, "DISCONNECT_CB", "ok")'
    BY <1>3, <1>10, <2>1 DEF Breaks, RecordOK, ConnectWaits, DisconnectWaits
  <2>3. Bound(r)'
    BY <1>2, <1>3, <1>4, <1>10, <2>2
       DEF Breaks, RecordOK, Bound, Made, Told, ConnectTells, Stage, Asked, Owned, IsConnValid
  <2>4. AuthMoves(r) /\ ConnMoves(r) /\ UntrustedMoves(r)
    BY <1>2, <1>3, <1>4, <1>10, <2>2, UntrustedAssumption
       DEF Breaks, RecordOK, Bound, Made, IsConnValid,
           AuthMoves, ConnMoves, UntrustedMoves, InAuth, InConn, IsCovered
  <2> QED BY <1>5, <2>1, <2>3, <2>4
<1>11. CASE Expires(r, c) /\ conn[r].reason = "ok"
  <2>1. /\ \A x \in Recs \ {r} : SameWaits(x)
        /\ \A cmd \in {"CONNECT_CB", "DISCONNECT_CB"}, status \in {"ok", "err"} :
              Waits(r, cmd, status)' <=>
                 Waits(r, cmd, status) \/ (cmd = "DISCONNECT_CB" /\ status = "ok")
    BY <1>1, <1>11, LoudWaits DEF Expires
  <2>2. /\ ConnectWaits(r)' <=> ConnectWaits(r)
        /\ DisconnectWaits(r)'
        /\ Waits(r, "CONNECT_CB", "ok")' <=> Waits(r, "CONNECT_CB", "ok")
        /\ Waits(r, "DISCONNECT_CB", "ok")'
    BY <2>1 DEF ConnectWaits, DisconnectWaits
  <2>3. Bound(r)'
    BY <1>2, <1>3, <1>4, <1>11, <2>2
       DEF Expires, RecordOK, Bound, Made, Told, ConnectTells, Stage, Asked, Owned, IsConnValid
  <2>4. AuthMoves(r) /\ ConnMoves(r) /\ UntrustedMoves(r)
    BY <1>2, <1>3, <1>4, <1>11, <2>2
       DEF Expires, RecordOK, Bound, Made, IsConnValid,
           AuthMoves, ConnMoves, UntrustedMoves, InAuth, InConn, IsCovered
  <2> QED BY <1>5, <2>1, <2>3, <2>4
<1>12. CASE Expires(r, c) /\ conn[r].reason # "ok"
  <2>1. \A x \in Recs : SameWaits(x)
    BY <1>1, <1>12, QuietWaits DEF Expires
  <2>2. /\ ConnectWaits(r)' <=> ConnectWaits(r)
        /\ DisconnectWaits(r)' <=> DisconnectWaits(r)
        /\ Waits(r, "CONNECT_CB", "ok")' <=> Waits(r, "CONNECT_CB", "ok")
        /\ Waits(r, "DISCONNECT_CB", "ok")' <=> Waits(r, "DISCONNECT_CB", "ok")
    BY <2>1 DEF SameWaits, ConnectWaits, DisconnectWaits
  <2>3. Bound(r)'
    BY <1>2, <1>3, <1>4, <1>12, <2>2
       DEF Expires, RecordOK, Bound, Made, Told, ConnectTells, Stage, Asked, Owned, IsConnValid
  <2>4. AuthMoves(r) /\ ConnMoves(r) /\ UntrustedMoves(r)
    BY <1>2, <1>3, <1>4, <1>12, <2>2
       DEF Expires, RecordOK, Bound, Made, IsConnValid,
           AuthMoves, ConnMoves, UntrustedMoves, InAuth, InConn, IsCovered
  <2> QED BY <1>5, <2>1, <2>3, <2>4
<1> QED BY <1>6, <1>7, <1>8, <1>9, <1>10, <1>11, <1>12 DEF ArdpLife

LEMMA ArdpStep == ASSUME Inv, Ardp PROVE Inv'
<1>1. ArdpInv /\ ArdpNext /\ UNCHANGED <<epVars, countVars>>
  BY DEF Inv, Ardp
<1>2. Typed /\ (UNCHANGED <<conn, queue>> \/ \E r \in Recs : \E c : ArdpLife(r, c))
  BY <1>1, ArdpNextStep
<1>3. ASSUME ArdpInv' PROVE TypeOK'
  BY <1>1, <1>3 DEF Inv, TypeOK, ArdpInv, epVars, countVars
<1>4. CASE UNCHANGED <<conn, queue>>
  <2>1. ArdpInv'
    BY <1>1, <1>2, <1>4 DEF ArdpInv, ArdpTypeOK, Typed, RecordsOK, RecordOK, CallbacksOK, QueueOrder
  <2>2. \A x \in Recs : Same(x)
    BY <1>1, <1>4, QueueSame DEF Same, epVars
  <2> QED BY <1>1, <1>3, <2>1, <2>2, NoConnection
<1>5. ASSUME NEW r \in Recs, NEW c, ArdpLife(r, c) PROVE Inv'
  <2>1. ArdpInv'
    BY <1>1, <1>2, <1>5, LifeInv DEF Life
  <2>2. /\ \A x \in Recs \ {r} : Same(x)
        /\ Bound(r)' /\ AuthMoves(r) /\ ConnMoves(r) /\ UntrustedMoves(r)
    BY <1>1, <1>5, ArdpBound
  <2> QED BY <1>3, <2>1, <2>2, OneConnection
<1> QED BY <1>2, <1>4, <1>5

-----------------------------------------------------------------------------
(* Making connections.                                                     *)

LEMMA SendSynTyped ==
    ASSUME NEW r \in Recs, NEW d \in ConnRecord, NEW st
    PROVE  LET c == SendSyn(r, d, st) IN
           /\ c \in ConnRecord /\ c.told = d.told /\ c.ended = d.ended
           /\ st = "fail" => c.state = "gone" /\ c.timer = "off"
           /\ st # "fail" => /\ c.timer = "connect"
                             /\ r \in Active => c.state = "SYN_SENT"
                             /\ r \notin Active => c.state = "SYN_RCVD"
<1> DEFINE name == IF r \in Active THEN "SYN_SENT" ELSE "SYN_RCVD"
           c == SendSyn(r, d, st)
<1>1. CASE st = "fail"
  BY <1>1, DeletedTyped DEF SendSyn
<1>2. CASE st # "fail"
  <2>1. name \in States /\ ConnectTries \in Nat
    BY StateNames, ConfigAssumption
  <2> HIDE DEF name
  <2>2. [d EXCEPT !.state = name, !.timer = "connect", !.retry = ConnectTries] \in ConnRecord
    BY <2>1 DEF ConnRecord
  <2>3. c = [d EXCEPT !.state = name, !.timer = "connect", !.retry = ConnectTries]
    BY <1>2 DEF SendSyn, name
  <2>4. c \in ConnRecord /\ c.told = d.told /\ c.ended = d.ended /\ c.timer = "connect"
        /\ c.state = name
    BY <2>2, <2>3 DEF ConnRecord
  <2> QED BY <1>2, <2>4 DEF name
<1> QED BY <1>1, <1>2

LEMMA ConnectStep ==
    ASSUME Inv, NEW r \in Active, NEW st \in SendStatus, Connect(r, st)
    PROVE  Inv'
<1> DEFINE c == SendSyn(r, conn[r], st)
<1>1. /\ r \in Recs /\ ArdpInv /\ conn[r].state = "none" /\ conn' = [conn EXCEPT ![r] = c]
      /\ UNCHANGED <<queue, dups, ep, waking, untrusted>> /\ r # Half
      /\ conn \in [Recs -> ConnRecord] /\ conn[r] \in ConnRecord
  BY RecordAssumption
     DEF Inv, ArdpInv, ArdpTypeOK, Recs, Half, Connect, ARDP_Connect, IsNext, Unused
<1>2. /\ c \in ConnRecord /\ c.told = conn[r].told /\ c.ended = conn[r].ended
      /\ st = "fail" => c.state = "gone" /\ c.timer = "off"
      /\ st # "fail" => c.timer = "connect" /\ c.state = "SYN_SENT"
  BY <1>1, SendSynTyped
<1> HIDE DEF c
<1>3. Starts(r, c)
  BY <1>1, <1>2, CalledNone DEF Starts, Becomes, ArdpInv
<1>4. Typed
  <2>1. Seg("SYN", r, Half) \in Segment
    BY <1>1, SegTyped
  <2>2. Sent(st, Seg("SYN", r, Half)) \subseteq Segment
    BY <2>1, SentTyped
  <2>3. net' \subseteq Segment
    BY <2>2, PutTyped, <1>1 DEF Connect, ARDP_Connect, ArdpInv, ArdpTypeOK
  <2> QED BY <1>1, <2>3, WriteTyped DEF Typed, Connect, ARDP_Connect, ArdpInv, ArdpTypeOK
<1>5. ArdpInv'
  BY <1>1, <1>3, <1>4, LifeInv DEF Life
<1>6. /\ Bound(r) /\ RecordOK(r) /\ (r \in Active <=> r \notin Passive)
      /\ ConnectWaits(r) => conn[r].told = 1
      /\ DisconnectWaits(r) => conn[r].ended = 1
  BY <1>1, Known
<1>7. \A x \in Recs : SameWaits(x)
  BY <1>1, QueueSame
<1>8. /\ conn'[r] = c /\ (\A x \in Recs \ {r} : conn'[x] = conn[x])
      /\ thread \in [Active -> {"none", "waiting", "returned"}]
      /\ st = "fail" => thread' = thread
      /\ st # "fail" => thread' = [thread EXCEPT ![r] = "waiting"]
  BY <1>1 DEF Connect, Inv, TypeOK
<1>9. TypeOK'
  BY <1>1, <1>5, <1>8 DEF Inv, TypeOK, ArdpInv, Connect
<1>10. \A x \in Recs \ {r} : Same(x)
  BY <1>1, <1>7, <1>8 DEF Same
<1>11. conn[r].told = 0 /\ conn[r].ended = 0 /\ ep[r].list = "none" /\ thread[r] = "none"
  BY <1>1, <1>6 DEF RecordOK, Bound, Made
<1>12. ~ConnectWaits(r) /\ ~ConnectWaits(r)' /\ ~DisconnectWaits(r) /\ ~DisconnectWaits(r)'
  BY <1>1, <1>6, <1>7, <1>11 DEF SameWaits, ConnectWaits, DisconnectWaits
<1>13. Bound(r)'
  <2>1. Made(r)' /\ Told(r)' /\ Owned(r)'
    BY <1>1, <1>2, <1>6, <1>8, <1>11, <1>12 DEF Made, Told, Owned, IsConnValid
  <2>2. ConnectTells(r)' /\ Asked(r)'
    BY <1>1, <1>2, <1>6, <1>8, <1>11, <1>12
       DEF Bound, Asked, ConnectTells, ConnectWaits, DisconnectWaits
  <2>3. Stage(r)'
    BY <1>1, <1>2, <1>6, <1>8, <1>11 DEF Bound, Stage
  <2> QED BY <2>1, <2>2, <2>3 DEF Bound
<1>14. AuthMoves(r) /\ ConnMoves(r) /\ UntrustedMoves(r)
  BY <1>1, <1>2, <1>8, <1>11, <1>12
     DEF Connect, Side, AuthMoves, ConnMoves, UntrustedMoves, InAuth, InConn, IsCovered
<1> QED BY <1>1, <1>5, <1>9, <1>10, <1>13, <1>14, OneConnection

LEMMA ConnectReturnsStep ==
    ASSUME Inv, NEW r \in Active, ConnectReturns(r) PROVE Inv'
<1>1. /\ r \in Recs /\ thread[r] = "waiting" /\ thread' = [thread EXCEPT ![r] = "returned"]
      /\ thread \in [Active -> {"none", "waiting", "returned"}]
      /\ UNCHANGED <<ardpVars, ep, waking, countVars>>
      /\ UNCHANGED <<conn, queue, net, dups, bad, currAuth, currConn, untrusted>>
  BY DEF Recs, ConnectReturns, ThreadWaits, Inv, TypeOK, ardpVars, countVars
<1>2. ArdpInv'
  BY <1>1 DEF Inv, ArdpInv, ArdpTypeOK, RecordsOK, RecordOK, CallbacksOK, QueueOrder
<1>3. TypeOK'
  BY <1>1, <1>2 DEF Inv, TypeOK, ArdpInv
<1>4. \A x \in Recs : SameWaits(x)
  BY <1>1, QueueSame
<1>5. \A x \in Recs \ {r} : Same(x)
  BY <1>1, <1>4 DEF Same
<1>6. /\ Bound(r) /\ (ConnectWaits(r)' <=> ConnectWaits(r))
      /\ (DisconnectWaits(r)' <=> DisconnectWaits(r))
  BY <1>1, <1>4 DEF Inv, SameWaits, ConnectWaits, DisconnectWaits
<1>7. thread'[r] = "returned"
  BY <1>1
<1>8. Bound(r)'
  <2>1. Made(r)' /\ Told(r)' /\ Owned(r)' /\ Stage(r)'
    BY <1>1, <1>6, <1>7 DEF Bound, Made, Told, Owned, Stage, IsConnValid
  <2>2. ConnectTells(r)' /\ Asked(r)'
    BY <1>1, <1>4, <1>6 DEF Bound, Asked, ConnectTells, SameWaits
  <2> QED BY <2>1, <2>2 DEF Bound
<1>9. AuthMoves(r) /\ ConnMoves(r) /\ UntrustedMoves(r)
  BY <1>1, <1>6, <1>7 DEF AuthMoves, ConnMoves, UntrustedMoves, InAuth, InConn, IsCovered
<1> QED BY <1>1, <1>2, <1>3, <1>5, <1>8, <1>9, OneConnection

\* A passive record is started with its endpoint, or is gone at once.
LEMMA AcceptStep ==
    ASSUME Inv, NEW r \in Passive, NEW st \in SendStatus, NEW fits \in BOOLEAN, Accept(r, st, fits)
    PROVE  Inv'
<1>m. PICK m \in net : \E base \in {net, net \ {m}} :
         /\ Take(m, base)
         /\ IF HasSlot(r) /\ fits THEN Write(st) ELSE st = "ok" /\ UNCHANGED bad
         /\ AcceptCb(r, m, st, fits, base)
  BY DEF Accept
<1>b. PICK base \in {net, net \ {m}} :
         /\ Take(m, base)
         /\ IF HasSlot(r) /\ fits THEN Write(st) ELSE st = "ok" /\ UNCHANGED bad
         /\ AcceptCb(r, m, st, fits, base)
  BY <1>m
<1> DEFINE d == [conn[r] EXCEPT !.foreign = m.src]
           takes == HasSlot(r) /\ fits /\ st # "fail"
           c == IF takes THEN SendSyn(r, d, st) ELSE Deleted(d)
           e == [NewEp EXCEPT !.list = "pre", !.st = "PASSIVE_STARTED"]
<1>1. /\ r \in Recs /\ r \notin Active /\ ArdpInv /\ conn[r].state = "none"
      /\ UNCHANGED <<queue, thread, waking>>
      /\ conn \in [Recs -> ConnRecord] /\ conn[r] \in ConnRecord
      /\ net \subseteq Segment /\ dups \in Nat /\ bad \in Nat
  BY RecordAssumption DEF Inv, ArdpInv, ArdpTypeOK, Recs, Accept, IsNext, Unused
<1>2. m.src \in Recs \cup {Half} /\ base \subseteq Segment
  BY <1>1 DEF Segment
<1>3. d \in ConnRecord /\ d.told = conn[r].told /\ d.ended = conn[r].ended
  <2>1. d \in ConnRecord
    BY <1>1, <1>2 DEF ConnRecord
  <2> QED BY <1>1, <2>1 DEF ConnRecord
<1>4. conn' = [conn EXCEPT ![r] = c]
  BY <1>b, <1>1 DEF AcceptCb
<1> HIDE DEF d
<1>5. /\ c \in ConnRecord /\ c.told = conn[r].told /\ c.ended = conn[r].ended
      /\ takes => c.timer = "connect" /\ c.state = "SYN_RCVD"
      /\ ~takes => c.timer = "off" /\ c.state = "gone"
  <2>1. CASE takes
    BY <1>1, <1>3, <2>1, SendSynTyped
  <2>2. CASE ~takes
    BY <1>3, <2>2, DeletedTyped
  <2> QED BY <2>1, <2>2
<1>6. /\ takes => /\ ep' = [ep EXCEPT ![r] = e]
                  /\ currAuth' = [currAuth EXCEPT !["S"] = @ + 1]
                  /\ currConn' = [currConn EXCEPT !["S"] = @ + 1]
                  /\ untrusted' = IF r \in Untrusted THEN untrusted + 1 ELSE untrusted
      /\ ~takes => UNCHANGED <<ep, countVars>>
  BY <1>b DEF AcceptCb
<1>7. Typed
  <2>1. Seg("SYNACK", r, m.src) \in Segment /\ Seg("RST", r, m.src) \in Segment
    BY <1>1, <1>2, SegTyped
  <2>2. net' \subseteq Segment
    BY <1>b, <1>2, <2>1, SentTyped, PutTyped DEF AcceptCb
  <2>3. dups' \in Nat
    BY <1>b, <1>1 DEF Take
  <2>4. bad' \in Nat
    BY <1>b, <1>1, WriteTyped DEF ArdpInv
  <2> QED BY <2>2, <2>3, <2>4 DEF Typed
<1> HIDE DEF c
<1>8. Starts(r, c)
  BY <1>1, <1>4, <1>5, CalledNone DEF Starts, Becomes, ArdpInv
<1>9. ArdpInv'
  BY <1>1, <1>7, <1>8, LifeInv DEF Life
<1>10. /\ Bound(r) /\ RecordOK(r)
       /\ ConnectWaits(r) => conn[r].told = 1
       /\ DisconnectWaits(r) => conn[r].ended = 1
  BY <1>1, Known
<1>11. \A x \in Recs : SameWaits(x)
  BY <1>1, QueueSame
<1>12. /\ ep \in [Recs -> Endpoint] /\ waking \in Active \cup {Half}
       /\ currAuth \in [Sides -> Int] /\ currConn \in [Sides -> Int] /\ untrusted \in Int
       /\ thread \in [Active -> {"none", "waiting", "returned"}]
  BY DEF Inv, TypeOK
<1>13. /\ e \in Endpoint /\ e.list = "pre" /\ e.st = "PASSIVE_STARTED" /\ e.wait = TRUE
       /\ e.disc = FALSE /\ e.discSent = FALSE
  BY DEF NewEp, Endpoint
<1> HIDE DEF e, takes
<1>14. TypeOK'
  <2>1. ep' \in [Recs -> Endpoint]
    BY <1>6, <1>12, <1>13 DEF countVars
  <2>2. currAuth' \in [Sides -> Int] /\ currConn' \in [Sides -> Int] /\ untrusted' \in Int
    BY <1>6, <1>12 DEF countVars, Sides
  <2> QED BY <1>1, <1>9, <1>12, <2>1, <2>2 DEF TypeOK, ArdpInv
<1>15. /\ conn'[r] = c /\ (\A x \in Recs \ {r} : conn'[x] = conn[x])
       /\ \A x \in Recs \ {r} : ep'[x] = ep[x]
       /\ takes => ep'[r] = e
       /\ ~takes => ep'[r] = ep[r]
  BY <1>1, <1>4, <1>6, <1>12
<1>16. \A x \in Recs \ {r} : Same(x)
  BY <1>1, <1>11, <1>15 DEF Same
<1>17. conn[r].told = 0 /\ conn[r].ended = 0 /\ ep[r].list = "none"
  BY <1>1, <1>10 DEF RecordOK, Bound, Made
<1>18. ~ConnectWaits(r) /\ ~ConnectWaits(r)' /\ ~DisconnectWaits(r) /\ ~DisconnectWaits(r)'
  BY <1>1, <1>10, <1>11, <1>17 DEF SameWaits, ConnectWaits, DisconnectWaits
<1>19. waking' # r
  BY <1>1, <1>12, RecordAssumption DEF Half
<1>20. Bound(r)'
  <2>1. Made(r)' /\ Told(r)' /\ Owned(r)'
    BY <1>1, <1>5, <1>13, <1>15, <1>17, <1>18 DEF Made, Told, Owned, IsConnValid
  <2>2. ConnectTells(r)'
    BY <1>18 DEF ConnectTells, ConnectWaits
  <2>3. Asked(r)'
    BY <1>1, <1>5, <1>10, <1>13, <1>15, <1>18 DEF Bound, Asked, DisconnectWaits
  <2>4. Stage(r)'
    BY <1>1, <1>5, <1>10, <1>13, <1>15, <1>17, <1>19 DEF Bound, Stage
  <2> QED BY <2>1, <2>2, <2>3, <2>4 DEF Bound
<1>21. AuthMoves(r) /\ ConnMoves(r) /\ UntrustedMoves(r)
  BY <1>1, <1>5, <1>6, <1>13, <1>15, <1>17, <1>18
     DEF Side, countVars, AuthMoves, ConnMoves, UntrustedMoves, InAuth, InConn, IsCovered
<1> QED BY <1>1, <1>9, <1>14, <1>16, <1>20, <1>21, OneConnection

-----------------------------------------------------------------------------
(* The dispatcher threads.                                                 *)

\* Working off a callback, and releasing the record it is about, preserves
\* the invariant of the protocol below.
LEMMA PopInv ==
    ASSUME ArdpInv, NEW s \in Sides, queue[s] # <<>>, Pop(s), UNCHANGED <<net, dups, bad>>,
           NEW r \in Recs,
           conn' = conn \/ (conn' = [conn EXCEPT ![r] = Deleted(@)] /\ conn[r].state # "none")
    PROVE  ArdpInv'
<1>1. /\ conn \in [Recs -> ConnRecord] /\ queue \in [Sides -> Seq(CallbackRecord)]
      /\ conn[r] \in ConnRecord /\ RecordOK(r)
  BY RecordTyped DEF ArdpInv, ArdpTypeOK
<1>2. /\ \A t \in Sides : /\ queue'[t] \in Seq(CallbackRecord) /\ Len(queue'[t]) \in Nat
                          /\ Len(queue[t]) \in Nat
      /\ \A t \in Sides \ {s} : queue'[t] = queue[t]
      /\ Len(queue'[s]) = Len(queue[s]) - 1
      /\ \A i \in 1 .. Len(queue'[s]) : queue'[s][i] = queue[s][i + 1]
  BY <1>1 DEF Pop
<1>3. queue' \in [Sides -> Seq(CallbackRecord)]
  BY <1>1, <1>2 DEF Pop
\* Each callback left was there before, in the same order.
<1>4. \A t \in Sides : \E n \in {0, 1} : \A i \in 1 .. Len(queue'[t]) :
         i + n \in 1 .. Len(queue[t]) /\ queue'[t][i] = queue[t][i + n]
  <2>1. ASSUME NEW t \in Sides \ {s}
        PROVE  \A i \in 1 .. Len(queue'[t]) :
                  i + 0 \in 1 .. Len(queue[t]) /\ queue'[t][i] = queue[t][i + 0]
    BY <1>2, <2>1
  <2>2. \A i \in 1 .. Len(queue'[s]) :
                  i + 1 \in 1 .. Len(queue[s]) /\ queue'[s][i] = queue[s][i + 1]
    BY <1>2
  <2> QED BY <2>1, <2>2
<1>5. /\ conn' \in [Recs -> ConnRecord]
      /\ \A x \in Recs : \/ conn'[x] = conn[x]
                         \/ /\ conn'[x].state = "gone" /\ conn'[x].timer = "off"
                            /\ conn'[x].told = conn[x].told /\ conn'[x].ended = conn[x].ended
  BY <1>1, DeletedTyped
<1>6. RecordsOK'
  BY <1>5 DEF ArdpInv, RecordsOK, RecordOK
<1>7. CallbacksOK'
  <2>1. SUFFICES ASSUME NEW t \in Sides, NEW i \in 1 .. Len(queue'[t])
                 PROVE  CallbackOK(conn', t, queue'[t][i])
    BY DEF CallbacksOK
  <2>2. PICK j \in 1 .. Len(queue[t]) : queue'[t][i] = queue[t][j]
    BY <1>4
  <2> DEFINE b == queue[t][j]
  <2>3. b \in CallbackRecord /\ CallbackOK(conn, t, b)
    BY <1>1 DEF ArdpInv, CallbacksOK
  <2>4. b.rec \in Recs /\ b.status \in {"ok", "err"}
    BY <2>3 DEF CallbackRecord
  <2> HIDE DEF b
  <2>5. CallbackOK(conn', t, b)
    BY <1>5, <2>3, <2>4 DEF CallbackOK
  <2> QED BY <2>2, <2>5 DEF b
<1>8. QueueOrder'
  <2>1. SUFFICES ASSUME NEW t \in Sides, NEW i \in 1 .. Len(queue'[t]),
                        NEW j \in 1 .. Len(queue'[t]), i < j,
                        queue'[t][i].rec = queue'[t][j].rec
                 PROVE  queue'[t][i].cmd = "CONNECT_CB" /\ queue'[t][j].cmd = "DISCONNECT_CB"
    BY DEF QueueOrder
  <2>2. PICK n \in {0, 1} : \A k \in 1 .. Len(queue'[t]) :
           k + n \in 1 .. Len(queue[t]) /\ queue'[t][k] = queue[t][k + n]
    BY <1>4
  <2>3. i + n < j + n
    BY <2>1, <1>2
  <2> QED BY <2>1, <2>2, <2>3, SMTT(30) DEF ArdpInv, QueueOrder
<1> QED BY <1>3, <1>5, <1>6, <1>7, <1>8 DEF ArdpInv, ArdpTypeOK

\* What the first callback of a queue is.
LEMMA HeadIs ==
    ASSUME ArdpInv, NEW s \in Sides, queue[s] # <<>>
    PROVE  Next1(s) = Callback(Next1(s).cmd, Next1(s).rec, Next1(s).status)
<1>1. Head(queue[s]) \in CallbackRecord
  BY DEF ArdpInv, ArdpTypeOK
<1> QED BY <1>1 DEF Next1, CallbackRecord, Callback

LEMMA StoppedFields ==
    ASSUME NEW e \in Endpoint
    PROVE  /\ Stopped(e) \in Endpoint
           /\ Stopped(e).list = e.list /\ Stopped(e).discSent = e.discSent
           /\ e.st \in {"INITIALIZED", "ACTIVE_STARTED", "PASSIVE_STARTED"} =>
                 /\ Stopped(e).st = "STOPPING" /\ Stopped(e).wait = FALSE
                 /\ Stopped(e).disc = TRUE
           /\ e.st = "STARTED" =>
                 /\ Stopped(e).st = "STOPPING" /\ Stopped(e).wait = e.wait
                 /\ Stopped(e).disc = e.disc
           /\ e.st \in {"STOPPING", "JOINED", "DONE"} => Stopped(e) = e
BY DEF Stopped, Endpoint

LEMMA LocalFields ==
    ASSUME NEW e \in Endpoint, NEW status
    PROVE  LET l == LocalDisconnect(e, status) IN
           /\ l \in Endpoint /\ l.list = e.list /\ l.st = e.st /\ l.wait = e.wait
           /\ e.disc => l = e
           /\ ~e.disc /\ e.discSent => l.disc = TRUE /\ l.discSent = TRUE
           /\ ~e.disc /\ ~e.discSent => (l.disc <=> status # "ok") /\ l.discSent = TRUE
BY DEF LocalDisconnect, Endpoint

\* What working off the callback (k, st) of r says of the others and of r.
Popped(r, k, st) ==
    /\ Waits(r, k, st)
    /\ k = "DISCONNECT_CB" => ~ConnectWaits(r)
    /\ \A x \in Recs \ {r} : SameWaits(x)
    /\ k = "CONNECT_CB" => /\ ~ConnectWaits(r)' /\ ConnectWaits(r)
                           /\ DisconnectWaits(r)' <=> DisconnectWaits(r)
                           /\ Waits(r, "DISCONNECT_CB", "ok")' <=> Waits(r, "DISCONNECT_CB", "ok")
                           /\ ~Waits(r, "CONNECT_CB", "ok")'
    /\ k = "DISCONNECT_CB" => /\ ~DisconnectWaits(r)' /\ DisconnectWaits(r)
                              /\ ~ConnectWaits(r)'
                              /\ ~Waits(r, "DISCONNECT_CB", "ok")'
                              /\ ~Waits(r, "CONNECT_CB", "ok")'

LEMMA PopKnown ==
    ASSUME Inv, NEW s \in Sides, queue[s] # <<>>, Pop(s),
           NEW r, NEW k, NEW st, r = Next1(s).rec, k = Next1(s).cmd, st = Next1(s).status
    PROVE  /\ r \in Recs /\ Side(r) = s /\ st \in {"ok", "err"}
           /\ Popped(r, k, st)
<1>1. ArdpInv /\ Head(queue[s]) = Callback(k, r, st)
  BY HeadIs DEF Inv, Next1
<1>2. /\ r \in Recs /\ Side(r) = s
      /\ k \in {"CONNECT_CB", "DISCONNECT_CB"} /\ st \in {"ok", "err"}
      /\ Waits(r, k, st)
      /\ k = "DISCONNECT_CB" => ~ConnectWaits(r)
      /\ \A x \in Recs, cmd \in {"CONNECT_CB", "DISCONNECT_CB"}, status \in {"ok", "err"} :
            Waits(x, cmd, status)' <=>
               Waits(x, cmd, status) /\ ~(x = r /\ cmd = k /\ status = st)
      /\ \A status \in {"ok", "err"} : Waits(r, k, status) => status = st
  BY <1>1, PopWaits
<1>3. \A x \in Recs \ {r} : SameWaits(x)
  BY <1>2 DEF SameWaits
<1>4. CASE k = "CONNECT_CB"
  BY <1>2, <1>3, <1>4 DEF Popped, ConnectWaits, DisconnectWaits
<1>5. CASE k = "DISCONNECT_CB"
  BY <1>2, <1>3, <1>5 DEF Popped, ConnectWaits, DisconnectWaits
<1> QED BY <1>2, <1>4, <1>5

\* DoConnectCb() of a passive connection.
LEMMA PassiveConnectCbStep ==
    ASSUME Inv, NEW good, DispatchConnectCb("S", good)
    PROVE  Inv'
<1>r. PICK r, st : r = Next1("S").rec /\ st = Next1("S").status
  OBVIOUS
<1> DEFINE es == Listed("S")
           e == [Stopped(LocalDisconnect(es[r], "ok")) EXCEPT !.list = "ep", !.wait = FALSE]
<1>1. /\ queue["S"] # <<>> /\ Pop("S") /\ DoPassiveConnectCb(r, st) /\ "S" \in Sides
      /\ Next1("S").cmd = "CONNECT_CB"
      /\ UNCHANGED <<net, dups, bad, untrusted, currConn, thread, waking>>
  BY <1>r DEF DispatchConnectCb, DoPassiveConnectCb, Sides
<1>2. r \in Recs /\ Side(r) = "S" /\ st \in {"ok", "err"} /\ Popped(r, "CONNECT_CB", st)
  BY <1>r, <1>1, PopKnown
<1>3. r \in Passive /\ r \notin Active
  BY <1>2 DEF Side, Recs
<1>4. /\ Bound(r) /\ RecordOK(r) /\ conn[r] \in ConnRecord /\ ep[r] \in Endpoint
      /\ Waits(r, "CONNECT_CB", "err") => conn[r].state \in {"CLOSED", "gone"}
      /\ conn[r].told = 1 /\ ArdpInv
      /\ DisconnectWaits(r) => conn[r].ended = 1
  BY <1>2, Known DEF Popped, Inv
<1>5. /\ ep \in [Recs -> Endpoint] /\ conn \in [Recs -> ConnRecord]
      /\ waking \in Active \cup {Half} /\ currAuth \in [Sides -> Int]
  BY DEF Inv, TypeOK, ArdpTypeOK
<1>6. /\ es \in [Recs -> Endpoint]
      /\ \A x \in Recs : /\ es[x].list = "auth" <=> Side(x) = "S" /\ ep[x].list \in {"pre", "auth"}
                         /\ es[x].list # "auth" => es[x] = ep[x]
                         /\ \/ es[x] = ep[x]
                            \/ ep[x].list = "pre" /\ es[x] = [ep[x] EXCEPT !.list = "auth"]
                         /\ es[x].st = ep[x].st /\ es[x].wait = ep[x].wait
                         /\ es[x].disc = ep[x].disc /\ es[x].discSent = ep[x].discSent
  <2>1. ASSUME NEW x \in Recs PROVE [ep[x] EXCEPT !.list = "auth"] \in Endpoint
    BY <1>5 DEF Endpoint
  <2>2. \A x \in Recs : es[x] = IF Side(x) = "S" /\ ep[x].list = "pre"
                               THEN [ep[x] EXCEPT !.list = "auth"] ELSE ep[x]
    BY DEF Listed
  <2>3. es \in [Recs -> Endpoint]
    BY <1>5, <2>1 DEF Listed
  <2>4. \A x \in Recs : ep[x].list \in {"pre", "auth"} => Side(x) = "S"
    BY DEF Inv, Bound, Told, Side
  <2> HIDE DEF es
  <2> QED BY <1>5, <2>2, <2>3, <2>4 DEF Endpoint
<1>7. ASSUME NEW f \in Endpoint, ep' = [es EXCEPT ![r] = f],
             conn' = conn \/ conn' = [conn EXCEPT ![r] = Deleted(@)],
             currAuth' \in [Sides -> Int],
             Bound(r)', AuthMoves(r), ConnMoves(r), UntrustedMoves(r)
      PROVE  Inv'
  <2>1. conn[r].state # "none"
    BY <1>4 DEF RecordOK
  <2>2. ArdpInv'
    BY <1>1, <1>2, <1>4, <1>7, <2>1, PopInv
  <2>3. TypeOK'
    BY <1>1, <1>6, <1>7, <2>2 DEF Inv, TypeOK, ArdpInv
  <2>4. \A x \in Recs \ {r} : conn'[x] = conn[x] /\ ep'[x] = es[x]
    BY <1>5, <1>6, <1>7
  <2>5. \A x \in Recs \ {r} : Same(x)
    BY <1>1, <1>2, <1>6, <2>4 DEF Same, Popped
  <2> QED BY <1>2, <1>7, <2>2, <2>3, <2>5, OneConnection
<1>8. waking' # r
  BY <1>1, <1>3, <1>5, RecordAssumption DEF Half
<1>9. CASE ~IsConnValid(r) \/ es[r].list # "auth"
  <2>1. /\ ep' = es /\ UNCHANGED <<currAuth, conn>>
    BY <1>1, <1>9 DEF DoPassiveConnectCb
  <2>2. ep' = [es EXCEPT ![r] = es[r]] /\ es[r] \in Endpoint /\ ep'[r] = es[r]
    BY <1>2, <1>6, <2>1
  <2> HIDE DEF es
  <2>3. conn[r].state = "gone"
    <3>1. ConnectWaits(r) /\ (es[r].list = "auth" <=> ep[r].list \in {"pre", "auth"})
      BY <1>2, <1>6 DEF Popped
    <3> QED BY <1>3, <1>4, <1>9, <3>1 DEF Bound, Told, RecordOK, IsConnValid
  <2>4. /\ ep'[r].list = ep[r].list \/ (ep[r].list = "pre" /\ ep'[r].list = "auth")
        /\ ep'[r].st = ep[r].st /\ ep'[r].wait = ep[r].wait /\ ep'[r].disc = ep[r].disc
        /\ ep'[r].discSent = ep[r].discSent
    BY <1>2, <1>4, <1>6, <2>2 DEF Endpoint
  <2>5. Bound(r)'
    <3>1. Made(r)' /\ Told(r)' /\ ConnectTells(r)' /\ Owned(r)'
      BY <1>2, <1>3, <1>4, <2>1, <2>3, <2>4
         DEF Bound, Made, Told, ConnectTells, Owned, Popped, IsConnValid
    <3>2. Stage(r)' /\ Asked(r)'
      BY <1>2, <1>4, <1>8, <2>1, <2>3, <2>4 DEF Bound, Stage, Asked, Popped
    <3> QED BY <3>1, <3>2 DEF Bound
  <2>6. AuthMoves(r) /\ ConnMoves(r) /\ UntrustedMoves(r)
    BY <1>1, <1>2, <1>3, <2>1, <2>3, <2>4
       DEF AuthMoves, ConnMoves, UntrustedMoves, InAuth, InConn, IsCovered, Popped
  <2> QED BY <1>5, <1>7, <2>1, <2>2, <2>5, <2>6
<1>10. ASSUME IsConnValid(r), es[r].list = "auth"
       PROVE  /\ currAuth' = [currAuth EXCEPT !["S"] = @ - 1] /\ currAuth' \in [Sides -> Int]
              /\ ep[r].list \in {"pre", "auth"} /\ ep[r].st = "PASSIVE_STARTED"
              /\ ep[r].disc = FALSE /\ ep[r].discSent = FALSE
  <2>1. currAuth' = [currAuth EXCEPT !["S"] = @ - 1]
    BY <1>1, <1>10 DEF DoPassiveConnectCb
  <2>2. currAuth' \in [Sides -> Int]
    BY <1>5, <2>1 DEF Sides
  <2>3. ep[r].list \in {"pre", "auth"}
    BY <1>2, <1>6, <1>10
  <2> QED BY <1>4, <2>1, <2>2, <2>3 DEF Bound, Stage, Endpoint
<1>11. CASE /\ IsConnValid(r) /\ es[r].list = "auth" /\ st = "ok"
  <2> DEFINE f == [es[r] EXCEPT !.list = "ep", !.st = "STARTED"]
  <2>1. UNCHANGED conn /\ ep' = [es EXCEPT ![r].list = "ep", ![r].st = "STARTED"]
    BY <1>1, <1>11 DEF DoPassiveConnectCb
  <2>2. es[r] \in Endpoint
    BY <1>2, <1>6
  <2>3. ep' = [es EXCEPT ![r] = f]
    BY <1>2, <1>6, <2>1
  <2>4. f \in Endpoint
    BY <2>2 DEF Endpoint
  <2>5. /\ ep'[r].list = "ep" /\ ep'[r].st = "STARTED" /\ ep'[r].wait = ep[r].wait
        /\ ep'[r].disc = FALSE /\ ep'[r].discSent = FALSE
    BY <1>2, <1>6, <1>10, <1>11, <2>2, <2>3 DEF Endpoint
  <2>6. conn[r].state = "OPEN" \/ DisconnectWaits(r)
    BY <1>2, <1>4, <1>11 DEF Popped, Bound, ConnectTells, RecordOK, IsConnValid, ConnRecord
  <2> HIDE DEF f, es
  <2>7. Bound(r)'
    <3>1. Made(r)' /\ Told(r)' /\ ConnectTells(r)' /\ Owned(r)'
      BY <1>2, <1>3, <1>4, <1>11, <2>1, <2>5, <2>6
         DEF Bound, Made, Told, ConnectTells, Owned, Popped, RecordOK, IsConnValid
    <3>2. Stage(r)' /\ Asked(r)'
      BY <1>2, <1>4, <1>8, <1>10, <1>11, <2>1, <2>5 DEF Bound, Stage, Asked, Popped
    <3> QED BY <3>1, <3>2 DEF Bound
  <2>8. AuthMoves(r) /\ ConnMoves(r) /\ UntrustedMoves(r)
    BY <1>1, <1>2, <1>3, <1>10, <1>11, <2>1, <2>5
       DEF AuthMoves, ConnMoves, UntrustedMoves, InAuth, InConn, IsCovered, Popped
  <2> QED BY <1>7, <1>10, <1>11, <2>1, <2>3, <2>4, <2>7, <2>8
<1>12. CASE /\ IsConnValid(r) /\ es[r].list = "auth" /\ st # "ok"
  <2>1. conn' = [conn EXCEPT ![r] = Deleted(@)] /\ ep' = [es EXCEPT ![r] = e]
    BY <1>1, <1>12 DEF DoPassiveConnectCb
  <2>2. es[r] \in Endpoint
    BY <1>2, <1>6
  <2>3. /\ es[r].st = "PASSIVE_STARTED" /\ es[r].disc = FALSE /\ es[r].discSent = FALSE
    BY <1>2, <1>6, <1>10, <1>12
  <2> HIDE DEF es
  <2>4. /\ e \in Endpoint /\ e.list = "ep" /\ e.st = "STOPPING" /\ e.wait = FALSE
        /\ e.disc = TRUE /\ e.discSent = TRUE
    <3> DEFINE l == LocalDisconnect(es[r], "ok")
    <3>1. l \in Endpoint /\ l.st = "PASSIVE_STARTED" /\ l.discSent = TRUE
      BY <2>2, <2>3, LocalFields
    <3> HIDE DEF l
    <3> DEFINE f == Stopped(l)
    <3>2. f \in Endpoint /\ f.st = "STOPPING" /\ f.disc = TRUE /\ f.discSent = TRUE
      BY <3>1, StoppedFields
    <3> HIDE DEF f
    <3>3. e = [f EXCEPT !.list = "ep", !.wait = FALSE]
      BY DEF f, l
    <3> QED BY <3>2, <3>3 DEF Endpoint
  <2> HIDE DEF e
  <2>5. /\ ep'[r] = e /\ conn'[r].state = "gone" /\ conn'[r].told = 1
        /\ conn'[r].ended = conn[r].ended
    BY <1>2, <1>4, <1>5, <1>6, <2>1, DeletedTyped
  <2>6. Bound(r)'
    <3>1. Made(r)' /\ Told(r)' /\ ConnectTells(r)' /\ Owned(r)'
      BY <1>2, <1>3, <2>4, <2>5
         DEF Made, Told, ConnectTells, Owned, Popped, IsConnValid
    <3>2. Stage(r)' /\ Asked(r)'
      BY <1>8, <2>4, <2>5 DEF Stage, Asked
    <3> QED BY <3>1, <3>2 DEF Bound
  <2>7. AuthMoves(r) /\ ConnMoves(r) /\ UntrustedMoves(r)
    BY <1>1, <1>2, <1>3, <1>10, <1>12, <2>4, <2>5
       DEF AuthMoves, ConnMoves, UntrustedMoves, InAuth, InConn, IsCovered, Popped
  <2> QED BY <1>7, <1>10, <1>12, <2>1, <2>4, <2>6, <2>7
<1> QED BY <1>9, <1>11, <1>12

\* DoConnectCb() of an active connection, up to where it gives up the lock.
LEMMA ActiveConnectCbStep ==
    ASSUME Inv, NEW good, DispatchConnectCb("C", good)
    PROVE  Inv'
<1>r. PICK r, st : r = Next1("C").rec /\ st = Next1("C").status
  OBVIOUS
<1> DEFINE makes == IsConnValid(r) /\ ThreadWaits(r) /\ st = "ok" /\ good
           e == [NewEp EXCEPT !.list = "ep", !.st = "ACTIVE_STARTED"]
<1>1. /\ queue["C"] # <<>> /\ Pop("C") /\ DoActiveConnectCb(r, st, good) /\ "C" \in Sides
      /\ Next1("C").cmd = "CONNECT_CB" /\ waking = Half
      /\ UNCHANGED <<net, dups, bad, untrusted, thread>>
  BY <1>r DEF DispatchConnectCb, DoActiveConnectCb, Sides
<1>2. r \in Recs /\ Side(r) = "C" /\ st \in {"ok", "err"} /\ Popped(r, "CONNECT_CB", st)
  BY <1>r, <1>1, PopKnown
<1>3. r \in Active /\ r # Half
  BY <1>2, RecordAssumption DEF Side, Half
<1>4. /\ Bound(r) /\ RecordOK(r) /\ conn[r] \in ConnRecord
      /\ conn[r].told = 1 /\ ArdpInv /\ r \notin Passive
      /\ DisconnectWaits(r) => conn[r].ended = 1
  BY <1>2, <1>3, Known DEF Popped, Inv
<1>5. /\ ep \in [Recs -> Endpoint] /\ conn \in [Recs -> ConnRecord]
      /\ currAuth \in [Sides -> Int] /\ currConn \in [Sides -> Int]
  BY DEF Inv, TypeOK, ArdpTypeOK
<1>6. currAuth' = [currAuth EXCEPT !["C"] = @ - 1] /\ currAuth' \in [Sides -> Int]
  BY <1>1, <1>5 DEF DoActiveConnectCb, Sides
<1>7. /\ e \in Endpoint /\ e.list = "ep" /\ e.st = "ACTIVE_STARTED" /\ e.wait = TRUE
      /\ e.disc = FALSE /\ e.discSent = FALSE
  BY DEF NewEp, Endpoint
<1> HIDE DEF e
<1>8. ep[r].list = "none" /\ ep[r].disc = FALSE /\ ep[r].discSent = FALSE
  <2>1. ep[r].list = "none"
    BY <1>2, <1>3, <1>4 DEF Popped, Bound, Told
  <2> QED BY <1>2, <1>4, <1>5, <2>1 DEF Bound, Stage, Endpoint
<1>9. ASSUME ep' \in [Recs -> Endpoint], \A x \in Recs \ {r} : ep'[x] = ep[x],
             conn' = conn \/ conn' = [conn EXCEPT ![r] = Deleted(@)],
             currConn' \in [Sides -> Int], waking' \in {r, Half},
             Bound(r)', AuthMoves(r), ConnMoves(r), UntrustedMoves(r)
      PROVE  Inv'
  <2>1. conn[r].state # "none"
    BY <1>4 DEF RecordOK
  <2>2. ArdpInv'
    BY <1>1, <1>2, <1>4, <1>9, <2>1, PopInv
  <2>3. TypeOK'
    BY <1>1, <1>3, <1>6, <1>9, <2>2 DEF Inv, TypeOK, ArdpInv
  <2>4. \A x \in Recs \ {r} : conn'[x] = conn[x] /\ waking' # x
    BY <1>5, <1>9, RecordAssumption DEF Half, Recs
  <2>5. \A x \in Recs \ {r} : Same(x)
    BY <1>1, <1>2, <1>9, <2>4 DEF Same, Popped
  <2> QED BY <1>2, <1>9, <2>2, <2>3, <2>5, OneConnection
<1>10. CASE makes
  <2>1. /\ ep' = [ep EXCEPT ![r] = e] /\ waking' = r /\ UNCHANGED <<conn, currConn, thread>>
    BY <1>1, <1>10 DEF DoActiveConnectCb, e
  <2>2. ep' \in [Recs -> Endpoint] /\ ep'[r] = e /\ \A x \in Recs \ {r} : ep'[x] = ep[x]
    BY <1>2, <1>5, <1>7, <2>1
  <2>3. conn[r].state = "OPEN" \/ DisconnectWaits(r)
    BY <1>2, <1>4, <1>10 DEF Popped, Bound, ConnectTells, RecordOK, IsConnValid, ConnRecord
  <2>4. ~Waits(r, "DISCONNECT_CB", "ok")
        /\ ~(conn[r].state = "CLOSE_WAIT" /\ conn[r].reason = "ok")
    BY <1>4, <1>8 DEF Bound, Asked
  <2>5. Bound(r)'
    <3>1. Made(r)' /\ Told(r)' /\ ConnectTells(r)' /\ Owned(r)'
      BY <1>1, <1>2, <1>3, <1>4, <1>7, <1>10, <2>1, <2>2, <2>3
         DEF Bound, Made, Told, ConnectTells, Owned, Popped, RecordOK, IsConnValid
    <3>2. Stage(r)' /\ Asked(r)'
      BY <1>2, <1>7, <2>1, <2>2, <2>4 DEF Stage, Asked, Popped
    <3> QED BY <3>1, <3>2 DEF Bound
  <2>6. AuthMoves(r) /\ ConnMoves(r) /\ UntrustedMoves(r)
    BY <1>1, <1>2, <1>3, <1>4, <1>6, <1>7, <2>1, <2>2, UntrustedAssumption
       DEF AuthMoves, ConnMoves, UntrustedMoves, InAuth, InConn, Popped
  <2> QED BY <1>5, <1>9, <2>1, <2>2, <2>5, <2>6
<1>11. CASE ~makes
  <2>1. /\ conn' = [conn EXCEPT ![r] = Deleted(@)]
        /\ currConn' = [currConn EXCEPT !["C"] = @ - 1] /\ UNCHANGED <<ep, waking, thread>>
    BY <1>1, <1>11 DEF DoActiveConnectCb
  <2>2. conn'[r].state = "gone" /\ conn'[r].told = 1 /\ conn'[r].ended = conn[r].ended
    BY <1>2, <1>4, <1>5, <2>1, DeletedTyped
  <2>3. currConn' \in [Sides -> Int]
    BY <1>5, <2>1 DEF Sides
  <2>4. Bound(r)'
    <3>1. Made(r)' /\ Told(r)' /\ ConnectTells(r)' /\ Owned(r)'
      BY <1>2, <1>3, <1>4, <1>8, <2>1, <2>2
         DEF Made, Told, ConnectTells, Owned, Popped, IsConnValid
    <3>2. Stage(r)' /\ Asked(r)'
      BY <1>1, <1>2, <1>3, <1>4, <1>8, <2>1, <2>2 DEF Bound, Stage, Asked, Popped
    <3> QED BY <3>1, <3>2 DEF Bound
  <2>5. AuthMoves(r) /\ ConnMoves(r) /\ UntrustedMoves(r)
    BY <1>1, <1>2, <1>3, <1>4, <1>6, <1>8, <2>1, <2>2, UntrustedAssumption
       DEF AuthMoves, ConnMoves, UntrustedMoves, InAuth, InConn, Popped
  <2> QED BY <1>1, <1>5, <1>9, <2>1, <2>3, <2>4, <2>5
<1> QED BY <1>10, <1>11

\* A step of the transport that touches only the endpoint of r.
LEMMA EndpointOnly ==
    ASSUME Inv, NEW r \in Recs, NEW e \in Endpoint, ep' = [ep EXCEPT ![r] = e],
           UNCHANGED <<ardpVars, thread>>, waking' \in {waking, Half},
           currAuth' \in [Sides -> Int], currConn' \in [Sides -> Int], UNCHANGED untrusted,
           Stage(r)', Asked(r)', Made(r)', Told(r)', Owned(r)',
           AuthMoves(r), ConnMoves(r), UntrustedMoves(r)
    PROVE  Inv'
<1>1. UNCHANGED <<conn, net, queue, dups, bad>> /\ ep \in [Recs -> Endpoint] /\ Bound(r)
  BY DEF ardpVars, Inv, TypeOK
<1>2. ArdpInv'
  BY <1>1 DEF Inv, ArdpInv, ArdpTypeOK, RecordsOK, RecordOK, CallbacksOK, QueueOrder
<1>3. TypeOK'
  BY <1>1, <1>2 DEF Inv, TypeOK, ArdpInv
<1>4. \A x \in Recs : SameWaits(x)
  BY <1>1, QueueSame
<1>5. \A x \in Recs \ {r} : waking' = x => waking = x
  BY RecordAssumption DEF Half, Recs
<1>6. \A x \in Recs \ {r} : Same(x)
  BY <1>1, <1>4, <1>5 DEF Same
<1>7. ConnectTells(r)'
  BY <1>1, <1>4 DEF Bound, ConnectTells, SameWaits, ConnectWaits, DisconnectWaits
<1>8. Bound(r)'
  BY <1>7 DEF Bound
<1> QED BY <1>2, <1>3, <1>6, <1>8, OneConnection

\* The facts about r that a step on its endpoint alone starts from.
LEMMA EndpointKnown ==
    ASSUME Inv, NEW r \in Recs, UNCHANGED ardpVars
    PROVE  /\ Bound(r) /\ RecordOK(r) /\ ep[r] \in Endpoint /\ ep \in [Recs -> Endpoint]
           /\ (r \in Active <=> r \notin Passive) /\ conn'[r] = conn[r]
           /\ ConnectWaits(r)' <=> ConnectWaits(r)
           /\ DisconnectWaits(r)' <=> DisconnectWaits(r)
           /\ Waits(r, "DISCONNECT_CB", "ok")' <=> Waits(r, "DISCONNECT_CB", "ok")
           /\ DisconnectWaits(r) => conn[r].state \in {"CLOSE_WAIT", "gone"}
           /\ conn[r].state \in States
           /\ currAuth \in [Sides -> Int] /\ currConn \in [Sides -> Int]
<1>1. UNCHANGED <<conn, queue>>
  BY DEF ardpVars
<1>2. SameWaits(r)
  BY <1>1, QueueSame
<1> QED
  BY <1>1, <1>2, Known DEF SameWaits, ConnectWaits, DisconnectWaits, Inv, TypeOK

\* The rest of DoConnectCb().
LEMMA FinishStep == ASSUME Inv, FinishConnectCb PROVE Inv'
<1>r. PICK r : r = waking
  OBVIOUS
<1> DEFINE e == IF ThreadWaits(r) THEN [ep[r] EXCEPT !.st = "STARTED"]
                ELSE [ep[r] EXCEPT !.st = "STOPPING", !.wait = FALSE]
<1>1. /\ r # Half /\ waking' = Half /\ ep' = [ep EXCEPT ![r] = e]
      /\ UNCHANGED <<ardpVars, thread, currAuth, currConn, untrusted>>
  BY <1>r DEF FinishConnectCb, countVars
<1>2. r \in Recs /\ r \in Active
  BY <1>r, <1>1 DEF Inv, TypeOK, Recs
<1>3. /\ Bound(r) /\ ep[r] \in Endpoint /\ ep \in [Recs -> Endpoint]
      /\ (r \in Active <=> r \notin Passive) /\ conn'[r] = conn[r]
      /\ ConnectWaits(r)' <=> ConnectWaits(r)
      /\ DisconnectWaits(r)' <=> DisconnectWaits(r)
      /\ Waits(r, "DISCONNECT_CB", "ok")' <=> Waits(r, "DISCONNECT_CB", "ok")
      /\ currAuth \in [Sides -> Int] /\ currConn \in [Sides -> Int]
  BY <1>1, <1>2, EndpointKnown
<1>4. ep[r].list = "ep"
  BY <1>r, <1>3 DEF Bound, Stage
<1>5. /\ e \in Endpoint /\ e.list = "ep" /\ e.st \in {"STARTED", "STOPPING"}
      /\ e.disc = ep[r].disc /\ e.discSent = ep[r].discSent
      /\ e.wait => ep[r].wait
  <2>1. CASE ThreadWaits(r)
    BY <1>3, <1>4, <2>1 DEF Endpoint
  <2>2. CASE ~ThreadWaits(r)
    BY <1>3, <1>4, <2>2 DEF Endpoint
  <2> QED BY <2>1, <2>2
<1> HIDE DEF e
<1>6. ep'[r] = e
  BY <1>1, <1>2, <1>3
<1>7. Made(r)' /\ Told(r)' /\ Owned(r)'
  BY <1>r, <1>1, <1>2, <1>3, <1>4, <1>5, <1>6 DEF Bound, Made, Told, Owned, Stage, IsConnValid
<1>8. Stage(r)' /\ Asked(r)'
  BY <1>1, <1>3, <1>4, <1>5, <1>6 DEF Bound, Stage, Asked
<1>9. AuthMoves(r) /\ ConnMoves(r) /\ UntrustedMoves(r)
  BY <1>1, <1>3, <1>4, <1>5, <1>6
     DEF AuthMoves, ConnMoves, UntrustedMoves, InAuth, InConn, IsCovered
<1> QED BY <1>1, <1>2, <1>3, <1>5, <1>7, <1>8, <1>9, EndpointOnly

\* DisconnectCb(): the endpoint, if there is one, hears that it was
\* disconnected, and an untrusted client leaves the count.
LEMMA DisconnectCbStep ==
    ASSUME Inv, NEW s \in Sides, DispatchDisconnectCb(s) PROVE Inv'
<1>r. PICK r, st : r = Next1(s).rec /\ st = Next1(s).status
  OBVIOUS
<1> DEFINE after == IF st = "ok" THEN LocalDisconnect(ep[r], "ok")
                    ELSE [ep[r] EXCEPT !.disc = TRUE]
           e == Stopped(after)
<1>1. /\ queue[s] # <<>> /\ Pop(s) /\ Next1(s).cmd = "DISCONNECT_CB"
      /\ s = "C" => waking = Half
      /\ UNCHANGED <<conn, net, dups, bad, thread, waking, currAuth, currConn>>
      /\ ep[r].list = "ep" => /\ ep' = [ep EXCEPT ![r] = e]
                              /\ untrusted' = IF r \in Untrusted THEN untrusted - 1
                                              ELSE untrusted
      /\ ep[r].list # "ep" => UNCHANGED <<ep, untrusted>>
  BY <1>r DEF DispatchDisconnectCb
<1>2. r \in Recs /\ Side(r) = s /\ st \in {"ok", "err"} /\ Popped(r, "DISCONNECT_CB", st)
  BY <1>r, <1>1, PopKnown
<1>3. /\ Bound(r) /\ RecordOK(r) /\ ep[r] \in Endpoint /\ conn[r] \in ConnRecord
      /\ (r \in Active <=> r \notin Passive) /\ ArdpInv
      /\ conn[r].ended = 1 /\ conn[r].state \in {"CLOSE_WAIT", "gone"}
  BY <1>2, Known DEF Popped, Inv
<1>4. ep \in [Recs -> Endpoint] /\ waking \in Active \cup {Half} /\ untrusted \in Int
  BY DEF Inv, TypeOK
<1>5. ArdpInv'
  BY <1>1, <1>2, <1>3, PopInv
<1>6. waking' # r
  BY <1>1, <1>2, <1>4, RecordAssumption DEF Side, Half, Recs
<1>7. /\ after \in Endpoint /\ after.list = ep[r].list /\ after.st = ep[r].st
      /\ after.wait = ep[r].wait
      /\ ep[r].discSent => after.discSent = TRUE
      /\ st = "ok" /\ ep[r].discSent => after.disc = TRUE
      /\ st = "err" => after.disc = TRUE
      /\ ep[r].disc => after.disc = TRUE
  <2>1. CASE st = "ok"
    <3> DEFINE l == LocalDisconnect(ep[r], "ok")
    <3>1. /\ l \in Endpoint /\ l.list = ep[r].list /\ l.st = ep[r].st /\ l.wait = ep[r].wait
          /\ ep[r].disc => l = ep[r]
          /\ ~ep[r].disc /\ ep[r].discSent => l.disc = TRUE /\ l.discSent = TRUE
      BY <1>3, LocalFields
    <3>2. after = l
      BY <2>1
    <3>3. ep[r].disc \in BOOLEAN /\ ep[r].discSent \in BOOLEAN
      BY <1>3 DEF Endpoint
    <3> HIDE DEF l, after
    <3> QED BY <2>1, <3>1, <3>2, <3>3
  <2>2. CASE st # "ok"
    BY <1>2, <1>3, <2>2 DEF Endpoint
  <2> QED BY <2>1, <2>2
<1> HIDE DEF after
<1>8. /\ e \in Endpoint /\ e.list = ep[r].list
      /\ e.discSent = after.discSent
      /\ after.disc => e.disc = TRUE
      /\ e.wait => ep[r].wait
      /\ e.st \in {"STOPPING", "JOINED", "DONE"}
      /\ e.st \in {"JOINED", "DONE"} => ep[r].st = e.st
  BY <1>7, StoppedFields DEF Endpoint
<1> HIDE DEF e
\* A stream that sent its disconnect, or is told of an error, is disconnected.
<1>9. ep[r].list = "ep" => after.disc = TRUE
  BY <1>2, <1>3, <1>7 DEF Popped, Bound, Asked
<1>10. /\ \A x \in Recs \ {r} : ep'[x] = ep[x]
       /\ ep[r].list = "ep" => ep'[r] = e
       /\ ep[r].list # "ep" => ep'[r] = ep[r]
       /\ ep' \in [Recs -> Endpoint]
  BY <1>1, <1>2, <1>4, <1>8
<1>11. TypeOK'
  <2>1. untrusted' \in Int
    BY <1>1, <1>4
  <2> QED BY <1>1, <1>5, <1>10, <2>1 DEF Inv, TypeOK, ArdpInv
<1>12. \A x \in Recs \ {r} : Same(x)
  BY <1>1, <1>2, <1>10 DEF Same, Popped
<1>13. CASE ep[r].list = "ep"
  <2>1. Made(r)' /\ Told(r)' /\ ConnectTells(r)' /\ Owned(r)'
    BY <1>1, <1>2, <1>3, <1>8, <1>10, <1>13
       DEF Bound, Made, Told, ConnectTells, Owned, Popped, IsConnValid
  <2>2. Stage(r)'
    BY <1>1, <1>3, <1>6, <1>8, <1>9, <1>10, <1>13 DEF Bound, Stage
  <2>3. Asked(r)'
    BY <1>1, <1>2, <1>3, <1>7, <1>8, <1>9, <1>10, <1>13 DEF Bound, Asked, Popped, RecordOK
  <2>4. AuthMoves(r) /\ ConnMoves(r)
    BY <1>1, <1>2, <1>3, <1>8, <1>10, <1>13
       DEF AuthMoves, ConnMoves, InAuth, InConn, Popped
  <2>5. UntrustedMoves(r)
    BY <1>1, <1>2, <1>3, <1>8, <1>10, <1>13
       DEF UntrustedMoves, IsCovered, Popped, RecordOK
  <2>6. Bound(r)'
    BY <2>1, <2>2, <2>3 DEF Bound
  <2> QED BY <1>2, <1>5, <1>11, <1>12, <2>4, <2>5, <2>6, OneConnection
<1>14. CASE ep[r].list # "ep"
  <2>1. Made(r)' /\ Told(r)' /\ ConnectTells(r)' /\ Owned(r)'
    BY <1>1, <1>2, <1>3, <1>10, <1>14
       DEF Bound, Made, Told, ConnectTells, Owned, Popped, IsConnValid
  <2>2. Stage(r)'
    BY <1>1, <1>3, <1>6, <1>10, <1>14 DEF Bound, Stage
  <2>3. Asked(r)'
    BY <1>1, <1>2, <1>3, <1>10, <1>14 DEF Bound, Asked, Popped
  <2>4. AuthMoves(r) /\ ConnMoves(r)
    BY <1>1, <1>2, <1>3, <1>10, <1>14
       DEF AuthMoves, ConnMoves, InAuth, InConn, Popped
  <2>5. UntrustedMoves(r)
    BY <1>1, <1>2, <1>10, <1>14 DEF UntrustedMoves, IsCovered, Popped
  <2>6. Bound(r)'
    BY <2>1, <2>2, <2>3 DEF Bound
  <2> QED BY <1>2, <1>5, <1>11, <1>12, <2>4, <2>5, <2>6, OneConnection
<1> QED BY <1>13, <1>14

-----------------------------------------------------------------------------
(* The endpoint management thread and the exit dispatcher.                 *)

LEMMA StopStep == ASSUME Inv, NEW r \in Recs, StopEndpoint(r) PROVE Inv'
<1> DEFINE e == Stopped(ep[r])
<1>1. /\ ep[r].list = "ep" /\ ep[r].st = "STARTED" /\ UNCHANGED <<ardpVars, thread, waking>>
      /\ UNCHANGED <<currAuth, currConn, untrusted>>
  BY DEF StopEndpoint, countVars
<1>2. /\ Bound(r) /\ ep[r] \in Endpoint /\ ep \in [Recs -> Endpoint] /\ conn'[r] = conn[r]
      /\ (r \in Active <=> r \notin Passive)
      /\ ConnectWaits(r)' <=> ConnectWaits(r)
      /\ DisconnectWaits(r)' <=> DisconnectWaits(r)
      /\ Waits(r, "DISCONNECT_CB", "ok")' <=> Waits(r, "DISCONNECT_CB", "ok")
      /\ currAuth \in [Sides -> Int] /\ currConn \in [Sides -> Int]
  BY <1>1, EndpointKnown
<1>3. /\ e \in Endpoint /\ e.list = "ep" /\ e.st = "STOPPING" /\ e.wait = ep[r].wait
      /\ e.disc = ep[r].disc /\ e.discSent = ep[r].discSent
  BY <1>1, <1>2, StoppedFields
<1>4. ep' = [ep EXCEPT ![r] = e] /\ ep'[r] = e
  BY <1>2 DEF StopEndpoint
<1> HIDE DEF e
<1>5. waking' # r
  BY <1>1, <1>2 DEF Bound, Stage
<1>6. Made(r)' /\ Told(r)' /\ Owned(r)' /\ Stage(r)' /\ Asked(r)'
  BY <1>1, <1>2, <1>3, <1>4, <1>5 DEF Bound, Made, Told, Owned, Stage, Asked, IsConnValid
<1>7. AuthMoves(r) /\ ConnMoves(r) /\ UntrustedMoves(r)
  BY <1>1, <1>2, <1>3, <1>4
     DEF AuthMoves, ConnMoves, UntrustedMoves, InAuth, InConn, IsCovered
<1> QED BY <1>1, <1>2, <1>3, <1>4, <1>6, <1>7, EndpointOnly

LEMMA ManagePreStep == ASSUME Inv, NEW r \in Recs, ManagePre(r) PROVE Inv'
<1>1. /\ ep[r].list = "pre" /\ ep' = [ep EXCEPT ![r].list = "auth"]
      /\ UNCHANGED <<ardpVars, thread, waking, countVars>>
      /\ UNCHANGED <<conn, net, queue, dups, bad, currAuth, currConn, untrusted>>
      /\ ep \in [Recs -> Endpoint]
  BY DEF ManagePre, Inv, TypeOK, ardpVars, countVars
<1>2. [ep[r] EXCEPT !.list = "auth"] \in Endpoint
  BY <1>1 DEF Endpoint
<1>3. ep' \in [Recs -> Endpoint] /\ ep'[r] = [ep[r] EXCEPT !.list = "auth"]
      /\ \A x \in Recs \ {r} : ep'[x] = ep[x]
  BY <1>1, <1>2
<1>4. ArdpInv'
  BY <1>1 DEF Inv, ArdpInv, ArdpTypeOK, RecordsOK, RecordOK, CallbacksOK, QueueOrder
<1>5. TypeOK'
  BY <1>1, <1>3, <1>4 DEF Inv, TypeOK, ArdpInv
<1>6. \A x \in Recs : SameWaits(x)
  BY <1>1, QueueSame
<1>7. \A x \in Recs : Same(x)
  BY <1>1, <1>3, <1>6 DEF Same
<1> QED BY <1>1, <1>4, <1>5, <1>7, NoConnection

\* An endpoint whose handshake came to nothing is stopped; its connection is
\* not open, for then the ConnectCb would still wait.
LEMMA ManageAuthStep == ASSUME Inv, NEW r \in Recs, ManageAuth(r) PROVE Inv'
<1> DEFINE f == Stopped(ep[r])
           e == [f EXCEPT !.list = "ep", !.wait = FALSE]
<1>1. /\ ep[r].list = "auth" /\ HandshakeOver(r)
      /\ UNCHANGED <<ardpVars, thread, waking, currConn, untrusted>>
      /\ currAuth' = [currAuth EXCEPT ![Side(r)] = @ - 1]
  BY DEF ManageAuth
<1>2. /\ Bound(r) /\ RecordOK(r) /\ ep[r] \in Endpoint /\ ep \in [Recs -> Endpoint]
      /\ conn'[r] = conn[r] /\ (r \in Active <=> r \notin Passive)
      /\ ConnectWaits(r)' <=> ConnectWaits(r)
      /\ DisconnectWaits(r)' <=> DisconnectWaits(r)
      /\ Waits(r, "DISCONNECT_CB", "ok")' <=> Waits(r, "DISCONNECT_CB", "ok")
      /\ conn[r].state \in States
      /\ currAuth \in [Sides -> Int] /\ currConn \in [Sides -> Int]
  BY <1>1, EndpointKnown
<1>3. ep' = [ep EXCEPT ![r] = e] /\ ep'[r] = e
  BY <1>2 DEF ManageAuth
<1>4. ep[r].st = "PASSIVE_STARTED" /\ r \in Passive /\ r \notin Active /\ ep[r].discSent = FALSE
  BY <1>1, <1>2 DEF Bound, Stage, Told, Endpoint
<1>5. /\ e \in Endpoint /\ e.list = "ep" /\ e.st = "STOPPING" /\ e.wait = FALSE
      /\ e.disc = TRUE /\ e.discSent = FALSE
  <2>1. f \in Endpoint /\ f.st = "STOPPING" /\ f.disc = TRUE /\ f.discSent = FALSE
    BY <1>2, <1>4, StoppedFields
  <2> HIDE DEF f
  <2> QED BY <2>1 DEF Endpoint
<1> HIDE DEF e
<1>6. ~ConnectWaits(r) /\ conn[r].state # "SYN_RCVD"
  BY <1>1 DEF HandshakeOver, ConnectWaits, Waits, Callback
<1>7. conn[r].state \in {"CLOSE_WAIT", "gone"}
  <2>1. conn[r].state \notin {"none", "SYN_SENT", "SYN_RCVD"}
    BY <1>1, <1>2, <1>4, <1>6 DEF Bound, Made, RecordOK
  <2>2. conn[r].state \notin {"OPEN", "CLOSED"}
    BY <1>1, <1>2, <1>4, <1>6 DEF Bound, Told, RecordOK, IsConnValid
  <2> QED BY <1>2, <2>1, <2>2 DEF States
<1>8. waking' # r
  BY <1>1, <1>4, RecordAssumption DEF Inv, TypeOK, Half
<1>9. ~Waits(r, "DISCONNECT_CB", "ok") /\ ~(conn[r].state = "CLOSE_WAIT" /\ conn[r].reason = "ok")
  BY <1>1, <1>2, <1>4 DEF Bound, Asked
<1>10. Made(r)' /\ Told(r)' /\ Owned(r)'
  BY <1>1, <1>2, <1>4, <1>5, <1>3, <1>6, <1>7 DEF Bound, Made, Told, Owned, IsConnValid
<1>11. Stage(r)' /\ Asked(r)'
  BY <1>2, <1>3, <1>5, <1>7, <1>8, <1>9 DEF Stage, Asked
<1>12. AuthMoves(r) /\ ConnMoves(r) /\ UntrustedMoves(r)
  BY <1>1, <1>2, <1>3, <1>4, <1>5
     DEF AuthMoves, ConnMoves, UntrustedMoves, InAuth, InConn, IsCovered
<1>13. currAuth' \in [Sides -> Int]
  BY <1>1, <1>2, SideTyped
<1> QED BY <1>1, <1>2, <1>3, <1>5, <1>10, <1>11, <1>12, <1>13, EndpointOnly

\* An endpoint that leaves m_endpointList was disconnected.
LEMMA ManageDoneStep == ASSUME Inv, NEW r \in Recs, ManageDone(r) PROVE Inv'
<1> DEFINE e == [NewEp EXCEPT !.list = "erased"]
<1>1. /\ ep[r].list = "ep" /\ ep[r].st = "DONE" /\ ep' = [ep EXCEPT ![r] = e]
      /\ UNCHANGED <<ardpVars, thread, waking, currAuth, untrusted>>
      /\ currConn' = [currConn EXCEPT ![Side(r)] = @ - 1]
  BY DEF ManageDone
<1>2. /\ Bound(r) /\ RecordOK(r) /\ ep \in [Recs -> Endpoint]
      /\ conn'[r] = conn[r] /\ (r \in Active <=> r \notin Passive)
      /\ ConnectWaits(r)' <=> ConnectWaits(r)
      /\ currAuth \in [Sides -> Int] /\ currConn \in [Sides -> Int]
  BY <1>1, EndpointKnown
<1>3. /\ e \in Endpoint /\ e.list = "erased" /\ e.st = "INITIALIZED" /\ e.wait = TRUE
      /\ e.disc = FALSE /\ e.discSent = FALSE
  BY DEF NewEp, Endpoint
<1> HIDE DEF e
<1>4. ep'[r] = e
  BY <1>1, <1>2
<1>5. conn[r].state \in {"CLOSED", "CLOSE_WAIT", "gone"} /\ waking # r
  BY <1>1, <1>2 DEF Bound, Stage
<1>6. Made(r)' /\ Told(r)' /\ Owned(r)'
  BY <1>1, <1>2, <1>3, <1>4, <1>5 DEF Bound, Made, Told, Owned, IsConnValid
<1>7. Stage(r)' /\ Asked(r)'
  BY <1>1, <1>3, <1>4, <1>5 DEF Stage, Asked
<1>8. ~InAuth(r) /\ ~InAuth(r)'
  BY <1>1, <1>2, <1>3, <1>4 DEF Bound, Told, InAuth
<1>9. AuthMoves(r) /\ ConnMoves(r) /\ UntrustedMoves(r)
  BY <1>1, <1>3, <1>4, <1>8 DEF AuthMoves, ConnMoves, UntrustedMoves, InConn, IsCovered
<1>10. currConn' \in [Sides -> Int]
  BY <1>1, <1>2, SideTyped
<1> QED BY <1>1, <1>2, <1>3, <1>6, <1>7, <1>9, <1>10, EndpointOnly

LEMMA ExitStep == ASSUME Inv, NEW r \in Recs, ExitEndpoint(r) PROVE Inv'
<1> DEFINE e == [ep[r] EXCEPT !.st = "DONE"]
<1>1. /\ ep[r].st = "JOINED" /\ UNCHANGED <<ardpVars, thread, waking>>
      /\ UNCHANGED <<currAuth, currConn, untrusted>>
  BY DEF ExitEndpoint, countVars
<1>2. /\ Bound(r) /\ ep[r] \in Endpoint /\ ep \in [Recs -> Endpoint] /\ conn'[r] = conn[r]
      /\ (r \in Active <=> r \notin Passive)
      /\ ConnectWaits(r)' <=> ConnectWaits(r)
      /\ DisconnectWaits(r)' <=> DisconnectWaits(r)
      /\ Waits(r, "DISCONNECT_CB", "ok")' <=> Waits(r, "DISCONNECT_CB", "ok")
      /\ currAuth \in [Sides -> Int] /\ currConn \in [Sides -> Int]
  BY <1>1, EndpointKnown
<1>3. /\ e \in Endpoint /\ e.list = ep[r].list /\ e.st = "DONE" /\ e.wait = ep[r].wait
      /\ e.disc = ep[r].disc /\ e.discSent = ep[r].discSent
  BY <1>2 DEF Endpoint
<1>4. ep' = [ep EXCEPT ![r] = e] /\ ep'[r] = e
  BY <1>2 DEF ExitEndpoint
<1> HIDE DEF e
<1>5. waking' # r
  BY <1>1, <1>2 DEF Bound, Stage
<1>6. Made(r)' /\ Told(r)' /\ Owned(r)' /\ Asked(r)'
  BY <1>1, <1>2, <1>3, <1>4 DEF Bound, Made, Told, Owned, Asked, IsConnValid
<1>7. Stage(r)'
  BY <1>1, <1>2, <1>3, <1>4, <1>5 DEF Bound, Stage
<1>8. AuthMoves(r) /\ ConnMoves(r) /\ UntrustedMoves(r)
  BY <1>1, <1>2, <1>3, <1>4
     DEF AuthMoves, ConnMoves, UntrustedMoves, InAuth, InConn, IsCovered
<1> QED BY <1>1, <1>2, <1>3, <1>4, <1>6, <1>7, <1>8, EndpointOnly

\* ARDP_Disconnect() of a connection that is up closes it.
LEMMA ClosesStep ==
    ASSUME ArdpInv, NEW r \in Recs, NEW st \in SendStatus, ARDP_Disconnect(r, st),
           conn[r].state = "OPEN", UNCHANGED <<queue, dups>>
    PROVE  Typed /\ \E c : Closes(r, c)
<1> DEFINE c == Disconnected(conn[r], "ok")
<1>1. /\ Write(st) /\ conn' = [conn EXCEPT ![r] = c]
      /\ net' = Put(net, Sent(st, Seg("RST", r, conn[r].foreign)))
  BY RecordTyped DEF ARDP_Disconnect, IsConnValid, IsDead
<1>2. /\ c \in ConnRecord /\ c.state = "CLOSE_WAIT" /\ c.timer = "disconnect"
      /\ c.reason = "ok" /\ c.told = conn[r].told /\ c.ended = conn[r].ended
  <2>1. c = [conn[r] EXCEPT !.state = "CLOSE_WAIT", !.timer = "disconnect", !.retry = 1,
                            !.reason = "ok", !.ended = conn[r].ended]
    BY DEF Disconnected, IsDead
  <2> HIDE DEF c
  <2>2. conn[r] \in ConnRecord /\ conn[r].ended \in Nat /\ "CLOSE_WAIT" \in States
    BY RecordTyped, StateNames
  <2>3. c \in ConnRecord
    BY <2>1, <2>2 DEF ConnRecord
  <2> QED BY <2>1, <2>2, <2>3 DEF ConnRecord
<1> HIDE DEF c
<1>3. Closes(r, c)
  BY <1>1, <1>2, CalledNone DEF Closes, Becomes, ArdpInv
<1>4. net' \subseteq Segment
  BY <1>1, RecordTyped, SegTyped, SentTyped, PutTyped DEF ArdpInv, ArdpTypeOK
<1> QED BY <1>1, <1>3, <1>4, WriteTyped DEF Typed, ArdpInv, ArdpTypeOK

\* What ManageStopping() leaves of a stopping endpoint: it calls ARDP once,
\* and an endpoint that is disconnected is joined.
Handled(e, status) ==
    LET after == LocalDisconnect([e EXCEPT !.wait = FALSE], status)
        mid == IF e.wait \/ CallsArdp(e) THEN after ELSE e
    IN  IF mid.disc THEN [mid EXCEPT !.st = "JOINED"] ELSE mid

LEMMA StoppingFields ==
    ASSUME NEW e \in Endpoint, e.list = "ep", e.st = "STOPPING",
           e.wait => e.disc \/ ~e.discSent, NEW status, NEW f, f = Handled(e, status)
    PROVE  /\ f \in Endpoint /\ f.list = "ep" /\ f.st \in {"STOPPING", "JOINED"}
           /\ f.st = "JOINED" => f.disc
           /\ f.wait = FALSE
           /\ e.discSent \/ CallsArdp(e) => f.discSent
           /\ f.disc \/ f.discSent => e.disc \/ e.discSent \/ CallsArdp(e)
<1> DEFINE w == [e EXCEPT !.wait = FALSE]
           after == LocalDisconnect(w, status)
           mid == IF e.wait \/ CallsArdp(e) THEN after ELSE e
<1>1. e.disc \in BOOLEAN /\ e.discSent \in BOOLEAN /\ e.wait \in BOOLEAN
  BY DEF Endpoint
<1>2. /\ w \in Endpoint /\ w.list = "ep" /\ w.st = "STOPPING" /\ w.wait = FALSE
      /\ w.disc = e.disc /\ w.discSent = e.discSent
  BY DEF Endpoint
<1> HIDE DEF w
<1>3. /\ after \in Endpoint /\ after.list = "ep" /\ after.st = "STOPPING" /\ after.wait = FALSE
      /\ after.disc \in BOOLEAN /\ after.discSent \in BOOLEAN
      /\ e.disc => after = w
      /\ ~e.disc => after.discSent = TRUE
  <2>1. /\ after \in Endpoint /\ after.list = w.list /\ after.st = w.st /\ after.wait = w.wait
        /\ w.disc => after = w
        /\ ~w.disc /\ w.discSent => after.disc = TRUE /\ after.discSent = TRUE
        /\ ~w.disc /\ ~w.discSent => after.discSent = TRUE
    BY <1>2, LocalFields, ZenonT(60)
  <2>2. after.disc \in BOOLEAN /\ after.discSent \in BOOLEAN
    BY <2>1 DEF Endpoint
  <2> HIDE DEF after
  <2> QED BY <1>1, <1>2, <2>1, <2>2
<1> HIDE DEF after
<1>4. /\ mid \in Endpoint /\ mid.list = "ep" /\ mid.st = "STOPPING" /\ mid.wait = FALSE
      /\ mid.disc \in BOOLEAN /\ mid.discSent \in BOOLEAN
      /\ e.discSent \/ CallsArdp(e) => mid.discSent = TRUE
      /\ mid.disc \/ mid.discSent => e.disc \/ e.discSent \/ CallsArdp(e)
  <2>1. CASE e.wait \/ CallsArdp(e)
    <3>1. mid = after
      BY <2>1
    <3> HIDE DEF mid
    <3> QED BY <1>1, <1>2, <1>3, <2>1, <3>1 DEF CallsArdp
  <2>2. CASE ~(e.wait \/ CallsArdp(e))
    <3>1. mid = e
      BY <2>2
    <3> HIDE DEF mid
    <3> QED BY <1>1, <2>2, <3>1
  <2> QED BY <2>1, <2>2
<1>5. f = IF mid.disc THEN [mid EXCEPT !.st = "JOINED"] ELSE mid
  BY DEF Handled, after, w
<1> HIDE DEF mid
<1>6. CASE mid.disc
  BY <1>4, <1>5, <1>6 DEF Endpoint
<1>7. CASE ~mid.disc
  BY <1>4, <1>5, <1>7
<1> QED BY <1>6, <1>7

LEMMA ManageStoppingStep ==
    ASSUME Inv, NEW r \in Recs, NEW st \in SendStatus, ManageStopping(r, st) PROVE Inv'
<1> DEFINE e == ep[r]
           f == Handled(e, DisconnectReturns(r, st))
<1>1. /\ e.list = "ep" /\ e.st = "STOPPING" /\ ep' = [ep EXCEPT ![r] = f]
      /\ UNCHANGED <<queue, dups, thread, waking>>
      /\ UNCHANGED <<currAuth, currConn, untrusted>>
      /\ IF CallsArdp(e) THEN ARDP_Disconnect(r, st) ELSE UNCHANGED <<conn, net, bad>>
  BY DEF ManageStopping, Handled, countVars
<1>2. /\ Bound(r) /\ RecordOK(r) /\ conn[r] \in ConnRecord /\ ep[r] \in Endpoint
      /\ conn[r].state \in States /\ (r \in Active <=> r \notin Passive)
      /\ DisconnectWaits(r) => conn[r].state \in {"CLOSE_WAIT", "gone"}
      /\ ArdpInv /\ ep \in [Recs -> Endpoint] /\ conn \in [Recs -> ConnRecord]
  BY Known DEF Inv, TypeOK, ArdpTypeOK
<1>3. /\ f \in Endpoint /\ f.list = "ep" /\ f.st \in {"STOPPING", "JOINED"}
      /\ f.st = "JOINED" => f.disc
      /\ f.wait = FALSE
      /\ e.discSent \/ CallsArdp(e) => f.discSent
      /\ f.disc \/ f.discSent => e.disc \/ e.discSent \/ CallsArdp(e)
  <2>1. e.wait => e.disc \/ ~e.discSent
    BY <1>2 DEF Bound, Asked
  <2> QED BY <1>1, <1>2, <2>1, StoppingFields
<1> HIDE DEF f
<1>4. /\ ep'[r] = f /\ ep' \in [Recs -> Endpoint] /\ \A x \in Recs \ {r} : ep'[x] = ep[x]
  BY <1>1, <1>2, <1>3
<1>5. \A x \in Recs : SameWaits(x)
  BY <1>1, QueueSame
<1>6. /\ ConnectWaits(r)' <=> ConnectWaits(r)
      /\ DisconnectWaits(r)' <=> DisconnectWaits(r)
      /\ Waits(r, "DISCONNECT_CB", "ok")' <=> Waits(r, "DISCONNECT_CB", "ok")
      /\ Waits(r, "CONNECT_CB", "ok")' <=> Waits(r, "CONNECT_CB", "ok")
  BY <1>5 DEF SameWaits, ConnectWaits, DisconnectWaits
<1>7. waking' # r
  BY <1>1, <1>2 DEF Bound, Stage
\* The connection of an endpoint that lives is not being made any more.
<1>8. /\ conn[r].state \in {"OPEN", "CLOSED", "CLOSE_WAIT", "gone"}
      /\ conn[r].state = "OPEN" => ~ConnectWaits(r)
  <2>1. conn[r].state \notin {"none", "SYN_RCVD"}
    BY <1>1, <1>2 DEF Bound, Made, Told
  <2>2. conn[r].state # "SYN_SENT"
    BY <1>1, <1>2 DEF Bound, Told, RecordOK
  <2>3. conn[r].state = "OPEN" => ~ConnectWaits(r)
    BY <1>1, <1>2 DEF Bound, Told, IsConnValid
  <2> QED BY <1>2, <2>1, <2>2, <2>3 DEF States
<1>9. ASSUME ArdpInv', \A x \in Recs \ {r} : conn'[x] = conn[x], Bound(r)', UntrustedMoves(r),
             conn'[r].told = conn[r].told
      PROVE  Inv'
  <2>1. TypeOK'
    BY <1>1, <1>4, <1>9 DEF Inv, TypeOK, ArdpInv
  <2>2. \A x \in Recs \ {r} : Same(x)
    BY <1>1, <1>4, <1>5, <1>9 DEF Same
  <2>3. AuthMoves(r) /\ ConnMoves(r)
    BY <1>1, <1>3, <1>4, <1>6, <1>9 DEF AuthMoves, ConnMoves, InAuth, InConn
  <2> QED BY <1>9, <2>1, <2>2, <2>3, OneConnection
<1>10. CASE CallsArdp(e) /\ conn[r].state = "OPEN"
  <2>1. PICK c : Typed /\ Closes(r, c)
    BY <1>1, <1>2, <1>10, ClosesStep
  <2>2. ArdpInv' /\ conn'[r] = c /\ \A x \in Recs \ {r} : conn'[x] = conn[x]
    BY <1>2, <2>1, LifeInv, LifeRecords DEF Life
  <2>3. /\ c.state = "CLOSE_WAIT" /\ c.reason = "ok" /\ c.told = conn[r].told
        /\ c.ended = conn[r].ended
    BY <2>1 DEF Closes
  <2>4. Made(r)' /\ Told(r)' /\ ConnectTells(r)' /\ Owned(r)'
    BY <1>1, <1>2, <1>3, <1>4, <1>6, <1>8, <1>10, <2>2, <2>3
       DEF Bound, Made, Told, ConnectTells, Owned, ConnectWaits, IsConnValid
  <2>5. Stage(r)' /\ Asked(r)'
    BY <1>3, <1>4, <1>7, <1>10, <2>2, <2>3 DEF Stage, Asked
  <2>6. UntrustedMoves(r)
    BY <1>1, <1>10 DEF UntrustedMoves, IsCovered
  <2>7. Bound(r)'
    BY <2>4, <2>5 DEF Bound
  <2> QED BY <1>9, <2>2, <2>3, <2>6, <2>7
<1>11. CASE ~(CallsArdp(e) /\ conn[r].state = "OPEN")
  <2>1. UNCHANGED <<conn, net, bad>>
    BY <1>1, <1>8, <1>11 DEF ARDP_Disconnect, IsConnValid, IsDead
  <2>2. ArdpInv'
    BY <1>1, <1>2, <2>1 DEF ArdpInv, ArdpTypeOK, RecordsOK, RecordOK, CallbacksOK, QueueOrder
  <2>3. f.disc \/ f.discSent => conn[r].state \in {"CLOSED", "CLOSE_WAIT", "gone"}
    BY <1>2, <1>3, <1>8, <1>11 DEF Bound, Stage
  <2>4. Made(r)' /\ Told(r)' /\ ConnectTells(r)'
    BY <1>1, <1>2, <1>3, <1>4, <1>6, <2>1
       DEF Bound, Made, Told, ConnectTells, IsConnValid
  <2>5. Stage(r)' /\ Owned(r)'
    BY <1>1, <1>2, <1>3, <1>4, <1>6, <1>7, <2>1, <2>3 DEF Bound, Stage, Owned
  <2>6. Asked(r)'
    BY <1>1, <1>2, <1>3, <1>4, <1>6, <2>1 DEF Bound, Asked
  <2>7. UntrustedMoves(r)
    BY <1>1, <1>4, <1>6, <2>1 DEF UntrustedMoves, IsCovered
  <2>8. Bound(r)'
    BY <2>4, <2>5, <2>6 DEF Bound
  <2> QED BY <1>9, <2>1, <2>2, <2>7, <2>8
<1> QED BY <1>10, <1>11

-----------------------------------------------------------------------------
(* The theorems.                                                           *)

LEMMA InitInv == ASSUME Init PROVE Inv
<1>1. /\ conn = [r \in Recs |-> NewRecord] /\ queue = [s \in Sides |-> <<>>]
      /\ ep = [r \in Recs |-> NewEp] /\ waking = Half /\ thread = [r \in Active |-> "none"]
      /\ net = {} /\ dups = 0 /\ bad = 0 /\ currAuth = [s \in Sides |-> 0]
      /\ currConn = [s \in Sides |-> 0] /\ untrusted = 0
  BY DEF Init, ArdpInit
<1>2. /\ NewRecord \in ConnRecord /\ NewRecord.state = "none" /\ NewRecord.told = 0
      /\ NewRecord.ended = 0 /\ NewRecord.timer = "off"
  <2>1. "none" \in States /\ 0 \in 0 .. ProbeRetries
    BY ConfigAssumption DEF States
  <2> QED BY <2>1 DEF NewRecord, ConnRecord
<1>3. /\ NewEp \in Endpoint /\ NewEp.list = "none" /\ NewEp.st = "INITIALIZED"
      /\ NewEp.disc = FALSE /\ NewEp.discSent = FALSE
  BY DEF NewEp, Endpoint
<1>4. \A s \in Sides : queue[s] = <<>> /\ Len(queue[s]) = 0
  BY <1>1
<1>5. queue \in [Sides -> Seq(CallbackRecord)]
  BY <1>1
<1>6. ArdpTypeOK
  BY <1>1, <1>2, <1>5 DEF ArdpTypeOK
<1>7. TypeOK
  BY <1>1, <1>3, <1>6 DEF TypeOK
<1>8. RecordsOK
  BY <1>1, <1>2 DEF RecordsOK, RecordOK
<1>9. CallbacksOK /\ QueueOrder
  BY <1>4 DEF CallbacksOK, QueueOrder
<1>10. \A r \in Recs : \A cmd, st : ~Waits(r, cmd, st)
  BY <1>4, SideTyped DEF Waits
<1>11. ASSUME NEW r \in Recs PROVE Bound(r) /\ ~InConn(r) /\ ~IsCovered(r) /\ ~InAuth(r)
  <2>1. /\ ~ConnectWaits(r) /\ ~DisconnectWaits(r) /\ r # Half
        /\ conn[r] = NewRecord /\ ep[r] = NewEp
        /\ r \in Active => thread[r] = "none"
    BY <1>1, <1>10, RecordAssumption DEF ConnectWaits, DisconnectWaits, Half, Recs
  <2>2. Made(r) /\ Told(r) /\ ConnectTells(r) /\ Owned(r)
    BY <1>2, <1>3, <1>10, <2>1 DEF Made, Told, ConnectTells, Owned, IsConnValid
  <2>3. Stage(r) /\ Asked(r)
    BY <1>1, <1>2, <1>3, <1>10, <2>1 DEF Stage, Asked
  <2> QED
    BY <1>3, <2>1, <2>2, <2>3 DEF Bound, InConn, InAuth, IsCovered
<1>12. /\ \A s \in Sides : AuthSet(s) = {} /\ ConnSet(s) = {}
       /\ Covered = {}
  BY <1>11, UntrustedAssumption DEF AuthSet, ConnSet, Covered, Recs
<1>13. Counts
  <2>1. Cardinality({}) = 0
    BY FS_EmptySet
  <2>2. \A s \in Sides : currAuth[s] = 0 /\ currConn[s] = 0
    BY <1>1
  <2>3. /\ \A s \in Sides : Cardinality(AuthSet(s)) = 0 /\ Cardinality(ConnSet(s)) = 0
        /\ Cardinality(Covered) = 0
    BY <1>12, <2>1, Zenon
  <2>4. 0 >= 0
    OBVIOUS
  <2> QED BY <1>1, <2>2, <2>3, <2>4 DEF Counts
<1> QED BY <1>6, <1>7, <1>8, <1>9, <1>11, <1>13 DEF Inv, ArdpInv

LEMMA StutterStep == ASSUME Inv, UNCHANGED vars PROVE Inv'
<1>1. /\ UNCHANGED <<conn, net, queue, dups, bad, ep, thread, waking>>
      /\ UNCHANGED <<currAuth, currConn, untrusted>> /\ UNCHANGED countVars
  BY DEF vars, ardpVars, epVars, countVars
<1>2. ArdpInv'
  BY <1>1 DEF Inv, ArdpInv, ArdpTypeOK, RecordsOK, RecordOK, CallbacksOK, QueueOrder
<1>3. TypeOK'
  BY <1>1, <1>2 DEF Inv, TypeOK, ArdpInv
<1>4. \A x \in Recs : Same(x)
  BY <1>1, QueueSame DEF Same
<1> QED BY <1>1, <1>2, <1>3, <1>4, NoConnection

\* One step of any thread preserves the invariant.
LEMMA NextInv == ASSUME Inv, [Next]_vars PROVE Inv'
<1>1. CASE \E r \in Active, st \in SendStatus : Connect(r, st)
  BY <1>1, ConnectStep
<1>2. CASE \E r \in Active : ConnectReturns(r)
  BY <1>2, ConnectReturnsStep
<1>3. CASE \E r \in Passive, st \in SendStatus, fits \in BOOLEAN : Accept(r, st, fits)
  BY <1>3, AcceptStep
<1>4. CASE Ardp
  BY <1>4, ArdpStep
<1>5. ASSUME NEW s \in Sides, Dispatch(s) PROVE Inv'
  <2>1. ASSUME NEW good, DispatchConnectCb(s, good) PROVE Inv'
    <3>1. CASE s = "S"
      BY <2>1, <3>1, PassiveConnectCbStep
    <3>2. CASE s = "C"
      BY <2>1, <3>2, ActiveConnectCbStep
    <3> QED BY <3>1, <3>2 DEF Sides
  <2> QED BY <1>5, <2>1, DisconnectCbStep, FinishStep DEF Dispatch
<1>6. ASSUME NEW r \in Recs, StopEndpoint(r) \/ Manage(r) \/ ExitEndpoint(r) PROVE Inv'
  BY <1>6, StopStep, ExitStep, ManagePreStep, ManageAuthStep, ManageDoneStep, ManageStoppingStep
     DEF Manage
<1>7. CASE UNCHANGED vars
  BY <1>7, StutterStep
<1> QED BY <1>1, <1>2, <1>3, <1>4, <1>5, <1>6, <1>7 DEF Next

\* The invariant holds in every behaviour of the transport.
THEOREM InvHolds == Spec => []Inv
BY InitInv, NextInv, PTL DEF Spec

\* The cardinality of the union of two disjoint sets of records.
LEMMA TwoParts ==
    ASSUME NEW S \in SUBSET Recs, NEW T \in SUBSET Recs, S \cap T = {}
    PROVE  Cardinality(S \cup T) = Cardinality(S) + Cardinality(T)
<1>1. IsFiniteSet(S) /\ IsFiniteSet(T) /\ Cardinality(S) \in Nat /\ Cardinality(T) \in Nat
  BY FiniteParts
<1>2. Cardinality({}) = 0
  BY FS_EmptySet
<1>3. Cardinality(S \cup T) = Cardinality(S) + Cardinality(T) - Cardinality(S \cap T)
  BY <1>1, FS_Union
<1>4. Cardinality(S \cap T) = 0
  BY <1>2, Zenon
<1> QED BY <1>1, <1>3, <1>4

\* The slots, as the model's properties count them.
LEMMA InvSlots == Inv => SlotsMatch
<1>1. SUFFICES ASSUME Inv, NEW s \in Sides
               PROVE  LET pending == Cardinality(OnList(s, {"pre", "auth"}))
                                     + IF s = "C" THEN Cardinality(Owed \cup Answers) ELSE 0
                      IN  /\ currAuth[s] = pending
                          /\ currConn[s] = pending + Cardinality(OnList(s, {"ep"}))
  BY DEF SlotsMatch
<1> DEFINE L == OnList(s, {"pre", "auth"})
           E == OnList(s, {"ep"})
           O == Owed \cup Answers
<1>2. /\ currAuth[s] = Cardinality(AuthSet(s)) /\ currConn[s] = Cardinality(ConnSet(s))
      /\ ArdpInv /\ \A r \in Recs : Bound(r)
  BY <1>1 DEF Inv, Counts
<1>3. L \in SUBSET Recs /\ E \in SUBSET Recs /\ O \in SUBSET Recs
      /\ AuthSet(s) \in SUBSET Recs /\ ConnSet(s) \in SUBSET Recs
  BY DEF OnList, Owed, Answers, Recs, AuthSet, ConnSet
<1>4. \A r \in Active : r \in O <=> ((thread[r] # "none" /\ conn[r].told = 0) \/ ConnectWaits(r))
  <2>1. \A r \in Active : Queued(r, "CONNECT_CB") # {} <=> ConnectWaits(r)
    BY <1>2, WaitsMeans DEF Recs
  <2> QED BY <2>1 DEF Owed, Answers
<1>5. O \subseteq Active /\ \A r \in Recs : r \in Active <=> Side(r) = "C"
  BY DEF Owed, Answers, Side
<1>6. \A r \in Active : /\ ep[r].list \notin {"pre", "auth"}
                        /\ r \in O => ep[r].list = "none"
  BY <1>2, <1>4 DEF Bound, Told, Recs
<1>7. CASE s = "C"
  <2>1. L = {}
    BY <1>5, <1>6, <1>7 DEF OnList
  <2>2. AuthSet(s) = O
    BY <1>3, <1>4, <1>5, <1>6, <1>7 DEF AuthSet, InAuth, Recs
  <2>3. ConnSet(s) = O \cup E /\ O \cap E = {}
    BY <1>2, <1>3, <1>4, <1>5, <1>6, <1>7 DEF ConnSet, InConn, InAuth, OnList, Recs
  <2>4. Cardinality(L) = 0 /\ Cardinality(O) \in Nat
    BY <1>3, <2>1, FS_EmptySet, FiniteParts
  <2>5. Cardinality(ConnSet(s)) = Cardinality(O) + Cardinality(E)
    BY <1>3, <2>3, TwoParts
  <2>6. currAuth[s] = Cardinality(O) /\ currConn[s] = Cardinality(O) + Cardinality(E)
    BY <1>2, <2>2, <2>5, Zenon
  <2>7. 0 + Cardinality(O) = Cardinality(O)
    BY <2>4
  <2> HIDE DEF L, E, O
  <2>8. currAuth[s] = Cardinality(L) + Cardinality(O)
        /\ currConn[s] = (Cardinality(L) + Cardinality(O)) + Cardinality(E)
    BY <2>4, <2>6, <2>7
  <2> QED BY <1>7, <2>8 DEF L, E, O
<1>8. CASE s = "S"
  <2>1. AuthSet(s) = L
    BY <1>5, <1>8 DEF AuthSet, InAuth, OnList
  <2>2. ConnSet(s) = L \cup E /\ L \cap E = {}
    BY <1>5, <1>8 DEF ConnSet, InConn, InAuth, OnList
  <2>3. Cardinality(ConnSet(s)) = Cardinality(L) + Cardinality(E)
    BY <1>3, <2>2, TwoParts
  <2>4. Cardinality(L) \in Nat
    BY <1>3, FiniteParts
  <2>5. currAuth[s] = Cardinality(L) /\ currConn[s] = Cardinality(L) + Cardinality(E)
    BY <1>2, <2>1, <2>3, Zenon
  <2> HIDE DEF L, E
  <2>6. currAuth[s] = Cardinality(L) + 0
        /\ currConn[s] = (Cardinality(L) + 0) + Cardinality(E)
    BY <2>4, <2>5
  <2> QED BY <1>8, <2>6 DEF L, E
<1> QED BY <1>7, <1>8 DEF Sides

\* Every variable keeps its type, whatever the network and the threads do.
THEOREM TypeCorrect == Spec => []TypeOK
<1>1. Inv => TypeOK
  BY DEF Inv
<1> QED BY <1>1, InvHolds, PTL

\* No slot of m_currAuth or m_currConn is lost or given back twice: they are
\* held by exactly the connections that are being made and the endpoints that
\* live.
THEOREM SlotsAccounted == Spec => []SlotsMatch
BY InvHolds, InvSlots, PTL

\* ARDP calls ConnectCb() and DisconnectCb() at most once for a connection.
THEOREM CalledOnce == Spec => []CallbacksOnce
<1>1. Inv => CallbacksOnce
  BY DEF Inv, ArdpInv, RecordsOK, RecordOK, CallbacksOnce
<1> QED BY <1>1, InvHolds, PTL

\* A started endpoint has an open connection, or the DisconnectCb() that will
\* stop it is queued: none is left behind by the connection it uses.
THEOREM NoDeafEndpoint == Spec => []EndpointHears
<1>1. Inv => EndpointHears
  <2>1. SUFFICES ASSUME Inv, NEW r \in Recs, ep[r].list = "ep",
                        ep[r].st \in {"ACTIVE_STARTED", "STARTED"}
                 PROVE  conn[r].state = "OPEN" \/ Queued(r, "DISCONNECT_CB") # {}
    BY DEF EndpointHears
  <2>2. Bound(r) /\ (Queued(r, "DISCONNECT_CB") # {} <=> DisconnectWaits(r))
    BY <2>1, WaitsMeans DEF Inv
  <2> QED BY <2>1, <2>2 DEF Bound, Owned
<1> QED BY <1>1, InvHolds, PTL

\* An open connection the transport was told of has an owner that can close
\* it: a ConnectCb() not worked off yet, or an endpoint not disconnected.
THEOREM NoOrphanConnection == Spec => []OpenHasOwner
<1>1. Inv => OpenHasOwner
  <2>1. SUFFICES ASSUME Inv, NEW r \in Recs, conn[r].state = "OPEN", conn[r].told = 1
                 PROVE  \/ Queued(r, "CONNECT_CB") # {}
                        \/ ep[r].list = "ep" /\ ~ep[r].disc
    BY DEF OpenHasOwner
  <2>2. Bound(r) /\ (Queued(r, "CONNECT_CB") # {} <=> ConnectWaits(r))
    BY <2>1, WaitsMeans DEF Inv
  <2> QED BY <2>1, <2>2 DEF Bound, Owned
<1> QED BY <1>1, InvHolds, PTL

\* The assertions of ArdpStream::Disconnect() never fail: DisconnectCb(ER_OK)
\* reaches only a stream that asked for it, and no stream asks twice.
THEOREM AssertionsHoldInStream == Spec => []StreamAssertions
<1>1. Inv => StreamAssertions
  <2>1. SUFFICES ASSUME Inv, NEW r \in Recs
                 PROVE  /\ ep[r].list = "ep" => \A i \in Queued(r, "DISCONNECT_CB") :
                              queue[Side(r)][i].status = "ok" => ep[r].discSent
                        /\ ep[r].st = "STOPPING" /\ ep[r].wait => ep[r].disc \/ ~ep[r].discSent
    BY DEF StreamAssertions
  <2>2. /\ Bound(r)
        /\ \A i \in Queued(r, "DISCONNECT_CB") :
              queue[Side(r)][i].status = "ok" => Waits(r, "DISCONNECT_CB", "ok")
    BY <2>1, WaitsMeans DEF Inv
  <2> QED BY <2>2 DEF Bound, Asked
<1> QED BY <1>1, InvHolds, PTL

\* m_numUntrustedClients never falls below the number of untrusted clients
\* that are connected, so AcceptCb() never lets in more than the limit.
THEOREM UntrustedNeverUndercounted == Spec => []UntrustedCovered
<1>1. Inv => UntrustedCovered
  <2>1. SUFFICES ASSUME Inv PROVE UntrustedCovered
    OBVIOUS
  <2> DEFINE U == {r \in Untrusted : /\ ep[r].list \in {"pre", "auth", "ep"}
                                     /\ conn[r].state \in {"SYN_RCVD", "OPEN"}}
  <2>2. U \in SUBSET Covered /\ Covered \in SUBSET Recs
    BY UntrustedAssumption DEF Covered, IsCovered, Recs
  <2>3. IsFiniteSet(Covered) /\ Cardinality(Covered) \in Nat
    BY <2>2, FiniteParts
  <2>4. Cardinality(U) <= Cardinality(Covered) /\ Cardinality(U) \in Nat
    BY <2>2, <2>3, FS_Subset, FS_CardinalityType
  <2>5. untrusted >= Cardinality(Covered) /\ untrusted \in Int
    BY <2>1 DEF Inv, Counts, TypeOK
  <2>6. untrusted >= Cardinality(U)
    BY <2>3, <2>4, <2>5
  <2> QED BY <2>6 DEF UntrustedCovered
<1> QED BY <1>1, InvHolds, PTL
=============================================================================
