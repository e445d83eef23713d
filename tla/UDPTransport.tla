---------------------------- MODULE UDPTransport ----------------------------
(***************************************************************************)
(* Connections and endpoints of the UDP transport                          *)
(* (alljoyn_core/router/UDPTransport.cc) on top of ARDP: Connect() on one  *)
(* router, AcceptCb() on the other, the dispatcher thread that works off   *)
(* ARDP's callbacks, the endpoint management thread, the exit dispatcher,  *)
(* and the counters that limit connections.  An endpoint is named by the   *)
(* id of its ARDP record.  Messages sent over an endpoint are left out:    *)
(* it never has a push in progress or a send outstanding.                  *)
(***************************************************************************)
EXTENDS ArdpConnect

CONSTANTS
    MaxAuth,        \* m_maxAuth
    MaxConn,        \* m_maxConn
    MaxUntrusted,   \* m_maxRemoteClientsUdp
    Untrusted       \* the records of connections that say SimpleHello

ASSUME UntrustedAssumption == Untrusted \subseteq Passive

VARIABLES
    ep,           \* [Recs -> endpoint]
    thread,       \* [Active -> state of the thread in Connect()]
    waking,       \* the active endpoint DoConnectCb() has yet to Start(), or 0
    currAuth,     \* [Sides -> m_currAuth]
    currConn,     \* [Sides -> m_currConn]
    untrusted     \* m_numUntrustedClients of the accepting router

epVars == <<ep, thread, waking>>
countVars == <<currAuth, currConn, untrusted>>
vars == <<ardpVars, epVars, countVars>>

(***************************************************************************)
(* list is where the endpoint is kept: m_preList, m_authList or            *)
(* m_endpointList.  st is its EndpointState, wait its m_wait, disc and     *)
(* discSent those of its stream.                                           *)
(***************************************************************************)
NewEp == [list |-> "none", st |-> "INITIALIZED", wait |-> TRUE,
          disc |-> FALSE, discSent |-> FALSE]

\* Variant for mutation: Stop() of a started endpoint exits its stream early.
StoppedEarly(e) ==
    IF e.st \in {"INITIALIZED", "ACTIVE_STARTED", "PASSIVE_STARTED", "STARTED"}
    THEN [e EXCEPT !.st = "STOPPING", !.wait = FALSE, !.disc = TRUE]
    ELSE e

\* ArdpStream::EarlyExit(), as _UDPEndpoint::Stop() calls it.
Stopped(e) ==
    CASE e.st \in {"INITIALIZED", "ACTIVE_STARTED", "PASSIVE_STARTED"} ->
           [e EXCEPT !.st = "STOPPING", !.wait = FALSE, !.disc = TRUE]
      [] e.st = "STARTED" -> [e EXCEPT !.st = "STOPPING"]
      [] OTHER -> e

\* Variant for mutation: the stream does not note that it disconnects.
LocalDisconnectUnsaid(e, status) ==
    CASE e.disc -> e
      [] OTHER -> [e EXCEPT !.disc = status # "ok"]

(***************************************************************************)
(* ArdpStream::Disconnect().  Not sudden: a local disconnect, which calls  *)
(* ARDP_Disconnect() once and then waits for the DisconnectCb, unless the  *)
(* call failed.  Sudden: ARDP reports that the connection went.            *)
(***************************************************************************)
LocalDisconnect(e, status) ==
    CASE e.disc -> e
      [] ~e.disc /\ e.discSent -> [e EXCEPT !.disc = TRUE]
      [] OTHER -> [e EXCEPT !.discSent = TRUE, !.disc = status # "ok"]
CallsArdp(e) == ~e.disc /\ ~e.discSent

\* ARDP_Disconnect(): what it returns, given what the write of the RST did.
DisconnectReturns(r, st) ==
    CASE ~IsConnValid(r) -> "invalid"
      [] IsConnValid(r) /\ IsDead(conn[r]) -> "ok"
      [] OTHER -> st
ARDP_Disconnect(r, st) ==
    IF IsConnValid(r) /\ ~IsDead(conn[r])
    THEN /\ Write(st)
         /\ conn' = [conn EXCEPT ![r] = Disconnected(@, "ok")]
         /\ net' = Put(net, Sent(st, Seg("RST", r, conn[r].foreign)))
    ELSE st = "ok" /\ UNCHANGED <<conn, net, bad>>

\* The record's connect thread is still in m_connectThreads.
ThreadWaits(r) == r \in Active /\ thread[r] = "waiting"

-----------------------------------------------------------------------------
(***************************************************************************)
(* UDPTransport::Connect(): take a slot, start the connect, wait for the   *)
(* callback.  A call without a free slot returns at once.                  *)
(***************************************************************************)
Connect(r, st) ==
    /\ currAuth["C"] + 1 <= MaxAuth /\ currConn["C"] + 1 <= MaxConn
    /\ ARDP_Connect(r, st)
    /\ IF st = "fail" THEN UNCHANGED <<currAuth, currConn, thread>>
       ELSE /\ currAuth' = [currAuth EXCEPT !["C"] = @ + 1]
            /\ currConn' = [currConn EXCEPT !["C"] = @ + 1]
            /\ thread' = [thread EXCEPT ![r] = "waiting"]
    /\ UNCHANGED <<ep, waking, untrusted>>

\* The wait in Connect() ends: the event was set, or its timeout passed, which
\* it may do at any time, so that setting the event needs no state.
ConnectReturns(r) ==
    /\ ThreadWaits(r)
    /\ thread' = [thread EXCEPT ![r] = "returned"]
    /\ UNCHANGED <<ardpVars, ep, waking, countVars>>

(***************************************************************************)
(* ARDP_Run() accepting a SYN, with AcceptCb() and the ARDP_Accept() it    *)
(* calls.  fits is whether the hello is well formed.  A refused request    *)
(* gives its slots back, is answered by an RST, and leaves no record.      *)
(***************************************************************************)
HasSlot(r) ==
    /\ currAuth["S"] + 1 <= MaxAuth /\ currConn["S"] + 1 <= MaxConn
    /\ r \in Untrusted => untrusted < MaxUntrusted

AcceptCb(r, m, st, fits, base) ==
    LET c == [conn[r] EXCEPT !.foreign = m.src]
        takes == HasSlot(r) /\ fits /\ st # "fail"
    IN  IF takes
        THEN /\ conn' = [conn EXCEPT ![r] = SendSyn(r, c, st)]
             /\ net' = Put(base, Sent(st, Seg("SYNACK", r, m.src)))
             /\ ep' = [ep EXCEPT ![r] = [NewEp EXCEPT !.list = "pre",
                                                      !.st = "PASSIVE_STARTED"]]
             /\ currAuth' = [currAuth EXCEPT !["S"] = @ + 1]
             /\ currConn' = [currConn EXCEPT !["S"] = @ + 1]
             /\ untrusted' = IF r \in Untrusted THEN untrusted + 1 ELSE untrusted
        ELSE /\ conn' = [conn EXCEPT ![r] = Deleted(c)]
             /\ net' = Put(base, {Seg("RST", r, m.src)})
             /\ UNCHANGED <<ep, countVars>>

Accept(r, st, fits) ==
    /\ IsNext(r, Passive)
    /\ \E m \in net : \E base \in {net, net \ {m}} :
         /\ m.kind = "SYN" /\ ~IsDuplicateConnRequest(m)
         /\ Take(m, base)
         /\ IF HasSlot(r) /\ fits THEN Write(st) ELSE st = "ok" /\ UNCHANGED bad
         /\ AcceptCb(r, m, st, fits, base)
    /\ UNCHANGED <<queue, thread, waking>>

-----------------------------------------------------------------------------
(***************************************************************************)
(* The dispatcher thread of each router: DispatcherThread::Run().          *)
(***************************************************************************)
Next1(s) == Head(queue[s])
Pop(s) == queue' = [queue EXCEPT ![s] = Tail(@)]

\* DoConnectCb() first moves m_preList to m_authList.
Listed(s) == [r \in Recs |-> IF Side(r) = s /\ ep[r].list = "pre"
                             THEN [ep[r] EXCEPT !.list = "auth"] ELSE ep[r]]

\* DoConnectCb(), passive: start the endpoint, or tear it down and release
\* the record.  Nothing happens when the record or the endpoint is gone.
DoPassiveConnectCb(r, status) ==
    LET es == Listed("S") IN
    /\ \/ /\ IsConnValid(r) /\ es[r].list = "auth"
          /\ currAuth' = [currAuth EXCEPT !["S"] = @ - 1]
          /\ \/ /\ status = "ok"
                /\ ep' = [es EXCEPT ![r].list = "ep", ![r].st = "STARTED"]
                /\ UNCHANGED conn
             \/ /\ status # "ok"
                /\ ep' = [es EXCEPT ![r] = [Stopped(LocalDisconnect(@, "ok")) EXCEPT
                                                !.list = "ep", !.wait = FALSE]]
                /\ conn' = [conn EXCEPT ![r] = Deleted(@)]
       \/ /\ ~IsConnValid(r) \/ es[r].list # "auth"
          /\ ep' = es
          /\ UNCHANGED <<currAuth, conn>>
    /\ UNCHANGED <<currConn, thread, waking>>

\* Variant for mutation: a connection nobody waits for keeps its slot.
DoActiveKeepsSlot(r, status, good) ==
    LET makes == IsConnValid(r) /\ ThreadWaits(r) /\ status = "ok" /\ good IN
    /\ currAuth' = [currAuth EXCEPT !["C"] = @ - 1]
    /\ \/ /\ makes
          /\ ep' = [ep EXCEPT ![r] = [NewEp EXCEPT !.list = "ep", !.st = "ACTIVE_STARTED"]]
          /\ waking' = r
          /\ UNCHANGED <<conn, currConn, thread>>
       \/ /\ ~makes
          /\ conn' = [conn EXCEPT ![r] = Deleted(@)]
          /\ currConn' = [currConn EXCEPT !["C"] = IF ThreadWaits(r) THEN @ - 1 ELSE @]
          /\ UNCHANGED <<ep, waking, thread>>

\* DoConnectCb(), active: make the endpoint, or give both slots back; good is
\* whether the hello reply is well formed.
DoActiveConnectCb(r, status, good) ==
    LET makes == IsConnValid(r) /\ ThreadWaits(r) /\ status = "ok" /\ good IN
    /\ currAuth' = [currAuth EXCEPT !["C"] = @ - 1]
    /\ \/ /\ makes
          /\ ep' = [ep EXCEPT ![r] = [NewEp EXCEPT !.list = "ep", !.st = "ACTIVE_STARTED"]]
          /\ waking' = r
          /\ UNCHANGED <<conn, currConn, thread>>
       \/ /\ ~makes
          /\ conn' = [conn EXCEPT ![r] = Deleted(@)]   \* ARDP_ReleaseConnection()
          /\ currConn' = [currConn EXCEPT !["C"] = @ - 1]
          /\ UNCHANGED <<ep, waking, thread>>

DispatchConnectCb(s, good) ==
    /\ queue[s] # <<>> /\ Next1(s).cmd = "CONNECT_CB"
    /\ s = "C" => waking = Half
    /\ IF s = "S" THEN DoPassiveConnectCb(Next1(s).rec, Next1(s).status) /\ good
       ELSE DoActiveConnectCb(Next1(s).rec, Next1(s).status, good)
    /\ Pop(s)
    /\ UNCHANGED <<net, dups, bad, untrusted>>

\* The rest of DoConnectCb(), after the lock was given up: Start() the new
\* endpoint, wake the thread in Connect(), or stop it if none waits any more.
FinishConnectCb ==
    /\ waking # Half
    /\ waking' = Half
    /\ ep' = [ep EXCEPT ![waking] =
                 IF ThreadWaits(waking) THEN [@ EXCEPT !.st = "STARTED"]
                 ELSE [@ EXCEPT !.st = "STOPPING", !.wait = FALSE]]
    /\ UNCHANGED <<ardpVars, thread, countVars>>

\* _UDPEndpoint::DisconnectCb().  A callback whose endpoint is not on
\* m_endpointList is dropped.
DispatchDisconnectCb(s) ==
    LET r == Next1(s).rec
        after == IF Next1(s).status = "ok" THEN LocalDisconnect(ep[r], "ok")
                 ELSE [ep[r] EXCEPT !.disc = TRUE]
    IN  /\ queue[s] # <<>> /\ Next1(s).cmd = "DISCONNECT_CB"
        /\ s = "C" => waking = Half
        /\ Pop(s)
        /\ IF ep[r].list = "ep"
           THEN /\ ep' = [ep EXCEPT ![r] = Stopped(after)]
                /\ untrusted' = IF r \in Untrusted THEN untrusted - 1 ELSE untrusted
           ELSE UNCHANGED <<ep, untrusted>>
        /\ UNCHANGED <<conn, net, dups, bad, thread, waking, currAuth, currConn>>

\* The router stops an endpoint it no longer needs.
StopEndpoint(r) ==
    /\ ep[r].list = "ep" /\ ep[r].st = "STARTED"
    /\ ep' = [ep EXCEPT ![r] = Stopped(@)]
    /\ UNCHANGED <<ardpVars, thread, waking, countVars>>

-----------------------------------------------------------------------------
(***************************************************************************)
(* ManageEndpoints(), one endpoint of its pass.                            *)
(***************************************************************************)
ManagePre(r) ==
    /\ ep[r].list = "pre"
    /\ ep' = [ep EXCEPT ![r].list = "auth"]
    /\ UNCHANGED <<ardpVars, thread, waking, countVars>>

\* m_authTimeout passed.  It is longer than all the connect timer's retries
\* and than the dispatcher lags, so the handshake is over and told.
HandshakeOver(r) ==
    /\ conn[r].state # "SYN_RCVD"
    /\ \A i \in 1 .. Len(queue[Side(r)]) :
         queue[Side(r)][i] # Callback("CONNECT_CB", r, queue[Side(r)][i].status)
ManageAuth(r) ==
    /\ ep[r].list = "auth" /\ HandshakeOver(r) /\ ~ThreadWaits(r)
    /\ ep' = [ep EXCEPT ![r] = [Stopped(@) EXCEPT !.list = "ep", !.wait = FALSE]]
    /\ currAuth' = [currAuth EXCEPT ![Side(r)] = @ - 1]
    /\ UNCHANGED <<ardpVars, thread, waking, currConn, untrusted>>

\* A stopping endpoint is disconnected once it has nothing left to send, and
\* is joined and handed to the exit dispatcher once it is disconnected.
ManageStopping(r, st) ==
    LET e == ep[r]
        after == LocalDisconnect([e EXCEPT !.wait = FALSE], DisconnectReturns(r, st))
    IN  /\ e.list = "ep" /\ e.st = "STOPPING"
        /\ IF CallsArdp(e) THEN ARDP_Disconnect(r, st)
           ELSE st = "ok" /\ UNCHANGED <<conn, net, bad>>
        /\ LET mid == IF e.wait \/ CallsArdp(e) THEN after ELSE e IN
             ep' = [ep EXCEPT ![r] = IF mid.disc THEN [mid EXCEPT !.st = "JOINED"] ELSE mid]
        /\ UNCHANGED <<queue, dups, thread, waking, countVars>>

\* Variant for mutation: the client is taken off the count once more.
ManageDoneUncounts(r) ==
    /\ ep[r].list = "ep" /\ ep[r].st = "DONE"
    /\ ep' = [ep EXCEPT ![r] = [NewEp EXCEPT !.list = "erased"]]
    /\ currConn' = [currConn EXCEPT ![Side(r)] = @ - 1]
    /\ untrusted' = IF r \in Untrusted THEN untrusted - 1 ELSE untrusted
    /\ UNCHANGED <<ardpVars, thread, waking, currAuth>>

\* An endpoint the exit dispatcher is done with leaves m_endpointList.
ManageDone(r) ==
    /\ ep[r].list = "ep" /\ ep[r].st = "DONE"
    /\ ep' = [ep EXCEPT ![r] = [NewEp EXCEPT !.list = "erased"]]
    /\ currConn' = [currConn EXCEPT ![Side(r)] = @ - 1]
    /\ UNCHANGED <<ardpVars, thread, waking, currAuth, untrusted>>

\* The exit dispatcher, to which every endpoint is queued as it is joined:
\* _UDPEndpoint::Exit().
ExitEndpoint(r) ==
    /\ ep[r].st = "JOINED"
    /\ ep' = [ep EXCEPT ![r].st = "DONE"]
    /\ UNCHANGED <<ardpVars, thread, waking, countVars>>

-----------------------------------------------------------------------------
Init ==
    /\ ArdpInit
    /\ ep = [r \in Recs |-> NewEp]
    /\ thread = [r \in Active |-> "none"]
    /\ waking = Half
    /\ currAuth = [s \in Sides |-> 0]
    /\ currConn = [s \in Sides |-> 0]
    /\ untrusted = 0

Dispatch(s) ==
    \/ \E good \in BOOLEAN : DispatchConnectCb(s, good)
    \/ DispatchDisconnectCb(s)
    \/ s = "C" /\ FinishConnectCb

Manage(r) ==
    \/ ManagePre(r) \/ ManageAuth(r) \/ ManageDone(r)
    \/ \E st \in SendStatus : ManageStopping(r, st)

Ardp == ArdpNext /\ UNCHANGED <<epVars, countVars>>

Next ==
    \/ \E r \in Active, st \in SendStatus : Connect(r, st)
    \/ \E r \in Active : ConnectReturns(r)
    \/ \E r \in Passive, st \in SendStatus, fits \in BOOLEAN : Accept(r, st, fits)
    \/ Ardp
    \/ \E s \in Sides : Dispatch(s)
    \/ \E r \in Recs : StopEndpoint(r) \/ Manage(r) \/ ExitEndpoint(r)

Spec == Init /\ [][Next]_vars

(***************************************************************************)
(* Fairness.  Each ARDP thread calls ARDP_Run() when the time it was told  *)
(* has passed, so a timer that is due fires; the dispatcher threads drain  *)
(* their queues; ManageEndpoints() and the exit dispatcher run whenever    *)
(* they are alerted.  Nothing is assumed of the network.                   *)
(***************************************************************************)
TimerFires(r) ==
    /\ \/ \E st \in SendStatus : ConnectTimer(r, st) \/ ProbeTimer(r, st)
       \/ DisconnectTimer(r)
    /\ UNCHANGED <<epVars, countVars>>

Fairness ==
    /\ \A r \in Recs : WF_vars(TimerFires(r)) /\ WF_vars(Manage(r) \/ ExitEndpoint(r))
    /\ \A s \in Sides : WF_vars(Dispatch(s))

LiveSpec == Spec /\ Fairness

-----------------------------------------------------------------------------
(***************************************************************************)
(* Properties                                                              *)
(***************************************************************************)
Endpoint ==
    [list : {"none", "pre", "auth", "ep", "erased"},
     st : {"INITIALIZED", "PASSIVE_STARTED", "ACTIVE_STARTED", "STARTED", "STOPPING",
           "JOINED", "DONE"},
     wait : BOOLEAN, disc : BOOLEAN, discSent : BOOLEAN]

TypeOK ==
    /\ ArdpTypeOK
    /\ ep \in [Recs -> Endpoint]
    /\ thread \in [Active -> {"none", "waiting", "returned"}]
    /\ waking \in Active \cup {Half}
    /\ currAuth \in [Sides -> Int] /\ currConn \in [Sides -> Int] /\ untrusted \in Int

Queued(r, cmd) == {i \in 1 .. Len(queue[Side(r)]) :
                     queue[Side(r)][i].cmd = cmd /\ queue[Side(r)][i].rec = r}
OnList(s, lists) == {r \in Recs : Side(r) = s /\ ep[r].list \in lists}

(***************************************************************************)
(* The slots of a router are held by exactly these: connects ARDP has not  *)
(* answered yet, answers the dispatcher has not worked off, endpoints not  *)
(* yet authenticated, and, for m_currConn, endpoints on m_endpointList.    *)
(***************************************************************************)
Owed == {r \in Active : thread[r] # "none" /\ conn[r].told = 0}
Answers == {r \in Active : Queued(r, "CONNECT_CB") # {}}
SlotsMatch ==
    \A s \in Sides :
      LET pending == Cardinality(OnList(s, {"pre", "auth"}))
                     + IF s = "C" THEN Cardinality(Owed \cup Answers) ELSE 0
      IN  /\ currAuth[s] = pending
          /\ currConn[s] = pending + Cardinality(OnList(s, {"ep"}))

(***************************************************************************)
(* ARDP reports a connection at most once as made or failed and at most    *)
(* once as gone, never as gone after it reported that it failed.           *)
(***************************************************************************)
CallbacksOnce ==
    \A r \in Recs :
      /\ conn[r].told <= 1 /\ conn[r].ended <= 1
      /\ conn[r].state = "CLOSED" => conn[r].told = 1 /\ conn[r].ended = 0

(***************************************************************************)
(* A started endpoint has an open connection below it, or the callback     *)
(* that will stop it is on its way: no endpoint outlives its connection.   *)
(***************************************************************************)
EndpointHears ==
    \A r \in Recs : ep[r].list = "ep" /\ ep[r].st \in {"ACTIVE_STARTED", "STARTED"} =>
        conn[r].state = "OPEN" \/ Queued(r, "DISCONNECT_CB") # {}

(***************************************************************************)
(* An open connection of which the transport was told has an owner that    *)
(* will close it: the callback still queued, or an endpoint that has not   *)
(* disconnected from it.                                                   *)
(***************************************************************************)
OpenHasOwner ==
    \A r \in Recs : conn[r].state = "OPEN" /\ conn[r].told = 1 =>
        \/ Queued(r, "CONNECT_CB") # {}
        \/ ep[r].list = "ep" /\ ~ep[r].disc

(***************************************************************************)
(* The assertions of ArdpStream::Disconnect(): a DisconnectCb(ER_OK) only  *)
(* answers an ARDP_Disconnect() of this stream, and no stream makes that   *)
(* call twice.                                                             *)
(***************************************************************************)
StreamAssertions ==
    \A r \in Recs :
      /\ ep[r].list = "ep" => \A i \in Queued(r, "DISCONNECT_CB") :
            queue[Side(r)][i].status = "ok" => ep[r].discSent
      /\ ep[r].st = "STOPPING" /\ ep[r].wait => ep[r].disc \/ ~ep[r].discSent

(***************************************************************************)
(* m_numUntrustedClients is never below the number of untrusted clients    *)
(* that are connected, so that the limit on them is kept.                  *)
(***************************************************************************)
UntrustedCovered ==
    untrusted >= Cardinality({r \in Untrusted : ep[r].list \in {"pre", "auth", "ep"}
                                               /\ conn[r].state \in {"SYN_RCVD", "OPEN"}})

(***************************************************************************)
(* Nothing is left over for good, whatever the network loses: a connection *)
(* open on one side only is found out by the probe timer, a closed record  *)
(* is deleted by its timer or released, an endpoint that was accepted and  *)
(* never connected, or was stopped, leaves the lists.  Records are finite  *)
(* in number, so that the system comes to rest again and again.            *)
(***************************************************************************)
HalfOpen(r) == /\ conn[r].state = "OPEN"
               /\ conn[conn[r].foreign].state \notin {"SYN_RCVD", "OPEN"}
Settled ==
    \A r \in Recs :
      /\ ~HalfOpen(r) /\ ~IsDead(conn[r])
      /\ ep[r].list \notin {"pre", "auth"}
      /\ ep[r].list = "ep" => ep[r].st = "STARTED"
Settles == []<>Settled

(***************************************************************************)
(* "If ARDP accepts the connection request it guarantees that it will call *)
(* back with status" (UDPTransport.cc, Connect()): an open connection was  *)
(* reported by ConnectCb().                                                *)
(***************************************************************************)
OpenWasAnnounced == \A r \in Recs : conn[r].state = "OPEN" => conn[r].told = 1

(***************************************************************************)
(* "Number of untrusted clients currently registered with the daemon"      *)
(* (UDPTransport.h): the count names no client that has left every list.   *)
(***************************************************************************)
UntrustedCounts ==
    untrusted <= Cardinality({r \in Untrusted : ep[r].list \in {"pre", "auth", "ep"}})
=============================================================================
