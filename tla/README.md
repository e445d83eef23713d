# TLA+ models of AllJoyn core

AllJoyn is a software bus: applications attach to a router, routers find each
other on the network, and messages travel over point-to-point links of several
kinds. This directory holds TLA+ modules for the two protocols that the
repository implements itself to make an unreliable link reliable, for the
transport that makes and breaks connections on top of one of them, and for the
timer that drives them, the configurations that check them with TLC, and proofs
checked by TLAPS.

Paths are relative to the root of the repository. `PROJECT.json` lists the
components, runs, findings, hazards and theorems, and maps every definition to
the lines it models.

## 1. Inventory

| Component | State it keeps | Operations | What makes it hard |
|---|---|---|---|
| SLAP stream (`common/src/SLAPStream.cc`, `SLAPPacket.cc`) | link state, packet queues (free, queued, current, sent, received), 3-bit sequence numbers, one shared control packet, four alarms, two events | PushBytes, PullBytes, Close, packet from the UART, four alarm handlers | timer thread against reader thread, loss, an end that restarts, a UART that refuses |
| ARDP (`alljoyn_core/router/ArdpProtocol.cc`) | per connection: state, send ring, receive ring, NXT/UNA/LCS/CUR, EACK mask, five kinds of timers | Connect, Accept, Send, RecvReady, Disconnect, Run (datagrams and timers) | loss, reordering, time to live at both sides, fragments, wrap-around |
| UDP transport (`UDPTransport.cc`) | endpoints on three lists, their states, connection counters, callback queues | Connect, AcceptCb, callbacks of ARDP worked off by a dispatcher thread, endpoint management, exit | callbacks after an endpoint is gone, a connecting thread that has left, slots taken and given back in different threads |
| TCP and SLAP transports | endpoint lists, listen sockets or ports | accept, authenticate, connect, reopen a port | thread life cycle |
| Name service (`router/ns`) | names advertised and sought, retransmission schedules | advertise, find, packets, interface changes | many timers, lossy multicast |
| Sessions (`AllJoynObj.cc`) | session map, virtual endpoints | Join, Attach, Leave, Detach | requests of several routers cross |
| Sessionless signals (`SessionlessObj.cc`) | message cache, change ids, catch-ups | push, fetch, route | 32-bit change ids that wrap |
| Name table, D-Bus object | owner queues of names, aliases | request, release, remote names | order of events from several routers |
| Router core (`DaemonRouter`, `RuleTable`, `VirtualEndpoint`) | endpoints, routes, reference counts | route, add and remove routes | endpoints that disappear while used |
| Client library (`BusAttachment`, `LocalTransport`, `RemoteEndpoint`, `ProxyBusObject`) | reply map, transmit queues, listeners | calls, replies, timeouts | reply against timeout, re-entrant listeners |
| Security (`AllJoynPeerObj`, `KeyExchanger`, `PermissionMgmtObj`, `PeerState`) | keys, conversations, policies, serial windows | exchanges, policy changes | conversations from both sides at once |
| Observers and pinging (`ObserverManager`, `AutoPingerInternal`) | work queue, groups, counters | add, remove, ping results | callbacks from the past |
| Timer (`common/src/Timer.cc`) | alarm set, pool of threads, controller role, waiting callers | add, remove, replace, start, stop, join | a role that changes hands, removing what is being handled, a full timer |
| `IODispatch`, `ThreadPool` | descriptors, thread pools | start, stop and enable descriptors, dispatch | removing what is being handled |

Message coding, configuration, certificates, cryptography, the language
bindings, services and samples keep no protocol state of their own.

**How they interact.** An application calls the client library; its messages go
through a `RemoteEndpoint` to a transport, to the router, and by way of virtual
endpoints to the transport of the next router. A transport is built on a
`Stream`: a socket (TCP), a SLAP stream (UART), or messages over ARDP (UDP). The
SLAP stream is called from three sides: by the user (`PushBytes`, `PullBytes`,
`Close`), by the UART controller on the I/O dispatcher's thread
(`ReadEventTriggered`) and by the timer thread (`AlarmTriggered`), all under
`m_streamLock`. ARDP has no lock of its own; `UDPTransport` calls it with its own
lock held, and ARDP calls back (`RecvCb`, `SendCb`, `ConnectCb`, `DisconnectCb`,
...). The transport only queues these callbacks; a dispatcher thread works them
off later, when the connection or the endpoint they are about may be gone. All
alarms are run by the threads of a `Timer`.

**What makes them correct.** Both protocols promise a reliable stream: what one
side pushes the other gets once, in order; a buffer is reused only when the other
side has it; everyone who waits is woken; a live link makes progress; and a
close or a crash at either end leaves no half behind. Above them, a connection
and the endpoint that uses it are made and unmade together, whichever end and
whichever thread begins; slots are counted exactly; an alarm that is due is run,
and one that was removed is not. The hazards that could
break this are listed one by one, at their line, in `PROJECT.json`.

## 2. Modules

| Module | Models | Kind |
|---|---|---|
| `ReliableStream` | what a stream promises | abstract specification |
| `SLAPWindow` | one direction of an active SLAP link | specification; implements `ReliableStream` |
| `SLAPWindowProofs` | | proofs about `SLAPWindow` |
| `SLAPStream` | two `SLAPStream` objects and the UART between them | specification; both directions implement `SLAPWindow` |
| `MCSLAPStream` | | instances of `SLAPStream` |
| `SLAPStreamProofs` | | proofs about `SLAPStream` |
| `SLAPOrderProofs` | | the order of packets in `SLAPStream`, its refinement of `SLAPWindow` and of `ReliableStream` |
| `ArdpSeq` | `SEQ32_LT`, `SEQ32_LET`, `IN_RANGE` | operators |
| `ArdpSeqProofs` | | proofs about `ArdpSeq` |
| `ArdpMask` | the EACK mask: `AddRcvMsk` and `ShiftRcvMsk`, word by word | operators |
| `ArdpStream` | an open ARDP connection, data in one direction | specification, uses `ArdpSeq` and `ArdpMask` |
| `MCArdpStream` | | instances of `ArdpStream` |
| `ArdpEack` | the mask by itself, under any order of arrivals | specification, uses `ArdpMask` |
| `ArdpEackProofs` | | proofs about `ArdpEack` |
| `ArdpConnect` | ARDP's handshake, timers and disconnects on two routers, and the network | actions, extended by `UDPTransport` |
| `ArdpConnectProofs` | | lemmas about the steps of `ArdpConnect` |
| `UDPTransport` | connections and endpoints of the UDP transport on two routers | specification, composed with `ArdpConnect` |
| `UDPTransportProofs` | | proofs about `UDPTransport` |
| `Timer` | `TimerImpl` and its `TimerThread`s | specification |
| `MCTimer` | | instances of `Timer` |
| `TimerProofs` | | proofs about `Timer` |

Definitions whose comment starts with "Variant for mutation" are plausible errors
of the definition below them. They are no part of the models; each one, put in
the place of the right definition, makes TLC report the property that
`PROJECT.json` names.

### SLAPWindow

The state is what remains of the class when the link is up and only one
direction matters. Packets are numbered 0, 1, 2, ... in the order of
`PushBytes`. `m_txSent` is the packets `una .. snt-1`, the data packets of
`m_txQueue` are `snt .. nxt-1`. The code never sees these numbers: guards use
the 3-bit `seq` and `ack` of the headers and the macro `SEQ_GT`. The two wires
are FIFO and lose packets (the UART keeps the order, `SLAPReadPacket::Validate`
drops what fails the CRC).

| Action | Code |
|---|---|
| `PushBytes` | one packet of `PushBytes` |
| `TransmitToLink`, `ResendData` | `SEND_DATA_ALARM`, `RESEND_DATA_ALARM`; both end in `TransmitToLink()` |
| `ReceiveAck` | `ProcessAckNum`, for an ACK packet or the ack in a data packet |
| `ReceiveData` | the data case of `ReadEventTriggered`: expected, repeated, ignored |
| `SendAck(k)` | the `k` packets that leave the receiver carrying its ack number |
| `PullBytes` | one packet of `PullBytes` |
| `LoseData`, `LoseAck` | `Validate` fails |

### SLAPStream

The whole class at both ends. `st[e]` is a record whose fields are the members
(`link` is `m_linkState`, `txQueue` is `m_txQueue`, ...). Every entry point holds
`m_streamLock` to its end or its wait, so an entry point is one action, with two
exceptions that the code has too: `Close` releases the lock while it waits for
`m_deadEvent` (`Close`, `CloseReturns`), and the timer takes an alarm off its queue
before its handler gets the lock (`AlarmDue`, then one of the alarm actions).
`RemoveAlarm(.., false)` does not wait for the handler, so it only takes an alarm
out of `alarms`, never out of `firing`. `ACK_ALARM` has no `break` in the code and
falls through to `RESEND_CONTROL_ALARM`; `AckAlarm` does the same.

`m_txQueue` holds a reference to the one control packet, whose content is looked
up when it is sent. If it is overwritten while it is half delivered, what goes
out is garbage (`Junk`), which the other end discards. When the UART is full
(`CanBlock`), `Deliver` fails and the packet stays in `m_txCurrent`, or part of the
packet is taken and counts as success. After a failure the write pointer is moved
by an uninitialised number, so the packet may be spoilt when it is tried again.
All of these outcomes are enumerated. `protocolVersion` is uninitialised until
negotiation and `Close` reads it: the model lets it be either kind of value.

`Reopen` is an end that goes down, at any moment, and comes back: a new object,
`tcflush` on the port, old packets possibly still on their way.

### ArdpStream

`snd` and `rcv` are the connection records of the two sides; slots are the rings
of send and receive buffers, indexed `SEQ % SEGMAX` as in the code. A segment is a
record with just the fields that the other side reads in this direction. One
datagram read by `ARDP_Run` is one action and includes everything
`ArdpMachine` does with it: `UpdateSndSegments`, `CancelEackedSegments`,
`FlushExpiredRcvMessages`, `AddRcvBuffer`, `AdvanceRcvQueue`, `RecvCb`,
`ReleaseRcvBuffers`, the persist timer and the window update. The helpers are
operators on a "call" record that collects the new connection record, the
callbacks made, and the assertions (`QCC_ASSERT`) that failed, in `flaws`.

Time is not modelled. A timer that is on may fire at any moment; a finite time to
live may have run out at any moment, at either side and for each slot
independently (`late`). The loop of `UpdateSndSegments` over expired segments can
be endless; then the state of `snd` is `STUCK`.

A message handed to `ARDP_Send` goes out whole (`ARDP_Send`), or the write of one of
its fragments fails for good (`ARDP_SendFails`, with `SocketFails`): `SendData` then
disconnects with the fragments before it queued, and returns the error; `refused`
keeps the message. The RST of that disconnect is written or not. A retransmission
that fails for good disconnects as one that has run out of time does (`TimeoutS`).

The EACK mask is the record of `ArdpMask`: words in host order, their copy in network
order, and the number of words in use. The copy travels in the header, and
`CancelEackedSegments` reads it word by word.

Left out of the segment handling: round-trip-time estimates, fast retransmit (it
only fires a retransmit timer early), the simple mode for thin peers, data in the
direction from R to S, and datagrams that would block (`trafficJam`), which have
the effect of a loss. A duplicate made by the network has the effect of a
retransmission.

### ArdpMask and ArdpEack

`ArdpMask` has the mask as the code keeps it: the shift that carries bits from one
word to the word before, the count of words in use, the copy in network order. In
`ArdpEack` segments arrive in any order (`AddRcvBuffer`) and the receive queue advances
one by one over what has arrived (`AdvanceRcvQueue`); `got` is the set of offsets that
the mask stands for. It exists beside `ArdpStream` because it has few states per word,
so that words of several bits can be checked, and because it can be proved about.

### ArdpConnect and UDPTransport

Two routers: "C" connects, "S" accepts. `conn[r]` is an ARDP connection record;
its name stands for its id, its port and its initial sequence number. `net` is
the set of segments in flight: any of them may be read next, lost, or read and
left there (a duplicate). One datagram read by `ARDP_Run` is one action, from
`FindConn` through the state of `ArdpMachine` it meets, with the segments it
sends and the callbacks it makes. The callbacks are appended to `queue`, the
`m_workerCommandQueue` of the router.

| Action | Code |
|---|---|
| `Connect`, `ConnectReturns` | `UDPTransport::Connect` up to its wait, and the end of the wait (woken or timed out) |
| `Accept` | `ARDP_Run` with a SYN: `AcceptCb`, the limits, `ARDP_Accept` |
| `ConnectTimer`, `DisconnectTimer`, `ProbeTimer` | the handlers of these names |
| `ReceiveSegment` | `ARDP_Run` with any other datagram |
| `DispatchConnectCb`, `FinishConnectCb` | `DoConnectCb` up to where it gives up the locks, and the rest |
| `DispatchDisconnectCb` | `_UDPEndpoint::DisconnectCb` |
| `ManagePre`, `ManageAuth`, `ManageStopping`, `ManageDone` | the parts of `ManageEndpoints`, one endpoint at a time |
| `StopEndpoint`, `ExitEndpoint` | `_UDPEndpoint::Stop` by the router, the exit dispatcher |

A write to the socket succeeds, would block or fails where the code looks at the
result (`SendStatus`). `SendRst` composes an RST in one buffer and sends another
one that was never filled in; `RecvGarbage` lets it match no connection, or read
as an RST or as an invalid segment of any live connection (`GarbageReads`).

Assumed: ports, ids and initial sequence numbers do not repeat; connections carry
no data, so that no endpoint has sends outstanding and a repeated SYN-ACK is a
duplicate data segment (it carries the hello reply); `m_authTimeout`, 20 s by
default, outlasts the handshake with its retries (`HandshakeOver`); a record in
CLOSE_WAIT outlasts the few instructions of `DoConnectCb` between its check of the
connection and its use. Whether a hello is well formed is a free choice.

### Timer

An action is what a thread does between two points where it gives up
`TimerImpl::lock`; where the code keeps the lock round the loop of `Run`, the
variable `lock` stays with the thread. `th[p]` is a thread of the pool or a user;
its `pc` names the wait it is in. `alarms` is the ordered set, `controllerIdx` the
role. `Event::Wait` is two steps (`WaitReturns`, then the lock is taken again), so
that an alert may come between the end of a wait and what is made of it. Time is a
clock of a few ticks. The users call every operation, in any order, and handlers
may call `AddAlarm` and `EnableReentrancy`. `Start`, `Stop` and `Join` are assumed
not to race one another, and an alarm is added once. `Start` waits 5000 ms for its
first thread and returns `ER_FAIL` if that takes longer (`Timer.cc:340`); the model
assumes that the thread is scheduled in time.

## 3. Runs

All passing runs finish without error; numbers are distinct states.

| Run | Checks | Bounds | States |
|---|---|---|---|
| `SLAPWindow` | no early release, the inductive invariant of the proofs, refinement of `ReliableStream` | window 4, 9 packets, 5 in flight | 431,000 |
| `SLAPLink` | from power-on: agreement on the parameters, both ends become active, everything pushed is delivered and acknowledged | ends with different limits, 1 packet, 1 loss | 14,000 |
| `SLAPData` | packets conserved, resend armed, events set, refinement of `SLAPWindow` | 3 packets, window 2, 1 loss | 114,000 |
| `SLAPClose` | waiters woken, graceful close agreed | both users may close, wire of one packet that refuses or cuts, 1 loss | 3,400,000 |
| `SLAPReopen` | order and release across restarts | an active link, each end may restart once, two packets in a life of A, control alarms at any time | 1,000,000 |
| `ArdpTtl` | assertions, one `SendCb` per message, every message is completed | window 2, 3 messages (1, 2, 1 fragments), the second with a TTL, 2 losses, timers that give up | 80,000 |
| `ArdpFaults` | order, mask, one `SendCb` per message and its meaning | window 4, 2 messages, one with a TTL, mask of four words, reordering, 1 loss, a write that fails for good | 671,000 |
| `Timer` | count exact, no wakeup lost, the controller lives, removed means over; alarms fire, threads end, calls return | 2 threads, 2 users, 2 alarms, room for 1, 3 calls and a Start | 145,000 |
| `UDPConnect` | slots match, callbacks once, endpoint and connection have each other, assertions of `ArdpStream`, untrusted limit kept | 1 connect, 2 accepts, 2 segments in flight, 1 write that blocks or fails | 2,800,000 |
| `UDPSettle` | nothing half-open, dead or stopping stays for good | 1 connect, 1 accept, 1 segment in flight, 1 duplicate, 1 bad write | 267,000 |
| `ArdpStale` | (expected to fail) assertions under reordering | window 2, 3 messages, no loss, no timeout | |
| `ArdpEackWire` | (expected to fail) the mask sent is the mask | 3 words of 2 bits | |

Six more configurations are kept for the questions of section 4 and for a
larger case: `SLAPIdle` (module `MCSLAPStream`), `ArdpSendFails` and `ArdpReorder` (module
`MCArdpStream`), `TimerFull` and `TimerStopped` (module `MCTimer`), which show a violation,
and `SLAPBoth` (module `MCSLAPStream`), in which data in both directions carries the acks:
the direction from B implements `SLAPWindow` too (296,000 states). The `TypeOK` of each module may be added to any of its
configurations.

**Why the bounds suffice.** `SLAPWindow` pushes nine packets, one more than there
are sequence numbers, so that every comparison also happens across the
wrap-around; with five packets in flight a full window and an old copy are on the
wire together. The proofs remove these bounds. In `SLAPStream` the windows of the
ends differ (2 and 4), so that negotiation has something to do; the three packets
of `SLAPData` fill a window of two and go beyond it. In `SLAPReopen` the two packets of a
life have the numbers 0 and 1, so that a packet of the old life can have the number
that the new one expects. In `ArdpStream` numbers wrap
at 64 and start at 62, so each run crosses the wrap-around; a window of 2 is
filled by one fragmented message and a window of 4 holds a partly received expired
message and the next one. A write that fails for good (`SocketFails`) is left to
`ArdpFaults`: in `ArdpTtl` it would only end the connection, and an assertion fails there
(section 4). `Cap` and `WireCap` bound the network, not the
protocol: an action that would exceed them waits (or, with `CanBlock`, is refused).
In `Timer` two alarms on a timer with room for one make callers wait; two threads
are enough for the controller role to change hands in every state of the other
thread, and three calls for a removal or a stop to meet an alarm being handled and
a waiting caller. In `UDPConnect` the second accept is the one a SYN causes that
comes late or again; with two segments in flight each of them can overtake the
other; `MaxAuth = 1` and `MaxUntrusted = 1` make the limits bite. A network that is
full drops what is written to it, as UDP may. Duplicates are left to `UDPSettle`
(and to `UDPConnect` with `Passive = {11}` and `MaxDup = 1`, 1,800,000 states).

`CHECK_DEADLOCK FALSE` stands where the system may rest: all messages are
consumed, both ends are closed and the bounds are used up. `SLAPWindow` and
`ArdpEack` never rest, and there deadlock is checked.

**Fairness.** `SLAPStream!Fairness`: the timer thread and the I/O dispatcher keep
running, so packets that arrived are read, and an alarm that is armed again and
again fires (alarms are handled in the order of their times); a handler that waits
for room on the UART gets it when there is room again and again (strong
fairness); the reader pulls. Nothing is assumed about those who push,
close or reopen. For `Establishes` the constant `SlowControl` says in addition that
200 ms, the period of the control alarm, is longer than it takes to send and
handle the control packets already under way. Without it each repetition may
overwrite the answer in the shared control packet before it is sent, which no
fairness excludes.
Losses are finite (`MaxLoss`). `ArdpStream!Fairness`: `ARDP_Run` keeps reading
datagrams and calling timer handlers and the application keeps consuming what it
gets; a timer that is on again and again fires. Nothing is assumed about the
sender's user. `UDPTransport!Fairness`: the ARDP thread calls `ARDP_Run` when the time
it was told has passed, so that a timer that is due fires; the dispatcher, the
endpoint manager and the exit dispatcher run as long as there is something for
them. Nothing is assumed of the network, nor of the thread in `Connect`.
`Timer!Fairness`: threads are scheduled and a mutex that is free again and again is
got in the end (strong fairness of each thread's steps, of the calls in progress),
handlers return, the clock goes on; nobody has to call anything.

## 4. Findings

Two runs are expected to fail. They state what an assertion and a comment of the code
say, and TLC shows a behaviour of the code that contradicts it.

* `ArdpStale`: an ACK that is overtaken by a newer one is applied all the same
  (`snd.LCS != seg.LCS`) and takes `snd.UNA` and `snd.LCS` back; a message is then
  flushed while a retransmit timer runs, which an assertion of `FlushMessage`
  forbids. `ArdpFaults` shows what survives reordering: the order of messages and
  exactly one `SendCb` each. What is lost is the connection.
* `ArdpEackWire`: "First bit represents rcv.CUR + 2" (`ArdpProtocol.cc:2196`), but with a
  zero word in the middle the loop of `ShiftRcvMsk` goes on (line 2208) before it has
  copied the word before it (line 2219), and the mask on the wire is not the mask:
  it names a segment that did not arrive, and the sender stops its retransmit timer.
  Two words are safe; the default SEGMAX of 93 (`UDPTransport.cc:485`) needs three. What a
  wrong mask leads to is seen from the variant `CancelShifted`: a message that is never
  completed.

The passing runs hold within their assumptions. Where the code goes beyond them,
TLC shows what happens when the configuration is changed as follows:

* `ArdpSendFails.cfg`, RefusedHasNoSendCb: "the callback won't happen"
  (`UDPTransport.cc:2670`) when `ARDP_Send` returns an error, and the sender frees the
  buffer. But when the write of a later fragment fails for good, `SendData` disconnects
  (`ArdpProtocol.cc:1909`), and `FlushSendQueue` makes the `SendCb` of that very message.
  `FlushMessage` then also frees fragments that were never queued, and its assertion on
  `snd.pending` (line 717) fails.
* `TimerFull.cfg`: `RemoveAlarm` makes room on a full timer and wakes nobody who waits
  in `AddAlarm`; if no alarm is left to fire, the caller waits for ever beside an empty
  timer.
* `Timer`, CallsReturn alone, `Period <- MCPeriodic`, `HandlerAdds = {}` and
  `Menu = {"AddAlarm", "RemoveAlarm", "Start"}`: a waiting caller takes the room of a
  periodic alarm while its handler runs; `Run` then adds the alarm again with the
  recursive lock held, and `AddAlarm` waits for room without really giving it up.
  `ReplaceAlarm` calls `AddAlarm` in the same way.
* `TimerStopped.cfg`: "RemoveAlarm must not return until this alarm is finished"
  (`Timer.cc:511`), but the whole of `RemoveAlarm` is under `isRunning || expireOnExit`
  (line 483): on a timer that was stopped it returns at once, while a thread may still
  be in the handler.
* `Timer`, NoLostWakeup with periodic alarms (3 alarms with `When[a] = a`, the first
  with period 3, `Concurrency = 2`, no limit, `MaxTime = 2`,
  `Menu = {"AddAlarm", "Start"}`): the controller that waits to reap its threads reads
  the time of `topAlarm` anew (`Timer.cc:783`) after a worker has run that alarm and put
  it back for its next period, and then sleeps past an alarm that is due earlier.
* `UDPConnect`, OpenWasAnnounced: "If ARDP accepts the connection request it guarantees
  that it will call back with status" (`UDPTransport.cc:10224`), but when the ACK that
  completes the handshake would block, the connection is OPEN and `ConnectCb` is not
  made (`ArdpProtocol.cc:2834`). Its two slots stay taken.
* `UDPConnect`, UntrustedCounts: "Number of untrusted clients currently registered with
  the daemon" (`UDPTransport.h:905`) is counted down only in the `DisconnectCb` of an
  endpoint on `m_endpointList`; a client whose handshake fails is counted for good.
* `UDPSettle`: `MaxBad` bounds the writes that do not succeed. `ProbeTimerHandler` counts
  a probe only when it was written, so a socket that would block for ever keeps a
  dead connection open, whatever the comment on a "total link timeout"
  (`ArdpProtocol.cc:1350`) says.
* `SLAPIdle.cfg`, IdleHasNothingToSend: "Nothing to send so we go idle"
  (`SLAPStream.cc:676`), and the UART is opened `O_NONBLOCK`, so that it may refuse. The loop of
  `TransmitToLink` needs a non-empty `m_txQueue`, so the last packet, refused once by
  the UART, stays in `m_txCurrent` with no alarm armed until something else is queued.
* `ArdpReorder.cfg` with `SEGMAX = 3`, `Words = 3`, `SeqMod = 63`, `Msgs <- MCFill` and
  `Reorder = FALSE`: expired messages fill the ring,
  and the loop of `UpdateSndSegments` that skips expired segments goes round it for
  ever.
* `ArdpReorder.cfg` with `SEGMAX = 3`, `Words = 3` and `Reorder = FALSE`: `SEQ % SEGMAX` is not continuous at the
  wrap-around of the sequence number unless `SEGMAX` divides 2^32, and the default of
  93 does not. The ends disconnect each other.
* `ArdpReorder.cfg`, StaysOpen: a header-only segment overtaken by data
  that has been consumed is outside the window, and only data segments count as
  duplicates: the receiver disconnects a correct peer.

Known from reading, and not shown by a run: a periodic alarm that two threads chose
at once may be run early by the second (`NotEarly`); a removal of a periodic alarm
whose handler runs returns, and the alarm is added again; an `m_authTimeout` shorter
than the handshake leaves a connection open without an endpoint; a connection in
SYN_SENT that an invalid segment disconnects is reported by `DisconnectCb` only, and
keeps its slots.

## 5. Proofs

**`SLAPWindowProofs`.** For `Window` in 1..4, and every `MaxData` and `MaxWire`:
`InOrderDelivery`, `NoEarlyRelease`, `WireStaysNear`,
`TypeCorrect`, and `Refinement`: `SLAPWindow` implements `ReliableStream`.

`InOrder` alone is not inductive: nothing in it says that a packet with the
expected 3-bit number is the expected packet. The invariant `IInv` adds

* `WindowOrdered`: una <= received <= sent <= pushed <= una + Window, and the same
  for the receive buffers;
* `AckNamesExpected`: `m_currentTxAck` and `m_expectedSeq` both are the number of
  packets received, modulo 8;
* `WireOrdered`: a packet on the wire is at most a window behind what was received,
  and no packet is a whole window or more ahead of one that follows it;
* `AcksOrdered`: acks on the wire are in order, and between `una` and what was
  received.

From these each packet on the wire lies within a window of the expected one, so
that 2 * Window <= 8 makes equal 3-bit numbers equal packets
(`SeqNumUnique`, `SeqGtCompares`). There is one lemma per action; `NextIInv`
combines them. Refinement needs `IInv` only where a packet is accepted.

**`SLAPStreamProofs`.** For all windows and packet sizes of the two ends, any number
of pushes, losses, closes and restarts, and a UART that refuses packets or does not,
from both initial predicates: `TypeCorrect`, `ParametersAgree` (`ParamsAgree`),
`BuffersAreConserved`, `EventsMatch` (`EventsMatchQueues`), `UnackedIsResent`
(`SentHasResend`), `DeathIsHeard` (`DeadWakesWaiters`); and
`DisconnectIsAgreed` (`DisconnectAgreed`) if no end is reopened (`OneLife`, as in the run:
an answer from an earlier life of the other end could be taken for one of this life).

The invariant `Inv` says of each end `StreamOK`, of each wire `WireOK`:

* `Core`: `Params` (which parameters an end may have in which link state), `Buffers`
  (before configuration there are no packets, afterwards there are a window of them
  each way), `CtrlFirst` (behind the head of `m_txQueue` there are only data packets),
  `Events`, `Woken`, `Resends`. `ParamsAgree` is inductive only together with the type of
  the packets: `NEGO` proposes an end's own limits or what was agreed, and `NEGO_RESP`
  always says what was agreed, also when it is an old one that the shared buffer
  repeats;
* `Answers` and, under `OneLife`, `Farewell`: `DISCONN_RESP` is in `m_txCtrl`, in
  `m_txCurrent` or on the wire only if the end that sends it is down. This is what
  makes a received answer mean something;
* `Scheduled`, if the UART never refuses: what is on `m_txQueue` has the send alarm
  armed or firing, and nothing is left in `m_txCurrent`.

The methods are operators on one end, so there is one lemma per method that it keeps
`Core`, `Answers` and `Scheduled`, and one lemma per action that combines them with the
wires (`EndStep`). The longest argument is `TransmitToLink`: `TransmitCounts` shows that
the packets delivered, the one left behind and those still queued are together what
was queued. It rests on lemmas about filtering a sequence by type (`OfTypeIsFilter`,
`OfTypeConcat`, `DataInConcat`), which are inductions over data written as arguments
about a shortest counterexample.

**`SLAPOrderProofs`.** For all windows and packet sizes, any number of pushes, losses
and closes, any `WireCap`, and from both initial predicates: `OrderDelivered`
(`DeliveredInOrder`), `OrderReleased` (`ReleasedWasDelivered`), and the refinement of
the window protocol in both directions, `OrderWindowA` (`WindowFromA`) and
`OrderWindowB` (`WindowFromB`). `OrderStreamA` and `OrderStreamB` state what the users of
the two ends see: each direction of the link implements `ReliableStream`. They are proved
on the link itself (`StreamSteps`: a step pushes a packet, delivers the oldest undelivered
one, or does neither; `NoneAhead`: nothing is delivered that was not pushed), not by
composing two refinements. The theorems have two hypotheses, which
the run `SLAPData` has too: no end is reopened (`OneLife`), since a packet of an earlier
life carries sequence numbers that mean nothing to the new one; and the UART never
refuses (`~CanBlock`: the timer thread waits for room), since a packet cut off by a
refusal stays in `m_txCurrent`, outside the queues the mapping counts.

The invariant `OrderInv` says `Settled` of each end (one that has buffers uses the window
that was agreed) and `Dir` of each direction:

* `SendOrder`: `m_txSent` followed by the data on `m_txQueue` are consecutive packets up
  to the last one pushed, at most a window of them, each with its number modulo 8;
* `RecvOrder`: what was put on `m_rxQueue` are the packets 0, 1, 2, ..., and
  `m_expectedSeq` and `m_currentTxAck` are their number modulo 8;
* `DataOrder`: a packet on the wire is at most a window behind the receiver (`Near`),
  and none is a window or more ahead of one that follows it (`Ahead`);
* `AckOrder`: counted from the first unacknowledged packet, the acks on the way back,
  on data and ACK packets alike, do not decrease and do not pass the receiver.

It is the counterpart of `IInv` of `SLAPWindow`, but on the real queues, with control
packets between the data, both directions sharing each wire, and an end that
may already send data while the other one still negotiates. `AckReleases` shows that
the loop of `ProcessAckNum` stops exactly at the packet the ack names; `DirSends`,
`DirReads`, `DirReleases`, `DirAnswers` and `DirPushes` follow one direction through what
a step does to it, and each action is a lemma that combines two of these.

For the refinement, `View` is the abstract state of one direction and `Moves` the steps
of `SLAPWindow` on it. Every action lemma also shows `Simulates`: seen from either end
the step is one of `Moves` or nothing. One step of the link is often two such steps: a
data packet from A is data for one direction and an ack for the other (`ViewSends` and
`ViewAnswers`, `ViewReads` and `ViewReleases`). A repeated packet and an ignored one
are lost packets to the window protocol: with `OrderInv` a repeated packet changes no
ack number. `AbstractIsView` shows that `View` is the mapping of `FromA` and `FromB`.
TLC has checked `OrderInv` and both refinements with data in both directions, from an
established link (714,000 states, complete) and from power-on with a close (the first
2.2 million states).

**`ArdpSeqProofs`.** For every modulus: `IN_RANGE` is "the distance from `beg` is
less than `sz`" (`InRangeIsDistance`), `SEQ32_LT` is the order of numbers less than
half the range apart (`LtIsOrder`), and distances do not change when both numbers
move (`DistanceSlides`).

**`ArdpEackProofs`.** For every word size and number of words, the mask in host
order holds exactly the segments received out of order, and `sz` ends at its last
non-zero word (`MaskCorrect`). Of the copy on the wire this is false (run
`ArdpEackWire`). The inductive invariant needs
`SzTight`: words beyond `sz` are not shifted, so they must be zero.

**`ArdpConnectProofs` and `UDPTransportProofs`.** For any finite sets of
connections, any number of retries, any limits and any budget of losses,
duplicates and bad writes: `TypeCorrect`, `SlotsAccounted` (`SlotsMatch`),
`CalledOnce` (`CallbacksOnce`), `NoDeafEndpoint` (`EndpointHears`),
`NoOrphanConnection` (`OpenHasOwner`), `AssertionsHoldInStream` (`StreamAssertions`) and
`UntrustedNeverUndercounted` (`UntrustedCovered`).

None of these is inductive: whether an endpoint hears of the end of its connection
depends on a callback that waits in a queue, on a thread that waits in `Connect`,
and on what ARDP will still do. The invariant follows one connection at a time.

* `ArdpInv` is about ARDP alone. `RecordsOK`: what the state of a record says of its
  timer and of the callbacks it has made. `CallbacksOK`: a callback that waits was
  made once, and what it says is still so. `QueueOrder`: of one connection at most a
  `ConnectCb` waits, and behind it its `DisconnectCb`.
* `Bound(r)` ties record, endpoint, connecting thread and waiting callbacks of `r`
  together: `Made` (an endpoint has a connection), `Told` (one that is not told yet
  has its callback coming), `ConnectTells`, `Stage` (which list goes with which
  state), `Asked`, `Owned`.
* `Counts`: `m_currAuth` and `m_currConn` are the sizes of the sets of connections
  that hold a slot (`AuthSet`, `ConnSet`), and the untrusted count is at least the
  number of untrusted endpoints still listed.

The lemmas of `ArdpConnectProofs` say that each action of ARDP is one of a few steps
in the life of one connection (it is made, it opens, it closes with or without a
callback, it is freed); `UDPTransportProofs` shows once per such step that `Bound`
stays true, and once per action of the transport.

**`TimerProofs`.** For any number of threads, users and alarms, any limit, and all
of the options: `TypeCorrect`, `CountCorrect` (`CountMatches`), `ControllerAlive`
(`ControllerLives`), `RemovalFinal` (`RemovedIsOver`) and, when no alarm is periodic,
`WakeupNotLost` (`NoLostWakeup`). The invariant `IInv` is the conjunction of

* `CountMatches`, which is inductive with the types;
* `Places`: an alarm is in one place at a time: in the set, in the hands of one
  thread, or with a caller that waits in `AddAlarm`. Without it a removed alarm
  might come back from somewhere else;
* `Over`: an alarm that was removed is in none of these places;
* `SlotOK`: for each place in `Run` and `Stop` where a thread can be, the thread's
  state and what it may believe of the controller role and of `isRunning`.
  `ControllerLives` needs it, since the role is handed over by threads that are about
  to sleep or to end;
* `UserOK`: a removal that waits has looked at the threads below its index, and a
  start in progress has a thread that boots;
* `Watch`: what a controller knows that is about to sleep: no alarm in the set is
  earlier than the one it looked at, or somebody has alerted it. This is what fails
  with periodic alarms (section 4), hence the hypothesis `NoPeriods`.

TLC has checked `IInv` on four configurations, up to 3.9 million states.

The provers have no induction over data; where one is needed (the earliest alarm
of a set, the first thread that is idle) the proofs take the least element of a
non-empty set of numbers, which exists because `<` on the naturals is well-founded
(`LeastExists`).

**Only model-checked.** Liveness (`Establishes`, `AllDelivered`, `AllCompleted`,
`Settles` and the temporal properties of `Timer`), which depends on fairness. Of
`SLAPStream`, the order of packets when an end is reopened (run `SLAPReopen`): the
invariant would have to tell the lives of both ends apart on every packet and ack.
`ArdpStream` as a whole (`AssertionsHold`, `DeliveredInOrder`,
`EackMatchesBuffers`, `SendCbOnce`, `SendCbMeansConsumed`): its loops over the
receive buffers and the send ring are recursive operators, which the provers do not
take, and its assertions are false when segments overtake each other (section 4), so
an inductive invariant exists only together with bounds on what the network delays.
And `NoLostWakeup` for periodic alarms, for which it is false.

## 6. Not modelled, and the plan

Not modelled by intent: byte stuffing and CRC of SLAP packets, cryptography,
message coding, configuration files, bindings and samples. Of ARDP: round-trip
times, the simple mode, the list of timers (`CheckTimers` walks it while handlers
change it). Of the UDP transport: messages over an endpoint and the threads that
pump them, listening and advertising, `Stop` and `Join` of the transport. Of the
timer: a thread that cannot be created, removals called from a handler.

The repository is far larger than what is modelled: name service, sessions,
sessionless signals, routing, security and the client library are listed in
`PROJECT.json` with the reason. Next, in this order:

1. The order of packets in `SLAPStream` across restarts and on a UART that refuses; the
   loops of `ArdpStream` written without recursion, as a first step to its proofs.
2. `IODispatch` on top of `Timer`, and messages over a UDP endpoint.
3. `SessionlessObj`: change ids that wrap, and catch-up between two routers.
4. `NameTable` with the name queues of `DBusObj`.
5. `RemoteEndpoint`, `LocalTransport` (reply map against timeouts), `VirtualEndpoint`,
   the serial window of `PeerState`, sessions of `AllJoynObj`.
