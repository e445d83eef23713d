------------------------------- MODULE Timer -------------------------------
(***************************************************************************)
(* The alarm timer of common/src/Timer.cc: a pool of timer threads that    *)
(* share one set of alarms.  One of the threads, the controller, sleeps    *)
(* until the first alarm is due; before it runs a handler it wakes or      *)
(* starts another thread and yields the role, which the next thread to     *)
(* come round the loop takes over.                                         *)
(*                                                                         *)
(* An action is what a thread does between two points where it gives up    *)
(* TimerImpl::lock; where the code goes on with the lock held (round the   *)
(* loop of Run, or from worker to worker when it reaps them) the variable  *)
(* lock stays with the thread.  Time is a clock of a few ticks: whether a  *)
(* positive delay is below WORKER_IDLE_TIMEOUT_MS is left open.            *)
(***************************************************************************)
EXTENDS Integers, FiniteSets, Sequences, SequencesExt

CONSTANTS
    Concurrency,       \* timerThreads: number of preallocated slots, 0: grow on demand
    MaxSlots,          \* bound: slots the vector timerThreads may grow to
    Users,             \* threads outside the pool that use the timer
    Alarms,            \* alarm ids (_Alarm::id), numbers
    When,              \* [Alarms -> Nat]: the time each alarm is set for
    Period,            \* [Alarms -> Nat]: periodMs, 0: one shot
    Limitable,         \* alarms that count towards maxAlarms
    Listener,          \* [Alarms -> listeners]
    MaxAlarms,         \* maxAlarms, 0: no limit
    PreventReentrancy, \* preventReentrancy
    ExpireOnExit,      \* expireOnExit
    HandlerAdds,       \* alarms that an alarm handler may add
    Menu,              \* operations the users may call
    MaxOps,            \* bound: calls made by the users
    MaxStarts,         \* bound: times the timer is started
    MaxTime            \* bound: the clock

ASSUME TimerAssumption ==
    /\ Concurrency \in Nat /\ MaxSlots \in Nat \ {0} /\ Concurrency <= MaxSlots
    /\ Alarms \subseteq Nat /\ IsFiniteSet(Alarms) /\ When \in [Alarms -> Nat]
    /\ Period \in [Alarms -> Nat]
    /\ Limitable \subseteq Alarms /\ HandlerAdds \subseteq Alarms
    /\ MaxAlarms \in Nat /\ MaxOps \in Nat /\ MaxStarts \in Nat /\ MaxTime \in Nat
    /\ PreventReentrancy \in BOOLEAN /\ ExpireOnExit \in BOOLEAN
    /\ Users \cap (0..MaxSlots) = {} /\ -1 \notin Users

None  == -1
Slots == 0..(MaxSlots - 1)
Procs == Slots \cup Users

VARIABLES
    lock,               \* holder of TimerImpl::lock between two actions
    reentrancyLock,     \* holder of reentrancyLock
    alarms,             \* the set of pending alarms
    alarmTime,          \* _Alarm::alarmTime
    numLimitableAlarms,
    addWaitQueue,
    controllerIdx,      \* -1: the role is free
    isRunning,
    size,               \* timerThreads.size()
    th,                 \* the threads
    now,                \* MonotonicTime
    added,              \* alarms some caller has created and added
    removed,            \* one-shot alarms that a blocking removal has dealt with
    calls,              \* calls made by the users
    starts              \* times Start was called

\* A thread.  pc is where it waits; the other fields are
\*   alerted, code     Thread::stopEvent and alertCode
\*   state, stopping   TimerThread::state ("NULL": no object), Thread::isStopping
\*   cur               TimerThread::currentAlarm
\*   top, ctl          topAlarm and isController of Run
\*   seen              now of Run; while it sleeps, the time it sleeps until
\*   status, idx       status of the last Event::Wait, index in a loop over the slots
\*   arg, force        argument of the call in progress, and is it ForceRemoveAlarm
\*   gone              (history) the alarms that will be over when the call returns
Idle(pc, st) ==
    [pc |-> pc, alerted |-> FALSE, code |-> 0, state |-> st, stopping |-> FALSE,
     cur |-> None, top |-> None, ctl |-> FALSE, seen |-> 0, status |-> "TIMEOUT", idx |-> 0,
     arg |-> None, force |-> FALSE, gone |-> {}]

pool == <<controllerIdx, isRunning, size>>
queue == <<alarms, alarmTime, numLimitableAlarms, addWaitQueue>>
ghosts == <<added, removed, calls, starts>>
vars == <<lock, reentrancyLock, queue, pool, th, now, ghosts>>

-----------------------------------------------------------------------------
(* The alarm set.                                                          *)

\* _Alarm::operator<
Before(a, b) == \/ alarmTime[a] < alarmTime[b]
                \/ alarmTime[a] = alarmTime[b] /\ a < b
IsFirst(a, S) == a \in S /\ \A b \in S \ {a} : Before(a, b)
First == CHOOSE a \in alarms : IsFirst(a, alarms)
Due(a) == alarmTime[a] <= now

Full(a) == MaxAlarms # 0 /\ a \in Limitable /\ numLimitableAlarms >= MaxAlarms
Weight(a) == IF a \in Limitable THEN 1 ELSE 0

\* Variant for mutation: the count is forgotten.
EraseUncounted(a) == alarms' = alarms \ {a} /\ UNCHANGED numLimitableAlarms

\* Erase a from the set; nobody who waits in AddAlarm is told.
Erase(a) ==
    /\ alarms' = alarms \ {a}
    /\ numLimitableAlarms' = numLimitableAlarms - Weight(a)

\* The threads after AddAlarm, which puts a into the set for time w, has alerted
\* the controller: if a is the new head and the controller sleeps.
AlertController(t0, a, w) ==
    IF /\ \A b \in alarms : w < alarmTime[b] \/ (w = alarmTime[b] /\ a < b)
       /\ controllerIdx >= 0
       /\ t0[controllerIdx].state = "IDLE"
    THEN [t0 EXCEPT ![controllerIdx].alerted = TRUE]
    ELSE t0

Put(t0, a, w) ==
    /\ alarms' = alarms \cup {a}
    /\ numLimitableAlarms' = numLimitableAlarms + Weight(a)
    /\ th' = AlertController(t0, a, w)

\* AddAlarm has to wait for room.
EnterWait(t0, p, a) ==
    /\ th' = [t0 EXCEPT ![p].pc = "addWait", ![p].arg = a]
    /\ addWaitQueue' = <<p>> \o addWaitQueue
    /\ UNCHANGED <<alarms, numLimitableAlarms>>

-----------------------------------------------------------------------------
(* TimerThread::Run.                                                       *)

At(t, pc) == t \in Slots /\ th[t].pc = pc
Take(p) == lock = None /\ lock' = p
Free == lock = None /\ UNCHANGED lock
Release(p) == lock = p /\ lock' = None

\* Thread::RunInternal up to the loop; a thread stopped before it ran goes
\* straight to ThreadExit.
RunInternal(t) ==
    /\ At(t, "boot")
    /\ IF th[t].stopping
       THEN /\ th' = [th EXCEPT ![t].pc = "exit", ![t].alerted = FALSE]
            /\ UNCHANGED lock
       ELSE /\ th' = [th EXCEPT ![t].pc = "loop"]
            /\ Take(t)
    /\ UNCHANGED <<reentrancyLock, queue, pool, now, ghosts>>

\* while (!IsStopping()): the thread leaves the loop.
Leave(t) ==
    /\ At(t, "loop") /\ th[t].stopping
    /\ Release(t)
    /\ th' = [th EXCEPT ![t].pc = "exit", ![t].state = "STOPPING", ![t].alerted = FALSE,
                        ![t].ctl = FALSE]
    /\ UNCHANGED <<reentrancyLock, queue, pool, now, ghosts>>

Controls(t) == controllerIdx \in {t, -1}

\* Variant for mutation: the role is not written down.
LoopTopForgets(t) ==
    /\ At(t, "loop") /\ ~th[t].stopping /\ lock = t
    /\ UNCHANGED <<reentrancyLock, queue, pool, now, ghosts>>

\* Top of the loop, the common part: take the controller's role if it is free.
LoopTop(t) ==
    /\ At(t, "loop") /\ ~th[t].stopping /\ lock = t
    /\ controllerIdx' = IF Controls(t) THEN t ELSE controllerIdx
    /\ UNCHANGED <<reentrancyLock, queue, isRunning, size, now, ghosts>>

\* The first alarm is due: run it, after reentrancyLock if that is asked for.
LoopDue(t) ==
    /\ LoopTop(t)
    /\ alarms # {} /\ Due(First)
    /\ th' = [th EXCEPT ![t].pc = IF PreventReentrancy THEN "claim" ELSE "dispatch",
                        ![t].state = "RUNNING", ![t].alerted = FALSE,
                        ![t].top = First, ![t].ctl = Controls(t),
                        ![t].seen = IF Period[First] = 0 THEN 0 ELSE now]
    /\ lock' = None

\* Variant for mutation: the controller idles like a worker.
LoopControllerIdles(t) ==
    /\ LoopTop(t)
    /\ Controls(t)
    /\ alarms # {} => ~Due(First)
    /\ th' = [th EXCEPT ![t].pc = "idle", ![t].state = "IDLE"]
    /\ lock' = None

\* The controller has nothing to do now: reap the workers, then sleep.
LoopController(t) ==
    /\ LoopTop(t)
    /\ Controls(t)
    /\ alarms # {} => ~Due(First)
    /\ th' = [th EXCEPT ![t].pc = "reap", ![t].state = "IDLE", ![t].ctl = TRUE,
                        ![t].top = IF alarms = {} THEN None ELSE First,
                        ![t].status = "TIMEOUT", ![t].idx = 0]
    /\ UNCHANGED lock

\* A worker has nothing to do now: sleep until the next alarm if it is near,
\* or else idle for WORKER_IDLE_TIMEOUT_MS.
LoopWorker(t) ==
    /\ LoopTop(t)
    /\ ~Controls(t)
    /\ alarms # {} => ~Due(First)
    /\ \/ th' = [th EXCEPT ![t].pc = "idle", ![t].state = "IDLE", ![t].ctl = FALSE]
       \/ /\ alarms # {}
          /\ th' = [th EXCEPT ![t].pc = "sleep", ![t].state = "IDLE", ![t].ctl = FALSE,
                              ![t].top = First, ![t].seen = alarmTime[First]]
    /\ lock' = None

\* Is there a delay until topAlarm?  With an empty set there is no end to it.
Delayed(t) == th[t].top # None => ~Due(th[t].top)

\* One worker of the controller's loop over the pool: wait until it has
\* stopped and delete it, or give up when alerted, stopped or nearly due.
Reap(t) ==
    /\ At(t, "reap") /\ lock = t
    /\ LET i == th[t].idx
           quiet == th[t].status = "TIMEOUT" /\ isRunning
       IN  /\ i < size
           /\ \/ /\ i = t \/ th[i].state = "NULL"
                 /\ th' = [th EXCEPT ![t].idx = i + 1]
                 /\ UNCHANGED lock
              \/ \* give up
                 /\ i # t /\ th[i].state # "NULL"
                 /\ ~quiet \/ th[t].top # None
                 /\ th' = [th EXCEPT ![t].idx = size]
                 /\ UNCHANGED lock
              \/ /\ i # t /\ th[i].state \notin {"NULL", "STOPPED"} /\ quiet /\ Delayed(t)
                 /\ th' = [th EXCEPT ![t].pc = "reapWait"]
                 /\ lock' = None
              \/ /\ i # t /\ th[i].state = "STOPPED" /\ quiet /\ Delayed(t)
                 /\ th' = [th EXCEPT ![t].idx = i + 1, ![i] = Idle("off", "NULL")]
                 /\ UNCHANGED lock
    /\ UNCHANGED <<reentrancyLock, queue, pool, now, ghosts>>

\* Variant for mutation: the event is reset before the controller sleeps.
ReapDoneDeaf(t) ==
    /\ At(t, "reap") /\ lock = t
    /\ th[t].idx >= size
    /\ th' = [th EXCEPT ![t].pc = "sleep", ![t].alerted = FALSE,
                        ![t].seen = IF th[t].top = None THEN 0 ELSE alarmTime[th[t].top],
                        ![t].status = "TIMEOUT", ![t].idx = 0]
    /\ lock' = None
    /\ UNCHANGED <<reentrancyLock, queue, pool, now, ghosts>>

\* The reaping is over: sleep, unless alerted or already due.
ReapDone(t) ==
    /\ At(t, "reap") /\ lock = t
    /\ th[t].idx >= size
    /\ IF th[t].status = "TIMEOUT" /\ Delayed(t)
       THEN /\ th' = [th EXCEPT ![t].pc = "sleep",
                                ![t].seen = IF th[t].top = None THEN 0 ELSE alarmTime[th[t].top],
                                ![t].status = "TIMEOUT", ![t].idx = 0]
            /\ lock' = None
       ELSE /\ th' = [th EXCEPT ![t].pc = "loop", ![t].alerted = FALSE, ![t].top = None,
                                ![t].status = "TIMEOUT", ![t].idx = 0]
            /\ UNCHANGED lock
    /\ UNCHANGED <<reentrancyLock, queue, pool, now, ghosts>>

\* Event::Wait(neverSet, WORKER_IDLE_TIMEOUT_MS) returns.
WaitReturns(t) ==
    /\ At(t, "reapWait") \/ At(t, "idle")
    /\ th' = [th EXCEPT ![t].pc = IF @ = "idle" THEN "idled" ELSE "reapWoke",
                        ![t].status = IF th[t].alerted THEN "ALERTED" ELSE "TIMEOUT"]
    /\ UNCHANGED <<lock, reentrancyLock, queue, pool, now, ghosts>>

ReapWoke(t) ==
    /\ At(t, "reapWoke") /\ Take(t)
    /\ th' = [th EXCEPT ![t].pc = "reap"]
    /\ UNCHANGED <<reentrancyLock, queue, pool, now, ghosts>>

\* Event::Wait for the delay, or for ever, returns and the loop goes round.
Slept(t) ==
    /\ At(t, "sleep")
    /\ th[t].alerted \/ (th[t].top # None /\ th[t].seen <= now)
    /\ Take(t)
    /\ th' = [th EXCEPT ![t].pc = "loop", ![t].alerted = FALSE, ![t].top = None, ![t].seen = 0]
    /\ UNCHANGED <<reentrancyLock, queue, pool, now, ghosts>>

\* A worker that idled for its time stops, if there is a controller.
Idled(t) ==
    /\ At(t, "idled")
    /\ IF th[t].status = "TIMEOUT" /\ controllerIdx # -1
       THEN /\ Free
            /\ th' = [th EXCEPT ![t].pc = "exit", ![t].state = "STOPPING", ![t].alerted = FALSE]
       ELSE /\ Take(t)
            /\ th' = [th EXCEPT ![t].pc = "loop", ![t].alerted = FALSE, ![t].status = "TIMEOUT"]
    /\ UNCHANGED <<reentrancyLock, queue, pool, now, ghosts>>

Claim(t) ==
    /\ At(t, "claim") \/ At(t, "exitClaim")
    /\ reentrancyLock = None /\ reentrancyLock' = t
    /\ th' = [th EXCEPT ![t].pc = IF @ = "claim" THEN "dispatch" ELSE "exitHandler"]
    /\ UNCHANGED <<lock, queue, pool, now, ghosts>>

-----------------------------------------------------------------------------
(* The controller hands its role over and runs the alarm.                  *)

Others(t) == (0..(size - 1)) \ {t}
In(t, st) == {i \in Others(t) : th[i].state \in st}
Least(S) == CHOOSE i \in S : \A j \in S : i <= j
Greatest(S) == CHOOSE i \in S : \A j \in S : j <= i

\* The search goes on while every other worker is on its way to stop.
KeepsLooking(t) ==
    /\ isRunning /\ size > 1
    /\ In(t, {"IDLE", "STOPPED", "NULL"}) = {}
    /\ In(t, {"STOPPING"}) # {}

\* The slot that is to take over: the first idle one, or else the last stopped
\* one, or else the first empty one, or else a new one.  None: all are busy.
Successor(t) ==
    IF In(t, {"IDLE"}) # {} THEN Least(In(t, {"IDLE"}))
    ELSE IF In(t, {"STOPPED"}) # {} THEN Greatest(In(t, {"STOPPED"}))
    ELSE IF In(t, {"NULL"}) # {} THEN Least(In(t, {"NULL"}))
    ELSE IF Concurrency = 0 /\ size < MaxSlots THEN size
    ELSE None

\* The threads after the controller t has woken or started its successor and
\* given up the role.
HandOver(t) ==
    LET s == Successor(t) IN
    IF ~th[t].ctl THEN th
    ELSE IF ~isRunning \/ s = None THEN [th EXCEPT ![t].ctl = FALSE]
    ELSE IF th[s].state = "IDLE" THEN [th EXCEPT ![t].ctl = FALSE, ![s].alerted = TRUE]
    ELSE [th EXCEPT ![t].ctl = FALSE,
                    ![s] = [Idle("boot", "STARTING") EXCEPT !.code = th[s].code]]

Yield(t) ==
    /\ th[t].ctl => ~KeepsLooking(t)
    /\ controllerIdx' = IF th[t].ctl THEN -1 ELSE controllerIdx
    /\ size' = IF th[t].ctl /\ isRunning /\ Successor(t) = size THEN size + 1 ELSE size
    /\ UNCHANGED isRunning

\* Variant for mutation: nobody is woken.
WakeNobody(t0) == t0

\* The longest waiter in AddAlarm, if any, is taken off the queue and alerted.
WakeAdder(t0) ==
    IF addWaitQueue = << >> THEN t0 ELSE [t0 EXCEPT ![Last(addWaitQueue)].alerted = TRUE]

\* topAlarm is still there: take it out and call AlarmTriggered.
Dispatch(t) ==
    /\ At(t, "dispatch") /\ Free
    /\ Yield(t)
    /\ th[t].top \in alarms
    /\ Erase(th[t].top)
    /\ th' = WakeAdder([HandOver(t) EXCEPT ![t].pc = "handler", ![t].cur = th[t].top])
    /\ addWaitQueue' = IF addWaitQueue = << >> THEN << >> ELSE Front(addWaitQueue)
    /\ UNCHANGED <<alarmTime, reentrancyLock, now, ghosts>>

\* topAlarm was run by another thread, or removed: back to the top of the loop.
DispatchGone(t) ==
    /\ At(t, "dispatch") /\ Take(t)
    /\ Yield(t)
    /\ th[t].top \notin alarms
    /\ th' = [HandOver(t) EXCEPT ![t].pc = "loop", ![t].top = None, ![t].seen = 0]
    /\ reentrancyLock' = IF reentrancyLock = t THEN None ELSE reentrancyLock
    /\ UNCHANGED <<queue, now, ghosts>>

\* AlarmTriggered returns.
HandlerReturns(t) ==
    /\ At(t, "handler") \/ At(t, "exitHandler")
    /\ th' = [th EXCEPT ![t].pc = IF @ = "handler" THEN "returned" ELSE "exit"]
    /\ reentrancyLock' = IF reentrancyLock = t THEN None ELSE reentrancyLock
    /\ UNCHANGED <<lock, queue, pool, now, ghosts>>

\* EnableReentrancy, from a handler.
EnableReentrancy(t) ==
    /\ At(t, "handler") \/ At(t, "exitHandler")
    /\ reentrancyLock = t /\ reentrancyLock' = None
    /\ UNCHANGED <<lock, queue, pool, th, now, ghosts>>

\* Variant for mutation: currentAlarm is not cleared.
DoneKeepsCurrent(t) == [th EXCEPT ![t].pc = "loop", ![t].top = None, ![t].seen = 0]

\* The threads once t has come back from the handler.
Done(t) ==
    [th EXCEPT ![t].pc = "loop", ![t].cur = None, ![t].top = None, ![t].seen = 0,
               ![t].code = IF @ = 2 THEN 0 ELSE @]

\* After the handler: currentAlarm is cleared, and a periodic alarm is added
\* again with the lock held, also while AddAlarm waits for room.
Returned(t) ==
    /\ At(t, "returned")
    /\ Take(t)
    /\ LET a == th[t].top
           t0 == Done(t)
           next == alarmTime[a] + Period[a]
       IN  IF Period[a] = 0
           THEN th' = t0 /\ UNCHANGED queue
           ELSE /\ alarmTime' = [alarmTime EXCEPT ![a] = IF next < th[t].seen THEN th[t].seen ELSE next]
                /\ \/ ~isRunning /\ th' = t0 /\ UNCHANGED <<alarms, numLimitableAlarms, addWaitQueue>>
                   \/ isRunning /\ Full(a) /\ EnterWait(t0, t, a)
                   \/ isRunning /\ ~Full(a) /\ Put(t0, a, alarmTime'[a]) /\ UNCHANGED addWaitQueue
    /\ UNCHANGED <<reentrancyLock, pool, now, ghosts>>

\* ThreadExit: with expireOnExit the alarms left over are run, one by one, and
\* the thread is STOPPED.
ThreadExit(t) ==
    /\ At(t, "exit") /\ Free
    /\ IF ~isRunning /\ ExpireOnExit /\ alarms # {}
       THEN /\ Erase(First)
            /\ th' = [th EXCEPT ![t].pc = IF PreventReentrancy THEN "exitClaim" ELSE "exitHandler",
                                ![t].cur = First]
       ELSE /\ th' = [th EXCEPT ![t].pc = "off", ![t].cur = None, ![t].state = "STOPPED"]
            /\ UNCHANGED <<alarms, numLimitableAlarms>>
    /\ UNCHANGED <<alarmTime, addWaitQueue, reentrancyLock, pool, now, ghosts>>

-----------------------------------------------------------------------------
(* The interface, called by users and, in part, by alarm handlers.         *)

\* User u calls op; one thread of the users owns the timer (Start, Stop, Join).
Call(u, op) ==
    /\ u \in Users /\ th[u].pc = "user" /\ op \in Menu
    /\ calls < MaxOps /\ calls' = calls + 1

Handling(p) == At(p, "handler") \/ At(p, "exitHandler")

\* Where a call of p returns to.
Home(p) == CASE p \in Users -> "user"
             [] th[p].state = "RUNNING" -> "handler"
             [] OTHER -> "exitHandler"

\* AddAlarm of an alarm that is new.
AddAlarm(p, a) ==
    /\ \/ Call(p, "AddAlarm")
       \/ Handling(p) /\ a \in HandlerAdds /\ UNCHANGED calls
    /\ a \in Alarms \ added /\ added' = added \cup {a}
    /\ Free
    /\ \/ ~isRunning /\ UNCHANGED <<th, alarms, numLimitableAlarms, addWaitQueue>>
       \/ isRunning /\ Full(a) /\ EnterWait(th, p, a)
       \/ isRunning /\ ~Full(a) /\ Put(th, a, alarmTime[a]) /\ UNCHANGED addWaitQueue
    /\ UNCHANGED <<alarmTime, reentrancyLock, pool, now, removed, starts>>

\* A thread that waits for room has been alerted.  Called with the lock held
\* (by Returned and ReplaceAlarm) it has kept it.
AddAlarmWoken(p) ==
    /\ th[p].pc = "addWait" /\ th[p].alerted
    /\ lock \in {None, p}
    /\ LET a == th[p].arg
           inLoop == lock = p /\ p \in Slots
           t0 == [th EXCEPT ![p].alerted = th[p].stopping,
                            ![p].code = IF th[p].stopping THEN @ ELSE 0]
           t1 == [t0 EXCEPT ![p].pc = IF inLoop THEN "loop" ELSE Home(p), ![p].arg = None]
           q == RemoveFirst(addWaitQueue, p)
           forced == th[p].code = 2 /\ ~th[p].stopping
           done == lock' = IF inLoop THEN p ELSE None
       IN  \/ /\ forced \/ ~isRunning
              /\ th' = t1 /\ addWaitQueue' = q /\ done
              /\ UNCHANGED <<alarms, numLimitableAlarms>>
           \/ /\ ~forced /\ isRunning /\ Full(a)
              /\ th' = t0 /\ addWaitQueue' = <<p>> \o q /\ UNCHANGED lock
              /\ UNCHANGED <<alarms, numLimitableAlarms>>
           \/ /\ ~forced /\ isRunning /\ ~Full(a)
              /\ Put(t1, a, alarmTime[a]) /\ addWaitQueue' = q /\ done
    /\ UNCHANGED <<alarmTime, reentrancyLock, pool, now, ghosts>>

AddAlarmNonBlocking(u, a) ==
    /\ Call(u, "AddAlarmNonBlocking")
    /\ a \in Alarms \ added /\ added' = added \cup {a}
    /\ Free
    /\ IF ~isRunning \/ Full(a)
       THEN UNCHANGED <<th, alarms, numLimitableAlarms>>
       ELSE Put(th, a, alarmTime[a])
    /\ UNCHANGED <<alarmTime, addWaitQueue, reentrancyLock, pool, now, removed, starts>>

\* Alarms a caller may remove: AddAlarm has returned.
Removable == added \ {th[p].arg : p \in {q \in Procs : th[q].pc = "addWait"}}

\* Variant for mutation: the slot to start with is skipped.
BusyPast(S, i) == {j \in (i + 1)..(size - 1) : th[j].state # "NULL" /\ th[j].cur \in S}

\* The next slot, from i on, that runs an alarm of S: the call must wait for it.
Busy(S, i) == {j \in i..(size - 1) : th[j].state # "NULL" /\ th[j].cur \in S}

OneShot(S) == {a \in S : Period[a] = 0}

\* Look through the slots from i on for one that runs an alarm of S, and wait
\* there, or return.  ForceRemoveAlarm alerts the thread it waits for.
Scan(u, S, i, force, t0) ==
    IF Busy(S, i) = {}
    THEN /\ th' = [t0 EXCEPT ![u].pc = "user", ![u].arg = None, ![u].gone = {},
                           ![u].force = FALSE, ![u].idx = 0]
         /\ removed' = removed \cup OneShot(t0[u].gone)
    ELSE LET j == Least(Busy(S, i))
             t1 == [t0 EXCEPT ![u].idx = j, ![u].force = force]
         IN  /\ th' = IF force THEN [t1 EXCEPT ![j].alerted = TRUE, ![j].code = 2] ELSE t1
             /\ UNCHANGED removed

\* RemoveAlarm and ForceRemoveAlarm with blockIfTriggered.
RemoveAlarm(u, a, force) ==
    /\ Call(u, IF force THEN "ForceRemoveAlarm" ELSE "RemoveAlarm")
    /\ a \in Removable
    /\ Free
    /\ \/ \* a stopped timer neither removes nor waits
          /\ ~isRunning /\ ~ExpireOnExit
          /\ UNCHANGED <<th, alarms, numLimitableAlarms, removed>>
       \/ /\ isRunning \/ ExpireOnExit
          /\ a \in alarms /\ Erase(a)
          /\ removed' = removed \cup OneShot({a})
          /\ UNCHANGED th
       \/ /\ isRunning \/ ExpireOnExit
          /\ a \notin alarms
          /\ Scan(u, {a}, 0, force, [th EXCEPT ![u].pc = "removeWait", ![u].arg = a, ![u].gone = {a}])
          /\ UNCHANGED <<alarms, numLimitableAlarms>>
    /\ UNCHANGED <<alarmTime, addWaitQueue, reentrancyLock, pool, now, added, starts>>

\* A call that waits for a handler looks again after Sleep(2).
RemoveWait(u) ==
    /\ u \in Users /\ th[u].pc = "removeWait"
    /\ Free
    /\ Scan(u, {th[u].arg}, th[u].idx, th[u].force, th)
    /\ UNCHANGED <<queue, reentrancyLock, pool, now, added, calls, starts>>

Of(l) == {a \in Removable : Listener[a] = l}

\* RemoveAlarmsWithListener: one round of its loop around RemoveAlarm(listener,
\* alarm).  The round that finds no alarm waits for the handlers and is the last.
RemoveAlarmsWithListener(u, l) ==
    /\ \/ Call(u, "RemoveAlarmsWithListener")
       \/ u \in Users /\ th[u].pc = "listener" /\ th[u].arg = l /\ UNCHANGED calls
    /\ Free
    /\ IF ~isRunning /\ ~ExpireOnExit
       THEN /\ th' = [th EXCEPT ![u].pc = "user", ![u].arg = None]
            /\ UNCHANGED <<alarms, numLimitableAlarms, removed>>
       ELSE IF Of(l) \cap alarms # {}
       THEN /\ Erase(CHOOSE a \in Of(l) : IsFirst(a, Of(l) \cap alarms))
            /\ th' = [th EXCEPT ![u].pc = "listener", ![u].arg = l]
            /\ UNCHANGED removed
       ELSE /\ Scan(u, Of(l), 0, FALSE, [th EXCEPT ![u].pc = "listenerWait", ![u].arg = l,
                                                  ![u].gone = Of(l)])
            /\ UNCHANGED <<alarms, numLimitableAlarms>>
    /\ UNCHANGED <<alarmTime, addWaitQueue, reentrancyLock, pool, now, added, starts>>

ListenerWait(u) ==
    /\ u \in Users /\ th[u].pc = "listenerWait"
    /\ Free
    /\ Scan(u, Of(th[u].arg), th[u].idx, FALSE, th)
    /\ UNCHANGED <<queue, reentrancyLock, pool, now, added, calls, starts>>

\* ReplaceAlarm calls AddAlarm with the lock held.
ReplaceAlarm(u, a, b) ==
    /\ Call(u, "ReplaceAlarm")
    /\ a \in Removable /\ b \in Alarms \ added /\ added' = added \cup {b}
    /\ lock = None
    /\ \/ /\ ~isRunning
          /\ UNCHANGED <<lock, th, alarms, numLimitableAlarms, addWaitQueue, removed>>
       \/ /\ isRunning /\ a \in alarms
          /\ removed' = removed \cup OneShot({a})
          /\ LET n == numLimitableAlarms - Weight(a)
                 full == MaxAlarms # 0 /\ b \in Limitable /\ n >= MaxAlarms
             IN  /\ alarms' = (alarms \ {a}) \cup (IF full THEN {} ELSE {b})
                 /\ numLimitableAlarms' = n + (IF full THEN 0 ELSE Weight(b))
                 /\ addWaitQueue' = IF full THEN <<u>> \o addWaitQueue ELSE addWaitQueue
                 /\ lock' = IF full THEN u ELSE None
                 /\ th' = IF full THEN [th EXCEPT ![u].pc = "addWait", ![u].arg = b]
                          ELSE IF /\ \A c \in alarms \ {a} : Before(b, c)
                                  /\ controllerIdx >= 0 /\ th[controllerIdx].state = "IDLE"
                          THEN [th EXCEPT ![controllerIdx].alerted = TRUE]
                          ELSE th
       \/ /\ isRunning /\ a \notin alarms
          /\ Scan(u, {a}, 0, FALSE, [th EXCEPT ![u].pc = "removeWait", ![u].arg = a, ![u].gone = {a}])
          /\ UNCHANGED <<lock, alarms, numLimitableAlarms, addWaitQueue>>
    /\ UNCHANGED <<alarmTime, reentrancyLock, pool, now, starts>>

\* Start of a timer whose former threads, if any, have been joined ...
Start(u) ==
    /\ u \in Users /\ th[u].pc = "user" /\ "Start" \in Menu
    /\ starts < MaxStarts /\ starts' = starts + 1
    /\ ~isRunning /\ \A t \in Slots : th[t].pc = "off" /\ ~th[t].stopping
    /\ \A v \in Users : th[v].pc # "starting"
    /\ Free
    /\ controllerIdx' = 0
    /\ th' = [th EXCEPT ![u].pc = "starting",
                        ![0] = [Idle("boot", "STARTING") EXCEPT !.code = th[0].code]]
    /\ UNCHANGED <<reentrancyLock, queue, isRunning, size, now, added, removed, calls>>

\* ... which waits for the first thread to come up; it is taken to do so within
\* the 5000 ms after which Start gives up with ER_FAIL.
Started(u) ==
    /\ u \in Users /\ th[u].pc = "starting"
    /\ th[0].state = "IDLE"
    /\ Free
    /\ isRunning' = TRUE
    /\ th' = [th EXCEPT ![u].pc = "user"]
    /\ UNCHANGED <<reentrancyLock, queue, controllerIdx, size, now, ghosts>>

\* Variant for mutation: sleeping threads are not woken.
StopSilent(u) ==
    /\ Call(u, "Stop")
    /\ \A v \in Users : th[v].pc # "starting"
    /\ Free
    /\ isRunning' = FALSE
    /\ th' = [p \in Procs |-> IF p \in Slots /\ th[p].state # "NULL"
                              THEN [th[p] EXCEPT !.stopping = TRUE] ELSE th[p]]
    /\ UNCHANGED <<queue, reentrancyLock, controllerIdx, size, now, added, removed, starts>>

\* Stop: every thread is told to stop, whoever waits in AddAlarm is woken.
Stop(u) ==
    /\ Call(u, "Stop")
    /\ \A v \in Users : th[v].pc # "starting"
    /\ Free
    /\ isRunning' = FALSE
    /\ th' = [p \in Procs |->
                IF p \in Slots /\ th[p].state # "NULL" THEN
                    [th[p] EXCEPT !.stopping = TRUE, !.alerted = TRUE,
                                  !.code = IF \E i \in 1..Len(addWaitQueue) : addWaitQueue[i] = p
                                           THEN 1 ELSE @]
                ELSE IF \E i \in 1..Len(addWaitQueue) : addWaitQueue[i] = p THEN
                    [th[p] EXCEPT !.alerted = TRUE, !.code = 1]
                ELSE th[p]]
    /\ UNCHANGED <<queue, reentrancyLock, controllerIdx, size, now, added, removed, starts>>

\* Join, after Stop: blocks until the threads of the pool are gone.
Join(u) ==
    /\ Call(u, "Join")
    /\ ~isRunning /\ \A v \in Users : th[v].pc # "starting"
    /\ \A t \in Slots : th[t].pc = "off"
    /\ Free
    /\ th' = [p \in Procs |-> IF p \in Slots THEN [th[p] EXCEPT !.stopping = FALSE, !.alerted = FALSE]
                              ELSE th[p]]
    /\ UNCHANGED <<queue, reentrancyLock, pool, now, added, removed, starts>>

Tick ==
    /\ now < MaxTime /\ now' = now + 1
    /\ UNCHANGED <<lock, reentrancyLock, queue, pool, th, ghosts>>

-----------------------------------------------------------------------------
Init ==
    /\ lock = None /\ reentrancyLock = None
    /\ alarms = {} /\ alarmTime = When /\ numLimitableAlarms = 0 /\ addWaitQueue = << >>
    /\ controllerIdx = 0 /\ isRunning = FALSE
    /\ size = IF Concurrency = 0 THEN 1 ELSE Concurrency
    /\ th = [p \in Procs |-> IF p \in Users THEN Idle("user", "user") ELSE Idle("off", "NULL")]
    /\ now = 0
    /\ added = {} /\ removed = {} /\ calls = 0 /\ starts = 0

\* What a thread of the pool does by itself.
ThreadStep(t) ==
    \/ RunInternal(t) \/ Leave(t)
    \/ LoopDue(t) \/ LoopController(t) \/ LoopWorker(t)
    \/ Reap(t) \/ ReapDone(t) \/ WaitReturns(t) \/ ReapWoke(t) \/ Slept(t) \/ Idled(t)
    \/ Claim(t) \/ Dispatch(t) \/ DispatchGone(t) \/ HandlerReturns(t) \/ Returned(t)
    \/ ThreadExit(t)
    \/ AddAlarmWoken(t)

\* What goes on inside a call of a user.
UserStep(u) ==
    \/ AddAlarmWoken(u) \/ RemoveWait(u) \/ ListenerWait(u) \/ Started(u)
    \/ th[u].pc = "listener" /\ RemoveAlarmsWithListener(u, th[u].arg)

UserCall(u) ==
    \/ \E a \in Alarms : AddAlarmNonBlocking(u, a) \/ \E b \in Alarms : ReplaceAlarm(u, a, b)
    \/ \E a \in Alarms, force \in BOOLEAN : RemoveAlarm(u, a, force)
    \/ \E a \in Alarms : RemoveAlarmsWithListener(u, Listener[a])
    \/ Start(u) \/ Stop(u) \/ Join(u)

Next ==
    \/ \E t \in Slots : ThreadStep(t) \/ EnableReentrancy(t)
    \/ \E p \in Procs, a \in Alarms : AddAlarm(p, a)
    \/ \E u \in Users : UserStep(u) \/ UserCall(u)
    \/ Tick

Spec == Init /\ [][Next]_vars

\* Threads are scheduled and mutexes do not starve them; handlers return; the
\* clock goes on.  Nobody has to call anything.
Fairness ==
    /\ \A t \in Slots : SF_vars(ThreadStep(t))
    /\ \A u \in Users : SF_vars(UserStep(u))
    /\ WF_vars(Tick)

LiveSpec == Spec /\ Fairness

-----------------------------------------------------------------------------
(* Properties.                                                             *)

\* Type invariant.
TypeOK ==
    /\ lock \in Procs \cup {None} /\ reentrancyLock \in Slots \cup {None}
    /\ alarms \subseteq added /\ added \subseteq Alarms /\ removed \subseteq added
    /\ alarmTime \in [Alarms -> Nat] /\ numLimitableAlarms \in Nat
    /\ addWaitQueue \in Seq(Procs)
    /\ controllerIdx \in Slots \cup {-1} /\ isRunning \in BOOLEAN /\ size \in 1..MaxSlots
    /\ \A p \in Procs : th[p].cur \in Alarms \cup {None}

\* numLimitableAlarms, which decides who has to wait, is the number of pending
\* alarms that count, whichever of the eight operations took them in or out.
CountMatches == numLimitableAlarms = Cardinality(alarms \cap Limitable)

\* A sleeping controller that has not been alerted sleeps for ever only when
\* there is no alarm, and else not longer than until the first alarm.
NoLostWakeup ==
    \A t \in Slots : th[t].pc = "sleep" /\ controllerIdx = t /\ ~th[t].alerted =>
        IF th[t].top = None THEN alarms = {}
        ELSE \A a \in alarms : th[t].seen <= alarmTime[a]

\* While the timer runs, controllerIdx names a thread that exists and lives:
\* AddAlarm dereferences it, and nobody else would wake up for an alarm.
ControllerLives ==
    isRunning /\ controllerIdx >= 0 =>
        th[controllerIdx].state \in {"STARTING", "IDLE", "RUNNING"}

\* Once a blocking removal of an alarm has returned, its handler is not
\* running and will not run: the caller may free the listener.
RemovedIsOver == \A a \in removed : a \notin alarms /\ \A t \in Slots : th[t].cur # a

\* RemoveAlarm "must not return until this alarm is finished" (Timer.cc:511).
\* With ~ExpireOnExit it does, on a timer that has been stopped: see TimerStopped.cfg.
RemovalBlocks ==
    [][\A u \in Users, a \in Alarms, force \in BOOLEAN :
            RemoveAlarm(u, a, force) /\ th'[u].pc = "user" => \A t \in Slots : th[t].cur # a]_vars

\* A periodic alarm is not run before its time has come again.
NotEarly == [][\A t \in Slots : th[t].cur # th'[t].cur /\ th'[t].pc = "handler"
                    => alarmTime[th'[t].cur] <= now]_vars

\* The calls of the users are bounded, so "whenever P, later Q" is said of the
\* end of a behaviour: from some point on there is no P that waits for its Q.

\* Every alarm that is due is taken up, as long as the timer runs.
AlarmsFire == <>[](\A a \in Alarms : a \in alarms /\ isRunning => ~Due(a))

\* A thread that was told to stop ends.
ThreadsEnd == <>[](\A t \in Slots : th[t].stopping => th[t].pc = "off")

\* Start and the removals, which wait for threads of the pool, return.
CallsReturn == <>[](\A u \in Users : th[u].pc \in {"user", "addWait"})

\* A thread that waits in AddAlarm for the set to become not full gets through.
AddersReturn == <>[](\A p \in Procs : th[p].pc # "addWait")

\* The same as long as alarms only leave the set by being run.
AddersReturnIfFired == <>[](removed = {} => \A p \in Procs : th[p].pc # "addWait")
=============================================================================
