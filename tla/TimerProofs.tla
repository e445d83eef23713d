---------------------------- MODULE TimerProofs ----------------------------
(***************************************************************************)
(* What the timer promises, for every number of threads, users and alarms, *)
(* and every limit and option.                                             *)
(*                                                                         *)
(* The inductive invariant says of every thread which states go with the   *)
(* place it is at (SlotOK, UserOK), and of every alarm that it is in at    *)
(* most one place: in the set, in a handler, or with a caller who waits in *)
(* AddAlarm (Places).                                                      *)
(***************************************************************************)
EXTENDS Timer, TLAPS, FiniteSetTheorems, SequenceTheorems, WellFoundedInduction

-----------------------------------------------------------------------------
(* The inductive invariant.                                                *)

ExitPcs  == {"exit", "exitClaim", "exitHandler"}
WatchPcs == {"reap", "reapWait", "reapWoke", "sleep"}
RunPcs   == {"claim", "dispatch", "handler", "returned"}
SlotPcs  == ExitPcs \cup WatchPcs \cup RunPcs
                \cup {"off", "boot", "loop", "idle", "idled", "addWait"}
UserPcs  == {"user", "starting", "addWait", "removeWait", "listener", "listenerWait"}
States   == {"NULL", "STARTING", "IDLE", "RUNNING", "STOPPING", "STOPPED"}

\* A thread.  The argument of a call is an alarm or a listener.
Thread ==
    [pc : SlotPcs \cup UserPcs, alerted : BOOLEAN, code : {0, 1, 2},
     state : States \cup {"user"}, stopping : BOOLEAN,
     cur : Alarms \cup {None}, top : Alarms \cup {None}, ctl : BOOLEAN, seen : Nat,
     status : {"TIMEOUT", "ALERTED"}, idx : Nat,
     arg : Alarms \cup {None} \cup {Listener[a] : a \in Alarms}, force : BOOLEAN,
     gone : SUBSET Alarms]

Types ==
    /\ lock \in Procs \cup {None} /\ reentrancyLock \in Slots \cup {None}
    /\ alarms \subseteq added /\ added \subseteq Alarms /\ removed \subseteq added
    /\ alarmTime \in [Alarms -> Nat] /\ addWaitQueue \in Seq(Procs)
    /\ controllerIdx \in Slots \cup {-1} /\ isRunning \in BOOLEAN /\ size \in 1..MaxSlots
    /\ th \in [Procs -> Thread] /\ now \in Nat

\* The states a thread of the pool may be in at a place in the code.
StatesAt(pc) ==
    CASE pc = "off" -> {"NULL", "STOPPED"}
      [] pc = "boot" -> {"STARTING"}
      [] pc = "loop" -> {"STARTING", "IDLE", "RUNNING"}
      [] pc \in WatchPcs \cup {"idle", "idled"} -> {"IDLE"}
      [] pc \in RunPcs \cup {"addWait"} -> {"RUNNING"}
      [] OTHER -> {"STARTING", "STOPPING"}

\* A handler is running, or waits in AddAlarm: the alarm is the one chosen.
InHandler(t) ==
    \/ th[t].pc \in {"handler", "returned"}
    \/ th[t].pc = "addWait" /\ lock # t

\* A thread of the pool.
SlotOK(t) ==
    /\ th[t].pc \in SlotPcs /\ th[t].state \in StatesAt(th[t].pc)
    /\ th[t].pc \in {"claim", "dispatch"} => th[t].top \in Alarms
    /\ InHandler(t) => th[t].cur = th[t].top /\ th[t].top \in Alarms
    /\ th[t].pc = "addWait" => th[t].arg \in Alarms
    /\ th[t].state = "NULL" => th[t].cur = None
    /\ t >= size => th[t].pc = "off" /\ th[t].cur = None
    /\ th[t].stopping => ~isRunning
    /\ th[t].pc \in {"exitClaim", "exitHandler"} => ~isRunning
    /\ th[t].pc \in {"idle", "idled"} => controllerIdx # t
    /\ th[t].pc \in ExitPcs \cup {"off"} /\ isRunning => controllerIdx # t

\* From Start to the first thread's coming up the pool has no other thread.
Booting ==
    /\ ~isRunning /\ controllerIdx \in {0, -1}
    /\ \A t \in Slots : ~th[t].stopping /\ (t # 0 => th[t].pc = "off")
    /\ th[0].pc \in {"boot", "loop"} \cup WatchPcs \cup RunPcs

Runs(p, a)  == th[p].cur = a
Waits(p, a) == th[p].pc = "addWait" /\ th[p].arg = a

\* A one-shot alarm that is not in the set and will not come back.
Gone(a) ==
    a \in added /\ a \notin alarms /\ Period[a] = 0 /\ \A p \in Procs : ~Waits(p, a)

\* A user.  One who waits for handlers has looked at the slots below idx.
UserOK(u) ==
    /\ th[u].pc \in UserPcs /\ th[u].state = "user" /\ th[u].cur = None
    /\ th[u].pc = "starting" => Booting /\ \A v \in Users : th[v].pc = "starting" => v = u
    /\ th[u].pc \in {"addWait", "removeWait"} => th[u].arg \in Alarms
    /\ th[u].pc = "removeWait" => th[u].gone = {th[u].arg}
    /\ th[u].pc = "listenerWait" => \A a \in th[u].gone : Listener[a] = th[u].arg
    /\ th[u].pc \in {"removeWait", "listenerWait"} =>
           \A a \in OneShot(th[u].gone) :
               Gone(a) /\ \A t \in Slots : t < th[u].idx => ~Runs(t, a)

\* An alarm is in one place at a time.
Places ==
    \A p \in Procs, a \in Alarms : Runs(p, a) \/ Waits(p, a) =>
        /\ a \in added \ alarms
        /\ ~(Runs(p, a) /\ Waits(p, a))
        /\ \A q \in Procs : Runs(q, a) \/ Waits(q, a) => q = p

Over == \A a \in removed : Gone(a) /\ \A p \in Procs : ~Runs(p, a)

\* What a controller that is about to sleep, or sleeps, knows of the alarms;
\* it does while no periodic alarm changes its time behind its back.
Watch(t) ==
    th[t].pc \in WatchPcs /\ controllerIdx = t /\ ~th[t].alerted =>
        IF th[t].top = None THEN alarms = {}
        ELSE \A a \in alarms : IF th[t].pc = "sleep" THEN th[t].seen <= alarmTime[a]
                               ELSE alarmTime[th[t].top] <= alarmTime[a]

NoPeriods == \A a \in Alarms : Period[a] = 0

IInv ==
    /\ Types /\ CountMatches /\ Places /\ Over
    /\ \A t \in Slots : SlotOK(t)
    /\ \A u \in Users : UserOK(u)
    /\ NoPeriods => \A t \in Slots : Watch(t)

-----------------------------------------------------------------------------
(* Least elements.                                                         *)

\* Every nonempty set of numbers has a least one.
LEMMA LeastExists ==
    ASSUME NEW S \in SUBSET Nat, S # {}
    PROVE  \E x \in S : \A y \in S : x <= y
<1> DEFINE R == {ss \in Nat \X Nat : ss[1] < ss[2]}
<1>1. \A x, y \in Nat : x < y => <<x, y>> \in R
  OBVIOUS
<1>2. IsWellFoundedOn(R, Nat)
  BY NatLessThanWellFounded DEF OpToRel
<1> HIDE DEF R
<1>3. PICK x \in S : \A y \in S : ~(<<y, x>> \in R)
  BY <1>2, WFMin
<1>4. \A y \in S : x <= y
  <2> TAKE y \in S
  <2>1. ~(<<y, x>> \in R)
    BY <1>3
  <2>2. ~(y < x)
    BY <1>1, <2>1
  <2> QED BY <2>2
<1> QED BY <1>3, <1>4

LEMMA LeastIn ==
    ASSUME NEW S \in SUBSET Nat, S # {}
    PROVE  Least(S) \in S /\ \A y \in S : Least(S) <= y
BY LeastExists DEF Least

LEMMA GreatestIn ==
    ASSUME NEW n \in Nat, NEW S \in SUBSET (0..n), S # {}
    PROVE  Greatest(S) \in S
<1> DEFINE D == {n - i : i \in S}
<1>1. PICK d \in D : \A e \in D : d <= e
  <2>1. D \in SUBSET Nat
    <3>1. \A i \in S : n - i \in Nat
      OBVIOUS
    <3> QED BY <3>1
  <2>2. D # {}
    OBVIOUS
  <2> HIDE DEF D
  <2> QED BY <2>1, <2>2, LeastExists
<1>2. PICK i \in S : d = n - i
  BY <1>1
<1>3. \A j \in S : j <= i
  <2> TAKE j \in S
  <2>1. d <= n - j
    BY <1>1
  <2> QED BY <1>2, <2>1
<1> QED BY <1>3 DEF Greatest

\* operator< of _Alarm orders every nonempty set of alarms: begin() is there.
LEMMA FirstExists ==
    ASSUME alarmTime \in [Alarms -> Nat], NEW S \in SUBSET Alarms, S # {}
    PROVE  \E a \in S : IsFirst(a, S)
<1> DEFINE Times == {alarmTime[a] : a \in S}
<1>1. PICK w \in Times : \A v \in Times : w <= v
  <2>1. Times \in SUBSET Nat /\ Times # {}
    OBVIOUS
  <2> HIDE DEF Times
  <2> QED BY <2>1, LeastExists
<1> DEFINE Firsts == {a \in S : alarmTime[a] = w}
<1>2. PICK a \in Firsts : \A b \in Firsts : a <= b
  <2>1. Firsts \in SUBSET Nat /\ Firsts # {}
    BY TimerAssumption
  <2> HIDE DEF Firsts
  <2> QED BY <2>1, LeastExists
<1>3. a \in S /\ alarmTime[a] = w /\ w \in Nat
  OBVIOUS
<1>4. ASSUME NEW b \in S, b # a PROVE Before(a, b)
  <2>1. w <= alarmTime[b] /\ alarmTime[b] \in Nat
    BY <1>1
  <2>2. CASE w < alarmTime[b]
    BY <1>3, <2>2 DEF Before
  <2>3. CASE w = alarmTime[b]
    <3>1. a <= b
      BY <1>2, <2>3
    <3> QED BY <1>3, <1>4, <2>3, <3>1, TimerAssumption DEF Before
  <2> QED BY <1>3, <2>1, <2>2, <2>3
<1> QED BY <1>3, <1>4 DEF IsFirst

LEMMA FirstIn ==
    ASSUME Types, alarms # {}
    PROVE  /\ First \in alarms /\ First \in Alarms
           /\ \A a \in alarms : alarmTime[First] <= alarmTime[a]
<1>1. \E a \in alarms : IsFirst(a, alarms)
  BY FirstExists DEF Types
<1>2. First \in alarms /\ IsFirst(First, alarms)
  BY <1>1 DEF First
<1>3. ASSUME NEW a \in alarms PROVE alarmTime[First] <= alarmTime[a]
  BY <1>2, <1>3 DEF IsFirst, Before, Types
<1> QED BY <1>2, <1>3 DEF Types

\* The thread chosen to take over is another one, or a new one.
LEMMA SuccessorOK ==
    ASSUME Types, NEW t \in Slots, t < size, Successor(t) # None
    PROVE  /\ Successor(t) \in Slots /\ Successor(t) # t
           /\ Successor(t) < size => th[Successor(t)].state \in {"IDLE", "STOPPED", "NULL"}
           /\ ~(Successor(t) < size) => Successor(t) = size /\ size < MaxSlots
<1>1. size \in 1..MaxSlots /\ MaxSlots \in Nat /\ t \in 0..(size - 1)
  BY TimerAssumption DEF Types, Slots
<1>2. ASSUME NEW st, In(t, st) # {}
      PROVE  /\ Least(In(t, st)) \in In(t, st)
             /\ Greatest(In(t, st)) \in In(t, st)
  <2>1. In(t, st) \in SUBSET (0..(size - 1)) /\ In(t, st) \in SUBSET Nat /\ size - 1 \in Nat
    BY <1>1 DEF In, Others
  <2> QED BY <1>2, <2>1, LeastIn, GreatestIn
<1>3. ASSUME NEW st, NEW s \in In(t, st)
      PROVE  s \in Slots /\ s # t /\ s < size /\ th[s].state \in st
  BY <1>1, <1>3 DEF In, Others, Slots
<1>4. CASE In(t, {"IDLE"}) # {}
  <2>1. Successor(t) \in In(t, {"IDLE"})
    BY <1>2, <1>4 DEF Successor
  <2> QED BY <1>3, <2>1
<1>5. CASE In(t, {"IDLE"}) = {} /\ In(t, {"STOPPED"}) # {}
  <2>1. Successor(t) \in In(t, {"STOPPED"})
    BY <1>2, <1>5 DEF Successor
  <2> QED BY <1>3, <2>1
<1>6. CASE In(t, {"IDLE"}) = {} /\ In(t, {"STOPPED"}) = {} /\ In(t, {"NULL"}) # {}
  <2>1. Successor(t) \in In(t, {"NULL"})
    BY <1>2, <1>6 DEF Successor
  <2> QED BY <1>3, <2>1
<1>7. CASE In(t, {"IDLE"}) = {} /\ In(t, {"STOPPED"}) = {} /\ In(t, {"NULL"}) = {}
  <2>1. Successor(t) = size /\ size < MaxSlots
    BY <1>7 DEF Successor
  <2> QED BY <1>1, <2>1 DEF Slots
<1> QED BY <1>4, <1>5, <1>6, <1>7

-----------------------------------------------------------------------------
(* What an action of one thread leaves to the others.                      *)

LEMMA ProcsApart ==
    /\ None \notin Procs /\ None \notin Alarms /\ -1 \notin Procs
    /\ \A t \in Slots : t \notin Users /\ t \in Nat
    /\ 0 \in Slots /\ 0 \in Procs
BY TimerAssumption DEF Procs, Slots, None

\* Thread q is at most alerted.
Kept(q) ==
    /\ th'[q].pc = th[q].pc /\ th'[q].state = th[q].state /\ th'[q].stopping = th[q].stopping
    /\ th'[q].cur = th[q].cur /\ th'[q].top = th[q].top /\ th'[q].seen = th[q].seen
    /\ th'[q].idx = th[q].idx /\ th'[q].arg = th[q].arg /\ th'[q].gone = th[q].gone
    /\ th[q].alerted => th'[q].alerted

\* Slot s is started, or its stopped thread deleted.
Fresh(s) ==
    /\ s \in Slots /\ isRunning /\ s < size'
    /\ th'[s].cur = None /\ ~th'[s].stopping
    /\ \/ th'[s].pc = "boot" /\ th'[s].state = "STARTING"
       \/ th'[s].pc = "off" /\ th'[s].state = "NULL" /\ th[s].pc = "off"

\* An idle controller is alerted about alarm a, or has an earlier one to wake up for.
Announced(a) ==
    controllerIdx \in Slots /\ th[controllerIdx].state = "IDLE" =>
        th'[controllerIdx].alerted \/ \E b \in alarms : alarmTime[b] <= alarmTime[a]

\* What an action of p does to the others and to what all share.
Frame(p) ==
    /\ \A q \in Procs \ {p} : Kept(q) \/ Fresh(q)
    /\ \A q \in Procs \ {p} : lock' # q => lock # q
    /\ \A q \in Procs \ {p} : controllerIdx' = q => controllerIdx = q
    /\ isRunning' = isRunning /\ size <= size' /\ added \subseteq added'
    /\ th'[p].pc = "starting" => th[p].pc = "starting"
    /\ NoPeriods => alarmTime' = alarmTime /\ \A a \in alarms' \ alarms : Announced(a)

\* Where p moves alarm x, if it does.
Moves(p, x) ==
    /\ \A a \in Alarms \ {x} :
           /\ a \in alarms' => a \in alarms
           /\ Runs(p, a)' => Runs(p, a)
           /\ Waits(p, a)' => Waits(p, a)
    /\ x \in Alarms =>
           /\ ~Gone(x) /\ x \in added'
           /\ \A q \in Procs \ {p} : ~Runs(q, x) /\ ~Waits(q, x)
           /\ Runs(p, x)' \/ Waits(p, x)' => x \notin alarms'
           /\ ~(Runs(p, x)' /\ Waits(p, x)')

\* Of another process than p, what runs or waits did before.
LEMMA OthersHave ==
    ASSUME IInv, NEW p \in Procs, Frame(p), NEW q \in Procs \ {p}, NEW a \in Alarms
    PROVE  (Runs(q, a)' => Runs(q, a)) /\ (Waits(q, a)' => Waits(q, a))
<1>1. CASE Kept(q)
  BY <1>1 DEF Kept, Runs, Waits
<1>2. CASE Fresh(q)
  BY <1>2, ProcsApart DEF Fresh, Runs, Waits
<1> QED BY <1>1, <1>2 DEF Frame

LEMMA PlacesKept ==
    ASSUME IInv, NEW p \in Procs, NEW x, Frame(p), Moves(p, x)
    PROVE  Places'
<1> SUFFICES ASSUME NEW q \in Procs, NEW a \in Alarms, (Runs(q, a) \/ Waits(q, a))'
             PROVE  /\ a \in added' \ alarms'
                    /\ ~(Runs(q, a)' /\ Waits(q, a)')
                    /\ \A r \in Procs : Runs(r, a)' \/ Waits(r, a)' => r = q
  BY DEF Places
<1>1. CASE a = x
  <2>1. \A r \in Procs : Runs(r, a)' \/ Waits(r, a)' => r = p
    BY <1>1, OthersHave DEF Moves
  <2> QED BY <1>1, <2>1 DEF Moves
<1>2. CASE a # x
  <2>1. \A r \in Procs : (Runs(r, a)' => Runs(r, a)) /\ (Waits(r, a)' => Waits(r, a))
    BY <1>2, OthersHave DEF Moves
  <2>2. /\ a \in added \ alarms
        /\ ~(Runs(q, a) /\ Waits(q, a))
        /\ \A r \in Procs : Runs(r, a) \/ Waits(r, a) => r = q
    BY <2>1 DEF IInv, Places
  <2>3. added \subseteq added' /\ (a \in alarms' => a \in alarms)
    BY <1>2 DEF Frame, Moves
  <2> QED BY <2>1, <2>2, <2>3
<1> QED BY <1>1, <1>2

\* An alarm that is gone stays gone, and is not taken up again.
LEMMA GoneStays ==
    ASSUME IInv, NEW p \in Procs, NEW x, Frame(p), Moves(p, x), NEW a \in Alarms, Gone(a)
    PROVE  Gone(a)' /\ \A q \in Procs : Runs(q, a)' => Runs(q, a)
<1>1. a # x
  BY DEF Moves
<1>2. \A r \in Procs : (Runs(r, a)' => Runs(r, a)) /\ (Waits(r, a)' => Waits(r, a))
  BY <1>1, OthersHave DEF Moves
<1>3. a \in added' /\ a \notin alarms'
  BY <1>1 DEF Gone, Frame, Moves
<1> QED BY <1>2, <1>3 DEF Gone

LEMMA OverKept ==
    ASSUME IInv, NEW p \in Procs, NEW x, Frame(p), Moves(p, x),
           \A a \in removed' \ removed : Gone(a)' /\ \A q \in Procs : ~Runs(q, a)'
    PROVE  Over'
<1> SUFFICES ASSUME NEW a \in removed'
             PROVE  Gone(a)' /\ \A q \in Procs : ~Runs(q, a)'
  BY DEF Over
<1>1. CASE a \in removed
  <2>1. Gone(a) /\ a \in Alarms /\ \A q \in Procs : ~Runs(q, a)
    BY <1>1 DEF IInv, Over, Types
  <2> QED BY <2>1, GoneStays
<1> QED BY <1>1

LEMMA SlotKept ==
    ASSUME IInv, NEW p \in Procs, Frame(p), NEW t \in Slots, t # p, Types'
    PROVE  SlotOK(t)' /\ (NoPeriods => Watch(t)')
<1>1. /\ t \in Procs \ {p} /\ SlotOK(t) /\ (NoPeriods => Watch(t)) /\ t \in Nat
      /\ size \in Nat /\ size' \in Nat /\ size <= size'
      /\ (lock' # t => lock # t) /\ (controllerIdx' = t => controllerIdx = t)
      /\ isRunning' = isRunning
  BY TimerAssumption DEF IInv, Types, Frame, Procs, Slots
<1>2. CASE Kept(t)
  <2>1. SlotOK(t)'
    BY <1>1, <1>2 DEF Kept, SlotOK, InHandler
  <2>2. ASSUME NoPeriods PROVE Watch(t)'
    <3>1. alarmTime' = alarmTime /\ (\A a \in alarms' \ alarms : Announced(a)) /\ Watch(t)
      BY <1>1, <2>2 DEF Frame
    <3>2. th[t].pc \in WatchPcs => th[t].state = "IDLE"
      BY <1>1 DEF SlotOK, StatesAt, WatchPcs, RunPcs
    <3>3. SUFFICES ASSUME th'[t].pc \in WatchPcs, controllerIdx' = t, ~th'[t].alerted
                   PROVE  IF th[t].top = None THEN alarms' = {}
                          ELSE \A a \in alarms' :
                                 IF th[t].pc = "sleep" THEN th[t].seen <= alarmTime[a]
                                 ELSE alarmTime[th[t].top] <= alarmTime[a]
      BY <1>2, <3>1 DEF Watch, Kept
    <3>4. /\ th[t].pc \in WatchPcs /\ controllerIdx = t /\ ~th[t].alerted
          /\ th[t].state = "IDLE"
      BY <1>1, <1>2, <3>2, <3>3 DEF Kept
    <3>5. IF th[t].top = None THEN alarms = {}
          ELSE \A a \in alarms : IF th[t].pc = "sleep" THEN th[t].seen <= alarmTime[a]
                                 ELSE alarmTime[th[t].top] <= alarmTime[a]
      BY <3>1, <3>4 DEF Watch
    <3>6. \A a \in alarms' \ alarms : \E b \in alarms : alarmTime[b] <= alarmTime[a]
      BY <3>1, <3>3, <3>4 DEF Announced
    <3>7. /\ \A a \in Alarms : alarmTime[a] \in Nat
          /\ alarms' \subseteq Alarms /\ alarms \subseteq Alarms
          /\ th[t].seen \in Nat /\ th[t].top \in Alarms \cup {None}
      BY <1>1 DEF IInv, Types, Thread
    <3>8. CASE th[t].top = None
      BY <3>5, <3>6, <3>8
    <3>9. CASE th[t].top # None
      <4> SUFFICES ASSUME NEW a \in alarms'
                   PROVE  IF th[t].pc = "sleep" THEN th[t].seen <= alarmTime[a]
                          ELSE alarmTime[th[t].top] <= alarmTime[a]
        BY <3>9
      <4>1. CASE a \in alarms
        BY <3>5, <3>9, <4>1
      <4>2. CASE a \notin alarms
        <5>1. PICK b \in alarms : alarmTime[b] <= alarmTime[a]
          BY <3>6, <4>2
        <5>2. IF th[t].pc = "sleep" THEN th[t].seen <= alarmTime[b]
              ELSE alarmTime[th[t].top] <= alarmTime[b]
          BY <3>5, <3>9
        <5>3. /\ alarmTime[a] \in Nat /\ alarmTime[b] \in Nat /\ th[t].seen \in Nat
              /\ alarmTime[th[t].top] \in Nat
          BY <3>7, <3>9
        <5> QED BY <5>1, <5>2, <5>3
      <4> QED BY <4>1, <4>2
    <3> QED BY <3>8, <3>9
  <2> QED BY <2>1, <2>2
<1>3. CASE Fresh(t)
  <2>1. SlotOK(t)'
    BY <1>1, <1>3, ProcsApart DEF Fresh, SlotOK, InHandler, SlotPcs, StatesAt, ExitPcs, WatchPcs, RunPcs
  <2>2. Watch(t)'
    BY <1>3 DEF Fresh, Watch, WatchPcs
  <2> QED BY <2>1, <2>2
<1> QED BY <1>1, <1>2, <1>3 DEF Frame

LEMMA UserKept ==
    ASSUME IInv, NEW p \in Procs, NEW x, Frame(p), Moves(p, x), NEW u \in Users, u # p,
           th[u].pc = "starting" => Booting'
    PROVE  UserOK(u)'
<1>1. u \in Procs /\ u \notin Slots /\ UserOK(u)
  BY ProcsApart DEF IInv, Procs
<1>2. Kept(u)
  BY <1>1 DEF Frame, Fresh
<1>3. ASSUME th[u].pc = "starting", NEW v \in Users, th'[v].pc = "starting" PROVE v = u
  <2>1. v \in Procs /\ v \notin Slots
    BY ProcsApart DEF Procs
  <2>2. th[v].pc = "starting"
    BY <1>3, <2>1 DEF Frame, Fresh, Kept
  <2> QED BY <1>1, <1>3, <2>2 DEF UserOK
<1>4. ASSUME th[u].pc \in {"removeWait", "listenerWait"}, NEW a \in OneShot(th[u].gone)
      PROVE  Gone(a)' /\ \A t \in Slots : t < th[u].idx => ~Runs(t, a)'
  <2>1. Gone(a) /\ (\A t \in Slots : t < th[u].idx => ~Runs(t, a)) /\ a \in Alarms
    BY <1>1, <1>4 DEF UserOK, Gone, IInv, Types
  <2>2. Gone(a)' /\ \A q \in Procs : Runs(q, a)' => Runs(q, a)
    BY <2>1, GoneStays
  <2> QED BY <2>1, <2>2 DEF Procs
<1>5. OneShot(th[u].gone)' = OneShot(th[u].gone)
  BY <1>2 DEF Kept, OneShot
<1>6. /\ th'[u].pc \in UserPcs /\ th'[u].state = "user" /\ th'[u].cur = None
      /\ th'[u].pc = "starting" => Booting' /\ \A v \in Users : th'[v].pc = "starting" => v = u
      /\ th'[u].pc \in {"addWait", "removeWait"} => th'[u].arg \in Alarms
      /\ th'[u].pc = "removeWait" => th'[u].gone = {th'[u].arg}
      /\ th'[u].pc = "listenerWait" => \A a \in th'[u].gone : Listener[a] = th'[u].arg
  BY <1>1, <1>2, <1>3 DEF Kept, UserOK
<1>7. ASSUME th'[u].pc \in {"removeWait", "listenerWait"}, NEW a \in OneShot(th'[u].gone)
      PROVE  Gone(a)' /\ \A t \in Slots : t < th'[u].idx => ~Runs(t, a)'
  BY <1>2, <1>4, <1>5, <1>7 DEF Kept
<1> QED BY <1>6, <1>7 DEF UserOK

\* One step of process p that may move alarm x: what is left to show is about
\* p itself.
LEMMA StepKeeps ==
    ASSUME IInv, NEW p \in Procs, NEW x, Frame(p), Moves(p, x), Types', CountMatches',
           \A a \in removed' \ removed : Gone(a)' /\ \A q \in Procs : ~Runs(q, a)',
           (\E u \in Users : th[u].pc = "starting") => Booting',
           p \in Slots => SlotOK(p)' /\ (NoPeriods => Watch(p)'),
           p \in Users => UserOK(p)'
    PROVE  IInv'
<1>1. Places' /\ Over'
  BY PlacesKept, OverKept
<1>2. \A t \in Slots : SlotOK(t)' /\ (NoPeriods => Watch(t)')
  BY SlotKept
<1>3. \A u \in Users : UserOK(u)'
  BY UserKept
<1>4. NoPeriods' = NoPeriods
  BY DEF NoPeriods
<1> QED BY <1>1, <1>2, <1>3, <1>4 DEF IInv

\* Only the first thread does anything while the timer starts.
LEMMA BootKeptSlot ==
    ASSUME IInv, NEW p \in Slots, Frame(p), \E u \in Users : th[u].pc = "starting",
           th[p].pc # "off", ~th'[p].stopping,
           th'[p].pc \in {"boot", "loop"} \cup WatchPcs \cup RunPcs,
           controllerIdx' \in {p, -1, controllerIdx}
    PROVE  Booting'
<1>1. Booting /\ p = 0 /\ p \in Procs
  BY DEF IInv, UserOK, Booting, Procs
<1>2. ASSUME NEW t \in Slots, t # 0 PROVE th'[t].pc = "off" /\ ~th'[t].stopping
  BY <1>1, <1>2 DEF Frame, Booting, Kept, Fresh, Procs
<1> QED BY <1>1, <1>2 DEF Booting, Frame

LEMMA BootKeptUser ==
    ASSUME IInv, NEW p \in Users, Frame(p), \E u \in Users : th[u].pc = "starting",
           controllerIdx' = controllerIdx
    PROVE  Booting'
<1>1. Booting /\ p \in Procs
  BY DEF IInv, UserOK, Procs
<1>2. ASSUME NEW t \in Slots
      PROVE  th'[t].pc = th[t].pc /\ th'[t].stopping = th[t].stopping
  <2>1. t \in Procs \ {p}
    BY ProcsApart DEF Procs
  <2> QED BY <1>1, <2>1 DEF Frame, Booting, Kept, Fresh
<1> QED BY <1>1, <1>2, ProcsApart DEF Booting, Frame

-----------------------------------------------------------------------------
(* numLimitableAlarms.                                                     *)

LEMMA LimitableFinite ==
    ASSUME Types
    PROVE  IsFiniteSet(alarms \cap Limitable) /\ Cardinality(alarms \cap Limitable) \in Nat
<1>1. (alarms \cap Limitable) \subseteq Alarms
  BY DEF Types
<1> QED BY <1>1, TimerAssumption, FS_Subset, FS_CardinalityType

LEMMA CountErase ==
    ASSUME Types, CountMatches, NEW x \in alarms, Erase(x)
    PROVE  CountMatches'
<1> DEFINE S == alarms \cap Limitable
<1>1. IsFiniteSet(S) /\ Cardinality(S) \in Nat
  BY LimitableFinite
<1>2. CASE x \in Limitable
  <2>1. (alarms \cap Limitable)' = S \ {x} /\ x \in S
    BY <1>2 DEF Erase
  <2>2. Cardinality(S \ {x}) = Cardinality(S) - 1
    BY <1>1, <2>1, FS_RemoveElement
  <2>3. Cardinality((alarms \cap Limitable)') = Cardinality(S \ {x})
    BY <2>1, Zenon
  <2> QED BY <1>1, <1>2, <2>2, <2>3 DEF CountMatches, Erase, Weight
<1>3. CASE x \notin Limitable
  <2>1. (alarms \cap Limitable)' = S
    BY <1>3 DEF Erase
  <2>2. numLimitableAlarms' = numLimitableAlarms - 0
    BY <1>3 DEF Erase, Weight
  <2>3. Cardinality((alarms \cap Limitable)') = Cardinality(S)
    BY <2>1, Zenon
  <2> QED BY <1>1, <2>2, <2>3 DEF CountMatches
<1> QED BY <1>2, <1>3

\* Alarm x goes into the set.
Insert(x) ==
    /\ alarms' = alarms \cup {x}
    /\ numLimitableAlarms' = numLimitableAlarms + Weight(x)

LEMMA CountInsert ==
    ASSUME Types, CountMatches, NEW x, x \notin alarms, Insert(x)
    PROVE  CountMatches'
<1> DEFINE S == alarms \cap Limitable
<1>1. IsFiniteSet(S) /\ Cardinality(S) \in Nat
  BY LimitableFinite
<1>2. CASE x \in Limitable
  <2>1. (alarms \cap Limitable)' = S \cup {x} /\ x \notin S
    BY <1>2 DEF Insert
  <2>2. Cardinality(S \cup {x}) = Cardinality(S) + 1
    BY <1>1, <2>1, FS_AddElement
  <2>3. Cardinality((alarms \cap Limitable)') = Cardinality(S \cup {x})
    BY <2>1, Zenon
  <2> QED BY <1>1, <1>2, <2>2, <2>3 DEF CountMatches, Insert, Weight
<1>3. CASE x \notin Limitable
  <2>1. (alarms \cap Limitable)' = S
    BY <1>3 DEF Insert
  <2>2. numLimitableAlarms' = numLimitableAlarms + 0
    BY <1>3 DEF Insert, Weight
  <2>3. Cardinality((alarms \cap Limitable)') = Cardinality(S)
    BY <2>1, Zenon
  <2> QED BY <1>1, <2>2, <2>3 DEF CountMatches
<1> QED BY <1>2, <1>3

LEMMA CountSame ==
    ASSUME CountMatches, UNCHANGED <<alarms, numLimitableAlarms>>
    PROVE  CountMatches'
BY DEF CountMatches

-----------------------------------------------------------------------------
(* The threads of the pool.                                                *)

LEMMA SetOne ==
    ASSUME th \in [Procs -> Thread], NEW p \in Procs, NEW r \in Thread,
           th' = [th EXCEPT ![p] = r]
    PROVE  /\ th' \in [Procs -> Thread] /\ th'[p] = r
           /\ \A q \in Procs \ {p} : th'[q] = th[q] /\ Kept(q)
BY DEF Kept

BootPcs == {"boot", "loop"} \cup WatchPcs \cup RunPcs
Locks(p) == lock' \in {lock, None, p} /\ (lock' # lock => lock \in {None, p})

LEMMA LocksKept ==
    ASSUME Types, NEW p \in Procs, Locks(p)
    PROVE  lock' \in Procs \cup {None} /\ \A q \in Procs \ {p} : lock' # q => lock # q
BY ProcsApart DEF Types, Locks

\* Thread t of the pool changes nothing but itself, the locks and the role.
LEMMA SoloStep ==
    ASSUME IInv, NEW t \in Slots, NEW r \in Thread, th' = [th EXCEPT ![t] = r],
           UNCHANGED <<alarms, alarmTime, numLimitableAlarms, addWaitQueue, isRunning, size>>,
           UNCHANGED <<now, added, removed>>,
           Locks(t), reentrancyLock' \in {reentrancyLock, None, t},
           controllerIdx' \in {controllerIdx, t},
           th[t].pc # "off", r.pc \notin {"starting", "addWait"},
           r.cur \in {th[t].cur, None},
           (\E u \in Users : th[u].pc = "starting") => ~r.stopping /\ r.pc \in BootPcs,
           SlotOK(t)', NoPeriods => Watch(t)'
    PROVE  IInv'
<1>1. t \in Procs /\ th \in [Procs -> Thread] /\ th[t] \in Thread /\ Types
  BY DEF IInv, Types, Procs
<1>2. /\ th' \in [Procs -> Thread] /\ th'[t] = r
      /\ \A q \in Procs \ {t} : th'[q] = th[q] /\ Kept(q)
  BY <1>1, SetOne
<1>3. lock' \in Procs \cup {None} /\ \A q \in Procs \ {t} : lock' # q => lock # q
  BY <1>1, LocksKept
<1>4. Types'
  BY <1>1, <1>2, <1>3 DEF Types
<1>5. Frame(t)
  <2>1. size <= size'
    BY <1>1, TimerAssumption DEF Types
  <2> QED BY <1>2, <1>3, <2>1 DEF Frame
<1>6. Moves(t, None)
  BY <1>2, ProcsApart DEF Moves, Runs, Waits
<1>7. CountMatches'
  BY CountSame DEF IInv
<1>8. (\E u \in Users : th[u].pc = "starting") => Booting'
  BY <1>2, <1>5, BootKeptSlot DEF BootPcs
<1> QED BY <1>1, <1>4, <1>5, <1>6, <1>7, <1>8, StepKeeps, ProcsApart

LEMMA SlotKnown ==
    ASSUME IInv, NEW t \in Slots
    PROVE  /\ t \in Procs /\ th \in [Procs -> Thread] /\ th[t] \in Thread /\ SlotOK(t) /\ Types
           /\ size \in Nat /\ t \in Nat
           /\ th[t].pc # "off" => t < size
           /\ \A u \in Users : th[u].pc = "starting" =>
                  ~th[t].stopping /\ ~isRunning /\ controllerIdx \in {0, -1}
                  /\ (th[t].pc # "off" => t = 0 /\ th[t].pc \in BootPcs)
<1>1. /\ t \in Procs /\ th \in [Procs -> Thread] /\ th[t] \in Thread /\ SlotOK(t) /\ Types
      /\ size \in Nat /\ t \in Nat
  BY ProcsApart, TimerAssumption DEF IInv, Types, Procs
<1>2. th[t].pc # "off" => t < size
  BY <1>1 DEF SlotOK
<1> QED BY <1>1, <1>2 DEF IInv, UserOK, Booting, BootPcs

LEMMA LeaveStep ==
    ASSUME IInv, NEW t \in Slots, Leave(t)
    PROVE  IInv'
<1> DEFINE r == [th[t] EXCEPT !.pc = "exit", !.state = "STOPPING", !.alerted = FALSE,
                              !.ctl = FALSE]
<1>1. /\ th[t].pc = "loop" /\ th[t].stopping /\ lock = t /\ lock' = None
      /\ UNCHANGED <<reentrancyLock, queue, pool, now, ghosts>>
      /\ t \in Procs /\ th \in [Procs -> Thread] /\ th[t] \in Thread /\ SlotOK(t)
      /\ size \in Nat /\ t \in Nat /\ t < size
      /\ \A u \in Users : th[u].pc # "starting"
  BY SlotKnown DEF Leave, Release, At
<1>2. r \in Thread
  BY <1>1 DEF Thread, SlotPcs, ExitPcs, States
<1>3. th' = [th EXCEPT ![t] = r]
  BY <1>1 DEF Leave
<1>4. /\ th'[t] = r /\ r.pc = "exit" /\ r.state = "STOPPING" /\ r.cur = th[t].cur /\ r.stopping
  BY <1>1, <1>3 DEF Thread
<1> HIDE DEF r
<1>5. SlotOK(t)' /\ Watch(t)'
  BY <1>1, <1>4 DEF SlotOK, Watch, InHandler, StatesAt, SlotPcs, ExitPcs, WatchPcs, RunPcs, pool
<1> QED BY <1>1, <1>2, <1>3, <1>4, <1>5, SoloStep DEF Locks, queue, pool, ghosts

LEMMA RunInternalStep ==
    ASSUME IInv, NEW t \in Slots, RunInternal(t)
    PROVE  IInv'
<1>1. /\ th[t].pc = "boot" /\ UNCHANGED <<reentrancyLock, queue, pool, now, ghosts>>
      /\ t \in Procs /\ th \in [Procs -> Thread] /\ th[t] \in Thread /\ SlotOK(t)
      /\ size \in Nat /\ t \in Nat /\ t < size
      /\ \A u \in Users : th[u].pc = "starting" => ~th[t].stopping
  BY SlotKnown DEF RunInternal, At
<1>2. CASE th[t].stopping
  <2> DEFINE r == [th[t] EXCEPT !.pc = "exit", !.alerted = FALSE]
  <2>1. r \in Thread
    BY <1>1 DEF Thread, SlotPcs, ExitPcs
  <2>2. th' = [th EXCEPT ![t] = r] /\ lock' = lock
    BY <1>1, <1>2 DEF RunInternal
  <2>3. /\ th'[t] = r /\ r.pc = "exit" /\ r.state = th[t].state /\ r.cur = th[t].cur
        /\ r.stopping
    BY <1>1, <1>2, <2>2 DEF Thread
  <2> HIDE DEF r
  <2>4. SlotOK(t)' /\ Watch(t)'
    BY <1>1, <1>2, <2>3 DEF SlotOK, Watch, InHandler, StatesAt, SlotPcs, ExitPcs, WatchPcs, RunPcs, pool
  <2> QED BY <1>1, <1>2, <2>1, <2>2, <2>3, <2>4, SoloStep DEF Locks, queue, pool, ghosts
<1>3. CASE ~th[t].stopping
  <2> DEFINE r == [th[t] EXCEPT !.pc = "loop"]
  <2>1. r \in Thread
    BY <1>1 DEF Thread, SlotPcs
  <2>2. th' = [th EXCEPT ![t] = r] /\ lock = None /\ lock' = t
    BY <1>1, <1>3 DEF RunInternal, Take
  <2>3. /\ th'[t] = r /\ r.pc = "loop" /\ r.state = th[t].state /\ r.cur = th[t].cur
        /\ ~r.stopping
    BY <1>1, <1>3, <2>2 DEF Thread
  <2> HIDE DEF r
  <2>4. SlotOK(t)' /\ Watch(t)'
    BY <1>1, <1>3, <2>3 DEF SlotOK, Watch, InHandler, StatesAt, SlotPcs, ExitPcs, WatchPcs, RunPcs, pool
  <2> QED BY <1>1, <1>3, <2>1, <2>2, <2>3, <2>4, SoloStep DEF Locks, queue, pool, ghosts, BootPcs
<1> QED BY <1>2, <1>3

\* The top of the loop: the role is taken if it is free.
LEMMA LoopTopKnown ==
    ASSUME IInv, NEW t \in Slots, LoopTop(t)
    PROVE  /\ th[t].pc = "loop" /\ ~th[t].stopping /\ lock = t
           /\ controllerIdx' \in {controllerIdx, t}
           /\ Controls(t) => controllerIdx' = t
           /\ ~Controls(t) => controllerIdx' = controllerIdx /\ controllerIdx # t
           /\ UNCHANGED <<reentrancyLock, queue, isRunning, size, now, ghosts>>
           /\ t \in Procs /\ th \in [Procs -> Thread] /\ th[t] \in Thread /\ SlotOK(t) /\ Types
           /\ size \in Nat /\ t \in Nat /\ t < size /\ Controls(t) \in BOOLEAN
           /\ \A u \in Users : th[u].pc = "starting" => Controls(t)
BY SlotKnown DEF LoopTop, At, Controls

LEMMA LoopDueStep ==
    ASSUME IInv, NEW t \in Slots, LoopDue(t)
    PROVE  IInv'
<1> DEFINE r == [th[t] EXCEPT !.pc = IF PreventReentrancy THEN "claim" ELSE "dispatch",
                              !.state = "RUNNING", !.alerted = FALSE,
                              !.top = First, !.ctl = Controls(t),
                              !.seen = IF Period[First] = 0 THEN 0 ELSE now]
<1>1. /\ th[t].pc = "loop" /\ ~th[t].stopping /\ lock = t /\ lock' = None
      /\ controllerIdx' \in {controllerIdx, t}
      /\ UNCHANGED <<reentrancyLock, queue, isRunning, size, now, ghosts>>
      /\ t \in Procs /\ th \in [Procs -> Thread] /\ th[t] \in Thread /\ SlotOK(t) /\ Types
      /\ size \in Nat /\ t \in Nat /\ t < size /\ Controls(t) \in BOOLEAN
  BY LoopTopKnown DEF LoopDue
<1>2. First \in Alarms /\ now \in Nat
  BY <1>1, FirstIn DEF LoopDue, Types
<1>3. r \in Thread
  <2> DEFINE pc == IF PreventReentrancy THEN "claim" ELSE "dispatch"
             seen == IF Period[First] = 0 THEN 0 ELSE now
  <2>1. pc \in SlotPcs \cup UserPcs /\ seen \in Nat /\ "RUNNING" \in States
    BY <1>2 DEF SlotPcs, RunPcs, States
  <2>2. r = [th[t] EXCEPT !.pc = pc, !.state = "RUNNING", !.alerted = FALSE,
                          !.top = First, !.ctl = Controls(t), !.seen = seen]
    OBVIOUS
  <2> HIDE DEF pc, seen, r
  <2> QED BY <1>1, <1>2, <2>1, <2>2, ZenonT(60) DEF Thread
<1>4. th' = [th EXCEPT ![t] = r]
  BY <1>1 DEF LoopDue
<1>5. /\ th'[t] = r /\ r.pc \in {"claim", "dispatch"} /\ r.state = "RUNNING"
      /\ r.cur = th[t].cur /\ r.top \in Alarms /\ ~r.stopping
  BY <1>1, <1>2, <1>4 DEF Thread
<1> HIDE DEF r
<1>6. SlotOK(t)' /\ Watch(t)'
  BY <1>1, <1>5 DEF SlotOK, Watch, InHandler, StatesAt, SlotPcs, ExitPcs, WatchPcs, RunPcs
<1> QED BY <1>1, <1>3, <1>4, <1>5, <1>6, SoloStep DEF Locks, queue, ghosts, BootPcs, RunPcs

LEMMA LoopControllerStep ==
    ASSUME IInv, NEW t \in Slots, LoopController(t)
    PROVE  IInv'
<1> DEFINE r == [th[t] EXCEPT !.pc = "reap", !.state = "IDLE", !.ctl = TRUE,
                              !.top = IF alarms = {} THEN None ELSE First,
                              !.status = "TIMEOUT", !.idx = 0]
<1>1. /\ th[t].pc = "loop" /\ ~th[t].stopping /\ lock = t /\ lock' = lock
      /\ controllerIdx' = t
      /\ UNCHANGED <<reentrancyLock, queue, isRunning, size, now, ghosts>>
      /\ t \in Procs /\ th \in [Procs -> Thread] /\ th[t] \in Thread /\ SlotOK(t) /\ Types
      /\ size \in Nat /\ t \in Nat /\ t < size
  BY LoopTopKnown DEF LoopController
<1>2. /\ alarms # {} => First \in Alarms /\ First # None
      /\ alarms # {} => \A a \in alarms : alarmTime[First] <= alarmTime[a]
  BY <1>1, FirstIn, ProcsApart
<1>3. r \in Thread
  <2> DEFINE top == IF alarms = {} THEN None ELSE First
  <2>1. top \in Alarms \cup {None} /\ "reap" \in SlotPcs /\ "IDLE" \in States
    BY <1>2 DEF SlotPcs, WatchPcs, States
  <2>2. r = [th[t] EXCEPT !.pc = "reap", !.state = "IDLE", !.ctl = TRUE, !.top = top,
                          !.status = "TIMEOUT", !.idx = 0]
    OBVIOUS
  <2> HIDE DEF top, r
  <2> QED BY <1>1, <2>1, <2>2 DEF Thread
<1>4. th' = [th EXCEPT ![t] = r]
  BY <1>1 DEF LoopController
<1>5. /\ th'[t] = r /\ r.pc = "reap" /\ r.state = "IDLE" /\ r.cur = th[t].cur /\ ~r.stopping
      /\ r.top = IF alarms = {} THEN None ELSE First
  BY <1>1, <1>2, <1>4 DEF Thread
<1> HIDE DEF r
<1>6. SlotOK(t)'
  BY <1>1, <1>5 DEF SlotOK, InHandler, StatesAt, SlotPcs, ExitPcs, WatchPcs, RunPcs
<1>7. Watch(t)'
  BY <1>1, <1>2, <1>5 DEF Watch, queue
<1> QED BY <1>1, <1>3, <1>4, <1>5, <1>6, <1>7, SoloStep DEF Locks, queue, ghosts, BootPcs, WatchPcs

LEMMA LoopWorkerStep ==
    ASSUME IInv, NEW t \in Slots, LoopWorker(t)
    PROVE  IInv'
<1>1. /\ th[t].pc = "loop" /\ ~th[t].stopping /\ lock = t /\ lock' = None
      /\ controllerIdx' = controllerIdx /\ controllerIdx # t
      /\ UNCHANGED <<reentrancyLock, queue, isRunning, size, now, ghosts>>
      /\ t \in Procs /\ th \in [Procs -> Thread] /\ th[t] \in Thread /\ SlotOK(t) /\ Types
      /\ size \in Nat /\ t \in Nat /\ t < size
      /\ \A u \in Users : th[u].pc # "starting"
  BY LoopTopKnown DEF LoopWorker
<1>2. CASE th' = [th EXCEPT ![t].pc = "idle", ![t].state = "IDLE", ![t].ctl = FALSE]
  <2> DEFINE r == [th[t] EXCEPT !.pc = "idle", !.state = "IDLE", !.ctl = FALSE]
  <2>1. r \in Thread
    BY <1>1 DEF Thread, SlotPcs, States
  <2>2. th' = [th EXCEPT ![t] = r]
    BY <1>1, <1>2
  <2>3. /\ th'[t] = r /\ r.pc = "idle" /\ r.state = "IDLE" /\ r.cur = th[t].cur /\ ~r.stopping
    BY <1>1, <2>2 DEF Thread
  <2> HIDE DEF r
  <2>4. SlotOK(t)' /\ Watch(t)'
    BY <1>1, <2>3 DEF SlotOK, Watch, InHandler, StatesAt, SlotPcs, ExitPcs, WatchPcs, RunPcs
  <2> QED BY <1>1, <2>1, <2>2, <2>3, <2>4, SoloStep DEF Locks, queue, ghosts
<1>3. CASE /\ alarms # {}
           /\ th' = [th EXCEPT ![t].pc = "sleep", ![t].state = "IDLE", ![t].ctl = FALSE,
                               ![t].top = First, ![t].seen = alarmTime[First]]
  <2> DEFINE r == [th[t] EXCEPT !.pc = "sleep", !.state = "IDLE", !.ctl = FALSE,
                                !.top = First, !.seen = alarmTime[First]]
  <2>1. First \in Alarms /\ alarmTime[First] \in Nat
    BY <1>1, <1>3, FirstIn DEF Types
  <2>2. r \in Thread
    BY <1>1, <2>1 DEF Thread, SlotPcs, WatchPcs, States
  <2>3. th' = [th EXCEPT ![t] = r]
    BY <1>1, <1>3
  <2>4. /\ th'[t] = r /\ r.pc = "sleep" /\ r.state = "IDLE" /\ r.cur = th[t].cur /\ ~r.stopping
    BY <1>1, <2>3 DEF Thread
  <2> HIDE DEF r
  <2>5. SlotOK(t)' /\ Watch(t)'
    BY <1>1, <2>4 DEF SlotOK, Watch, InHandler, StatesAt, SlotPcs, ExitPcs, WatchPcs, RunPcs
  <2> QED BY <1>1, <2>2, <2>3, <2>4, <2>5, SoloStep DEF Locks, queue, ghosts
<1> QED BY <1>2, <1>3 DEF LoopWorker

LEMMA ReapDoneStep ==
    ASSUME IInv, NEW t \in Slots, ReapDone(t)
    PROVE  IInv'
<1>1. /\ th[t].pc = "reap" /\ lock = t
      /\ UNCHANGED <<reentrancyLock, queue, pool, now, ghosts>>
      /\ t \in Procs /\ th \in [Procs -> Thread] /\ th[t] \in Thread /\ SlotOK(t) /\ Types
      /\ size \in Nat /\ t \in Nat /\ t < size
      /\ \A u \in Users : th[u].pc = "starting" => ~th[t].stopping
      /\ NoPeriods => Watch(t)
  BY SlotKnown DEF ReapDone, At, IInv
<1>2. CASE th[t].status = "TIMEOUT" /\ Delayed(t)
  <2> DEFINE seen == IF th[t].top = None THEN 0 ELSE alarmTime[th[t].top]
             r == [th[t] EXCEPT !.pc = "sleep", !.seen = seen, !.status = "TIMEOUT", !.idx = 0]
  <2>1. seen \in Nat
    BY <1>1 DEF Types, Thread
  <2>2. th' = [th EXCEPT ![t] = r] /\ lock' = None
    BY <1>1, <1>2 DEF ReapDone
  <2>3. th[t].top # None => seen = alarmTime[th[t].top]
    OBVIOUS
  <2> HIDE DEF seen
  <2>4. r \in Thread
    BY <1>1, <2>1 DEF Thread, SlotPcs, WatchPcs
  <2>5. /\ th'[t] = r /\ r.pc = "sleep" /\ r.state = th[t].state /\ r.cur = th[t].cur
        /\ r.stopping = th[t].stopping /\ r.alerted = th[t].alerted /\ r.top = th[t].top
        /\ r.seen = seen
    BY <1>1, <2>2 DEF Thread
  <2> HIDE DEF r
  <2>6. SlotOK(t)'
    BY <1>1, <2>5 DEF SlotOK, InHandler, StatesAt, SlotPcs, ExitPcs, WatchPcs, RunPcs, pool
  <2>7. NoPeriods => Watch(t)'
    BY <1>1, <2>3, <2>5 DEF Watch, WatchPcs, queue, pool
  <2> QED BY <1>1, <2>2, <2>4, <2>5, <2>6, <2>7, SoloStep DEF Locks, queue, pool, ghosts, BootPcs, WatchPcs
<1>3. CASE ~(th[t].status = "TIMEOUT" /\ Delayed(t))
  <2> DEFINE r == [th[t] EXCEPT !.pc = "loop", !.alerted = FALSE, !.top = None,
                                !.status = "TIMEOUT", !.idx = 0]
  <2>1. r \in Thread
    BY <1>1 DEF Thread, SlotPcs
  <2>2. th' = [th EXCEPT ![t] = r] /\ lock' = lock
    BY <1>1, <1>3 DEF ReapDone
  <2>3. /\ th'[t] = r /\ r.pc = "loop" /\ r.state = th[t].state /\ r.cur = th[t].cur
        /\ r.stopping = th[t].stopping
    BY <1>1, <2>2 DEF Thread
  <2> HIDE DEF r
  <2>4. SlotOK(t)' /\ Watch(t)'
    BY <1>1, <2>3 DEF SlotOK, Watch, InHandler, StatesAt, SlotPcs, ExitPcs, WatchPcs, RunPcs, pool
  <2> QED BY <1>1, <2>1, <2>2, <2>3, <2>4, SoloStep DEF Locks, queue, pool, ghosts, BootPcs
<1> QED BY <1>2, <1>3

LEMMA WaitReturnsStep ==
    ASSUME IInv, NEW t \in Slots, WaitReturns(t)
    PROVE  IInv'
<1> DEFINE pc == IF th[t].pc = "idle" THEN "idled" ELSE "reapWoke"
           status == IF th[t].alerted THEN "ALERTED" ELSE "TIMEOUT"
           r == [th[t] EXCEPT !.pc = pc, !.status = status]
<1>1. /\ th[t].pc \in {"idle", "reapWait"}
      /\ UNCHANGED <<lock, reentrancyLock, queue, pool, now, ghosts>>
      /\ t \in Procs /\ th \in [Procs -> Thread] /\ th[t] \in Thread /\ SlotOK(t) /\ Types
      /\ size \in Nat /\ t \in Nat /\ t < size
      /\ \A u \in Users : th[u].pc = "starting" => ~th[t].stopping /\ th[t].pc \in BootPcs
      /\ NoPeriods => Watch(t)
  BY SlotKnown DEF WaitReturns, At, IInv
<1>2. /\ pc \in {"idled", "reapWoke"} /\ (pc = "idled" <=> th[t].pc = "idle")
      /\ status \in {"TIMEOUT", "ALERTED"}
  OBVIOUS
<1>3. th' = [th EXCEPT ![t] = r]
  BY <1>1 DEF WaitReturns
<1> HIDE DEF pc, status
<1>4. r \in Thread
  BY <1>1, <1>2 DEF Thread, SlotPcs, WatchPcs
<1>5. /\ th'[t] = r /\ r.pc = pc /\ r.state = th[t].state /\ r.cur = th[t].cur
      /\ r.stopping = th[t].stopping /\ r.alerted = th[t].alerted /\ r.top = th[t].top
      /\ r.seen = th[t].seen
  BY <1>1, <1>3 DEF Thread
<1> HIDE DEF r
<1>6. SlotOK(t)'
  BY <1>1, <1>2, <1>5 DEF SlotOK, InHandler, StatesAt, SlotPcs, ExitPcs, WatchPcs, RunPcs, pool
<1>7. NoPeriods => Watch(t)'
  BY <1>1, <1>2, <1>5 DEF Watch, WatchPcs, queue, pool
<1> QED BY <1>1, <1>2, <1>3, <1>4, <1>5, <1>6, <1>7, SoloStep DEF Locks, queue, pool, ghosts, BootPcs, WatchPcs, RunPcs

LEMMA ReapWokeStep ==
    ASSUME IInv, NEW t \in Slots, ReapWoke(t)
    PROVE  IInv'
<1> DEFINE r == [th[t] EXCEPT !.pc = "reap"]
<1>1. /\ th[t].pc = "reapWoke" /\ lock = None /\ lock' = t
      /\ UNCHANGED <<reentrancyLock, queue, pool, now, ghosts>>
      /\ t \in Procs /\ th \in [Procs -> Thread] /\ th[t] \in Thread /\ SlotOK(t) /\ Types
      /\ size \in Nat /\ t \in Nat /\ t < size
      /\ \A u \in Users : th[u].pc = "starting" => ~th[t].stopping
      /\ NoPeriods => Watch(t)
  BY SlotKnown DEF ReapWoke, At, Take, IInv
<1>2. r \in Thread
  BY <1>1 DEF Thread, SlotPcs, WatchPcs
<1>3. th' = [th EXCEPT ![t] = r]
  BY <1>1 DEF ReapWoke
<1>4. /\ th'[t] = r /\ r.pc = "reap" /\ r.state = th[t].state /\ r.cur = th[t].cur
      /\ r.stopping = th[t].stopping /\ r.alerted = th[t].alerted /\ r.top = th[t].top
      /\ r.seen = th[t].seen
  BY <1>1, <1>3 DEF Thread
<1> HIDE DEF r
<1>5. SlotOK(t)'
  BY <1>1, <1>4 DEF SlotOK, InHandler, StatesAt, SlotPcs, ExitPcs, WatchPcs, RunPcs, pool
<1>6. NoPeriods => Watch(t)'
  BY <1>1, <1>4 DEF Watch, WatchPcs, queue, pool
<1> QED BY <1>1, <1>2, <1>3, <1>4, <1>5, <1>6, SoloStep DEF Locks, queue, pool, ghosts, BootPcs, WatchPcs

LEMMA SleptStep ==
    ASSUME IInv, NEW t \in Slots, Slept(t)
    PROVE  IInv'
<1> DEFINE r == [th[t] EXCEPT !.pc = "loop", !.alerted = FALSE, !.top = None, !.seen = 0]
<1>1. /\ th[t].pc = "sleep" /\ lock = None /\ lock' = t
      /\ UNCHANGED <<reentrancyLock, queue, pool, now, ghosts>>
      /\ t \in Procs /\ th \in [Procs -> Thread] /\ th[t] \in Thread /\ SlotOK(t) /\ Types
      /\ size \in Nat /\ t \in Nat /\ t < size
      /\ \A u \in Users : th[u].pc = "starting" => ~th[t].stopping
  BY SlotKnown DEF Slept, At, Take
<1>2. r \in Thread
  BY <1>1 DEF Thread, SlotPcs
<1>3. th' = [th EXCEPT ![t] = r]
  BY <1>1 DEF Slept
<1>4. /\ th'[t] = r /\ r.pc = "loop" /\ r.state = th[t].state /\ r.cur = th[t].cur
      /\ r.stopping = th[t].stopping
  BY <1>1, <1>3 DEF Thread
<1> HIDE DEF r
<1>5. SlotOK(t)' /\ Watch(t)'
  BY <1>1, <1>4 DEF SlotOK, Watch, InHandler, StatesAt, SlotPcs, ExitPcs, WatchPcs, RunPcs, pool
<1> QED BY <1>1, <1>2, <1>3, <1>4, <1>5, SoloStep DEF Locks, queue, pool, ghosts, BootPcs

LEMMA IdledStep ==
    ASSUME IInv, NEW t \in Slots, Idled(t)
    PROVE  IInv'
<1>1. /\ th[t].pc = "idled" /\ UNCHANGED <<reentrancyLock, queue, pool, now, ghosts>>
      /\ t \in Procs /\ th \in [Procs -> Thread] /\ th[t] \in Thread /\ SlotOK(t) /\ Types
      /\ size \in Nat /\ t \in Nat /\ t < size
      /\ \A u \in Users : th[u].pc # "starting"
  BY SlotKnown DEF Idled, At, BootPcs, WatchPcs, RunPcs
<1>2. CASE th[t].status = "TIMEOUT" /\ controllerIdx # -1
  <2> DEFINE r == [th[t] EXCEPT !.pc = "exit", !.state = "STOPPING", !.alerted = FALSE]
  <2>1. r \in Thread
    BY <1>1 DEF Thread, SlotPcs, ExitPcs, States
  <2>2. th' = [th EXCEPT ![t] = r] /\ lock' = lock
    BY <1>1, <1>2 DEF Idled, Free
  <2>3. /\ th'[t] = r /\ r.pc = "exit" /\ r.state = "STOPPING" /\ r.cur = th[t].cur
        /\ r.stopping = th[t].stopping
    BY <1>1, <2>2 DEF Thread
  <2> HIDE DEF r
  <2>4. SlotOK(t)' /\ Watch(t)'
    BY <1>1, <2>3 DEF SlotOK, Watch, InHandler, StatesAt, SlotPcs, ExitPcs, WatchPcs, RunPcs, pool
  <2> QED BY <1>1, <2>1, <2>2, <2>3, <2>4, SoloStep DEF Locks, queue, pool, ghosts
<1>3. CASE ~(th[t].status = "TIMEOUT" /\ controllerIdx # -1)
  <2> DEFINE r == [th[t] EXCEPT !.pc = "loop", !.alerted = FALSE, !.status = "TIMEOUT"]
  <2>1. r \in Thread
    BY <1>1 DEF Thread, SlotPcs
  <2>2. th' = [th EXCEPT ![t] = r] /\ lock = None /\ lock' = t
    BY <1>1, <1>3 DEF Idled, Take
  <2>3. /\ th'[t] = r /\ r.pc = "loop" /\ r.state = th[t].state /\ r.cur = th[t].cur
        /\ r.stopping = th[t].stopping
    BY <1>1, <2>2 DEF Thread
  <2> HIDE DEF r
  <2>4. SlotOK(t)' /\ Watch(t)'
    BY <1>1, <2>3 DEF SlotOK, Watch, InHandler, StatesAt, SlotPcs, ExitPcs, WatchPcs, RunPcs, pool
  <2> QED BY <1>1, <2>1, <2>2, <2>3, <2>4, SoloStep DEF Locks, queue, pool, ghosts
<1> QED BY <1>2, <1>3

LEMMA ClaimStep ==
    ASSUME IInv, NEW t \in Slots, Claim(t)
    PROVE  IInv'
<1> DEFINE pc == IF th[t].pc = "claim" THEN "dispatch" ELSE "exitHandler"
           r == [th[t] EXCEPT !.pc = pc]
<1>1. /\ th[t].pc \in {"claim", "exitClaim"} /\ reentrancyLock' = t
      /\ UNCHANGED <<lock, queue, pool, now, ghosts>>
      /\ t \in Procs /\ th \in [Procs -> Thread] /\ th[t] \in Thread /\ SlotOK(t) /\ Types
      /\ size \in Nat /\ t \in Nat /\ t < size
      /\ \A u \in Users : th[u].pc = "starting" => ~th[t].stopping /\ th[t].pc \in BootPcs
  BY SlotKnown DEF Claim, At
<1>2. pc \in {"dispatch", "exitHandler"} /\ (pc = "dispatch" <=> th[t].pc = "claim")
  OBVIOUS
<1>3. th' = [th EXCEPT ![t] = r]
  BY <1>1 DEF Claim
<1> HIDE DEF pc
<1>4. r \in Thread
  BY <1>1, <1>2 DEF Thread, SlotPcs, ExitPcs, RunPcs
<1>5. /\ th'[t] = r /\ r.pc = pc /\ r.state = th[t].state /\ r.cur = th[t].cur
      /\ r.stopping = th[t].stopping /\ r.top = th[t].top
  BY <1>1, <1>3 DEF Thread
<1> HIDE DEF r
<1>6. SlotOK(t)' /\ Watch(t)'
  BY <1>1, <1>2, <1>5 DEF SlotOK, Watch, InHandler, StatesAt, SlotPcs, ExitPcs, WatchPcs, RunPcs, pool
<1> QED BY <1>1, <1>2, <1>3, <1>4, <1>5, <1>6, SoloStep DEF Locks, queue, pool, ghosts, BootPcs, WatchPcs, RunPcs

LEMMA HandlerReturnsStep ==
    ASSUME IInv, NEW t \in Slots, HandlerReturns(t)
    PROVE  IInv'
<1> DEFINE pc == IF th[t].pc = "handler" THEN "returned" ELSE "exit"
           r == [th[t] EXCEPT !.pc = pc]
<1>1. /\ th[t].pc \in {"handler", "exitHandler"} /\ reentrancyLock' \in {reentrancyLock, None}
      /\ UNCHANGED <<lock, queue, pool, now, ghosts>>
      /\ t \in Procs /\ th \in [Procs -> Thread] /\ th[t] \in Thread /\ SlotOK(t) /\ Types
      /\ size \in Nat /\ t \in Nat /\ t < size
      /\ \A u \in Users : th[u].pc = "starting" => ~th[t].stopping /\ th[t].pc \in BootPcs
  BY SlotKnown DEF HandlerReturns, At
<1>2. pc \in {"returned", "exit"} /\ (pc = "returned" <=> th[t].pc = "handler")
  OBVIOUS
<1>3. th' = [th EXCEPT ![t] = r]
  BY <1>1 DEF HandlerReturns
<1> HIDE DEF pc
<1>4. r \in Thread
  BY <1>1, <1>2 DEF Thread, SlotPcs, ExitPcs, RunPcs
<1>5. /\ th'[t] = r /\ r.pc = pc /\ r.state = th[t].state /\ r.cur = th[t].cur
      /\ r.stopping = th[t].stopping /\ r.top = th[t].top
  BY <1>1, <1>3 DEF Thread
<1> HIDE DEF r
<1>6. SlotOK(t)' /\ Watch(t)'
  BY <1>1, <1>2, <1>5 DEF SlotOK, Watch, InHandler, StatesAt, SlotPcs, ExitPcs, WatchPcs, RunPcs, pool
<1> QED BY <1>1, <1>2, <1>3, <1>4, <1>5, <1>6, SoloStep DEF Locks, queue, pool, ghosts, BootPcs, WatchPcs, RunPcs

\* What the invariant is about does not change.
LEMMA SameStep ==
    ASSUME IInv,
           UNCHANGED <<lock, alarms, alarmTime, numLimitableAlarms, addWaitQueue>>,
           UNCHANGED <<controllerIdx, isRunning, size, th, added, removed>>,
           reentrancyLock' \in Slots \cup {None}, now' \in Nat
    PROVE  IInv'
<1>1. Types'
  BY DEF IInv, Types
<1>2. CountMatches' /\ Places' /\ Over'
  BY DEF IInv, CountMatches, Places, Over, Runs, Waits, Gone
<1>3. \A t \in Slots : SlotOK(t)' /\ (NoPeriods => Watch(t)')
  BY DEF IInv, SlotOK, Watch, InHandler
<1>4. Booting' = Booting
  BY DEF Booting
<1>5. \A u \in Users : UserOK(u)'
  BY <1>4 DEF IInv, UserOK, Gone, Runs, Waits, OneShot
<1> QED BY <1>1, <1>2, <1>3, <1>5 DEF IInv, NoPeriods

LEMMA EnableReentrancyStep ==
    ASSUME IInv, NEW t \in Slots, EnableReentrancy(t)
    PROVE  IInv'
BY SameStep DEF EnableReentrancy, queue, pool, ghosts, IInv, Types

LEMMA TickStep ==
    ASSUME IInv, Tick
    PROVE  IInv'
BY SameStep DEF Tick, queue, pool, ghosts, IInv, Types

\* A new TimerThread, or none.
LEMMA IdleTyped ==
    ASSUME NEW pc \in SlotPcs \cup UserPcs, NEW st \in States \cup {"user"}
    PROVE  /\ Idle(pc, st) \in Thread
           /\ Idle(pc, st).pc = pc /\ Idle(pc, st).state = st
           /\ Idle(pc, st).cur = None /\ ~Idle(pc, st).stopping
BY DEF Idle, Thread

LEMMA SetTwo ==
    ASSUME th \in [Procs -> Thread], NEW p \in Procs, NEW s \in Procs, p # s,
           NEW r \in Thread, NEW x \in Thread, th' = [th EXCEPT ![p] = r, ![s] = x]
    PROVE  /\ th' \in [Procs -> Thread] /\ th'[p] = r /\ th'[s] = x
           /\ \A q \in Procs \ {p, s} : th'[q] = th[q] /\ Kept(q)
BY DEF Kept

LEMMA ReapStep ==
    ASSUME IInv, NEW t \in Slots, Reap(t)
    PROVE  IInv'
<1>1. /\ th[t].pc = "reap" /\ lock = t /\ th[t].idx < size
      /\ UNCHANGED <<reentrancyLock, queue, pool, now, ghosts>>
      /\ t \in Procs /\ th \in [Procs -> Thread] /\ th[t] \in Thread /\ SlotOK(t) /\ Types
      /\ size \in Nat /\ t \in Nat /\ t < size
      /\ \A u \in Users : th[u].pc = "starting" => ~th[t].stopping /\ ~isRunning
      /\ NoPeriods => Watch(t)
  BY SlotKnown DEF Reap, At, IInv
<1>2. PICK i : i = th[t].idx
  OBVIOUS
<1>3. i \in Nat /\ i < size /\ i \in Slots /\ i \in Procs
  BY <1>1, <1>2, TimerAssumption DEF Thread, Types, Slots, Procs
<1>4. ASSUME NEW n \in Nat, th' = [th EXCEPT ![t].idx = n], lock' = lock PROVE IInv'
  <2> DEFINE r == [th[t] EXCEPT !.idx = n]
  <2>1. r \in Thread
    BY <1>1 DEF Thread
  <2>2. th' = [th EXCEPT ![t] = r]
    BY <1>1, <1>4
  <2>3. /\ th'[t] = r /\ r.pc = th[t].pc /\ r.state = th[t].state /\ r.cur = th[t].cur
        /\ r.stopping = th[t].stopping /\ r.alerted = th[t].alerted /\ r.top = th[t].top
        /\ r.seen = th[t].seen
    BY <1>1, <2>2 DEF Thread
  <2> HIDE DEF r
  <2>4. SlotOK(t)'
    BY <1>1, <2>3 DEF SlotOK, InHandler, StatesAt, SlotPcs, ExitPcs, WatchPcs, RunPcs, pool
  <2>5. NoPeriods => Watch(t)'
    BY <1>1, <2>3 DEF Watch, WatchPcs, queue, pool
  <2> QED BY <1>1, <1>4, <2>1, <2>2, <2>3, <2>4, <2>5, SoloStep DEF Locks, queue, pool, ghosts, BootPcs, WatchPcs
<1>5. CASE th' = [th EXCEPT ![t].pc = "reapWait"] /\ lock' = None
  <2> DEFINE r == [th[t] EXCEPT !.pc = "reapWait"]
  <2>1. r \in Thread
    BY <1>1 DEF Thread, SlotPcs, WatchPcs
  <2>2. th' = [th EXCEPT ![t] = r]
    BY <1>1, <1>5
  <2>3. /\ th'[t] = r /\ r.pc = "reapWait" /\ r.state = th[t].state /\ r.cur = th[t].cur
        /\ r.stopping = th[t].stopping /\ r.alerted = th[t].alerted /\ r.top = th[t].top
        /\ r.seen = th[t].seen
    BY <1>1, <2>2 DEF Thread
  <2> HIDE DEF r
  <2>4. SlotOK(t)'
    BY <1>1, <2>3 DEF SlotOK, InHandler, StatesAt, SlotPcs, ExitPcs, WatchPcs, RunPcs, pool
  <2>5. NoPeriods => Watch(t)'
    BY <1>1, <2>3 DEF Watch, WatchPcs, queue, pool
  <2> QED BY <1>1, <1>5, <2>1, <2>2, <2>3, <2>4, <2>5, SoloStep DEF Locks, queue, pool, ghosts, BootPcs, WatchPcs
<1>6. CASE /\ i # t /\ th[i].state = "STOPPED" /\ isRunning /\ lock' = lock
           /\ th' = [th EXCEPT ![t].idx = i + 1, ![i] = Idle("off", "NULL")]
  <2> DEFINE r == [th[t] EXCEPT !.idx = i + 1]
             x == Idle("off", "NULL")
  <2>1. r \in Thread
    <3>1. \A n \in Nat : [th[t] EXCEPT !.idx = n] \in Thread
      BY <1>1 DEF Thread
    <3> QED BY <1>3, <3>1
  <2>2. /\ x \in Thread /\ x.pc = "off" /\ x.state = "NULL" /\ x.cur = None /\ ~x.stopping
    BY IdleTyped DEF SlotPcs, States
  <2>3. th' = [th EXCEPT ![t] = r, ![i] = x]
    BY <1>1, <1>6
  <2>4. r.pc = th[t].pc /\ r.state = th[t].state /\ r.cur = th[t].cur
        /\ r.stopping = th[t].stopping /\ r.alerted = th[t].alerted /\ r.top = th[t].top
        /\ r.seen = th[t].seen
    BY <1>1 DEF Thread
  <2> HIDE DEF r, x
  <2>5. /\ th' \in [Procs -> Thread] /\ th'[t] = r /\ th'[i] = x
        /\ \A q \in Procs \ {t, i} : th'[q] = th[q] /\ Kept(q)
    <3>1. i # t /\ t \in Procs /\ i \in Procs /\ th \in [Procs -> Thread]
      BY <1>1, <1>3, <1>6
    <3> QED BY <2>1, <2>2, <2>3, <3>1, SetTwo
  <2>6. th[i].pc = "off"
    BY <1>3, <1>6 DEF IInv, SlotOK, StatesAt, WatchPcs, RunPcs
  <2>7. Fresh(i)
    BY <1>1, <1>3, <1>6, <2>2, <2>5, <2>6 DEF Fresh, pool
  <2>8. Types'
    BY <1>1, <1>6, <2>5 DEF Types, queue, pool, ghosts
  <2>9. Frame(t)
    <3>1. size <= size' /\ th'[t].pc # "starting"
      BY <1>1, <2>4, <2>5 DEF pool
    <3> QED BY <1>1, <1>6, <2>5, <2>7, <3>1 DEF Frame, queue, pool, ghosts
  <2>10. Moves(t, None)
    BY <1>1, <2>4, <2>5, ProcsApart DEF Moves, Runs, Waits, queue
  <2>11. CountMatches'
    BY <1>1, CountSame DEF IInv, queue
  <2>12. SlotOK(t)'
    BY <1>1, <2>4, <2>5 DEF SlotOK, InHandler, StatesAt, SlotPcs, ExitPcs, WatchPcs, RunPcs, pool
  <2>13. NoPeriods => Watch(t)'
    BY <1>1, <2>4, <2>5 DEF Watch, WatchPcs, queue, pool
  <2>14. removed' = removed /\ \A u \in Users : th[u].pc # "starting"
    BY <1>1, <1>6 DEF ghosts
  <2> QED BY <1>1, <2>8, <2>9, <2>10, <2>11, <2>12, <2>13, <2>14, StepKeeps, ProcsApart
<1> QED BY <1>1, <1>2, <1>3, <1>4, <1>5, <1>6 DEF Reap

-----------------------------------------------------------------------------
(* Handing over, and running an alarm.                                     *)

\* Record x is y, perhaps alerted.
Like(x, y) ==
    /\ x.pc = y.pc /\ x.state = y.state /\ x.stopping = y.stopping /\ x.cur = y.cur
    /\ x.top = y.top /\ x.seen = y.seen /\ x.idx = y.idx /\ x.arg = y.arg /\ x.gone = y.gone
    /\ y.alerted => x.alerted

\* Record x is that of slot s, started.
Booted(s, x) ==
    /\ s \in Slots /\ isRunning /\ s < size'
    /\ x.cur = None /\ ~x.stopping /\ x.pc = "boot" /\ x.state = "STARTING"

LEMMA AlertOne ==
    ASSUME NEW f \in [Procs -> Thread], NEW p, NEW g, g = [f EXCEPT ![p].alerted = TRUE]
    PROVE  /\ g \in [Procs -> Thread] /\ \A q \in Procs : Like(g[q], f[q])
           /\ p \in Procs => g[p].alerted
<1>1. CASE p \in Procs
  <2> DEFINE r == [f[p] EXCEPT !.alerted = TRUE]
  <2>1. g = [f EXCEPT ![p] = r]
    BY <1>1
  <2>2. r \in Thread /\ Like(r, f[p]) /\ r.alerted
    BY <1>1, ZenonT(60) DEF Thread, Like
  <2> HIDE DEF r
  <2> QED BY <1>1, <2>1, <2>2 DEF Like
<1>2. CASE p \notin Procs
  <2>1. g = f
    BY <1>2
  <2> QED BY <1>2, <2>1 DEF Like
<1> QED BY <1>1, <1>2

LEMMA WakeAdderOK ==
    ASSUME NEW f \in [Procs -> Thread], NEW g, g = WakeAdder(f)
    PROVE  g \in [Procs -> Thread] /\ \A q \in Procs : Like(g[q], f[q])
<1>1. CASE addWaitQueue = << >>
  BY <1>1 DEF WakeAdder, Like
<1>2. CASE addWaitQueue # << >>
  <2>1. PICK w : w = Last(addWaitQueue)
    OBVIOUS
  <2>2. g = [f EXCEPT ![w].alerted = TRUE]
    BY <1>2, <2>1 DEF WakeAdder
  <2> QED BY <2>2, AlertOne
<1> QED BY <1>1, <1>2

LEMMA HandOverOK ==
    ASSUME IInv, NEW t \in Slots, th[t].pc = "dispatch", Yield(t), NEW f, f = HandOver(t)
    PROVE  /\ f \in [Procs -> Thread] /\ Like(f[t], th[t])
           /\ \A q \in Procs \ {t} : Like(f[q], th[q]) \/ Booted(q, f[q])
           /\ size' \in 1..MaxSlots /\ size <= size'
           /\ controllerIdx' \in {controllerIdx, -1} /\ isRunning' = isRunning
<1>1. /\ t \in Procs /\ th \in [Procs -> Thread] /\ th[t] \in Thread /\ SlotOK(t) /\ Types
      /\ size \in Nat /\ t \in Nat /\ t < size /\ size \in 1..MaxSlots /\ MaxSlots \in Nat
  BY SlotKnown, TimerAssumption DEF Types
<1>2. PICK s : s = Successor(t)
  OBVIOUS
<1>3. s # None => /\ s \in Slots /\ s # t /\ s \in Procs /\ s \in Nat
                  /\ ~(s < size) => s = size /\ size < MaxSlots
  BY <1>1, <1>2, SuccessorOK, ProcsApart DEF Procs
<1>4. controllerIdx' \in {controllerIdx, -1} /\ isRunning' = isRunning
  BY DEF Yield
<1>5. size' \in 1..MaxSlots /\ size <= size'
  BY <1>1, <1>2, <1>3 DEF Yield, None
<1>6. th[t].ctl /\ isRunning /\ s # None => s < size'
  BY <1>1, <1>2, <1>3 DEF Yield
<1> DEFINE r == [th[t] EXCEPT !.ctl = FALSE]
<1>7. r \in Thread /\ Like(r, th[t])
  BY <1>1 DEF Thread, Like
<1>8. \A y : Like(y, y)
  BY DEF Like
<1>9. CASE ~th[t].ctl
  <2>1. f = th
    BY <1>9 DEF HandOver
  <2> QED BY <1>1, <1>4, <1>5, <1>8, <2>1
<1>10. CASE th[t].ctl /\ (~isRunning \/ s = None)
  <2>1. f = [th EXCEPT ![t] = r]
    BY <1>1, <1>2, <1>10 DEF HandOver
  <2> HIDE DEF r
  <2> QED BY <1>1, <1>4, <1>5, <1>7, <1>8, <2>1
<1>11. CASE th[t].ctl /\ isRunning /\ s # None /\ th[s].state = "IDLE"
  <2> DEFINE x == [th[s] EXCEPT !.alerted = TRUE]
  <2>1. x \in Thread /\ Like(x, th[s])
    BY <1>1, <1>3, <1>11 DEF Thread, Like
  <2>2. f = [th EXCEPT ![t] = r, ![s] = x]
    BY <1>1, <1>2, <1>3, <1>11 DEF HandOver
  <2> HIDE DEF r, x
  <2>3. f \in [Procs -> Thread] /\ f[t] = r /\ f[s] = x /\ \A q \in Procs \ {t, s} : f[q] = th[q]
    BY <1>1, <1>3, <1>7, <1>11, <2>1, <2>2
  <2> QED BY <1>3, <1>4, <1>5, <1>7, <1>8, <1>11, <2>1, <2>3
<1>12. CASE th[t].ctl /\ isRunning /\ s # None /\ th[s].state # "IDLE"
  <2> DEFINE b == Idle("boot", "STARTING")
             x == [b EXCEPT !.code = th[s].code]
  <2>1. /\ b \in Thread /\ b.pc = "boot" /\ b.state = "STARTING" /\ b.cur = None /\ ~b.stopping
    BY IdleTyped DEF SlotPcs, States
  <2>2. th[s].code \in {0, 1, 2}
    BY <1>1, <1>3, <1>12 DEF Thread
  <2>3. f = [th EXCEPT ![t] = r, ![s] = x]
    BY <1>1, <1>2, <1>3, <1>12 DEF HandOver
  <2> HIDE DEF b
  <2>4. x \in Thread /\ x.pc = "boot" /\ x.state = "STARTING" /\ x.cur = None /\ ~x.stopping
    BY <2>1, <2>2 DEF Thread
  <2> HIDE DEF r, x
  <2>5. f \in [Procs -> Thread] /\ f[t] = r /\ f[s] = x /\ \A q \in Procs \ {t, s} : f[q] = th[q]
    BY <1>1, <1>3, <1>7, <1>12, <2>3, <2>4
  <2>6. Booted(s, x)
    BY <1>3, <1>6, <1>12, <2>4 DEF Booted
  <2> QED BY <1>3, <1>4, <1>5, <1>7, <1>8, <1>12, <2>5, <2>6
<1> QED BY <1>9, <1>10, <1>11, <1>12

LEMMA LikeKept ==
    ASSUME NEW q \in Procs, NEW y, Like(th'[q], y)
    PROVE  (Like(y, th[q]) => Kept(q)) /\ (Booted(q, y) => Fresh(q))
BY DEF Like, Kept, Booted, Fresh

LEMMA FrontTyped ==
    ASSUME NEW s \in Seq(Procs), s # << >>
    PROVE  Front(s) \in Seq(Procs)
BY DEF Front

LEMMA DispatchGoneStep ==
    ASSUME IInv, NEW t \in Slots, DispatchGone(t)
    PROVE  IInv'
<1>1. /\ th[t].pc = "dispatch" /\ lock = None /\ lock' = t /\ Yield(t)
      /\ reentrancyLock' \in {reentrancyLock, None} /\ UNCHANGED <<queue, now, ghosts>>
      /\ t \in Procs /\ th \in [Procs -> Thread] /\ th[t] \in Thread /\ SlotOK(t) /\ Types
      /\ size \in Nat /\ t \in Nat /\ t < size
      /\ \A u \in Users : th[u].pc = "starting" => ~th[t].stopping
  BY SlotKnown DEF DispatchGone, At, Take
<1>2. PICK f : f = HandOver(t)
  OBVIOUS
<1>3. /\ f \in [Procs -> Thread] /\ Like(f[t], th[t])
      /\ \A q \in Procs \ {t} : Like(f[q], th[q]) \/ Booted(q, f[q])
      /\ size' \in 1..MaxSlots /\ size <= size'
      /\ controllerIdx' \in {controllerIdx, -1} /\ isRunning' = isRunning
  BY <1>1, <1>2, HandOverOK
<1> DEFINE r == [f[t] EXCEPT !.pc = "loop", !.top = None, !.seen = 0]
<1>4. th' = [f EXCEPT ![t] = r]
  BY <1>1, <1>2, <1>3 DEF DispatchGone
<1>5. r \in Thread
  <2>1. f[t] \in Thread
    BY <1>1, <1>3
  <2> QED BY <2>1 DEF Thread, SlotPcs
<1>6. /\ r.pc = "loop" /\ r.state = th[t].state /\ r.stopping = th[t].stopping
      /\ r.cur = th[t].cur
  BY <1>1, <1>3 DEF Thread, Like
<1> HIDE DEF r
<1>7. th' \in [Procs -> Thread] /\ th'[t] = r /\ \A q \in Procs \ {t} : th'[q] = f[q]
  BY <1>1, <1>3, <1>4, <1>5
<1>8. \A q \in Procs \ {t} : Kept(q) \/ Fresh(q)
  <2> TAKE q \in Procs \ {t}
  <2>1. Like(th'[q], f[q])
    BY <1>7 DEF Like
  <2> QED BY <1>3, <2>1, LikeKept
<1>9. Types'
  BY <1>1, <1>3, <1>7 DEF Types, queue, ghosts
<1>10. Frame(t)
  BY <1>1, <1>3, <1>6, <1>7, <1>8, ProcsApart DEF Frame, queue, ghosts, None
<1>11. Moves(t, None)
  BY <1>1, <1>6, <1>7, ProcsApart DEF Moves, Runs, Waits, queue
<1>12. CountMatches' /\ removed' = removed
  BY <1>1, CountSame DEF IInv, queue, ghosts
<1>13. SlotOK(t)' /\ Watch(t)'
  <2>1. ~(t >= size')
    BY <1>1, <1>3, <1>9 DEF Types
  <2> QED BY <1>1, <1>3, <1>6, <1>7, <2>1 DEF SlotOK, Watch, InHandler, StatesAt, SlotPcs, ExitPcs, WatchPcs, RunPcs
<1>14. (\E u \in Users : th[u].pc = "starting") => Booting'
  BY <1>1, <1>3, <1>6, <1>7, <1>10, BootKeptSlot
<1> QED BY <1>1, <1>9, <1>10, <1>11, <1>12, <1>13, <1>14, StepKeeps, ProcsApart

\* An alarm of the set is nowhere else.
LEMMA Alone ==
    ASSUME IInv, NEW a \in alarms
    PROVE  /\ a \in Alarms /\ a \in added /\ a # None /\ ~Gone(a)
           /\ \A q \in Procs : ~Runs(q, a) /\ ~Waits(q, a)
BY ProcsApart DEF IInv, Types, Places, Gone

LEMMA DispatchStep ==
    ASSUME IInv, NEW t \in Slots, Dispatch(t)
    PROVE  IInv'
<1>1. /\ th[t].pc = "dispatch" /\ lock = None /\ lock' = lock /\ Yield(t)
      /\ UNCHANGED <<alarmTime, reentrancyLock, now, ghosts>>
      /\ t \in Procs /\ th \in [Procs -> Thread] /\ th[t] \in Thread /\ SlotOK(t) /\ Types
      /\ size \in Nat /\ t \in Nat /\ t < size
      /\ \A u \in Users : th[u].pc = "starting" => ~th[t].stopping
  BY SlotKnown DEF Dispatch, At, Free
<1>2. PICK f : f = HandOver(t)
  OBVIOUS
<1>3. /\ f \in [Procs -> Thread] /\ Like(f[t], th[t])
      /\ \A q \in Procs \ {t} : Like(f[q], th[q]) \/ Booted(q, f[q])
      /\ size' \in 1..MaxSlots /\ size <= size'
      /\ controllerIdx' \in {controllerIdx, -1} /\ isRunning' = isRunning
  BY <1>1, <1>2, HandOverOK
<1>4. PICK x \in alarms : x = th[t].top /\ Erase(x)
  BY DEF Dispatch
<1>5. /\ x \in Alarms /\ x \in added /\ x # None /\ ~Gone(x)
      /\ \A q \in Procs : ~Runs(q, x) /\ ~Waits(q, x)
  BY Alone
<1> DEFINE r == [f[t] EXCEPT !.pc = "handler", !.cur = x]
           h == [f EXCEPT ![t] = r]
<1>6. th' = WakeAdder(h)
  BY <1>1, <1>2, <1>3, <1>4 DEF Dispatch
<1>7. r \in Thread
  <2>1. f[t] \in Thread
    BY <1>1, <1>3
  <2> QED BY <1>5, <2>1 DEF Thread, SlotPcs, RunPcs
<1>8. /\ r.pc = "handler" /\ r.state = th[t].state /\ r.stopping = th[t].stopping
      /\ r.cur = x /\ r.top = x
  BY <1>1, <1>3, <1>4 DEF Thread, Like
<1> HIDE DEF r
<1>9. h \in [Procs -> Thread] /\ h[t] = r /\ \A q \in Procs \ {t} : h[q] = f[q]
  BY <1>1, <1>3, <1>7
<1> HIDE DEF h
<1>10. th' \in [Procs -> Thread] /\ \A q \in Procs : Like(th'[q], h[q])
  BY <1>6, <1>9, WakeAdderOK
<1>11. /\ th'[t].pc = "handler" /\ th'[t].state = th[t].state /\ th'[t].stopping = th[t].stopping
       /\ th'[t].cur = x /\ th'[t].top = x
  BY <1>1, <1>8, <1>9, <1>10 DEF Like
<1>12. \A q \in Procs \ {t} : Kept(q) \/ Fresh(q)
  <2> TAKE q \in Procs \ {t}
  <2>1. Like(th'[q], f[q])
    BY <1>9, <1>10
  <2> QED BY <1>3, <2>1, LikeKept
<1>13. alarms' = alarms \ {x}
  BY <1>4 DEF Erase
<1>14. addWaitQueue' \in Seq(Procs)
  BY <1>1, FrontTyped DEF Dispatch, Types
<1>15. Types'
  BY <1>1, <1>3, <1>10, <1>13, <1>14 DEF Types, ghosts
<1>16. Frame(t)
  BY <1>1, <1>3, <1>11, <1>12, <1>13, ProcsApart DEF Frame, ghosts, None
<1>17. Moves(t, x)
  BY <1>1, <1>5, <1>11, <1>13 DEF Moves, Runs, Waits, ghosts
<1>18. CountMatches' /\ removed' = removed
  BY <1>1, <1>4, CountErase DEF IInv, ghosts
<1>19. SlotOK(t)' /\ Watch(t)'
  <2>1. ~(t >= size')
    BY <1>1, <1>3, <1>15 DEF Types
  <2> QED BY <1>1, <1>3, <1>5, <1>11, <2>1 DEF SlotOK, Watch, InHandler, StatesAt, SlotPcs, ExitPcs, WatchPcs, RunPcs
<1>20. (\E u \in Users : th[u].pc = "starting") => Booting'
  BY <1>1, <1>3, <1>11, <1>16, BootKeptSlot DEF RunPcs
<1> QED BY <1>1, <1>15, <1>16, <1>17, <1>18, <1>19, <1>20, StepKeeps, ProcsApart

LEMMA ThreadExitStep ==
    ASSUME IInv, NEW t \in Slots, ThreadExit(t)
    PROVE  IInv'
<1>1. /\ th[t].pc = "exit" /\ lock = None /\ lock' = lock
      /\ UNCHANGED <<alarmTime, addWaitQueue, reentrancyLock, pool, now, ghosts>>
      /\ t \in Procs /\ th \in [Procs -> Thread] /\ th[t] \in Thread /\ SlotOK(t) /\ Types
      /\ size \in Nat /\ t \in Nat /\ t < size
      /\ \A u \in Users : th[u].pc # "starting"
  BY SlotKnown DEF ThreadExit, At, Free, BootPcs, WatchPcs, RunPcs
<1>2. CASE ~isRunning /\ ExpireOnExit /\ alarms # {}
  <2>1. PICK x \in alarms : x = First /\ Erase(x)
    BY <1>1, <1>2, FirstIn DEF ThreadExit
  <2>2. /\ x \in Alarms /\ x \in added /\ x # None /\ ~Gone(x)
        /\ \A q \in Procs : ~Runs(q, x) /\ ~Waits(q, x)
    BY Alone
  <2> DEFINE pc == IF PreventReentrancy THEN "exitClaim" ELSE "exitHandler"
             r == [th[t] EXCEPT !.pc = pc, !.cur = x]
  <2>3. pc \in {"exitClaim", "exitHandler"}
    OBVIOUS
  <2>4. th' = [th EXCEPT ![t] = r]
    BY <1>1, <1>2, <2>1 DEF ThreadExit
  <2> HIDE DEF pc
  <2>5. r \in Thread
    BY <1>1, <2>2, <2>3 DEF Thread, SlotPcs, ExitPcs
  <2>6. r.pc = pc /\ r.state = th[t].state /\ r.cur = x /\ r.stopping = th[t].stopping
    BY <1>1 DEF Thread
  <2> HIDE DEF r
  <2>7. /\ th' \in [Procs -> Thread] /\ th'[t] = r
        /\ \A q \in Procs \ {t} : th'[q] = th[q] /\ Kept(q)
    BY <1>1, <2>4, <2>5, SetOne
  <2>8. alarms' = alarms \ {x}
    BY <2>1 DEF Erase
  <2>9. Types'
    BY <1>1, <2>7, <2>8 DEF Types, pool, ghosts
  <2>10. Frame(t)
    BY <1>1, <2>3, <2>6, <2>7, <2>8 DEF Frame, pool, ghosts
  <2>11. Moves(t, x)
    BY <1>1, <2>2, <2>3, <2>6, <2>7, <2>8 DEF Moves, Runs, Waits, ghosts
  <2>12. CountMatches' /\ removed' = removed
    BY <1>1, <2>1, CountErase DEF IInv, ghosts
  <2>13. SlotOK(t)' /\ Watch(t)'
    BY <1>1, <1>2, <2>2, <2>3, <2>6, <2>7 DEF SlotOK, Watch, InHandler, StatesAt, SlotPcs, ExitPcs, WatchPcs, RunPcs, pool
  <2> QED BY <1>1, <2>9, <2>10, <2>11, <2>12, <2>13, StepKeeps, ProcsApart
<1>3. CASE ~(~isRunning /\ ExpireOnExit /\ alarms # {})
  <2> DEFINE r == [th[t] EXCEPT !.pc = "off", !.cur = None, !.state = "STOPPED"]
  <2>1. r \in Thread
    BY <1>1 DEF Thread, SlotPcs, States
  <2>2. th' = [th EXCEPT ![t] = r] /\ UNCHANGED <<alarms, numLimitableAlarms>>
    BY <1>1, <1>3 DEF ThreadExit
  <2>3. /\ th'[t] = r /\ r.pc = "off" /\ r.state = "STOPPED" /\ r.cur = None
        /\ r.stopping = th[t].stopping
    BY <1>1, <2>2 DEF Thread
  <2> HIDE DEF r
  <2>4. SlotOK(t)' /\ Watch(t)'
    BY <1>1, <2>3 DEF SlotOK, Watch, InHandler, StatesAt, SlotPcs, ExitPcs, WatchPcs, RunPcs, pool
  <2> QED BY <1>1, <2>1, <2>2, <2>3, <2>4, SoloStep DEF Locks, pool, ghosts
<1> QED BY <1>2, <1>3

LEMMA AlertControllerOK ==
    ASSUME NEW f \in [Procs -> Thread], NEW a, NEW w, NEW g, g = AlertController(f, a, w)
    PROVE  g \in [Procs -> Thread] /\ \A q \in Procs : Like(g[q], f[q])
<1>1. CASE g = f
  BY <1>1 DEF Like
<1>2. CASE g = [f EXCEPT ![controllerIdx].alerted = TRUE]
  <2>1. PICK c : c = controllerIdx
    OBVIOUS
  <2> QED BY <1>2, <2>1, AlertOne
<1> QED BY <1>1, <1>2 DEF AlertController

\* The controller hears of an alarm that is put before all others.
LEMMA AlertAnnounces ==
    ASSUME Types, NEW f \in [Procs -> Thread], NEW a \in Alarms,
           th' = AlertController(f, a, alarmTime[a]),
           \A t \in Slots : th[t].state = "IDLE" => f[t].state = "IDLE"
    PROVE  Announced(a)
<1> SUFFICES ASSUME controllerIdx \in Slots, th[controllerIdx].state = "IDLE",
                    ~th'[controllerIdx].alerted
             PROVE  \E b \in alarms : alarmTime[b] <= alarmTime[a]
  BY DEF Announced
<1>1. PICK c \in Slots : c = controllerIdx
  OBVIOUS
<1>2. c \in Procs /\ c >= 0 /\ f[c].state = "IDLE" /\ ~th'[c].alerted
  BY <1>1, ProcsApart DEF Procs
<1>3. th' # [f EXCEPT ![c].alerted = TRUE]
  BY <1>2, AlertOne
<1>4. ~(\A b \in alarms : alarmTime[a] < alarmTime[b] \/ (alarmTime[a] = alarmTime[b] /\ a < b))
  BY <1>1, <1>2, <1>3 DEF AlertController
<1>5. PICK b \in alarms : ~(alarmTime[a] < alarmTime[b])
  BY <1>4
<1>6. alarmTime[a] \in Nat /\ alarmTime[b] \in Nat
  BY DEF Types
<1> QED BY <1>5, <1>6

LEMMA ReturnedStep ==
    ASSUME IInv, NEW t \in Slots, Returned(t)
    PROVE  IInv'
<1>1. /\ th[t].pc = "returned" /\ lock = None /\ lock' = t
      /\ UNCHANGED <<reentrancyLock, pool, now, ghosts>>
      /\ t \in Procs /\ th \in [Procs -> Thread] /\ th[t] \in Thread /\ SlotOK(t) /\ Types
      /\ size \in Nat /\ t \in Nat /\ t < size
      /\ \A u \in Users : th[u].pc = "starting" => ~th[t].stopping /\ ~isRunning
  BY SlotKnown DEF Returned, At, Take
<1>2. PICK a \in Alarms : a = th[t].top /\ a = th[t].cur
  BY <1>1 DEF SlotOK, InHandler
<1>3. /\ a \in added /\ a \notin alarms /\ a # None
      /\ \A q \in Procs \ {t} : ~Runs(q, a) /\ ~Waits(q, a)
  BY <1>1, <1>2, ProcsApart DEF IInv, Places, Runs
<1> DEFINE code == IF th[t].code = 2 THEN 0 ELSE th[t].code
           d == [th[t] EXCEPT !.pc = "loop", !.cur = None, !.top = None, !.seen = 0, !.code = code]
           t0 == [th EXCEPT ![t] = d]
<1>4. Done(t) = t0
  BY <1>1 DEF Done
<1>5. code \in {0, 1, 2}
  BY <1>1 DEF Thread
<1> HIDE DEF code
<1>6. d \in Thread
  BY <1>1, <1>5 DEF Thread, SlotPcs
<1>7. /\ d.pc = "loop" /\ d.state = th[t].state /\ d.cur = None /\ d.stopping = th[t].stopping
  BY <1>1 DEF Thread
<1> HIDE DEF d
<1>8. CASE Period[a] = 0
  <2>1. th' = [th EXCEPT ![t] = d] /\ UNCHANGED queue
    BY <1>2, <1>4, <1>8 DEF Returned
  <2>2. th'[t] = d
    BY <1>1, <2>1
  <2>3. SlotOK(t)' /\ Watch(t)'
    BY <1>1, <1>7, <2>2 DEF SlotOK, Watch, InHandler, StatesAt, SlotPcs, ExitPcs, WatchPcs, RunPcs, pool
  <2> QED BY <1>1, <1>6, <1>7, <2>1, <2>2, <2>3, SoloStep DEF Locks, queue, pool, ghosts, BootPcs
<1>9. CASE Period[a] # 0
  <2>1. t0 \in [Procs -> Thread] /\ t0[t] = d /\ \A q \in Procs \ {t} : t0[q] = th[q]
    BY <1>1, <1>6
  <2> HIDE DEF t0
  <2>2. ~NoPeriods /\ ~Gone(a)
    BY <1>9 DEF NoPeriods, Gone
  <2>3. alarmTime' \in [Alarms -> Nat]
    <3> DEFINE next == alarmTime[a] + Period[a]
               w == IF next < th[t].seen THEN th[t].seen ELSE next
    <3>1. w \in Nat
      BY <1>1, TimerAssumption DEF Types, Thread
    <3>2. alarmTime' = [alarmTime EXCEPT ![a] = w]
      BY <1>2, <1>9 DEF Returned
    <3> HIDE DEF w
    <3> QED BY <1>1, <3>1, <3>2 DEF Types
  <2>4. ASSUME th' \in [Procs -> Thread], Like(th'[t], d),
               \A q \in Procs \ {t} : Like(th'[q], th[q]),
               addWaitQueue' = addWaitQueue,
               \/ UNCHANGED <<alarms, numLimitableAlarms>>
               \/ Insert(a)
        PROVE  IInv'
    <3>1. /\ th'[t].pc = "loop" /\ th'[t].state = th[t].state /\ th'[t].cur = None
          /\ th'[t].stopping = th[t].stopping
      BY <1>7, <2>4 DEF Like
    <3>2. \A b \in Alarms \ {a} : b \in alarms' => b \in alarms
      BY <2>4 DEF Insert
    <3>3. Types'
      BY <1>1, <1>3, <2>3, <2>4 DEF Types, pool, ghosts, Insert
    <3>4. \A q \in Procs \ {t} : Kept(q)
      BY <2>4 DEF Like, Kept
    <3>5. Frame(t)
      BY <1>1, <2>2, <3>1, <3>4, ProcsApart DEF Frame, pool, ghosts
    <3>6. Moves(t, a)
      BY <1>1, <1>3, <2>2, <3>1, <3>2, ProcsApart DEF Moves, Runs, Waits, ghosts
    <3>7. CountMatches' /\ removed' = removed
      BY <1>1, <1>3, <2>4, CountInsert, CountSame DEF IInv, ghosts
    <3>8. SlotOK(t)' /\ Watch(t)'
      BY <1>1, <3>1 DEF SlotOK, Watch, InHandler, StatesAt, SlotPcs, ExitPcs, WatchPcs, RunPcs, pool
    <3>9. (\E u \in Users : th[u].pc = "starting") => Booting'
      BY <1>1, <3>1, <3>5, BootKeptSlot DEF pool
    <3> QED BY <1>1, <3>3, <3>5, <3>6, <3>7, <3>8, <3>9, StepKeeps, ProcsApart
  <2>5. CASE ~isRunning /\ th' = Done(t) /\ UNCHANGED <<alarms, numLimitableAlarms, addWaitQueue>>
    BY <1>4, <2>1, <2>4, <2>5 DEF Like
  <2>6. CASE isRunning /\ EnterWait(Done(t), t, a)
    <3> DEFINE r == [d EXCEPT !.pc = "addWait", !.arg = a]
    <3>1. th' = [t0 EXCEPT ![t] = r]
      BY <1>1, <1>4, <2>1, <2>6 DEF EnterWait
    <3>2. r \in Thread
      BY <1>6 DEF Thread, SlotPcs
    <3>3. /\ r.pc = "addWait" /\ r.arg = a /\ r.state = th[t].state /\ r.cur = None
          /\ r.stopping = th[t].stopping
      BY <1>6, <1>7 DEF Thread
    <3> HIDE DEF r
    <3>4. th' \in [Procs -> Thread] /\ th'[t] = r /\ \A q \in Procs \ {t} : th'[q] = th[q]
      BY <1>1, <2>1, <3>1, <3>2
    <3>5. UNCHANGED <<alarms, numLimitableAlarms>> /\ addWaitQueue' \in Seq(Procs)
      BY <1>1, <2>6 DEF EnterWait, Types
    <3>6. Types'
      BY <1>1, <2>3, <3>4, <3>5 DEF Types, pool, ghosts
    <3>7. \A q \in Procs \ {t} : Kept(q)
      BY <3>4 DEF Kept
    <3>8. Frame(t)
      BY <1>1, <2>2, <3>3, <3>4, <3>7, ProcsApart DEF Frame, pool, ghosts
    <3>9. Moves(t, a)
      BY <1>1, <1>3, <2>2, <3>3, <3>4, <3>5, ProcsApart DEF Moves, Runs, Waits, ghosts
    <3>10. CountMatches' /\ removed' = removed
      BY <1>1, <3>5, CountSame DEF IInv, ghosts
    <3>11. SlotOK(t)' /\ Watch(t)'
      BY <1>1, <3>3, <3>4 DEF SlotOK, Watch, InHandler, StatesAt, SlotPcs, ExitPcs, WatchPcs, RunPcs, pool
    <3>12. \A u \in Users : th[u].pc # "starting"
      BY <1>1, <2>6
    <3> QED BY <1>1, <3>6, <3>8, <3>9, <3>10, <3>11, <3>12, StepKeeps, ProcsApart
  <2>7. CASE isRunning /\ Put(Done(t), a, alarmTime'[a]) /\ UNCHANGED addWaitQueue
    <3>1. PICK w : w = alarmTime'[a]
      OBVIOUS
    <3>2. th' = AlertController(t0, a, w) /\ Insert(a)
      BY <1>4, <2>7, <3>1 DEF Put, Insert
    <3>3. th' \in [Procs -> Thread] /\ \A q \in Procs : Like(th'[q], t0[q])
      BY <2>1, <3>2, AlertControllerOK
    <3> QED BY <1>1, <2>1, <2>4, <2>7, <3>2, <3>3
  <2> QED BY <1>2, <1>9, <2>5, <2>6, <2>7 DEF Returned
<1> QED BY <1>8, <1>9

-----------------------------------------------------------------------------
(* AddAlarm.                                                               *)

LEMMA RemoveFirstTyped ==
    ASSUME NEW s \in Seq(Procs), NEW e
    PROVE  RemoveFirst(s, e) \in Seq(Procs)
<1> DEFINE I == {i \in 1..Len(s) : s[i] = e}
<1>1. CASE \E i \in 1..Len(s) : s[i] = e
  <2>1. RemoveFirst(s, e) = RemoveAt(s, Min(I))
    BY <1>1 DEF RemoveFirst, SelectInSeq
  <2>2. \E x \in I : \A y \in I : x <= y
    <3>1. I \in SUBSET Nat /\ I # {}
      BY <1>1
    <3> HIDE DEF I
    <3> QED BY <3>1, LeastExists
  <2>3. PICK n \in I : n = Min(I)
    BY <2>2 DEF Min
  <2>4. n \in 1..Len(s) /\ RemoveFirst(s, e) = SubSeq(s, 1, n - 1) \o SubSeq(s, n + 1, Len(s))
    BY <2>1, <2>3 DEF RemoveAt
  <2>5. SubSeq(s, 1, n - 1) \in Seq(Procs) /\ SubSeq(s, n + 1, Len(s)) \in Seq(Procs)
    BY <2>4
  <2> QED BY <2>4, <2>5
<1>2. CASE ~\E i \in 1..Len(s) : s[i] = e
  BY <1>2 DEF RemoveFirst
<1> QED BY <1>1, <1>2

\* An alarm that p alone has, waiting, or that is new, goes into the set.
LEMMA PutStep ==
    ASSUME IInv, NEW p \in Procs, NEW f \in [Procs -> Thread], NEW a \in Alarms,
           isRunning, a \notin alarms, ~Gone(a), ~Runs(p, a),
           \A q \in Procs \ {p} : f[q] = th[q] /\ ~Runs(q, a) /\ ~Waits(q, a),
           f[p].cur = th[p].cur, f[p].state = th[p].state, f[p].stopping = th[p].stopping,
           f[p].top = th[p].top,
           p \in Users => f[p].pc = "user",
           p \in Slots => /\ th[p].state = "RUNNING" /\ f[p].pc \in {"loop", "handler"}
                          /\ th[p].pc # "off"
                          /\ f[p].pc = "handler" => th[p].cur = th[p].top /\ th[p].top \in Alarms,
           Put(f, a, alarmTime[a]), Locks(p), addWaitQueue' \in Seq(Procs),
           UNCHANGED <<alarmTime, reentrancyLock, isRunning, size, controllerIdx, now, removed>>,
           added \subseteq added', added' \subseteq Alarms, a \in added'
    PROVE  IInv'
<1>1. /\ Types /\ size \in Nat /\ lock' \in Procs \cup {None}
      /\ \A q \in Procs \ {p} : lock' # q => lock # q
  BY LocksKept, TimerAssumption, SMTT(30) DEF IInv, Types
<1>2. th' = AlertController(f, a, alarmTime[a]) /\ Insert(a)
  BY DEF Put, Insert
<1>3. th' \in [Procs -> Thread] /\ \A q \in Procs : Like(th'[q], f[q])
  <2>1. PICK w : w = alarmTime[a]
    OBVIOUS
  <2> QED BY <1>2, <2>1, AlertControllerOK
<1>4. Announced(a)
  <2>1. \A t \in Slots : th[t].state = "IDLE" => f[t].state = "IDLE"
    BY DEF Procs
  <2> QED BY <1>1, <1>2, <2>1, AlertAnnounces
<1>5. \A q \in Procs \ {p} : Kept(q)
  BY <1>3 DEF Like, Kept
<1>6. /\ th'[p].cur = th[p].cur /\ th'[p].state = th[p].state /\ th'[p].stopping = th[p].stopping
      /\ th'[p].top = th[p].top /\ th'[p].pc = f[p].pc
  BY <1>3 DEF Like
<1>7. f[p].pc \in {"user", "loop", "handler"}
  BY DEF Procs
<1>8. alarms' = alarms \cup {a}
  BY <1>2 DEF Insert
<1>9. Types'
  BY <1>1, <1>3, <1>8 DEF Types
<1>10. Frame(p)
  BY <1>1, <1>4, <1>5, <1>6, <1>7, <1>8 DEF Frame
<1>11. Moves(p, a)
  BY <1>6, <1>7, <1>8 DEF Moves, Runs, Waits
<1>12. CountMatches'
  BY <1>1, <1>2, CountInsert DEF IInv
<1>13. \A u \in Users : th[u].pc # "starting"
  BY DEF IInv, UserOK, Booting
<1>14. ASSUME p \in Slots PROVE SlotOK(p)' /\ Watch(p)'
  <2>1. SlotOK(p) /\ p \in Nat /\ p < size
    BY <1>14, SlotKnown
  <2> QED BY <1>6, <1>14, <2>1 DEF SlotOK, Watch, InHandler, StatesAt, SlotPcs, ExitPcs, WatchPcs, RunPcs
<1>15. ASSUME p \in Users PROVE UserOK(p)'
  BY <1>6, <1>15 DEF IInv, UserOK, UserPcs
<1> QED BY <1>9, <1>10, <1>11, <1>12, <1>13, <1>14, <1>15, StepKeeps

\* A new alarm is nowhere.
LEMMA NewAlone ==
    ASSUME IInv, NEW a \in Alarms \ added
    PROVE  /\ a \notin alarms /\ ~Gone(a)
           /\ \A q \in Procs : ~Runs(q, a) /\ ~Waits(q, a)
BY DEF IInv, Types, Places, Gone

LEMMA NobodyStarting ==
    ASSUME IInv, isRunning
    PROVE  \A u \in Users : th[u].pc # "starting"
BY DEF IInv, UserOK, Booting

\* An alarm is created, and refused.
LEMMA RefusedStep ==
    ASSUME IInv, NEW p \in Procs, added \subseteq added', added' \subseteq Alarms,
           UNCHANGED <<lock, reentrancyLock, queue, pool, th, now, removed>>
    PROVE  IInv'
<1>1. Types'
  BY DEF IInv, Types, queue, pool
<1>2. CountMatches' /\ Places' /\ Over'
  BY DEF IInv, CountMatches, Places, Over, Runs, Waits, Gone, queue
<1>3. \A t \in Slots : SlotOK(t)' /\ (NoPeriods => Watch(t)')
  BY DEF IInv, SlotOK, Watch, InHandler, queue, pool
<1>4. Booting' = Booting
  BY DEF Booting, pool
<1>5. \A u \in Users : UserOK(u)'
  BY <1>4 DEF IInv, UserOK, Gone, Runs, Waits, OneShot, queue
<1> QED BY <1>1, <1>2, <1>3, <1>5 DEF IInv, NoPeriods

\* A caller of AddAlarm has to wait.
LEMMA EnterWaitStep ==
    ASSUME IInv, NEW p \in Procs, NEW a \in Alarms \ added, isRunning,
           p \in Users => th[p].pc = "user",
           p \in Slots => th[p].pc \in {"handler", "exitHandler"},
           lock = None, UNCHANGED <<lock, reentrancyLock, alarmTime, pool, now, removed>>,
           added' = added \cup {a}, EnterWait(th, p, a)
    PROVE  IInv'
<1> DEFINE r == [th[p] EXCEPT !.pc = "addWait", !.arg = a]
<1>1. Types /\ th \in [Procs -> Thread] /\ th[p] \in Thread /\ size \in Nat
  BY TimerAssumption DEF IInv, Types
<1>2. r \in Thread
  BY <1>1 DEF Thread, SlotPcs
<1>3. th' = [th EXCEPT ![p] = r]
  BY <1>1 DEF EnterWait
<1>4. /\ r.pc = "addWait" /\ r.arg = a /\ r.cur = th[p].cur /\ r.state = th[p].state
      /\ r.stopping = th[p].stopping /\ r.top = th[p].top
  BY <1>1 DEF Thread
<1> HIDE DEF r
<1>5. /\ th' \in [Procs -> Thread] /\ th'[p] = r
      /\ \A q \in Procs \ {p} : th'[q] = th[q] /\ Kept(q)
  BY <1>1, <1>2, <1>3, SetOne
<1>6. UNCHANGED <<alarms, numLimitableAlarms>> /\ addWaitQueue' \in Seq(Procs)
  BY <1>1 DEF EnterWait, Types
<1>7. a \notin alarms /\ ~Gone(a) /\ \A q \in Procs : ~Runs(q, a) /\ ~Waits(q, a)
  BY NewAlone
<1>8. Types'
  BY <1>1, <1>5, <1>6 DEF Types, pool
<1>9. Frame(p)
  BY <1>1, <1>4, <1>5, <1>6 DEF Frame, pool
<1>10. Moves(p, a)
  BY <1>4, <1>5, <1>6, <1>7 DEF Moves, Runs, Waits
<1>11. CountMatches'
  BY <1>6, CountSame DEF IInv
<1>12. ASSUME p \in Slots PROVE SlotOK(p)' /\ Watch(p)'
  <2>1. SlotOK(p) /\ th[p].pc = "handler" /\ p \in Nat /\ p < size /\ lock' # p
    BY <1>12, SlotKnown, ProcsApart DEF SlotOK
  <2> QED BY <1>4, <1>5, <2>1 DEF SlotOK, Watch, InHandler, StatesAt, SlotPcs, ExitPcs, WatchPcs, RunPcs, pool
<1>13. ASSUME p \in Users PROVE UserOK(p)'
  BY <1>4, <1>5, <1>13 DEF IInv, UserOK, UserPcs
<1> QED BY <1>8, <1>9, <1>10, <1>11, <1>12, <1>13, NobodyStarting, StepKeeps

LEMMA AddAlarmStep ==
    ASSUME IInv, NEW p \in Procs, NEW a \in Alarms, AddAlarm(p, a)
    PROVE  IInv'
<1>1. /\ a \in Alarms \ added /\ added' = added \cup {a} /\ lock = None /\ lock' = lock
      /\ UNCHANGED <<alarmTime, reentrancyLock, pool, now, removed, starts>>
      /\ added' \subseteq Alarms
      /\ p \in Users => th[p].pc = "user"
      /\ p \in Slots => th[p].pc \in {"handler", "exitHandler"}
  BY ProcsApart DEF AddAlarm, Free, Call, Handling, At, IInv, Types
<1>2. CASE ~isRunning /\ UNCHANGED <<th, alarms, numLimitableAlarms, addWaitQueue>>
  BY <1>1, <1>2, RefusedStep DEF queue
<1>3. CASE isRunning /\ EnterWait(th, p, a)
  BY <1>1, <1>3, EnterWaitStep
<1>4. CASE isRunning /\ Put(th, a, alarmTime[a]) /\ UNCHANGED addWaitQueue
  <2>1. a \notin alarms /\ ~Gone(a) /\ \A q \in Procs : ~Runs(q, a) /\ ~Waits(q, a)
    BY <1>1, NewAlone
  <2>2. ASSUME p \in Slots
        PROVE  /\ th[p].state = "RUNNING" /\ th[p].pc = "handler"
               /\ th[p].cur = th[p].top /\ th[p].top \in Alarms
    <3>1. SlotOK(p)
      BY <2>2 DEF IInv
    <3> QED BY <1>1, <1>4, <2>2, <3>1 DEF SlotOK, InHandler, StatesAt, WatchPcs, RunPcs
  <2>3. th \in [Procs -> Thread] /\ addWaitQueue \in Seq(Procs)
    BY DEF IInv, Types
  <2> QED BY <1>1, <1>4, <2>1, <2>2, <2>3, PutStep DEF Locks, pool
<1> QED BY <1>2, <1>3, <1>4 DEF AddAlarm

LEMMA AddAlarmNonBlockingStep ==
    ASSUME IInv, NEW u \in Users, NEW a \in Alarms, AddAlarmNonBlocking(u, a)
    PROVE  IInv'
<1>1. /\ a \in Alarms \ added /\ added' = added \cup {a} /\ lock = None /\ lock' = lock
      /\ UNCHANGED <<alarmTime, addWaitQueue, reentrancyLock, pool, now, removed, starts>>
      /\ added' \subseteq Alarms /\ th[u].pc = "user" /\ u \in Procs /\ u \notin Slots
  BY ProcsApart DEF AddAlarmNonBlocking, Free, Call, IInv, Types, Procs
<1>2. CASE UNCHANGED <<th, alarms, numLimitableAlarms>>
  BY <1>1, <1>2, RefusedStep DEF queue
<1>3. CASE isRunning /\ Put(th, a, alarmTime[a])
  <2>1. a \notin alarms /\ ~Gone(a) /\ \A q \in Procs : ~Runs(q, a) /\ ~Waits(q, a)
    BY <1>1, NewAlone
  <2>2. th \in [Procs -> Thread] /\ addWaitQueue \in Seq(Procs)
    BY DEF IInv, Types
  <2> QED BY <1>1, <1>3, <2>1, <2>2, PutStep DEF Locks, pool
<1> QED BY <1>2, <1>3 DEF AddAlarmNonBlocking

LEMMA AddAlarmWokenStep ==
    ASSUME IInv, NEW p \in Procs, AddAlarmWoken(p)
    PROVE  IInv'
<1>1. /\ th[p].pc = "addWait" /\ lock \in {None, p}
      /\ UNCHANGED <<alarmTime, reentrancyLock, pool, now, ghosts>>
      /\ Types /\ th \in [Procs -> Thread] /\ th[p] \in Thread /\ size \in Nat
  BY TimerAssumption DEF AddAlarmWoken, IInv, Types
<1>2. PICK a \in Alarms : a = th[p].arg
  BY <1>1 DEF IInv, SlotOK, UserOK, Procs
<1>3. /\ a \in added /\ a \notin alarms /\ ~Gone(a) /\ ~Runs(p, a)
      /\ \A q \in Procs \ {p} : ~Runs(q, a) /\ ~Waits(q, a)
  BY <1>1, <1>2 DEF IInv, Places, Waits, Gone
<1>4. p \in Slots => /\ th[p].state = "RUNNING" /\ SlotOK(p) /\ p \in Nat /\ p < size
                     /\ lock # p => th[p].cur = th[p].top /\ th[p].top \in Alarms
  BY <1>1, SlotKnown DEF SlotOK, InHandler, StatesAt, WatchPcs, RunPcs
<1> DEFINE inLoop == lock = p /\ p \in Slots
           pc == IF inLoop THEN "loop" ELSE Home(p)
           code == IF th[p].stopping THEN th[p].code ELSE 0
           r0 == [th[p] EXCEPT !.alerted = th[p].stopping, !.code = code]
           r1 == [r0 EXCEPT !.pc = pc, !.arg = None]
           t0 == [th EXCEPT ![p] = r0]
           t1 == [th EXCEPT ![p] = r1]
           q1 == RemoveFirst(addWaitQueue, p)
           L == IF inLoop THEN p ELSE None
<1>5. /\ p \in Users => pc = "user"
      /\ p \in Slots => pc = IF lock = p THEN "loop" ELSE "handler"
  <2>1. p \in Users => p \notin Slots
    BY ProcsApart
  <2>2. p \in Users => Home(p) = "user"
    BY DEF Home, IInv, UserOK
  <2>3. p \in Slots => Home(p) = "handler"
    BY <1>4, <2>1 DEF Home
  <2> QED BY <2>1, <2>2, <2>3
<1>6. q1 \in Seq(Procs) /\ L \in {None, p} /\ (p \in Slots /\ lock = p => L = p)
      /\ code \in {0, 1, 2} /\ (L = p => lock = p)
  BY <1>1, RemoveFirstTyped, ProcsApart DEF Types, Thread
<1>7. \/ /\ th' = t1 /\ addWaitQueue' = q1 /\ lock' = L
         /\ UNCHANGED <<alarms, numLimitableAlarms>>
      \/ /\ th' = t0 /\ addWaitQueue' = <<p>> \o q1 /\ UNCHANGED lock
         /\ UNCHANGED <<alarms, numLimitableAlarms>>
      \/ isRunning /\ Put(t1, a, alarmTime[a]) /\ addWaitQueue' = q1 /\ lock' = L
  BY <1>1, <1>2 DEF AddAlarmWoken
<1> HIDE DEF pc, code, q1, L
<1>8. /\ r0 \in Thread /\ r0.pc = "addWait" /\ r0.arg = a /\ r0.state = th[p].state
      /\ r0.cur = th[p].cur /\ r0.top = th[p].top /\ r0.stopping = th[p].stopping
  BY <1>1, <1>2, <1>6 DEF Thread
<1> HIDE DEF r0
<1>9. pc \in {"user", "loop", "handler"}
  BY <1>5 DEF Procs
<1>10. r1 \in Thread
  BY <1>8, <1>9 DEF Thread, SlotPcs, UserPcs, RunPcs
<1>11. /\ r1.pc = pc /\ r1.state = th[p].state /\ r1.cur = th[p].cur /\ r1.top = th[p].top
       /\ r1.stopping = th[p].stopping
  BY <1>8 DEF Thread
<1> HIDE DEF r1
<1>12. ASSUME NEW r \in Thread, th' = [th EXCEPT ![p] = r],
              UNCHANGED <<alarms, numLimitableAlarms>>, addWaitQueue' \in Seq(Procs), Locks(p),
              \/ r.pc = "addWait" /\ r.arg = a /\ lock' = lock
              \/ r.pc = pc /\ (p \in Slots /\ lock = p => lock' = p),
              r.state = th[p].state, r.cur = th[p].cur, r.top = th[p].top,
              r.stopping = th[p].stopping
       PROVE  IInv'
  <2>1. /\ th' \in [Procs -> Thread] /\ th'[p] = r
        /\ \A q \in Procs \ {p} : th'[q] = th[q] /\ Kept(q)
    BY <1>1, <1>12, SetOne
  <2>2. lock' \in Procs \cup {None} /\ \A q \in Procs \ {p} : lock' # q => lock # q
    BY <1>1, <1>12, LocksKept
  <2>3. Types'
    BY <1>1, <1>12, <2>1, <2>2 DEF Types, pool, ghosts
  <2>4. Frame(p)
    BY <1>1, <1>9, <1>12, <2>1, <2>2 DEF Frame, pool, ghosts
  <2>5. Moves(p, None)
    BY <1>1, <1>2, <1>9, <1>12, <2>1, ProcsApart DEF Moves, Runs, Waits
  <2>6. CountMatches' /\ removed' = removed
    BY <1>1, <1>12, CountSame DEF IInv, ghosts
  <2>7. ASSUME p \in Slots PROVE SlotOK(p)' /\ Watch(p)'
    BY <1>1, <1>4, <1>5, <1>12, <2>1, <2>7 DEF SlotOK, Watch, InHandler, StatesAt, SlotPcs, ExitPcs, WatchPcs, RunPcs, pool
  <2>8. ASSUME p \in Users PROVE UserOK(p)'
    BY <1>5, <1>12, <2>1, <2>8 DEF IInv, UserOK, UserPcs
  <2>9. (\E u \in Users : th[u].pc = "starting") => Booting'
    <3>1. CASE p \in Slots
      BY <1>1, <3>1, SlotKnown DEF BootPcs, WatchPcs, RunPcs
    <3>2. CASE p \in Users
      BY <1>1, <2>4, <3>2, BootKeptUser DEF pool
    <3> QED BY <3>1, <3>2 DEF Procs
  <2> QED BY <2>3, <2>4, <2>5, <2>6, <2>7, <2>8, <2>9, StepKeeps
<1>13. CASE /\ th' = t1 /\ addWaitQueue' = q1 /\ lock' = L
            /\ UNCHANGED <<alarms, numLimitableAlarms>>
  <2>1. Locks(p) /\ (p \in Slots /\ lock = p => lock' = p)
    BY <1>1, <1>6, <1>13 DEF Locks
  <2> QED BY <1>6, <1>10, <1>11, <1>12, <1>13, <2>1
<1>14. CASE /\ th' = t0 /\ addWaitQueue' = <<p>> \o q1 /\ UNCHANGED lock
            /\ UNCHANGED <<alarms, numLimitableAlarms>>
  <2>1. Locks(p) /\ addWaitQueue' \in Seq(Procs)
    BY <1>6, <1>14 DEF Locks
  <2> QED BY <1>8, <1>12, <1>14, <2>1
<1>15. CASE isRunning /\ Put(t1, a, alarmTime[a]) /\ addWaitQueue' = q1 /\ lock' = L
  <2>1. Locks(p)
    BY <1>1, <1>6, <1>15 DEF Locks
  <2>2. t1 \in [Procs -> Thread] /\ t1[p] = r1 /\ \A q \in Procs \ {p} : t1[q] = th[q]
    BY <1>1, <1>10
  <2> HIDE DEF t1
  <2>3. p \in Slots => /\ th[p].state = "RUNNING" /\ t1[p].pc \in {"loop", "handler"}
                       /\ th[p].pc # "off"
                       /\ t1[p].pc = "handler" => th[p].cur = th[p].top /\ th[p].top \in Alarms
    BY <1>1, <1>4, <1>5, <1>11, <2>2
  <2>4. p \in Users => t1[p].pc = "user"
    BY <1>5, <1>11, <2>2
  <2>5. added \subseteq added' /\ added' \subseteq Alarms /\ a \in added'
    BY <1>1, <1>3 DEF Types, ghosts
  <2> QED BY <1>1, <1>3, <1>6, <1>11, <1>15, <2>1, <2>2, <2>3, <2>4, <2>5, PutStep DEF pool, ghosts
<1> QED BY <1>7, <1>13, <1>14, <1>15

-----------------------------------------------------------------------------
(* The users' calls.                                                       *)

\* What is known of a user who waits, with record r, for handlers to return.
WaitOK(r) ==
    /\ r.pc = "removeWait" => r.arg \in Alarms /\ r.gone = {r.arg}
    /\ r.pc = "listenerWait" => \A a \in r.gone : Listener[a] = r.arg
    /\ r.pc \in {"removeWait", "listenerWait"} =>
           \A a \in OneShot(r.gone) : Gone(a) /\ \A t \in Slots : t < r.idx => ~Runs(t, a)

\* A user who takes alarms out of the set, but puts none in, and perhaps alerts
\* a thread.
LEMMA UserRemoves ==
    ASSUME IInv, NEW u \in Users, th' \in [Procs -> Thread], \A q \in Procs \ {u} : Kept(q),
           th'[u].pc \in UserPcs \ {"starting", "addWait"},
           th'[u].state = "user", th'[u].cur = None, WaitOK(th'[u]),
           alarms' \subseteq alarms, CountMatches',
           added \subseteq added', added' \subseteq Alarms,
           \A a \in removed' \ removed :
               /\ a \in added /\ Period[a] = 0 /\ a \notin alarms'
               /\ \A q \in Procs : ~Runs(q, a) /\ ~Waits(q, a),
           UNCHANGED <<lock, reentrancyLock, alarmTime, addWaitQueue>>,
           UNCHANGED <<controllerIdx, isRunning, size, now>>
    PROVE  IInv'
<1>1. u \in Procs /\ u \notin Slots /\ Types /\ size \in Nat
  BY ProcsApart, TimerAssumption DEF IInv, Types, Procs
<1>2. Types'
  BY <1>1 DEF Types
<1>3. Frame(u)
  BY <1>1 DEF Frame
<1>4. Moves(u, None)
  BY ProcsApart DEF Moves, Runs, Waits
<1>5. ASSUME NEW a \in removed' \ removed
      PROVE  Gone(a)' /\ \A q \in Procs : ~Runs(q, a)'
  <2>1. /\ a \in added /\ a \in Alarms /\ Period[a] = 0 /\ a \notin alarms'
        /\ \A q \in Procs : ~Runs(q, a) /\ ~Waits(q, a)
    BY <1>1 DEF Types
  <2>2. \A q \in Procs \ {u} : ~Runs(q, a)' /\ ~Waits(q, a)'
    BY <1>1, <1>3, <2>1, OthersHave
  <2>3. ~Runs(u, a)' /\ ~Waits(u, a)'
    BY <2>1, ProcsApart DEF Runs, Waits
  <2> QED BY <2>1, <2>2, <2>3 DEF Gone
<1>6. ASSUME th'[u].pc \in {"removeWait", "listenerWait"}, NEW a \in OneShot(th'[u].gone)
      PROVE  Gone(a)' /\ \A t \in Slots : t < th'[u].idx => ~Runs(t, a)'
  <2>1. Gone(a) /\ (\A t \in Slots : t < th'[u].idx => ~Runs(t, a)) /\ a \in Alarms
    BY <1>1, <1>6 DEF WaitOK, Gone, Types
  <2>2. Gone(a)' /\ \A q \in Procs : Runs(q, a)' => Runs(q, a)
    BY <1>1, <1>3, <1>4, <2>1, GoneStays
  <2> QED BY <2>1, <2>2 DEF Procs
<1>7. UserOK(u)'
  <2>1. /\ th'[u].pc = "removeWait" => th'[u].arg \in Alarms /\ th'[u].gone = {th'[u].arg}
        /\ th'[u].pc = "listenerWait" => \A a \in th'[u].gone : Listener[a] = th'[u].arg
    BY DEF WaitOK
  <2> QED BY <1>6, <2>1 DEF UserOK
<1>8. (\E v \in Users : th[v].pc = "starting") => Booting'
  BY <1>3, BootKeptUser
<1> QED BY <1>1, <1>2, <1>3, <1>4, <1>5, <1>7, <1>8, StepKeeps

\* No thread below the one that Scan waits for runs an alarm of S.
LEMMA BusyFirst ==
    ASSUME IInv, NEW S, None \notin S, NEW i \in Nat
    PROVE  /\ Busy(S, i) = {} => \A t \in Slots : t >= i => th[t].cur \notin S
           /\ Busy(S, i) # {} =>
                /\ Least(Busy(S, i)) \in Slots
                /\ \A t \in Slots : t >= i /\ t < Least(Busy(S, i)) => th[t].cur \notin S
<1>1. size \in Nat /\ size <= MaxSlots /\ MaxSlots \in Nat
  BY TimerAssumption DEF IInv, Types
<1>2. ASSUME NEW t \in Slots, t >= i, th[t].cur \in S PROVE t \in Busy(S, i)
  <2>1. SlotOK(t) /\ t \in Nat
    BY ProcsApart DEF IInv
  <2>2. th[t].state # "NULL" /\ t < size
    BY <1>1, <1>2, <2>1 DEF SlotOK
  <2> QED BY <1>1, <1>2, <2>1, <2>2 DEF Busy
<1>3. ASSUME Busy(S, i) # {}
      PROVE  /\ Least(Busy(S, i)) \in Slots
             /\ \A t \in Slots : t >= i /\ t < Least(Busy(S, i)) => th[t].cur \notin S
  <2>1. Busy(S, i) \in SUBSET Nat /\ Busy(S, i) \subseteq Slots
    BY <1>1 DEF Busy, Slots
  <2>2. PICK j \in Busy(S, i) : j = Least(Busy(S, i)) /\ \A k \in Busy(S, i) : j <= k
    BY <1>3, <2>1, LeastIn
  <2>3. j \in Slots /\ j \in Nat
    BY <2>1, <2>2
  <2>4. ASSUME NEW t \in Slots, t >= i, t < j PROVE th[t].cur \notin S
    <3>1. t \in Nat
      BY ProcsApart
    <3> QED BY <1>2, <2>2, <2>3, <2>4, <3>1
  <2> QED BY <2>2, <2>3, <2>4
<1> QED BY <1>2, <1>3

LEMMA WaitEnds ==
    ASSUME NEW y \in Thread
    PROVE  [y EXCEPT !.pc = "user", !.arg = None, !.gone = {}, !.force = FALSE, !.idx = 0] \in Thread
BY DEF Thread, UserPcs

LEMMA WaitGoesOn ==
    ASSUME NEW y \in Thread, NEW j \in Nat, NEW force \in BOOLEAN
    PROVE  [y EXCEPT !.idx = j, !.force = force] \in Thread
BY DEF Thread

\* The search for a thread that runs an alarm of S, from slot i on: the caller
\* returns when there is none, and else knows of those before.
LEMMA ScanStep ==
    ASSUME IInv, NEW u \in Users, NEW S, None \notin S, NEW i \in Nat, NEW force \in BOOLEAN,
           NEW f \in [Procs -> Thread], \A q \in Procs \ {u} : f[q] = th[q],
           f[u].cur = None, f[u].state = "user", f[u].pc \in {"removeWait", "listenerWait"},
           f[u].pc = "removeWait" => f[u].arg \in Alarms /\ f[u].gone = {f[u].arg},
           f[u].pc = "listenerWait" => \A a \in f[u].gone : Listener[a] = f[u].arg,
           \A a \in OneShot(f[u].gone) :
               a \in S /\ Gone(a) /\ \A t \in Slots : t < i => ~Runs(t, a),
           Scan(u, S, i, force, f),
           added \subseteq added', added' \subseteq Alarms,
           UNCHANGED <<lock, reentrancyLock, queue, pool, now>>
    PROVE  IInv'
<1>1. /\ u \in Procs /\ u \notin Slots /\ f[u] \in Thread /\ CountMatches'
      /\ UNCHANGED <<alarms, alarmTime, addWaitQueue, controllerIdx, isRunning, size>>
  BY ProcsApart, CountSame DEF IInv, Procs, queue, pool
<1>2. CASE Busy(S, i) = {}
  <2> DEFINE r == [f[u] EXCEPT !.pc = "user", !.arg = None, !.gone = {}, !.force = FALSE,
                               !.idx = 0]
  <2>1. r \in Thread
    BY <1>1, WaitEnds
  <2>2. r.pc = "user" /\ r.cur = None /\ r.state = "user"
    BY <1>1 DEF Thread
  <2>3. th' = [f EXCEPT ![u] = r] /\ removed' = removed \cup OneShot(f[u].gone)
    BY <1>1, <1>2 DEF Scan
  <2> HIDE DEF r
  <2>4. th' \in [Procs -> Thread] /\ th'[u] = r /\ \A q \in Procs \ {u} : Kept(q)
    BY <1>1, <2>1, <2>3 DEF Kept
  <2>5. ASSUME NEW a \in removed' \ removed
        PROVE  /\ a \in added /\ Period[a] = 0 /\ a \notin alarms'
               /\ \A q \in Procs : ~Runs(q, a) /\ ~Waits(q, a)
    <3>1. a \in S /\ Gone(a) /\ (\A t \in Slots : t < i => ~Runs(t, a)) /\ a \in added
      BY <2>3 DEF Gone
    <3>2. \A t \in Slots : ~Runs(t, a)
      <4>1. \A t \in Slots : t >= i => th[t].cur # a
        BY <1>2, <3>1, BusyFirst
      <4> QED BY <3>1, <4>1, ProcsApart DEF Runs
    <3>3. \A v \in Users : ~Runs(v, a)
      BY <3>1 DEF IInv, UserOK, Runs
    <3> QED BY <1>1, <3>1, <3>2, <3>3 DEF Gone, Procs
  <2>6. WaitOK(th'[u]) /\ th'[u].pc \in UserPcs \ {"starting", "addWait"}
    BY <2>2, <2>4 DEF WaitOK, UserPcs
  <2> QED BY <1>1, <2>2, <2>4, <2>5, <2>6, UserRemoves
<1>3. CASE Busy(S, i) # {}
  <2>1. PICK j \in Slots : j = Least(Busy(S, i)) /\ \A t \in Slots : t >= i /\ t < j => th[t].cur \notin S
    BY <1>3, BusyFirst
  <2> DEFINE r == [f[u] EXCEPT !.idx = j, !.force = force]
             t1 == [f EXCEPT ![u] = r]
             x == [th[j] EXCEPT !.alerted = TRUE, !.code = 2]
  <2>2. j \in Procs /\ j # u /\ j \in Nat /\ f[j] = th[j] /\ th[j] \in Thread
    BY <1>1, <2>1, ProcsApart DEF Procs, IInv, Types
  <2>3. r \in Thread
    BY <1>1, <2>2, WaitGoesOn
  <2>4. /\ r.pc = f[u].pc /\ r.cur = None /\ r.state = "user" /\ r.idx = j
        /\ r.gone = f[u].gone /\ r.arg = f[u].arg
    BY <1>1 DEF Thread
  <2>5. x \in Thread /\ Like(x, th[j])
    BY <2>2, ZenonT(60) DEF Thread, Like
  <2>6. /\ th' = t1 \/ th' = [t1 EXCEPT ![j].alerted = TRUE, ![j].code = 2]
        /\ removed' = removed
    BY <1>1, <1>3, <2>1, ZenonT(60) DEF Scan
  <2> HIDE DEF r
  <2>7. t1 \in [Procs -> Thread] /\ t1[u] = r /\ \A q \in Procs \ {u} : t1[q] = th[q]
    BY <1>1, <2>3
  <2> HIDE DEF t1
  <2>8. th' = t1 \/ th' = [t1 EXCEPT ![j] = x]
    BY <2>2, <2>6, <2>7
  <2> HIDE DEF x
  <2>9. th' \in [Procs -> Thread] /\ th'[u] = r /\ \A q \in Procs \ {u} : Like(th'[q], th[q])
    <3>1. CASE th' = t1
      BY <2>7, <3>1 DEF Like
    <3>2. CASE th' = [t1 EXCEPT ![j] = x]
      <4>1. th' \in [Procs -> Thread] /\ th'[u] = r /\ th'[j] = x
        BY <1>1, <2>2, <2>5, <2>7, <3>2
      <4>2. ASSUME NEW q \in Procs \ {u}, q # j PROVE th'[q] = th[q]
        BY <2>7, <3>2, <4>2
      <4> QED BY <2>5, <4>1, <4>2 DEF Like
    <3> QED BY <2>8, <3>1, <3>2
  <2>10. \A q \in Procs \ {u} : Kept(q)
    BY <2>9 DEF Like, Kept
  <2>11. WaitOK(th'[u])
    <3>1. ASSUME NEW a \in OneShot(r.gone), NEW t \in Slots, t < j PROVE ~Runs(t, a)
      <4>1. a \in S /\ (t < i => ~Runs(t, a)) /\ t \in Nat
        BY <2>4, ProcsApart
      <4> QED BY <2>1, <3>1, <4>1 DEF Runs
    <3> QED BY <2>4, <2>9, <3>1 DEF WaitOK
  <2>12. th'[u].pc \in UserPcs \ {"starting", "addWait"}
    BY <2>4, <2>9 DEF UserPcs
  <2> QED BY <1>1, <2>4, <2>6, <2>9, <2>10, <2>11, <2>12, UserRemoves
<1> QED BY <1>2, <1>3

LEMMA WaitBegins ==
    ASSUME NEW y \in Thread, NEW pc \in {"removeWait", "listenerWait"}, NEW S \in SUBSET Alarms,
           NEW x \in Alarms \cup {None} \cup {Listener[a] : a \in Alarms}
    PROVE  [y EXCEPT !.pc = pc, !.arg = x, !.gone = S] \in Thread
BY DEF Thread, UserPcs

\* An alarm that may be removed and is not in the set will not come back.
LEMMA RemovableKnown ==
    ASSUME IInv, NEW a \in Removable
    PROVE  /\ a \in added /\ a \in Alarms /\ a # None /\ (\A q \in Procs : ~Waits(q, a))
           /\ a \notin alarms /\ Period[a] = 0 => Gone(a)
<1>1. a \in added /\ a \in Alarms /\ a # None
  BY ProcsApart DEF Removable, IInv, Types
<1>2. \A q \in Procs : ~Waits(q, a)
  BY DEF Removable, Waits
<1> QED BY <1>1, <1>2 DEF Gone

\* A user who calls, or goes round, is where nobody waits for it.
LEMMA UserKnown ==
    ASSUME IInv, NEW u \in Users
    PROVE  /\ u \in Procs /\ u \notin Slots /\ th \in [Procs -> Thread] /\ th[u] \in Thread
           /\ Types /\ UserOK(u) /\ th[u].cur = None /\ th[u].state = "user"
BY ProcsApart DEF IInv, Types, UserOK, Procs

\* A user's first look at the threads that may run an alarm of S.
LEMMA FirstScan ==
    ASSUME IInv, NEW u \in Users, NEW S \in SUBSET Removable, S \cap alarms = {},
           NEW pc \in {"removeWait", "listenerWait"}, NEW force \in BOOLEAN,
           NEW x \in Alarms \cup {None} \cup {Listener[a] : a \in Alarms},
           pc = "removeWait" => x \in Alarms /\ S = {x},
           pc = "listenerWait" => \A a \in S : Listener[a] = x,
           NEW f, f = [th EXCEPT ![u].pc = pc, ![u].arg = x, ![u].gone = S],
           Scan(u, S, 0, force, f),
           added \subseteq added', added' \subseteq Alarms,
           UNCHANGED <<lock, reentrancyLock, queue, pool, now>>
    PROVE  IInv'
<1> DEFINE r == [th[u] EXCEPT !.pc = pc, !.arg = x, !.gone = S]
<1>1. /\ u \in Procs /\ th \in [Procs -> Thread] /\ th[u] \in Thread
      /\ th[u].cur = None /\ th[u].state = "user"
  BY UserKnown
<1>2. \A a \in S : a \in Alarms /\ a # None /\ (Period[a] = 0 => Gone(a))
  BY RemovableKnown
<1>3. None \notin S /\ S \in SUBSET Alarms
  BY <1>2
<1>4. r \in Thread
  BY <1>1, <1>3, WaitBegins
<1>5. r.pc = pc /\ r.arg = x /\ r.gone = S /\ r.cur = None /\ r.state = "user"
  BY <1>1 DEF Thread
<1>6. f = [th EXCEPT ![u] = r]
  BY <1>1
<1> HIDE DEF r
<1>7. f \in [Procs -> Thread] /\ f[u] = r /\ \A q \in Procs \ {u} : f[q] = th[q]
  BY <1>1, <1>4, <1>6
<1>8. \A a \in OneShot(f[u].gone) :
          a \in S /\ Gone(a) /\ \A t \in Slots : t < 0 => ~Runs(t, a)
  BY <1>2, <1>5, <1>7, ProcsApart DEF OneShot
<1>9. /\ f[u].cur = None /\ f[u].state = "user" /\ f[u].pc \in {"removeWait", "listenerWait"}
      /\ f[u].pc = "removeWait" => f[u].arg \in Alarms /\ f[u].gone = {f[u].arg}
      /\ f[u].pc = "listenerWait" => \A a \in f[u].gone : Listener[a] = f[u].arg
  BY <1>5, <1>7
<1>10. PICK i \in Nat : i = 0
  OBVIOUS
<1>11. Scan(u, S, i, force, f)
  BY <1>10
<1>12. \A a \in OneShot(f[u].gone) :
          a \in S /\ Gone(a) /\ \A t \in Slots : t < i => ~Runs(t, a)
  BY <1>8, <1>10
<1>13. /\ IInv /\ u \in Users /\ force \in BOOLEAN
       /\ added \subseteq added' /\ added' \subseteq Alarms
       /\ UNCHANGED <<lock, reentrancyLock, queue, pool, now>>
  OBVIOUS
<1> QED BY ONLY <1>3, <1>7, <1>9, <1>11, <1>12, <1>13, i \in Nat, ScanStep

LEMMA RemoveAlarmStep ==
    ASSUME IInv, NEW u \in Users, NEW a \in Alarms, NEW force \in BOOLEAN,
           RemoveAlarm(u, a, force)
    PROVE  IInv'
<1>1. /\ a \in Removable /\ UNCHANGED lock /\ th[u].pc = "user"
      /\ UNCHANGED <<alarmTime, addWaitQueue, reentrancyLock, pool, now, added, starts>>
  BY DEF RemoveAlarm, Free, Call
<1>2. Types /\ th \in [Procs -> Thread] /\ added \subseteq Alarms
  BY DEF IInv, Types
<1>3. CASE UNCHANGED <<th, alarms, numLimitableAlarms, removed>>
  BY <1>1, <1>3, SameStep DEF IInv, Types, pool
<1>4. CASE a \in alarms /\ Erase(a) /\ removed' = removed \cup OneShot({a}) /\ UNCHANGED th
  <2>1. CountMatches' /\ alarms' = alarms \ {a}
    BY <1>2, <1>4, CountErase DEF IInv, Erase
  <2>2. a \in added /\ \A q \in Procs : ~Runs(q, a) /\ ~Waits(q, a)
    BY <1>4, Alone
  <2>3. /\ th'[u].pc = "user" /\ th'[u].state = "user" /\ th'[u].cur = None
        /\ \A q \in Procs \ {u} : Kept(q)
    BY <1>1, <1>4, UserKnown DEF Kept
  <2>4. WaitOK(th'[u]) /\ th'[u].pc \in UserPcs \ {"starting", "addWait"}
    BY <2>3 DEF WaitOK, UserPcs
  <2>5. \A b \in removed' \ removed : b = a /\ Period[b] = 0
    BY <1>4, SMTT(30) DEF OneShot
  <2> QED BY <1>1, <1>2, <1>4, <2>1, <2>2, <2>3, <2>4, <2>5, UserRemoves DEF pool
<1>5. CASE /\ a \notin alarms /\ UNCHANGED <<alarms, numLimitableAlarms>>
           /\ Scan(u, {a}, 0, force,
                   [th EXCEPT ![u].pc = "removeWait", ![u].arg = a, ![u].gone = {a}])
  <2>1. PICK S \in SUBSET Removable : S = {a} /\ S \cap alarms = {}
    BY <1>1, <1>5
  <2>2. PICK f : /\ f = [th EXCEPT ![u].pc = "removeWait", ![u].arg = a, ![u].gone = S]
                 /\ Scan(u, S, 0, force, f)
    BY <1>5, <2>1
  <2>3. UNCHANGED queue
    BY <1>1, <1>5 DEF queue
  <2> QED BY <1>1, <1>2, <2>1, <2>2, <2>3, FirstScan
<1>6. \/ UNCHANGED <<th, alarms, numLimitableAlarms, removed>>
      \/ a \in alarms /\ Erase(a) /\ removed' = removed \cup OneShot({a}) /\ UNCHANGED th
      \/ /\ a \notin alarms /\ UNCHANGED <<alarms, numLimitableAlarms>>
         /\ Scan(u, {a}, 0, force,
                 [th EXCEPT ![u].pc = "removeWait", ![u].arg = a, ![u].gone = {a}])
  BY Zenon DEF RemoveAlarm
<1> QED BY <1>3, <1>4, <1>5, <1>6

LEMMA RemoveWaitStep ==
    ASSUME IInv, NEW u \in Users, RemoveWait(u)
    PROVE  IInv'
<1>1. /\ th[u].pc = "removeWait" /\ UNCHANGED lock
      /\ UNCHANGED <<queue, reentrancyLock, pool, now, added, calls, starts>>
      /\ Scan(u, {th[u].arg}, th[u].idx, th[u].force, th)
  BY DEF RemoveWait, Free
<1>2. /\ th \in [Procs -> Thread] /\ th[u] \in Thread /\ Types
      /\ UserOK(u) /\ th[u].cur = None /\ th[u].state = "user"
  BY UserKnown
<1>3. th[u].arg \in Alarms /\ th[u].gone = {th[u].arg} /\ th[u].idx \in Nat /\ th[u].force \in BOOLEAN
  BY <1>1, <1>2 DEF UserOK, Thread
<1>4. PICK S : S = {th[u].arg} /\ None \notin S
  BY <1>3, ProcsApart
<1>5. PICK i \in Nat, force \in BOOLEAN : i = th[u].idx /\ force = th[u].force
  BY <1>3
<1>6. PICK f \in [Procs -> Thread] : f = th
  BY <1>2
<1>7. Scan(u, S, i, force, f)
  BY <1>1, <1>4, <1>5, <1>6
<1>8. \A a \in OneShot(f[u].gone) : a \in S /\ Gone(a) /\ \A t \in Slots : t < i => ~Runs(t, a)
  BY <1>1, <1>2, <1>3, <1>4, <1>5, <1>6 DEF UserOK, OneShot
<1>9. added \subseteq added' /\ added' \subseteq Alarms
  BY <1>1, <1>2 DEF Types
<1> QED BY <1>1, <1>2, <1>3, <1>4, <1>6, <1>7, <1>8, <1>9, ScanStep

LEMMA CallTyped ==
    ASSUME NEW y \in Thread, NEW pc \in {"user", "listener"},
           NEW x \in Alarms \cup {None} \cup {Listener[a] : a \in Alarms}
    PROVE  [y EXCEPT !.pc = pc, !.arg = x] \in Thread
BY DEF Thread, UserPcs

LEMMA RemoveAlarmsWithListenerStep ==
    ASSUME IInv, NEW u \in Users,
           NEW l \in Alarms \cup {None} \cup {Listener[a] : a \in Alarms},
           RemoveAlarmsWithListener(u, l)
    PROVE  IInv'
<1>1. /\ UNCHANGED lock /\ th[u].pc \in {"user", "listener"}
      /\ UNCHANGED <<alarmTime, addWaitQueue, reentrancyLock, pool, now, added, starts>>
  BY DEF RemoveAlarmsWithListener, Free, Call
<1>2. /\ Types /\ th \in [Procs -> Thread] /\ th[u] \in Thread /\ added \subseteq Alarms
      /\ u \in Procs /\ th[u].cur = None /\ th[u].state = "user"
  BY UserKnown DEF Types
<1>3. ASSUME NEW pc \in {"user", "listener"}, th' = [th EXCEPT ![u].pc = pc, ![u].arg = l]
      PROVE  /\ th' \in [Procs -> Thread] /\ \A q \in Procs \ {u} : Kept(q)
             /\ th'[u].pc \in UserPcs \ {"starting", "addWait"}
             /\ th'[u].state = "user" /\ th'[u].cur = None /\ WaitOK(th'[u])
  <2> DEFINE r == [th[u] EXCEPT !.pc = pc, !.arg = l]
  <2>1. r \in Thread
    BY <1>2, CallTyped
  <2>2. r.pc = pc /\ r.cur = None /\ r.state = "user"
    BY <1>2 DEF Thread
  <2>3. th' = [th EXCEPT ![u] = r]
    BY <1>2, <1>3
  <2> HIDE DEF r
  <2>4. /\ th' \in [Procs -> Thread] /\ th'[u] = r /\ \A q \in Procs \ {u} : Kept(q)
    BY <1>2, <2>1, <2>3, SetOne
  <2> QED BY <2>2, <2>4 DEF WaitOK, UserPcs
<1>4. CASE /\ ~isRunning /\ ~ExpireOnExit
           /\ th' = [th EXCEPT ![u].pc = "user", ![u].arg = None]
           /\ UNCHANGED <<alarms, numLimitableAlarms, removed>>
  <2> DEFINE r == [th[u] EXCEPT !.pc = "user", !.arg = None]
  <2>1. r \in Thread
    BY <1>2, CallTyped
  <2>2. r.pc = "user" /\ r.cur = None /\ r.state = "user"
    BY <1>2 DEF Thread
  <2>3. th' = [th EXCEPT ![u] = r]
    BY <1>2, <1>4
  <2> HIDE DEF r
  <2>4. /\ th' \in [Procs -> Thread] /\ th'[u] = r /\ \A q \in Procs \ {u} : Kept(q)
    BY <1>2, <2>1, <2>3, SetOne
  <2>5. WaitOK(th'[u]) /\ th'[u].pc \in UserPcs \ {"starting", "addWait"}
    BY <2>2, <2>4 DEF WaitOK, UserPcs
  <2>6. CountMatches'
    BY <1>4, CountSame DEF IInv
  <2> QED BY <1>1, <1>2, <1>4, <2>2, <2>4, <2>5, <2>6, UserRemoves DEF pool
<1>5. CASE /\ Of(l) \cap alarms # {}
           /\ Erase(CHOOSE a \in Of(l) : IsFirst(a, Of(l) \cap alarms))
           /\ th' = [th EXCEPT ![u].pc = "listener", ![u].arg = l]
           /\ UNCHANGED removed
  <2>1. \E a \in Of(l) \cap alarms : IsFirst(a, Of(l) \cap alarms)
    <3>1. (Of(l) \cap alarms) \in SUBSET Alarms /\ alarmTime \in [Alarms -> Nat]
      BY <1>2 DEF Types
    <3> QED BY <1>5, <3>1, FirstExists
  <2>2. PICK a \in alarms : a = CHOOSE b \in Of(l) : IsFirst(b, Of(l) \cap alarms)
    BY <2>1 DEF IsFirst
  <2>3. Erase(a)
    BY <1>5, <2>2
  <2>4. CountMatches' /\ alarms' = alarms \ {a}
    BY <1>2, <2>3, CountErase, SMTT(30) DEF IInv, Erase
  <2> QED BY <1>1, <1>2, <1>3, <1>5, <2>4, UserRemoves DEF pool
<1>6. CASE /\ Of(l) \cap alarms = {} /\ UNCHANGED <<alarms, numLimitableAlarms>>
           /\ Scan(u, Of(l), 0, FALSE,
                   [th EXCEPT ![u].pc = "listenerWait", ![u].arg = l, ![u].gone = Of(l)])
  <2>1. Of(l) \in SUBSET Removable /\ \A a \in Of(l) : Listener[a] = l
    BY DEF Of
  <2>2. PICK S \in SUBSET Removable : S = Of(l)
    BY <2>1
  <2>3. PICK f : /\ f = [th EXCEPT ![u].pc = "listenerWait", ![u].arg = l, ![u].gone = S]
                 /\ Scan(u, S, 0, FALSE, f)
    BY <1>6, <2>2
  <2>4. UNCHANGED queue
    BY <1>1, <1>6 DEF queue
  <2> QED BY <1>1, <1>2, <1>6, <2>1, <2>2, <2>3, <2>4, FirstScan
<1> QED BY <1>4, <1>5, <1>6 DEF RemoveAlarmsWithListener

LEMMA ListenerWaitStep ==
    ASSUME IInv, NEW u \in Users, ListenerWait(u)
    PROVE  IInv'
<1>1. /\ th[u].pc = "listenerWait" /\ UNCHANGED lock
      /\ UNCHANGED <<queue, reentrancyLock, pool, now, added, calls, starts>>
      /\ Scan(u, Of(th[u].arg), th[u].idx, FALSE, th)
  BY DEF ListenerWait, Free
<1>2. /\ th \in [Procs -> Thread] /\ th[u] \in Thread /\ Types
      /\ UserOK(u) /\ th[u].cur = None /\ th[u].state = "user"
  BY UserKnown
<1>3. PICK S : S = Of(th[u].arg)
  OBVIOUS
<1>4. None \notin S
  BY <1>2, <1>3, ProcsApart DEF Of, Removable, Types
<1>5. PICK i \in Nat : i = th[u].idx
  BY <1>2 DEF Thread
<1>6. PICK f \in [Procs -> Thread] : f = th
  BY <1>2
<1>7. Scan(u, S, i, FALSE, f)
  BY <1>1, <1>3, <1>5, <1>6
<1>8. ASSUME NEW a \in OneShot(f[u].gone)
      PROVE  a \in S /\ Gone(a) /\ \A t \in Slots : t < i => ~Runs(t, a)
  <2>1. /\ Listener[a] = th[u].arg /\ Gone(a) /\ \A t \in Slots : t < i => ~Runs(t, a)
    BY <1>1, <1>2, <1>5, <1>6 DEF UserOK, OneShot
  <2>2. a \in Removable
    BY <2>1 DEF Gone, Waits, Removable
  <2> QED BY <1>3, <2>1, <2>2 DEF Of
<1>9. /\ added \subseteq added' /\ added' \subseteq Alarms
      /\ \A a \in f[u].gone : Listener[a] = f[u].arg
  BY <1>1, <1>2, <1>6 DEF Types, UserOK
<1> QED BY <1>1, <1>2, <1>4, <1>6, <1>7, <1>8, <1>9, ScanStep

\* ReplaceAlarm takes a out, and b in if there is room.
LEMMA CountReplace ==
    ASSUME Types, CountMatches, NEW a \in alarms, NEW b, b \notin alarms, NEW full \in BOOLEAN,
           alarms' = (alarms \ {a}) \cup (IF full THEN {} ELSE {b}),
           numLimitableAlarms' = (numLimitableAlarms - Weight(a)) + (IF full THEN 0 ELSE Weight(b))
    PROVE  CountMatches'
<1> DEFINE S == alarms \cap Limitable
           R == S \ {a}
<1>1. IsFiniteSet(S) /\ Cardinality(S) \in Nat /\ numLimitableAlarms = Cardinality(S)
  BY LimitableFinite DEF CountMatches
<1>2. IsFiniteSet(R) /\ Cardinality(R) = numLimitableAlarms - Weight(a) /\ Cardinality(R) \in Nat
  <2>1. CASE a \in Limitable
    <3>1. a \in S /\ Weight(a) = 1
      BY <2>1 DEF Weight
    <3>2. IsFiniteSet(R) /\ Cardinality(R) = Cardinality(S) - 1
      BY <1>1, <3>1, FS_RemoveElement
    <3>3. Cardinality(R) \in Nat
      BY <3>2, FS_CardinalityType
    <3> QED BY <1>1, <3>1, <3>2, <3>3
  <2>2. CASE a \notin Limitable
    <3>1. R = S /\ Weight(a) = 0
      BY <2>2 DEF Weight
    <3>2. Cardinality(R) = Cardinality(S) /\ IsFiniteSet(R)
      BY <1>1, <3>1, Zenon
    <3> QED BY <1>1, <3>1, <3>2
  <2> QED BY <2>1, <2>2
<1>3. CASE ~full /\ b \in Limitable
  <2>1. (alarms \cap Limitable)' = R \cup {b} /\ b \notin R /\ Weight(b) = 1
    BY <1>3 DEF Weight
  <2> HIDE DEF R
  <2>2. Cardinality(R \cup {b}) = Cardinality(R) + 1
    BY <1>2, <2>1, FS_AddElement
  <2>3. Cardinality((alarms \cap Limitable)') = Cardinality(R \cup {b})
    BY <2>1, Zenon
  <2> QED BY <1>2, <1>3, <2>1, <2>2, <2>3 DEF CountMatches
<1>4. CASE full \/ b \notin Limitable
  <2>1. (alarms \cap Limitable)' = R /\ (~full => Weight(b) = 0)
    BY <1>4 DEF Weight
  <2> HIDE DEF R
  <2>2. Cardinality((alarms \cap Limitable)') = Cardinality(R)
    BY <2>1, Zenon
  <2> QED BY <1>2, <1>4, <2>1, <2>2 DEF CountMatches
<1> QED BY <1>3, <1>4

LEMMA EnterTyped ==
    ASSUME NEW y \in Thread, NEW b \in Alarms
    PROVE  /\ [y EXCEPT !.pc = "addWait", !.arg = b] \in Thread
           /\ [y EXCEPT !.pc = "addWait", !.arg = b].pc = "addWait"
           /\ [y EXCEPT !.pc = "addWait", !.arg = b].arg = b
           /\ [y EXCEPT !.pc = "addWait", !.arg = b].cur = y.cur
           /\ [y EXCEPT !.pc = "addWait", !.arg = b].state = y.state
BY DEF Thread, UserPcs

LEMMA ReplaceAlarmStep ==
    ASSUME IInv, NEW u \in Users, NEW a \in Alarms, NEW b \in Alarms, ReplaceAlarm(u, a, b)
    PROVE  IInv'
<1>1. /\ a \in Removable /\ lock = None /\ th[u].pc = "user" /\ b \notin added
      /\ added' = added \cup {b}
      /\ UNCHANGED <<alarmTime, reentrancyLock, pool, now, starts>>
  BY DEF ReplaceAlarm, Call
<1>2. /\ u \in Procs /\ u \notin Slots /\ Types /\ th \in [Procs -> Thread] /\ th[u] \in Thread
      /\ size \in Nat /\ added' \subseteq Alarms /\ added \subseteq added'
      /\ th[u].cur = None /\ th[u].state = "user"
  BY <1>1, UserKnown, TimerAssumption, SMTT(30) DEF Types
<1>3. CASE /\ ~isRunning
           /\ UNCHANGED <<lock, th, alarms, numLimitableAlarms, addWaitQueue, removed>>
  BY <1>1, <1>2, <1>3, RefusedStep DEF queue
<1>4. CASE /\ isRunning /\ a \notin alarms
           /\ Scan(u, {a}, 0, FALSE,
                   [th EXCEPT ![u].pc = "removeWait", ![u].arg = a, ![u].gone = {a}])
           /\ UNCHANGED <<lock, alarms, numLimitableAlarms, addWaitQueue>>
  <2>1. PICK S \in SUBSET Removable : S = {a} /\ S \cap alarms = {}
    BY <1>1, <1>4
  <2>2. PICK f : /\ f = [th EXCEPT ![u].pc = "removeWait", ![u].arg = a, ![u].gone = S]
                 /\ Scan(u, S, 0, FALSE, f)
    BY <1>4, <2>1
  <2>3. UNCHANGED queue
    BY <1>1, <1>4 DEF queue
  <2> QED BY <1>1, <1>2, <1>4, <2>1, <2>2, <2>3, FirstScan
<1> DEFINE n == numLimitableAlarms - Weight(a)
           full == MaxAlarms # 0 /\ b \in Limitable /\ n >= MaxAlarms
           alert == /\ \A c \in alarms \ {a} : Before(b, c)
                    /\ controllerIdx >= 0 /\ th[controllerIdx].state = "IDLE"
<1>5. CASE /\ isRunning /\ a \in alarms
           /\ removed' = removed \cup OneShot({a})
           /\ alarms' = (alarms \ {a}) \cup (IF full THEN {} ELSE {b})
           /\ numLimitableAlarms' = n + (IF full THEN 0 ELSE Weight(b))
           /\ addWaitQueue' = IF full THEN <<u>> \o addWaitQueue ELSE addWaitQueue
           /\ lock' = IF full THEN u ELSE None
           /\ th' = IF full THEN [th EXCEPT ![u].pc = "addWait", ![u].arg = b]
                    ELSE IF alert THEN [th EXCEPT ![controllerIdx].alerted = TRUE]
                    ELSE th
  <2>1. PICK full0 \in BOOLEAN : full0 = full
    OBVIOUS
  <2>2. CountMatches'
    <3>1. b \notin alarms
      BY <1>1, <1>2 DEF Types
    <3> QED BY <1>2, <1>5, <2>1, <3>1, CountReplace DEF IInv
  <2>3. /\ a \in added /\ (\A q \in Procs : ~Runs(q, a) /\ ~Waits(q, a)) /\ a # b
    BY <1>1, <1>5, Alone
  <2>4. b \notin alarms /\ ~Gone(b) /\ \A q \in Procs : ~Runs(q, b) /\ ~Waits(q, b)
    BY <1>1, NewAlone
  <2>5. Locks(u) /\ addWaitQueue' \in Seq(Procs)
    <3>1. addWaitQueue \in Seq(Procs)
      BY <1>2 DEF Types
    <3> QED BY <1>1, <1>2, <1>5, <3>1 DEF Locks
  <2>6. lock' \in Procs \cup {None} /\ \A q \in Procs \ {u} : lock' # q => lock # q
    BY <1>2, <2>5, LocksKept
  <2>7. alarms' \subseteq added' /\ removed' \subseteq added' /\ \A c \in removed' \ removed : c = a /\ Period[a] = 0
    <3>1. alarms \subseteq added /\ removed \subseteq added /\ OneShot({a}) \subseteq {a}
      BY <1>2 DEF Types, OneShot
    <3> QED BY <1>1, <1>5, <2>3, <3>1 DEF OneShot
  <2>8. ASSUME th' \in [Procs -> Thread], \A q \in Procs \ {u} : Kept(q),
               th'[u].cur = None, th'[u].state = "user",
               \/ th'[u].pc = "addWait" /\ th'[u].arg = b /\ alarms' = alarms \ {a}
               \/ th'[u].pc = "user" /\ (NoPeriods => Announced(b))
        PROVE  IInv'
    <3>1. Types'
      BY <1>1, <1>2, <2>5, <2>6, <2>7, <2>8 DEF Types, pool
    <3>2. alarms' \subseteq (alarms \ {a}) \cup {b}
      BY <1>5
    <3>3. Frame(u)
      <4>1. NoPeriods => \A c \in alarms' \ alarms : Announced(c)
        BY <2>8, <3>2
      <4> QED BY <1>1, <1>2, <2>6, <2>8, <4>1 DEF Frame, pool
    <3>4. Moves(u, b)
      <4>1. \A c \in Alarms : ~Runs(u, c)'
        BY <2>8, ProcsApart DEF Runs
      <4>2. \A c \in Alarms \ {b} : ~Waits(u, c)'
        BY <2>8 DEF Waits
      <4>3. Waits(u, b)' => b \notin alarms'
        BY <2>4, <2>8 DEF Waits
      <4> QED BY <1>1, <2>4, <3>2, <4>1, <4>2, <4>3 DEF Moves
    <3>5. ASSUME NEW c \in removed' \ removed
          PROVE  Gone(c)' /\ \A q \in Procs : ~Runs(q, c)'
      <4>1. c = a /\ Period[a] = 0 /\ a \in added' /\ a \notin alarms'
        BY <1>2, <2>3, <2>7, <3>2
      <4>2. \A q \in Procs \ {u} : ~Runs(q, a)' /\ ~Waits(q, a)'
        BY <1>2, <2>3, <3>3, OthersHave
      <4>3. ~Runs(u, a)' /\ ~Waits(u, a)'
        BY <2>3, <2>8, ProcsApart DEF Runs, Waits
      <4> QED BY <4>1, <4>2, <4>3 DEF Gone
    <3>6. UserOK(u)'
      BY <2>8 DEF UserOK, UserPcs
    <3> QED BY <1>2, <1>5, <2>2, <3>1, <3>3, <3>4, <3>5, <3>6, NobodyStarting, StepKeeps
  <2>9. CASE full
    <3> DEFINE r == [th[u] EXCEPT !.pc = "addWait", !.arg = b]
    <3>1. /\ r \in Thread /\ r.pc = "addWait" /\ r.arg = b /\ r.cur = None /\ r.state = "user"
      BY <1>2, EnterTyped
    <3>2. th' = [th EXCEPT ![u] = r] /\ alarms' = alarms \ {a}
      BY <1>2, <1>5, <2>9
    <3> HIDE DEF r
    <3>3. th' \in [Procs -> Thread] /\ th'[u] = r /\ \A q \in Procs \ {u} : Kept(q)
      BY <1>2, <3>1, <3>2, SetOne
    <3> QED BY <2>8, <3>1, <3>2, <3>3
  <2>10. CASE ~full
    <3>1. PICK c : c = controllerIdx
      OBVIOUS
    <3>2. th' = IF alert THEN [th EXCEPT ![c].alerted = TRUE] ELSE th
      BY <1>5, <2>10, <3>1
    <3>3. /\ th' \in [Procs -> Thread] /\ \A q \in Procs : Like(th'[q], th[q])
          /\ alert /\ c \in Procs => th'[c].alerted
      <4>1. CASE alert
        BY <1>2, <3>2, <4>1, AlertOne
      <4>2. CASE ~alert
        BY <1>2, <3>2, <4>2 DEF Like
      <4> QED BY <4>1, <4>2
    <3>4. (\A q \in Procs \ {u} : Kept(q)) /\ th'[u].cur = None /\ th'[u].state = "user" /\ th'[u].pc = "user"
      BY <1>1, <1>2, <3>3 DEF Like, Kept
    <3>5. Announced(b)
      <4> SUFFICES ASSUME controllerIdx \in Slots, th[controllerIdx].state = "IDLE",
                          ~th'[controllerIdx].alerted
                   PROVE  \E d \in alarms : alarmTime[d] <= alarmTime[b]
        BY DEF Announced
      <4>1. c \in Procs /\ controllerIdx >= 0
        BY <3>1, ProcsApart DEF Procs
      <4>2. PICK d \in alarms : ~Before(b, d)
        BY <3>1, <3>3, <4>1
      <4>3. alarmTime[d] \in Nat /\ alarmTime[b] \in Nat
        BY <1>2 DEF Types
      <4> QED BY <4>2, <4>3 DEF Before
    <3> QED BY <2>8, <3>3, <3>4, <3>5
  <2> QED BY <2>9, <2>10
<1> QED BY <1>3, <1>4, <1>5 DEF ReplaceAlarm

-----------------------------------------------------------------------------
(* Start, Stop and Join.                                                   *)

\* A step that moves no alarm, and of the users only lets some begin or end a
\* call.
LEMMA PoolStep ==
    ASSUME IInv, Types', UNCHANGED <<alarms, numLimitableAlarms, added, removed>>,
           \A p \in Procs : th'[p].cur \in {th[p].cur, None},
           \A p \in Procs : th'[p].pc = "addWait" => th[p].pc = "addWait" /\ th'[p].arg = th[p].arg,
           \A t \in Slots : SlotOK(t)' /\ (NoPeriods => Watch(t)'),
           \A v \in Users :
               /\ th'[v].pc \in {th[v].pc, "user"} \/ th'[v].pc = "starting"
               /\ th'[v].state = th[v].state /\ th'[v].idx = th[v].idx
               /\ th'[v].arg = th[v].arg /\ th'[v].gone = th[v].gone
               /\ th'[v].pc = "starting" =>
                      Booting' /\ \A w \in Users : th'[w].pc = "starting" => w = v
    PROVE  IInv'
<1>1. ASSUME NEW p \in Procs, NEW a \in Alarms
      PROVE  (Runs(p, a)' => Runs(p, a)) /\ (Waits(p, a)' => Waits(p, a))
  BY ProcsApart DEF Runs, Waits
<1>2. CountMatches'
  BY CountSame DEF IInv
<1>3. Places'
  BY <1>1 DEF IInv, Places
<1>4. ASSUME NEW a \in Alarms, Gone(a) PROVE Gone(a)'
  BY <1>1, <1>4 DEF Gone
<1>5. Over'
  <2> SUFFICES ASSUME NEW a \in removed
               PROVE  Gone(a)' /\ \A p \in Procs : ~Runs(p, a)'
    BY DEF Over
  <2>1. a \in Alarms /\ Gone(a) /\ \A p \in Procs : ~Runs(p, a)
    BY DEF IInv, Over, Types
  <2> QED BY <1>1, <1>4, <2>1
<1>6. ASSUME NEW v \in Users PROVE UserOK(v)'
  <2>1. v \in Procs /\ UserOK(v)
    BY DEF IInv, Procs
  <2>2. ASSUME th'[v].pc \in {"removeWait", "listenerWait"}, NEW a \in OneShot(th'[v].gone)
        PROVE  Gone(a)' /\ \A t \in Slots : t < th'[v].idx => ~Runs(t, a)'
    <3>1. /\ Gone(a) /\ a \in Alarms
          /\ \A t \in Slots : t < th'[v].idx => ~Runs(t, a)
      BY <2>1, <2>2 DEF UserOK, OneShot, Gone, IInv, Types
    <3> QED BY <1>1, <1>4, <3>1 DEF Procs
  <2>3. /\ th'[v].pc \in UserPcs /\ th'[v].state = "user" /\ th'[v].cur = None
        /\ th'[v].pc \in {"addWait", "removeWait"} => th'[v].arg \in Alarms
        /\ th'[v].pc = "removeWait" => th'[v].gone = {th'[v].arg}
        /\ th'[v].pc = "listenerWait" => \A a \in th'[v].gone : Listener[a] = th'[v].arg
    BY <2>1 DEF UserOK, UserPcs
  <2> QED BY <2>2, <2>3 DEF UserOK
<1>7. NoPeriods' = NoPeriods
  BY DEF NoPeriods
<1> QED BY <1>2, <1>3, <1>5, <1>6, <1>7 DEF IInv

LEMMA CallPc ==
    ASSUME NEW y \in Thread, NEW pc \in UserPcs
    PROVE  /\ [y EXCEPT !.pc = pc] \in Thread /\ [y EXCEPT !.pc = pc].pc = pc
           /\ [y EXCEPT !.pc = pc].cur = y.cur /\ [y EXCEPT !.pc = pc].state = y.state
           /\ [y EXCEPT !.pc = pc].idx = y.idx /\ [y EXCEPT !.pc = pc].arg = y.arg
           /\ [y EXCEPT !.pc = pc].gone = y.gone
BY DEF Thread

LEMMA StartedStep ==
    ASSUME IInv, NEW u \in Users, Started(u)
    PROVE  IInv'
<1>1. /\ th[u].pc = "starting" /\ UNCHANGED lock /\ isRunning' = TRUE
      /\ UNCHANGED <<reentrancyLock, queue, controllerIdx, size, now, ghosts>>
      /\ u \in Procs /\ u \notin Slots /\ th \in [Procs -> Thread] /\ th[u] \in Thread /\ Types
      /\ UserOK(u)
  BY UserKnown DEF Started, Free
<1>2. Booting /\ \A v \in Users : th[v].pc = "starting" => v = u
  BY <1>1 DEF UserOK
<1> DEFINE r == [th[u] EXCEPT !.pc = "user"]
<1>3. /\ r \in Thread /\ r.pc = "user" /\ r.cur = th[u].cur /\ r.state = th[u].state
      /\ r.idx = th[u].idx /\ r.arg = th[u].arg /\ r.gone = th[u].gone
  BY <1>1, CallPc DEF UserPcs
<1>4. th' = [th EXCEPT ![u] = r]
  BY <1>1 DEF Started
<1> HIDE DEF r
<1>5. th' \in [Procs -> Thread] /\ th'[u] = r /\ \A q \in Procs \ {u} : th'[q] = th[q]
  BY <1>1, <1>3, <1>4
<1>6. Types'
  BY <1>1, <1>5 DEF Types, queue, ghosts
<1>7. ASSUME NEW t \in Slots PROVE SlotOK(t)' /\ (NoPeriods => Watch(t)')
  <2>1. th'[t] = th[t] /\ SlotOK(t) /\ (NoPeriods => Watch(t))
    BY <1>1, <1>5 DEF IInv, Procs
  <2>2. ~th[t].stopping /\ (t # 0 => th[t].pc = "off") /\ controllerIdx \in {0, -1}
        /\ (t = 0 => th[t].pc \in {"boot", "loop"} \cup WatchPcs \cup RunPcs)
    BY <1>2 DEF Booting
  <2>3. t # -1
    BY ProcsApart DEF Procs
  <2>4. SlotOK(t)'
    BY <1>1, <2>1, <2>2, <2>3 DEF SlotOK, InHandler, ExitPcs, WatchPcs, RunPcs
  <2> QED BY <1>1, <2>1, <2>4 DEF Watch, queue
<1>8. ASSUME NEW v \in Users
      PROVE  /\ th'[v].pc \in {th[v].pc, "user"} /\ th'[v].pc # "starting"
             /\ th'[v].state = th[v].state /\ th'[v].idx = th[v].idx
             /\ th'[v].arg = th[v].arg /\ th'[v].gone = th[v].gone
  BY <1>2, <1>3, <1>5 DEF Procs
<1>9. ASSUME NEW p \in Procs
      PROVE  /\ th'[p].cur = th[p].cur
             /\ th'[p].pc = "addWait" => th[p].pc = "addWait" /\ th'[p].arg = th[p].arg
  BY <1>3, <1>5
<1>10. UNCHANGED <<alarms, numLimitableAlarms, added, removed>>
  BY <1>1 DEF queue, ghosts
<1> QED BY <1>6, <1>7, <1>8, <1>9, <1>10, PoolStep

LEMMA StartStep ==
    ASSUME IInv, NEW u \in Users, Start(u)
    PROVE  IInv'
<1>1. /\ th[u].pc = "user" /\ UNCHANGED lock /\ ~isRunning /\ controllerIdx' = 0
      /\ \A t \in Slots : th[t].pc = "off" /\ ~th[t].stopping
      /\ \A v \in Users : th[v].pc # "starting"
      /\ UNCHANGED <<reentrancyLock, queue, isRunning, size, now, added, removed, calls>>
      /\ u \in Procs /\ u \notin Slots /\ th \in [Procs -> Thread] /\ th[u] \in Thread /\ Types
      /\ 0 \in Slots /\ 0 \in Procs /\ u # 0
  BY UserKnown, ProcsApart DEF Start, Free
<1> DEFINE r == [th[u] EXCEPT !.pc = "starting"]
           y == Idle("boot", "STARTING")
           x == [y EXCEPT !.code = th[0].code]
<1>2. /\ r \in Thread /\ r.pc = "starting" /\ r.cur = th[u].cur /\ r.state = th[u].state
      /\ r.idx = th[u].idx /\ r.arg = th[u].arg /\ r.gone = th[u].gone
  BY <1>1, CallPc DEF UserPcs
<1>3. x \in Thread /\ x.pc = "boot" /\ x.state = "STARTING" /\ x.cur = None /\ ~x.stopping
  <2>1. y \in Thread /\ y.pc = "boot" /\ y.state = "STARTING" /\ y.cur = None /\ ~y.stopping
    BY IdleTyped DEF SlotPcs, States
  <2>2. th[0].code \in {0, 1, 2}
    BY <1>1 DEF Thread
  <2> HIDE DEF y
  <2> QED BY <2>1, <2>2 DEF Thread
<1>4. th' = [th EXCEPT ![u] = r, ![0] = x]
  BY <1>1 DEF Start
<1> HIDE DEF r, x
<1>5. /\ th' \in [Procs -> Thread] /\ th'[u] = r /\ th'[0] = x
      /\ \A q \in Procs \ {u, 0} : th'[q] = th[q]
  BY <1>1, <1>2, <1>3, <1>4, SetTwo
<1>6. Types'
  BY <1>1, <1>5 DEF Types, queue
<1>7. ASSUME NEW t \in Slots PROVE SlotOK(t)' /\ Watch(t)'
  <2>1. t \in Procs /\ t # u /\ SlotOK(t)
    BY <1>1 DEF IInv, Procs
  <2>2. CASE t = 0
    <3>1. t < size /\ size \in Nat
      BY <1>1, <2>2, TimerAssumption DEF Types
    <3> QED BY <1>1, <1>3, <1>5, <2>2, <3>1, ProcsApart DEF SlotOK, Watch, InHandler, StatesAt, SlotPcs, ExitPcs, WatchPcs, RunPcs
  <2>3. CASE t # 0
    BY <1>1, <1>5, <2>1, <2>3 DEF SlotOK, Watch, InHandler, ExitPcs, WatchPcs, RunPcs
  <2> QED BY <2>2, <2>3
<1>8. Booting'
  <2>1. \A t \in Slots : ~th'[t].stopping /\ (t # 0 => th'[t].pc = "off")
    BY <1>1, <1>3, <1>5 DEF Procs
  <2> QED BY <1>1, <1>3, <1>5, <2>1 DEF Booting
<1>9. ASSUME NEW v \in Users
      PROVE  /\ th'[v].pc \in {th[v].pc, "user"} \/ th'[v].pc = "starting"
             /\ th'[v].state = th[v].state /\ th'[v].idx = th[v].idx
             /\ th'[v].arg = th[v].arg /\ th'[v].gone = th[v].gone
             /\ th'[v].pc = "starting" => v = u
  <2>1. v \in Procs /\ v # 0
    BY ProcsApart DEF Procs
  <2> QED BY <1>1, <1>2, <1>5, <2>1
<1>10. ASSUME NEW p \in Procs
       PROVE  /\ th'[p].cur \in {th[p].cur, None}
              /\ th'[p].pc = "addWait" => th[p].pc = "addWait" /\ th'[p].arg = th[p].arg
  BY <1>2, <1>3, <1>5
<1>11. UNCHANGED <<alarms, numLimitableAlarms, added, removed>>
  BY <1>1 DEF queue
<1> QED BY <1>6, <1>7, <1>8, <1>9, <1>10, <1>11, PoolStep

\* Record x is y, but for its alerts and isStopping.
SamePlace(x, y) ==
    /\ x.pc = y.pc /\ x.state = y.state /\ x.cur = y.cur /\ x.top = y.top /\ x.seen = y.seen
    /\ x.idx = y.idx /\ x.arg = y.arg /\ x.gone = y.gone

\* Stop or Join by a user.
LEMMA OwnerStep ==
    ASSUME IInv, th' \in [Procs -> Thread], \A q \in Procs : SamePlace(th'[q], th[q]),
           \A v \in Users : th[v].pc # "starting", isRunning' = FALSE,
           \A t \in Slots : th[t].pc = "off" \/ (th[t].alerted => th'[t].alerted),
           UNCHANGED <<lock, queue, reentrancyLock, controllerIdx, size, now, added, removed>>
    PROVE  IInv'
<1>1. /\ UNCHANGED <<alarms, numLimitableAlarms, alarmTime, added, removed>> /\ Types
      /\ UNCHANGED addWaitQueue
  BY DEF queue, IInv
<1>2. Types'
  BY <1>1 DEF Types
<1>3. ASSUME NEW t \in Slots PROVE SlotOK(t)' /\ (NoPeriods => Watch(t)')
  <2>1. SlotOK(t) /\ (NoPeriods => Watch(t)) /\ SamePlace(th'[t], th[t])
    BY DEF IInv, Procs
  <2>2. SlotOK(t)'
    BY <1>1, <2>1 DEF SlotOK, InHandler, SamePlace
  <2>3. ASSUME NoPeriods PROVE Watch(t)'
    BY <1>1, <2>1, <2>3 DEF Watch, SamePlace, WatchPcs
  <2> QED BY <2>2, <2>3
<1>4. ASSUME NEW v \in Users
      PROVE  /\ th'[v].pc = th[v].pc /\ th'[v].pc # "starting"
             /\ th'[v].state = th[v].state /\ th'[v].idx = th[v].idx
             /\ th'[v].arg = th[v].arg /\ th'[v].gone = th[v].gone
  BY DEF SamePlace, Procs
<1>5. ASSUME NEW p \in Procs
      PROVE  /\ th'[p].cur = th[p].cur
             /\ th'[p].pc = "addWait" => th[p].pc = "addWait" /\ th'[p].arg = th[p].arg
  BY DEF SamePlace
<1> QED BY <1>1, <1>2, <1>3, <1>4, <1>5, PoolStep

LEMMA Told ==
    ASSUME NEW y \in Thread, NEW c \in {0, 1, 2}
    PROVE  /\ [y EXCEPT !.stopping = TRUE, !.alerted = TRUE, !.code = c] \in Thread
           /\ [y EXCEPT !.stopping = TRUE, !.alerted = TRUE, !.code = c].alerted
           /\ SamePlace([y EXCEPT !.stopping = TRUE, !.alerted = TRUE, !.code = c], y)
<1> DEFINE r == [y EXCEPT !.stopping = TRUE, !.alerted = TRUE, !.code = c]
<1>1. r \in Thread
  BY DEF Thread
<1> QED BY <1>1 DEF Thread, SamePlace

LEMMA Woken ==
    ASSUME NEW y \in Thread
    PROVE  /\ [y EXCEPT !.alerted = TRUE, !.code = 1] \in Thread
           /\ [y EXCEPT !.alerted = TRUE, !.code = 1].alerted
           /\ SamePlace([y EXCEPT !.alerted = TRUE, !.code = 1], y)
<1> DEFINE r == [y EXCEPT !.alerted = TRUE, !.code = 1]
<1>1. r \in Thread
  BY DEF Thread
<1> QED BY <1>1 DEF Thread, SamePlace

LEMMA Quieted ==
    ASSUME NEW y \in Thread
    PROVE  /\ [y EXCEPT !.stopping = FALSE, !.alerted = FALSE] \in Thread
           /\ SamePlace([y EXCEPT !.stopping = FALSE, !.alerted = FALSE], y)
<1> DEFINE r == [y EXCEPT !.stopping = FALSE, !.alerted = FALSE]
<1>1. r \in Thread
  BY DEF Thread
<1> QED BY <1>1 DEF Thread, SamePlace

LEMMA StopStep ==
    ASSUME IInv, NEW u \in Users, Stop(u)
    PROVE  IInv'
<1>1. /\ \A v \in Users : th[v].pc # "starting"
      /\ UNCHANGED <<lock, queue, reentrancyLock, controllerIdx, size, now, added, removed>>
      /\ isRunning' = FALSE /\ th \in [Procs -> Thread]
  BY DEF Stop, Free, IInv, Types
<1> DEFINE Queued(p) == \E i \in 1..Len(addWaitQueue) : addWaitQueue[i] = p
           told(p) == [th[p] EXCEPT !.stopping = TRUE, !.alerted = TRUE,
                                    !.code = IF Queued(p) THEN 1 ELSE th[p].code]
           woken(p) == [th[p] EXCEPT !.alerted = TRUE, !.code = 1]
           g(p) == IF p \in Slots /\ th[p].state # "NULL" THEN told(p)
                   ELSE IF Queued(p) THEN woken(p) ELSE th[p]
<1>2. th' = [p \in Procs |-> g(p)]
  BY DEF Stop
<1>3. ASSUME NEW p \in Procs
      PROVE  g(p) \in Thread /\ SamePlace(g(p), th[p]) /\ (th[p].alerted => g(p).alerted)
  <2>1. th[p] \in Thread
    BY <1>1, SMTT(30)
  <2>2. told(p) \in Thread /\ SamePlace(told(p), th[p]) /\ told(p).alerted
    <3>1. PICK c \in {0, 1, 2} : c = IF Queued(p) THEN 1 ELSE th[p].code
      BY <2>1 DEF Thread
    <3> QED BY <2>1, <3>1, Told
  <2>3. woken(p) \in Thread /\ SamePlace(woken(p), th[p]) /\ woken(p).alerted
    BY <2>1, Woken
  <2>4. SamePlace(th[p], th[p])
    BY DEF SamePlace
  <2> HIDE DEF told, woken, Queued
  <2>5. g(p) \in {told(p), woken(p), th[p]}
    OBVIOUS
  <2> HIDE DEF g
  <2> QED BY <2>1, <2>2, <2>3, <2>4, <2>5
<1> HIDE DEF g
<1>4. th' \in [Procs -> Thread] /\ \A q \in Procs : SamePlace(th'[q], th[q])
  BY <1>2, <1>3
<1>5. \A t \in Slots : th[t].alerted => th'[t].alerted
  BY <1>2, <1>3 DEF Procs
<1> QED BY <1>1, <1>4, <1>5, OwnerStep

LEMMA JoinStep ==
    ASSUME IInv, NEW u \in Users, Join(u)
    PROVE  IInv'
<1>1. /\ \A v \in Users : th[v].pc # "starting"
      /\ \A t \in Slots : th[t].pc = "off"
      /\ UNCHANGED <<lock, queue, reentrancyLock, controllerIdx, size, now, added, removed>>
      /\ isRunning' = FALSE /\ th \in [Procs -> Thread]
  BY DEF Join, Free, IInv, Types, pool
<1> DEFINE quiet(p) == [th[p] EXCEPT !.stopping = FALSE, !.alerted = FALSE]
<1>2. th' = [p \in Procs |-> IF p \in Slots THEN quiet(p) ELSE th[p]]
  BY DEF Join
<1>3. ASSUME NEW p \in Procs
      PROVE  /\ quiet(p) \in Thread /\ SamePlace(quiet(p), th[p])
             /\ th[p] \in Thread /\ SamePlace(th[p], th[p])
  BY <1>1, Quieted DEF SamePlace
<1> HIDE DEF quiet
<1>4. th' \in [Procs -> Thread] /\ \A q \in Procs : SamePlace(th'[q], th[q])
  BY <1>2, <1>3
<1> QED BY <1>1, <1>4, OwnerStep

-----------------------------------------------------------------------------
(* The theorems.                                                           *)

LEMMA InitInv ==
    ASSUME Init
    PROVE  IInv
<1>1. size \in 1..MaxSlots
  BY TimerAssumption DEF Init
<1>2. /\ Idle("user", "user") \in Thread /\ Idle("user", "user").pc = "user"
      /\ Idle("user", "user").state = "user" /\ Idle("user", "user").cur = None
      /\ Idle("off", "NULL") \in Thread /\ Idle("off", "NULL").pc = "off"
      /\ Idle("off", "NULL").state = "NULL" /\ Idle("off", "NULL").cur = None
      /\ ~Idle("off", "NULL").stopping
  BY IdleTyped DEF SlotPcs, UserPcs, States
<1>3. /\ th \in [Procs -> Thread]
      /\ \A u \in Users : th[u].pc = "user" /\ th[u].state = "user" /\ th[u].cur = None
      /\ \A t \in Slots : /\ th[t].pc = "off" /\ th[t].state = "NULL" /\ th[t].cur = None
                          /\ ~th[t].stopping
  <2>1. th = [p \in Procs |-> IF p \in Users THEN Idle("user", "user") ELSE Idle("off", "NULL")]
    BY DEF Init
  <2> QED BY <1>2, <2>1, ProcsApart DEF Procs
<1>4. Types
  BY <1>1, <1>3, TimerAssumption, ProcsApart DEF Init, Types
<1>5. CountMatches
  <2>1. alarms \cap Limitable = {} /\ numLimitableAlarms = 0
    BY DEF Init
  <2>2. Cardinality(alarms \cap Limitable) = Cardinality({})
    BY <2>1, Zenon
  <2> QED BY <2>1, <2>2, FS_EmptySet DEF CountMatches
<1>6. Places /\ Over
  BY <1>3, ProcsApart DEF Init, Places, Over, Runs, Waits, Procs
<1>7. \A t \in Slots : SlotOK(t) /\ Watch(t)
  BY <1>3 DEF Init, SlotOK, Watch, InHandler, StatesAt, SlotPcs, ExitPcs, WatchPcs, RunPcs
<1>8. \A u \in Users : UserOK(u)
  BY <1>3 DEF UserOK, UserPcs
<1> QED BY <1>4, <1>5, <1>6, <1>7, <1>8 DEF IInv

LEMMA NextInv ==
    ASSUME IInv, [Next]_vars
    PROVE  IInv'
<1>1. CASE UNCHANGED vars
  BY <1>1, SameStep DEF vars, queue, pool, ghosts, IInv, Types
<1>2. CASE Tick
  BY <1>2, TickStep
<1>3. ASSUME NEW t \in Slots, ThreadStep(t) \/ EnableReentrancy(t) PROVE IInv'
  <2>1. t \in Procs
    BY DEF Procs
  <2>2. CASE RunInternal(t) \/ Leave(t) \/ LoopDue(t) \/ LoopController(t) \/ LoopWorker(t)
    BY <2>2, RunInternalStep, LeaveStep, LoopDueStep, LoopControllerStep, LoopWorkerStep
  <2>3. CASE Reap(t) \/ ReapDone(t) \/ WaitReturns(t) \/ ReapWoke(t) \/ Slept(t) \/ Idled(t)
    BY <2>3, ReapStep, ReapDoneStep, WaitReturnsStep, ReapWokeStep, SleptStep, IdledStep
  <2>4. CASE Claim(t) \/ Dispatch(t) \/ DispatchGone(t) \/ HandlerReturns(t) \/ Returned(t)
    BY <2>4, ClaimStep, DispatchStep, DispatchGoneStep, HandlerReturnsStep, ReturnedStep
  <2>5. CASE ThreadExit(t) \/ AddAlarmWoken(t) \/ EnableReentrancy(t)
    BY <2>1, <2>5, ThreadExitStep, AddAlarmWokenStep, EnableReentrancyStep
  <2> QED BY <1>3, <2>2, <2>3, <2>4, <2>5 DEF ThreadStep
<1>4. ASSUME NEW p \in Procs, NEW a \in Alarms, AddAlarm(p, a) PROVE IInv'
  BY <1>4, AddAlarmStep
<1>5. ASSUME NEW u \in Users, UserStep(u) PROVE IInv'
  <2>1. u \in Procs /\ th[u].arg \in Alarms \cup {None} \cup {Listener[a] : a \in Alarms}
    BY UserKnown DEF Thread
  <2>2. PICK l \in Alarms \cup {None} \cup {Listener[a] : a \in Alarms} : l = th[u].arg
    BY <2>1
  <2>3. CASE AddAlarmWoken(u) \/ RemoveWait(u) \/ ListenerWait(u) \/ Started(u)
    BY <2>1, <2>3, AddAlarmWokenStep, RemoveWaitStep, ListenerWaitStep, StartedStep
  <2>4. CASE RemoveAlarmsWithListener(u, th[u].arg)
    BY <2>2, <2>4, RemoveAlarmsWithListenerStep
  <2> QED BY <1>5, <2>3, <2>4 DEF UserStep
<1>6. ASSUME NEW u \in Users, UserCall(u) PROVE IInv'
  <2>1. CASE \E a \in Alarms : AddAlarmNonBlocking(u, a)
    BY <2>1, AddAlarmNonBlockingStep
  <2>2. CASE \E a \in Alarms, b \in Alarms : ReplaceAlarm(u, a, b)
    BY <2>2, ReplaceAlarmStep
  <2>3. CASE \E a \in Alarms, force \in BOOLEAN : RemoveAlarm(u, a, force)
    BY <2>3, RemoveAlarmStep
  <2>4. CASE \E a \in Alarms : RemoveAlarmsWithListener(u, Listener[a])
    <3>1. PICK a \in Alarms : RemoveAlarmsWithListener(u, Listener[a])
      BY <2>4
    <3>2. PICK l \in Alarms \cup {None} \cup {Listener[b] : b \in Alarms} : l = Listener[a]
      OBVIOUS
    <3> QED BY <3>1, <3>2, RemoveAlarmsWithListenerStep
  <2>5. CASE Start(u) \/ Stop(u) \/ Join(u)
    BY <2>5, StartStep, StopStep, JoinStep
  <2> QED BY <1>6, <2>1, <2>2, <2>3, <2>4, <2>5 DEF UserCall
<1> QED BY <1>1, <1>2, <1>3, <1>4, <1>5, <1>6 DEF Next

\* The inductive invariant holds: every thread is in a state that goes with its
\* place in the code, and every alarm is in one place at a time.
THEOREM InvHolds == Spec => []IInv
<1>1. Init => IInv
  BY InitInv
<1>2. IInv /\ [Next]_vars => IInv'
  BY NextInv
<1> QED BY <1>1, <1>2, PTL DEF Spec

\* Type correctness of the timer's state, whatever its threads and users do.
THEOREM TypeCorrect == Spec => []TypeOK
<1>1. IInv => TypeOK
  <2> SUFFICES ASSUME IInv PROVE TypeOK
    OBVIOUS
  <2>1. Types
    BY DEF IInv
  <2>2. numLimitableAlarms \in Nat
    BY <2>1, LimitableFinite DEF IInv, CountMatches
  <2>3. \A p \in Procs : th[p].cur \in Alarms \cup {None}
    BY <2>1 DEF Types, Thread
  <2> QED BY <2>1, <2>2, <2>3 DEF TypeOK, Types
<1> QED BY <1>1, InvHolds, PTL

\* numLimitableAlarms, on which AddAlarm decides whether its caller has to wait,
\* is the number of limitable alarms in the set, whichever operations have run.
THEOREM CountCorrect == Spec => []CountMatches
<1>1. IInv => CountMatches
  BY DEF IInv
<1> QED BY <1>1, InvHolds, PTL

\* controllerIdx, which AddAlarm dereferences without looking, names a thread
\* that lives, as long as the timer runs.
THEOREM ControllerAlive == Spec => []ControllerLives
<1>1. IInv => ControllerLives
  <2> SUFFICES ASSUME IInv, isRunning, controllerIdx >= 0
               PROVE  th[controllerIdx].state \in {"STARTING", "IDLE", "RUNNING"}
    BY DEF ControllerLives
  <2>1. PICK c \in Slots : c = controllerIdx
    BY DEF IInv, Types
  <2>2. SlotOK(c)
    BY DEF IInv
  <2>3. th[c].pc \notin ExitPcs \cup {"off"}
    BY <2>1, <2>2 DEF SlotOK
  <2>4. th[c].state \in {"STARTING", "IDLE", "RUNNING"}
    BY <2>2, <2>3 DEF SlotOK, StatesAt, SlotPcs, ExitPcs, WatchPcs, RunPcs
  <2> QED BY <2>1, <2>4
<1> QED BY <1>1, InvHolds, PTL

\* When a blocking removal of a one-shot alarm has returned, the alarm is not in
\* the set and no thread runs its handler, then and ever after.
THEOREM RemovalFinal == Spec => []RemovedIsOver
<1>1. IInv => RemovedIsOver
  BY DEF IInv, Over, Gone, Runs, RemovedIsOver, Procs
<1> QED BY <1>1, InvHolds, PTL

\* As long as no alarm is periodic, a controller that sleeps and has not been
\* alerted wakes up in time for every alarm: AddAlarm's test of the new head of
\* the set, and of the controller's state, loses no wakeup.
THEOREM WakeupNotLost ==
    ASSUME NoPeriods
    PROVE  Spec => []NoLostWakeup
<1>1. IInv /\ NoPeriods => NoLostWakeup
  <2> SUFFICES ASSUME IInv, NoPeriods, NEW t \in Slots, th[t].pc = "sleep",
                      controllerIdx = t, ~th[t].alerted
               PROVE  IF th[t].top = None THEN alarms = {}
                      ELSE \A a \in alarms : th[t].seen <= alarmTime[a]
    BY DEF NoLostWakeup
  <2>1. Watch(t)
    BY DEF IInv
  <2> QED BY <2>1 DEF Watch, WatchPcs
<1>2. IInv => NoLostWakeup
  BY <1>1
<1> QED BY <1>2, InvHolds, PTL
=============================================================================
