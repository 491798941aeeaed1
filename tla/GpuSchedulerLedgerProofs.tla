----------------------- MODULE GpuSchedulerLedgerProofs -----------------------
(* Proofs about what GpuScheduler counts: wakeups against queued items, slots *)
(* against runners, and the units of the admitted backlog against the jobs    *)
(* and items that hold them.                                                  *)
EXTENDS GpuSchedulerItemProofs

-----------------------------------------------------------------------------
(* Wakeups                                                                    *)

\* A step that leaves no more in the queue, the same runners asleep and the same
\* ones signalled loses no wakeup.
LEMMA WaitersUntouched ==
  ASSUME TypeOK, NoLostWakeup, started' => started, signalled' = signalled,
         Len(queue') \in Nat, Len(queue') <= Len(queue),
         \A w \in Workers : worker'[w] = "waiting" <=> worker[w] = "waiting"
  PROVE  NoLostWakeup'
<1>1. Waiters' = Waiters
  BY DEF Waiters
<1>2. Cardinality(signalled) \in Nat /\ Len(queue) \in Nat
  <2>1. signalled \in SUBSET Workers
    BY DEF TypeOK
  <2> QED  BY <2>1, WorkersFinite, SchedulerAssumption, ItemTypes
<1> QED
  BY <1>1, <1>2 DEF NoLostWakeup

\* A runner that takes an item shortens the queue; one that finds none empties it.
LEMMA TakingShortens ==
  ASSUME TypeOK, NEW w \in Workers, NEW f, TakeOrWait(w, f)
  PROVE  \/ queue' = <<>> /\ worker' = [worker EXCEPT ![w] = "waiting"]
         \/ /\ Len(queue') \in Nat /\ Len(queue') < Len(queue)
            /\ worker' = [worker EXCEPT ![w] = "running"]
<1>1. CASE LivePos(f, queue) = {}
  BY <1>1 DEF TakeOrWait
<1>2. CASE LivePos(f, queue) # {}
  <2>1. PICK k \in LivePos(f, queue) :
          queue' = Behind(queue, k) /\ worker' = [worker EXCEPT ![w] = "running"]
    BY <1>2 DEF TakeOrWait
  <2>2. k \in 1 .. Len(queue) /\ queue \in Seq(Items)
    BY ItemTypes DEF LivePos
  <2>3. Len(SubSeq(queue, k + 1, Len(queue))) = Len(queue) - k
    BY <2>2
  <2> QED  BY <2>1, <2>2, <2>3 DEF Behind
<1> QED
  BY <1>1, <1>2

\* The wakeup of make_item is a unit of either side.
LEMMA MakeItemWakes ==
  ASSUME TypeOK, NoLostWakeup, NEW i \in Items, MakeItem(i)
  PROVE  NoLostWakeup'
<1>1. /\ queue' = Append(queue, i) /\ UNCHANGED <<worker, started>> /\ WakeOne
  BY DEF MakeItem, lifeVars
<1>2. Len(queue') = Len(queue) + 1 /\ Len(queue) \in Nat
  BY <1>1, ItemTypes
<1>3. Waiters' = Waiters
  BY <1>1 DEF Waiters
<1>4. signalled \in SUBSET Workers /\ IsFiniteSet(signalled) /\ Cardinality(signalled) \in Nat
  <2>1. signalled \in SUBSET Workers
    BY DEF TypeOK
  <2> QED  BY <2>1, WorkersFinite, SchedulerAssumption
<1>5. CASE Waiters = signalled
  BY <1>1, <1>3, <1>5 DEF WakeOne, NoLostWakeup
<1>6. CASE Waiters # signalled
  <2>1. PICK w \in Waiters \ signalled : signalled' = signalled \cup {w}
    BY <1>1, <1>6 DEF WakeOne
  <2>2. Cardinality(signalled') = Cardinality(signalled) + 1
    BY <1>4, <2>1, FS_AddElement
  <2> QED  BY <1>1, <1>2, <1>4, <1>6, <2>2 DEF NoLostWakeup
<1> QED
  BY <1>5, <1>6

\* A signalled runner that wakes takes an item for its wakeup, or all of them.
LEMMA WakeTakes ==
  ASSUME TypeOK, NoLostWakeup, NEW w \in Workers, Wake(w)
  PROVE  NoLostWakeup'
<1>1. /\ TakeOrWait(w, future) /\ signalled' = signalled \ {w} /\ UNCHANGED started
      /\ worker[w] = "waiting"
  BY DEF Wake, LeaveWaiters, lifeVars
<1>2. /\ signalled \in SUBSET Waiters /\ IsFiniteSet(signalled) /\ IsFiniteSet(signalled')
      /\ Cardinality(signalled) \in Nat /\ Cardinality(signalled') \in Nat
      /\ Cardinality(signalled') >= Cardinality(signalled) - 1
  <2>1. signalled \in SUBSET Workers /\ signalled \in SUBSET Waiters /\ signalled' \in SUBSET Workers
    BY <1>1 DEF TypeOK, Waiters
  <2>2. IsFiniteSet(signalled) /\ IsFiniteSet(signalled') /\ Cardinality(signalled) \in Nat
        /\ Cardinality(signalled') \in Nat
    BY <2>1, WorkersFinite, SchedulerAssumption
  <2>3. Cardinality(signalled \ {w}) = IF w \in signalled THEN Cardinality(signalled) - 1
                                       ELSE Cardinality(signalled)
    BY <2>2, FS_RemoveElement
  <2>4. Cardinality(signalled') >= Cardinality(signalled) - 1
    BY <1>1, <2>2, <2>3
  <2> QED  BY <2>1, <2>2, <2>3, <2>4
<1>3. CASE queue' = <<>>
  <2>1. Len(queue') = 0
    BY <1>3
  <2> QED  BY <1>2, <2>1 DEF NoLostWakeup
<1>4. CASE queue' # <<>>
  <2>1. /\ Len(queue') \in Nat /\ Len(queue') < Len(queue)
        /\ worker' = [worker EXCEPT ![w] = "running"]
    BY <1>1, <1>4, TakingShortens
  <2>2. Waiters' = Waiters \ {w}
    BY <2>1, ItemTypes DEF Waiters
  <2>3. Len(queue) \in Nat
    BY ItemTypes
  <2> QED  BY <1>1, <1>2, <2>1, <2>2, <2>3 DEF NoLostWakeup
<1> QED
  BY <1>3, <1>4

\* Runners that come from work, not from sleep
LEMMA TakesUnsignalled ==
  ASSUME TypeOK, NoLostWakeup, NEW w \in Workers,
         WarmDone(w) \/ \E o \in Outcomes : AttemptSettles(w, o)
  PROVE  NoLostWakeup'
<1>1. /\ worker[w] # "waiting" /\ UNCHANGED <<signalled, started>>
      /\ \E f : TakeOrWait(w, f)
  BY DEF WarmDone, AttemptSettles, lifeVars
<1>2. CASE queue' = <<>>
  <2>1. Len(queue') = 0
    BY <1>2
  <2>2. signalled \in SUBSET Workers
    BY DEF TypeOK
  <2>3. Cardinality(signalled) \in Nat
    BY <2>2, WorkersFinite, SchedulerAssumption
  <2> QED  BY <1>1, <2>1, <2>3 DEF NoLostWakeup
<1>3. CASE queue' # <<>>
  <2>1. /\ Len(queue') \in Nat /\ Len(queue') < Len(queue)
        /\ worker' = [worker EXCEPT ![w] = "running"]
    BY <1>1, <1>3, TakingShortens
  <2>2. \A v \in Workers : worker'[v] = "waiting" <=> worker[v] = "waiting"
    BY <1>1, <2>1, ItemTypes
  <2>3. Len(queue) \in Nat
    BY ItemTypes
  <2> QED  BY <1>1, <2>1, <2>2, <2>3, WaitersUntouched
<1> QED
  BY <1>2, <1>3

LEMMA NextWakeup ==
  ASSUME IInv, Quiet, NoLostWakeup, [Next]_vars
  PROVE  NoLostWakeup'
<1>0. TypeOK /\ (stopping => ~started) /\ Len(queue) \in Nat
  BY ItemTypes DEF IInv, StopExclusive
<1>1. ASSUME NEW w \in Workers,
             WarmDone(w) \/ Wake(w) \/ \E o \in Outcomes : AttemptSettles(w, o)
      PROVE  NoLostWakeup'
  BY <1>0, <1>1, WakeTakes, TakesUnsignalled
<1>2. ASSUME NEW i \in Items, MakeItem(i)
      PROVE  NoLostWakeup'
  BY <1>0, <1>2, MakeItemWakes
<1>3. ASSUME NEW w \in Workers, Retire(w)
      PROVE  NoLostWakeup'
  <2>1. queue' = <<>> /\ Len(queue') = 0 /\ signalled' \in SUBSET Workers
    BY <1>0, <1>3 DEF Retire, LeaveWaiters, TypeOK
  <2>2. Cardinality(signalled') \in Nat
    BY <2>1, WorkersFinite, SchedulerAssumption
  <2> QED  BY <2>1, <2>2 DEF NoLostWakeup
<1>4. CASE \/ StopNoRunners \/ StopBegin \/ StopFlush
           \/ \E w \in Workers : CancelRunner(w)
  <2>1. ~started'
    BY <1>0, <1>4 DEF StopNoRunners, StopBegin, StopFlush, CancelRunner, Cancellable, lifeVars
  <2> QED  BY <2>1 DEF NoLostWakeup
<1>5. CASE Start
  <2>1. Waiters = {} /\ signalled = {}
    BY <1>0, <1>5 DEF Start, Quiet, NoRunners, Active, Waiters, TypeOK
  <2>2. Waiters' = {} /\ signalled' = {}
    BY <1>5, <2>1 DEF Start, Waiters
  <2> QED  BY <2>2 DEF NoLostWakeup
<1>6. CASE \/ UNCHANGED vars
           \/ \E j \in Jobs : (\E n \in 0 .. MaxSteps : Admit(j, n)) \/ FinalizeJob(j)
           \/ \E i \in Items : CancelItem(i) \/ AbandonItem(i) \/ ReleaseCallback(i)
           \/ RunnerExhausted \/ OnRunnerDone \/ CancelSpawned
           \/ \E w \in Workers : ExpireTTL(w)
  <2>1. UNCHANGED <<queue, worker, signalled, started>>
    BY <1>6 DEF vars, Admit, FinalizeJob, CancelItem, AbandonItem, ReleaseCallback,
                RunnerExhausted, OnRunnerDone, CancelSpawned, ExpireTTL, itemVars, runnerVars,
                lifeVars
  <2> QED  BY <1>0, <2>1, WaitersUntouched
<1>7. CASE \/ RunnerStart \/ LeaseOutside \/ ReleaseOutside
           \/ \E w \in Workers : AttemptFails(w) \/ BackoffDone(w)
  <2>1. UNCHANGED <<queue, signalled, started>>
    BY <1>7 DEF RunnerStart, LeaseOutside, ReleaseOutside, AttemptFails, BackoffDone, itemVars,
                lifeVars
  <2>2. \E w \in Workers : \E s \in WorkerStates \ {"waiting"} :
          worker[w] # "waiting" /\ worker' = [worker EXCEPT ![w] = s]
    BY <1>7 DEF RunnerStart, LeaseOutside, ReleaseOutside, AttemptFails, BackoffDone,
                FreeWorkers, WorkerStates
  <2>3. \A w \in Workers : worker'[w] = "waiting" <=> worker[w] = "waiting"
    BY <1>0, <2>2, ItemTypes
  <2> QED  BY <1>0, <2>1, <2>3, WaitersUntouched
<1> QED
  BY <1>1, <1>2, <1>3, <1>4, <1>5, <1>6, <1>7 DEF Next

(* No runner sleeps through queued work: whenever a sleeping runner has not   *)
(* been signalled, each queued item has a signalled runner of its own, so the *)
(* wakeups of make_item and the looks at the queue of _wait_for_work are      *)
(* enough for any number of items, runners and timers.                        *)
THEOREM NoWakeupLost == Spec => []NoLostWakeup
<1>1. Init => NoLostWakeup
  BY DEF Init, NoLostWakeup
<1>2. IInv /\ Quiet /\ NoLostWakeup /\ [Next]_vars => NoLostWakeup'
  BY NextWakeup
<1> QED
  BY <1>1, <1>2, Invariance, ItemInvariance, PTL DEF Spec

-----------------------------------------------------------------------------
(* Slots against runners                                                      *)

(* Before the first start() there are neither slots nor runners (Quiet says   *)
(* the latter), so the first start() begins with both counts at zero; only a  *)
(* stop() that cancels a task before its first step sets them apart.          *)
SlotsExact ==
  /\ starts = 0 => ~started /\ ~stopping /\ slots = 0
  /\ SlotsAreRunners

\* What the proofs about slots use of the inductive invariant
LEMMA SlotFacts ==
  ASSUME IInv
  PROVE  /\ slots \in 0 .. Capacity /\ slots \in Nat /\ spawned \in Nat /\ starts \in Nat
         /\ Cardinality(Act(worker)) \in Nat
         /\ worker \in [Workers -> WorkerStates]
         /\ queue \in Seq(Items) /\ avg \in AvgValues
         /\ Active = Act(worker) /\ Active' = Act(worker')
  BY IInvFacts, SchedulerAssumption DEF IInv, TypeOK, Act, Active, NotRunner

\* Reconciling adds as many slots as runners.
LEMMA ReconcileExact ==
  ASSUME IInv, NEW s \in 0 .. Capacity, NEW p \in Nat, NEW q \in Seq(Items),
         NEW wk \in [Workers -> WorkerStates], NEW a \in AvgValues,
         Reconcile(s, p, q, wk, a) \/ SpawnUpTo(s, p, q, wk, a)
  PROVE  slots' \in Nat /\ spawned' \in Nat /\ slots' - s = spawned' - p
<1>1. /\ slots' \in s .. Capacity /\ spawned' \in Nat /\ slots' - s = spawned' - p
  BY ReconcileEffect, SpawnEffect
<1> QED
  BY <1>1, SchedulerAssumption

\* Slots and runners move together except in stop().
LEMMA SlotsMoveWithRunners ==
  ASSUME IInv, Next, ~ (\/ StopNoRunners \/ StopBegin \/ StopFlush \/ CancelSpawned
                        \/ \E w \in Workers : CancelRunner(w))
  PROVE  slots' - slots = spawned' + Cardinality(Act(worker')) - spawned - Cardinality(Act(worker))
<1> USE SlotFacts
<1> DEFINE Moves == slots' - slots
                      = spawned' + Cardinality(Act(worker')) - spawned - Cardinality(Act(worker))
<1>1. CASE \/ \E j \in Jobs : (\E n \in 0 .. MaxSteps : Admit(j, n)) \/ FinalizeJob(j)
           \/ \E i \in Items : CancelItem(i) \/ AbandonItem(i) \/ ReleaseCallback(i)
           \/ \E w \in Workers : ExpireTTL(w)
  <2>1. UNCHANGED <<slots, spawned, worker>>
    BY <1>1 DEF Admit, FinalizeJob, CancelItem, AbandonItem, ReleaseCallback, ExpireTTL,
                runnerVars
  <2> QED  BY <2>1
<1>2. CASE Start \/ OnRunnerDone \/ \E i \in Items : MakeItem(i)
  <2>1. UNCHANGED worker
    BY <1>2 DEF Start, OnRunnerDone, MakeItem
  <2>2. \E q \in Seq(Items) : \/ SpawnUpTo(slots, spawned, q, worker, avg)
                              \/ Reconcile(slots, spawned, q, worker, avg)
    BY <1>2, AppendProperties DEF Start, OnRunnerDone, MakeItem
  <2>3. slots' \in Nat /\ spawned' \in Nat /\ slots' - slots = spawned' - spawned
    BY <2>2, ReconcileExact
  <2> QED  BY <2>1, <2>3
<1>3. CASE RunnerStart
  <2>1. PICK w \in Workers : worker[w] = "free" /\ worker' = [worker EXCEPT ![w] = "warming"]
    BY <1>3 DEF RunnerStart, FreeWorkers
  <2>2. Cardinality(Act(worker')) = Cardinality(Act(worker)) + 1
    BY <2>1, ActUpdate DEF NotRunner, WorkerStates
  <2> QED  BY <1>3, <2>2 DEF RunnerStart
<1>4. CASE LeaseOutside \/ ReleaseOutside
  <2>1. PICK w \in Workers, s \in NotRunner :
          worker[w] \in NotRunner /\ worker' = [worker EXCEPT ![w] = s]
    BY <1>4 DEF LeaseOutside, ReleaseOutside, NotRunner, FreeWorkers
  <2>2. Cardinality(Act(worker')) = Cardinality(Act(worker))
    <3>1. s \in WorkerStates /\ (worker[w] \in NotRunner <=> s \in NotRunner)
      BY <2>1 DEF NotRunner, WorkerStates
    <3> QED  BY <2>1, <3>1, ActUpdate
  <2>3. UNCHANGED <<slots, spawned>>
    BY <1>4 DEF LeaseOutside, ReleaseOutside
  <2> QED  BY <2>2, <2>3
<1>5. CASE RunnerExhausted
  <2>1. slots - 1 \in 0 .. Capacity /\ spawned - 1 \in Nat
    BY <1>5, IInvFacts, SchedulerAssumption DEF RunnerExhausted
  <2>2. UNCHANGED worker /\ Reconcile(slots - 1, spawned - 1, queue, worker, avg)
    BY <1>5 DEF RunnerExhausted
  <2>3. slots' \in Nat /\ spawned' \in Nat /\ slots' - (slots - 1) = spawned' - (spawned - 1)
    BY <2>1, <2>2, ReconcileExact
  <2> QED  BY SMTT(30), <2>2, <2>3
<1>6. ASSUME NEW w \in Workers,
             \/ WarmDone(w) \/ Wake(w) \/ AttemptFails(w) \/ BackoffDone(w)
             \/ \E o \in Outcomes : AttemptSettles(w, o)
      PROVE  Moves
  <2>1. worker[w] \notin NotRunner
    BY <1>6 DEF WarmDone, Wake, AttemptFails, BackoffDone, AttemptSettles, NotRunner
  <2>2. \E s \in {"waiting", "running", "backoff"} : worker' = [worker EXCEPT ![w] = s]
    <3>1. CASE AttemptFails(w) \/ BackoffDone(w)
      BY <3>1 DEF AttemptFails, BackoffDone
    <3>2. CASE ~ (AttemptFails(w) \/ BackoffDone(w))
      <4>1. TypeOK /\ \E f : TakeOrWait(w, f)
        BY <1>6, <3>2 DEF WarmDone, Wake, AttemptSettles, IInv
      <4> QED  BY <4>1, TakingShortens
    <3> QED  BY <3>1, <3>2
  <2>3. Cardinality(Act(worker')) = Cardinality(Act(worker))
    BY <2>1, <2>2, RunnerKept DEF WorkerStates, NotRunner
  <2>4. CASE \E o \in Outcomes : AttemptSettles(w, o)
    <3>1. avg' \in AvgValues /\ [worker EXCEPT ![w] = "waiting"] \in [Workers -> WorkerStates]
          /\ Reconcile(slots, spawned, queue, [worker EXCEPT ![w] = "waiting"], avg')
      BY <2>4 DEF AttemptSettles, WorkerStates
    <3>2. slots' \in Nat /\ spawned' \in Nat /\ slots' - slots = spawned' - spawned
      BY <3>1, ReconcileExact
    <3> QED  BY <2>3, <3>2
  <2>5. CASE ~ \E o \in Outcomes : AttemptSettles(w, o)
    <3>1. UNCHANGED <<slots, spawned>>
      BY <1>6, <2>5 DEF WarmDone, Wake, AttemptFails, BackoffDone
    <3> QED  BY <2>3, <3>1
  <2> QED  BY <2>4, <2>5
<1>7. ASSUME NEW w \in Workers, Retire(w)
      PROVE  Moves
  <2>1. worker[w] = "waiting" /\ worker' = [worker EXCEPT ![w] = "free"]
        /\ Reconcile(slots - 1, spawned, <<>>, worker', avg)
    BY <1>7 DEF Retire
  <2>2. Cardinality(Act(worker')) = Cardinality(Act(worker)) - 1
        /\ worker' \in [Workers -> WorkerStates]
    BY <2>1, ActUpdate DEF NotRunner, WorkerStates
  <2>3. slots - 1 \in 0 .. Capacity /\ <<>> \in Seq(Items)
    BY <2>1, IInvFacts, SchedulerAssumption DEF NotRunner
  <2>4. slots' \in Nat /\ spawned' \in Nat /\ slots' - (slots - 1) = spawned' - spawned
    BY <2>1, <2>2, <2>3, ReconcileExact
  <2> QED  BY SMTT(30), <2>2, <2>4
<1> QED
  BY <1>1, <1>2, <1>3, <1>4, <1>5, <1>6, <1>7 DEF Next

LEMMA NextSlots ==
  ASSUME IInv, Quiet, SlotsExact, [Next]_vars
  PROVE  SlotsExact'
<1> USE SlotFacts
<1>1. CASE UNCHANGED vars
  BY <1>1 DEF SlotsExact, SlotsAreRunners, vars, lifeVars, runnerVars
<1>2. CASE \/ StopNoRunners \/ StopBegin \/ StopFlush \/ CancelSpawned
           \/ \E w \in Workers : CancelRunner(w)
  <2>1. ~started' /\ starts' = starts /\ starts # 0
    <3>1. CASE StopNoRunners \/ StopBegin
      BY <3>1 DEF StopNoRunners, StopBegin, SlotsExact
    <3>2. CASE StopFlush \/ CancelSpawned \/ \E w \in Workers : CancelRunner(w)
      <4>1. stopping /\ UNCHANGED <<started, starts>>
        BY <3>2 DEF StopFlush, CancelSpawned, CancelRunner, Cancellable, lifeVars
      <4> QED  BY <4>1 DEF IInv, StopExclusive, SlotsExact
    <3> QED  BY <1>2, <3>1, <3>2
  <2> QED  BY <2>1 DEF SlotsExact, SlotsAreRunners
<1>3. ASSUME Next, ~ (\/ StopNoRunners \/ StopBegin \/ StopFlush \/ CancelSpawned
                      \/ \E w \in Workers : CancelRunner(w))
      PROVE  SlotsExact'
  <2>1. slots' - slots = spawned' + Cardinality(Act(worker')) - spawned - Cardinality(Act(worker))
    BY <1>3, SlotsMoveWithRunners
  <2>2. IInv'
    BY <1>3, NextIInv
  <2>3. slots' \in Nat /\ spawned' \in Nat /\ Cardinality(Act(worker')) \in Nat
    <3>1. slots' \in Nat /\ spawned' \in Nat
      BY <2>2 DEF IInv, TypeOK
    <3>2. Act(worker') \in SUBSET Workers
      BY DEF Act
    <3>3. Cardinality(Act(worker')) \in 0 .. Capacity /\ Capacity \in Nat
      BY <3>2, WorkersFinite, SchedulerAssumption
    <3> QED  BY <3>1, <3>3
  <2>4. CASE Start
    <3>1. starts' = starts + 1 /\ ~started /\ ~stopping
      BY <2>4 DEF Start
    <3>2. starts = 0 => slots = 0 /\ spawned = 0 /\ Cardinality(Act(worker)) = 0
      BY <3>1, FS_EmptySet DEF SlotsExact, Quiet, NoRunners
    <3> QED  BY SMTT(30), <2>1, <2>3, <3>1, <3>2 DEF SlotsExact, SlotsAreRunners
  <2>5. CASE ~ Start
    <3>1. UNCHANGED <<started, stopping, starts>>
      BY <1>3, <2>5 DEF Next, lifeVars, Admit, FinalizeJob, MakeItem, CancelItem, AbandonItem,
         ReleaseCallback, RunnerStart, RunnerExhausted, WarmDone, ExpireTTL, Wake, Retire,
         AttemptFails, AttemptSettles, BackoffDone, OnRunnerDone, LeaseOutside, ReleaseOutside
    <3>2. ASSUME starts = 0 PROVE slots' = 0
      <4>1. ~started /\ slots = 0 /\ spawned = 0 /\ Cardinality(Act(worker)) = 0
        BY <3>2, FS_EmptySet DEF SlotsExact, Quiet, NoRunners
      <4>2. Cardinality(Act(worker')) = 0 /\ spawned' = 0
        <5>1. Quiet'
          BY <1>3, QuietStep DEF IInv
        <5> QED  BY <3>1, <3>2, <5>1, FS_EmptySet DEF Quiet, NoRunners, SlotsExact
      <4> QED  BY <2>1, <2>3, <4>1, <4>2
    <3> QED  BY SMTT(30), <2>1, <2>3, <3>1, <3>2 DEF SlotsExact, SlotsAreRunners
  <2> QED  BY <2>4, <2>5
<1> QED
  BY <1>1, <1>2, <1>3

\* The first run of a scheduler never gives up or takes a slot without a runner.
LEMMA SlotInvariance == Spec => []SlotsExact
<1>1. Init => SlotsExact
  BY DEF Init, SlotsExact, SlotsAreRunners
<1>2. IInv /\ Quiet /\ SlotsExact /\ [Next]_vars => SlotsExact'
  BY NextSlots
<1> QED
  BY <1>1, <1>2, Invariance, ItemInvariance, PTL DEF Spec

(* Until the first stop() the slot count is exactly the number of runners, so *)
(* the spawns, retirements and exhausted runners of _reconcile and of the     *)
(* runner's finally never let it drift.                                       *)
THEOREM SlotsAreAlwaysRunners == Spec => []SlotsAreRunners
<1>1. SlotsExact => SlotsAreRunners
  BY DEF SlotsExact
<1> QED
  BY <1>1, SlotInvariance, PTL

-----------------------------------------------------------------------------
(* Action properties                                                          *)

\* A runner gives its worker up when it retires or is cancelled.
LEMMA WorkerMoves ==
  ASSUME TypeOK, [Next]_vars, NEW w \in Active, worker'[w] = "free"
  PROVE  Retire(w) \/ CancelRunner(w)
<1> USE ItemTypes DEF Active
<1>1. CASE RunnerStart \/ LeaseOutside \/ ReleaseOutside
  <2>1. \E v \in Workers : \E s \in {"warming", "leasedOutside", "free"} :
          /\ worker' = [worker EXCEPT ![v] = s]
          /\ worker[v] \in {"free", "leasedOutside"}
    BY <1>1 DEF RunnerStart, LeaseOutside, ReleaseOutside, FreeWorkers
  <2> QED  BY <2>1
<1>2. ASSUME NEW v \in Workers, WarmDone(v) \/ Wake(v) \/ \E o \in Outcomes : AttemptSettles(v, o)
      PROVE  worker'[w] \in {"waiting", "running"}
  <2>1. \E f : TakeOrWait(v, f)
    BY <1>2 DEF WarmDone, Wake, AttemptSettles
  <2>2. \E s \in {"waiting", "running"} : worker' = [worker EXCEPT ![v] = s]
    BY <2>1, TakingShortens
  <2> QED  BY <2>2
<1>3. ASSUME NEW v \in Workers, BackoffDone(v) PROVE worker'[w] = "running"
  BY <1>3 DEF BackoffDone
<1>4. ASSUME NEW v \in Workers, AttemptFails(v) PROVE v = w /\ worker'[w] = "backoff"
  BY <1>4 DEF AttemptFails
<1>5. ASSUME NEW v \in Workers, Retire(v) \/ CancelRunner(v) PROVE v = w /\ worker'[w] = "free"
  BY <1>5 DEF Retire, CancelRunner
<1>6. \/ RunnerStart \/ LeaseOutside \/ ReleaseOutside
      \/ \E v \in Workers : \/ WarmDone(v) \/ Wake(v) \/ Retire(v) \/ CancelRunner(v)
                            \/ AttemptFails(v) \/ BackoffDone(v)
                            \/ \E o \in Outcomes : AttemptSettles(v, o)
  <2>1. worker' # worker
    OBVIOUS
  <2>2. ~ (\/ UNCHANGED vars
           \/ Start \/ RunnerExhausted \/ OnRunnerDone \/ StopNoRunners \/ StopBegin
           \/ CancelSpawned \/ StopFlush)
    BY <2>1 DEF vars, Start, RunnerExhausted, OnRunnerDone, StopNoRunners, StopBegin,
                CancelSpawned, StopFlush, runnerVars
  <2>3. \A j \in Jobs : (\A n \in 0 .. MaxSteps : ~ Admit(j, n)) /\ ~ FinalizeJob(j)
    BY <2>1 DEF Admit, FinalizeJob, runnerVars
  <2>4. \A i \in Items : /\ ~ MakeItem(i) /\ ~ CancelItem(i) /\ ~ AbandonItem(i)
                         /\ ~ ReleaseCallback(i)
    BY <2>1 DEF MakeItem, CancelItem, AbandonItem, ReleaseCallback, runnerVars
  <2>5. \A v \in Workers : ~ ExpireTTL(v)
    BY <2>1 DEF ExpireTTL
  <2> QED  BY <2>2, <2>3, <2>4, <2>5 DEF Next
<1> QED
  BY <1>1, <1>2, <1>3, <1>4, <1>5, <1>6

\* A flag set by cancel() stays.
LEMMA FlagsStay ==
  ASSUME TypeOK, [Next]_vars
  PROVE  cancelled \subseteq cancelled'
<1>1. ASSUME NEW i \in Items, MakeItem(i) \/ CancelItem(i) \/ AbandonItem(i) \/ ReleaseCallback(i)
      PROVE  cancelled \subseteq cancelled'
  BY <1>1 DEF MakeItem, CancelItem, AbandonItem, ReleaseCallback
<1>2. ASSUME NEW w \in Workers,
             \/ WarmDone(w) \/ ExpireTTL(w) \/ Wake(w) \/ Retire(w) \/ AttemptFails(w)
             \/ BackoffDone(w) \/ CancelRunner(w) \/ \E o \in Outcomes : AttemptSettles(w, o)
      PROVE  UNCHANGED cancelled
  BY <1>2 DEF WarmDone, ExpireTTL, Wake, Retire, AttemptFails, BackoffDone, CancelRunner,
       AttemptSettles, itemVars
<1>3. CASE \/ UNCHANGED vars
           \/ Start \/ RunnerStart \/ RunnerExhausted \/ OnRunnerDone \/ StopNoRunners \/ StopBegin
           \/ CancelSpawned \/ StopFlush \/ LeaseOutside \/ ReleaseOutside
           \/ \E j \in Jobs : (\E n \in 0 .. MaxSteps : Admit(j, n)) \/ FinalizeJob(j)
  BY <1>3 DEF vars, Start, RunnerStart, RunnerExhausted, OnRunnerDone, StopNoRunners, StopBegin,
       CancelSpawned, StopFlush, LeaseOutside, ReleaseOutside, Admit, FinalizeJob, itemVars
<1> QED
  BY <1>1, <1>2, <1>3 DEF Next

\* A runner that looks for its next item passes over the flagged ones.
LEMMA FlaggedPassedOver ==
  ASSUME TypeOK, ItemInv, NEW i \in cancelled, NEW w \in Workers, NEW f, TakeOrWait(w, f)
  PROVE  attempts'[i] = attempts[i]
<1> USE ItemTypes
<1>1. CASE LivePos(f, queue) = {}
  BY <1>1 DEF TakeOrWait
<1>2. CASE LivePos(f, queue) # {}
  <2>1. PICK k \in LivePos(f, queue) : attempts' = [attempts EXCEPT ![queue[k]] = @ + 1]
    BY <1>2 DEF TakeOrWait
  <2>2. queue[k] # i
    BY DEF LivePos, Live
  <2> QED  BY <2>1, <2>2
<1> QED
  BY <1>1, <1>2

\* The attempts at an item only rise when an attempt begins, a backoff for one.
LEMMA CommittedFacts ==
  ASSUME TypeOK, NEW i \in Items
  PROVE  /\ Committed(i) \in Nat /\ attempts[i] <= Committed(i)
         /\ /\ attempts'[i] = attempts[i]
            /\ \A w \in Workers : holding'[w] = i /\ worker'[w] = "backoff"
                                    => holding[w] = i /\ worker[w] = "backoff"
            => Committed(i)' <= Committed(i)
<1>1. attempts[i] \in Nat
  BY ItemTypes
<1> QED
  BY <1>1 DEF Committed

(* No step commits a runner to one more attempt at a flagged item: the pop    *)
(* skips it, and should_abort is consulted between a failed attempt and its   *)
(* backoff.  The attempt that ends a backoff was counted before, and counted  *)
(* once, since the item has one runner.                                       *)
LEMMA NoNewCommitment ==
  ASSUME TypeOK, ItemInv, [Next]_vars, NEW i \in cancelled
  PROVE  Committed(i)' <= Committed(i)
<1> USE ItemTypes
<1>0. i \in Items
  BY DEF TypeOK
<1>1. CASE RunnersRest
  BY <1>0, <1>1, CommittedFacts DEF RunnersRest, Executes
<1>2. ASSUME NEW w \in Workers, WarmDone(w) \/ Wake(w) \/ \E o \in Outcomes : AttemptSettles(w, o)
      PROVE  Committed(i)' <= Committed(i)
  <2>1. PICK f : LetsGo(w, f) /\ TakeOrWait(w, f)
    BY <1>2, RunnerLetsGo
  <2>2. /\ \A v \in Workers : v # w => worker'[v] = worker[v] /\ holding'[v] = holding[v]
        /\ worker'[w] \in {"waiting", "running"}
    BY <2>1, TakingBegins
  <2>3. attempts'[i] = attempts[i]
    BY <2>1, FlaggedPassedOver
  <2> QED  BY <1>0, <2>2, <2>3, CommittedFacts
<1>3. ASSUME NEW w \in Workers, BackoffDone(w)
      PROVE  Committed(i)' <= Committed(i)
  <2>1. /\ worker[w] = "backoff" /\ worker' = [worker EXCEPT ![w] = "running"]
        /\ attempts' = [attempts EXCEPT ![holding[w]] = @ + 1] /\ UNCHANGED holding
    BY <1>3 DEF BackoffDone
  <2>2. CASE holding[w] = i
    <3>1. \A v \in Workers : holding[v] = i => v = w
      BY <1>0, <2>2 DEF ItemInv, HoldersExecute
    <3>2. ~ \E v \in Workers : holding'[v] = i /\ worker'[v] = "backoff"
      BY <2>1, <3>1
    <3>3. attempts[i] \in Nat /\ attempts'[i] = attempts[i] + 1
      BY <1>0, <2>1, <2>2
    <3>4. Committed(i)' = attempts[i] + 1
      BY <3>2, <3>3 DEF Committed
    <3>5. Committed(i) = attempts[i] + 1
      BY <2>1, <2>2 DEF Committed
    <3> QED  BY <3>3, <3>4, <3>5
  <2>3. CASE holding[w] # i
    <3>1. attempts'[i] = attempts[i]
      BY <1>0, <2>1, <2>3
    <3> QED  BY <1>0, <2>1, <3>1, CommittedFacts
  <2> QED  BY <2>2, <2>3
<1>4. ASSUME NEW w \in Workers, AttemptFails(w)
      PROVE  Committed(i)' <= Committed(i)
  <2>1. holding[w] # i
    BY <1>4 DEF AttemptFails, AfterAttempt
  <2>2. worker' = [worker EXCEPT ![w] = "backoff"] /\ UNCHANGED <<attempts, holding>>
    BY <1>4 DEF AttemptFails, itemVars
  <2> QED  BY <1>0, <2>1, <2>2, CommittedFacts
<1>5. ASSUME NEW w \in Workers, ExpireTTL(w) \/ Retire(w) \/ CancelRunner(w)
      PROVE  Committed(i)' <= Committed(i)
  <2>1. /\ UNCHANGED attempts
        /\ \A v \in Workers : worker'[v] = "backoff" => worker[v] = "backoff" /\ holding'[v] = holding[v]
    BY <1>5, RetireLetsGo DEF ExpireTTL, CancelRunner, itemVars
  <2> QED  BY <1>0, <2>1, CommittedFacts
<1>6. \A n \in 0 .. MaxSteps : n \in Nat
  BY SchedulerAssumption
<1> QED
  BY <1>1, <1>2, <1>3, <1>4, <1>5, <1>6, CallsRest DEF Next

\* A flagged item to which no more than n attempts are committed
FlaggedAt(i, n) == i \in cancelled /\ Committed(i) <= n

(* From the moment cancel() has flagged an item, whatever the retry budget    *)
(* and wherever the item is, its attempts are those that had begun and the    *)
(* one that an unfinished backoff leads to.                                   *)
THEOREM CancelAlwaysHeeded == Spec => CancelIsHeeded
<1>1. SUFFICES ASSUME []IInv, [](ItemInv /\ Quiet), [][Next]_vars
               PROVE  CancelIsHeeded
  BY Invariance, ItemInvariance, PTL DEF Spec
<1>2. ASSUME NEW i \in Items, NEW n \in 0 .. MaxAttempts
      PROVE  i \in cancelled /\ Committed(i) = n => [](attempts[i] <= n)
  <2>1. IInv /\ (ItemInv /\ Quiet) /\ [Next]_vars /\ FlaggedAt(i, n) => FlaggedAt(i, n)'
    <3>1. SUFFICES ASSUME TypeOK, ItemInv, [Next]_vars, FlaggedAt(i, n), TypeOK'
                   PROVE  FlaggedAt(i, n)'
      BY NextIInv DEF IInv
    <3>2. i \in cancelled' /\ Committed(i)' <= Committed(i)
      BY <3>1, FlagsStay, NoNewCommitment DEF FlaggedAt
    <3>3. Committed(i) \in Nat /\ Committed(i)' \in Nat
      <4>1. attempts[i] \in Nat /\ attempts'[i] \in Nat
        BY <3>1 DEF TypeOK
      <4> QED  BY <4>1 DEF Committed
    <3> QED  BY <3>1, <3>2, <3>3 DEF FlaggedAt
  <2>2. IInv /\ FlaggedAt(i, n) => attempts[i] <= n
    BY CommittedFacts, ItemTypes DEF FlaggedAt, IInv
  <2>3. i \in cancelled /\ Committed(i) = n => FlaggedAt(i, n)
    BY DEF FlaggedAt
  <2> QED  BY <1>1, <2>1, <2>2, <2>3, PTL
<1>3. \A i \in Items : \A n \in 0 .. MaxAttempts :
        i \in cancelled /\ Committed(i) = n => [](attempts[i] <= n)
  BY <1>2
<1> QED
  BY <1>3, PTL DEF CancelIsHeeded

(* Outside stop() only an idle runner gives its worker up, never with live    *)
(* work in the queue and never, in the scheduler's first run, out of the warm *)
(* floor: the last point rests on the slot count being exact.                 *)
THEOREM ScaleDownAlwaysLazy == Spec => ScaleDownIsLazy
<1>1. ASSUME IInv, SlotsExact, [Next]_vars, started', NEW w \in Workers,
             w \in Active, worker'[w] = "free"
      PROVE  /\ worker[w] = "waiting"
             /\ LivePos(future, queue) = {}
             /\ starts = 1 => Cardinality(Active) + spawned > MinWarm
  <2>1. Retire(w) \/ CancelRunner(w)
    BY <1>1, WorkerMoves DEF IInv, Active
  <2>2. ~ CancelRunner(w)
    BY <1>1 DEF CancelRunner, Cancellable, lifeVars, IInv, StopExclusive
  <2>3. Retire(w) /\ started
    BY <1>1, <2>1, <2>2 DEF Retire, lifeVars
  <2>4. starts = 1 => slots = spawned + Cardinality(Active)
    BY <1>1, <2>3 DEF SlotsExact, SlotsAreRunners
  <2> QED
    BY <1>1, <2>3, <2>4, SlotFacts DEF Retire, MayRetire
<1>2. IInv /\ SlotsExact /\ [Next]_vars =>
        [started' => \A w \in Workers :
           w \in Active /\ worker'[w] = "free" =>
             /\ worker[w] = "waiting"
             /\ LivePos(future, queue) = {}
             /\ starts = 1 => Cardinality(Active) + spawned > MinWarm]_vars
  BY <1>1
<1> QED
  BY <1>2, Invariance, SlotInvariance, PTL DEF Spec, ScaleDownIsLazy

-----------------------------------------------------------------------------
(* The admission ledger                                                       *)

\* The units reserved when b gives each job's reservation
Reserved(b) == {u \in Jobs \X (1 .. MaxBacklog) : u[2] <= b[u[1]]}

(* A job that was not admitted has no reservation, so an admission adds just  *)
(* its own units; an item whose release is due is settled, so the callback    *)
(* gives back one unit and make_item never reuses it.                         *)
LedgerInv ==
  /\ AdmissionBalanced
  /\ \A j \in Jobs : caller[j] = "new" => byJob[j] = 0
  /\ \A i \in releasing : future[i] \notin {"none", "pending"}

LEMMA ReservedFinite ==
  ASSUME NEW b
  PROVE  IsFiniteSet(Reserved(b)) /\ Cardinality(Reserved(b)) \in Nat
<1>1. IsFiniteSet(Jobs) /\ IsFiniteSet(1 .. MaxBacklog)
  BY SchedulerAssumption, FS_Interval
<1>2. IsFiniteSet(Jobs \X (1 .. MaxBacklog))
  BY <1>1, FS_Product
<1>3. Reserved(b) \in SUBSET (Jobs \X (1 .. MaxBacklog))
  BY DEF Reserved
<1> QED
  BY <1>2, <1>3, FS_Subset, FS_CardinalityType

\* Changing one job's reservation changes the count by as much.
LEMMA ReservedUpdate ==
  ASSUME NEW b \in [Jobs -> 0 .. MaxBacklog], NEW j \in Jobs, NEW m \in 0 .. MaxBacklog
  PROVE  /\ Cardinality(Reserved([b EXCEPT ![j] = m])) = Cardinality(Reserved(b)) - b[j] + m
         /\ b[j] <= Cardinality(Reserved(b))
<1> DEFINE Rest == {u \in Jobs \X (1 .. MaxBacklog) : u[1] # j /\ u[2] <= b[u[1]]}
           Column(n) == {j} \X (1 .. n)
<1>1. MaxBacklog \in Nat /\ b[j] \in 0 .. MaxBacklog
  BY SchedulerAssumption
<1>2. Rest \in SUBSET Reserved(b)
  BY DEF Reserved
<1>3. IsFiniteSet(Rest) /\ Cardinality(Rest) \in Nat
  BY <1>2, ReservedFinite, FS_Subset, FS_CardinalityType
<1>4. ASSUME NEW c \in [Jobs -> 0 .. MaxBacklog], \A x \in Jobs : x # j => c[x] = b[x]
      PROVE  Cardinality(Reserved(c)) = Cardinality(Rest) + c[j]
  <2>1. c[j] \in 0 .. MaxBacklog /\ c[j] \in Int
    BY <1>1
  <2>2. IsFiniteSet(1 .. c[j]) /\ Cardinality(1 .. c[j]) = c[j]
    BY <2>1, FS_Interval
  <2>3. IsFiniteSet({j}) /\ Cardinality({j}) = 1
    BY FS_Singleton
  <2>4. IsFiniteSet(Column(c[j])) /\ Cardinality(Column(c[j])) = 1 * c[j]
    BY <2>2, <2>3, FS_Product
  <2>5. Reserved(c) = Rest \cup Column(c[j]) /\ Rest \cap Column(c[j]) = {}
    <3>1. ASSUME NEW u \in Reserved(c) PROVE u \in Rest \cup Column(c[j])
      BY <1>4, <2>1, <3>1 DEF Reserved
    <3>2. ASSUME NEW u \in Rest PROVE u \in Reserved(c)
      BY <1>4, <3>2 DEF Reserved
    <3>3. ASSUME NEW n \in 1 .. c[j] PROVE <<j, n>> \in Reserved(c)
      BY <1>1, <2>1, <3>3 DEF Reserved
    <3>4. \A u \in Column(c[j]) : u[1] = j /\ u[2] \in 1 .. c[j] /\ u = <<u[1], u[2]>>
      OBVIOUS
    <3>5. \A u \in Column(c[j]) : u \in Reserved(c)
      BY <3>3, <3>4
    <3>6. Rest \cap Column(c[j]) = {}
      BY <3>4
    <3> HIDE DEF Rest, Column
    <3> QED  BY <3>1, <3>2, <3>5, <3>6
  <2> HIDE DEF Rest, Column
  <2>6. Cardinality(Rest \cap Column(c[j])) = 0
    BY <2>5, FS_EmptySet
  <2>7. Cardinality(Rest \cup Column(c[j]))
          = Cardinality(Rest) + Cardinality(Column(c[j])) - Cardinality(Rest \cap Column(c[j]))
    BY <1>3, <2>4, FS_Union
  <2> QED  BY <1>3, <2>1, <2>4, <2>5, <2>6, <2>7
<1> HIDE DEF Rest
<1>5. Cardinality(Reserved(b)) = Cardinality(Rest) + b[j]
  BY <1>4
<1>6. [b EXCEPT ![j] = m] \in [Jobs -> 0 .. MaxBacklog]
  OBVIOUS
<1>7. Cardinality(Reserved([b EXCEPT ![j] = m])) = Cardinality(Rest) + m
  BY <1>4, <1>6
<1> QED
  BY <1>1, <1>3, <1>5, <1>7

LEMMA HoldingFinite == IsFiniteSet(HoldingUnits) /\ Cardinality(HoldingUnits) \in Nat
<1>1. IsFiniteSet(Jobs) /\ IsFiniteSet(1 .. MaxSteps)
  BY SchedulerAssumption, FS_Interval
<1>2. IsFiniteSet(Items)
  BY <1>1, FS_Product DEF Items
<1>3. HoldingUnits \in SUBSET Items
  BY DEF HoldingUnits
<1> QED
  BY <1>2, <1>3, FS_Subset, FS_CardinalityType

\* The ledger in the terms of the lemmas
LEMMA LedgerFacts ==
  ASSUME TypeOK, LedgerInv
  PROVE  /\ byJob \in [Jobs -> 0 .. MaxBacklog] /\ MaxBacklog \in Nat
         /\ Cardinality(Reserved(byJob)) \in Nat /\ Cardinality(HoldingUnits) \in Nat
         /\ admitted = Cardinality(Reserved(byJob)) + Cardinality(HoldingUnits)
         /\ admitted \in Nat
<1>1. MaxBacklog \in Nat /\ byJob \in [Jobs -> 0 .. MaxBacklog]
  BY SchedulerAssumption DEF TypeOK, LedgerInv, AdmissionBalanced
<1>2. Cardinality(Reserved(byJob)) \in Nat /\ Cardinality(HoldingUnits) \in Nat
  BY ReservedFinite, HoldingFinite
<1>3. admitted = Cardinality(Reserved(byJob)) + Cardinality(HoldingUnits)
  BY DEF LedgerInv, AdmissionBalanced, Reserved, ReservedUnits
<1> QED
  BY <1>1, <1>2, <1>3

\* Futures that f only settles
SettlesOnly(f) ==
  /\ f \in [Items -> FutureStates]
  /\ \A i \in Items : f[i] = future[i] \/ (future[i] = "pending" /\ f[i] \notin {"none", "pending"})

\* An item keeps its unit from the resolution of its future to the callback.
LEMMA SettlingKeepsUnits ==
  ASSUME TypeOK, LedgerInv, NEW f, SettlesOnly(f), SetFutures(f),
         UNCHANGED <<admitted, byJob, caller>>
  PROVE  LedgerInv'
<1>1. HoldingUnits' = HoldingUnits
  BY DEF SetFutures, SettlesOnly, HoldingUnits
<1>2. \A i \in releasing' : future'[i] \notin {"none", "pending"}
  BY DEF SetFutures, SettlesOnly, LedgerInv, TypeOK
<1>3. ReservedUnits' = ReservedUnits
  BY DEF ReservedUnits
<1> QED
  BY <1>1, <1>2, <1>3 DEF LedgerInv, AdmissionBalanced

\* Settle settles only, also when it follows another one.
LEMMA SettleOnly ==
  ASSUME TypeOK, NEW S, NEW o \in {"result", "failed", "cancelled"}, NEW f, SettlesOnly(f)
  PROVE  SettlesOnly(Settle(f, S, o))
<1>1. Settle(f, S, o) \in [Items -> FutureStates]
  BY SettleType DEF SettlesOnly, FutureStates
<1> QED
  BY <1>1, SettleValue DEF SettlesOnly

\* The steps that resolve futures
LEMMA SettlingStep ==
  ASSUME TypeOK, LedgerInv,
         \/ \E i \in Items : CancelItem(i) \/ AbandonItem(i)
         \/ \E w \in Workers : \/ WarmDone(w) \/ Wake(w) \/ Retire(w) \/ CancelRunner(w)
                               \/ \E o \in Outcomes : AttemptSettles(w, o)
         \/ StopNoRunners \/ StopFlush
  PROVE  LedgerInv'
<1>0. SettlesOnly(future)
  BY ItemTypes DEF SettlesOnly
<1>1. UNCHANGED <<admitted, byJob, caller>>
  BY DEF CancelItem, AbandonItem, WarmDone, Wake, Retire, CancelRunner, AttemptSettles,
         StopNoRunners, StopFlush, backlogVars
<1>2. \/ UNCHANGED <<future, releasing>>
      \/ \E f : SettlesOnly(f) /\ SetFutures(f)
  <2>1. ASSUME NEW f, SettlesOnly(f), NEW w \in Workers, TakeOrWait(w, f)
        PROVE  \E g : SettlesOnly(g) /\ SetFutures(g)
    <3>1. \E S : SetFutures(Settle(f, S, "cancelled"))
      BY <2>1 DEF TakeOrWait
    <3> QED  BY <2>1, <3>1, SettleOnly
  <2>2. ASSUME NEW w \in Workers, NEW o \in Outcomes, AttemptSettles(w, o)
        PROVE  \E g : SettlesOnly(g) /\ SetFutures(g)
    <3> DEFINE next == AfterAttempt(o, attempts[holding[w]], holding[w] \in cancelled)
    <3>1. next # "backoff" /\ TakeOrWait(w, Settle(future, {holding[w]}, next))
      BY <2>2 DEF AttemptSettles
    <3>2. next \in {"result", "failed", "cancelled"}
      BY <3>1 DEF AfterAttempt
    <3> HIDE DEF next
    <3>3. SettlesOnly(Settle(future, {holding[w]}, next))
      BY <1>0, <3>2, SettleOnly
    <3> QED  BY <2>1, <3>1, <3>3
  <2>3. ASSUME NEW w \in Workers, WarmDone(w) \/ Wake(w)
        PROVE  \E g : SettlesOnly(g) /\ SetFutures(g)
    BY <1>0, <2>1, <2>3 DEF WarmDone, Wake
  <2>4. CASE \/ \E w \in Workers : Retire(w) \/ CancelRunner(w)
             \/ \E i \in Items : AbandonItem(i)
             \/ StopNoRunners \/ StopFlush
    <3>1. \E S : SetFutures(Settle(future, S, "cancelled"))
      BY <2>4 DEF Retire, CancelRunner, AbandonItem, StopNoRunners, StopFlush, Flush
    <3> QED  BY <1>0, <3>1, SettleOnly
  <2>5. CASE \E i \in Items : CancelItem(i)
    BY <1>0, <2>5, SettleOnly DEF CancelItem
  <2> QED  BY <2>2, <2>3, <2>4, <2>5
<1>3. CASE UNCHANGED <<future, releasing>>
  BY <1>1, <1>3 DEF LedgerInv, AdmissionBalanced, ReservedUnits, HoldingUnits
<1>4. CASE \E f : SettlesOnly(f) /\ SetFutures(f)
  BY <1>1, <1>4, SettlingKeepsUnits
<1> QED
  BY <1>2, <1>3, <1>4

\* try_admit() adds the reserved units to the backlog.
LEMMA AdmitStep ==
  ASSUME TypeOK, LedgerInv, NEW j \in Jobs, NEW n \in 0 .. MaxSteps, Admit(j, n)
  PROVE  LedgerInv'
<1> USE LedgerFacts
<1>1. /\ caller[j] = "new" /\ Fits(n) /\ admitted' = admitted + n
      /\ byJob' = [byJob EXCEPT ![j] = @ + n] /\ caller' = [caller EXCEPT ![j] = "admitted"]
      /\ UNCHANGED <<future, releasing>>
  BY DEF Admit, itemVars
<1>2. byJob[j] = 0 /\ n \in Nat /\ n \in 0 .. MaxBacklog
  BY <1>1, SchedulerAssumption DEF LedgerInv, Fits
<1>3. byJob' = [byJob EXCEPT ![j] = n] /\ byJob' \in [Jobs -> 0 .. MaxBacklog]
  BY <1>1, <1>2
<1>4. Cardinality(Reserved(byJob')) = Cardinality(Reserved(byJob)) + n
  <2>1. Cardinality(Reserved([byJob EXCEPT ![j] = n]))
          = Cardinality(Reserved(byJob)) - byJob[j] + n
    BY <1>2, ReservedUpdate
  <2> QED  BY <1>2, <1>3, <2>1
<1>5. HoldingUnits' = HoldingUnits /\ ReservedUnits' = Reserved(byJob')
  BY <1>1 DEF HoldingUnits, ReservedUnits, Reserved
<1>6. AdmissionBalanced'
  BY <1>1, <1>2, <1>3, <1>4, <1>5 DEF AdmissionBalanced
<1>7. \A x \in Jobs : caller'[x] = "new" => byJob'[x] = 0
  BY <1>1, <1>3 DEF LedgerInv, TypeOK
<1> QED
  BY <1>1, <1>6, <1>7 DEF LedgerInv

\* finalize_job() gives back what the job never used.
LEMMA FinalizeStep ==
  ASSUME TypeOK, LedgerInv, NEW j \in Jobs, FinalizeJob(j)
  PROVE  LedgerInv'
<1> USE LedgerFacts
<1>1. /\ admitted' = IF admitted >= byJob[j] THEN admitted - byJob[j] ELSE 0
      /\ byJob' = [byJob EXCEPT ![j] = 0] /\ caller' = [caller EXCEPT ![j] = "final"]
      /\ UNCHANGED <<future, releasing>>
  BY DEF FinalizeJob, itemVars
<1>2. byJob[j] \in 0 .. MaxBacklog /\ byJob' \in [Jobs -> 0 .. MaxBacklog]
  BY <1>1
<1>3. /\ Cardinality(Reserved(byJob')) = Cardinality(Reserved(byJob)) - byJob[j]
      /\ byJob[j] <= Cardinality(Reserved(byJob))
  <2>1. /\ Cardinality(Reserved([byJob EXCEPT ![j] = 0]))
             = Cardinality(Reserved(byJob)) - byJob[j] + 0
        /\ byJob[j] <= Cardinality(Reserved(byJob))
    <3>1. 0 \in 0 .. MaxBacklog
      OBVIOUS
    <3> QED  BY <3>1, ReservedUpdate
  <2> QED  BY <1>1, <1>2, <2>1
<1>4. HoldingUnits' = HoldingUnits /\ ReservedUnits' = Reserved(byJob')
  BY <1>1 DEF HoldingUnits, ReservedUnits, Reserved
<1>5. AdmissionBalanced'
  BY <1>1, <1>2, <1>3, <1>4 DEF AdmissionBalanced
<1>6. \A x \in Jobs : caller'[x] = "new" => byJob'[x] = 0
  BY <1>1 DEF LedgerInv, TypeOK
<1> QED
  BY <1>1, <1>5, <1>6 DEF LedgerInv

\* make_item() moves one unit from the reservation to the item.
LEMMA MakeItemLedger ==
  ASSUME TypeOK, LedgerInv, NEW i \in Items, MakeItem(i)
  PROVE  LedgerInv'
<1> USE LedgerFacts
<1> DEFINE j == JobOf(i)
<1>1. /\ future[i] = "none" /\ byJob[j] > 0 /\ caller[j] = "admitted"
      /\ byJob' = [byJob EXCEPT ![j] = @ - 1] /\ future' = [future EXCEPT ![i] = "pending"]
      /\ UNCHANGED <<admitted, releasing, caller>>
  BY DEF MakeItem, ReachesStep
<1>2. j \in Jobs
  BY DEF JobOf, Items
<1> HIDE DEF j
<1>3. byJob[j] - 1 \in 0 .. MaxBacklog /\ byJob' \in [Jobs -> 0 .. MaxBacklog]
  BY <1>1, <1>2
<1>4. Cardinality(Reserved(byJob')) = Cardinality(Reserved(byJob)) - 1
  <2>1. Cardinality(Reserved([byJob EXCEPT ![j] = byJob[j] - 1]))
          = Cardinality(Reserved(byJob)) - byJob[j] + (byJob[j] - 1)
    BY <1>2, <1>3, ReservedUpdate
  <2>2. byJob' = [byJob EXCEPT ![j] = byJob[j] - 1] /\ byJob[j] \in Nat
    BY <1>1, <1>2
  <2> QED  BY <2>1, <2>2
<1>5. HoldingUnits' = HoldingUnits \cup {i} /\ i \notin HoldingUnits
  BY <1>1, ItemTypes DEF HoldingUnits, LedgerInv
<1>6. Cardinality(HoldingUnits') = Cardinality(HoldingUnits) + 1
  BY <1>5, HoldingFinite, FS_AddElement
<1>7. ReservedUnits' = Reserved(byJob')
  BY DEF ReservedUnits, Reserved
<1>8. AdmissionBalanced'
  BY <1>1, <1>3, <1>4, <1>6, <1>7 DEF AdmissionBalanced
<1>9. \A x \in Jobs : caller'[x] = "new" => byJob'[x] = 0
  BY <1>1, <1>2 DEF LedgerInv, TypeOK
<1>10. \A x \in releasing' : future'[x] \notin {"none", "pending"}
  BY <1>1, ItemTypes DEF LedgerInv, TypeOK
<1> QED
  BY <1>8, <1>9, <1>10 DEF LedgerInv

\* The done-callback gives an item's unit back, once.
LEMMA ReleaseStep ==
  ASSUME TypeOK, LedgerInv, NEW i \in Items, ReleaseCallback(i)
  PROVE  LedgerInv'
<1> USE LedgerFacts
<1>1. /\ i \in releasing /\ releasing' = releasing \ {i}
      /\ admitted' = IF admitted > 0 THEN admitted - 1 ELSE 0
      /\ UNCHANGED <<future, byJob, caller>>
  BY DEF ReleaseCallback
<1>2. HoldingUnits' = HoldingUnits \ {i} /\ i \in HoldingUnits
  BY <1>1 DEF HoldingUnits, LedgerInv
<1>3. Cardinality(HoldingUnits') = Cardinality(HoldingUnits) - 1
  BY <1>2, HoldingFinite, FS_RemoveElement
<1>4. Cardinality(HoldingUnits) > 0
  BY <1>2, HoldingFinite, FS_EmptySet
<1>5. AdmissionBalanced'
  BY <1>1, <1>3, <1>4 DEF AdmissionBalanced, ReservedUnits, Reserved
<1> QED
  BY <1>1, <1>5 DEF LedgerInv

LEMMA NextLedger ==
  ASSUME TypeOK, LedgerInv, [Next]_vars
  PROVE  LedgerInv'
<1>1. ASSUME NEW j \in Jobs, (\E n \in 0 .. MaxSteps : Admit(j, n)) \/ FinalizeJob(j)
      PROVE  LedgerInv'
  BY <1>1, AdmitStep, FinalizeStep
<1>2. ASSUME NEW i \in Items, MakeItem(i) \/ ReleaseCallback(i)
      PROVE  LedgerInv'
  BY <1>2, MakeItemLedger, ReleaseStep
<1>3. CASE \/ \E i \in Items : CancelItem(i) \/ AbandonItem(i)
           \/ \E w \in Workers : \/ WarmDone(w) \/ Wake(w) \/ Retire(w) \/ CancelRunner(w)
                                 \/ \E o \in Outcomes : AttemptSettles(w, o)
           \/ StopNoRunners \/ StopFlush
  BY <1>3, SettlingStep
<1>4. CASE \/ UNCHANGED vars
           \/ Start \/ RunnerStart \/ RunnerExhausted \/ OnRunnerDone \/ StopBegin
           \/ CancelSpawned \/ LeaseOutside \/ ReleaseOutside
           \/ \E w \in Workers : ExpireTTL(w) \/ AttemptFails(w) \/ BackoffDone(w)
  <2>1. UNCHANGED <<future, releasing, admitted, byJob, caller>>
    BY <1>4 DEF vars, Start, RunnerStart, RunnerExhausted, OnRunnerDone, StopBegin,
                CancelSpawned, LeaseOutside, ReleaseOutside, ExpireTTL, AttemptFails,
                BackoffDone, itemVars, backlogVars
  <2> QED  BY <2>1 DEF LedgerInv, AdmissionBalanced, ReservedUnits, HoldingUnits
<1> QED
  BY <1>1, <1>2, <1>3, <1>4 DEF Next

LEMMA InitLedger == Init => LedgerInv
<1> SUFFICES ASSUME Init PROVE LedgerInv
  OBVIOUS
<1>1. HoldingUnits = {}
  BY DEF Init, HoldingUnits
<1>2. ReservedUnits = {}
  BY SchedulerAssumption DEF Init, ReservedUnits
<1> QED
  BY <1>1, <1>2, FS_EmptySet, SchedulerAssumption DEF Init, LedgerInv, AdmissionBalanced

(* The admitted backlog is exactly the units reserved by jobs and held by     *)
(* items, on every completion path and for any number of jobs: no capacity is *)
(* leaked, and the clamp at zero in _release_backlog never hides a mistake.   *)
THEOREM AdmissionAlwaysBalanced == Spec => []AdmissionBalanced
<1>1. LedgerInv => AdmissionBalanced
  BY DEF LedgerInv
<1>2. TypeOK /\ LedgerInv /\ [Next]_vars => LedgerInv'
  BY NextLedger
<1> QED
  BY <1>1, <1>2, InitLedger, TypeCorrect, PTL DEF Spec

-----------------------------------------------------------------------------
(* Nobody waits for nobody                                                    *)

\* Runners that are about to look at the queue, or to resolve an item
Awake == signalled \cup {w \in Workers : worker[w] \in {"warming", "running", "backoff"}}

(* The scheduler is never stuck with work: until the first stop(), and under  *)
(* a policy that asks for a worker when there is work, a pending item has a   *)
(* runner that is awake or has just been created.                             *)
NeverStuck ==
  started /\ starts = 1 /\ (Policy = "adaptive" \/ MinWarm > 0) =>
    \A i \in Items : future[i] = "pending" => spawned > 0 \/ Awake # {}

\* A policy that is asked with work in the queue wants a worker.
LEMMA WorkWanted ==
  ASSUME NEW n \in Nat \ {0}, NEW b \in Nat, NEW a \in AvgValues,
         Policy = "adaptive" \/ MinWarm > 0
  PROVE  Smaller(Decide(n, b, a), Capacity) \in Int /\ Smaller(Decide(n, b, a), Capacity) >= 1
<1>1. a \in Nat /\ a >= 1 /\ Capacity \in Nat /\ Capacity >= 1
  BY SchedulerAssumption
<1>2. MinWarm \in Nat /\ TargetDrain \in Nat /\ TargetDrain >= 1
  BY PolicyAssumption
<1>3. n * a \in Nat /\ n * a >= 1
  BY <1>1
<1>4. CeilDiv(n * a, TargetDrain) \in Int /\ CeilDiv(n * a, TargetDrain) >= 1
  <2> DEFINE m == n * a
  <2>1. m \in Nat /\ m >= 1
    BY <1>3
  <2> HIDE DEF m
  <2>2. m + TargetDrain - 1 >= TargetDrain
    BY <1>2, <2>1
  <2>3. (m + TargetDrain - 1) \div TargetDrain \in Int
        /\ (m + TargetDrain - 1) \div TargetDrain >= 1
    BY <1>2, <2>1, <2>2
  <2> QED
    BY <2>3 DEF CeilDiv, m
<1>5. Decide(n, b, a) >= 1 /\ Decide(n, b, a) \in Int
  BY <1>2, <1>4 DEF Decide, Larger
<1> QED
  BY <1>1, <1>5 DEF Smaller

\* Slots that count runners reach the target, and the wakeups reach one of them.
LEMMA QueueHasRunner ==
  ASSUME TypeOK, TargetMet, SlotsAreRunners, NoLostWakeup, started, starts = 1,
         Policy = "adaptive" \/ MinWarm > 0, Len(queue) > 0, spawned = 0
  PROVE  Awake # {}
<1>1. /\ Len(queue) \in Nat \ {0} /\ avg \in AvgValues /\ slots \in Nat
      /\ worker \in [Workers -> WorkerStates]
  BY ItemTypes DEF TypeOK, WorkerStates
<1>2. BusyCount(worker) \in Nat
  BY <1>1, WorkersFinite, SchedulerAssumption DEF BusyCount
<1>3. slots >= 1
  <2>1. slots >= Target(queue, worker, avg)
    BY DEF TargetMet
  <2>2. Target(queue, worker, avg) \in Int /\ Target(queue, worker, avg) >= 1
    BY <1>1, <1>2, WorkWanted DEF Target
  <2> QED
    BY <1>1, <2>1, <2>2
<1>4. Active # {}
  <2>1. SUFFICES ASSUME Active = {} PROVE FALSE
    OBVIOUS
  <2>2. slots = 0 + Cardinality(Active)
    BY DEF SlotsAreRunners
  <2>3. Cardinality(Active) = 0
    BY <2>1, FS_EmptySet
  <2> QED
    BY <1>3, <2>2, <2>3
<1>5. SUFFICES ASSUME Awake = {} PROVE FALSE
  OBVIOUS
<1>6. signalled = {} /\ \A w \in Workers : worker[w] \notin {"warming", "running", "backoff"}
  BY <1>5 DEF Awake
<1>7. Waiters # {}
  BY <1>1, <1>4, <1>6 DEF Active, Waiters, WorkerStates
<1>8. Len(queue) <= Cardinality(signalled)
  BY <1>6, <1>7 DEF NoLostWakeup
<1> QED
  BY <1>1, <1>6, <1>8, FS_EmptySet

(* What can be proved of the liveness of the queue: no pending item ever      *)
(* waits for runners that are all asleep, or for runners there are none of,   *)
(* because scaling, retirement and the wakeups of make_item never disagree.   *)
THEOREM SchedulerNeverStuck == Spec => []NeverStuck
<1>1. TypeOK /\ TargetMet /\ SlotsAreRunners /\ NoLostWakeup /\ PendingIsSomewhere
        /\ OneRunnerPerItem => NeverStuck
  <2> SUFFICES ASSUME TypeOK, TargetMet, SlotsAreRunners, NoLostWakeup, PendingIsSomewhere,
                      OneRunnerPerItem, started, starts = 1, Policy = "adaptive" \/ MinWarm > 0,
                      NEW i \in Items, future[i] = "pending", ~ (spawned > 0)
               PROVE  Awake # {}
    BY DEF NeverStuck
  <2>1. spawned = 0
    BY DEF TypeOK
  <2>2. CASE Len(queue) > 0
    BY <2>1, <2>2, QueueHasRunner
  <2>3. CASE ~ (Len(queue) > 0)
    <3> DEFINE K == {k \in 1 .. Len(queue) : queue[k] = i}
    <3>1. K = {}
      BY <2>3, ItemTypes
    <3>2. Cardinality(K) = 1 \/ \E w \in Workers : holding[w] = i
      BY DEF PendingIsSomewhere
    <3> HIDE DEF K
    <3>3. Cardinality(K) = 0
      BY Zenon, <3>1, FS_EmptySet
    <3>4. PICK w \in Workers : holding[w] = i
      BY <3>2, <3>3
    <3>5. holding[w] # NoItem
      BY <3>4, ItemTypes
    <3> QED
      BY <3>5 DEF OneRunnerPerItem, Awake
  <2> QED
    BY <2>2, <2>3
<1> QED
  BY <1>1, TypeCorrect, TargetAlwaysMet, SlotsAreAlwaysRunners, NoWakeupLost,
     PendingNeverLost, OneRunnerAlways, PTL

===============================================================================
