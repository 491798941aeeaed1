-------------------------- MODULE GpuSchedulerProofs --------------------------
(* Proofs about GpuScheduler for any number of jobs, steps, workers, starts   *)
(* and any policy: types, the runner-slot accounting, and the warm target.    *)
EXTENDS GpuScheduler, FiniteSetTheorems, SequenceTheorems, TLAPS

FutureStates == {"none", "pending", "result", "failed", "cancelled"}
WorkerStates == {"free", "leasedOutside", "warming", "waiting", "running", "backoff"}
NotRunner    == {"free", "leasedOutside"}

\* Active, as an operator on the states of the workers
Act(wk) == {w \in Workers : wk[w] \notin NotRunner}

-----------------------------------------------------------------------------
(* The policy                                                                 *)

\* Rounding up is monotone and yields a natural number.
LEMMA CeilDivMonotone ==
  ASSUME NEW m \in Nat, NEW n \in Nat, NEW d \in Nat \ {0}, m <= n
  PROVE  /\ CeilDiv(m, d) \in Nat
         /\ CeilDiv(n, d) \in Nat
         /\ CeilDiv(m, d) <= CeilDiv(n, d)
<1> DEFINE x == m + d - 1
           y == n + d - 1
           p == x \div d
           q == y \div d
<1>1. x \in Nat /\ y \in Nat /\ x <= y
  OBVIOUS
<1>2. p \in Int /\ q \in Int /\ d * p <= x /\ x < d * p + d /\ d * q <= y /\ y < d * q + d
  BY <1>1
<1> HIDE DEF p, q, x, y
<1>3. p >= 0 /\ q >= 0
  <2>1. ASSUME NEW r \in Int, NEW z \in Nat, z < d * r + d, r < 0
        PROVE  FALSE
    <3>1. d * (r + 1) = d * r + d  OBVIOUS
    <3>2. r + 1 <= 0  BY <2>1
    <3>3. d * (r + 1) <= 0  BY <3>2
    <3> QED  BY <2>1, <3>1, <3>3
  <2> QED  BY <1>1, <1>2, <2>1
<1>4. p <= q
  <2> SUFFICES ASSUME q < p PROVE FALSE
    BY <1>2
  <2>1. q + 1 <= p  BY <1>2
  <2>2. d * (q + 1) <= d * p  BY <2>1, <1>2
  <2>3. d * (q + 1) = d * q + d  BY <1>2
  <2> QED  BY <2>2, <2>3, <1>1, <1>2
<1> QED
  BY <1>2, <1>3, <1>4 DEF CeilDiv, p, q, x, y

\* A policy's answer is a natural number, and never falls when the queue grows.
LEMMA DecideMonotone ==
  ASSUME NEW m \in Nat, NEW n \in Nat, m <= n, NEW b \in Nat, NEW a \in Nat
  PROVE  /\ Decide(m, b, a) \in Nat
         /\ Decide(n, b, a) \in Nat
         /\ Decide(m, b, a) <= Decide(n, b, a)
<1>1. m * a \in Nat /\ n * a \in Nat /\ m * a <= n * a
  OBVIOUS
<1>2. /\ CeilDiv(m * a, TargetDrain) \in Nat
      /\ CeilDiv(n * a, TargetDrain) \in Nat
      /\ CeilDiv(m * a, TargetDrain) <= CeilDiv(n * a, TargetDrain)
  BY <1>1, CeilDivMonotone, PolicyAssumption
<1> QED
  BY <1>2, PolicyAssumption DEF Decide, Larger

\* A busy worker asks for no more than one worker: itself.
LEMMA DecideBusy ==
  ASSUME NEW n \in Nat, NEW b \in Nat, NEW c \in Nat, NEW a \in Nat, NEW s \in Nat,
         b <= s, s >= Smaller(Decide(n, c, a), Capacity)
  PROVE  s >= Smaller(Decide(n, b, a), Capacity)
<1>1. CeilDiv(n * a, TargetDrain) \in Nat
  BY CeilDivMonotone, PolicyAssumption
<1> QED
  BY <1>1, PolicyAssumption, SchedulerAssumption DEF Decide, Larger, Smaller

-----------------------------------------------------------------------------
(* Counting runners                                                           *)

\* The pool is finite, so its parts are, and no part is larger than the capacity.
LEMMA WorkersFinite ==
  /\ IsFiniteSet(Workers)
  /\ Cardinality(Workers) = Capacity
  /\ \A S \in SUBSET Workers : IsFiniteSet(S) /\ Cardinality(S) \in 0 .. Capacity
<1>1. Capacity \in Nat \ {0}
  BY SchedulerAssumption
<1>2. IsFiniteSet(Workers) /\ Cardinality(Workers) = Capacity
  BY <1>1, FS_Interval DEF Workers
<1>3. ASSUME NEW S \in SUBSET Workers
      PROVE  IsFiniteSet(S) /\ Cardinality(S) \in 0 .. Capacity
  BY <1>1, <1>2, FS_Subset, FS_CardinalityType
<1> QED
  BY <1>2, <1>3

\* Busy workers are runners.
LEMMA BusyIsActive ==
  ASSUME NEW wk \in [Workers -> WorkerStates]
  PROVE  /\ BusyCount(wk) \in Nat
         /\ Cardinality(Act(wk)) \in 0 .. Capacity
         /\ BusyCount(wk) <= Cardinality(Act(wk))
<1> DEFINE B == {w \in Workers : wk[w] = "running"}
<1>1. B \in SUBSET Act(wk) /\ Act(wk) \in SUBSET Workers /\ B \in SUBSET Workers
  BY DEF Act, NotRunner
<1>2. IsFiniteSet(Act(wk)) /\ Cardinality(Act(wk)) \in 0 .. Capacity /\ Cardinality(B) \in 0 .. Capacity
  BY <1>1, WorkersFinite
<1>3. Cardinality(B) <= Cardinality(Act(wk))
  BY <1>1, <1>2, FS_Subset
<1> QED
  BY <1>2, <1>3, SchedulerAssumption DEF BusyCount

\* How the number of runners moves when one worker changes state
LEMMA ActUpdate ==
  ASSUME NEW wk \in [Workers -> WorkerStates], NEW w \in Workers, NEW s \in WorkerStates
  PROVE  LET new == [wk EXCEPT ![w] = s] IN
         /\ new \in [Workers -> WorkerStates]
         /\ (wk[w] \in NotRunner <=> s \in NotRunner)
               => Cardinality(Act(new)) = Cardinality(Act(wk))
         /\ wk[w] \in NotRunner /\ s \notin NotRunner
               => Cardinality(Act(new)) = Cardinality(Act(wk)) + 1
         /\ wk[w] \notin NotRunner /\ s \in NotRunner
               => Cardinality(Act(new)) = Cardinality(Act(wk)) - 1
<1> DEFINE new == [wk EXCEPT ![w] = s]
<1>1. new \in [Workers -> WorkerStates] /\ new[w] = s
      /\ \A v \in Workers \ {w} : new[v] = wk[v]
  OBVIOUS
<1>2. IsFiniteSet(Act(wk))
  BY WorkersFinite DEF Act
<1> HIDE DEF new
<1>3. ASSUME wk[w] \in NotRunner <=> s \in NotRunner
      PROVE  Act(new) = Act(wk)
  BY <1>1, <1>3 DEF Act
<1>4. ASSUME wk[w] \in NotRunner, s \notin NotRunner
      PROVE  Act(new) = Act(wk) \cup {w} /\ w \notin Act(wk)
  BY <1>1, <1>4 DEF Act
<1>5. ASSUME wk[w] \notin NotRunner, s \in NotRunner
      PROVE  Act(new) = Act(wk) \ {w} /\ w \in Act(wk)
  BY <1>1, <1>5 DEF Act
<1>6. wk[w] \in NotRunner /\ s \notin NotRunner
        => Cardinality(Act(new)) = Cardinality(Act(wk)) + 1
  BY <1>2, <1>4, FS_AddElement
<1>7. wk[w] \notin NotRunner /\ s \in NotRunner
        => Cardinality(Act(new)) = Cardinality(Act(wk)) - 1
  BY <1>2, <1>5, FS_RemoveElement
<1> QED
  BY <1>1, <1>3, <1>6, <1>7 DEF new

-----------------------------------------------------------------------------
(* Reconciling and taking items                                               *)

\* The target is a number of workers the pool has.
LEMMA TargetType ==
  ASSUME NEW q \in Seq(Items), NEW wk \in [Workers -> WorkerStates], NEW a \in AvgValues
  PROVE  Target(q, wk, a) \in 0 .. Capacity
<1>1. Len(q) \in Nat /\ BusyCount(wk) \in Nat /\ a \in Nat
  BY BusyIsActive, SchedulerAssumption
<1>2. Decide(Len(q), BusyCount(wk), a) \in Nat
  BY <1>1, DecideMonotone
<1> QED
  BY <1>2, SchedulerAssumption DEF Target, Smaller

\* Spawning adds as many slots as runners, reaches the target, fits the pool.
LEMMA SpawnEffect ==
  ASSUME NEW s \in 0 .. Capacity, NEW p \in Nat, NEW q \in Seq(Items),
         NEW wk \in [Workers -> WorkerStates], NEW a \in AvgValues,
         SpawnUpTo(s, p, q, wk, a)
  PROVE  /\ slots' \in s .. Capacity
         /\ spawned' \in Nat
         /\ slots' - s = spawned' - p
         /\ slots' >= Target(q, wk, a)
<1>1. Target(q, wk, a) \in 0 .. Capacity
  BY TargetType
<1> QED
  BY SMTT(30), <1>1, SchedulerAssumption DEF SpawnUpTo

\* _reconcile spawns up to the target when started and is without effect otherwise.
LEMMA ReconcileEffect ==
  ASSUME NEW s \in 0 .. Capacity, NEW p \in Nat, NEW q \in Seq(Items),
         NEW wk \in [Workers -> WorkerStates], NEW a \in AvgValues,
         Reconcile(s, p, q, wk, a)
  PROVE  /\ slots' \in s .. Capacity
         /\ spawned' \in Nat
         /\ slots' - s = spawned' - p
         /\ started => slots' >= Target(q, wk, a)
<1>1. CASE started
  BY <1>1, SpawnEffect DEF Reconcile
<1>2. CASE ~started
  BY <1>2, SchedulerAssumption DEF Reconcile
<1> QED
  BY <1>1, <1>2

\* Settling keeps futures futures.
LEMMA SettleType ==
  ASSUME NEW f \in [Items -> FutureStates], NEW S, NEW o \in FutureStates
  PROVE  Settle(f, S, o) \in [Items -> FutureStates]
  BY DEF Settle

\* Resolving futures keeps future and releasing well typed.
LEMMA SetFuturesType ==
  ASSUME NEW f \in [Items -> FutureStates], SetFutures(f), releasing \subseteq Items
  PROVE  /\ future' \in [Items -> FutureStates]
         /\ releasing' \subseteq Items
  BY DEF SetFutures

\* What TakeOrWait does to the types, the queue's length and the runner's state
LEMMA TakeOrWaitEffect ==
  ASSUME TypeOK, NEW w \in Workers, NEW f \in [Items -> FutureStates], TakeOrWait(w, f)
  PROVE  /\ queue' \in Seq(Items)
         /\ Len(queue') <= Len(queue)
         /\ future' \in [Items -> FutureStates]
         /\ releasing' \subseteq Items
         /\ attempts' \in [Items -> Nat]
         /\ holding' \in [Workers -> Items \cup {NoItem}]
         /\ \E s \in {"waiting", "running"} : worker' = [worker EXCEPT ![w] = s]
<1>1. CASE LivePos(f, queue) = {}
  <2>1. queue' = <<>>
    BY <1>1 DEF TakeOrWait
  <2>2. SetFutures(Settle(f, DeadItems(f, queue, Len(queue)), "cancelled"))
    BY <1>1 DEF TakeOrWait
  <2>3. /\ future' \in [Items -> FutureStates]
        /\ releasing' \subseteq Items
    BY <2>2, SettleType, SetFuturesType DEF FutureStates, TypeOK
  <2>4. /\ queue' \in Seq(Items)
        /\ Len(queue') <= Len(queue)
    BY <2>1 DEF TypeOK
  <2> QED
    BY <1>1, <2>3, <2>4 DEF TakeOrWait, TypeOK
<1>2. CASE LivePos(f, queue) # {}
  <2>1. PICK k \in LivePos(f, queue) :
          /\ queue' = Behind(queue, k)
          /\ SetFutures(Settle(f, DeadItems(f, queue, k), "cancelled"))
          /\ worker' = [worker EXCEPT ![w] = "running"]
          /\ holding' = [holding EXCEPT ![w] = queue[k]]
          /\ attempts' = [attempts EXCEPT ![queue[k]] = @ + 1]
    BY <1>2 DEF TakeOrWait
  <2>2. k \in 1 .. Len(queue) /\ queue[k] \in Items /\ queue \in Seq(Items)
    BY DEF LivePos, TypeOK
  <2>3. /\ Behind(queue, k) \in Seq(Items)
        /\ Len(Behind(queue, k)) <= Len(queue)
    BY <2>2, SubSeqProperties DEF Behind
  <2>4. /\ future' \in [Items -> FutureStates]
        /\ releasing' \subseteq Items
    BY <2>1, SettleType, SetFuturesType DEF FutureStates, TypeOK
  <2>5. attempts' \in [Items -> Nat]
    <3>1. attempts \in [Items -> Nat]  BY DEF TypeOK
    <3> QED  BY <2>1, <2>2, <3>1
  <2>6. holding' \in [Workers -> Items \cup {NoItem}]
    <3>1. holding \in [Workers -> Items \cup {NoItem}]  BY DEF TypeOK
    <3> QED  BY <2>1, <2>2, <3>1
  <2> QED
    BY <2>1, <2>3, <2>4, <2>5, <2>6
<1> QED
  BY <1>1, <1>2

-----------------------------------------------------------------------------
(* The inductive invariant                                                    *)

\* Nobody else leases a worker of a pool that is not shared.
LeasesAllowed ==
  ForeignLeases = 0 => \A w \in Workers : worker[w] # "leasedOutside"

\* stop() takes the scheduler out of service before it waits.
StopExclusive == stopping => ~started

(* TypeOK needs RunnersFitPool for slots - 1 to be a natural number;          *)
(* TargetMet needs it because a busy worker raises the target and is counted  *)
(* among the slots, and StopExclusive because a cancelled runner's slot is    *)
(* given up without a reconcile; PoolNeverExhausted needs LeasesAllowed.      *)
IInv == TypeOK /\ RunnersFitPool /\ TargetMet /\ LeasesAllowed /\ StopExclusive

\* The target stays met when the queue shrinks, workers change state and no
\* slot is given up.
LEMMA TargetKept ==
  ASSUME NEW q \in Seq(Items), NEW q2 \in Seq(Items), Len(q2) <= Len(q),
         NEW wk \in [Workers -> WorkerStates], NEW wk2 \in [Workers -> WorkerStates],
         NEW a \in AvgValues, NEW s \in Nat, NEW s2 \in Nat,
         s >= Target(q, wk, a), s2 >= s, Cardinality(Act(wk2)) <= s2
  PROVE  s2 >= Target(q2, wk2, a)
<1> DEFINE b == BusyCount(wk)
           b2 == BusyCount(wk2)
<1>1. Len(q) \in Nat /\ Len(q2) \in Nat /\ a \in Nat /\ b \in Nat /\ b2 \in Nat /\ b2 <= s2
  BY BusyIsActive, SchedulerAssumption
<1> HIDE DEF b, b2
<1>2. /\ Decide(Len(q2), b, a) \in Nat /\ Decide(Len(q), b, a) \in Nat
      /\ Decide(Len(q2), b, a) <= Decide(Len(q), b, a)
  BY <1>1, DecideMonotone
<1>3. s2 >= Smaller(Decide(Len(q), b, a), Capacity)
  BY SchedulerAssumption, <1>2 DEF Target, b, Smaller
<1>4. s2 >= Smaller(Decide(Len(q2), b, a), Capacity)
  BY <1>2, <1>3, SchedulerAssumption DEF Smaller
<1>5. s2 >= Smaller(Decide(Len(q2), b2, a), Capacity)
  BY <1>1, <1>4, DecideBusy
<1> QED
  BY <1>5 DEF Target, b2

\* The parts of the invariant in the terms of the lemmas
LEMMA IInvFacts ==
  ASSUME IInv
  PROVE  /\ queue \in Seq(Items)
         /\ future \in [Items -> FutureStates]
         /\ worker \in [Workers -> WorkerStates]
         /\ avg \in AvgValues
         /\ slots \in 0 .. Capacity
         /\ spawned \in Nat
         /\ Active = Act(worker)
         /\ Cardinality(Act(worker)) \in Nat
         /\ spawned + Cardinality(Act(worker)) <= slots
         /\ \A w \in Workers : worker[w] \notin NotRunner => Cardinality(Act(worker)) >= 1
<1>1. /\ queue \in Seq(Items)
      /\ future \in [Items -> FutureStates]
      /\ worker \in [Workers -> WorkerStates]
      /\ avg \in AvgValues
      /\ slots \in Nat /\ spawned \in Nat
  BY DEF IInv, TypeOK, FutureStates, WorkerStates
<1>2. Active = Act(worker)
  BY DEF Active, Act, NotRunner
<1>3. spawned + Cardinality(Act(worker)) <= slots /\ slots <= Capacity
  BY <1>2 DEF IInv, RunnersFitPool
<1>4. Cardinality(Act(worker)) \in Nat
  BY <1>1, BusyIsActive
<1>5. ASSUME NEW w \in Workers, worker[w] \notin NotRunner
      PROVE  Cardinality(Act(worker)) >= 1
  <2>1. w \in Act(worker) /\ IsFiniteSet(Act(worker))
    BY <1>5, WorkersFinite DEF Act
  <2> QED  BY <2>1, <1>4, FS_EmptySet
<1> QED
  BY <1>1, <1>2, <1>3, <1>4, <1>5, SchedulerAssumption

\* It is enough to look at the runners after the step.
LEMMA IInvIntro ==
  ASSUME TypeOK', spawned' + Cardinality(Act(worker')) <= slots', slots' <= Capacity,
         started' => slots' >= Target(queue', worker', avg'), LeasesAllowed', StopExclusive'
  PROVE  IInv'
<1>1. Active' = Act(worker')
  BY DEF Active, Act, NotRunner
<1> QED
  BY <1>1 DEF IInv, RunnersFitPool, TargetMet

\* The common case: neither slots nor the average change.
LEMMA TargetStaysMet ==
  ASSUME IInv, queue' \in Seq(Items), Len(queue') <= Len(queue),
         worker' \in [Workers -> WorkerStates], avg' = avg, slots' = slots,
         started' => started, Cardinality(Act(worker')) <= slots'
  PROVE  started' => slots' >= Target(queue', worker', avg')
<1>1. /\ queue \in Seq(Items) /\ worker \in [Workers -> WorkerStates]
      /\ avg \in AvgValues /\ slots \in Nat
  BY DEF IInv, TypeOK, WorkerStates
<1>2. started => slots >= Target(queue, worker, avg)
  BY DEF IInv, TargetMet
<1>3. started => slots >= Target(queue', worker', avg)
  <2> DEFINE q2 == queue'  wk2 == worker'
  <2>1. q2 \in Seq(Items) /\ Len(q2) <= Len(queue) /\ wk2 \in [Workers -> WorkerStates]
        /\ Cardinality(Act(wk2)) <= slots
    OBVIOUS
  <2> HIDE DEF q2, wk2
  <2>2. ASSUME started PROVE slots >= Target(q2, wk2, avg)
    <3>1. slots >= Target(queue, worker, avg) /\ slots >= slots
      BY <1>1, <1>2, <2>2
    <3> QED  BY <1>1, <2>1, <3>1, TargetKept
  <2> QED  BY <2>2 DEF q2, wk2
<1> QED
  BY <1>3

\* The number of runners does not change when one of them moves on.
LEMMA ActSame ==
  ASSUME NEW wk \in [Workers -> WorkerStates], NEW w \in Workers, NEW s \in WorkerStates,
         wk[w] \notin NotRunner, s \notin NotRunner
  PROVE  /\ [wk EXCEPT ![w] = s] \in [Workers -> WorkerStates]
         /\ Cardinality(Act([wk EXCEPT ![w] = s])) = Cardinality(Act(wk))
<1>1. [wk EXCEPT ![w] = s] \in [Workers -> WorkerStates]
  OBVIOUS
<1>2. Act([wk EXCEPT ![w] = s]) = Act(wk)
  BY DEF Act
<1> QED
  BY <1>1, <1>2

\* A runner that moves on with its worker
LEMMA RunnerKept ==
  ASSUME IInv, NEW w \in Workers, worker[w] \notin NotRunner,
         NEW s \in WorkerStates \ NotRunner, worker' = [worker EXCEPT ![w] = s]
  PROVE  /\ worker' \in [Workers -> WorkerStates]
         /\ Cardinality(Act(worker')) = Cardinality(Act(worker))
<1>1. worker \in [Workers -> WorkerStates] /\ s \in WorkerStates /\ s \notin NotRunner
  BY IInvFacts
<1> QED
  BY Zenon, <1>1, ActSame

\* Counting one more attempt keeps the counts natural numbers.
LEMMA CountType ==
  ASSUME NEW c \in [Items -> Nat], NEW i
  PROVE  [c EXCEPT ![i] = @ + 1] \in [Items -> Nat]
<1>1. CASE i \in Items
  BY <1>1
<1>2. CASE i \notin Items
  <2>1. [c EXCEPT ![i] = @ + 1] = c
    BY <1>2
  <2> QED  BY <2>1
<1> QED
  BY <1>1, <1>2

\* A scheduler that was built and not started satisfies the invariant.
LEMMA InitIInv == Init => IInv
<1> SUFFICES ASSUME Init PROVE IInv
  OBVIOUS
<1>1. TypeOK
  <2>1. queue \in Seq(Items)
    BY DEF Init
  <2>2. /\ byJob \in [Jobs -> Nat] /\ caller \in [Jobs -> {"new", "admitted", "final"}]
        /\ attempts \in [Items -> Nat] /\ holding \in [Workers -> Items \cup {NoItem}]
    BY DEF Init
  <2> QED
    BY <2>1, <2>2 DEF Init, TypeOK
<1>2. Active = {}
  BY DEF Init, Active
<1>3. RunnersFitPool
  BY <1>2, FS_EmptySet, SchedulerAssumption DEF Init, RunnersFitPool
<1>4. TargetMet /\ LeasesAllowed /\ StopExclusive
  BY DEF Init, TargetMet, LeasesAllowed, StopExclusive
<1> QED
  BY <1>1, <1>3, <1>4 DEF IInv

-----------------------------------------------------------------------------
(* Each action preserves the invariant                                        *)

\* Calls that touch neither queue nor runners
LEMMA CallerStep ==
  ASSUME IInv,
         \/ \E j \in Jobs : (\E n \in 0 .. MaxSteps : Admit(j, n)) \/ FinalizeJob(j)
         \/ \E i \in Items : CancelItem(i) \/ AbandonItem(i) \/ ReleaseCallback(i)
  PROVE  IInv'
<1>1. UNCHANGED <<queue, runnerVars, avg, lifeVars>>
  BY DEF Admit, FinalizeJob, CancelItem, AbandonItem, ReleaseCallback, itemVars, backlogVars, runnerVars, lifeVars
<1>2. TypeOK'
  <2>1. ASSUME NEW j \in Jobs, NEW n \in 0 .. MaxSteps, Admit(j, n)
        PROVE  TypeOK'
    BY <2>1, SchedulerAssumption DEF IInv, TypeOK, Admit, itemVars, backlogVars, runnerVars, lifeVars
  <2>2. ASSUME NEW j \in Jobs, FinalizeJob(j)
        PROVE  TypeOK'
    BY <2>2 DEF IInv, TypeOK, FinalizeJob, itemVars, backlogVars, runnerVars, lifeVars
  <2>3. ASSUME NEW i \in Items, CancelItem(i)
        PROVE  TypeOK'
    <3>1. future' \in [Items -> FutureStates] /\ releasing' \subseteq Items
      <4>1. CASE attempts[i] = 0
        <5>1. Settle(future, {i}, "cancelled") \in [Items -> FutureStates]
          BY IInvFacts, SettleType DEF FutureStates
        <5> QED  BY <2>3, <4>1, <5>1, SetFuturesType DEF CancelItem, IInv, TypeOK
      <4>2. CASE attempts[i] # 0
        BY <2>3, <4>2 DEF CancelItem, IInv, TypeOK, FutureStates
      <4> QED  BY <4>1, <4>2
    <3> QED  BY <2>3, <3>1 DEF IInv, TypeOK, CancelItem, FutureStates, itemVars, backlogVars, runnerVars, lifeVars
  <2>4. ASSUME NEW i \in Items, AbandonItem(i)
        PROVE  TypeOK'
    <3>1. Settle(future, {i}, "cancelled") \in [Items -> FutureStates]
      BY IInvFacts, SettleType DEF FutureStates
    <3>2. future' \in [Items -> FutureStates] /\ releasing' \subseteq Items
      BY <2>4, <3>1, SetFuturesType DEF AbandonItem, IInv, TypeOK
    <3> QED  BY <2>4, <3>2 DEF IInv, TypeOK, AbandonItem, FutureStates, itemVars, backlogVars, runnerVars, lifeVars
  <2>5. ASSUME NEW i \in Items, ReleaseCallback(i)
        PROVE  TypeOK'
    BY <2>5 DEF IInv, TypeOK, ReleaseCallback, itemVars, backlogVars, runnerVars, lifeVars
  <2> QED  BY <2>1, <2>2, <2>3, <2>4, <2>5
<1> QED
  BY <1>1, <1>2 DEF IInv, RunnersFitPool, TargetMet, LeasesAllowed, StopExclusive, Active, itemVars, backlogVars, runnerVars, lifeVars

\* start() and the reconcile of _on_runner_done
LEMMA ReconcileStep ==
  ASSUME IInv, Start \/ OnRunnerDone
  PROVE  IInv'
<1> USE IInvFacts
<1>1. /\ slots' \in slots .. Capacity /\ spawned' \in Nat
      /\ slots' - slots = spawned' - spawned
      /\ started' => slots' >= Target(queue, worker, avg)
  <2>1. CASE Start
    BY <2>1, SpawnEffect DEF Start
  <2>2. CASE OnRunnerDone
    BY <2>2, ReconcileEffect DEF OnRunnerDone, itemVars, backlogVars, runnerVars, lifeVars
  <2> QED  BY <2>1, <2>2
<1>2. TypeOK'
  <2>1. CASE Start
    BY SMTT(30), <2>1, <1>1, SchedulerAssumption DEF IInv, TypeOK, Start, itemVars, backlogVars, runnerVars, lifeVars
  <2>2. CASE OnRunnerDone
    BY SMTT(30), <2>2, <1>1, SchedulerAssumption DEF IInv, TypeOK, OnRunnerDone, itemVars, backlogVars, runnerVars, lifeVars
  <2> QED  BY <2>1, <2>2
<1>3. UNCHANGED <<queue, worker, avg>>
  BY DEF Start, OnRunnerDone, itemVars, backlogVars, runnerVars, lifeVars
<1>4. LeasesAllowed' /\ StopExclusive'
  BY <1>3 DEF IInv, LeasesAllowed, StopExclusive, Start, OnRunnerDone, lifeVars
<1>5. spawned' + Cardinality(Act(worker')) <= slots' /\ slots' <= Capacity
  BY <1>1, <1>3, SchedulerAssumption
<1> QED
  BY <1>1, <1>2, <1>3, <1>4, <1>5, IInvIntro

\* make_item() lengthens the queue and reconciles against the longer one.
LEMMA MakeItemStep ==
  ASSUME IInv, NEW i \in Items, MakeItem(i)
  PROVE  IInv'
<1> USE IInvFacts
<1>1. Append(queue, i) \in Seq(Items) /\ queue' = Append(queue, i)
  BY AppendProperties DEF MakeItem
<1>2. UNCHANGED <<worker, avg, started>>
  BY DEF MakeItem, itemVars, backlogVars, runnerVars, lifeVars
<1>3. /\ slots' \in slots .. Capacity /\ spawned' \in Nat
      /\ slots' - slots = spawned' - spawned
      /\ started => slots' >= Target(queue', worker, avg)
  BY <1>1, ReconcileEffect DEF MakeItem
<1>4. signalled' \subseteq Waiters
  BY DEF MakeItem, WakeOne, IInv, TypeOK, Waiters
<1>5. byJob' \in [Jobs -> Nat] /\ future' \in [Items -> FutureStates]
  <2>1. JobOf(i) \in Jobs  BY DEF Items, JobOf
  <2>2. byJob \in [Jobs -> Nat] /\ byJob[JobOf(i)] - 1 \in Nat
    BY <2>1 DEF MakeItem, IInv, TypeOK
  <2>3. byJob' \in [Jobs -> Nat]  BY <2>2 DEF MakeItem
  <2>4. future' \in [Items -> FutureStates]  BY DEF MakeItem, FutureStates
  <2> QED  BY <2>3, <2>4
<1>6. TypeOK'
  <2>1. slots' \in Nat /\ spawned' \in Nat
    BY <1>3, SchedulerAssumption
  <2>2. signalled' \subseteq {w \in Workers : worker'[w] = "waiting"}
    BY <1>2, <1>4 DEF Waiters
  <2>3. UNCHANGED <<cancelled, attempts, releasing, admitted, caller, worker, holding,
                    expired, finished, avg, started, stopping, starts>>
    BY DEF MakeItem, itemVars, backlogVars, runnerVars, lifeVars
  <2> QED
    BY <1>1, <1>5, <2>1, <2>2, <2>3 DEF IInv, TypeOK, FutureStates
<1>7. LeasesAllowed' /\ StopExclusive'
  BY <1>2 DEF IInv, LeasesAllowed, StopExclusive, MakeItem, lifeVars
<1>8. spawned' + Cardinality(Act(worker')) <= slots' /\ slots' <= Capacity
  BY <1>2, <1>3, SchedulerAssumption
<1> QED
  BY <1>2, <1>3, <1>6, <1>7, <1>8, IInvIntro

-----------------------------------------------------------------------------
(* Steps of runners                                                           *)

\* A spawned task becomes a runner with a worker: their sum stays the same.
LEMMA RunnerStartStep ==
  ASSUME IInv, RunnerStart
  PROVE  IInv'
<1> USE IInvFacts
<1>1. PICK w \in FreeWorkers : worker' = [worker EXCEPT ![w] = "warming"]
  BY DEF RunnerStart
<1>2. w \in Workers /\ worker[w] = "free"
  BY DEF FreeWorkers
<1>3. UNCHANGED <<itemVars, backlogVars, holding, signalled, expired, slots, finished, avg,
                  lifeVars, queue>>
  BY DEF RunnerStart, itemVars
<1>4. spawned' = spawned - 1 /\ spawned' \in Nat
  BY DEF RunnerStart
<1>5. Cardinality(Act(worker')) = Cardinality(Act(worker)) + 1
      /\ worker' \in [Workers -> WorkerStates]
  BY <1>1, <1>2, ActUpdate DEF NotRunner, WorkerStates
<1>6. {v \in Workers : worker[v] = "waiting"} = {v \in Workers : worker'[v] = "waiting"}
  BY <1>1, <1>2
<1>7. TypeOK'
  BY <1>3, <1>4, <1>5, <1>6 DEF IInv, TypeOK, WorkerStates, itemVars, backlogVars, runnerVars, lifeVars
<1>8. spawned' + Cardinality(Act(worker')) <= slots' /\ slots' <= Capacity
  BY <1>3, <1>4, <1>5, SchedulerAssumption
<1>9. started' => slots' >= Target(queue', worker', avg')
  <2>1. queue' = queue /\ avg' = avg /\ slots' = slots /\ started' = started
    BY <1>3 DEF lifeVars
  <2>2. Cardinality(Act(worker')) <= slots'
    BY <1>3, <1>5, <1>4, <1>8
  <2> QED  BY <2>1, <2>2, <1>5, TargetStaysMet
<1>10. LeasesAllowed' /\ StopExclusive'
  BY <1>1, <1>2, <1>3 DEF IInv, LeasesAllowed, StopExclusive, lifeVars
<1> QED
  BY <1>7, <1>8, <1>9, <1>10, IInvIntro

\* The slot a failed acquire() gives up is spawned again if the target asks for it.
LEMMA RunnerExhaustedStep ==
  ASSUME IInv, RunnerExhausted
  PROVE  IInv'
<1> USE IInvFacts
<1>1. slots - 1 \in 0 .. Capacity /\ spawned - 1 \in Nat
  BY SMTT(30), SchedulerAssumption DEF RunnerExhausted
<1>2. UNCHANGED <<itemVars, backlogVars, worker, holding, signalled, expired, avg, lifeVars,
                  queue, started>>
  BY DEF RunnerExhausted, itemVars, lifeVars
<1>3. Reconcile(slots - 1, spawned - 1, queue, worker, avg)
  BY DEF RunnerExhausted
<1>4. /\ slots' \in slots - 1 .. Capacity /\ spawned' \in Nat
      /\ slots' - (slots - 1) = spawned' - (spawned - 1)
      /\ started => slots' >= Target(queue, worker, avg)
  BY <1>1, <1>3, ReconcileEffect
<1>5. slots' \in Nat
  BY <1>1, <1>4, SchedulerAssumption
<1>6. TypeOK'
  BY SMTT(30), <1>2, <1>4, <1>5 DEF RunnerExhausted, IInv, TypeOK, itemVars, backlogVars, runnerVars, lifeVars
<1>7. spawned' + Cardinality(Act(worker')) <= slots' /\ slots' <= Capacity
  BY <1>2, <1>4, SchedulerAssumption
<1>8. LeasesAllowed' /\ StopExclusive'
  BY <1>1, <1>2 DEF IInv, LeasesAllowed, StopExclusive, NotRunner, lifeVars
<1> QED
  BY <1>2, <1>4, <1>6, <1>7, <1>8, IInvIntro

\* A step that takes an item or waits, whatever the futures f it starts from
LEMMA TakingStep ==
  ASSUME IInv, NEW w \in Workers, worker[w] \notin NotRunner,
         NEW f \in [Items -> FutureStates], TakeOrWait(w, f),
         avg' \in AvgValues, slots' \in slots .. Capacity, spawned' \in Nat,
         slots' - slots = spawned' - spawned,
         started => \E wk \in [Workers -> WorkerStates] : slots' >= Target(queue, wk, avg'),
         signalled' \subseteq signalled, expired' \subseteq expired,
         worker[w] = "waiting" => w \notin signalled' \cup expired',
         UNCHANGED <<cancelled, backlogVars, finished, lifeVars>>
  PROVE  IInv'
<1> USE IInvFacts
<1>1. /\ queue' \in Seq(Items)
      /\ Len(queue') <= Len(queue)
      /\ future' \in [Items -> FutureStates]
      /\ releasing' \subseteq Items
      /\ attempts' \in [Items -> Nat]
      /\ holding' \in [Workers -> Items \cup {NoItem}]
  BY TakeOrWaitEffect DEF IInv
<1>2. PICK s \in {"waiting", "running"} : worker' = [worker EXCEPT ![w] = s]
  BY TakeOrWaitEffect DEF IInv
<1>3. Cardinality(Act(worker')) = Cardinality(Act(worker)) /\ worker' \in [Workers -> WorkerStates]
  <2>1. s \in WorkerStates \ NotRunner
    BY DEF NotRunner, WorkerStates
  <2> QED  BY <1>2, <2>1, RunnerKept
<1>4. slots' \in Nat
  BY SchedulerAssumption
<1>5. /\ signalled' \subseteq {v \in Workers : worker'[v] = "waiting"}
      /\ expired' \subseteq {v \in Workers : worker'[v] = "waiting"}
  BY <1>2 DEF IInv, TypeOK
<1>6. TypeOK'
  BY <1>1, <1>3, <1>4, <1>5 DEF IInv, TypeOK, FutureStates, WorkerStates, backlogVars, lifeVars
<1>7. spawned' + Cardinality(Act(worker')) <= slots' /\ slots' <= Capacity
  BY <1>3, SchedulerAssumption
<1>8. ASSUME started'
      PROVE  slots' >= Target(queue', worker', avg')
  <2>1. PICK wk \in [Workers -> WorkerStates] : slots' >= Target(queue, wk, avg')
    BY <1>8 DEF lifeVars
  <2>2. Cardinality(Act(worker')) <= slots'
    BY <1>3, SchedulerAssumption
  <2> DEFINE q2 == queue'  wk2 == worker'  a2 == avg'  s2 == slots'
  <2>3. /\ q2 \in Seq(Items) /\ Len(q2) <= Len(queue) /\ wk2 \in [Workers -> WorkerStates]
        /\ Cardinality(Act(wk2)) <= s2 /\ s2 \in Nat /\ a2 \in AvgValues
        /\ s2 >= Target(queue, wk, a2) /\ s2 >= s2
    BY <1>1, <1>3, <1>4, <2>1, <2>2
  <2> HIDE DEF q2, wk2, a2, s2
  <2>4. s2 >= Target(q2, wk2, a2)
    BY <2>3, TargetKept
  <2> QED  BY <2>4 DEF q2, wk2, a2, s2
<1>9. LeasesAllowed' /\ StopExclusive'
  BY <1>1, <1>2 DEF IInv, LeasesAllowed, StopExclusive, NotRunner, lifeVars
<1> QED
  BY <1>6, <1>7, <1>8, <1>9, IInvIntro

\* A runner that has warmed its worker takes an item or waits.
LEMMA WarmDoneStep ==
  ASSUME IInv, NEW w \in Workers, WarmDone(w)
  PROVE  IInv'
<1>1. /\ worker[w] = "warming" /\ TakeOrWait(w, future)
      /\ UNCHANGED <<cancelled, backlogVars, signalled, expired, spawned, slots, finished, avg,
                     lifeVars>>
  BY DEF WarmDone
<1>2. started => \E wk \in [Workers -> WorkerStates] : slots' >= Target(queue, wk, avg')
  BY <1>1, IInvFacts DEF IInv, TargetMet
<1>3. /\ slots' \in slots .. Capacity /\ spawned' \in Nat /\ avg' \in AvgValues
      /\ slots' - slots = spawned' - spawned /\ future \in [Items -> FutureStates]
  BY <1>1, IInvFacts, SchedulerAssumption
<1>4. /\ worker[w] \notin NotRunner /\ signalled' \subseteq signalled /\ expired' \subseteq expired
      /\ worker[w] = "waiting" => w \notin signalled' \cup expired'
  BY <1>1 DEF NotRunner
<1> QED
  BY <1>1, <1>2, <1>3, <1>4, TakingStep

\* A runner that wakes takes an item, or sleeps again.
LEMMA WakeStep ==
  ASSUME IInv, NEW w \in Workers, Wake(w)
  PROVE  IInv'
<1>1. /\ worker[w] = "waiting" /\ TakeOrWait(w, future)
      /\ signalled' = signalled \ {w} /\ expired' = expired \ {w}
      /\ UNCHANGED <<cancelled, backlogVars, spawned, slots, finished, avg, lifeVars>>
  BY DEF Wake, LeaveWaiters
<1>2. started => \E wk \in [Workers -> WorkerStates] : slots' >= Target(queue, wk, avg')
  BY <1>1, IInvFacts DEF IInv, TargetMet
<1>3. /\ slots' \in slots .. Capacity /\ spawned' \in Nat /\ avg' \in AvgValues
      /\ slots' - slots = spawned' - spawned /\ future \in [Items -> FutureStates]
  BY <1>1, IInvFacts, SchedulerAssumption
<1>4. /\ worker[w] \notin NotRunner /\ signalled' \subseteq signalled /\ expired' \subseteq expired
      /\ worker[w] = "waiting" => w \notin signalled' \cup expired'
  BY <1>1 DEF NotRunner
<1> QED
  BY <1>1, <1>2, <1>3, <1>4, TakingStep

\* A runner whose item is settled reconciles with the new average, then goes on.
LEMMA AttemptSettlesStep ==
  ASSUME IInv, NEW w \in Workers, NEW o \in Outcomes, AttemptSettles(w, o)
  PROVE  IInv'
<1> USE IInvFacts
<1> DEFINE i    == holding[w]
           next == AfterAttempt(o, attempts[i], i \in cancelled)
           idle == [worker EXCEPT ![w] = "waiting"]
<1>1. /\ worker[w] = "running" /\ next # "backoff" /\ avg' \in AvgValues
      /\ Reconcile(slots, spawned, queue, idle, avg')
      /\ TakeOrWait(w, Settle(future, {i}, next))
      /\ UNCHANGED <<cancelled, backlogVars, signalled, expired, finished, lifeVars>>
  BY DEF AttemptSettles
<1>2. next \in FutureStates
  BY <1>1 DEF AfterAttempt, FutureStates
<1> HIDE DEF next, i
<1>3. Settle(future, {i}, next) \in [Items -> FutureStates]
  BY <1>2, SettleType
<1>4. idle \in [Workers -> WorkerStates]
  BY DEF WorkerStates
<1>5. /\ slots' \in slots .. Capacity /\ spawned' \in Nat
      /\ slots' - slots = spawned' - spawned
      /\ started => slots' >= Target(queue, idle, avg')
  BY <1>1, <1>4, ReconcileEffect
<1>6. started => \E wk \in [Workers -> WorkerStates] : slots' >= Target(queue, wk, avg')
  BY <1>4, <1>5
<1>7. /\ worker[w] \notin NotRunner /\ signalled' \subseteq signalled /\ expired' \subseteq expired
      /\ worker[w] # "waiting"
  BY <1>1 DEF NotRunner
<1> HIDE DEF idle
<1> QED
  BY <1>1, <1>3, <1>5, <1>6, <1>7, TakingStep

\* A runner moves on with its worker; the queue is not touched.
LEMMA SameRunnersStep ==
  ASSUME IInv, NEW w \in Workers, ExpireTTL(w) \/ AttemptFails(w) \/ BackoffDone(w)
  PROVE  IInv'
<1> USE IInvFacts
<1>1. /\ UNCHANGED <<queue, future, cancelled, releasing, backlogVars, holding, signalled,
                       spawned, slots, finished, avg, lifeVars>>
      /\ \E s \in {"waiting", "running", "backoff"} :
            worker' = [worker EXCEPT ![w] = s]
      /\ worker[w] \notin NotRunner
      /\ {v \in Workers : worker[v] = "waiting"} = {v \in Workers : worker'[v] = "waiting"}
  <2>1. CASE ExpireTTL(w)
    BY <2>1 DEF ExpireTTL, NotRunner, itemVars
  <2>2. CASE AttemptFails(w)
    BY <2>2 DEF AttemptFails, NotRunner, itemVars
  <2>3. CASE BackoffDone(w)
    BY <2>3 DEF BackoffDone, NotRunner, itemVars
  <2> QED  BY <2>1, <2>2, <2>3
<1>2. PICK s \in {"waiting", "running", "backoff"} : worker' = [worker EXCEPT ![w] = s]
  BY <1>1
<1>3. Cardinality(Act(worker')) = Cardinality(Act(worker)) /\ worker' \in [Workers -> WorkerStates]
  <2>1. s \in WorkerStates \ NotRunner
    BY DEF NotRunner, WorkerStates
  <2> QED  BY <1>1, <1>2, <2>1, RunnerKept
<1>4. attempts' \in [Items -> Nat]
  <2>1. CASE ExpireTTL(w) \/ AttemptFails(w)
    BY <2>1 DEF ExpireTTL, AttemptFails, IInv, TypeOK, itemVars
  <2>2. CASE BackoffDone(w)
    <3>1. attempts \in [Items -> Nat]
      BY DEF IInv, TypeOK
    <3>2. attempts' = [attempts EXCEPT ![holding[w]] = @ + 1]
      BY <2>2 DEF BackoffDone
    <3> QED  BY <3>1, <3>2, CountType
  <2> QED  BY <2>1, <2>2
<1>5. expired' \subseteq {v \in Workers : worker'[v] = "waiting"}
  <2>1. CASE ExpireTTL(w)
    BY <2>1 DEF ExpireTTL, IInv, TypeOK
  <2>2. CASE AttemptFails(w) \/ BackoffDone(w)
    BY <1>1, <2>2 DEF AttemptFails, BackoffDone, IInv, TypeOK
  <2> QED  BY <2>1, <2>2
<1>6. TypeOK'
  BY <1>1, <1>3, <1>4, <1>5 DEF IInv, TypeOK, WorkerStates, backlogVars, lifeVars
<1>7. spawned' + Cardinality(Act(worker')) <= slots' /\ slots' <= Capacity
  BY <1>1, <1>3, SchedulerAssumption
<1>8. started' => slots' >= Target(queue', worker', avg')
  <2>1. Cardinality(Act(worker')) <= slots'
    BY <1>1, <1>3, SchedulerAssumption
  <2>2. queue' = queue /\ avg' = avg /\ slots' = slots /\ started' = started
    BY <1>1 DEF lifeVars
  <2> QED  BY <1>3, <2>1, <2>2, TargetStaysMet
<1>9. LeasesAllowed' /\ StopExclusive'
  BY <1>1, <1>2 DEF IInv, LeasesAllowed, StopExclusive, NotRunner, lifeVars
<1> QED
  BY <1>6, <1>7, <1>8, <1>9, IInvIntro

\* A retiring runner gives its slot up and reconciles in the same step.
LEMMA RetireStep ==
  ASSUME IInv, NEW w \in Workers, Retire(w)
  PROVE  IInv'
<1> USE IInvFacts
<1>1. worker' = [worker EXCEPT ![w] = "free"] /\ worker[w] = "waiting"
  BY DEF Retire
<1>2. Cardinality(Act(worker')) = Cardinality(Act(worker)) - 1
      /\ worker' \in [Workers -> WorkerStates]
  BY <1>1, ActUpdate DEF NotRunner, WorkerStates
<1>3. slots - 1 \in 0 .. Capacity
  BY <1>1, SchedulerAssumption DEF NotRunner
<1>4. <<>> \in Seq(Items) /\ queue' = <<>>
  BY DEF Retire
<1>5. Reconcile(slots - 1, spawned, <<>>, worker', avg)
      /\ UNCHANGED <<cancelled, attempts, backlogVars, holding, avg, lifeVars, started>>
  BY DEF Retire, lifeVars
<1>6. /\ slots' \in slots - 1 .. Capacity /\ spawned' \in Nat
      /\ slots' - (slots - 1) = spawned' - spawned
      /\ started => slots' >= Target(<<>>, worker', avg)
  BY <1>2, <1>3, <1>4, <1>5, ReconcileEffect
<1>7. future' \in [Items -> FutureStates] /\ releasing' \subseteq Items
  <2>1. Settle(future, DeadItems(future, queue, Len(queue)), "cancelled") \in [Items -> FutureStates]
    BY SettleType DEF FutureStates
  <2> QED  BY <2>1, SetFuturesType DEF Retire, IInv, TypeOK
<1>8. /\ signalled' \subseteq {v \in Workers : worker'[v] = "waiting"}
      /\ expired' \subseteq {v \in Workers : worker'[v] = "waiting"}
  BY <1>1 DEF Retire, LeaveWaiters, IInv, TypeOK
<1>9. slots' \in Nat /\ finished' \in Nat
  BY <1>3, <1>6, SchedulerAssumption DEF Retire, IInv, TypeOK
<1>10. TypeOK'
  BY <1>2, <1>4, <1>5, <1>6, <1>7, <1>8, <1>9
  DEF IInv, TypeOK, FutureStates, WorkerStates, backlogVars, lifeVars
<1>11. spawned' + Cardinality(Act(worker')) <= slots' /\ slots' <= Capacity
  BY SMTT(30), <1>2, <1>3, <1>6, SchedulerAssumption
<1>12. LeasesAllowed' /\ StopExclusive'
  BY <1>1, <1>5 DEF IInv, LeasesAllowed, StopExclusive, lifeVars
<1> QED
  BY <1>4, <1>5, <1>6, <1>10, <1>11, <1>12, IInvIntro

-----------------------------------------------------------------------------
(* Steps of stop(), and of another holder of the pool                         *)

\* stop()'s flush empties the queue and keeps the types.
LEMMA FlushType ==
  ASSUME IInv, Flush
  PROVE  /\ queue' \in Seq(Items) /\ Len(queue') <= Len(queue)
         /\ future' \in [Items -> FutureStates] /\ releasing' \subseteq Items
<1> USE IInvFacts
<1>1. queue' = <<>>
  BY DEF Flush
<1>2. Settle(future, {queue[k] : k \in 1 .. Len(queue)}, "cancelled") \in [Items -> FutureStates]
  BY SettleType DEF FutureStates
<1>3. future' \in [Items -> FutureStates] /\ releasing' \subseteq Items
  BY <1>2, SetFuturesType DEF Flush, IInv, TypeOK
<1>4. queue' \in Seq(Items) /\ Len(queue') = 0 /\ Len(queue) \in Nat
  BY <1>1
<1> QED
  BY <1>3, <1>4

\* The steps of stop() itself: nothing has to meet the target any more.
LEMMA StopStep ==
  ASSUME IInv, StopNoRunners \/ StopBegin \/ StopFlush
  PROVE  IInv'
<1> USE IInvFacts
<1>1. /\ UNCHANGED <<cancelled, attempts, backlogVars, runnerVars, avg, starts>>
      /\ started' \in BOOLEAN /\ stopping' \in BOOLEAN /\ (started' => started)
  <2>1. started \in BOOLEAN /\ stopping \in BOOLEAN
    BY DEF IInv, TypeOK
  <2>2. CASE StopNoRunners
    BY <2>1, <2>2 DEF StopNoRunners
  <2>3. CASE StopBegin
    BY <2>1, <2>3 DEF StopBegin, itemVars
  <2>4. CASE StopFlush
    BY <2>1, <2>4 DEF StopFlush
  <2> QED  BY <2>2, <2>3, <2>4
<1>2. /\ queue' \in Seq(Items) /\ Len(queue') <= Len(queue)
      /\ future' \in [Items -> FutureStates] /\ releasing' \subseteq Items
  <2>1. CASE StopNoRunners \/ StopFlush
    BY <2>1, FlushType DEF StopNoRunners, StopFlush
  <2>2. CASE StopBegin
    BY <2>2 DEF StopBegin, itemVars, IInv, TypeOK
  <2> QED  BY <2>1, <2>2
<1>3. UNCHANGED <<worker, spawned, slots>>
  BY <1>1 DEF runnerVars
<1>4. TypeOK'
  BY <1>1, <1>2 DEF IInv, TypeOK, FutureStates, backlogVars, runnerVars
<1>5. spawned' + Cardinality(Act(worker')) <= slots' /\ slots' <= Capacity
  BY <1>3, SchedulerAssumption
<1>6. started' => slots' >= Target(queue', worker', avg')
  <2>1. slots \in Nat /\ Cardinality(Act(worker')) <= slots' /\ worker' \in [Workers -> WorkerStates]
    BY <1>3, SchedulerAssumption
  <2> QED  BY <1>1, <1>2, <1>3, <2>1, TargetStaysMet
<1>7. LeasesAllowed' /\ StopExclusive'
  BY <1>3 DEF IInv, LeasesAllowed, StopExclusive, StopNoRunners, StopBegin, StopFlush
<1> QED
  BY <1>4, <1>5, <1>6, <1>7, IInvIntro

\* A cancelled runner gives up its slot and its worker together.
LEMMA CancelRunnerStep ==
  ASSUME IInv, NEW w \in Workers, CancelRunner(w)
  PROVE  IInv'
<1> USE IInvFacts
<1>1. worker[w] \notin NotRunner /\ stopping /\ worker' = [worker EXCEPT ![w] = "free"]
  BY DEF CancelRunner, Cancellable, Act
<1>2. Cardinality(Act(worker')) = Cardinality(Act(worker)) - 1
      /\ worker' \in [Workers -> WorkerStates]
  BY <1>1, ActUpdate DEF NotRunner, WorkerStates
<1>3. slots' = slots - 1 /\ slots' \in 0 .. Capacity /\ slots' \in Nat /\ spawned' = spawned
  BY <1>1, SchedulerAssumption DEF CancelRunner
<1>4. future' \in [Items -> FutureStates] /\ releasing' \subseteq Items
  <2>1. Settle(future, {holding[w]}, "cancelled") \in [Items -> FutureStates]
    BY SettleType DEF FutureStates
  <2> QED  BY <2>1, SetFuturesType DEF CancelRunner, IInv, TypeOK
<1>5. /\ signalled' \subseteq {v \in Workers : worker'[v] = "waiting"}
      /\ expired' \subseteq {v \in Workers : worker'[v] = "waiting"}
  BY <1>1 DEF CancelRunner, LeaveWaiters, IInv, TypeOK
<1>6. avg' \in AvgValues /\ holding' \in [Workers -> Items \cup {NoItem}] /\ finished' \in Nat
  BY DEF CancelRunner, IInv, TypeOK
<1>7. UNCHANGED <<queue, cancelled, attempts, backlogVars, lifeVars>>
  BY DEF CancelRunner
<1>8. TypeOK'
  BY <1>2, <1>3, <1>4, <1>5, <1>6, <1>7
  DEF IInv, TypeOK, FutureStates, WorkerStates, backlogVars, lifeVars
<1>9. spawned' + Cardinality(Act(worker')) <= slots' /\ slots' <= Capacity
  BY <1>2, <1>3, SchedulerAssumption
<1>10. ~started'
  BY <1>1, <1>7 DEF IInv, StopExclusive, lifeVars
<1>11. LeasesAllowed' /\ StopExclusive'
  BY <1>1, <1>7 DEF IInv, LeasesAllowed, StopExclusive, lifeVars
<1> QED
  BY <1>8, <1>9, <1>10, <1>11, IInvIntro

\* A runner cancelled before its first step leaves its slot behind.
LEMMA CancelSpawnedStep ==
  ASSUME IInv, CancelSpawned
  PROVE  IInv'
<1> USE IInvFacts
<1>1. spawned' = spawned - 1 /\ spawned' \in Nat /\ finished' = finished + 1
  BY DEF CancelSpawned
<1>2. UNCHANGED <<itemVars, queue, backlogVars, worker, holding, signalled, expired, slots, avg,
                  lifeVars>>
  BY DEF CancelSpawned, itemVars
<1>3. TypeOK'
  BY <1>1, <1>2 DEF IInv, TypeOK, itemVars, backlogVars, runnerVars, lifeVars
<1>4. spawned' + Cardinality(Act(worker')) <= slots' /\ slots' <= Capacity
  BY <1>1, <1>2, SchedulerAssumption
<1>5. started' => slots' >= Target(queue', worker', avg')
  BY <1>2 DEF IInv, TargetMet, lifeVars
<1>6. LeasesAllowed' /\ StopExclusive'
  BY <1>2 DEF IInv, LeasesAllowed, StopExclusive, lifeVars
<1> QED
  BY <1>3, <1>4, <1>5, <1>6, IInvIntro

\* Another holder's lease touches no runner.
LEMMA OutsideStep ==
  ASSUME IInv, LeaseOutside \/ ReleaseOutside
  PROVE  IInv'
<1> USE IInvFacts
<1>1. UNCHANGED <<itemVars, queue, backlogVars, holding, signalled, expired, spawned, slots,
                  finished, avg, lifeVars>>
  BY DEF LeaseOutside, ReleaseOutside, itemVars
<1>2. PICK w \in Workers, s \in NotRunner :
        worker[w] \in NotRunner /\ worker' = [worker EXCEPT ![w] = s]
  BY DEF LeaseOutside, ReleaseOutside, NotRunner, FreeWorkers
<1>3. Cardinality(Act(worker')) = Cardinality(Act(worker)) /\ worker' \in [Workers -> WorkerStates]
  <2>1. s \in WorkerStates
    BY DEF NotRunner, WorkerStates
  <2> QED  BY ZenonT(30), <1>2, <2>1, ActUpdate
<1>4. {v \in Workers : worker[v] = "waiting"} = {v \in Workers : worker'[v] = "waiting"}
  BY <1>2 DEF NotRunner
<1>5. TypeOK'
  BY <1>1, <1>3, <1>4 DEF IInv, TypeOK, WorkerStates, itemVars, backlogVars, runnerVars, lifeVars
<1>6. spawned' + Cardinality(Act(worker')) <= slots' /\ slots' <= Capacity
  BY <1>1, <1>3, SchedulerAssumption
<1>7. started' => slots' >= Target(queue', worker', avg')
  <2>1. Cardinality(Act(worker')) <= slots'
    BY <1>1, <1>3, SchedulerAssumption
  <2>2. queue' = queue /\ avg' = avg /\ slots' = slots /\ started' = started
    BY <1>1 DEF lifeVars
  <2> QED  BY <1>3, <2>1, <2>2, TargetStaysMet
<1>8. LeasesAllowed'
  <2>1. CASE LeaseOutside
    <3> DEFINE L == {v \in Workers : worker[v] = "leasedOutside"}
    <3>1. Cardinality(L) < ForeignLeases /\ Cardinality(L) \in Nat
      BY <2>1, WorkersFinite, SchedulerAssumption DEF LeaseOutside
    <3>2. ForeignLeases # 0
      BY <3>1, SchedulerAssumption
    <3> QED  BY <3>2 DEF LeasesAllowed
  <2>2. CASE ReleaseOutside
    BY <2>2 DEF ReleaseOutside, IInv, LeasesAllowed
  <2> QED  BY <2>1, <2>2
<1>9. StopExclusive'
  BY <1>1 DEF IInv, StopExclusive, lifeVars
<1> QED
  BY <1>5, <1>6, <1>7, <1>8, <1>9, IInvIntro

-----------------------------------------------------------------------------
(* The theorems                                                               *)

\* Every step of the scheduler preserves the invariant.
LEMMA NextIInv == IInv /\ [Next]_vars => IInv'
<1> SUFFICES ASSUME IInv, [Next]_vars PROVE IInv'
  OBVIOUS
<1>1. CASE UNCHANGED vars
  BY <1>1 DEF vars, itemVars, backlogVars, runnerVars, lifeVars, IInv, TypeOK, RunnersFitPool, TargetMet, LeasesAllowed, StopExclusive,
              Active
<1>2. ASSUME NEW j \in Jobs, (\E n \in 0 .. MaxSteps : Admit(j, n)) \/ FinalizeJob(j)
      PROVE  IInv'
  BY <1>2, CallerStep
<1>3. ASSUME NEW i \in Items,
             CancelItem(i) \/ AbandonItem(i) \/ ReleaseCallback(i) \/ MakeItem(i)
      PROVE  IInv'
  BY <1>3, CallerStep, MakeItemStep
<1>4. ASSUME NEW w \in Workers,
             \/ WarmDone(w) \/ ExpireTTL(w) \/ Wake(w) \/ Retire(w) \/ AttemptFails(w)
             \/ (\E o \in Outcomes : AttemptSettles(w, o))
             \/ BackoffDone(w) \/ CancelRunner(w)
      PROVE  IInv'
  BY <1>4, WarmDoneStep, SameRunnersStep, WakeStep, RetireStep, AttemptSettlesStep,
     CancelRunnerStep
<1>5. ASSUME \/ Start \/ OnRunnerDone \/ RunnerStart \/ RunnerExhausted
             \/ StopNoRunners \/ StopBegin \/ CancelSpawned \/ StopFlush
             \/ LeaseOutside \/ ReleaseOutside
      PROVE  IInv'
  BY <1>5, ReconcileStep, RunnerStartStep, RunnerExhaustedStep, StopStep, CancelSpawnedStep,
     OutsideStep
<1> QED
  BY <1>1, <1>2, <1>3, <1>4, <1>5 DEF Next

(* The inductive invariant holds in every reachable state of the scheduler,    *)
(* for any pool, policy, backlog bound, jobs and number of restarts.          *)
THEOREM Invariance == Spec => []IInv
  BY InitIInv, NextIInv, PTL DEF Spec

(* Every variable keeps its type: the slot count in particular never goes     *)
(* below zero, whatever the interleaving of retirements and cancellations.    *)
THEOREM TypeCorrect == Spec => []TypeOK
<1>1. IInv => TypeOK
  BY DEF IInv
<1> QED
  BY <1>1, Invariance, PTL

(* Runner tasks always fit their slots and slots always fit the pool, through *)
(* any number of stops and restarts.                                          *)
THEOREM RunnersAlwaysFitPool == Spec => []RunnersFitPool
<1>1. IInv => RunnersFitPool
  BY DEF IInv
<1> QED
  BY <1>1, Invariance, PTL

(* A scheduler that has the pool to itself never meets PoolExhaustedError:    *)
(* there is a free worker for each runner task not yet stepped.               *)
THEOREM AcquireNeverFails == Spec => []PoolNeverExhausted
<1>1. ASSUME IInv PROVE PoolNeverExhausted
  <2> SUFFICES ASSUME ForeignLeases = 0
               PROVE  spawned <= Cardinality(FreeWorkers)
    BY DEF PoolNeverExhausted
  <2>1. Act(worker) = Workers \ FreeWorkers /\ FreeWorkers \in SUBSET Workers
    BY <1>1, IInvFacts DEF IInv, LeasesAllowed, Act, NotRunner, FreeWorkers
  <2>2. /\ IsFiniteSet(FreeWorkers) /\ Cardinality(FreeWorkers) \in Nat
        /\ IsFiniteSet(Workers) /\ Cardinality(Workers) = Capacity
    BY <2>1, WorkersFinite, SchedulerAssumption
  <2>3. Cardinality(Act(worker)) = Cardinality(Workers) - Cardinality(Workers \cap FreeWorkers)
    BY <2>1, <2>2, FS_Difference
  <2>4. Workers \cap FreeWorkers = FreeWorkers
    BY <2>1
  <2>5. /\ spawned \in Nat /\ slots \in 0 .. Capacity /\ Cardinality(Act(worker)) \in Nat
        /\ spawned + Cardinality(Act(worker)) <= slots
    BY <1>1, IInvFacts
  <2>6. Cardinality(Act(worker)) = Capacity - Cardinality(FreeWorkers)
    BY <2>2, <2>3, <2>4
  <2> QED
    BY <2>2, <2>5, <2>6, SchedulerAssumption
<1> QED
  BY <1>1, Invariance, PTL

(* After every step of a started scheduler the slots reach the policy's       *)
(* target: the reconciles of start(), make_item, _execute and the runner's    *)
(* finally are enough, and no wakeup, pop or retirement undoes them.          *)
THEOREM TargetAlwaysMet == Spec => []TargetMet
<1>1. IInv => TargetMet
  BY DEF IInv
<1> QED
  BY <1>1, Invariance, PTL

===============================================================================
