---------------------------- MODULE GpuScheduler ----------------------------
(* GpuScheduler of service/scheduler.py with the leasing side of GpuPool      *)
(* (pipeline_kit/gpu.py): a FIFO of GPU steps drained by runners, each of     *)
(* which leases a worker, warms it once and serves until it has been idle     *)
(* for the policy's TTL.                                                      *)
(*                                                                            *)
(* All of it runs on one asyncio event loop.  An action is what one task (or  *)
(* one done-callback) does between two awaits; everything that can happen     *)
(* while a task awaits is an interleaving of the other actions.  A runner is  *)
(* known by the worker it leases; a runner task that has been created but     *)
(* has not taken its first step is only counted (spawned).                    *)
EXTENDS Naturals, Sequences, FiniteSets, WarmPoolPolicy, RetryLoop

CONSTANTS
  Jobs,           \* job ids
  MaxSteps,       \* GPU steps of the longest chain
  NoItem,         \* what a runner holds between two items
  Capacity,       \* number of workers in the pool
  MaxBacklog,     \* max_backlog: bound on admitted but unfinished items
  AvgValues,      \* values the service time average may take, in clock units
  ForeignLeases,  \* workers an outside holder of the same pool may lease
  MaxStarts       \* bound on the number of start() calls

ASSUME SchedulerAssumption ==
  /\ IsFiniteSet(Jobs)
  /\ MaxSteps \in Nat
  /\ NoItem \notin Jobs \X (1 .. MaxSteps)
  /\ Capacity \in Nat \ {0}
  /\ MaxBacklog \in Nat
  /\ AvgValues \subseteq Nat \ {0}
  /\ AvgValues # {}
  /\ ForeignLeases \in Nat
  /\ MaxStarts \in Nat

VARIABLES
  queue,      \* _queue: items in enqueue order, cancelled ones included
  future,     \* WorkItem.future of each item
  cancelled,  \* items whose cancelled flag is set
  attempts,   \* attempts begun for each item (started is: at least one)
  releasing,  \* items whose future is done and whose release callback is due
  admitted,   \* _admitted_backlog
  byJob,      \* _admitted_by_job (0: no entry)
  caller,     \* where JobService is with each job
  worker,     \* what the runner leasing each worker is doing
  holding,    \* the item it executes
  signalled,  \* waiting runners whose waiter future make_item resolved
  expired,    \* waiting runners whose TTL timer has fired
  spawned,    \* runner tasks created and not yet stepped
  slots,      \* _runner_slots
  finished,   \* runner tasks that ended, _on_runner_done still due
  avg,        \* _avg_service_s
  started,    \* _started
  stopping,   \* stop() is waiting for the cancelled runners
  starts      \* start() calls so far

itemVars    == <<queue, future, cancelled, attempts, releasing>>
backlogVars == <<admitted, byJob, caller>>
runnerVars  == <<worker, holding, signalled, expired, spawned, slots, finished>>
lifeVars    == <<started, stopping, starts>>
vars        == <<itemVars, backlogVars, runnerVars, avg, lifeVars>>

\* The k-th item a job enqueues is <<j, k>>.
Items    == Jobs \X (1 .. MaxSteps)
JobOf(i) == i[1]
Workers  == 1 .. Capacity

-----------------------------------------------------------------------------
(* Helpers                                                                    *)

Active       == {w \in Workers : worker[w] \notin {"free", "leasedOutside"}}
FreeWorkers  == {w \in Workers : worker[w] = "free"}
BusyCount(wk) == Cardinality({w \in Workers : wk[w] = "running"})

\* Resolve the futures of the items in S that are not done yet.
Settle(f, S, outcome) ==
  [i \in Items |-> IF i \in S /\ f[i] = "pending" THEN outcome ELSE f[i]]

\* Mutant: a cancelled future schedules no callback.
SetFutures_ResultsOnly(f) ==
  /\ future' = f
  /\ releasing' = releasing \cup {i \in Items : /\ future[i] = "pending"
                                             /\ f[i] \in {"result", "failed"}}

\* A future that becomes done schedules its done-callback, _release_backlog(1).
SetFutures(f) ==
  /\ future' = f
  /\ releasing' = releasing \cup {i \in Items : future[i] = "pending" /\ f[i] # "pending"}

\* Mutant: dead items are served too.
Live_DeadToo(f, i) == f[i] # "none"

\* An item _pop_live does not skip
Live(f, i) == f[i] = "pending" /\ i \notin cancelled

LivePos(f, q) == {k \in 1 .. Len(q) : Live(f, q[k])}
DeadItems(f, q, n) == {q[k] : k \in (1 .. n) \ LivePos(f, q)}

\* Mutant: the newest live item is popped.
FirstLive_Last(k, f, q) == k \in LivePos(f, q) /\ \A m \in LivePos(f, q) : m <= k

FirstLive(k, f, q) == k \in LivePos(f, q) /\ \A m \in LivePos(f, q) : k <= m

\* Mutant: one item too many is popped.
Behind_SkipsOne(q, k) == SubSeq(q, k + 2, Len(q))

\* The queue when everything up to position k has been popped
Behind(q, k) == SubSeq(q, k + 1, Len(q))

\* Mutant: the target is not clamped to the capacity of the pool.
Target_Unclamped(q, wk, a) == Decide(Len(q), BusyCount(wk), a)

\* _current_target, clamped as _reconcile and warm_target_now do
Target(q, wk, a) == Smaller(Decide(Len(q), BusyCount(wk), a), Capacity)

\* Mutants: runners are counted by the task set, which lags behind at the end
\* of a runner; by the leased workers, which lag behind at its start; the slot
\* is not taken when the task is created.
SpawnUpTo_Lagging(s, p, q, wk, a) ==
  LET missing == IF s + finished < Target(q, wk, a)
                 THEN Target(q, wk, a) - s - finished ELSE 0
  IN  /\ slots' = s + missing
      /\ spawned' = p + missing

SpawnUpTo_Leased(s, p, q, wk, a) ==
  LET missing == IF s - p < Target(q, wk, a) THEN Target(q, wk, a) - (s - p) ELSE 0
  IN  /\ slots' = s + missing
      /\ spawned' = p + missing

(* The loop of _reconcile, with s slots of which p are not yet stepped: spawn *)
(* up to the target for queue q, workers wk and average a; never tear down.   *)
SpawnUpTo(s, p, q, wk, a) ==
  LET missing == IF s < Target(q, wk, a) THEN Target(q, wk, a) - s ELSE 0
  IN  /\ slots' = s + missing
      /\ spawned' = p + missing

Reconcile(s, p, q, wk, a) ==
  IF started THEN SpawnUpTo(s, p, q, wk, a)
             ELSE slots' = s /\ spawned' = p

(* The part of _next_item without an await, for the runner on w when the      *)
(* futures are f: _pop_live drops dead items, then either the first live one  *)
(* starts its first attempt, or the runner goes to sleep on a new waiter.     *)
TakeOrWait(w, f) ==
  IF LivePos(f, queue) = {}
  THEN /\ queue' = <<>>
       /\ SetFutures(Settle(f, DeadItems(f, queue, Len(queue)), "cancelled"))
       /\ worker' = [worker EXCEPT ![w] = "waiting"]
       /\ holding' = [holding EXCEPT ![w] = NoItem]
       /\ UNCHANGED attempts
  ELSE \E k \in LivePos(f, queue) :
       /\ FirstLive(k, f, queue)
       /\ queue' = Behind(queue, k)
       /\ SetFutures(Settle(f, DeadItems(f, queue, k), "cancelled"))
       /\ worker' = [worker EXCEPT ![w] = "running"]
       /\ holding' = [holding EXCEPT ![w] = queue[k]]
       /\ attempts' = [attempts EXCEPT ![queue[k]] = @ + 1]

\* Mutant: the timer of a waiter that is gone stays set.
LeaveWaiters_TimerKept(w) == signalled' = signalled \ {w} /\ UNCHANGED expired

\* The finally of _wait_for_work: the waiter and its timer are removed.
LeaveWaiters(w) == signalled' = signalled \ {w} /\ expired' = expired \ {w}

-----------------------------------------------------------------------------
(* Initial state: a scheduler that was built and not started                  *)

Init ==
  /\ queue = <<>>
  /\ future = [i \in Items |-> "none"]
  /\ cancelled = {}
  /\ attempts = [i \in Items |-> 0]
  /\ releasing = {}
  /\ admitted = 0
  /\ byJob = [j \in Jobs |-> 0]
  /\ caller = [j \in Jobs |-> "new"]
  /\ worker = [w \in Workers |-> "free"]
  /\ holding = [w \in Workers |-> NoItem]
  /\ signalled = {}
  /\ expired = {}
  /\ spawned = 0
  /\ slots = 0
  /\ finished = 0
  /\ avg \in AvgValues
  /\ started = FALSE
  /\ stopping = FALSE
  /\ starts = 0

-----------------------------------------------------------------------------
(* Calls made by JobService, ChainRunner and the done-callbacks               *)

(* start(): again only when the stop() before it has seen every job through.  *)
Start ==
  /\ ~started /\ ~stopping /\ starts < MaxStarts
  /\ \A j \in Jobs : caller[j] # "admitted"
  /\ started' = TRUE
  /\ starts' = starts + 1
  /\ SpawnUpTo(slots, spawned, queue, worker, avg)
  /\ UNCHANGED <<itemVars, backlogVars, worker, holding, signalled, expired,
                 finished, avg, stopping>>

Fits(n) == n > 0 => admitted + n <= MaxBacklog

(* try_admit() granted to job j with n GPU items.  A refusal changes nothing. *)
Admit(j, n) ==
  /\ started /\ caller[j] = "new"
  /\ Fits(n)
  /\ admitted' = admitted + n
  /\ byJob' = [byJob EXCEPT ![j] = @ + n]
  /\ caller' = [caller EXCEPT ![j] = "admitted"]
  /\ UNCHANGED <<itemVars, runnerVars, avg, lifeVars>>

(* A job comes to its next GPU step when its steps before have succeeded.     *)
ReachesStep(i) ==
  /\ caller[JobOf(i)] = "admitted" /\ future[i] = "none"
  /\ \A n \in 1 .. (i[2] - 1) :
        future[<<JobOf(i), n>>] = "result" /\ <<JobOf(i), n>> \notin releasing

Waiters == {w \in Workers : worker[w] = "waiting"}

\* Mutant: a waiter is woken by its timer alone.
WakeOne_Never == UNCHANGED signalled

(* make_item() wakes one waiter.  Which one makes no difference to the queue, *)
(* so the deque of waiters is a set here.                                     *)
WakeOne ==
  IF Waiters = signalled THEN UNCHANGED signalled
                         ELSE \E w \in Waiters \ signalled : signalled' = signalled \cup {w}

(* make_item(): move one unit of the reservation onto the item, append it,    *)
(* wake a waiter, reconcile.                                                  *)
MakeItem(i) ==
  /\ ReachesStep(i)
  /\ byJob[JobOf(i)] > 0
  /\ byJob' = [byJob EXCEPT ![JobOf(i)] = @ - 1]
  /\ future' = [future EXCEPT ![i] = "pending"]
  /\ queue' = Append(queue, i)
  /\ WakeOne
  /\ Reconcile(slots, spawned, Append(queue, i), worker, avg)
  /\ UNCHANGED <<cancelled, attempts, releasing, admitted, caller, worker,
                 holding, expired, finished, avg, lifeVars>>

(* JobService.cancel() on a job awaiting item i: flag it, and resolve it now  *)
(* when no attempt has begun.  The item stays in the queue.                   *)
CancelItem(i) ==
  /\ future[i] = "pending" /\ i \notin cancelled
  /\ cancelled' = cancelled \cup {i}
  /\ IF attempts[i] = 0 THEN SetFutures(Settle(future, {i}, "cancelled"))
                        ELSE UNCHANGED <<future, releasing>>
  /\ UNCHANGED <<queue, attempts, backlogVars, runnerVars, avg, lifeVars>>

(* JobService.stop(), after scheduler.stop() returned, cancels the task of a  *)
(* job that enqueued an item too late to be flushed: the item's future is     *)
(* cancelled with it, and the item stays in the queue.                        *)
AbandonItem(i) ==
  /\ ~started /\ ~stopping /\ future[i] = "pending"
  /\ SetFutures(Settle(future, {i}, "cancelled"))
  /\ UNCHANGED <<queue, cancelled, attempts, backlogVars, runnerVars, avg, lifeVars>>

(* The done-callback of an item's future: _release_backlog(1)                 *)
ReleaseCallback(i) ==
  /\ i \in releasing
  /\ releasing' = releasing \ {i}
  /\ admitted' = IF admitted > 0 THEN admitted - 1 ELSE 0
  /\ UNCHANGED <<queue, future, cancelled, attempts, byJob, caller, runnerVars,
                 avg, lifeVars>>

(* finalize_job(), from the done-callback of the job's task                   *)
FinalizeJob(j) ==
  /\ caller[j] = "admitted"
  /\ \A i \in Items : JobOf(i) = j => future[i] # "pending" /\ i \notin releasing
  /\ caller' = [caller EXCEPT ![j] = "final"]
  /\ byJob' = [byJob EXCEPT ![j] = 0]
  /\ admitted' = IF admitted >= byJob[j] THEN admitted - byJob[j] ELSE 0
  /\ UNCHANGED <<itemVars, runnerVars, avg, lifeVars>>

-----------------------------------------------------------------------------
(* Runners                                                                    *)

(* Bound: as many runner tasks at most as there are workers have ended and    *)
(* wait for their done-callbacks, which the event loop runs a turn later.     *)
RoomToEnd == finished < Capacity

(* First step of a runner task: lease the first free worker, start warming.   *)
RunnerStart ==
  /\ spawned > 0 /\ ~stopping
  /\ \E w \in FreeWorkers :
       /\ \A v \in FreeWorkers : w <= v
       /\ worker' = [worker EXCEPT ![w] = "warming"]
  /\ spawned' = spawned - 1
  /\ UNCHANGED <<itemVars, backlogVars, holding, signalled, expired, slots,
                 finished, avg, lifeVars>>

\* Mutant: the slot is given up only by a runner that got a worker.
RunnerExhausted_SlotKept ==
  /\ spawned > 0 /\ ~stopping /\ FreeWorkers = {}
  /\ RoomToEnd
  /\ finished' = finished + 1
  /\ Reconcile(slots, spawned - 1, queue, worker, avg)
  /\ UNCHANGED <<itemVars, backlogVars, worker, holding, signalled, expired, avg,
                 lifeVars>>

(* First step of a runner task that finds every worker leased: it ends, and   *)
(* the reconcile in its finally may spawn another one at once.                *)
RunnerExhausted ==
  /\ spawned > 0 /\ ~stopping /\ FreeWorkers = {}
  /\ RoomToEnd
  /\ finished' = finished + 1
  /\ Reconcile(slots - 1, spawned - 1, queue, worker, avg)
  /\ UNCHANGED <<itemVars, backlogVars, worker, holding, signalled, expired, avg,
                 lifeVars>>

(* warm() returns: the runner looks for its first item.                       *)
WarmDone(w) ==
  /\ worker[w] = "warming" /\ ~stopping
  /\ TakeOrWait(w, future)
  /\ UNCHANGED <<cancelled, backlogVars, signalled, expired, spawned, slots,
                 finished, avg, lifeVars>>

(* The clock reaches a waiting runner's deadline.                             *)
ExpireTTL(w) ==
  /\ FiniteTTL /\ ~stopping
  /\ worker[w] = "waiting" /\ w \notin expired
  /\ expired' = expired \cup {w}
  /\ UNCHANGED <<itemVars, backlogVars, worker, holding, signalled, spawned, slots,
                 finished, avg, lifeVars>>

\* Mutants: no look at the queue after the timeout; a floor one too high.
MayRetire_NoRecheck(w) == w \in expired /\ slots > MinWarm
MayRetire_HighFloor(w) == w \in expired /\ LivePos(future, queue) = {} /\ slots > MinWarm + 1

MayRetire(w) == w \in expired /\ LivePos(future, queue) = {} /\ slots > MinWarm

(* A waiting runner wakes and takes an item, or sleeps again: for the rest of *)
(* its TTL, or for a new TTL when it is part of the warm floor.               *)
Wake(w) ==
  /\ worker[w] = "waiting" /\ ~stopping
  /\ w \in signalled \cup expired
  /\ ~MayRetire(w)
  /\ TakeOrWait(w, future)
  /\ LeaveWaiters(w)
  /\ UNCHANGED <<cancelled, backlogVars, spawned, slots, finished, avg, lifeVars>>

(* It wakes past its deadline, finds nothing and is above the floor: it cools *)
(* and releases the worker, gives up its slot and reconciles, all in one step.*)
Retire(w) ==
  /\ worker[w] = "waiting" /\ ~stopping
  /\ MayRetire(w)
  /\ RoomToEnd
  /\ queue' = <<>>
  /\ SetFutures(Settle(future, DeadItems(future, queue, Len(queue)), "cancelled"))
  /\ worker' = [worker EXCEPT ![w] = "free"]
  /\ LeaveWaiters(w)
  /\ finished' = finished + 1
  /\ Reconcile(slots - 1, spawned, <<>>, worker', avg)
  /\ UNCHANGED <<cancelled, attempts, backlogVars, holding, avg, lifeVars>>

(* An attempt fails transiently with budget left and no cancel seen: the      *)
(* runner keeps its worker through the backoff sleep.                         *)
AttemptFails(w) ==
  /\ worker[w] = "running" /\ ~stopping
  /\ AfterAttempt("transient", attempts[holding[w]], holding[w] \in cancelled) = "backoff"
  /\ worker' = [worker EXCEPT ![w] = "backoff"]
  /\ UNCHANGED <<itemVars, backlogVars, holding, signalled, expired, spawned, slots,
                 finished, avg, lifeVars>>

(* An attempt ends the item: _execute resolves its future, updates the        *)
(* average and reconciles with the worker idle again, then the runner takes   *)
(* its next item without an await in between.                                 *)
AttemptSettles(w, o) ==
  LET i    == holding[w]
      next == AfterAttempt(o, attempts[i], i \in cancelled)
  IN /\ worker[w] = "running" /\ ~stopping
     /\ next # "backoff"
     /\ avg' \in AvgValues
        /\ Reconcile(slots, spawned, queue, [worker EXCEPT ![w] = "waiting"], avg')
     /\ TakeOrWait(w, Settle(future, {i}, next))
     /\ UNCHANGED <<cancelled, backlogVars, signalled, expired, finished,
                    lifeVars>>

(* The backoff sleep ends: the next attempt begins, should_abort or not.      *)
BackoffDone(w) ==
  /\ worker[w] = "backoff" /\ ~stopping
  /\ worker' = [worker EXCEPT ![w] = "running"]
  /\ attempts' = [attempts EXCEPT ![holding[w]] = @ + 1]
  /\ UNCHANGED <<queue, future, cancelled, releasing, backlogVars, holding, signalled,
                 expired, spawned, slots, finished, avg, lifeVars>>

(* _on_runner_done                                                            *)
OnRunnerDone ==
  /\ finished > 0
  /\ finished' = finished - 1
  /\ Reconcile(slots, spawned, queue, worker, avg)
  /\ UNCHANGED <<itemVars, backlogVars, worker, holding, signalled, expired, avg,
                 lifeVars>>

-----------------------------------------------------------------------------
(* stop()                                                                     *)

Flush ==
  /\ queue' = <<>>
  /\ SetFutures(Settle(future, {queue[k] : k \in 1 .. Len(queue)}, "cancelled"))

NoRunners == Active = {} /\ spawned = 0 /\ finished = 0

(* With no runner task left, gather() has nothing to wait for.                *)
StopNoRunners ==
  /\ started /\ NoRunners
  /\ started' = FALSE
  /\ Flush
  /\ UNCHANGED <<cancelled, attempts, backlogVars, runnerVars, avg, stopping, starts>>

StopBegin ==
  /\ started /\ ~NoRunners
  /\ started' = FALSE
  /\ stopping' = TRUE
  /\ UNCHANGED <<itemVars, backlogVars, runnerVars, avg, starts>>

Cancellable(w) == stopping /\ w \in Active

(* CancelledError reaches a runner at its await: the item it executes is      *)
(* resolved as cancelled, the worker cooled and released, the slot given up.  *)
CancelRunner(w) ==
  /\ Cancellable(w) /\ RoomToEnd
  /\ SetFutures(Settle(future, {holding[w]}, "cancelled"))
  /\ avg' \in IF holding[w] = NoItem THEN {avg} ELSE AvgValues
  /\ worker' = [worker EXCEPT ![w] = "free"]
  /\ holding' = [holding EXCEPT ![w] = NoItem]
  /\ LeaveWaiters(w)
  /\ slots' = slots - 1
  /\ finished' = finished + 1
  /\ UNCHANGED <<queue, cancelled, attempts, backlogVars, spawned, lifeVars>>

(* A task cancelled before its first step never enters the runner loop, so    *)
(* the finally that gives up its slot does not run.                           *)
CancelSpawned ==
  /\ stopping /\ spawned > 0 /\ RoomToEnd
  /\ spawned' = spawned - 1
  /\ finished' = finished + 1
  /\ UNCHANGED <<itemVars, backlogVars, worker, holding, signalled, expired, slots,
                 avg, lifeVars>>

(* gather() is over: resolve what is still queued.                            *)
StopFlush ==
  /\ stopping /\ NoRunners
  /\ stopping' = FALSE
  /\ Flush
  /\ UNCHANGED <<cancelled, attempts, backlogVars, runnerVars, avg, started, starts>>

-----------------------------------------------------------------------------
(* Another holder of an injected pool; it cools a worker before releasing it. *)

LeaseOutside ==
  /\ Cardinality({w \in Workers : worker[w] = "leasedOutside"}) < ForeignLeases
  /\ \E w \in FreeWorkers :
       /\ \A v \in FreeWorkers : w <= v
       /\ worker' = [worker EXCEPT ![w] = "leasedOutside"]
  /\ UNCHANGED <<itemVars, backlogVars, holding, signalled, expired, spawned, slots,
                 finished, avg, lifeVars>>

ReleaseOutside ==
  /\ \E w \in Workers :
       /\ worker[w] = "leasedOutside"
       /\ worker' = [worker EXCEPT ![w] = "free"]
  /\ UNCHANGED <<itemVars, backlogVars, holding, signalled, expired, spawned, slots,
                 finished, avg, lifeVars>>

-----------------------------------------------------------------------------
Next ==
  \/ Start
  \/ \E j \in Jobs : \/ \E n \in 0 .. MaxSteps : Admit(j, n)
                     \/ FinalizeJob(j)
  \/ \E i \in Items : \/ MakeItem(i)
                      \/ CancelItem(i)
                      \/ AbandonItem(i)
                      \/ ReleaseCallback(i)
  \/ RunnerStart
  \/ RunnerExhausted
  \/ \E w \in Workers : \/ WarmDone(w)
                        \/ ExpireTTL(w)
                        \/ Wake(w)
                        \/ Retire(w)
                        \/ AttemptFails(w)
                        \/ \E o \in Outcomes : AttemptSettles(w, o)
                        \/ BackoffDone(w)
                        \/ CancelRunner(w)
  \/ OnRunnerDone
  \/ StopNoRunners
  \/ StopBegin
  \/ CancelSpawned
  \/ StopFlush
  \/ LeaseOutside
  \/ ReleaseOutside

Spec == Init /\ [][Next]_vars

(* The event loop runs every ready callback and task; sleeps, timers and GPU  *)
(* steps come to an end; a job that stop() cancels is seen through.  Nothing  *)
(* obliges a caller to submit, cancel, start or stop.                         *)
Fairness ==
  /\ WF_vars(RunnerStart)
  /\ WF_vars(RunnerExhausted)
  /\ WF_vars(OnRunnerDone)
  /\ \A w \in Workers : /\ WF_vars(WarmDone(w))
                        /\ WF_vars(ExpireTTL(w))
                        /\ WF_vars(Wake(w))
                        /\ WF_vars(Retire(w))
                        /\ WF_vars(AttemptFails(w) \/ \E o \in Outcomes : AttemptSettles(w, o))
                        /\ WF_vars(BackoffDone(w))
                        /\ WF_vars(CancelRunner(w))
  /\ \A i \in Items : WF_vars(ReleaseCallback(i)) /\ WF_vars(AbandonItem(i))
  /\ WF_vars(CancelSpawned)
  /\ WF_vars(StopFlush)

FairSpec == Spec /\ Fairness

-----------------------------------------------------------------------------
(* Invariants                                                                 *)

\* Every variable has its type; in particular an item is settled one way.
TypeOK ==
  /\ queue \in Seq(Items)
  /\ future \in [Items -> {"none", "pending", "result", "failed", "cancelled"}]
  /\ cancelled \subseteq Items
  /\ attempts \in [Items -> Nat]
  /\ releasing \subseteq Items
  /\ admitted \in Nat
  /\ byJob \in [Jobs -> Nat]
  /\ caller \in [Jobs -> {"new", "admitted", "final"}]
  /\ worker \in [Workers -> {"free", "leasedOutside", "warming", "waiting",
                             "running", "backoff"}]
  /\ holding \in [Workers -> Items \cup {NoItem}]
  /\ signalled \subseteq {w \in Workers : worker[w] = "waiting"}
  /\ expired \subseteq {w \in Workers : worker[w] = "waiting"}
  /\ spawned \in Nat /\ slots \in Nat /\ finished \in Nat
  /\ avg \in AvgValues
  /\ started \in BOOLEAN /\ stopping \in BOOLEAN /\ starts \in Nat

\* Units of each job's reservation that are not yet items, and items that
\* still hold a unit: unresolved, or resolved with the release callback due.
ReservedUnits == {u \in Jobs \X (1 .. MaxBacklog) : u[2] <= byJob[u[1]]}
HoldingUnits  == {i \in Items : future[i] = "pending" \/ i \in releasing}

(* The admission ledger balances: through success, failure, cancellation,     *)
(* abandonment and shutdown, _admitted_backlog is exactly the units reserved  *)
(* by jobs plus the units held by items, so the clamp of _release_backlog     *)
(* never bites and no capacity leaks away (DESIGN.md: "must balance on every  *)
(* completion path").                                                         *)
AdmissionBalanced ==
  /\ \A j \in Jobs : byJob[j] <= MaxBacklog
  /\ admitted = Cardinality(ReservedUnits) + Cardinality(HoldingUnits)

(* Runner tasks fit the pool: every runner, stepped or not, has a slot, and   *)
(* there are never more slots than workers, whatever stop() and start() did.  *)
RunnersFitPool ==
  /\ spawned + Cardinality(Active) <= slots
  /\ slots <= Capacity

(* Hence acquire() never fails for a scheduler that has the pool to itself.   *)
PoolNeverExhausted ==
  ForeignLeases = 0 => spawned <= Cardinality(FreeWorkers)

(* While the scheduler runs, its slots reach the policy's target after every  *)
(* step, not only after the calls of _reconcile: no enqueue, retirement,      *)
(* settled item or change of the average leaves a shortfall for later.        *)
TargetMet ==
  started => slots >= Target(queue, worker, avg)

(* Until the first stop(), slots count exactly the runners that exist, so the *)
(* warm floor and the target are met by real runners.                         *)
SlotsAreRunners ==
  started /\ starts = 1 => slots = spawned + Cardinality(Active)

(* No runner sleeps while work is queued: when some waiter is still asleep    *)
(* and unsignalled, every queued item has a signalled runner on its way.      *)
NoLostWakeup ==
  started => \/ Waiters = signalled
             \/ Len(queue) <= Cardinality(signalled)

(* An item is executed by one runner at most and is out of the queue by then; *)
(* a runner executing an item is never left with one whose future is done.    *)
OneRunnerPerItem ==
  /\ \A w \in Workers : holding[w] # NoItem =>
       /\ worker[w] \in {"running", "backoff"}
       /\ future[holding[w]] = "pending"
       /\ \A k \in 1 .. Len(queue) : queue[k] # holding[w]
       /\ \A v \in Workers : holding[v] = holding[w] => v = w
  /\ \A w \in Workers : worker[w] \in {"running", "backoff"} => holding[w] # NoItem

(* Nothing pending is lost: an unresolved item is queued, once, or executed.  *)
PendingIsSomewhere ==
  \A i \in Items : future[i] = "pending" =>
    \/ Cardinality({k \in 1 .. Len(queue) : queue[k] = i}) = 1 /\ attempts[i] = 0
    \/ attempts[i] > 0 /\ \E w \in Workers : holding[w] = i

-----------------------------------------------------------------------------
(* Action properties                                                          *)

(* Scale-down is only a runner's own decision: outside stop() no worker that  *)
(* is warming or executing is given up, none leaves the warm floor, and none  *)
(* leaves live work behind in the queue.                                      *)
ScaleDownIsLazy ==
  [][started' => \A w \in Workers :
       w \in Active /\ worker'[w] = "free" =>
         /\ worker[w] = "waiting"
         /\ LivePos(future, queue) = {}
         /\ starts = 1 => Cardinality(Active) + spawned > MinWarm]_vars

-----------------------------------------------------------------------------
(* After a cancel                                                             *)

\* The attempts at item i that have begun, and the one a backoff leads to
Committed(i) ==
  attempts[i] + (IF \E w \in Workers : holding[w] = i /\ worker[w] = "backoff" THEN 1 ELSE 0)

(* From the moment cancel() flags an item, wherever the item is, no attempt   *)
(* at it begins any more but the one whose backoff was under way: an item in  *)
(* the queue is not executed, the attempt that runs is the last, and so is    *)
(* the one after the backoff ("must not burn the rest of its retry budget").  *)
CancelIsHeeded ==
  [](\A i \in Items : \A n \in 0 .. MaxAttempts :
       i \in cancelled /\ Committed(i) = n => [](attempts[i] <= n))

-----------------------------------------------------------------------------
(* Liveness                                                                   *)

(* Every enqueued item is eventually resolved, through failures, cancels and  *)
(* a stop, as long as slots are not leaked by an earlier stop().              *)
ItemsSettle == \A i \in Items : future[i] = "pending" ~> future[i] # "pending"

(* With no job left the pool scales to the warm floor and stays there.        *)
ScalesToFloor ==
  (\A j \in Jobs : caller[j] = "final") ~>
    [](spawned + Cardinality(Active) <= Smaller(MinWarm, Capacity))

-----------------------------------------------------------------------------
(* What the code's comments and docs say and the code does not do             *)

(* "... so the slot count can never drift from reality" (scheduler.py)        *)
NoSlotDrift == slots = spawned + Cardinality(Active)

(* A cancelled job's item "finishes its current attempt but must not burn the *)
(* rest of its retry budget" (service.py): no attempt begins after the cancel.*)
NoAttemptAfterCancel ==
  [][\A i \in cancelled : attempts'[i] = attempts[i]]_vars

=============================================================================
