# Verification of the pipeline runner's service layer

TLA+ models of the service in `src/service` and of the GPU pool it drives in
`src/pipeline_kit`, the TLC configurations that check them on small instances,
and proofs by TLAPS, for instances of any size, about the scheduler, the service
and its jobs, the pool and its users, and the virtual clock.
`PROJECT.json` has the machine-readable side: the source lines every definition
stands for, the runs, the mutants each property is tested against, the hazards.

## The system

A client submits a *chain* of steps on an image. CPU steps run inline, GPU
steps become items of one FIFO queue. *Runners* lease workers of a fixed pool,
warm them (30-60 s, billed), drain the queue, and cool the worker after it has
been idle for a TTL. An autoscaling policy says how many should be warm.
Everything is on one asyncio event loop: what a task or a callback does between
two awaits is atomic, and everything else can happen while it awaits.

| Component | State | Operations | Talks to |
| --- | --- | --- | --- |
| `JobService` (`service.py`, `store.py`) | jobs by id and by idempotency key, one task per job | `start`, `submit`, `cancel`, `stop`, `_on_done` | calls `try_admit`, `finalize_job`, `start`, `stop` of the scheduler; cancels job tasks |
| `ChainRunner` (`runner.py`) | step and attempt records, memo (LRU), attempt ledger, the item each job awaits | `run`, `_run_step`, `_finish_*` | `make_item`, awaits the item's future |
| `GpuScheduler` (`scheduler.py`) | queue, waiters, runner tasks, `_runner_slots`, admission counters, service-time average | `try_admit`, `make_item`, `finalize_job`, `_reconcile`, the runner loop, `start`, `stop` | `acquire`/`release`/`warm`/`cool`/`run` of the pool; resolves item futures |
| Policies (`scheduler.py`) | none | `decide` | asked by `_reconcile` |
| Retry loop (`retry.py`) | failures so far | `run_with_retries` | step function, observer, `should_abort` |
| `GpuPool`, `Worker` (`gpu.py`) | lease, worker state, warm and busy intervals | `acquire`, `release`, `warm`, `run`, `cool`, reports | clock |
| REST and agent tools (`api.py`, `agent.py`) | per stream: last fingerprint; the tools keep nothing | routes, event stream; `get_system_status`, `submit_chain`, `get_job`, `cancel_job` | `JobService` |
| Attempt ledger, failure draws, trace (`runner.py`, `pipelines.py`, `metrics.py`) | next attempt number per step and input, the spans of each step | `next_attempt`, the draws of `_finish_step`, `build_trace` | runners, pool report |
| Harness (`harness.py`, `workload.py`) | the counts of a row | `run_service`, `run_naive`, `drive` | `JobService`, or the pool directly |
| `ManualClock`, `advance_until` (`clock.py`, `simtime.py`) | virtual time, sleepers | `sleep`, `advance` | wakes tasks, yields to the event loop |
| Metrics, configuration, logging, demo | counters | reports | - |

What is hard: runner tasks start later than they are counted and are removed
from the task set later than they end; futures deliver their callbacks one loop
turn later; a TTL races an enqueue; a cancel races a pop, a backoff sleep and a
completion; `stop()` cancels runners in every state and jobs after them; the
admission reservation is handed from job to item and must be given back exactly
once on every path; a memo hit removes a GPU step that admission had counted;
two jobs execute one step on one input at the same time and must not draw the
same failures; a caller whose answer was lost submits again, and one that does
what an error suggests must get somewhere; what the jobs are billed must add up
against what the pool is billed.

## Modules

| Module | Models |
| --- | --- |
| `WarmPoolPolicy` | `AdaptivePolicy.decide`, `AlwaysWarmN.decide` over integers |
| `RetryLoop` | what `run_with_retries` does after an attempt |
| `GpuScheduler` | the scheduler with its leases (EXTENDS the two above) |
| `WorkQueue` | abstract: a FIFO line, at most `Capacity` servers, every item closed once |
| `GpuSchedulerRefinement` | the refinement mapping from `GpuScheduler` to `WorkQueue` |
| `GpuSchedulerProofs` | theorems about slots, runners and workers of `GpuScheduler` |
| `GpuSchedulerItemProofs` | theorems about its items and that it implements `WorkQueue` (EXTENDS the former) |
| `GpuSchedulerLedgerProofs` | theorems about its wakeups, slots and admission ledger (EXTENDS the former) |
| `Chains` | the registry of steps, chain resolution, validation and item count |
| `JobService` | service, chain runner and store, composed with `GpuScheduler` and `Chains` |
| `JobContract` | abstract: what a client is promised of a job and of an idempotency key |
| `JobServiceRefinement` | the refinement mapping from `JobService` to `JobContract` |
| `JobServiceProofs` | theorems about `JobService`, on top of those about the scheduler, and the lemmas about its memo |
| `EventStream` | the event generator of `api.py` on top of `JobService` |
| `AgentTools` | the agent tools, and an agent that follows their suggestions, on top of `JobService` |
| `Clients` | the service with both kinds of client |
| `ClientProofs` | theorems about what a client may rely on: `JobService` implements `JobContract`, the advice is true; the types of the records, which need the same invariants |
| `GpuPool` | worker state machine, leases and the billing ledger on a discrete clock |
| `Attempts` | the runners on a pool: ledger, draws, retries, spans, cost attribution (EXTENDS `GpuPool`, `RetryLoop`) |
| `Baseline` | `run_naive` of the harness on a pool (EXTENDS `GpuPool`) |
| `GpuPoolProofs` | theorems about `GpuPool` |
| `PoolUse` | the two users of a pool, one at a time |
| `PoolUseProofs` | theorems about the two users: that they keep to the lease protocol, the draws and the trace of `Attempts`, the row of `Baseline` |
| `VirtualClock` | `ManualClock` and `advance_until` on the turns of the event loop |
| `VirtualClockProofs` | theorems about `VirtualClock` |
| `MC...` | the values TLC is given |

### How the state corresponds

*GpuScheduler.* An action is the code one task runs from one await to the next.
`spawned` counts runner tasks that were created and have not taken their first
step; a runner that has leased a worker is known by the worker, whose `worker`
value says at which await it is (`warming`, `waiting`, `running`, `backoff`);
`finished` counts tasks that ended and whose `_on_runner_done` is due. `slots`
is `_runner_slots`. `signalled` and `expired` are the two ways a waiter's
`wait` ends. `future` is each item's future, `releasing` the items whose
done-callback `_release_backlog(1)` is due. `admitted` and `byJob` are the two
admission counters. Actions that several calls share contain them whole:
`AttemptSettles` is the end of `_execute` (resolve, average, reconcile) and the
next `_pop_live` or the registration of a waiter, since no await is between.
The average is chosen from `AvgValues` instead of computed: nothing checked
depends on its history. A refused `try_admit` changes nothing and is no action.

*JobService.* Extends the scheduler: every action is a scheduler action
conjoined with what the job's task does in the same turn of the loop, or leaves
the scheduler alone. `Proceed` is the loop of `ChainRunner.run` from one step to
the next await: the cancel check, memoized steps that succeed at once, then the
end of the job, an item, or the first attempt of a CPU step. `steps` has the
state, the number of attempts and whether the last span is open, for each step;
`Observe` is what `StepRunObserver` writes from inside the runners. The memo is
a sequence of (step, image) in LRU order: the outputs of the registry's steps
are content hashes that depend on the image only. `phase` is where `stop()`
is: runners cancelled, `sleep(0)`, job tasks cancelled, returned.
`Yielded` is the FIFO order of the loop: whatever was ready before `sleep(0)`
has run when it returns.

*Chains.* A submission names a preset or lists steps. `ValidChain` says that the
types made by the steps before each step include its inputs; the running sum of
`validate_chain` over the chain is the same set. `Submit` takes the chains
`Accepts` lets through. The kit's own registry is `KitInputModels` and the
definitions after it; `clients_live` runs with it, `svc_core` with three steps.

*VirtualClock.* `turn` holds what runs before the driver's next step, `soon`
what runs after it; a yield of the driver makes the next turn. `Release` is one
iteration of `advance()`, `Arrive` its end, `Tick` the two yields and the count
of `advance_until`, `Return` the drain. A task that was woken and awaits
something else first (`Hop`) goes to sleep later than its deadline, when
`advance()` has moved on; `SleepIsExact` is about each `sleep()` from its call.

*EventStream.* `Poll` is an iteration up to the `yield`, `Sent` what follows
when the server resumes the generator. Both read the service and change nothing
of it.

*AgentTools.* A tool call is one action, since no handler awaits before it
returns: what it decides it decides on the state of the moment, and everything
can happen before the agent's next call. The agent asks `get_system_status`
until the service accepts GPU jobs, submits, polls, and when the job has not
succeeded does what `_suggestion` says. In `SubmitChain` the answer may be lost;
the agent then submits again with its key and meets `SubmitDeduplicated`, or a
job of its own that is dead. `patient` says whether it resubmits; one that does
goes on until the job ids of the instance are used up, the bound on what is in
the code an unbounded number of tries.

*JobContract.* A job has an offer (a key and a number of steps), a status, a
number of steps done, the step under way and whether it was asked to stop. The
contract has an action per thing a client may see happen: taken, progressing,
succeeded, failed, stopped. `JobService` maps the number of steps recorded as
succeeded to the progress, and the step its task executes or awaits to the step
under way. Memoized steps succeed without ever being under way, which the
contract allows. It does not allow a step to begin once a cancel was asked for;
one that is under way by then may still end.

*GpuPool.* A worker is a record of its state, its lease and the two open and
closed intervals its bill is computed from; the operators `Warmed`, `WarmOver`,
`Started`, `Ran` and `Cooled` are the methods of `Worker`. `LetGo` is the
finally of a holder, and before it the one of `run()` when an exception or a
cancel reaches the task in there (`Unwound`). The actions are
what a task that has leased a worker does from one await to the next, and so
make several calls: `WarmRuns` is the end of `warm()` and the begin of `run()`,
`Relet` a release and an acquire in one turn. `due` is when the cold start that
is awaited is over. `warmTime` is a history variable: the time a worker really
was warm.

*Attempts.* A runner that has a worker takes the head of `line`, gets a number
from `ledger` and runs; `execution` has for each item its input, where it is,
its cancelled flag and its spans. `Draws` is what the draw of `_finish_step` may
be: anything the first time for a step, an input and a number, the same ever
after, because it is seeded by just these. A backoff lasts any time from zero to
`BackoffLimit`, which is `backoff_seconds` with its jitter. A runner's worker is
held during backoff, and it retires when it likes: how long it idles is the
question of `GpuScheduler`. `HeldSeconds` is the cost `build_trace` attributes
to an item.

*Baseline.* A request is a task with its chain, the step it is at and how its
`handle()` ended; `counts` are the four numbers of its row. CPU steps of several
requests interleave in any way. Between two GPU steps a request releases its
worker and leases one in the same turn.

## Runs

| Run | Bounds | Shows |
| --- | --- | --- |
| `sched_core` | 3 jobs of one step, 2 workers, floor 1, 2 attempts, backlog 3 | slots and leases agree, no lost wakeup, no item lost or run twice, lazy scale-down that keeps the floor |
| `sched_chain` | 2 jobs of up to 2 steps, 2 starts, one worker leased by somebody else | admission balances on every path, a failed `acquire` gives its slot up and the target is met all the same, refinement of `WorkQueue` (FIFO order, each item closed once) |
| `sched_live` | 2 jobs, 2 workers, 3 attempts, moving average, fairness | items settle, the pool scales down, a cancelled item gets no attempt but the one it was already committed to |
| `svc_core` | 2 jobs, 2 keys, chains that share steps, 2 attempts, 1 worker under `AlwaysWarmN(1)`, memo of 2 | one live or successful job per key; a task ends with a terminal job; terminal jobs are closed; nothing is left in the scheduler; the reservation covers the chain, and each step's inputs are there, whatever is memoized or evicted; `stop()` leaves every job terminal; refinement of `JobContract` (steps in order, none begun after a cancel, one ending that is final, success only of all steps) |
| `clients_live` | 2 jobs of the preset `multiview`, 2 attempts, 1 worker under `AlwaysWarmN(1)`, a backlog of 1, an agent, a stream, fairness | what an error advises is true and can be followed, an agent that follows it gets somewhere through lost answers, refusals and dead jobs; jobs end, `stop()` returns, the stream ends with its job |
| `clock_drive` | 3 tasks, ticks of 2, 2 calls of at most 2 ticks, fairness | sleepers wake at their deadline, in order, none is passed over; `advance_until` ends with its callbacks drained |
| `pool_lease` | 2 tasks, 2 workers, time 3; 2 items of the same step and input with 2 attempts, or 2 requests of the baseline | the bill is the warm time, no worker error, cold starts paid, no bill left open; attempts never share a number; the trace's costs lie between busy and billed time; the baseline's row is what happened |

Five runs show that the code does not do what a comment or a document says;
each is a finding in `PROJECT.json`:

* `sched_drift` - a runner cancelled by `stop()` before its first step leaks its
  slot (`scheduler.py:351` says the count can never drift). What still holds is
  proved: the slots never exceed the pool and the target is met by slots; what
  is lost is a runner per leaked slot after a restart.
* `sched_late_attempt` - a cancel during a backoff is followed by one more
  attempt (`service.py:264`). What still holds is `CancelIsHeeded`: that attempt
  is the last, and without a backoff under way there is none.
* `svc_resubmit` - a submission right after an accepted cancel is answered with
  the job that is about to be cancelled (`README.md:98`).
* `sse_last` - the stream may end without the last state (`api.py:126`).
* `attempts_permanent` - an input that has failed permanently may succeed when
  it is submitted again: the ledger gives each attempt a fresh number, and the
  permanent failure too is drawn from the number (`models.py:76`, "retrying this
  input will always fail"). What still holds is `FreshDraws`.

### Bounds, and why they are enough

Two workers are what two runners need to race for one item, to retire together
and to overtake each other; a third job keeps one item queued while both work.
Two attempts give one backoff; the three of `sched_live` leave, after a cancel
in the first backoff, an attempt in the budget that must not be made. A target
drain of 2 with an average of 1 or 2 makes one worker per item or per two items.
Two starts are what a leaked slot needs to be seen. Two steps per chain show the handing over of a reservation
and a step after a step; three steps with one of the CPU kind add the step
before the first item. A memo of two entries evicts with three steps.

`svc_core` and `clients_live` have the policy that never scales down: scaling is
the question of the scheduler's runs, and `sched_live` has the other policy. In
`clients_live` two jobs are what a submission and its resubmission need; a
backlog of one makes the second refused as long as the first has not given its
unit back. Only the job of an agent that does not resubmit is watched: a stream
reads one job and changes nothing, so that watching resubmitted jobs would show
it nothing new and multiply the states.

In `pool_lease` cold starts of 1 and 2 let one begin and end within another's;
a time of 3 has room for a cold start, an attempt, a backoff and the second
attempt. Two items execute the same step on the same input, which is what shared
attempt numbers need. Failures are transient only: for the pool and the bill a
permanent one ends an item as a success does, and what it does to the draws is
the question of `attempts_permanent`. The chains of the baseline are those of
the kit up to the number of CPU steps: two GPU steps, and none.

Sleeps of one to three units lie within a tick of two, at its end and in the
next one.

Only `sched_chain`, where the admission ledger and the order of items matter,
and the two-job counterexample `svc_resubmit` have one attempt per step.
`MaxStarts`, `MaxTime`, `MaxCalls`, `RoomToEnd` and the finite sets of jobs and
tasks are the only bounds that are not parameters of the code. `RoomToEnd` keeps
`finished` within `Capacity`: a runner ends only when fewer runners than that
wait for their `_on_runner_done`. Without it a runner that finds the pool leased
by somebody else could be respawned and end again for ever before the first of
these callbacks, which the event loop runs in the turn after. No property rests
on it: the callback is always enabled then, and is fair. Safety runs of interchangeable
jobs or tasks use symmetry, liveness runs do not.

`CHECK_DEADLOCK FALSE` is set because every system here may stop: its jobs or
tasks are over and the service is stopped, or the clock is at its bound. That
nothing stops too early is the question of the liveness properties.

### Fairness

Weak fairness of every action that the event loop, a timer or the end of a
sleep or of an attempt performs: ready callbacks and tasks run, sleeps end
because the clock goes on, attempts end because steps are finite computations.
None of these needs strong fairness since none is disabled again and again
by the others before it has been taken. Nothing is assumed of the callers:
submit, cancel, start and stop may never happen. In `Clients` the server goes on
with a stream whose client is there, and the agent makes its next call some time
(it need never cancel): `AgentFinishes` is about an agent that goes on asking.
In `VirtualClock` a turn of the event loop ends and the driver goes on; nothing
is assumed of when a task ends, so it may sleep or hop for ever.

## Proofs

All theorems are checked to the last leaf. They hold for every value of the
constants that satisfies the named assumptions of the modules, which TLC
evaluates on every run: any jobs, steps, requests, keys, tasks, pool sizes,
backlog bounds, policies, numbers of attempts and of starts. Where a set must be
finite (workers, attempts at the pool) an assumption says so.

### The scheduler

`GpuSchedulerProofs`, from `SchedulerAssumption`, `PolicyAssumption` and
`RetryAssumption`:

* `TypeCorrect` - `TypeOK`.
* `RunnersAlwaysFitPool` - runner tasks are at most slots, slots at most workers.
* `AcquireNeverFails` - with the pool to itself, there is a free worker for
  every runner task that has not started.
* `TargetAlwaysMet` - a running scheduler's slots reach the policy's target
  after every step.

All four follow from `IInv == TypeOK /\ RunnersFitPool /\ TargetMet /\
LeasesAllowed /\ StopExclusive`. `TargetMet` alone is not inductive: a step that
sets a worker busy raises the target, so the proof needs that busy workers have
slots (`RunnersFitPool`), that no slot is given up without a reconcile while the
scheduler is started (`StopExclusive`: a runner is cancelled only after
`started` is false), and that `decide` is monotone in the queue length and asks
for at most one worker per busy one (`DecideMonotone`, `DecideBusy`). The
pivotal lemma is `ActUpdate`: how the number of runners moves when one worker
changes state. There is one lemma per action or group of actions and
`NextIInv` collects them.

`GpuSchedulerItemProofs`:

* `OneRunnerAlways` - `OneRunnerPerItem`.
* `PendingNeverLost` - `PendingIsSomewhere`.

They follow from `ItemInv /\ Quiet` (`ItemInvariance`). That no two runners get
one item needs `QueueFresh`: the queue has an item once and only before its first
attempt, so a popped one is nobody else's and never comes back. That an
abandoned or flushed item is held by nobody needs `Quiet`: outside of a start and
a `stop()` there are no runners. The pivotal lemmas are `PopStep`, what
`TakeOrWait` does to the queue and the runner, and `StillPlaced`, where the
pending items are after a runner lets go of one and pops the next in one turn.

* `BudgetKeptAlways` - no item has more attempts than the policy allows, and a
  runner in backoff has one left (`WithinBudget`). `RunnerTells` lists what a
  runner that lets go of an item, or of an attempt at it, does to the attempts.

* `WorkQueueKept` - `ImplementsWorkQueue`: the initial state maps to an initial
  state of `WorkQueue` and every step to one of its steps or to a stutter.

The line of `WorkQueue` is the live part of the queue. It is described by ranks:
`Before(L, k)` counts the positions of `L` before `k`, and `AtPositions(q, L)`
has at place `m` what is at the position of rank `m - 1`. (A filter such as
`SelectSeq` is recursive, and the provers know nothing of it.) That every rank
is taken by exactly one position (`OneRankEach`, `EveryRank`, from the pigeonhole
principle of `FiniteSetTheorems`) gives the three ways a line moves: `LineGrows`
for `make_item`, `LineShrinks` for a cancelled or abandoned item, `LineMoves` for
`_pop_live`. What the refinement needs beyond `ItemInv` is `FlaggedFit`: `cancel()`
flags only items that were made, and closes those not begun as it flags them.
So what is dead in the queue is settled already (`DeadStay`): the steps in which
`_pop_live` drops dead items are invisible, and the head of the line is what
`_pop_live` returns. `ServeSeen` is the step in which a runner closes one item
and begins the next; `ServersEnough` is why at most `Capacity` are executing.

`GpuSchedulerLedgerProofs`:

* `NoWakeupLost` - `NoLostWakeup`, inductive given the types: the wakeup that
  `make_item` gives and the item it appends are one unit on either side.
* `SlotsAreAlwaysRunners` - `SlotsAreRunners`, from `SlotsExact`: until the
  first `stop()` there is *exactly* one slot per runner task, equality being
  what every step preserves.
* `AdmissionAlwaysBalanced` - `AdmissionBalanced`, from `LedgerInv`. The sum over
  jobs is not written as a fold, which could not be reasoned about, but as the
  size of the set `Reserved` of pairs (job, unit); `ReservedUpdate` is how it
  moves when one job's count does, `SettlingStep` how the units move when a
  future is resolved and its release falls due.
* `SchedulerNeverStuck` - `NeverStuck`, the safety half of `ItemsSettle`: until the
  first stop a pending item has a runner that executes, warms up, is signalled or
  has just been created. It follows from five of the invariants above together:
  the item is held or queued, a queue makes the target at least one
  (`WorkWanted`), the slots that meet it are runners, and if all of these sleep
  one was signalled. It needs the adaptive policy or a floor: `AlwaysWarmN(0)`
  wants no worker for any work.
* `CancelAlwaysHeeded` - `CancelIsHeeded`, from the moment of the cancel on. The
  attempts an item is committed to are those begun and the one its runner's
  backoff leads to. `NoNewCommitment` shows that no step raises the number for a
  flagged item: the pop passes over it, `should_abort` keeps it out of a further
  backoff, and the attempt that ends a backoff was counted already, once because
  the item has one runner (`HoldersExecute`). Being flagged with at most n
  attempts committed is therefore stable, for each item and each n.
* `ScaleDownAlwaysLazy` - the action property `ScaleDownIsLazy`. `WorkerMoves`
  lists the actions that may take a runner's worker from it.

### The service

`JobServiceProofs`, from the scheduler's assumptions, `ServiceAssumption` and
`RegistryAssumption`:

* `ServiceRunsScheduler` - `ServiceSpec => Spec`: every step of the service is
  one of the scheduler or leaves it alone. The scheduler's `Next` puts guards on
  its callers (a job makes an item only when it has a unit, say), and this
  theorem is that the service meets them; what is proved above therefore holds
  under the service.
* `AlwaysOneLiveJob`, `TasksAlwaysEndTerminal`, `TerminalJobsAlwaysClosed`,
  `NeverOrphanItems`, `ReservationAlwaysLasts`, `InputsAlwaysReady`,
  `StopAlwaysLeavesNothing` - the invariants of `svc_core` of similar names.

They follow from `SInv /\ JInv`, the scheduler's invariants and seven statements
about jobs that hold only together. A record of a terminal job is closed because
no runner is at its item any more (`SpansFit`); no item is left over because a
job makes the next only when those before are over and released (`ItemsFit`);
the reservation covers the rest of the chain because a job has made no more items
than it has come to GPU steps (`JobItems`, and `GpuCounts`, which counts GPU steps
before and after a place of the chain); `stop()` finds its jobs where their task
is (`CallersFit`, `PhaseFits`). `ProceedEffect` is the pivotal lemma: whatever is
memoized, the loop of `ChainRunner.run` leads from a step that is over to the end
of the job, or to a later step with all between succeeded. `JobGoesOn` says what
a step of a job's own task does, whichever it is; each action is shown to be one,
and the invariant is shown once (`GoesOnKeeps`). `RunnerMoves` and `RunsKeeps` do
the same for steps of the scheduler that the observer and the future's callbacks
make visible to the job, `DeliveredDone` for what the task learns from its item.
`JInv` includes the types of every variable except the memo.

The memo is a sequence in LRU order, and its cap is not by construction: hits
move keys, a success adds one and may evict one, in any mixture of jobs. That it
has at most `MemoCap` keys is `MemoAlwaysFits`, from `TouchOK` (a hit leaves the
same keys, as many), `RememberOK` (a success) and `HitsOK` (a run of memoized
steps, each a hit). `Hits` is a recursive function of the place in the chain, and
what it computes would be an induction; `HitsOK` takes instead the least place
up to which there is no function with its equations, and then, with the function
in hand, the least place where its value is no longer a memo of the same size.

`ClientProofs`, from also `StreamAssumption` and `AgentAssumption`:

* `JobContractKept` - `ServiceSpec => ImplementsJobContract`, the step simulation
  of the abstract `JobContract` under the mapping of `JobServiceRefinement`.

Each step of a job's task is a step of its contract (`GoesOnAllowed`); a step of
the scheduler, and what the observer writes of it, is a stutter (`RunsUnseen`).
Needed beyond `SInv /\ JInv`: that a job goes on to a further step only when
nobody asked it to stop, and that one ends cancelled only when somebody did
(`AskedFit`, with `CancelsMove`: who flags or cancels an item).

* `ClientsRunService` - `ClientsSpec => ServiceSpec`: the clients make only the
  calls that the service's own `Next` has, so all that is proved of the service
  holds behind the routes.
* `AdviceAlwaysTrue` - `AdviceIsTrue`.
* `StreamsCloseLate` - the safety half of `StreamEnds`: a closed stream is of a
  job that is over, and no step takes a job up again.
* `ServiceTypesCorrect` - `ServiceTypeOK`. The number of attempts in a record is
  bounded by the budget only because it is the scheduler's count (`ToldFit`), the
  memo by `MemoFit`.

That advice is true is about the past of a job, of which its records keep only a
part. `ToldFit` says what that part is: a record counts the attempts made at its
step, for a GPU step the same number as the scheduler does for its item; a step
that sleeps a backoff has an attempt left; and an item that has failed with the
record at `retrying` has used up the budget (`ItemTold`, from `WithinBudget`: the
observer is told of the last failure as of the others, and the model's `Failed`
reads from that record which kind of failure it was when the task wakes). `CancelFit` is why a job was
cancelled: the only reasons are its flag and the stop of the service, and the
service begins with no job. `RunsTell` and `GoesOnTells` show that `ToldFit`
is kept by a step of the scheduler and by one of a job's own task.

### The pool and its users

`GpuPoolProofs`, from `PoolAssumption`, of any tasks that lease, use and let go
of workers as `LeaseSpec` says:

* `BillAlwaysWarmTime`, `LeaseAlwaysClosesBill`, `RunNeverEverRaises`,
  `ColdStartAlwaysPaid` - `BillIsWarmTime`, `LeaseClosesBill`, `RunNeverRaises`,
  `ColdStartPaid`.

They follow from `PInv` (`PoolInvariance`): a leased worker has one holder, is
in the state its holder is in, and its intervals are open as its state says and
add up to the time it was warm. Each of the four properties needs the rest of
it. There is one lemma per method of a worker (`WarmedOK`, `RanOK`, ...) and one
per action.

The sums of the pool's report are not folds but sizes of sets: `Total(f)` counts
the pairs of a worker and one of its units, and `TotalOf` says that any sets of
the right sizes may be counted instead. The lemmas on `Books` use this: each worker
has a set of seconds in which it was warm and one in which it ran, as many as
its closed and open intervals add up to, and every action of `LeaseSpec` and
every tick keeps such sets (`BooksStay`, `BooksTick`).

`PoolUseProofs`, from also `AttemptAssumption` and `ChainsAssumption`:

* `UsersKeepToLeases` - `Spec => LeaseSpec`: what runners and naive requests do
  is what the lease protocol allows. Hence `UsersBillWarmTime`,
  `UsersCloseTheBill`, `UsersNeverRaise`, `UsersPayColdStarts` and
  `PoolTypeCorrect` of the repository's two users.
* `DrawsAlwaysFresh` - `FreshDraws`. From `AInv`: an item has its input from
  before its first attempt, and all numbers given out for an input lie below the
  ledger's count of it.
* `TraceAlwaysWithinBill` - `TraceWithinBill`. Two sums over different things,
  items and workers, are compared, so `TInv` says where the seconds of one are in
  the other. There are the books of the pool, and a worker for each item that
  was tried, so that the seconds an item held its worker (from its first span to
  its last, backoffs included) are warm seconds of that worker (`RoomFit`), those
  of two items on one worker do not overlap, and every second in which a worker
  ran lies in some item's (`RanFit`). That the seconds between an item's last
  attempt and the moment its runner goes on belong to nobody else is why
  `Occupies` reaches to now while the item is served. `TraceAdds` turns the
  injections into the two inequalities. The books are quantified in the invariant
  and are no variables of the model: each action shows the new ones from the old.
* `BaselineAlwaysHonest` - `BaselineIsHonest`. From `BInv`: verdicts and steps are
  counted as sets of requests and of their GPU steps, and a request is on the pool
  only at a GPU step of its chain (`RequestFits`). That each of these is a cold
  start needs that every worker without a lease, and one just let go of, is cold.

### The virtual clock

`VirtualClockProofs`, for any set of tasks, waited for or not, any delays and
any positive step, from `ClockAssumption`:

* `ClockTypeCorrect` - `ClockTypeOK`, and with it that no task is in both turns.
* `SleepAlwaysExact` - `SleepIsExact`: the clock is monotone and every sleeper
  wakes at its own deadline.
* `CallbacksAlwaysDrained` - `CallbacksDrained`.

They follow from `ClockInv == Times /\ Turns /\ Ahead /\ Draining`. Exactness
needs that every sleeper's deadline is ahead of the clock and the clock not past
the target of the `advance()` in progress (`Ahead`); then the earliest deadline
that is due lies between the two (`EarliestDue`, from the least-number
principle, so the set of tasks may be infinite). Draining needs that a callback
that is due is in a turn (`Turns`) and that from the condition on no watched
task schedules anything new (`Draining`): this is why two yields suffice.

### What stays with the model checker

* Liveness: `ItemsSettle`, `ScalesToFloor`, `JobsEnd`, `ServiceStops`,
  `StreamEnds`, `AgentFinishes`, `AdvanceUntilEnds`. `ENABLED` and fairness are out
  of the prover's reach. The safety that they rest on is proved: no wakeup is lost
  (`NoWakeupLost`), no pending item is nowhere (`PendingNeverLost`), a started
  scheduler has the runners its policy asks for (`TargetAlwaysMet`), work never
  waits for sleeping runners only (`SchedulerNeverStuck`), a closed stream
  is of a job that is over (`StreamsCloseLate`).
* What does not hold: the properties of the five runs that find a violation
  are shown false on an instance, and there is nothing to prove.

Every invariant and every action property that a passing run checks, and both
refinements, are theorems.

Some definitions have a form the provers can use: `RemoveFirst` in `Attempts`
and in the memo's `Touch` instead of a selection, the ranks of `AtPositions`
instead of a filter, set sizes instead of sums in `AdmissionBalanced`, `Total` and
`BaselineIsHonest`, functions (`Hits`) instead of folds and RECURSIVE operators.
`ServiceAssumption` says that requests are records over the steps, that no chain
has more GPU steps than a job may have items (`MaxSteps`, a bound of the model),
and that the values for nothing (`NoRequest`, `NoJob`) are not requests or jobs.

## Not modelled, and why

* Configuration, logging, the demo and the harness's scenarios and table: no
  state that anything depends on.
* Metrics: counters, latency reservoirs, percentiles and the pool's utilization
  are reads of what has happened; of the trace, only its spans and its cost
  attribution are modelled. `estimate_wait_s` is a report as well.
* REST: listing, paging, the rendering of payloads and status codes. The routes
  that change state are the same calls of `JobService` as the tools.
* Values: durations, hashes and the seeded random numbers. An attempt may end in
  any way at any time, an arrival may be at any time, an execution's outcome is
  fixed by its step, input and number. What the steps compute is not modelled,
  only which types of data a chain has when it comes to them.
* In `JobService` the numbers of the attempts are left out, they are the subject
  of `Attempts`; there, in turn, an item stands for the step of some job, and
  the scheduler's sizing is left to `GpuScheduler`. All requests are for one
  image, so that the memo's keys are steps.

## Plan

Modelled: the core (scheduler, policies, retry decision, work queue), the
service and its jobs with their chains, the contract of a job, the clients, the
pool with its two users and the attempts on it, the virtual clock. Proved: every
safety invariant and every action property that a run checks, and both
refinements. Left to the model checker is liveness only.
