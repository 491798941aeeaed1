------------------------------ MODULE JobService ------------------------------
(* JobService (service/service.py) with the ChainRunner that executes each    *)
(* job (service/runner.py) and the job store, on top of the scheduler: submit *)
(* with its deduplication and admission, one task per job, memoized steps,    *)
(* CPU steps retried inline, GPU steps awaited, cancel and stop.              *)
(*                                                                            *)
(* Every step here is a step of GpuScheduler or leaves the scheduler alone.   *)
(* Items are numbered in the order in which the job enqueues them: a memoized *)
(* GPU step makes no item.                                                    *)
EXTENDS GpuScheduler, Chains

CONSTANTS
  Requests,   \* what submit() is called with: records [key, chain, image]
  MemoCap,    \* _memo_cap
  NoRequest,  \* of a job id that is not in use yet
  NoJob       \* of a key that is not in use yet

Keys == {r.key : r \in Requests}

\* The key, chain and image of the job that request r makes
JobRequest(r) == [r EXCEPT !.chain = ResolveChain(@)]
JobRequests   == {JobRequest(r) : r \in {q \in Requests : Accepts(q.chain)}}

ASSUME ServiceAssumption ==
  /\ \A r \in Requests : DOMAIN r = {"key", "chain", "image"}
  /\ \A q \in JobRequests : q.chain \in Seq(Steps) /\ GpuItemCount(q.chain) <= MaxSteps
  /\ NoRequest \notin JobRequests /\ NoJob \notin Jobs
  /\ MemoCap \in Nat \ {0}
  /\ ForeignLeases = 0          \* the service has the pool to itself

VARIABLES
  request,   \* key, chain and image of each job
  byKey,     \* _by_key of the store: the newest job with each key
  state,     \* Job.state ("none": no such job)
  steps,     \* Job.steps: state, attempts made, is the last span open
  at,        \* the step the job's task is at
  task,      \* what the job's task waits for
  cancelRequested,
  memo,      \* _memo: (step, image), least recently used first
  phase      \* where start() and stop() are

jobVars == <<request, byKey, state, steps, at, task, cancelRequested, memo, phase>>
svars   == <<vars, jobVars>>

Terminal      == {"succeeded", "failed", "cancelled"}
Resubmittable == {"failed", "cancelled"}

ChainOf(j) == request[j].chain

\* The item the job awaits or has awaited last, and the one it makes next
Made(j)     == Cardinality({n \in 1 .. MaxSteps : future[<<j, n>>] # "none"})
CurItem(j)  == <<j, Made(j)>>
NextItem(j) == <<j, Made(j) + 1>>

-----------------------------------------------------------------------------
(* StepRun records (StepRunObserver, _finish_cancelled)                       *)

NewStepRun == [state |-> "pending", attempts |-> 0, open |-> FALSE, error |-> "none"]

AttemptStarted(r) ==
  [r EXCEPT !.state = "running", !.attempts = @ + 1, !.open = TRUE]

AttemptFinished(r, o) ==
  [r EXCEPT !.open = FALSE, !.state = IF o = "transient" THEN "retrying" ELSE @]

\* Mutant: the kinds are the wrong way round.
Failed_Swapped(r) ==
  [r EXCEPT !.state = "failed",
            !.error = IF r.state = "retrying" THEN "permanent" ELSE "transient_exhausted"]

(* _finish_failed: RetryExhaustedError, which follows a transient failure, or *)
(* PermanentError.                                                            *)
Failed(r) ==
  [r EXCEPT !.state = "failed",
            !.error = IF r.state = "retrying" THEN "transient_exhausted" ELSE "permanent"]

\* Mutant: the open span of the interrupted attempt is not closed.
Interrupted_SpanKept(r) ==
  [r EXCEPT !.state = IF @ \in {"running", "retrying"} THEN "cancelled" ELSE @]

Interrupted(r) ==
  [r EXCEPT !.state = IF @ \in {"running", "retrying"} THEN "cancelled" ELSE @,
            !.open = FALSE]

(* What the runners' observers record in one step of the scheduler: the item  *)
(* ended, if any, has an attempt that ended with o; another item may have     *)
(* begun an attempt.                                                          *)
Observe(ended, o) ==
  LET Seen(j, r) ==
        IF CurItem(j) = ended THEN AttemptFinished(r, o)
        ELSE IF attempts'[CurItem(j)] > attempts[CurItem(j)] THEN AttemptStarted(r) ELSE r
  IN  steps' = [j \in Jobs |-> IF task[j] = "gpu" THEN [steps[j] EXCEPT ![at[j]] = Seen(j, @)]
                                                  ELSE steps[j]]

-----------------------------------------------------------------------------
(* The memo: an OrderedDict with LRU eviction                                 *)

MemoKey(j, n) == <<ChainOf(j)[n], request[j].image>>

\* move_to_end
Touch(m, k) == Append(RemoveFirst(m, k), k)

\* Memo m after the hits of steps n to stop - 1 of job j
Hits(j, n, stop, m) ==
  LET touched[k \in n .. stop] ==
        IF k = n THEN m ELSE Touch(touched[k - 1], MemoKey(j, k - 1))
  IN  touched[stop]

\* Mutant: nothing is evicted.
Remember_All(m, k) == IF Contains(m, k) THEN m ELSE Append(m, k)

\* A key that is already there keeps its place.
Remember(m, k) ==
  LET grown == IF Contains(m, k) THEN m ELSE Append(m, k)
  IN  IF Len(grown) > MemoCap THEN Tail(grown) ELSE grown

-----------------------------------------------------------------------------
(* The task of a job, from one await to the next                              *)

Finish(j, n, sr, s) ==
  /\ state' = [state EXCEPT ![j] = s]
  /\ steps' = [steps EXCEPT ![j] = sr]
  /\ at' = [at EXCEPT ![j] = n]
  /\ task' = [task EXCEPT ![j] = "done"]

\* Mutant: only the step is marked failed.
FinishFailed_StepOnly(j, sr) ==
  Finish(j, at[j], [sr EXCEPT ![at[j]] = Failed(@)], state[j])

FinishFailed(j, sr) == Finish(j, at[j], [sr EXCEPT ![at[j]] = Failed(@)], "failed")

FinishCancelled(j, n, sr) ==
  Finish(j, n, [sr EXCEPT ![n] = Interrupted(@)], "cancelled")

\* Mutant: a cancel is only seen by the step it interrupts.
SeesCancel_Never(j) == FALSE

\* The check ChainRunner.run makes before each step
SeesCancel(j) == j \in cancelRequested

(* The loop of ChainRunner.run from step n on, with step records sr and memo  *)
(* m: memoized steps succeed at once, then the job ends or waits for a step.  *)
Proceed(j, n, sr, m) ==
  LET c    == ChainOf(j)
      miss == {k \in n .. Len(c) : ~Contains(m, MemoKey(j, k))}
      stop == IF miss = {} THEN Len(c) + 1 ELSE CHOOSE k \in miss : \A l \in miss : k <= l
      run  == [k \in DOMAIN sr |->
                 IF k \in n .. (stop - 1) THEN [sr[k] EXCEPT !.state = "succeeded"] ELSE sr[k]]
  IN IF n <= Len(c) /\ SeesCancel(j)
     THEN FinishCancelled(j, n, sr) /\ memo' = m /\ UNCHANGED vars
     ELSE /\ memo' = Hits(j, n, stop, m)
          /\ \/ /\ stop > Len(c)
                /\ Finish(j, stop, run, "succeeded")
                /\ UNCHANGED vars
             \/ /\ stop <= Len(c)
                /\ state' = [state EXCEPT ![j] = "running"]
                /\ at' = [at EXCEPT ![j] = stop]
                /\ IF c[stop] \in GpuSteps
                   THEN /\ MakeItem(NextItem(j))
                        /\ task' = [task EXCEPT ![j] = "gpu"]
                        /\ steps' = [steps EXCEPT ![j] = run]
                   ELSE /\ task' = [task EXCEPT ![j] = "cpu"]
                        /\ steps' = [steps EXCEPT ![j] = [run EXCEPT ![stop] = AttemptStarted(@)]]
                        /\ UNCHANGED vars

\* Step at[j] has returned its output: it is memoized and the loop goes on.
StepSucceeds(j, sr) ==
  Proceed(j, at[j] + 1, [sr EXCEPT ![at[j]].state = "succeeded"],
          Remember(memo, MemoKey(j, at[j])))

-----------------------------------------------------------------------------
Untouched(j) == request[j] = NoRequest

ServiceInit ==
  /\ Init
  /\ request = [j \in Jobs |-> NoRequest]
  /\ byKey = [k \in Keys |-> NoJob]
  /\ state = [j \in Jobs |-> "none"]
  /\ steps = [j \in Jobs |-> <<>>]
  /\ at = [j \in Jobs |-> 0]
  /\ task = [j \in Jobs |-> "none"]
  /\ cancelRequested = {}
  /\ memo = <<>>
  /\ phase = "down"

ServiceStart ==
  /\ phase = "down" /\ Start
  /\ phase' = "up"
  /\ UNCHANGED <<request, byKey, state, steps, at, task, cancelRequested, memo>>

\* Mutant: a dead job traps its key.
Dedups_Dead(k) == byKey[k] # NoJob

\* Mutant: a job that has not begun is not found.
Dedups_Begun(k) == byKey[k] # NoJob /\ state[byKey[k]] \in {"running", "succeeded"}

\* submit() with key k returns the job it finds.
Dedups(k) == byKey[k] # NoJob /\ state[byKey[k]] \notin Resubmittable

(* submit() that creates a job.  One that is refused, by resolve_chain,       *)
(* validate_chain or try_admit, or that is deduplicated changes nothing.      *)
Submit(j, r) ==
  LET q == JobRequest(r)
  IN  /\ Untouched(j)
      /\ Accepts(r.chain)
      /\ ~Dedups(r.key)
      /\ Admit(j, GpuItemCount(q.chain))
      /\ request' = [request EXCEPT ![j] = q]
      /\ byKey' = [byKey EXCEPT ![r.key] = j]
      /\ state' = [state EXCEPT ![j] = "queued"]
      /\ steps' = [steps EXCEPT ![j] = [n \in 1 .. Len(q.chain) |-> NewStepRun]]
      /\ task' = [task EXCEPT ![j] = "created"]
      /\ UNCHANGED <<at, cancelRequested, memo, phase>>

\* The first step of the job's task
JobBegins(j) ==
  /\ task[j] = "created"
  /\ Proceed(j, 1, steps[j], memo)
  /\ UNCHANGED <<request, byKey, cancelRequested, phase>>

\* An attempt of a CPU step ends.
CpuAttemptEnds(j, o) ==
  LET sr   == [steps[j] EXCEPT ![at[j]] = AttemptFinished(@, o)]
      next == AfterAttempt(o, sr[at[j]].attempts, SeesCancel(j))
  IN /\ task[j] = "cpu" /\ phase # "cancelJobs"
     /\ \/ next = "result" /\ StepSucceeds(j, sr)
        \/ next = "failed" /\ FinishFailed(j, sr) /\ UNCHANGED <<vars, memo>>
        \/ next = "cancelled" /\ FinishCancelled(j, at[j], sr) /\ UNCHANGED <<vars, memo>>
        \/ /\ next = "backoff"
           /\ steps' = [steps EXCEPT ![j] = sr]
           /\ task' = [task EXCEPT ![j] = "cpuBackoff"]
           /\ UNCHANGED <<vars, state, at, memo>>
     /\ UNCHANGED <<request, byKey, cancelRequested, phase>>

CpuBackoffDone(j) ==
  /\ task[j] = "cpuBackoff" /\ phase # "cancelJobs"
  /\ steps' = [steps EXCEPT ![j][at[j]] = AttemptStarted(@)]
  /\ task' = [task EXCEPT ![j] = "cpu"]
  /\ UNCHANGED <<vars, request, byKey, state, at, cancelRequested, memo, phase>>

\* Mutant: the job's task runs before the release callback.
Delivered_First(j) == task[j] = "gpu" /\ future[CurItem(j)] # "pending"

(* The future of the awaited item is done and its callbacks run in the order  *)
(* they were added: the release of the backlog, then the job's task.          *)
Delivered(j) == /\ task[j] = "gpu"
                /\ future[CurItem(j)] # "pending" /\ CurItem(j) \notin releasing

\* Mutant: a cancelled item is not caught.
GpuItemEnds_Uncaught(j) ==
  /\ Delivered(j)
  /\ \/ future[CurItem(j)] = "result" /\ StepSucceeds(j, steps[j])
     \/ future[CurItem(j)] = "failed" /\ FinishFailed(j, steps[j]) /\ UNCHANGED <<vars, memo>>
  /\ UNCHANGED <<request, byKey, cancelRequested, phase>>

GpuItemEnds(j) ==
  /\ Delivered(j)
  /\ \/ future[CurItem(j)] = "result" /\ StepSucceeds(j, steps[j])
     \/ future[CurItem(j)] = "failed" /\ FinishFailed(j, steps[j]) /\ UNCHANGED <<vars, memo>>
     \/ /\ future[CurItem(j)] = "cancelled"
        /\ FinishCancelled(j, at[j], steps[j]) /\ UNCHANGED <<vars, memo>>
  /\ UNCHANGED <<request, byKey, cancelRequested, phase>>

\* _on_done: the done-callback of the job's task
OnDone(j) ==
  /\ task[j] = "done"
  /\ FinalizeJob(j)
  /\ task' = [task EXCEPT ![j] = "gone"]
  /\ UNCHANGED <<request, byKey, state, steps, at, cancelRequested, memo, phase>>

(* cancel(): flag the job, and its item when there is one that is unresolved. *)
Cancel(j) ==
  /\ state[j] \in {"queued", "running"}
  /\ j \notin cancelRequested
  /\ cancelRequested' = cancelRequested \cup {j}
  /\ IF task[j] = "gpu" /\ future[CurItem(j)] = "pending"
     THEN CancelItem(CurItem(j))
     ELSE UNCHANGED vars
  /\ UNCHANGED <<request, byKey, state, steps, at, task, memo, phase>>

-----------------------------------------------------------------------------
(* Steps of the scheduler, with what their observers record                   *)

RunnerOn(w) ==
  \/ WarmDone(w) /\ Observe(NoItem, "ok")
  \/ ExpireTTL(w) /\ Observe(NoItem, "ok")
  \/ Wake(w) /\ Observe(NoItem, "ok")
  \/ Retire(w) /\ Observe(NoItem, "ok")
  \/ AttemptFails(w) /\ Observe(holding[w], "transient")
  \/ \E o \in Outcomes : AttemptSettles(w, o) /\ Observe(holding[w], o)
  \/ BackoffDone(w) /\ Observe(NoItem, "ok")
  \/ CancelRunner(w) /\ Observe(NoItem, "ok")

Runs(w) ==
  /\ RunnerOn(w)
  /\ UNCHANGED <<request, byKey, state, at, task, cancelRequested, memo, phase>>

Callbacks ==
  /\ \/ RunnerStart
     \/ OnRunnerDone
     \/ CancelSpawned
     \/ \E i \in Items : ReleaseCallback(i)
  /\ UNCHANGED jobVars

-----------------------------------------------------------------------------
(* stop()                                                                     *)

StopBegins ==
  /\ phase = "up"
  /\ \/ StopBegin /\ phase' = "runners"
     \/ StopNoRunners /\ phase' = "yield"
  /\ UNCHANGED <<request, byKey, state, steps, at, task, cancelRequested, memo>>

RunnersGone ==
  /\ phase = "runners" /\ StopFlush
  /\ phase' = "yield"
  /\ UNCHANGED <<request, byKey, state, steps, at, task, cancelRequested, memo>>

(* asyncio.sleep(0): whatever was ready before has run, so the task of every  *)
(* job has begun and has been told of its flushed item.                       *)
Yielded ==
  \A j \in Jobs : /\ task[j] # "created"
                 /\ task[j] = "gpu" => future[CurItem(j)] = "pending"

CancelTasks ==
  /\ phase = "yield" /\ Yielded
  /\ phase' = "cancelJobs"
  /\ UNCHANGED <<vars, request, byKey, state, steps, at, task, cancelRequested, memo>>

\* Mutant: tasks that await an item are left alone.
TaskCancelled_CpuOnly(j) ==
  /\ phase = "cancelJobs"
  /\ task[j] \in {"cpu", "cpuBackoff"}
  /\ FinishCancelled(j, at[j], steps[j])
  /\ UNCHANGED <<vars, request, byKey, cancelRequested, memo, phase>>

(* CancelledError in a job's task: it finalizes the job.  When the task awaits*)
(* an item, the item's future is cancelled first.                             *)
TaskCancelled(j) ==
  /\ phase = "cancelJobs"
  /\ \/ /\ task[j] \in {"cpu", "cpuBackoff"}
        /\ FinishCancelled(j, at[j], steps[j])
        /\ UNCHANGED vars
     \/ /\ task[j] = "gpu"
        /\ AbandonItem(CurItem(j))
        /\ UNCHANGED <<state, steps, at, task>>
  /\ UNCHANGED <<request, byKey, cancelRequested, memo, phase>>

\* Mutant: the cancelled tasks are not awaited.
StopReturned_NoGather ==
  /\ phase = "cancelJobs"
  /\ phase' = "down"
  /\ UNCHANGED <<vars, request, byKey, state, steps, at, task, cancelRequested, memo>>

StopReturned ==
  /\ phase = "cancelJobs"
  /\ \A j \in Jobs : task[j] \in {"none", "gone"}
  /\ phase' = "down"
  /\ UNCHANGED <<vars, request, byKey, state, steps, at, task, cancelRequested, memo>>

-----------------------------------------------------------------------------
\* What the service does without being called, and its start and stop
ServiceRuns ==
  \/ ServiceStart
  \/ \E j \in Jobs : \/ JobBegins(j)
                     \/ \E o \in Outcomes : CpuAttemptEnds(j, o)
                     \/ CpuBackoffDone(j)
                     \/ GpuItemEnds(j)
                     \/ OnDone(j)
                     \/ TaskCancelled(j)
  \/ \E w \in Workers : Runs(w)
  \/ Callbacks
  \/ StopBegins
  \/ RunnersGone
  \/ CancelTasks
  \/ StopReturned

ServiceNext ==
  \/ ServiceRuns
  \/ \E j \in Jobs : Cancel(j) \/ \E r \in Requests : Submit(j, r)

ServiceSpec == ServiceInit /\ [][ServiceNext]_svars

(* The event loop runs what is ready, sleeps and attempts end.                *)
ServiceFairness ==
  /\ \A j \in Jobs : /\ WF_svars(JobBegins(j))
                     /\ WF_svars(\E o \in Outcomes : CpuAttemptEnds(j, o))
                     /\ WF_svars(CpuBackoffDone(j))
                     /\ WF_svars(GpuItemEnds(j))
                     /\ WF_svars(OnDone(j))
                     /\ WF_svars(TaskCancelled(j))
  /\ \A w \in Workers : WF_svars(Runs(w))
  /\ WF_svars(Callbacks)
  /\ WF_svars(RunnersGone)
  /\ WF_svars(CancelTasks)
  /\ WF_svars(StopReturned)

FairServiceSpec == ServiceSpec /\ ServiceFairness

-----------------------------------------------------------------------------
(* Invariants                                                                 *)

\* The records of the store and of the service have their types.
ServiceTypeOK ==
  /\ request \in [Jobs -> JobRequests \cup {NoRequest}]
  /\ byKey \in [Keys -> Jobs \cup {NoJob}]
  /\ state \in [Jobs -> {"none", "queued", "running"} \cup Terminal]
  /\ task \in [Jobs -> {"none", "created", "cpu", "cpuBackoff", "gpu", "done", "gone"}]
  /\ \A j \in Jobs : \A n \in 1 .. Len(steps[j]) :
       steps[j][n] \in [state : {"pending", "running", "retrying"} \cup Terminal,
                        attempts : 0 .. MaxAttempts, open : BOOLEAN,
                        error : {"none", "transient_exhausted", "permanent"}]
  /\ cancelRequested \subseteq Jobs
  /\ Len(memo) <= MemoCap
  /\ phase \in {"down", "up", "runners", "yield", "cancelJobs"}

(* Whatever is submitted, cancelled and resubmitted in which order, at most   *)
(* one job of a key is live or has succeeded (submit()'s deduplication).      *)
OneLiveJobPerKey ==
  \A k \in Keys : \A i, j \in Jobs :
    (/\ ~Untouched(i) /\ request[i].key = k /\ state[i] \notin Resubmittable
     /\ ~Untouched(j) /\ request[j].key = k /\ state[j] \notin Resubmittable) => i = j

(* A job's task never ends with the job still live, and a live job has a live *)
(* task: the O(1) all_terminal() tells the truth (ChainRunner.run, "Never     *)
(* leaves the job non-terminal").                                             *)
TaskEndsTerminal ==
  \A j \in Jobs : ~Untouched(j) => (task[j] \in {"done", "gone"} <=> state[j] \in Terminal)

(* "a terminal job must never carry a RUNNING/RETRYING step or an open        *)
(* attempt span", and its steps tell how it ended: all succeeded, or those    *)
(* before the failed one, or no failed one (runner.py).                       *)
TerminalJobClosed ==
  \A j \in Jobs : state[j] \in Terminal =>
    LET seen == {steps[j][n].state : n \in 1 .. Len(steps[j])}
    IN  /\ \A n \in 1 .. Len(steps[j]) : ~steps[j][n].open
        /\ seen \cap {"running", "retrying"} = {}
        /\ state[j] = "succeeded" => seen = {"succeeded"}
        /\ state[j] = "failed" <=> "failed" \in seen

(* A job that is over has nothing left in the scheduler: no runner works for  *)
(* it and it holds no unit of the backlog once its callbacks have run.        *)
NoOrphanItems ==
  \A j \in Jobs : state[j] \in Terminal =>
    /\ \A n \in 1 .. MaxSteps : future[<<j, n>>] # "pending" /\ <<j, n>> \notin releasing
    /\ \A w \in Workers : holding[w] = NoItem \/ JobOf(holding[w]) # j
    /\ task[j] = "gone" => byJob[j] = 0

(* What try_admit reserved lasts for the chain: whatever is memoized, a live  *)
(* job has a unit for each GPU step it has not come to, so make_item never    *)
(* has to take a unit the job does not have.                                  *)
ReservationLasts ==
  \A j \in Jobs : state[j] \in {"queued", "running"} =>
    byJob[j] >= Cardinality({n \in 1 .. Len(ChainOf(j)) : n > at[j] /\ ChainOf(j)[n] \in GpuSteps})

(* A step that is attempted or enqueued has its inputs: the steps that        *)
(* succeeded, run or memoized, produced every type it needs, so the lookups   *)
(* in the context of ChainRunner never fail ("Reject a chain at submit time   *)
(* if it cannot possibly run", validate_chain).                               *)
InputsReady ==
  \A j \in Jobs : task[j] \in {"cpu", "cpuBackoff", "gpu"} =>
    InputModels[ChainOf(j)[at[j]]] \subseteq
      Available(ChainOf(j), {n \in 1 .. Len(steps[j]) : steps[j][n].state = "succeeded"})

(* After stop() has returned every job is terminal, the backlog is empty and  *)
(* the pool is idle ("in-flight jobs resolve as cancelled").                  *)
StopLeavesNothing ==
  phase = "down" =>
    /\ \A j \in Jobs : ~Untouched(j) => state[j] \in Terminal
    /\ admitted = 0
    /\ Active = {}

-----------------------------------------------------------------------------
(* Liveness                                                                   *)

\* Every submitted job reaches a terminal state, stop() or not.
JobsEnd == \A j \in Jobs : state[j] = "queued" ~> state[j] \in Terminal

\* stop() of the service returns.
ServiceStops == phase \in {"runners", "yield", "cancelJobs"} ~> phase = "down"

-----------------------------------------------------------------------------
(* "Cancel, then resubmit the same chain+image - creates a NEW job            *)
(* (a cancelled job ... does not trap the idempotency key)" (README.md)       *)
CancelFreesKey ==
  \A k \in Keys : Dedups(k) /\ state[byKey[k]] # "succeeded" => byKey[k] \notin cancelRequested

=============================================================================
