------------------------------- MODULE GpuPool -------------------------------
(* Worker and GpuPool of pipeline_kit/gpu.py: leases, the state of a worker,  *)
(* and the interval ledger its bill is computed from.                         *)
(*                                                                            *)
(* A task leases a worker, warms it, runs jobs on it and cools it before it   *)
(* releases it, as the scheduler's runners and the naive baseline of the      *)
(* harness do.  What a task does from one await to the next is one action, so *)
(* that some actions make several calls of the pool.                          *)
EXTENDS Naturals, FiniteSets

CONSTANTS
  Tasks,
  Capacity,    \* number of workers
  ColdStarts,  \* cold-start delays that may be drawn
  MaxTime,     \* bound on the clock
  NoTime

ASSUME PoolAssumption ==
  /\ Capacity \in Nat \ {0}
  /\ ColdStarts \subseteq Nat \ {0}
  /\ MaxTime \in Nat
  /\ NoTime \notin Nat

VARIABLES
  now,         \* Clock.monotonic
  workers,     \* the fields of each worker
  doing,       \* what each task awaits
  on,          \* the worker it does it on (1 when it is out)
  due,         \* when its cold start is over (0: it does not await one)
  warmTime     \* history: time each worker has spent in a state that is not COLD

pvars == <<now, workers, doing, on, due, warmTime>>

Workers == 1 .. Capacity

-----------------------------------------------------------------------------
(* The methods of a worker: what they read, and what they make of it          *)

ColdWorker ==
  [state |-> "cold", leased |-> FALSE,
   warmSince |-> NoTime, warmClosed |-> 0,   \* _warm_started_at, _warm_seconds_closed
   busySince |-> NoTime, busyClosed |-> 0]   \* _busy_started_at, _busy_seconds_closed

\* Mutant: the subtraction is the wrong way round.
Since_Swapped(t, closed) == IF t = NoTime THEN closed ELSE closed + (t - now)

Since(t, closed) == IF t = NoTime THEN closed ELSE closed + (now - t)

WarmSeconds(r) == Since(r.warmSince, r.warmClosed)
BusySeconds(r) == Since(r.busySince, r.busyClosed)

\* warm(), up to its await: billing begins at once; no-op on a worker that is not cold.
Warmed(r) ==
  IF r.state = "cold" THEN [r EXCEPT !.state = "warming", !.warmSince = now] ELSE r

\* warm(), after its await; the worker may have been cooled meanwhile.
WarmOver(r) == IF r.state = "warming" THEN [r EXCEPT !.state = "idle"] ELSE r

\* run() raises, and changes nothing, on a worker that is not idle.
CanRun(r) == r.state = "idle"

Started(r) == [r EXCEPT !.state = "busy", !.busySince = now]

\* Mutant: the interval is added up and not reset.
BusyOver_NotReset(r) == [r EXCEPT !.busyClosed = BusySeconds(r)]

\* _close_busy_interval
BusyOver(r) == [r EXCEPT !.busyClosed = BusySeconds(r), !.busySince = NoTime]

\* The finally of run(), whether the job returned or raised
Ran(r) == [BusyOver(r) EXCEPT !.state = IF r.warmSince # NoTime THEN "idle" ELSE "cold"]

\* cool(); on a cold worker every interval is closed already.
Cooled(r) ==
  [BusyOver(r) EXCEPT !.warmClosed = WarmSeconds(r), !.warmSince = NoTime, !.state = "cold"]

-----------------------------------------------------------------------------
(* The pool                                                                   *)

Free == {w \in Workers : ~workers[w].leased}

\* Mutant: acquire() does not look at the lease.
FirstOf_Any(S) == 1

\* acquire() takes the first of the free workers.
FirstOf(S) == CHOOSE w \in S : \A v \in S : w <= v

\* The sum of the values of f, as the number of the units that are added up
Total(f) == Cardinality(UNION {{x} \X (1 .. f[x]) : x \in DOMAIN f})

\* warm_count, and the sums of cost_report(), in units of cost_per_second
WarmCount        == Cardinality({w \in Workers : workers[w].state # "cold"})
TotalWarmSeconds == Total([w \in Workers |-> WarmSeconds(workers[w])])
TotalBusySeconds == Total([w \in Workers |-> BusySeconds(workers[w])])

-----------------------------------------------------------------------------
(* What a task does with the pool in one turn                                 *)

PoolInit ==
  /\ now = 0
  /\ workers = [w \in Workers |-> ColdWorker]
  /\ doing = [t \in Tasks |-> "out"]
  /\ on = [t \in Tasks |-> 1]
  /\ due = [t \in Tasks |-> 0]
  /\ warmTime = [w \in Workers |-> 0]

Mine(t) == workers[on[t]]

\* Task t makes r of its worker and then awaits d.
Becomes(t, r, d) ==
  /\ workers' = [workers EXCEPT ![on[t]] = r]
  /\ doing' = [doing EXCEPT ![t] = d]
  /\ on' = [on EXCEPT ![t] = IF d = "out" THEN 1 ELSE @]
  /\ due' = [due EXCEPT ![t] = 0]
  /\ UNCHANGED <<now, warmTime>>

\* Task t leases and warms the first worker of S, the pool being ws.
Lease(t, ws, S) ==
  LET w == FirstOf(S)
  IN  /\ workers' = [ws EXCEPT ![w] = Warmed([@ EXCEPT !.leased = TRUE])]
      /\ on' = [on EXCEPT ![t] = w]
      /\ IF ws[w].state = "cold"
         THEN /\ \E d \in ColdStarts : due' = [due EXCEPT ![t] = now + d]
              /\ doing' = [doing EXCEPT ![t] = "warming"]
         ELSE doing' = [doing EXCEPT ![t] = "ready"] /\ UNCHANGED due
      /\ UNCHANGED <<now, warmTime>>

\* acquire() and warm()
Enter(t) == doing[t] = "out" /\ Free # {} /\ Lease(t, workers, Free)

\* Mutant: the delay is not awaited.
WarmDone_AtOnce(t) == doing[t] = "warming"

WarmDone(t) == doing[t] = "warming" /\ now >= due[t]

\* The cold start is over and there is nothing to run.
WarmReturns(t) == WarmDone(t) /\ Becomes(t, WarmOver(Mine(t)), "ready")

\* The cold start is over and the task runs a job.
WarmRuns(t) ==
  LET r == WarmOver(Mine(t)) IN WarmDone(t) /\ CanRun(r) /\ Becomes(t, Started(r), "running")

Run(t) == doing[t] = "ready" /\ CanRun(Mine(t)) /\ Becomes(t, Started(Mine(t)), "running")

RunEnds(t) == doing[t] = "running" /\ Becomes(t, Ran(Mine(t)), "ready")

\* A job ends and the task runs the next one.
RunNext(t) ==
  LET r == Ran(Mine(t)) IN doing[t] = "running" /\ CanRun(r) /\ Becomes(t, Started(r), "running")

\* Whatever ends a task in run(), its finally comes before the one of the holder.
Unwound(r) == IF r.state = "busy" THEN Ran(r) ELSE r

\* Mutant: a task cancelled while its worker warms releases it without cooling it.
LetGo_WarmAfterCancel(r) ==
  [(IF r.state = "warming" THEN r ELSE Cooled(Unwound(r))) EXCEPT !.leased = FALSE]

\* Mutant: the worker is released as it is.
LetGo_NoCool(r) == [Unwound(r) EXCEPT !.leased = FALSE]

\* cool() and release(), in the finally of the holder
LetGo(r) == [Cooled(Unwound(r)) EXCEPT !.leased = FALSE]

(* The task has no more to run, or its job has failed, or it is cancelled     *)
(* while it warms, runs or waits.                                             *)
Leave(t) == doing[t] # "out" /\ Becomes(t, LetGo(Mine(t)), "out")

\* The pool once task t has let go of its worker
LetGoBy(t) == [workers EXCEPT ![on[t]] = LetGo(@)]

\* A job ends, the task releases its worker and leases one again.
Relet(t) == doing[t] = "running" /\ Lease(t, LetGoBy(t), Free \cup {on[t]})

Tick ==
  /\ now < MaxTime
  /\ now' = now + 1
  /\ warmTime' = [w \in Workers |->
                    IF workers[w].state = "cold" THEN warmTime[w] ELSE warmTime[w] + 1]
  /\ UNCHANGED <<workers, doing, on, due>>

LeaseNext ==
  \/ Tick
  \/ \E t \in Tasks : \/ Enter(t) \/ WarmReturns(t) \/ WarmRuns(t)
                      \/ Run(t) \/ RunEnds(t) \/ RunNext(t)
                      \/ Leave(t) \/ Relet(t)

LeaseSpec == PoolInit /\ [][LeaseNext]_pvars

-----------------------------------------------------------------------------
(* Properties                                                                 *)

\* Every variable has its type.
PoolTypeOK ==
  /\ now \in 0 .. MaxTime
  /\ workers \in [Workers -> [state : {"cold", "warming", "idle", "busy"}, leased : BOOLEAN,
                              warmSince : Nat \cup {NoTime}, warmClosed : Nat,
                              busySince : Nat \cup {NoTime}, busyClosed : Nat]]
  /\ doing \in [Tasks -> {"out", "warming", "ready", "running"}]
  /\ on \in [Tasks -> Workers]
  /\ due \in [Tasks -> Nat]
  /\ warmTime \in [Workers -> Nat]

(* The bill is the time a worker was warm, however the calls interleave:      *)
(* WARMING, IDLE and BUSY bill alike, COLD is free, and the busy time the     *)
(* utilization is computed from is part of it ("the rules that make the       *)
(* numbers trustworthy").                                                     *)
BillIsWarmTime ==
  \A w \in Workers : LET r == workers[w]
                     IN  /\ WarmSeconds(r) = warmTime[w]
                         /\ BusySeconds(r) <= WarmSeconds(r)
                         /\ (r.warmSince # NoTime) <=> (r.state # "cold")

(* No stranded slots and no phantom bill: a worker nobody leases is cold, and *)
(* a leased one has one holder (run_naive's "every lease cooled its worker,   *)
(* so the bill is closed").                                                   *)
LeaseClosesBill ==
  \A w \in Workers : LET holders == {t \in Tasks : doing[t] # "out" /\ on[t] = w}
                     IN  /\ workers[w].leased <=> Cardinality(holders) = 1
                         /\ ~workers[w].leased => holders = {} /\ workers[w].state = "cold"

(* A holder that is ready finds its worker idle, and only one job runs on a   *)
(* worker: neither WorkerBusyError nor WorkerNotReadyError, which no caller   *)
(* of this repository catches, can be raised.                                 *)
RunNeverRaises ==
  \A t \in Tasks : /\ doing[t] = "warming" => Mine(t).state = "warming"
                   /\ doing[t] = "ready"   => Mine(t).state = "idle"
                   /\ doing[t] = "running" => Mine(t).state = "busy"

(* "Warm a COLD worker, paying the cold-start delay before it becomes IDLE"   *)
(* (Worker.warm): a worker that stops warming without being cooled has a      *)
(* holder whose cold start, drawn for this warm-up, is over.                  *)
ColdStartPaid ==
  [][\A w \in Workers :
       workers[w].state = "warming" /\ workers'[w].state \in {"idle", "busy"}
         => \E t \in Tasks : doing[t] = "warming" /\ on[t] = w /\ now >= due[t]]_pvars

=============================================================================
