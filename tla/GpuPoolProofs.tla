---------------------------- MODULE GpuPoolProofs ----------------------------
(* Proofs about GpuPool for any set of tasks, any number of workers and any   *)
(* cold-start delays: who holds which worker, what a holder finds, and that   *)
(* the bill is the time workers were warm.                                    *)
EXTENDS GpuPool, FiniteSetTheorems, WellFoundedInduction, TLAPS

States       == {"cold", "warming", "idle", "busy"}
TaskStates   == {"out", "warming", "ready", "running"}
WorkerRecord == [state : States, leased : BOOLEAN,
                 warmSince : Nat \cup {NoTime}, warmClosed : Nat,
                 busySince : Nat \cup {NoTime}, busyClosed : Nat]

-----------------------------------------------------------------------------
(* The inductive invariant, for given values of the variables                 *)

\* Since, at time n
Elapsed(n, t, closed) == IF t = NoTime THEN closed ELSE closed + (n - t)

\* The open intervals of a worker agree with its state, begin in the past, and
\* add up to the time wt it was warm.
LedgerOK(n, r, wt) ==
  /\ r \in WorkerRecord
  /\ r.warmSince # NoTime <=> r.state # "cold"
  /\ r.busySince # NoTime <=> r.state = "busy"
  /\ r.warmSince # NoTime => r.warmSince <= n
  /\ r.busySince # NoTime => r.busySince <= n
  /\ wt = Elapsed(n, r.warmSince, r.warmClosed)
  /\ Elapsed(n, r.busySince, r.busyClosed) <= wt

\* The state in which a task finds the worker it holds
StateFor(d) == CASE d = "warming" -> "warming"
                 [] d = "ready"   -> "idle"
                 [] d = "running" -> "busy"

(* Workers ws and tasks that do d on workers o fit together: a leased worker  *)
(* has one holder, whose state it is in; a worker that is not leased is cold. *)
Consistent(n, wt, ws, d, o) ==
  /\ \A w \in Workers : /\ LedgerOK(n, ws[w], wt[w])
                        /\ ws[w].leased => \E t \in Tasks : d[t] # "out" /\ o[t] = w
                        /\ ~ws[w].leased => ws[w].state = "cold"
  /\ \A t \in Tasks : d[t] # "out" =>
        /\ ws[o[t]].leased
        /\ ws[o[t]].state = StateFor(d[t])
        /\ \A u \in Tasks : d[u] # "out" /\ o[u] = o[t] => u = t

(* None of the four properties is inductive by itself: a worker is cold when  *)
(* it is let go because cool() closed the intervals its state says are open,  *)
(* a job may start because its holder's worker is in the holder's state, and  *)
(* nobody else puts it there because holders do not share workers.            *)
PInv == PoolTypeOK /\ Consistent(now, warmTime, workers, doing, on)

-----------------------------------------------------------------------------
(* The methods of a worker                                                    *)

\* warm() opens the bill of a cold worker.
LEMMA WarmedOK ==
  ASSUME now \in Nat, NEW r, NEW wt, LedgerOK(now, r, wt), r.state = "cold"
  PROVE  LET new == Warmed([r EXCEPT !.leased = TRUE])
         IN  LedgerOK(now, new, wt) /\ new.leased /\ new.state = "warming"
<1> DEFINE new == Warmed([r EXCEPT !.leased = TRUE])
<1>1. r \in WorkerRecord
  BY DEF LedgerOK
<1>2. /\ new \in WorkerRecord
      /\ new.state = "warming" /\ new.leased /\ new.warmSince = now
      /\ new.warmClosed = r.warmClosed
      /\ new.busySince = r.busySince /\ new.busyClosed = r.busyClosed
  BY <1>1, PoolAssumption DEF LedgerOK, WorkerRecord, States, Elapsed, Warmed
<1> HIDE DEF new
<1>3. LedgerOK(now, new, wt)
  BY <1>2, PoolAssumption DEF LedgerOK, Elapsed, WorkerRecord, States
<1> QED
  BY <1>2, <1>3 DEF new

\* The end of a cold start changes no interval.
LEMMA WarmOverOK ==
  ASSUME now \in Nat, NEW r, NEW wt, LedgerOK(now, r, wt), r.state = "warming"
  PROVE  LET new == WarmOver(r)
         IN  LedgerOK(now, new, wt) /\ new.leased = r.leased /\ new.state = "idle"
<1> DEFINE new == WarmOver(r)
<1>1. r \in WorkerRecord
  BY DEF LedgerOK
<1>2. /\ new \in WorkerRecord
      /\ new.state = "idle" /\ new.leased = r.leased
      /\ new.warmSince = r.warmSince /\ new.warmClosed = r.warmClosed
      /\ new.busySince = r.busySince /\ new.busyClosed = r.busyClosed
  BY <1>1, PoolAssumption DEF LedgerOK, WorkerRecord, States, Elapsed, WarmOver
<1> HIDE DEF new
<1>3. LedgerOK(now, new, wt)
  BY <1>2, PoolAssumption DEF LedgerOK, Elapsed, WorkerRecord, States
<1> QED
  BY <1>2, <1>3 DEF new

\* run() opens a busy interval.
LEMMA StartedOK ==
  ASSUME now \in Nat, NEW r, NEW wt, LedgerOK(now, r, wt), r.state = "idle"
  PROVE  LET new == Started(r)
         IN  LedgerOK(now, new, wt) /\ new.leased = r.leased /\ new.state = "busy"
<1> DEFINE new == Started(r)
<1>1. r \in WorkerRecord
  BY DEF LedgerOK
<1>2. /\ new \in WorkerRecord
      /\ new.state = "busy" /\ new.leased = r.leased
      /\ new.warmSince = r.warmSince /\ new.warmClosed = r.warmClosed
      /\ new.busySince = now /\ new.busyClosed = r.busyClosed
  BY <1>1, PoolAssumption DEF LedgerOK, WorkerRecord, States, Elapsed, Started
<1> HIDE DEF new
<1>3. LedgerOK(now, new, wt)
  BY <1>2, PoolAssumption DEF LedgerOK, Elapsed, WorkerRecord, States
<1> QED
  BY <1>2, <1>3 DEF new

\* _close_busy_interval
LEMMA BusyOverFields ==
  ASSUME now \in Nat, NEW r, NEW wt, LedgerOK(now, r, wt)
  PROVE  LET b == BusyOver(r)
         IN  /\ b \in WorkerRecord
             /\ b.state = r.state /\ b.leased = r.leased
             /\ b.warmSince = r.warmSince /\ b.warmClosed = r.warmClosed
             /\ b.busySince = NoTime
             /\ b.busyClosed = Elapsed(now, r.busySince, r.busyClosed)
<1>1. r \in WorkerRecord /\ (r.busySince # NoTime => r.busySince <= now)
  BY DEF LedgerOK
<1>2. BusySeconds(r) = Elapsed(now, r.busySince, r.busyClosed)
  BY DEF BusySeconds, Since, Elapsed
<1>3. BusySeconds(r) \in Nat
  BY <1>1, <1>2, PoolAssumption DEF Elapsed, WorkerRecord
<1> QED
  BY <1>1, <1>2, <1>3 DEF BusyOver, WorkerRecord

\* The finally of run() closes it.
LEMMA RanOK ==
  ASSUME now \in Nat, NEW r, NEW wt, LedgerOK(now, r, wt), r.state = "busy"
  PROVE  LET new == Ran(r)
         IN  LedgerOK(now, new, wt) /\ new.leased = r.leased /\ new.state = "idle"
<1> DEFINE new == Ran(r)
<1>1. r \in WorkerRecord
  BY DEF LedgerOK
<1>2. /\ new \in WorkerRecord
      /\ new.state = "idle" /\ new.leased = r.leased
      /\ new.warmSince = r.warmSince /\ new.warmClosed = r.warmClosed
      /\ new.busySince = NoTime
      /\ new.busyClosed = Elapsed(now, r.busySince, r.busyClosed)
  <2> DEFINE b == BusyOver(r)
  <2>1. /\ b \in WorkerRecord /\ b.leased = r.leased
        /\ b.warmSince = r.warmSince /\ b.warmClosed = r.warmClosed
        /\ b.busySince = NoTime
        /\ b.busyClosed = Elapsed(now, r.busySince, r.busyClosed)
    BY BusyOverFields
  <2>2. r.warmSince # NoTime
    BY DEF LedgerOK
  <2>3. new = [b EXCEPT !.state = "idle"]
    BY <2>2 DEF Ran
  <2> HIDE DEF b, new
  <2> QED  BY <2>1, <2>3 DEF WorkerRecord, States
<1> HIDE DEF new
<1>3. LedgerOK(now, new, wt)
  BY <1>2, PoolAssumption DEF LedgerOK, Elapsed, WorkerRecord, States
<1> QED
  BY <1>2, <1>3 DEF new

\* cool() closes both intervals, whatever the state.
LEMMA CooledOK ==
  ASSUME now \in Nat, NEW r, NEW wt, LedgerOK(now, r, wt)
  PROVE  LET new == [Cooled(r) EXCEPT !.leased = FALSE]
         IN  LedgerOK(now, new, wt) /\ ~new.leased /\ new.state = "cold"
<1> DEFINE new == [Cooled(r) EXCEPT !.leased = FALSE]
<1>1. r \in WorkerRecord
  BY DEF LedgerOK
<1>2. /\ new \in WorkerRecord
      /\ new.state = "cold" /\ ~new.leased
      /\ new.warmSince = NoTime
      /\ new.warmClosed = Elapsed(now, r.warmSince, r.warmClosed)
      /\ new.busySince = NoTime
      /\ new.busyClosed = Elapsed(now, r.busySince, r.busyClosed)
  <2> DEFINE b == BusyOver(r)
             e == Elapsed(now, r.warmSince, r.warmClosed)
  <2>1. /\ b \in WorkerRecord /\ b.busySince = NoTime
        /\ b.busyClosed = Elapsed(now, r.busySince, r.busyClosed)
    BY BusyOverFields
  <2>2. e \in Nat
    BY <1>1, PoolAssumption DEF LedgerOK, Elapsed, WorkerRecord
  <2>3. new = [[b EXCEPT !.warmClosed = e, !.warmSince = NoTime, !.state = "cold"]
                 EXCEPT !.leased = FALSE]
    BY DEF Cooled, WarmSeconds, Since, Elapsed
  <2> HIDE DEF b, e, new
  <2>4. /\ new \in WorkerRecord /\ new.state = "cold" /\ ~new.leased
        /\ new.warmSince = NoTime /\ new.warmClosed = e
        /\ new.busySince = b.busySince /\ new.busyClosed = b.busyClosed
    BY <2>1, <2>2, <2>3 DEF WorkerRecord, States
  <2> QED  BY <2>1, <2>4 DEF e
<1> HIDE DEF new
<1>3. LedgerOK(now, new, wt)
  BY <1>2, PoolAssumption DEF LedgerOK, Elapsed, WorkerRecord, States
<1> QED
  BY <1>2, <1>3 DEF new

\* The holder's finally cools a worker that run() has already left.
LEMMA LetGoOK ==
  ASSUME now \in Nat, NEW r, NEW wt, LedgerOK(now, r, wt)
  PROVE  LET new == LetGo(r)
         IN  LedgerOK(now, new, wt) /\ ~new.leased /\ new.state = "cold"
<1>1. LedgerOK(now, Unwound(r), wt)
  BY RanOK DEF Unwound
<1> QED
  BY <1>1, CooledOK DEF LetGo

\* It is cold whatever it was.
LEMMA LetGoCold ==
  ASSUME NEW r \in WorkerRecord
  PROVE  LetGo(r).state = "cold"
<1> DEFINE u == Unwound(r)
           b == BusyOver(u)
<1>1. "state" \in DOMAIN b
  BY DEF Unwound, Ran, BusyOver, WorkerRecord
<1>2. LetGo(r) = [[b EXCEPT !.warmClosed = WarmSeconds(u), !.warmSince = NoTime, !.state = "cold"]
                    EXCEPT !.leased = FALSE]
  BY DEF LetGo, Cooled
<1> HIDE DEF u, b
<1> QED
  BY <1>1, <1>2

\* A worker that is not cold is billed for the tick.
LEMMA TickOK ==
  ASSUME NEW n \in Nat, NEW r, NEW wt \in Nat, LedgerOK(n, r, wt)
  PROVE  LedgerOK(n + 1, r, IF r.state = "cold" THEN wt ELSE wt + 1)
  BY PoolAssumption DEF LedgerOK, Elapsed, WorkerRecord, States

\* acquire() finds a first worker.
LEMMA FirstOfIsFirst ==
  ASSUME NEW S \in SUBSET Workers, S # {}
  PROVE  FirstOf(S) \in S
<1>1. S \subseteq Nat
  BY DEF Workers
<1>2. PICK x \in S : \A y \in S : ~ (<<y, x>> \in OpToRel(<, Nat))
  BY <1>1, NatLessThanWellFounded, WFMin
<1>3. \A y \in S : ~ (y < x)
  BY <1>1, <1>2 DEF OpToRel
<1>4. \A y \in S : x <= y
  BY <1>1, <1>3
<1> QED
  BY <1>4 DEF FirstOf

-----------------------------------------------------------------------------
(* What a task does to the fit                                                *)

\* A task makes r of its worker, keeps it, and awaits what fits r.
LEMMA KeepsWorker ==
  ASSUME NEW n, NEW wt, NEW ws \in [Workers -> WorkerRecord], NEW d \in [Tasks -> TaskStates],
         NEW o \in [Tasks -> Workers], Consistent(n, wt, ws, d, o),
         NEW t \in Tasks, d[t] # "out", NEW r, LedgerOK(n, r, wt[o[t]]), r.leased,
         NEW x \in TaskStates \ {"out"}, r.state = StateFor(x)
  PROVE  Consistent(n, wt, [ws EXCEPT ![o[t]] = r], [d EXCEPT ![t] = x], o)
  BY DEF Consistent

\* A task lets its worker go, cooled; where it is then does not matter.
LEMMA LetsWorkerGo ==
  ASSUME NEW n, NEW wt, NEW ws \in [Workers -> WorkerRecord], NEW d \in [Tasks -> TaskStates],
         NEW o \in [Tasks -> Workers], Consistent(n, wt, ws, d, o),
         NEW t \in Tasks, d[t] # "out", NEW r, LedgerOK(n, r, wt[o[t]]), ~r.leased,
         r.state = "cold", NEW w \in Workers
  PROVE  Consistent(n, wt, [ws EXCEPT ![o[t]] = r], [d EXCEPT ![t] = "out"],
                    [o EXCEPT ![t] = w])
  BY DEF Consistent

\* A task that is out takes a worker nobody leases.
LEMMA TakesWorker ==
  ASSUME NEW n, NEW wt, NEW ws \in [Workers -> WorkerRecord], NEW d \in [Tasks -> TaskStates],
         NEW o \in [Tasks -> Workers], Consistent(n, wt, ws, d, o),
         NEW t \in Tasks, d[t] = "out", NEW w \in Workers, ~ws[w].leased,
         NEW r, LedgerOK(n, r, wt[w]), r.leased, r.state = "warming"
  PROVE  Consistent(n, wt, [ws EXCEPT ![w] = r], [d EXCEPT ![t] = "warming"],
                    [o EXCEPT ![t] = w])
  BY DEF Consistent, StateFor, TaskStates

-----------------------------------------------------------------------------
(* Each action preserves the invariant                                        *)

\* The types, by their short names
LEMMA PoolTypes ==
  PoolTypeOK <=> /\ now \in 0 .. MaxTime
                 /\ workers \in [Workers -> WorkerRecord]
                 /\ doing \in [Tasks -> TaskStates]
                 /\ on \in [Tasks -> Workers]
                 /\ due \in [Tasks -> Nat]
                 /\ warmTime \in [Workers -> Nat]
  BY DEF PoolTypeOK, WorkerRecord, States, TaskStates

\* What a task that is in finds
LEMMA HolderFinds ==
  ASSUME PInv, NEW t \in Tasks, doing[t] # "out"
  PROVE  /\ on[t] \in Workers /\ now \in Nat /\ 1 \in Workers
         /\ Mine(t) \in WorkerRecord /\ LedgerOK(now, Mine(t), warmTime[on[t]])
         /\ Mine(t).leased /\ Mine(t).state = StateFor(doing[t])
<1>1. on[t] \in Workers /\ now \in Nat /\ 1 \in Workers
  BY PoolTypes, PoolAssumption DEF PInv, Workers
<1> QED
  BY <1>1 DEF PInv, Consistent, Mine, LedgerOK

\* A task goes on with its worker.
LEMMA StaysStep ==
  ASSUME PInv, NEW t \in Tasks, doing[t] # "out", NEW r,
         LedgerOK(now, r, warmTime[on[t]]), r.leased,
         NEW x \in TaskStates \ {"out"}, r.state = StateFor(x), Becomes(t, r, x)
  PROVE  PInv'
<1>1. /\ workers' = [workers EXCEPT ![on[t]] = r] /\ doing' = [doing EXCEPT ![t] = x]
      /\ on' = on /\ due' = [due EXCEPT ![t] = 0] /\ UNCHANGED <<now, warmTime>>
  BY PoolTypes DEF Becomes, PInv
<1>2. Consistent(now, warmTime, workers', doing', on)
  BY <1>1, PoolTypes, KeepsWorker DEF PInv
<1>3. r \in WorkerRecord
  BY DEF LedgerOK
<1>4. PoolTypeOK'
  BY <1>1, <1>3, PoolTypes DEF PInv, PoolTypeOK, WorkerRecord, States, TaskStates
<1>5. Consistent(now, warmTime, workers, doing, on)'
  BY <1>1, <1>2
<1> QED
  BY <1>4, <1>5 DEF PInv

LEMMA WarmStep ==
  ASSUME PInv, NEW t \in Tasks, WarmReturns(t) \/ WarmRuns(t)
  PROVE  PInv'
<1>1. doing[t] = "warming" /\ doing[t] # "out"
  BY DEF WarmReturns, WarmRuns, WarmDone
<1> DEFINE r == WarmOver(Mine(t))
<1>2. now \in Nat /\ LedgerOK(now, Mine(t), warmTime[on[t]]) /\ Mine(t).leased
      /\ Mine(t).state = "warming"
  BY <1>1, HolderFinds DEF StateFor
<1>3. LedgerOK(now, r, warmTime[on[t]]) /\ r.leased /\ r.state = "idle"
  BY <1>2, WarmOverOK
<1>4. LedgerOK(now, Started(r), warmTime[on[t]]) /\ Started(r).leased /\ Started(r).state = "busy"
  BY <1>2, <1>3, StartedOK
<1>5. CASE WarmReturns(t)
  <2>1. Becomes(t, r, "ready")
    BY <1>5 DEF WarmReturns
  <2> HIDE DEF r
  <2> QED  BY <1>1, <1>3, <2>1, StaysStep DEF TaskStates, StateFor
<1>6. CASE WarmRuns(t)
  <2>1. Becomes(t, Started(r), "running")
    BY <1>6 DEF WarmRuns
  <2> HIDE DEF r
  <2> QED  BY <1>1, <1>4, <2>1, StaysStep DEF TaskStates, StateFor
<1> QED
  BY <1>5, <1>6

LEMMA RunStep ==
  ASSUME PInv, NEW t \in Tasks, Run(t) \/ RunEnds(t) \/ RunNext(t)
  PROVE  PInv'
<1>1. CASE Run(t)
  <2>1. doing[t] = "ready" /\ doing[t] # "out" /\ Becomes(t, Started(Mine(t)), "running")
    BY <1>1 DEF Run
  <2>2. now \in Nat /\ LedgerOK(now, Mine(t), warmTime[on[t]]) /\ Mine(t).leased
        /\ Mine(t).state = "idle"
    BY <2>1, HolderFinds DEF StateFor
  <2> DEFINE r == Started(Mine(t))
  <2>3. LedgerOK(now, r, warmTime[on[t]]) /\ r.leased /\ r.state = "busy"
    BY <2>2, StartedOK
  <2> HIDE DEF r
  <2> QED  BY <2>1, <2>3, StaysStep DEF TaskStates, StateFor, r
<1>2. CASE RunEnds(t) \/ RunNext(t)
  <2> DEFINE r == Ran(Mine(t))
  <2>1. doing[t] = "running" /\ doing[t] # "out"
    BY <1>2 DEF RunEnds, RunNext
  <2>2. now \in Nat /\ LedgerOK(now, Mine(t), warmTime[on[t]]) /\ Mine(t).leased
        /\ Mine(t).state = "busy"
    BY <2>1, HolderFinds DEF StateFor
  <2>3. LedgerOK(now, r, warmTime[on[t]]) /\ r.leased /\ r.state = "idle"
    BY <2>2, RanOK
  <2>4. LedgerOK(now, Started(r), warmTime[on[t]]) /\ Started(r).leased /\ Started(r).state = "busy"
    BY <2>2, <2>3, StartedOK
  <2>5. Becomes(t, r, "ready") \/ Becomes(t, Started(r), "running")
    BY <1>2 DEF RunEnds, RunNext
  <2> HIDE DEF r
  <2> QED  BY <2>1, <2>3, <2>4, <2>5, StaysStep DEF TaskStates, StateFor
<1> QED
  BY <1>1, <1>2

LEMMA LeaveStep ==
  ASSUME PInv, NEW t \in Tasks, Leave(t)
  PROVE  PInv'
<1> DEFINE r == LetGo(Mine(t))
<1>1. doing[t] # "out" /\ Becomes(t, r, "out")
  BY DEF Leave
<1>2. now \in Nat /\ 1 \in Workers /\ LedgerOK(now, Mine(t), warmTime[on[t]])
  BY <1>1, HolderFinds
<1>3. LedgerOK(now, r, warmTime[on[t]]) /\ ~r.leased /\ r.state = "cold" /\ r \in WorkerRecord
  BY <1>2, LetGoOK DEF LedgerOK
<1> HIDE DEF r
<1>4. /\ workers' = [workers EXCEPT ![on[t]] = r] /\ doing' = [doing EXCEPT ![t] = "out"]
      /\ on' = [on EXCEPT ![t] = 1] /\ due' = [due EXCEPT ![t] = 0]
      /\ UNCHANGED <<now, warmTime>>
  BY <1>1 DEF Becomes
<1>5. Consistent(now, warmTime, workers', doing', on')
  BY <1>1, <1>2, <1>3, <1>4, PoolTypes, LetsWorkerGo DEF PInv
<1>6. PoolTypeOK'
  BY <1>2, <1>3, <1>4, PoolTypes DEF PInv, PoolTypeOK, WorkerRecord, States, TaskStates
<1>7. Consistent(now, warmTime, workers, doing, on)'
  BY <1>4, <1>5
<1> QED
  BY <1>6, <1>7 DEF PInv

\* Task t, out in d, leases the first of the free workers of ws.
LEMMA LeaseStep ==
  ASSUME PoolTypeOK, NEW ws \in [Workers -> WorkerRecord], NEW d \in [Tasks -> TaskStates],
         NEW o \in [Tasks -> Workers], Consistent(now, warmTime, ws, d, o),
         NEW t \in Tasks, d[t] = "out", NEW S, S = {w \in Workers : ~ws[w].leased}, S # {},
         Lease(t, ws, S), doing' = [d EXCEPT ![t] = doing'[t]],
         on' = [o EXCEPT ![t] = on'[t]]
  PROVE  PInv'
<1> DEFINE w == FirstOf(S)
           r == Warmed([ws[w] EXCEPT !.leased = TRUE])
<1>1. w \in Workers /\ ~ws[w].leased /\ now \in Nat
  <2>1. S \in SUBSET Workers
    OBVIOUS
  <2>2. w \in S
    BY <2>1, FirstOfIsFirst
  <2>3. now \in Nat
    BY PoolTypes, PoolAssumption
  <2> HIDE DEF w
  <2> QED  BY <2>2, <2>3
<1>2. LedgerOK(now, ws[w], warmTime[w]) /\ ws[w].state = "cold"
  BY <1>1 DEF Consistent
<1>3. LedgerOK(now, r, warmTime[w]) /\ r.leased /\ r.state = "warming" /\ r \in WorkerRecord
  BY ZenonT(30), <1>1, <1>2, WarmedOK DEF LedgerOK
<1>4. /\ workers' = [ws EXCEPT ![w] = r] /\ on' = [on EXCEPT ![t] = w]
      /\ \E c \in ColdStarts : due' = [due EXCEPT ![t] = now + c]
      /\ doing' = [doing EXCEPT ![t] = "warming"]
      /\ UNCHANGED <<now, warmTime>>
  BY <1>2 DEF Lease
<1> HIDE DEF w, r
<1>5. on' = [o EXCEPT ![t] = w] /\ doing' = [d EXCEPT ![t] = "warming"]
  BY <1>4, PoolTypes
<1>6. Consistent(now, warmTime, workers', doing', on')
  <2>1. Consistent(now, warmTime, [ws EXCEPT ![w] = r], [d EXCEPT ![t] = "warming"],
                   [o EXCEPT ![t] = w])
    BY <1>1, <1>3, TakesWorker
  <2> QED  BY <1>4, <1>5, <2>1
<1>7. PoolTypeOK'
  <2>1. due' \in [Tasks -> Nat]
    BY <1>1, <1>4, PoolTypes, PoolAssumption
  <2>2. workers' \in [Workers -> WorkerRecord] /\ doing' \in [Tasks -> TaskStates]
        /\ on' \in [Tasks -> Workers]
    <3>1. [ws EXCEPT ![w] = r] \in [Workers -> WorkerRecord]
      BY <1>3
    <3>2. [d EXCEPT ![t] = "warming"] \in [Tasks -> TaskStates]
      BY DEF TaskStates
    <3>3. [o EXCEPT ![t] = w] \in [Tasks -> Workers]
      BY <1>1
    <3> QED  BY <1>4, <1>5, <3>1, <3>2, <3>3
  <2> QED
    BY <1>4, <2>1, <2>2, PoolTypes DEF PoolTypeOK, WorkerRecord, States, TaskStates
<1>8. Consistent(now, warmTime, workers, doing, on)'
  BY <1>4, <1>6
<1> QED
  BY <1>7, <1>8 DEF PInv

LEMMA EnterStep ==
  ASSUME PInv, NEW t \in Tasks, Enter(t)
  PROVE  PInv'
<1>1. doing[t] = "out" /\ Free # {} /\ Lease(t, workers, Free)
  BY DEF Enter
<1>2. doing' = [doing EXCEPT ![t] = doing'[t]] /\ on' = [on EXCEPT ![t] = on'[t]]
  BY <1>1, PoolTypes DEF Lease, PInv
<1>3. Free = {w \in Workers : ~workers[w].leased}
  BY DEF Free
<1> QED
  BY <1>1, <1>2, <1>3, PoolTypes, LeaseStep DEF PInv

\* Letting go and leasing again is the one step after the other.
LEMMA ReletStep ==
  ASSUME PInv, NEW t \in Tasks, Relet(t)
  PROVE  PInv'
<1> DEFINE r  == LetGo(Mine(t))
           ws == [workers EXCEPT ![on[t]] = r]
           d  == [doing EXCEPT ![t] = "out"]
           S  == Free \cup {on[t]}
<1>1. doing[t] = "running" /\ doing[t] # "out" /\ Lease(t, ws, S)
  BY DEF Relet, LetGoBy, Mine
<1>2. now \in Nat /\ on[t] \in Workers /\ LedgerOK(now, Mine(t), warmTime[on[t]])
  BY <1>1, HolderFinds
<1>3. LedgerOK(now, r, warmTime[on[t]]) /\ ~r.leased /\ r.state = "cold" /\ r \in WorkerRecord
  BY <1>2, LetGoOK DEF LedgerOK
<1>4. S = {w \in Workers : ~ws[w].leased} /\ S # {}
  BY <1>2, <1>3, PoolTypes DEF Free, PInv
<1> HIDE DEF r
<1>5. ws \in [Workers -> WorkerRecord] /\ d \in [Tasks -> TaskStates] /\ d[t] = "out"
  BY <1>2, <1>3, PoolTypes DEF PInv, TaskStates
<1>6. Consistent(now, warmTime, ws, d, on)
  <2>1. [on EXCEPT ![t] = on[t]] = on
    BY PoolTypes DEF PInv
  <2>2. Consistent(now, warmTime, ws, d, [on EXCEPT ![t] = on[t]])
    BY <1>1, <1>2, <1>3, PoolTypes, LetsWorkerGo DEF PInv
  <2> QED  BY <2>1, <2>2
<1>7. doing' = [d EXCEPT ![t] = doing'[t]] /\ on' = [on EXCEPT ![t] = on'[t]]
  BY <1>1, PoolTypes DEF Lease, PInv
<1> HIDE DEF ws, d, S
<1> QED
  BY <1>1, <1>4, <1>5, <1>6, <1>7, PoolTypes, LeaseStep DEF PInv

LEMMA TickStep ==
  ASSUME PInv, Tick
  PROVE  PInv'
<1>1. /\ now < MaxTime /\ now' = now + 1 /\ UNCHANGED <<workers, doing, on, due>>
      /\ warmTime' = [w \in Workers |->
                        IF workers[w].state = "cold" THEN warmTime[w] ELSE warmTime[w] + 1]
  BY DEF Tick
<1>2. now \in Nat /\ now' \in 0 .. MaxTime /\ warmTime' \in [Workers -> Nat]
  BY <1>1, PoolTypes, PoolAssumption DEF PInv
<1>3. \A w \in Workers : LedgerOK(now', workers[w], warmTime'[w])
  <2> SUFFICES ASSUME NEW w \in Workers PROVE LedgerOK(now', workers[w], warmTime'[w])
    OBVIOUS
  <2>1. LedgerOK(now, workers[w], warmTime[w]) /\ warmTime[w] \in Nat
    BY PoolTypes DEF PInv, Consistent
  <2>2. LedgerOK(now + 1, workers[w],
                 IF workers[w].state = "cold" THEN warmTime[w] ELSE warmTime[w] + 1)
    BY <1>2, <2>1, TickOK
  <2> QED  BY <1>1, <2>2
<1>4. Consistent(now', warmTime', workers, doing, on)
  BY <1>3 DEF PInv, Consistent
<1>5. PoolTypeOK'
  BY <1>1, <1>2, PoolTypes DEF PInv, PoolTypeOK, WorkerRecord, States, TaskStates
<1>6. Consistent(now, warmTime, workers, doing, on)'
  BY <1>1, <1>4
<1> QED
  BY <1>5, <1>6 DEF PInv

LEMMA InitPInv == PoolInit => PInv
<1> SUFFICES ASSUME PoolInit PROVE PInv
  OBVIOUS
<1>1. ColdWorker \in WorkerRecord /\ LedgerOK(0, ColdWorker, 0)
  BY DEF ColdWorker, WorkerRecord, States, LedgerOK, Elapsed
<1>2. 1 \in Workers /\ 0 \in 0 .. MaxTime
  BY PoolAssumption DEF Workers
<1>3. PoolTypeOK
  BY <1>1, <1>2, PoolTypes DEF PoolInit, TaskStates
<1>4. Consistent(now, warmTime, workers, doing, on)
  BY <1>1 DEF PoolInit, Consistent, ColdWorker
<1> QED
  BY <1>3, <1>4 DEF PInv

\* Every step of the tasks and of the clock preserves the invariant.
LEMMA NextPInv == PInv /\ [LeaseNext]_pvars => PInv'
<1> SUFFICES ASSUME PInv, [LeaseNext]_pvars PROVE PInv'
  OBVIOUS
<1>1. CASE UNCHANGED pvars
  <2>1. UNCHANGED <<now, workers, doing, on, due, warmTime>>
    BY <1>1 DEF pvars
  <2>2. PoolTypeOK'
    BY <2>1 DEF PInv, PoolTypeOK
  <2>3. Consistent(now, warmTime, workers, doing, on)'
    BY <2>1 DEF PInv
  <2> QED  BY <2>2, <2>3 DEF PInv
<1>2. CASE Tick
  BY <1>2, TickStep
<1>3. ASSUME NEW t \in Tasks, \/ Enter(t) \/ WarmReturns(t) \/ WarmRuns(t)
                              \/ Run(t) \/ RunEnds(t) \/ RunNext(t)
                              \/ Leave(t) \/ Relet(t)
      PROVE  PInv'
  BY <1>3, EnterStep, WarmStep, RunStep, LeaveStep, ReletStep
<1> QED
  BY <1>1, <1>2, <1>3 DEF LeaseNext

-----------------------------------------------------------------------------
(* What the invariant says                                                    *)

LEMMA PInvBill == PInv => BillIsWarmTime
<1> SUFFICES ASSUME PInv, NEW w \in Workers
             PROVE  /\ WarmSeconds(workers[w]) = warmTime[w]
                    /\ BusySeconds(workers[w]) <= WarmSeconds(workers[w])
                    /\ (workers[w].warmSince # NoTime) <=> (workers[w].state # "cold")
  BY DEF BillIsWarmTime
<1>1. LedgerOK(now, workers[w], warmTime[w])
  BY DEF PInv, Consistent
<1> QED
  BY <1>1 DEF LedgerOK, Elapsed, WarmSeconds, BusySeconds, Since

LEMMA PInvLease == PInv => LeaseClosesBill
<1> SUFFICES ASSUME PInv, NEW w \in Workers
             PROVE  LET holders == {t \in Tasks : doing[t] # "out" /\ on[t] = w}
                    IN  /\ workers[w].leased <=> Cardinality(holders) = 1
                        /\ ~workers[w].leased => holders = {} /\ workers[w].state = "cold"
  BY DEF LeaseClosesBill
<1> DEFINE holders == {t \in Tasks : doing[t] # "out" /\ on[t] = w}
<1>1. CASE workers[w].leased
  <2>1. PICK t \in Tasks : doing[t] # "out" /\ on[t] = w
    BY <1>1 DEF PInv, Consistent
  <2>2. holders = {t}
    BY <2>1 DEF PInv, Consistent
  <2>3. Cardinality(holders) = 1
    BY <2>2, FS_Singleton
  <2> QED  BY <1>1, <2>3
<1>2. CASE ~workers[w].leased
  <2>1. holders = {} /\ workers[w].state = "cold"
    BY <1>2 DEF PInv, Consistent
  <2>2. Cardinality(holders) = 0
    BY <2>1, FS_EmptySet
  <2> QED  BY <1>2, <2>1, <2>2
<1> QED
  BY <1>1, <1>2

LEMMA PInvRun == PInv => RunNeverRaises
  BY DEF PInv, Consistent, RunNeverRaises, Mine, StateFor

\* A worker stops warming only at the hands of the task that warms it.
LEMMA PInvColdStart ==
  ASSUME PInv, [LeaseNext]_pvars, NEW w \in Workers, workers[w].state = "warming",
         workers'[w].state \in {"idle", "busy"}
  PROVE  \E t \in Tasks : doing[t] = "warming" /\ on[t] = w /\ now >= due[t]
<1> USE PoolTypes
<1>1. ~ Tick /\ ~ UNCHANGED pvars
  BY DEF Tick, pvars
<1>2. PICK t \in Tasks : \/ Enter(t) \/ WarmReturns(t) \/ WarmRuns(t)
                         \/ Run(t) \/ RunEnds(t) \/ RunNext(t)
                         \/ Leave(t) \/ Relet(t)
  BY <1>1 DEF LeaseNext
<1>3. CASE Enter(t) \/ Relet(t)
  <2>1. PICK ws \in {workers, LetGoBy(t)}, S \in {Free, Free \cup {on[t]}} : Lease(t, ws, S)
    BY <1>3 DEF Enter, Relet
  <2> DEFINE x == FirstOf(S)
             r == [ws[x] EXCEPT !.leased = TRUE]
  <2>2. workers' = [ws EXCEPT ![x] = Warmed(r)]
    BY <2>1 DEF Lease
  <2>3. \A v \in Workers : ws[v] = workers[v] \/ ws[v] = LetGo(workers[v])
    BY DEF LetGoBy, PInv
  <2>4. LetGo(workers[w]).state = "cold"
    BY LetGoCold DEF PInv
  <2>5. ws[w].state \in {"warming", "cold"}
    BY <2>3, <2>4
  <2>6. w = x => workers'[w].state = "warming"
    BY <2>2, <2>5 DEF Warmed
  <2>7. w # x => workers'[w].state = ws[w].state
    BY <2>2
  <2> QED  BY <2>5, <2>6, <2>7
<1>4. CASE Run(t) \/ RunEnds(t) \/ RunNext(t) \/ Leave(t)
  <2>1. PICK r : workers' = [workers EXCEPT ![on[t]] = r]
    BY <1>4 DEF Run, RunEnds, RunNext, Leave, Becomes
  <2>2. on[t] = w
    BY <2>1
  <2>3. Mine(t).state = "warming" /\ doing[t] # "out"
    BY <1>4, <2>2 DEF Mine, Run, RunEnds, RunNext, Leave
  <2>4. doing[t] = "warming"
    BY <2>3, HolderFinds DEF StateFor, PInv, TaskStates
  <2>5. workers'[w].state = "cold"
    <3>1. Leave(t)
      BY <1>4, <2>4 DEF Run, RunEnds, RunNext
    <3>2. workers' = [workers EXCEPT ![w] = LetGo(workers[w])]
      BY <2>2, <3>1 DEF Leave, Becomes, Mine
    <3>3. LetGo(workers[w]).state = "cold"
      BY LetGoCold DEF PInv
    <3> QED  BY <3>2, <3>3 DEF PInv
  <2> QED  BY <2>5
<1>5. CASE WarmReturns(t) \/ WarmRuns(t)
  <2>1. doing[t] = "warming" /\ now >= due[t] /\ \E r : workers' = [workers EXCEPT ![on[t]] = r]
    BY <1>5 DEF WarmReturns, WarmRuns, WarmDone, Becomes
  <2>2. on[t] = w
    BY <2>1
  <2> QED  BY <2>1, <2>2
<1> QED
  BY <1>2, <1>3, <1>4, <1>5

-----------------------------------------------------------------------------
(* The sums of the pool, and the seconds a worker was warm and ran           *)

\* The sum of f counts the members of any sets that have the values of f as
\* their sizes.
LEMMA TotalOf ==
  ASSUME NEW S, NEW f, DOMAIN f = S, NEW T,
         \A x \in S : IsFiniteSet(T[x]) /\ Cardinality(T[x]) = f[x],
         IsFiniteSet(UNION {{x} \X T[x] : x \in S})
  PROVE  Total(f) = Cardinality(UNION {{x} \X T[x] : x \in S})
<1> DEFINE A == UNION {{x} \X (1 .. f[x]) : x \in S}
           B == UNION {{x} \X T[x] : x \in S}
           b == [x \in S |-> CHOOSE g : g \in Bijection(T[x], 1 .. f[x])]
           h == [p \in B |-> <<p[1], b[p[1]][p[2]]>>]
<1>1. ASSUME NEW x \in S PROVE b[x] \in Bijection(T[x], 1 .. f[x])
  <2>1. /\ f[x] \in Nat /\ IsFiniteSet(1 .. f[x])
        /\ Cardinality(1 .. f[x]) = Cardinality(T[x])
    BY FS_CardinalityType, FS_Interval
  <2>2. \E g : g \in Bijection(T[x], 1 .. f[x])
    BY <2>1, FS_SameCardinalityBij DEF ExistsBijection
  <2> QED
    BY <2>2
<1> HIDE DEF b
<1>2. ASSUME NEW x \in S
      PROVE  /\ \A y \in T[x] : b[x][y] \in 1 .. f[x]
             /\ \A y, z \in T[x] : b[x][y] = b[x][z] => y = z
             /\ \A n \in 1 .. f[x] : \E y \in T[x] : b[x][y] = n
  BY <1>1 DEF Bijection, Injection, Surjection, IsInjective
<1>3. \A p : p \in B <=> \E x \in S : \E y \in T[x] : p = <<x, y>>
  OBVIOUS
<1>4. \A p : p \in A <=> \E x \in S : \E n \in 1 .. f[x] : p = <<x, n>>
  OBVIOUS
<1> HIDE DEF A, B
<1>5. h \in [B -> A]
  BY <1>2, <1>3, <1>4
<1>6. ASSUME NEW p \in B, NEW q \in B, h[p] = h[q] PROVE p = q
  BY <1>2, <1>3, <1>6
<1>7. ASSUME NEW a \in A PROVE \E p \in B : h[p] = a
  <2>0. PICK x \in S : \E n \in 1 .. f[x] : a = <<x, n>>
    BY <1>4
  <2>1. PICK n \in 1 .. f[x] : a = <<x, n>>
    BY <2>0
  <2>2. PICK y \in T[x] : b[x][y] = n
    BY <1>2
  <2>3. <<x, y>> \in B
    BY <1>3
  <2> QED
    BY <2>1, <2>2, <2>3
<1>8. h \in Bijection(B, A)
  BY <1>5, <1>6, <1>7 DEF Bijection, Injection, Surjection, IsInjective
<1>9. Cardinality(A) = Cardinality(B)
  BY <1>8, FS_Bijection DEF ExistsBijection, B
<1> QED
  BY <1>9 DEF Total, A, B

\* BusySeconds, at time n
Busied(n, r) == Elapsed(n, r.busySince, r.busyClosed)

\* The seconds wh[w] in which a worker was warm and those rn[w] in which it ran,
\* each named by the time it begins at.
Books(n, wt, ws, wh, rn) ==
  \A w \in Workers :
    /\ wh[w] \subseteq 0 .. (n - 1) /\ Cardinality(wh[w]) = wt[w]
    /\ rn[w] \subseteq 0 .. (n - 1) /\ Cardinality(rn[w]) = Busied(n, ws[w])

\* No method of a worker changes its busy seconds: an interval opens empty, and
\* is closed at its length.
LEMMA MethodsKeepBusy ==
  ASSUME now \in Nat, NEW r, NEW wt, LedgerOK(now, r, wt)
  PROVE  /\ r.state = "cold" => Busied(now, Warmed([r EXCEPT !.leased = TRUE])) = Busied(now, r)
         /\ Busied(now, WarmOver(r)) = Busied(now, r)
         /\ r.state = "idle" => Busied(now, Started(r)) = Busied(now, r)
         /\ Busied(now, Ran(r)) = Busied(now, r)
         /\ Busied(now, LetGo(r)) = Busied(now, r)
<1>1. r \in WorkerRecord /\ (r.busySince # NoTime <=> r.state = "busy")
  BY DEF LedgerOK
<1>2. r.state = "cold" => Busied(now, Warmed([r EXCEPT !.leased = TRUE])) = Busied(now, r)
  BY <1>1 DEF Warmed, Busied, WorkerRecord
<1>3. Busied(now, WarmOver(r)) = Busied(now, r)
  BY <1>1 DEF WarmOver, Busied, WorkerRecord
<1>4. r.state = "idle" => Busied(now, Started(r)) = Busied(now, r)
  BY <1>1, PoolAssumption DEF Started, Busied, Elapsed, WorkerRecord
<1> DEFINE b == BusyOver(r)
<1>5. b \in WorkerRecord /\ b.busySince = NoTime /\ b.busyClosed = Busied(now, r)
  BY BusyOverFields DEF Busied
<1> HIDE DEF b
<1>6. \A s : Busied(now, [b EXCEPT !.state = s]) = Busied(now, r)
  BY <1>5 DEF Busied, Elapsed, WorkerRecord
<1>7. Busied(now, Ran(r)) = Busied(now, r)
  BY <1>6 DEF Ran, b
<1>8. Busied(now, LetGo(r)) = Busied(now, r)
  <2> DEFINE u == Unwound(r)
             c == BusyOver(u)
  <2>1. LedgerOK(now, u, wt) /\ Busied(now, u) = Busied(now, r)
    BY <1>7, RanOK DEF Unwound
  <2> HIDE DEF u
  <2>2. c \in WorkerRecord /\ c.busySince = NoTime /\ c.busyClosed = Busied(now, u)
    BY <2>1, BusyOverFields DEF Busied
  <2> HIDE DEF c
  <2>3. \A s : Busied(now, [[c EXCEPT !.warmClosed = s, !.warmSince = NoTime, !.state = "cold"]
                              EXCEPT !.leased = FALSE]) = c.busyClosed
    BY <2>2 DEF Busied, Elapsed, WorkerRecord
  <2> QED  BY <2>1, <2>2, <2>3 DEF LetGo, Cooled, u, c
<1> QED
  BY <1>2, <1>3, <1>4, <1>7, <1>8

\* Nor does a turn of a task, of any worker.
LEMMA TurnKeepsBusy ==
  ASSUME PInv, NEW t \in Tasks,
         \/ Enter(t) \/ WarmReturns(t) \/ WarmRuns(t)
         \/ Run(t) \/ RunEnds(t) \/ RunNext(t) \/ Leave(t)
  PROVE  /\ now' = now /\ warmTime' = warmTime
         /\ \A w \in Workers : Busied(now, workers'[w]) = Busied(now, workers[w])
<1>1. /\ now \in Nat /\ workers \in [Workers -> WorkerRecord]
      /\ \A w \in Workers : LedgerOK(now, workers[w], warmTime[w])
  BY PoolTypes, PoolAssumption DEF PInv, Consistent
<1>2. CASE Enter(t)
  <2> DEFINE w == FirstOf(Free)
  <2>1. Free \in SUBSET Workers /\ Free # {} /\ Lease(t, workers, Free)
    BY <1>2 DEF Free, Enter
  <2>2. w \in Workers /\ workers[w].state = "cold"
    <3>1. w \in Free
      BY <2>1, FirstOfIsFirst
    <3> HIDE DEF w
    <3> QED
      BY <3>1 DEF Free, PInv, Consistent
  <2>3. Busied(now, Warmed([workers[w] EXCEPT !.leased = TRUE])) = Busied(now, workers[w])
    BY <1>1, <2>2, MethodsKeepBusy
  <2>4. /\ workers' = [workers EXCEPT ![w] = Warmed([workers[w] EXCEPT !.leased = TRUE])]
        /\ now' = now /\ warmTime' = warmTime
    BY <2>1 DEF Lease
  <2> HIDE DEF w
  <2> QED
    BY <1>1, <2>3, <2>4
<1>3. CASE \/ WarmReturns(t) \/ WarmRuns(t)
           \/ Run(t) \/ RunEnds(t) \/ RunNext(t) \/ Leave(t)
  <2> DEFINE m == Mine(t)
  <2>1. doing[t] # "out"
    BY <1>3 DEF WarmReturns, WarmRuns, WarmDone, Run, RunEnds, RunNext, Leave
  <2>2. on[t] \in Workers /\ m = workers[on[t]] /\ LedgerOK(now, m, warmTime[on[t]])
        /\ m.state = StateFor(doing[t])
    BY <2>1, HolderFinds DEF Mine
  <2> HIDE DEF m
  <2>3. /\ Busied(now, WarmOver(m)) = Busied(now, m)
        /\ Busied(now, Ran(m)) = Busied(now, m) /\ Busied(now, LetGo(m)) = Busied(now, m)
    BY <1>1, <2>2, MethodsKeepBusy
  <2>4. PICK r : Busied(now, r) = Busied(now, m) /\ \E d : Becomes(t, r, d)
    <3>1. CASE WarmReturns(t) \/ RunEnds(t) \/ Leave(t)
      BY <2>3, <3>1 DEF WarmReturns, RunEnds, Leave, m
    <3>2. CASE Run(t)
      <4>1. m.state = "idle"
        BY <2>2, <3>2 DEF Run, StateFor
      <4>2. Busied(now, Started(m)) = Busied(now, m)
        BY <1>1, <2>2, <4>1, MethodsKeepBusy
      <4> QED
        BY <3>2, <4>2 DEF Run, m
    <3>3. CASE WarmRuns(t)
      <4>1. m.state = "warming"
        BY <2>2, <3>3 DEF WarmRuns, WarmDone, StateFor
      <4>2. LedgerOK(now, WarmOver(m), warmTime[on[t]]) /\ WarmOver(m).state = "idle"
        BY <1>1, <2>2, <4>1, WarmOverOK
      <4>3. Busied(now, Started(WarmOver(m))) = Busied(now, m)
        BY <1>1, <2>3, <4>2, MethodsKeepBusy
      <4> QED
        BY <3>3, <4>3 DEF WarmRuns, m
    <3>4. CASE RunNext(t)
      <4>1. m.state = "busy"
        BY <2>2, <3>4 DEF RunNext, StateFor
      <4>2. LedgerOK(now, Ran(m), warmTime[on[t]]) /\ Ran(m).state = "idle"
        BY <1>1, <2>2, <4>1, RanOK
      <4>3. Busied(now, Started(Ran(m))) = Busied(now, m)
        BY <1>1, <2>3, <4>2, MethodsKeepBusy
      <4> QED
        BY <3>4, <4>3 DEF RunNext, m
    <3> QED
      BY <1>3, <3>1, <3>2, <3>3, <3>4
  <2>5. /\ workers' = [workers EXCEPT ![on[t]] = r]
        /\ now' = now /\ warmTime' = warmTime
    BY <2>4 DEF Becomes
  <2> QED
    BY <1>1, <2>2, <2>4, <2>5
<1> QED
  BY <1>2, <1>3

\* The books stay right in a turn,
LEMMA BooksStay ==
  ASSUME PInv, NEW t \in Tasks,
         \/ Enter(t) \/ WarmReturns(t) \/ WarmRuns(t)
         \/ Run(t) \/ RunEnds(t) \/ RunNext(t) \/ Leave(t),
         NEW wh, NEW rn, Books(now, warmTime, workers, wh, rn)
  PROVE  Books(now', warmTime', workers', wh, rn)
  BY TurnKeepsBusy DEF Books

\* and when the clock ticks the second that begins now is added.
LEMMA BooksTick ==
  ASSUME PInv, Tick, NEW wh, NEW rn, Books(now, warmTime, workers, wh, rn)
  PROVE  Books(now', warmTime', workers',
               [w \in Workers |-> IF workers[w].state = "cold" THEN wh[w] ELSE wh[w] \cup {now}],
               [w \in Workers |-> IF workers[w].state = "busy" THEN rn[w] \cup {now} ELSE rn[w]])
<1>1. /\ now' = now + 1 /\ workers' = workers
      /\ warmTime' = [w \in Workers |->
                        IF workers[w].state = "cold" THEN warmTime[w] ELSE warmTime[w] + 1]
  BY DEF Tick
<1>2. now \in Nat
  BY PoolTypes, PoolAssumption DEF PInv
<1>3. ASSUME NEW S, S \subseteq 0 .. (now - 1)
      PROVE  /\ S \subseteq 0 .. (now' - 1)
             /\ S \cup {now} \subseteq 0 .. (now' - 1)
             /\ Cardinality(S \cup {now}) = Cardinality(S) + 1
  <2>0. IsFiniteSet(0 .. (now - 1))
    BY <1>2, FS_Interval
  <2>1. IsFiniteSet(S)
    BY <1>3, <2>0, FS_Subset
  <2>2. now \notin S
    BY <1>2, <1>3
  <2>3. Cardinality(S \cup {now}) = Cardinality(S) + 1
    BY <2>1, <2>2, FS_AddElement
  <2> QED
    BY <1>1, <1>2, <1>3, <2>3
<1>4. ASSUME NEW w \in Workers
      PROVE  Busied(now', workers[w]) = IF workers[w].state = "busy"
                                        THEN Busied(now, workers[w]) + 1
                                        ELSE Busied(now, workers[w])
  <2>1. LedgerOK(now, workers[w], warmTime[w])
    BY DEF PInv, Consistent
  <2> QED
    BY <1>1, <1>2, <2>1, PoolAssumption DEF LedgerOK, Busied, Elapsed, WorkerRecord
<1> QED
  BY <1>1, <1>3, <1>4 DEF Books

-----------------------------------------------------------------------------
(* The theorems, for any tasks that use the pool as LeaseSpec says            *)

\* The invariant holds of every pool whose users keep to the lease protocol.
THEOREM PoolInvariance == LeaseSpec => []PInv
  BY InitPInv, NextPInv, PTL DEF LeaseSpec

(* The bill of every worker is the time it was not cold, and its busy time is *)
(* part of it, for any interleaving of leases, warm-ups, jobs, failures and   *)
(* cancellations.                                                             *)
THEOREM BillAlwaysWarmTime == LeaseSpec => []BillIsWarmTime
  BY PoolInvariance, PInvBill, PTL

(* A leased worker has exactly one holder; one that nobody leases is cold, so *)
(* its bill is closed.                                                        *)
THEOREM LeaseAlwaysClosesBill == LeaseSpec => []LeaseClosesBill
  BY PoolInvariance, PInvLease, PTL

(* Neither WorkerBusyError nor WorkerNotReadyError can be raised by tasks     *)
(* that lease, warm, run, cool and release as the runners and the baseline do.*)
THEOREM RunNeverEverRaises == LeaseSpec => []RunNeverRaises
  BY PoolInvariance, PInvRun, PTL

(* A worker becomes idle or busy only when its holder has awaited the whole   *)
(* cold start that was drawn for this warm-up.                                *)
THEOREM ColdStartAlwaysPaid == LeaseSpec => ColdStartPaid
<1>1. PInv /\ [LeaseNext]_pvars =>
        [\A w \in Workers :
           workers[w].state = "warming" /\ workers'[w].state \in {"idle", "busy"}
             => \E t \in Tasks : doing[t] = "warming" /\ on[t] = w /\ now >= due[t]]_pvars
  BY PInvColdStart
<1> QED
  BY <1>1, PoolInvariance, PTL DEF LeaseSpec, ColdStartPaid

===============================================================================
