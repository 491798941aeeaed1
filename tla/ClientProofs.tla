----------------------------- MODULE ClientProofs -----------------------------
(* What a client of the service may rely on, proved for any jobs, requests,   *)
(* registry of steps and scheduler parameters: the service keeps the contract *)
(* of JobContract - every step of it is one that a client may see happen, or  *)
(* nothing to it - and what its routes and tools tell is true, of any agent   *)
(* and any stream of events.                                                  *)
EXTENDS Clients, JobServiceRefinement, JobServiceProofs

-----------------------------------------------------------------------------
(* Cancelled items                                                            *)

(* An item is flagged only when its job was asked to stop, and what cancels   *)
(* the item a job awaits is such a flag or the stop of the scheduler.         *)
AskedFit ==
  /\ \A i \in cancelled : JobOf(i) \in cancelRequested
  /\ \A i \in Items : future[i] = "cancelled" /\ task[JobOf(i)] = "gpu"
                        => JobOf(i) \in cancelRequested \/ ~started

\* What _pop_live drops is dead already, or flagged.
LEMMA DeadAreFlagged ==
  ASSUME TypeOK, NEW f \in [Items -> FutureStates], NEW n \in 0 .. Len(queue),
         SetFutures(Settle(f, DeadItems(f, queue, n), "cancelled")),
         NEW i \in Items, future'[i] = "cancelled"
  PROVE  f[i] = "cancelled" \/ i \in cancelled
<1>1. CASE i \in DeadItems(f, queue, n) /\ f[i] = "pending"
  <2>1. PICK k \in (1 .. n) \ LivePos(f, queue) : i = queue[k]
    BY <1>1 DEF DeadItems
  <2>2. k \in 1 .. Len(queue)
    BY <2>1, ItemTypes
  <2>3. ~Live(f, i)
    BY <2>1, <2>2 DEF LivePos
  <2> QED
    BY <1>1, <2>3 DEF Live
<1>2. CASE ~(i \in DeadItems(f, queue, n) /\ f[i] = "pending")
  BY <1>2, DeadValue
<1> QED
  BY <1>1, <1>2

LEMMA TakingCancels ==
  ASSUME TypeOK, NEW f \in [Items -> FutureStates], NEW w \in Workers, TakeOrWait(w, f),
         NEW i \in Items, future'[i] = "cancelled"
  PROVE  f[i] = "cancelled" \/ i \in cancelled
<1>1. Len(queue) \in 0 .. Len(queue)
  BY ItemTypes
<1>2. CASE LivePos(f, queue) = {}
  BY <1>1, <1>2, DeadAreFlagged DEF TakeOrWait
<1>3. CASE LivePos(f, queue) # {}
  <2>1. PICK k \in LivePos(f, queue) :
          SetFutures(Settle(f, DeadItems(f, queue, k), "cancelled"))
    BY <1>3 DEF TakeOrWait
  <2>2. k \in 0 .. Len(queue)
    BY <2>1, ItemTypes DEF LivePos
  <2> QED
    BY <2>1, <2>2, DeadAreFlagged
<1> QED
  BY <1>2, <1>3

\* The steps of the scheduler that settle futures
LEMMA CancelsMove ==
  ASSUME SInv, [Next]_vars, NEW i \in Items, future'[i] = "cancelled"
  PROVE  future[i] = "cancelled" \/ i \in cancelled' \/ ~started'
<1> USE ItemTypes
<1>0. TypeOK /\ StopExclusive
  BY DEF SInv, IInv
<1>1. CASE UNCHANGED future
  BY <1>1
<1>2. ASSUME NEW x \in Items, MakeItem(x)
      PROVE  future[i] = "cancelled"
  BY <1>0, <1>2 DEF MakeItem
<1>3. ASSUME NEW x \in Items, CancelItem(x)
      PROVE  future[i] = "cancelled" \/ i \in cancelled'
  BY <1>3, SettleValue DEF CancelItem, SetFutures
<1>4. ASSUME NEW x \in Items, AbandonItem(x)
      PROVE  ~started'
  BY <1>4 DEF AbandonItem, lifeVars
<1>5. ASSUME NEW w \in Workers, WarmDone(w) \/ Wake(w)
      PROVE  future[i] = "cancelled" \/ i \in cancelled'
  BY <1>0, <1>5, TakingCancels DEF WarmDone, Wake
<1>6. ASSUME NEW w \in Workers, Retire(w)
      PROVE  future[i] = "cancelled" \/ i \in cancelled'
  <2>1. Len(queue) \in 0 .. Len(queue)
    BY <1>0
  <2> QED
    BY <1>0, <1>6, <2>1, DeadAreFlagged DEF Retire
<1>7. ASSUME NEW w \in Workers, NEW o \in Outcomes, AttemptSettles(w, o)
      PROVE  future[i] = "cancelled" \/ i \in cancelled'
  <2> DEFINE h    == holding[w]
             next == AfterAttempt(o, attempts[h], h \in cancelled)
             f    == Settle(future, {h}, next)
  <2>1. TakeOrWait(w, f) /\ UNCHANGED cancelled
    BY <1>7 DEF AttemptSettles
  <2>2. next \in FutureStates /\ (next = "cancelled" => h \in cancelled)
    <3>1. next # "backoff"
      BY <1>7 DEF AttemptSettles
    <3> QED
      BY <3>1 DEF AfterAttempt, FutureStates
  <2>3. \A x \in Items : f[x] = IF x \in {h} /\ future[x] = "pending" THEN next ELSE future[x]
    BY SettleValue
  <2>4. f \in [Items -> FutureStates]
    BY <1>0, <2>2 DEF Settle
  <2> HIDE DEF f, next
  <2>5. f[i] = "cancelled" \/ i \in cancelled
    BY <1>0, <2>1, <2>4, TakingCancels
  <2> QED
    BY <2>1, <2>2, <2>3, <2>5
<1>8. ASSUME StopNoRunners \/ StopFlush \/ \E w \in Workers : CancelRunner(w)
      PROVE  ~started'
  BY <1>0, <1>8 DEF StopNoRunners, StopFlush, CancelRunner, Cancellable, lifeVars, StopExclusive
<1>9. CASE \/ UNCHANGED vars
           \/ Start \/ RunnerStart \/ RunnerExhausted \/ OnRunnerDone \/ StopBegin
           \/ CancelSpawned \/ LeaseOutside \/ ReleaseOutside
           \/ \E j \in Jobs : (\E n \in 0 .. MaxSteps : Admit(j, n)) \/ FinalizeJob(j)
           \/ \E x \in Items : ReleaseCallback(x)
           \/ \E w \in Workers : ExpireTTL(w) \/ AttemptFails(w) \/ BackoffDone(w)
  BY <1>1, <1>9 DEF vars, itemVars, Start, RunnerStart, RunnerExhausted, OnRunnerDone, StopBegin,
       CancelSpawned, LeaseOutside, ReleaseOutside, Admit, FinalizeJob, ReleaseCallback,
       ExpireTTL, AttemptFails, BackoffDone
<1> QED
  BY <1>2, <1>3, <1>4, <1>5, <1>6, <1>7, <1>8, <1>9 DEF Next

\* An item that is made is not cancelled, and neither is one made before it.
LEMMA MadeUncancelled ==
  ASSUME TypeOK, JInv, NEW j \in Jobs, NextItem(j) \in Items, MakeItem(NextItem(j)),
         NEW i \in Items, JobOf(i) = j
  PROVE  future'[i] # "cancelled"
<1> DEFINE m == Made(j) + 1
<1>1. PICK n \in 1 .. MaxSteps : i = <<j, n>>
  BY DEF Items, JobOf
<1>2. NextItem(j) = <<j, m>> /\ m \in 1 .. MaxSteps
  BY DEF NextItem, Items
<1> HIDE DEF m
<1>3. /\ future[<<j, m>>] = "none" /\ \A k \in 1 .. (m - 1) : future[<<j, k>>] = "result"
      /\ future' = [future EXCEPT ![<<j, m>>] = "pending"]
  BY <1>2 DEF MakeItem, ReachesStep, JobOf
<1>4. MaxSteps \in Nat /\ future \in [Items -> FutureStates] /\ <<j, n>> \in Items
  BY <1>1, ItemTypes, SchedulerAssumption
<1>5. CASE n < m
  <2>1. n \in 1 .. (m - 1)
    BY <1>2, <1>4, <1>5
  <2> QED
    BY <1>1, <1>2, <1>3, <1>4, <1>5, <2>1
<1>6. CASE n = m
  BY <1>1, <1>3, <1>4, <1>6
<1>7. CASE n > m
  <2>1. future[<<j, n>>] = "none"
    <3>1. m \in 1 .. (n - 1)
      BY <1>2, <1>4, <1>7
    <3>2. JobItems(future, releasing, j, task[j], ChainOf(j), at[j])
      BY JobFacts
    <3> QED
      BY <1>3, <3>1, <3>2 DEF JobItems
  <2> QED
    BY <1>1, <1>3, <1>4, <2>1
<1> QED
  BY <1>2, <1>4, <1>5, <1>6, <1>7

(* What a step of the service does to what AskedFit speaks of: only a cancel  *)
(* flags an item, and a scheduler is started when no job awaits one.          *)
Asks ==
  /\ cancelRequested \subseteq cancelRequested'
  /\ \A i \in cancelled' : i \in cancelled \/ JobOf(i) \in cancelRequested'
  /\ started' => started \/ \A j \in Jobs : task'[j] # "gpu"
  /\ \A i \in Items : task'[JobOf(i)] = "gpu" => task[JobOf(i)] = "gpu" \/ future'[i] # "cancelled"

LEMMA GoesOnAsks ==
  ASSUME TypeOK, JInv, NEW j \in Jobs, NEW s, NEW tk, NEW a, NEW r, JobGoesOn(j, s, tk, a, r)
  PROVE  Asks
<1>1. UNCHANGED <<cancelRequested, cancelled, started>>
  BY DEF JobGoesOn, MakeItem, vars, itemVars, lifeVars
<1>2. \A k \in Jobs : task'[k] = IF k = j THEN tk ELSE task[k]
  BY GoesOnRecords
<1>3. ASSUME NEW i \in Items, task'[JobOf(i)] = "gpu", task[JobOf(i)] # "gpu"
      PROVE  future'[i] # "cancelled"
  <2>1. JobOf(i) \in Jobs
    BY DEF Items, JobOf
  <2>2. JobOf(i) = j /\ tk = "gpu"
    BY <1>2, <1>3, <2>1
  <2>3. /\ MakeItem(NextItem(j)) /\ task[j] # "none"
        /\ a > at[j] /\ a \in 1 .. Len(ChainOf(j)) /\ ChainOf(j)[a] \in GpuSteps
    BY <2>2 DEF JobGoesOn
  <2>4. NextItem(j) \in Items
    BY <2>3, JobFacts, RoomForItem DEF JobGoesOn
  <2> QED
    BY <2>2, <2>3, <2>4, MadeUncancelled
<1> QED
  BY <1>1, <1>3 DEF Asks

\* The steps of the service, those of the jobs' tasks in one
LEMMA ServiceSteps ==
  ASSUME SInv, JInv, [ServiceNext]_svars
  PROVE  \/ \E j \in Jobs : \/ \E s, tk, a, r : JobGoesOn(j, s, tk, a, r)
                            \/ task[j] = "gpu" /\ TaskCancelled(j)
                            \/ OnDone(j)
                            \/ Cancel(j)
                            \/ \E r \in Requests : Submit(j, r)
         \/ \E w \in Workers : Runs(w)
         \/ ServiceStart \/ Callbacks \/ StopBegins \/ RunnersGone \/ CancelTasks \/ StopReturned
         \/ UNCHANGED svars
<1>1. ItemInv /\ LedgerInv
  BY DEF SInv
<1>2. ASSUME NEW j \in Jobs, JobBegins(j) \/ CpuBackoffDone(j) \/ GpuItemEnds(j)
                             \/ \E o \in Outcomes : CpuAttemptEnds(j, o)
      PROVE  \E s, tk, a, r : JobGoesOn(j, s, tk, a, r)
  BY <1>1, <1>2, JobBeginsGoesOn, CpuBackoffGoesOn, GpuItemGoesOn, CpuAttemptGoesOn
<1>3. ASSUME NEW j \in Jobs, TaskCancelled(j), task[j] # "gpu"
      PROVE  \E s, tk, a, r : JobGoesOn(j, s, tk, a, r)
  <2>1. /\ task[j] \in {"cpu", "cpuBackoff"} /\ FinishCancelled(j, at[j], steps[j])
        /\ UNCHANGED vars /\ UNCHANGED <<request, byKey, cancelRequested, phase>>
        /\ phase = "cancelJobs"
    BY <1>3 DEF TaskCancelled
  <2> QED
    BY <2>1, TaskCancelGoesOn
<1> QED
  BY <1>2, <1>3 DEF ServiceNext, ServiceRuns

LEMMA ServiceAsks ==
  ASSUME SInv, JInv, [ServiceNext]_svars
  PROVE  Asks
<1>0. TypeOK
  BY DEF SInv, IInv
<1>1. ASSUME NEW j \in Jobs, \E s, tk, a, r : JobGoesOn(j, s, tk, a, r)
      PROVE  Asks
  BY <1>0, <1>1, GoesOnAsks
<1>2. ASSUME UNCHANGED <<cancelRequested, cancelled, started, task>>
      PROVE  Asks
  BY <1>2 DEF Asks
<1>3. ASSUME NEW j \in Jobs, task[j] = "gpu", TaskCancelled(j)
      PROVE  Asks
  BY <1>2, <1>3 DEF TaskCancelled, AbandonItem, lifeVars
<1>4. ASSUME NEW j \in Jobs, OnDone(j)
      PROVE  Asks
  <2>1. UNCHANGED <<cancelRequested, cancelled, started>> /\ task' = [task EXCEPT ![j] = "gone"]
    BY <1>4 DEF OnDone, FinalizeJob, itemVars, lifeVars
  <2>2. \A k \in Jobs : task'[k] = "gpu" => task[k] = "gpu"
    BY <2>1 DEF JInv, JobTypes
  <2>3. \A i \in Items : JobOf(i) \in Jobs
    BY DEF Items, JobOf
  <2> QED
    BY <2>1, <2>2, <2>3 DEF Asks
<1>5. ASSUME NEW j \in Jobs, NEW r \in Requests, Submit(j, r)
      PROVE  Asks
  <2>1. UNCHANGED <<cancelRequested, cancelled, started>> /\ task' = [task EXCEPT ![j] = "created"]
    BY <1>5 DEF Submit, Admit, itemVars, lifeVars
  <2>2. \A k \in Jobs : task'[k] = "gpu" => task[k] = "gpu"
    BY <2>1 DEF JInv, JobTypes
  <2>3. \A i \in Items : JobOf(i) \in Jobs
    BY DEF Items, JobOf
  <2> QED
    BY <2>1, <2>2, <2>3 DEF Asks
<1>6. ASSUME NEW j \in Jobs, Cancel(j)
      PROVE  Asks
  <2>1. /\ cancelRequested' = cancelRequested \cup {j} /\ UNCHANGED <<started, task>>
        /\ cancelled' = cancelled \/ cancelled' = cancelled \cup {CurItem(j)}
    BY <1>6 DEF Cancel, CancelItem, vars, itemVars, lifeVars
  <2>2. JobOf(CurItem(j)) = j
    BY DEF CurItem, JobOf
  <2> QED
    BY <2>1, <2>2 DEF Asks
<1>7. ASSUME NEW w \in Workers, Runs(w)
      PROVE  Asks
  <2>1. UNCHANGED <<cancelRequested, task>>
    BY <1>7 DEF Runs
  <2>2. UNCHANGED <<cancelled, started>>
    BY <1>7 DEF Runs, RunnerOn, WarmDone, ExpireTTL, Wake, Retire, AttemptFails, AttemptSettles,
         BackoffDone, CancelRunner, itemVars, lifeVars
  <2> QED
    BY <1>2, <2>1, <2>2
<1>8. CASE ServiceStart
  <2>1. UNCHANGED <<cancelRequested, cancelled, task>> /\ phase = "down"
    BY <1>8 DEF ServiceStart, Start, itemVars
  <2>2. \A k \in Jobs : task[k] # "gpu"
    BY <2>1 DEF JInv, PhaseFits
  <2> QED
    BY <2>1, <2>2 DEF Asks
<1>9. CASE StopBegins
  <2>1. UNCHANGED <<cancelRequested, cancelled, task>> /\ started
    BY <1>9 DEF StopBegins, StopBegin, StopNoRunners, itemVars
  <2> QED
    BY <2>1 DEF Asks
<1>10. CASE Callbacks \/ RunnersGone \/ CancelTasks \/ StopReturned \/ UNCHANGED svars
  <2>1. UNCHANGED <<cancelRequested, cancelled, started, task>>
    BY <1>10 DEF Callbacks, RunnersGone, CancelTasks, StopReturned, svars, jobVars, vars, itemVars,
         lifeVars, RunnerStart, OnRunnerDone, CancelSpawned, ReleaseCallback, StopFlush
  <2> QED
    BY <1>2, <2>1
<1> QED
  BY <1>1, <1>3, <1>4, <1>5, <1>6, <1>7, <1>8, <1>9, <1>10, ServiceSteps

\* Cancelled items stay explained.
LEMMA AskedKept ==
  ASSUME SInv, JInv, AskedFit, [ServiceNext]_svars
  PROVE  AskedFit'
<1>1. Asks /\ [Next]_vars
  BY ServiceAsks, ServiceKeeps
<1>2. \A i \in cancelled' : JobOf(i) \in cancelRequested'
  BY <1>1 DEF Asks, AskedFit
<1>3. ASSUME NEW i \in Items, future'[i] = "cancelled", task'[JobOf(i)] = "gpu"
      PROVE  JobOf(i) \in cancelRequested' \/ ~started'
  <2>1. task[JobOf(i)] = "gpu"
    BY <1>1, <1>3 DEF Asks
  <2>2. JobOf(i) \in Jobs
    BY DEF Items, JobOf
  <2>3. CASE future[i] = "cancelled"
    BY <1>1, <1>3, <2>1, <2>2, <2>3 DEF Asks, AskedFit
  <2>4. CASE future[i] # "cancelled"
    BY <1>1, <1>2, <1>3, <2>4, CancelsMove
  <2> QED
    BY <2>3, <2>4
<1> QED
  BY <1>2, <1>3 DEF AskedFit

LEMMA InitAsked == Init => AskedFit
<1> SUFFICES ASSUME Init PROVE AskedFit
  OBVIOUS
<1>1. cancelled = {} /\ \A i \in Items : future[i] = "none"
  BY DEF Init
<1> QED
  BY <1>1 DEF AskedFit

-----------------------------------------------------------------------------
(* How far a job is                                                           *)

\* Records that say succeeded up to a step are counted by its number.
LEMMA DoneCount ==
  ASSUME NEW sr \in Seq(StepRecord), NEW n \in 1 .. Len(sr) + 1, DoneBefore(sr, n)
  PROVE  DoneIn(sr) = n - 1
<1>1. {k \in 1 .. Len(sr) : sr[k].state = "succeeded"} = 1 .. (n - 1)
  BY DEF DoneBefore
<1>2. Cardinality(1 .. (n - 1)) = n - 1
  BY FS_Interval
<1> QED
  BY <1>1, <1>2 DEF DoneIn

\* The contract sees a live job at the step it is at, with those before it done.
LEMMA LiveJob ==
  ASSUME JInv, NEW j \in Jobs
  PROVE  /\ task[j] \in AtStep => /\ at[j] \in 1 .. Len(steps[j]) /\ at[j] > 0
                                  /\ StepUnderWay[j] = at[j] /\ StepsDone[j] = at[j] - 1
         /\ task[j] = "created" => at[j] = 0 /\ StepUnderWay[j] = 0 /\ StepsDone[j] = 0
<1>1. /\ steps[j] \in Seq(StepRecord) /\ Len(steps[j]) \in Nat /\ at[j] \in Nat
      /\ RecordsFit(request[j], state[j], task[j], at[j], steps[j])
  BY JobFacts
<1>2. ASSUME task[j] \in AtStep
      PROVE  at[j] \in 1 .. Len(steps[j]) /\ StepsDone[j] = at[j] - 1
  <2>1. at[j] \in 1 .. Len(steps[j]) /\ UnderWayAt(steps[j], at[j])
    BY <1>1, <1>2 DEF RecordsFit
  <2>2. DoneBefore(steps[j], at[j])
    BY <1>1, <2>1 DEF UnderWayAt, DoneBefore
  <2>3. at[j] \in 1 .. Len(steps[j]) + 1
    BY <1>1, <2>1
  <2> QED
    BY <1>1, <2>1, <2>2, <2>3, DoneCount DEF StepsDone
<1>3. ASSUME task[j] = "created"
      PROVE  at[j] = 0 /\ StepsDone[j] = 0
  <2>1. at[j] = 0 /\ ReadyAt(steps[j], 1)
    BY <1>1, <1>3 DEF RecordsFit
  <2>2. DoneBefore(steps[j], 1)
    BY <1>1, <2>1 DEF ReadyAt, DoneBefore
  <2>3. 1 \in 1 .. Len(steps[j]) + 1
    BY <1>1
  <2> QED
    BY <1>1, <2>1, <2>2, <2>3, DoneCount DEF StepsDone
<1> QED
  BY <1>1, <1>2, <1>3 DEF StepUnderWay, AtStep

-----------------------------------------------------------------------------
(* The steps of the contract                                                  *)

cvars == <<OfferOfJob, NewestJob, state, StepsDone, StepUnderWay, cancelRequested, ServicePhase>>

\* A step that leaves what a client sees as it was
LEMMA Unseen ==
  ASSUME UNCHANGED <<request, byKey, state, cancelRequested>>, UNCHANGED ServicePhase,
         \A j \in Jobs : DoneIn(steps'[j]) = DoneIn(steps[j]),
         \A j \in Jobs : /\ task'[j] \in AtStep <=> task[j] \in AtStep
                         /\ task[j] \in AtStep => at'[j] = at[j]
  PROVE  UNCHANGED cvars
<1>1. UNCHANGED <<OfferOfJob, NewestJob>>
  BY DEF OfferOfJob, NewestJob, Untouched
<1>2. UNCHANGED StepsDone
  BY DEF StepsDone
<1>3. UNCHANGED StepUnderWay
  BY DEF StepUnderWay, AtStep
<1> QED
  BY <1>1, <1>2, <1>3 DEF cvars

\* A job that goes on is seen to become something else.
LEMMA GoesOnBecomes ==
  ASSUME TypeOK, JInv, NEW j \in Jobs, NEW s, NEW tk, NEW a, NEW r, JobGoesOn(j, s, tk, a, r)
  PROVE  Contract!Becomes(j, s, DoneIn(r), IF tk \in AtStep THEN a ELSE 0)
<1>1. /\ UNCHANGED <<request, byKey, cancelRequested, phase>>
      /\ state[j] \in {"queued", "running"} /\ state' = [state EXCEPT ![j] = s]
  BY DEF JobGoesOn, Becomes
<1>2. \A k \in Jobs : /\ task'[k] = IF k = j THEN tk ELSE task[k]
                      /\ at'[k] = IF k = j THEN a ELSE at[k]
                      /\ steps'[k] = IF k = j THEN r ELSE steps[k]
  BY GoesOnRecords
<1>3. UNCHANGED <<OfferOfJob, NewestJob, ServicePhase>>
  BY <1>1 DEF OfferOfJob, NewestJob, Untouched, ServicePhase
<1>4. StepsDone' = [StepsDone EXCEPT ![j] = DoneIn(r)]
  BY <1>2 DEF StepsDone
<1>5. StepUnderWay' = [StepUnderWay EXCEPT ![j] = IF tk \in AtStep THEN a ELSE 0]
  BY <1>2 DEF StepUnderWay, AtStep
<1> QED
  BY <1>1, <1>3, <1>4, <1>5 DEF Contract!Becomes, Contract!Live

\* What a client is told when a job goes on is what the contract allows.
LEMMA GoesOnAllowed ==
  ASSUME TypeOK, JInv, AskedFit, NEW j \in Jobs, NEW s, NEW tk, NEW a, NEW r,
         JobGoesOn(j, s, tk, a, r)
  PROVE  Contract!CNext \/ UNCHANGED cvars
<1>1. /\ request[j] \in JobRequests /\ request[j] # NoRequest
      /\ steps[j] \in Seq(StepRecord) /\ at[j] \in Nat
      /\ Len(steps[j]) = Len(request[j].chain) /\ Len(steps[j]) \in Nat
  <2>1. task[j] # "none"
    BY DEF JobGoesOn
  <2>2. request[j] \in JobRequests
    BY <2>1, JobFacts
  <2> QED
    BY <2>1, <2>2, JobFacts, ServiceAssumption DEF ChainOf
<1>2. /\ r \in Seq(StepRecord) /\ a \in Nat /\ a >= at[j] /\ Len(r) = Len(steps[j])
      /\ RecordsFit(request[j], s, tk, a, r) /\ AsPromised(j, s, a, r)
      /\ s \in JobStates /\ tk \in {"cpu", "cpuBackoff", "gpu", "done"}
      /\ state[j] \in {"queued", "running"} /\ task[j] \in {"created", "cpu", "cpuBackoff", "gpu"}
  BY <1>1 DEF JobGoesOn, RecordsFit
<1>3. /\ task[j] \in AtStep => /\ at[j] \in 1 .. Len(steps[j]) /\ at[j] > 0
                               /\ StepUnderWay[j] = at[j] /\ StepsDone[j] = at[j] - 1
      /\ task[j] = "created" => at[j] = 0 /\ StepUnderWay[j] = 0 /\ StepsDone[j] = 0
      /\ task[j] = "created" \/ task[j] \in AtStep
  BY <1>2, LiveJob DEF AtStep
<1>4. Contract!Becomes(j, s, DoneIn(r), IF tk \in AtStep THEN a ELSE 0)
  BY GoesOnBecomes
<1>5. Contract!Live(j)
  BY <1>2 DEF Contract!Live
<1>6. OfferOfJob[j].length = Len(r)
  BY <1>1, <1>2 DEF OfferOfJob, OfferOf, Untouched
<1>7. CASE tk \in AtStep
  <2>1. s = "running" /\ a \in 1 .. Len(r) /\ UnderWayAt(r, a)
    BY <1>2, <1>7 DEF RecordsFit
  <2>2. DoneIn(r) = a - 1
    <3>1. DoneBefore(r, a)
      BY <1>2, <2>1 DEF UnderWayAt, DoneBefore
    <3>2. a \in 1 .. Len(r) + 1
      BY <1>2, <2>1
    <3> QED
      BY <1>2, <3>1, <3>2, DoneCount
  <2>3. CASE a = at[j]
    <3>1. task[j] \in AtStep
      BY <1>2, <1>3, <2>1, <2>3
    <3>2. state[j] = "running"
      <4>1. RecordsFit(request[j], state[j], task[j], at[j], steps[j])
        BY JobFacts
      <4> QED
        BY <3>1, <4>1 DEF RecordsFit
    <3>3. /\ UNCHANGED <<OfferOfJob, NewestJob, cancelRequested, ServicePhase>>
          /\ state' = [state EXCEPT ![j] = state[j]]
          /\ StepsDone' = [StepsDone EXCEPT ![j] = StepsDone[j]]
          /\ StepUnderWay' = [StepUnderWay EXCEPT ![j] = StepUnderWay[j]]
      BY <1>3, <1>4, <1>7, <2>1, <2>2, <2>3, <3>1, <3>2 DEF Contract!Becomes
    <3>4. state \in [Jobs -> JobStates]
      BY DEF JInv, JobTypes
    <3> QED
      BY <3>3, <3>4 DEF cvars, StepsDone, StepUnderWay
  <2>4. CASE a # at[j]
    <3>1. j \notin cancelRequested
      BY <1>2, <2>1, <2>4 DEF AsPromised
    <3>2. a \in (StepUnderWay[j] + 1) .. OfferOfJob[j].length
      BY <1>1, <1>2, <1>3, <1>6, <2>1, <2>4
    <3>3. Contract!Becomes(j, "running", a - 1, a)
      BY <1>4, <1>7, <2>1, <2>2
    <3>4. Contract!Advance(j)
      BY <1>5, <3>1, <3>2, <3>3 DEF Contract!Advance
    <3> QED
      BY <3>4 DEF Contract!CNext
  <2> QED
    BY <2>3, <2>4
<1>8. CASE tk \notin AtStep
  <2>1. tk = "done" /\ s \in Terminal /\ ClosedAs(r, s)
    BY <1>2, <1>8 DEF RecordsFit, AtStep
  <2>2. Contract!Becomes(j, s, DoneIn(r), 0)
    BY <1>4, <1>8
  <2>3. CASE s = "succeeded"
    <3>1. DoneIn(r) = Len(r)
      <4>1. \A k \in 1 .. Len(r) : r[k].state = "succeeded"
        BY <2>1, <2>3 DEF ClosedAs
      <4>2. DoneBefore(r, Len(r) + 1) /\ Len(r) + 1 \in 1 .. Len(r) + 1
        BY <1>1, <1>2, <4>1 DEF DoneBefore
      <4>3. DoneIn(r) = Len(r) + 1 - 1
        BY <1>2, <4>2, DoneCount
      <4> QED
        BY <1>1, <1>2, <4>3
    <3>2. j \in cancelRequested => StepUnderWay[j] = OfferOfJob[j].length
      BY <1>2, <1>3, <1>6, <2>3 DEF AsPromised
    <3>3. Contract!Succeed(j)
      BY <1>5, <1>6, <2>2, <2>3, <3>1, <3>2 DEF Contract!Succeed
    <3> QED
      BY <3>3 DEF Contract!CNext
  <2>4. CASE s = "failed"
    <3>1. task[j] \in AtStep /\ DoneBefore(r, at[j])
      BY <1>2, <2>4 DEF AsPromised
    <3>2. at[j] \in 1 .. Len(r) + 1
      BY <1>1, <1>2, <1>3, <3>1
    <3>3. DoneIn(r) = StepsDone[j] /\ StepUnderWay[j] # 0
      BY <1>2, <1>3, <3>1, <3>2, DoneCount
    <3>4. Contract!Fail(j)
      BY <2>2, <2>4, <3>3 DEF Contract!Fail
    <3> QED
      BY <3>4 DEF Contract!CNext
  <2>5. CASE s = "cancelled"
    <3>1. j \in cancelRequested \/ ServicePhase = "closing"
      <4>1. \/ j \in cancelRequested \/ phase = "cancelJobs"
            \/ task[j] = "gpu" /\ future[CurItem(j)] = "cancelled"
        BY <1>2, <2>5 DEF AsPromised
      <4>2. CASE task[j] = "gpu" /\ future[CurItem(j)] = "cancelled"
        <5>1. CurItem(j) \in Items /\ JobOf(CurItem(j)) = j
          BY <4>2, CurItemType DEF CurItem, JobOf
        <5>2. j \in cancelRequested \/ ~started
          BY <4>2, <5>1 DEF AskedFit
        <5>3. phase # "down" /\ (phase = "up" <=> started)
          BY <4>2 DEF JInv, PhaseFits
        <5> QED
          BY <5>2, <5>3 DEF ServicePhase
      <4>3. CASE phase = "cancelJobs"
        BY <4>3 DEF ServicePhase
      <4> QED
        BY <4>1, <4>2, <4>3
    <3>2. DoneIn(r) \in {StepsDone[j], IF StepUnderWay[j] = 0 THEN StepsDone[j] ELSE StepUnderWay[j]}
      <4>1. DoneBefore(r, at[j] + 1) \/ (task[j] \in AtStep /\ DoneBefore(r, at[j]))
        BY <1>2, <2>5 DEF AsPromised
      <4>2. CASE DoneBefore(r, at[j] + 1)
        <5>1. at[j] + 1 \in 1 .. Len(r) + 1
          BY <1>1, <1>2, <1>3
        <5>2. DoneIn(r) = at[j]
          BY <1>1, <1>2, <4>2, <5>1, DoneCount
        <5> QED
          BY <1>3, <5>2
      <4>3. CASE task[j] \in AtStep /\ DoneBefore(r, at[j])
        <5>1. at[j] \in 1 .. Len(r) + 1
          BY <1>1, <1>2, <1>3, <4>3
        <5> QED
          BY <1>2, <1>3, <4>3, <5>1, DoneCount
      <4> QED
        BY <4>1, <4>2, <4>3
    <3>3. Contract!Stop(j)
      BY <2>2, <2>5, <3>1, <3>2 DEF Contract!Stop
    <3> QED
      BY <3>3 DEF Contract!CNext
  <2> QED
    BY <2>1, <2>3, <2>4, <2>5 DEF Terminal
<1> QED
  BY <1>7, <1>8

\* A job id that is not in use has no records.
LEMMA FreshJob ==
  ASSUME JInv, NEW j \in Jobs, task[j] = "none"
  PROVE  DoneIn(steps[j]) = 0
<1>1. steps[j] = <<>>
  BY JobFacts DEF RecordsFit
<1>2. {n \in 1 .. Len(<<>>) : <<>>[n].state = "succeeded"} = {}
  OBVIOUS
<1> QED
  BY <1>1, <1>2, FS_EmptySet DEF DoneIn

\* A key is taken by a new job when its newest one is dead, or there is none.
LEMMA SubmitTakes ==
  ASSUME SInv, JInv, NEW j \in Jobs, NEW r \in Requests, Submit(j, r)
  PROVE  Contract!CNext
<1> DEFINE q  == JobRequest(r)
           sr == [n \in 1 .. Len(q.chain) |-> NewStepRun]
           o  == OfferOf(q)
<1>1. /\ Untouched(j) /\ Accepts(r.chain) /\ ~Dedups(r.key) /\ started
      /\ request' = [request EXCEPT ![j] = q] /\ byKey' = [byKey EXCEPT ![r.key] = j]
      /\ state' = [state EXCEPT ![j] = "queued"] /\ steps' = [steps EXCEPT ![j] = sr]
      /\ task' = [task EXCEPT ![j] = "created"]
      /\ UNCHANGED <<at, cancelRequested, phase>>
  BY DEF Submit, Admit
<1>2. /\ q \in JobRequests /\ q.key = r.key /\ r.key \in Keys
      /\ sr \in Seq(StepRecord) /\ Len(sr) = Len(q.chain) /\ ReadyAt(sr, 1)
  BY <1>1, NewJob
<1>3. q # NoRequest /\ q \in JobRequests
  BY <1>2, ServiceAssumption
<1> HIDE DEF q, sr
<1>4. task[j] = "none" /\ state[j] = "none" /\ StepUnderWay[j] = 0
  <2>1. RecordsFit(request[j], state[j], task[j], at[j], steps[j])
    BY JobFacts
  <2> QED
    BY <1>1, <2>1 DEF RecordsFit, Untouched, StepUnderWay
<1>5. StepsDone[j] = 0 /\ DoneIn(sr) = 0
  <2>1. DoneIn(sr) = 1 - 1
    <3>1. DoneBefore(sr, 1) /\ 1 \in 1 .. Len(sr) + 1
      BY <1>2, ChainTypes DEF ReadyAt, DoneBefore
    <3> QED
      BY <1>2, <3>1, DoneCount
  <2>2. DoneIn(steps[j]) = 0
    BY <1>1, <1>4, FreshJob
  <2> QED
    BY <2>1, <2>2 DEF StepsDone
<1>6. JobTypes
  BY DEF JInv
<1>7. OfferOfJob' = [OfferOfJob EXCEPT ![j] = o]
  BY <1>1, <1>3, <1>6 DEF OfferOfJob, Untouched, JobTypes
<1>8. NewestJob' = [NewestJob EXCEPT ![o.key] = j] /\ NewestJob[o.key] = byKey[r.key] /\ o.key = r.key
  <2>1. o.key = r.key /\ o.key \in {x.key : x \in JobRequests}
    BY <1>2 DEF OfferOf
  <2>2. {x.key : x \in JobRequests} \subseteq Keys
    BY ChainTypes
  <2> QED
    BY <1>1, <1>2, <1>6, <2>1, <2>2 DEF NewestJob, JobTypes
<1>9. UNCHANGED StepsDone
  <2>1. \A k \in Jobs : DoneIn(steps'[k]) = DoneIn(steps[k])
    BY <1>1, <1>5, <1>6 DEF StepsDone, JobTypes
  <2> QED
    BY <2>1 DEF StepsDone
<1>10. UNCHANGED <<StepUnderWay, ServicePhase, cancelRequested>>
  <2>1. \A k \in Jobs : /\ task'[k] \in AtStep <=> task[k] \in AtStep
                        /\ at'[k] = at[k]
    BY <1>1, <1>4, <1>6 DEF JobTypes, AtStep
  <2>2. UNCHANGED StepUnderWay
    BY <2>1 DEF StepUnderWay, AtStep
  <2> QED
    BY <1>1, <2>2 DEF ServicePhase
<1>11. ServicePhase = "up"
  BY <1>1 DEF JInv, PhaseFits, ServicePhase
<1>12. NewestJob[o.key] # NoJob => state[NewestJob[o.key]] \in {"failed", "cancelled"}
  BY <1>1, <1>8 DEF Dedups, Resubmittable
<1>13. o \in {OfferOf(x) : x \in JobRequests}
  BY <1>2
<1> HIDE DEF o
<1>14. Contract!Take(j, o)
  BY <1>1, <1>4, <1>7, <1>8, <1>9, <1>10, <1>11, <1>12 DEF Contract!Take
<1> QED
  BY <1>13, <1>14 DEF Contract!CNext

\* cancel() asks the job to stop.
LEMMA CancelAsks ==
  ASSUME JInv, NEW j \in Jobs, Cancel(j)
  PROVE  Contract!CNext
<1>1. /\ state[j] \in {"queued", "running"} /\ j \notin cancelRequested
      /\ cancelRequested' = cancelRequested \cup {j}
      /\ UNCHANGED <<request, byKey, state, steps, at, task, phase>>
  BY DEF Cancel
<1>2. UNCHANGED <<OfferOfJob, NewestJob, StepsDone, StepUnderWay, ServicePhase>>
  BY <1>1 DEF OfferOfJob, NewestJob, StepsDone, StepUnderWay, ServicePhase, Untouched
<1>3. Contract!Ask(j)
  BY <1>1, <1>2 DEF Contract!Ask, Contract!Live
<1> QED
  BY <1>3 DEF Contract!CNext

\* What the runners' observers record is not seen: attempts, retries and spans.
LEMMA RunsUnseen ==
  ASSUME SInv, JInv, NEW w \in Workers, Runs(w)
  PROVE  UNCHANGED cvars
<1>1. UNCHANGED <<request, byKey, state, at, task, cancelRequested, phase>>
  BY DEF Runs
<1>2. PICK e, o : Observe(e, o)
  BY RunnerOnMoves DEF Runs, SInv, IInv
<1>3. ASSUME NEW j \in Jobs
      PROVE  DoneIn(steps'[j]) = DoneIn(steps[j])
  <2>1. CASE task[j] # "gpu"
    BY <1>2, <2>1, ObserveEffect
  <2>2. CASE task[j] = "gpu"
    <3>1. PICK x \in StepRecord :
            /\ steps'[j] = [steps[j] EXCEPT ![at[j]] = x]
            /\ x.state \in {"pending", "running", "retrying"}
            /\ at[j] \in 1 .. Len(steps[j]) /\ UnderWayAt(steps[j], at[j])
      BY <1>2, <2>2, ObserveEffect
    <3>2. steps[j] \in Seq(StepRecord)
      BY JobFacts
    <3>3. /\ steps'[j] \in Seq(StepRecord) /\ Len(steps'[j]) = Len(steps[j])
          /\ UnderWayAt(steps'[j], at[j])
      BY <3>1, <3>2, UnderWayKept
    <3>4. DoneBefore(steps[j], at[j]) /\ DoneBefore(steps'[j], at[j])
      BY <3>1, <3>2, <3>3 DEF UnderWayAt, DoneBefore
    <3>5. at[j] \in 1 .. Len(steps[j]) + 1
      BY <3>1
    <3> QED
      BY <3>2, <3>3, <3>4, <3>5, DoneCount
  <2> QED
    BY <2>1, <2>2
<1>4. UNCHANGED ServicePhase
  BY <1>1 DEF ServicePhase
<1> QED
  BY <1>1, <1>3, <1>4, Unseen

\* start() and stop() are seen to begin, and stop() to return.
LEMMA PhasesAllowed ==
  ASSUME JInv,
         ServiceStart \/ Callbacks \/ StopBegins \/ RunnersGone \/ CancelTasks \/ StopReturned
  PROVE  Contract!CNext \/ UNCHANGED cvars
<1>1. UNCHANGED <<request, byKey, state, steps, at, task, cancelRequested>>
  BY DEF ServiceStart, Callbacks, StopBegins, RunnersGone, CancelTasks, StopReturned, jobVars
<1>2. UNCHANGED <<OfferOfJob, NewestJob, StepsDone, StepUnderWay>>
  BY <1>1 DEF OfferOfJob, NewestJob, StepsDone, StepUnderWay, Untouched
<1>3. CASE ServiceStart
  <2>1. ServicePhase = "down" /\ ServicePhase' = "up"
    BY <1>3 DEF ServiceStart, ServicePhase
  <2>2. Contract!Open
    BY <1>1, <1>2, <2>1 DEF Contract!Open, Contract!ServiceIs
  <2> QED
    BY <2>2 DEF Contract!CNext
<1>4. CASE StopBegins
  <2>1. ServicePhase = "up" /\ ServicePhase' = "closing"
    BY <1>4 DEF StopBegins, ServicePhase
  <2>2. Contract!Close
    BY <1>1, <1>2, <2>1 DEF Contract!Close, Contract!ServiceIs
  <2> QED
    BY <2>2 DEF Contract!CNext
<1>5. CASE StopReturned
  <2>1. ServicePhase = "closing" /\ ServicePhase' = "down" /\ \A j \in Jobs : task[j] \in {"none", "gone"}
    BY <1>5 DEF StopReturned, ServicePhase
  <2>2. ASSUME NEW j \in Jobs PROVE ~Contract!Live(j)
    <3>1. RecordsFit(request[j], state[j], task[j], at[j], steps[j])
      BY JobFacts
    <3> QED
      BY <2>1, <3>1 DEF RecordsFit, Terminal, Contract!Live
  <2>3. Contract!Closed
    BY <1>1, <1>2, <2>1, <2>2 DEF Contract!Closed, Contract!ServiceIs
  <2> QED
    BY <2>3 DEF Contract!CNext
<1>6. CASE Callbacks \/ RunnersGone \/ CancelTasks
  <2>1. UNCHANGED ServicePhase
    BY <1>6 DEF Callbacks, RunnersGone, CancelTasks, ServicePhase, jobVars
  <2> QED
    BY <1>1, <1>2, <2>1 DEF cvars
<1> QED
  BY <1>3, <1>4, <1>5, <1>6

\* Every step of the service is one of the contract, or nothing to it.
LEMMA ServiceAllowed ==
  ASSUME SInv, JInv, AskedFit, [ServiceNext]_svars
  PROVE  Contract!CNext \/ UNCHANGED cvars
<1>1. TypeOK
  BY DEF SInv, IInv
<1>2. ASSUME NEW j \in Jobs, OnDone(j)
      PROVE  UNCHANGED cvars
  <2>1. /\ UNCHANGED <<request, byKey, state, steps, at, cancelRequested, phase>>
        /\ task[j] = "done" /\ task' = [task EXCEPT ![j] = "gone"] /\ JobTypes
    BY <1>2 DEF OnDone, JInv
  <2>2. \A k \in Jobs : task'[k] \in AtStep <=> task[k] \in AtStep
    BY <2>1 DEF JobTypes, AtStep
  <2>3. UNCHANGED ServicePhase
    BY <2>1 DEF ServicePhase
  <2> QED
    BY <2>1, <2>2, <2>3, Unseen
<1>3. ASSUME NEW j \in Jobs, task[j] = "gpu", TaskCancelled(j)
      PROVE  UNCHANGED cvars
  <2>1. UNCHANGED <<request, byKey, state, steps, at, task, cancelRequested, phase>>
    BY <1>3 DEF TaskCancelled
  <2>2. UNCHANGED ServicePhase
    BY <2>1 DEF ServicePhase
  <2> QED
    BY <2>1, <2>2, Unseen
<1>4. CASE UNCHANGED svars
  <2>1. UNCHANGED <<request, byKey, state, steps, at, task, cancelRequested, phase>>
    BY <1>4 DEF svars, jobVars
  <2>2. UNCHANGED ServicePhase
    BY <2>1 DEF ServicePhase
  <2> QED
    BY <2>1, <2>2, Unseen
<1> QED
  BY <1>1, <1>2, <1>3, <1>4, ServiceSteps, GoesOnAllowed, CancelAsks, SubmitTakes, RunsUnseen,
     PhasesAllowed

LEMMA InitAllowed == ServiceInit => Contract!CInit
<1> SUFFICES ASSUME ServiceInit PROVE Contract!CInit
  OBVIOUS
<1>1. \A j \in Jobs : DoneIn(steps[j]) = 0
  <2>1. DoneIn(<<>>) = Cardinality({})
    <3>1. {n \in 1 .. Len(<<>>) : <<>>[n].state = "succeeded"} = {}
      OBVIOUS
    <3> QED
      BY <3>1 DEF DoneIn
  <2> QED
    BY <2>1, FS_EmptySet DEF ServiceInit
<1>2. StepsDone = [j \in Jobs |-> 0] /\ StepUnderWay = [j \in Jobs |-> 0]
  BY <1>1 DEF ServiceInit, StepsDone, StepUnderWay
<1>3. OfferOfJob = [j \in Jobs |-> NoRequest] /\ ServicePhase = "down"
  BY DEF ServiceInit, OfferOfJob, Untouched, ServicePhase
<1>4. NewestJob = [k \in Contract!OfferKeys |-> NoJob]
  <2>1. Contract!OfferKeys = {q.key : q \in JobRequests}
    <3>1. \A q \in JobRequests : OfferOf(q).key = q.key
      BY DEF OfferOf
    <3> QED
      BY <3>1 DEF Contract!OfferKeys
  <2>2. {q.key : q \in JobRequests} \subseteq Keys
    BY ChainTypes
  <2> QED
    BY <2>1, <2>2 DEF ServiceInit, NewestJob
<1> QED
  BY <1>2, <1>3, <1>4 DEF ServiceInit, Contract!CInit

-----------------------------------------------------------------------------
(* Whatever the runners, retries, memoized outputs, cancels and stop() do, in *)
(* whatever order and for any number of jobs and workers: a job takes the     *)
(* steps of its chain in order, begins none after it was asked to stop, ends  *)
(* once, is cancelled only when it or the service was asked to stop, and has  *)
(* succeeded only when all its steps have (ChainRunner.run, JobService).      *)
THEOREM JobContractKept == ServiceSpec => ImplementsJobContract
<1>1. ServiceInit => AskedFit
  BY InitJInv, InitAsked
<1>2. SInv /\ JInv /\ AskedFit /\ [ServiceNext]_svars => AskedFit'
  BY AskedKept
<1>3. SInv /\ JInv /\ AskedFit /\ [ServiceNext]_svars => [Contract!CNext]_(Contract!cvars)
  BY ServiceAllowed DEF cvars, Contract!cvars
<1> QED
  BY <1>1, <1>2, <1>3, ServiceInvariance, InitAllowed, PTL
     DEF ServiceSpec, ImplementsJobContract, Contract!CSpec

-----------------------------------------------------------------------------
(* What a record tells of the attempts at its step                            *)

\* A record counts the attempts begun, and none when none has begun.
RecordTold(r) ==
  /\ r.attempts <= MaxAttempts
  /\ r.state = "pending" => r.attempts = 0

RecordsTold(sr) == \A n \in 1 .. Len(sr) : RecordTold(sr[n])

(* A CPU step under way is recorded as running, one in backoff has an attempt *)
(* left, and a failure tells its kind: a budget that is exhausted was used up.*)
TaskTold(s, tk, a, sr) ==
  /\ tk = "cpu" => sr[a].state = "running"
  /\ tk = "cpuBackoff" => sr[a].attempts < MaxAttempts
  /\ s = "failed" =>
       /\ sr[a].error \in {"transient_exhausted", "permanent"}
       /\ sr[a].error = "transient_exhausted" => sr[a].attempts = MaxAttempts

(* The record r of a step follows its item i: the attempts are the same, it is*)
(* running while a runner attempts the item, and when the item has failed it  *)
(* says retrying only if the budget is spent.                                 *)
ItemTold(f, att, wk, hd, i, r) ==
  /\ r.attempts = att[i]
  /\ \A w \in Workers : hd[w] = i /\ wk[w] = "running" => r.state = "running"
  /\ f[i] = "failed" /\ r.state = "retrying" => r.attempts = MaxAttempts

JobTold(j) ==
  /\ RecordsTold(steps[j])
  /\ TaskTold(state[j], task[j], at[j], steps[j])
  /\ task[j] = "gpu" => ItemTold(future, attempts, worker, holding, CurItem(j), steps[j][at[j]])

ToldFit == \A j \in Jobs : JobTold(j)

\* Each change of a record keeps what it tells.
LEMMA RecordsTell ==
  ASSUME NEW r \in StepRecord, RecordTold(r)
  PROVE  /\ \A o : RecordTold(AttemptFinished(r, o)) /\ AttemptFinished(r, o).attempts = r.attempts
         /\ \A o : AttemptFinished(r, o).state = IF o = "transient" THEN "retrying" ELSE r.state
         /\ RecordTold(Interrupted(r)) /\ RecordTold(Failed(r))
         /\ RecordTold([r EXCEPT !.state = "succeeded"])
         /\ Failed(r).attempts = r.attempts
         /\ Failed(r).error = IF r.state = "retrying" THEN "transient_exhausted" ELSE "permanent"
         /\ [r EXCEPT !.state = "succeeded"].attempts = r.attempts
         /\ AttemptStarted(r).attempts = r.attempts + 1 /\ AttemptStarted(r).state = "running"
         /\ r.attempts < MaxAttempts => RecordTold(AttemptStarted(r))
<1>1. r.attempts \in Nat /\ MaxAttempts \in Nat /\ MaxAttempts >= 1
  BY RetryAssumption DEF StepRecord
<1>2. \A o : RecordTold(AttemptFinished(r, o)) /\ AttemptFinished(r, o).attempts = r.attempts
             /\ AttemptFinished(r, o).state = IF o = "transient" THEN "retrying" ELSE r.state
  BY DEF RecordTold, AttemptFinished, StepRecord
<1>3. RecordTold(Interrupted(r))
  BY DEF RecordTold, Interrupted, StepRecord
<1>4. /\ RecordTold(Failed(r)) /\ Failed(r).attempts = r.attempts
      /\ Failed(r).error = IF r.state = "retrying" THEN "transient_exhausted" ELSE "permanent"
  BY DEF RecordTold, Failed, StepRecord
<1>5. RecordTold([r EXCEPT !.state = "succeeded"]) /\ [r EXCEPT !.state = "succeeded"].attempts = r.attempts
  BY DEF RecordTold, StepRecord
<1>6. /\ AttemptStarted(r).attempts = r.attempts + 1 /\ AttemptStarted(r).state = "running"
      /\ r.attempts < MaxAttempts => RecordTold(AttemptStarted(r))
  <2> DEFINE n == r.attempts + 1
  <2>1. AttemptStarted(r) = [r EXCEPT !.state = "running", !.attempts = n, !.open = TRUE]
    BY DEF AttemptStarted
  <2>2. n \in Nat /\ (r.attempts < MaxAttempts => n <= MaxAttempts)
    BY <1>1
  <2> HIDE DEF n
  <2>3. AttemptStarted(r).attempts = n /\ AttemptStarted(r).state = "running"
    BY <2>1 DEF StepRecord
  <2> QED
    BY <2>2, <2>3 DEF RecordTold, n
<1> QED
  BY <1>2, <1>3, <1>4, <1>5, <1>6

\* Changing the record of one step
LEMMA ToldUpdate ==
  ASSUME NEW sr \in Seq(StepRecord), RecordsTold(sr), NEW n \in 1 .. Len(sr),
         NEW x, RecordTold(x)
  PROVE  LET r == [sr EXCEPT ![n] = x]
         IN  RecordsTold(r) /\ Len(r) = Len(sr) /\ r[n] = x
  BY DEF RecordsTold

-----------------------------------------------------------------------------
(* The task of a job                                                          *)

\* What the step of a job's task leaves in its records
Tells(j) ==
  /\ RecordsTold(steps'[j])
  /\ TaskTold(state'[j], task'[j], at'[j], steps'[j])
  /\ task'[j] = "gpu" => steps'[j][at'[j]].attempts = 0 /\ MakeItem(NextItem(j))

\* A job that becomes something else
LEMMA BecomesIs ==
  ASSUME JInv, NEW j \in Jobs, NEW s, NEW tk, NEW a, NEW r, Becomes(j, s, tk, a, r)
  PROVE  state'[j] = s /\ task'[j] = tk /\ at'[j] = a /\ steps'[j] = r
  BY DEF JInv, JobTypes, Becomes

\* A step that is attempted or enqueued next has had no attempt.
LEMMA ProceedTells ==
  ASSUME JInv, NEW j \in Jobs, request[j] \in JobRequests,
         NEW n \in Nat, n >= 1, n <= Len(ChainOf(j)) + 1,
         NEW sr \in Seq(StepRecord), Len(sr) = Len(ChainOf(j)), ReadyAt(sr, n), RecordsTold(sr),
         NEW m, Proceed(j, n, sr, m)
  PROVE  Tells(j)
<1> DEFINE c    == ChainOf(j)
           miss == {k \in n .. Len(c) : ~Contains(m, MemoKey(j, k))}
           stop == IF miss = {} THEN Len(c) + 1
                   ELSE CHOOSE k \in miss : \A l \in miss : k <= l
           run  == [k \in DOMAIN sr |->
                      IF k \in n .. (stop - 1) THEN [sr[k] EXCEPT !.state = "succeeded"]
                      ELSE sr[k]]
<1>1. \/ n <= Len(c) /\ FinishCancelled(j, n, sr)
      \/ Finish(j, stop, run, "succeeded")
      \/ /\ state' = [state EXCEPT ![j] = "running"]
         /\ at' = [at EXCEPT ![j] = stop]
         /\ \/ /\ MakeItem(NextItem(j))
               /\ task' = [task EXCEPT ![j] = "gpu"]
               /\ steps' = [steps EXCEPT ![j] = run]
            \/ /\ task' = [task EXCEPT ![j] = "cpu"]
               /\ steps' = [steps EXCEPT ![j] = [run EXCEPT ![stop] = AttemptStarted(@)]]
  BY DEF Proceed
<1> HIDE DEF stop
<1>2. \A k \in 1 .. Len(sr) : sr[k] \in StepRecord /\ RecordTold(sr[k])
  BY DEF RecordsTold
<1>3. run \in Seq(StepRecord) /\ Len(run) = Len(sr) /\ Len(sr) \in Nat
      /\ \A k \in 1 .. Len(sr) : run[k] \in {sr[k], [sr[k] EXCEPT !.state = "succeeded"]}
  <2>1. DOMAIN sr = 1 .. Len(sr) /\ Len(sr) \in Nat
    OBVIOUS
  <2>2. \A k \in 1 .. Len(sr) : [sr[k] EXCEPT !.state = "succeeded"] \in StepRecord
    BY <1>2, SucceededRecord
  <2> QED
    BY <1>2, <2>1, <2>2
<1> HIDE DEF run
<1>4. RecordsTold(run) /\ \A k \in 1 .. Len(sr) : run[k].attempts = sr[k].attempts
  <2>1. ASSUME NEW k \in 1 .. Len(sr)
        PROVE  RecordTold(run[k]) /\ run[k].attempts = sr[k].attempts
    <3>1. sr[k] \in StepRecord /\ RecordTold(sr[k])
      BY <1>2
    <3>2. LET x == [sr[k] EXCEPT !.state = "succeeded"]
          IN  RecordTold(x) /\ x.attempts = sr[k].attempts
      BY <3>1, RecordsTell
    <3>3. run[k] = sr[k] \/ run[k] = [sr[k] EXCEPT !.state = "succeeded"]
      BY <1>3
    <3> QED
      BY <3>1, <3>2, <3>3
  <2> QED
    BY <1>3, <2>1 DEF RecordsTold
<1>5. CASE n <= Len(c) /\ FinishCancelled(j, n, sr)
  <2> DEFINE x == Interrupted(sr[n])
  <2>1. Becomes(j, "cancelled", "done", n, [sr EXCEPT ![n] = x])
    BY <1>5 DEF FinishCancelled, Finish, Becomes
  <2>2. n \in 1 .. Len(sr)
    BY <1>5
  <2>3. RecordTold(x)
    BY <1>2, <2>2, RecordsTell
  <2> HIDE DEF x
  <2>4. RecordsTold([sr EXCEPT ![n] = x])
    BY <2>2, <2>3, ToldUpdate
  <2> QED
    BY <2>1, <2>4, BecomesIs DEF Tells, TaskTold
<1>6. CASE Finish(j, stop, run, "succeeded")
  <2>1. Becomes(j, "succeeded", "done", stop, run)
    BY <1>6 DEF Finish, Becomes
  <2> QED
    BY <1>4, <2>1, BecomesIs DEF Tells, TaskTold
<1>7. ASSUME state' = [state EXCEPT ![j] = "running"], at' = [at EXCEPT ![j] = stop]
      PROVE  /\ state'[j] = "running" /\ at'[j] = stop /\ stop \in 1 .. Len(sr)
             /\ sr[stop].attempts = 0 /\ run[stop].attempts = 0
  <2>1. state'[j] = "running" /\ at'[j] = stop
    BY <1>7 DEF JInv, JobTypes
  <2>2. at'[j] \in n .. Len(sr)
    <3>1. PICK r \in Seq(StepRecord), a \in Nat :
            /\ Len(r) = Len(sr) /\ a >= n
            /\ \/ /\ Becomes(j, "cancelled", "done", a, r) /\ ClosedAs(r, "cancelled")
                  /\ j \in cancelRequested /\ DoneBefore(r, n) /\ UNCHANGED vars
               \/ /\ Becomes(j, "succeeded", "done", a, r) /\ ClosedAs(r, "succeeded")
                  /\ n <= Len(r) => j \notin cancelRequested
                  /\ UNCHANGED vars
               \/ /\ a \in n .. Len(r) /\ UnderWayAt(r, a) /\ j \notin cancelRequested
                  /\ \/ Becomes(j, "running", "cpu", a, r) /\ UNCHANGED vars
                     \/ /\ Becomes(j, "running", "gpu", a, r) /\ MakeItem(NextItem(j))
                        /\ ChainOf(j)[a] \in GpuSteps /\ ~r[a].open
      BY ProceedEffect
    <3>2. \/ state'[j] \in {"cancelled", "succeeded"}
          \/ a \in n .. Len(r) /\ at'[j] = a
      BY <3>1, BecomesIs
    <3> QED
      BY <2>1, <3>1, <3>2
  <2>3. stop \in 1 .. Len(sr) /\ stop >= n
    BY <1>3, <2>1, <2>2
  <2>4. sr[stop].state = "pending"
    BY <2>3 DEF ReadyAt
  <2>5. sr[stop].attempts = 0 /\ run[stop].attempts = sr[stop].attempts
    BY <1>2, <1>4, <2>3, <2>4 DEF RecordTold
  <2> QED
    BY <2>1, <2>3, <2>5
<1>8. CASE /\ state' = [state EXCEPT ![j] = "running"] /\ at' = [at EXCEPT ![j] = stop]
           /\ MakeItem(NextItem(j)) /\ task' = [task EXCEPT ![j] = "gpu"]
           /\ steps' = [steps EXCEPT ![j] = run]
  <2>1. steps'[j] = run /\ task'[j] = "gpu"
    BY <1>8 DEF JInv, JobTypes
  <2> QED
    BY <1>4, <1>7, <1>8, <2>1 DEF Tells, TaskTold
<1>9. CASE /\ state' = [state EXCEPT ![j] = "running"] /\ at' = [at EXCEPT ![j] = stop]
           /\ task' = [task EXCEPT ![j] = "cpu"]
           /\ steps' = [steps EXCEPT ![j] = [run EXCEPT ![stop] = AttemptStarted(@)]]
  <2> DEFINE x == AttemptStarted(run[stop])
             r == [run EXCEPT ![stop] = x]
  <2>1. steps'[j] = r /\ task'[j] = "cpu"
    <3>1. steps' = [steps EXCEPT ![j] = r]
      BY <1>9
    <3> HIDE DEF r
    <3> QED
      BY <1>9, <3>1 DEF JInv, JobTypes
  <2>2. stop \in 1 .. Len(sr) /\ run[stop].attempts < MaxAttempts /\ run[stop] \in StepRecord
        /\ RecordTold(run[stop])
    <3>1. stop \in 1 .. Len(sr) /\ run[stop].attempts = 0
      BY <1>7, <1>9
    <3>2. MaxAttempts \in Nat /\ MaxAttempts >= 1
      BY RetryAssumption
    <3> QED
      BY <1>3, <1>4, <3>1, <3>2 DEF RecordsTold
  <2>3. RecordTold(x) /\ x.state = "running"
    BY <2>2, RecordsTell
  <2> HIDE DEF x
  <2>4. RecordsTold(r) /\ r[stop] = x
    <3>1. run \in Seq(StepRecord) /\ stop \in 1 .. Len(run) /\ RecordsTold(run)
      BY <1>3, <1>4, <2>2
    <3> QED
      BY <2>3, <3>1, ToldUpdate
  <2> HIDE DEF r
  <2> QED
    BY <1>7, <1>9, <2>1, <2>3, <2>4 DEF Tells, TaskTold
<1> QED
  BY <1>1, <1>5, <1>6, <1>8, <1>9

\* A step that ends as sr says and leaves the job over, or waiting
LEMMA SuccessTells ==
  ASSUME JInv, NEW j \in Jobs, NEW sr, Runnable(j, sr), task[j] \in AtStep, RecordsTold(sr),
         UnderWayAt(sr, at[j]), ~sr[at[j]].open, StepSucceeds(j, sr)
  PROVE  Tells(j)
<1> DEFINE a == at[j]
           x == [sr[a] EXCEPT !.state = "succeeded"]
           r == [sr EXCEPT ![a].state = "succeeded"]
<1>1. /\ a \in 1 .. Len(sr) /\ Len(sr) \in Nat /\ sr \in Seq(StepRecord)
      /\ request[j] \in JobRequests /\ Len(sr) = Len(ChainOf(j))
  BY RunnableFacts DEF Runnable
<1>2. Proceed(j, a + 1, r, Remember(memo, MemoKey(j, a)))
  BY DEF StepSucceeds
<1>3. r \in Seq(StepRecord) /\ Len(r) = Len(sr) /\ ReadyAt(r, a + 1) /\ r = [sr EXCEPT ![a] = x]
  BY <1>1, SucceededReady
<1>4. RecordTold(x)
  <2>1. sr[a] \in StepRecord /\ RecordTold(sr[a])
    BY <1>1 DEF RecordsTold
  <2> QED
    BY <2>1, RecordsTell
<1> HIDE DEF r, x
<1>5. RecordsTold(r)
  BY <1>1, <1>3, <1>4, ToldUpdate
<1>6. a + 1 \in Nat /\ a + 1 >= 1 /\ a + 1 <= Len(ChainOf(j)) + 1
  BY <1>1
<1> QED
  BY <1>1, <1>2, <1>3, <1>5, <1>6, ProceedTells

LEMMA FailureTells ==
  ASSUME JInv, NEW j \in Jobs, NEW sr, Runnable(j, sr), task[j] \in AtStep, RecordsTold(sr),
         sr[at[j]].state = "retrying" => sr[at[j]].attempts = MaxAttempts, FinishFailed(j, sr)
  PROVE  Tells(j)
<1> DEFINE a == at[j]
           x == Failed(sr[a])
           r == [sr EXCEPT ![a] = x]
<1>1. a \in 1 .. Len(sr) /\ sr \in Seq(StepRecord) /\ sr[a] \in StepRecord /\ RecordTold(sr[a])
  <2>1. a \in 1 .. Len(sr) /\ sr \in Seq(StepRecord)
    BY RunnableFacts DEF Runnable
  <2> QED
    BY <2>1 DEF RecordsTold
<1>2. Becomes(j, "failed", "done", a, r)
  BY DEF FinishFailed, Finish, Becomes
<1>3. /\ RecordTold(x) /\ x.attempts = sr[a].attempts
      /\ x.error = IF sr[a].state = "retrying" THEN "transient_exhausted" ELSE "permanent"
  BY <1>1, RecordsTell
<1> HIDE DEF x
<1>4. RecordsTold(r) /\ r[a] = x
  BY <1>1, <1>3, ToldUpdate
<1> HIDE DEF r
<1>5. state'[j] = "failed" /\ task'[j] = "done" /\ at'[j] = a /\ steps'[j] = r
  BY <1>2, BecomesIs
<1> QED
  BY <1>3, <1>4, <1>5 DEF Tells, TaskTold

LEMMA CancelTells ==
  ASSUME JInv, NEW j \in Jobs, NEW sr, Runnable(j, sr), task[j] \in AtStep, RecordsTold(sr),
         FinishCancelled(j, at[j], sr)
  PROVE  Tells(j)
<1> DEFINE a == at[j]
           x == Interrupted(sr[a])
           r == [sr EXCEPT ![a] = x]
<1>1. a \in 1 .. Len(sr) /\ sr \in Seq(StepRecord) /\ sr[a] \in StepRecord /\ RecordTold(sr[a])
  <2>1. a \in 1 .. Len(sr) /\ sr \in Seq(StepRecord)
    BY RunnableFacts DEF Runnable
  <2> QED
    BY <2>1 DEF RecordsTold
<1>2. Becomes(j, "cancelled", "done", a, r)
  BY DEF FinishCancelled, Finish, Becomes
<1>3. RecordTold(x)
  BY <1>1, RecordsTell
<1> HIDE DEF x
<1>4. RecordsTold(r)
  BY <1>1, <1>3, ToldUpdate
<1> HIDE DEF r
<1>5. state'[j] = "cancelled" /\ task'[j] = "done" /\ steps'[j] = r
  BY <1>2, BecomesIs
<1> QED
  BY <1>4, <1>5 DEF Tells, TaskTold

\* The facts about the step of a job's task, with nothing of the job due
LEMMA ToldFacts ==
  ASSUME JInv, ToldFit, NEW j \in Jobs, Runnable(j, steps[j])
  PROVE  /\ RecordsTold(steps[j]) /\ TaskTold(state[j], task[j], at[j], steps[j])
         /\ task[j] = "gpu" => ItemTold(future, attempts, worker, holding, CurItem(j), steps[j][at[j]])
         /\ task[j] \in AtStep =>
              /\ at[j] \in 1 .. Len(steps[j]) /\ UnderWayAt(steps[j], at[j]) /\ state[j] = "running"
              /\ steps[j][at[j]] \in StepRecord /\ RecordTold(steps[j][at[j]])
              /\ steps[j][at[j]].state \in {"pending", "running", "retrying"}
<1>1. JobTold(j) /\ steps[j] \in Seq(StepRecord)
  BY DEF ToldFit, Runnable
<1>2. ASSUME task[j] \in AtStep
      PROVE  at[j] \in 1 .. Len(steps[j]) /\ UnderWayAt(steps[j], at[j]) /\ state[j] = "running"
  <2>1. RecordsFit(request[j], state[j], task[j], at[j], steps[j])
    BY JobFacts
  <2> QED
    BY <1>2, <2>1 DEF RecordsFit
<1> QED
  BY <1>1, <1>2 DEF JobTold, RecordsTold, UnderWayAt

\* An attempt of a CPU step that ends as a transient failure is recorded so.
LEMMA CpuAttemptTells ==
  ASSUME JInv, ToldFit, NEW j \in Jobs, NEW o \in Outcomes, CpuAttemptEnds(j, o)
  PROVE  Tells(j)
<1> DEFINE a    == at[j]
           y    == steps[j][a]
           x    == AttemptFinished(y, o)
           sr   == [steps[j] EXCEPT ![a] = x]
           next == AfterAttempt(o, sr[a].attempts, SeesCancel(j))
<1>1. /\ task[j] = "cpu" /\ task[j] \in AtStep /\ UNCHANGED <<request, byKey, cancelRequested, phase>>
      /\ \/ next = "result" /\ StepSucceeds(j, sr)
         \/ next = "failed" /\ FinishFailed(j, sr)
         \/ FinishCancelled(j, at[j], sr)
         \/ /\ next = "backoff" /\ steps' = [steps EXCEPT ![j] = sr]
            /\ task' = [task EXCEPT ![j] = "cpuBackoff"] /\ UNCHANGED <<state, at>>
  BY DEF CpuAttemptEnds, AtStep
<1>2. Runnable(j, steps[j])
  <2>1. steps[j] \in Seq(StepRecord) /\ NothingDue(future, releasing, j)
    BY <1>1, JobFacts DEF JobItems
  <2> QED
    BY <1>1, <2>1 DEF Runnable
<1>3. /\ RecordsTold(steps[j]) /\ a \in 1 .. Len(steps[j]) /\ UnderWayAt(steps[j], a)
      /\ y \in StepRecord /\ RecordTold(y) /\ y.state = "running" /\ state[j] = "running"
      /\ steps[j] \in Seq(StepRecord)
  BY <1>1, <1>2, ToldFacts DEF TaskTold, Runnable
<1> HIDE DEF y
<1>4. /\ x \in StepRecord /\ ~x.open /\ RecordTold(x) /\ x.attempts = y.attempts
      /\ x.state = IF o = "transient" THEN "retrying" ELSE "running"
  BY <1>3, RecordsTell, FinishedRecord
<1>5. x.attempts \in Nat /\ x.attempts <= MaxAttempts /\ MaxAttempts \in Nat
  BY <1>4, RetryAssumption DEF RecordTold, StepRecord
<1> HIDE DEF x
<1>6. /\ sr \in Seq(StepRecord) /\ Len(sr) = Len(steps[j]) /\ sr[a] = x /\ UnderWayAt(sr, a)
      /\ RecordsTold(sr)
  BY <1>3, <1>4, UnderWayKept, ToldUpdate
<1> HIDE DEF sr
<1>7. next = "failed" /\ o = "transient" => x.attempts = MaxAttempts
  <2>1. next = "failed" /\ o = "transient" => x.attempts >= MaxAttempts
    BY <1>6 DEF AfterAttempt
  <2> QED
    BY <1>5, <2>1
<1>8. next = "backoff" => x.attempts < MaxAttempts
  BY <1>5, <1>6 DEF AfterAttempt
<1> HIDE DEF next
<1>9. Runnable(j, sr) /\ ~sr[a].open
  BY <1>2, <1>4, <1>6 DEF Runnable
<1>10. CASE StepSucceeds(j, sr)
  BY <1>1, <1>6, <1>9, <1>10, SuccessTells
<1>11. CASE next = "failed" /\ FinishFailed(j, sr)
  <2>1. sr[a].state = "retrying" => sr[a].attempts = MaxAttempts
    BY <1>4, <1>6, <1>7, <1>11
  <2> QED
    BY <1>1, <1>6, <1>9, <1>11, <2>1, FailureTells
<1>12. CASE FinishCancelled(j, at[j], sr)
  BY <1>1, <1>6, <1>9, <1>12, CancelTells
<1>13. CASE /\ next = "backoff" /\ steps' = [steps EXCEPT ![j] = sr]
            /\ task' = [task EXCEPT ![j] = "cpuBackoff"] /\ UNCHANGED <<state, at>>
  <2>1. state'[j] = "running" /\ task'[j] = "cpuBackoff" /\ at'[j] = a /\ steps'[j] = sr
    BY <1>3, <1>13 DEF JInv, JobTypes
  <2> QED
    BY <1>6, <1>8, <1>13, <2>1 DEF Tells, TaskTold
<1> QED
  BY <1>1, <1>10, <1>11, <1>12, <1>13

LEMMA CpuBackoffTells ==
  ASSUME JInv, ToldFit, NEW j \in Jobs, CpuBackoffDone(j)
  PROVE  Tells(j)
<1> DEFINE a  == at[j]
           x  == AttemptStarted(steps[j][a])
           sr == [steps[j] EXCEPT ![a] = x]
<1>1. /\ task[j] = "cpuBackoff" /\ UNCHANGED <<request, byKey, cancelRequested, phase>>
      /\ steps' = [steps EXCEPT ![j] = [steps[j] EXCEPT ![a] = AttemptStarted(@)]]
      /\ task' = [task EXCEPT ![j] = "cpu"]
      /\ UNCHANGED <<state, at>>
  BY DEF CpuBackoffDone
<1>2. Runnable(j, steps[j])
  <2>1. steps[j] \in Seq(StepRecord) /\ NothingDue(future, releasing, j)
    BY <1>1, JobFacts DEF JobItems
  <2> QED
    BY <1>1, <2>1 DEF Runnable
<1>3. /\ RecordsTold(steps[j]) /\ a \in 1 .. Len(steps[j]) /\ steps[j] \in Seq(StepRecord)
      /\ steps[j][a] \in StepRecord /\ RecordTold(steps[j][a]) /\ state[j] = "running"
      /\ steps[j][a].attempts < MaxAttempts
  BY <1>1, <1>2, ToldFacts DEF TaskTold, Runnable, AtStep
<1>4. RecordTold(x) /\ x.state = "running"
  BY <1>3, RecordsTell
<1>5. steps' = [steps EXCEPT ![j] = sr]
  BY <1>1
<1> HIDE DEF x
<1>6. RecordsTold(sr) /\ sr[a] = x
  BY <1>3, <1>4, ToldUpdate
<1> HIDE DEF sr
<1>7. state'[j] = "running" /\ task'[j] = "cpu" /\ at'[j] = a /\ steps'[j] = sr
  BY <1>1, <1>3, <1>5 DEF JInv, JobTypes
<1> QED
  BY <1>4, <1>6, <1>7 DEF Tells, TaskTold

\* An item that failed after a transient failure had used up its attempts.
LEMMA GpuItemTells ==
  ASSUME ItemInv, LedgerInv, JInv, ToldFit, NEW j \in Jobs, GpuItemEnds(j)
  PROVE  Tells(j)
<1>1. /\ Delivered(j) /\ UNCHANGED <<request, byKey, cancelRequested, phase>>
      /\ \/ future[CurItem(j)] = "result" /\ StepSucceeds(j, steps[j])
         \/ future[CurItem(j)] = "failed" /\ FinishFailed(j, steps[j])
         \/ FinishCancelled(j, at[j], steps[j])
  BY DEF GpuItemEnds
<1>2. task[j] = "gpu" /\ future[CurItem(j)] # "pending" /\ CurItem(j) = <<j, MadeIn(future, j)>>
  BY <1>1 DEF Delivered, CurItem, Made, MadeIn
<1>3. Runnable(j, steps[j])
  BY <1>1, <1>2, DeliveredDone, JobFacts DEF Runnable
<1>4. /\ task[j] \in AtStep /\ RecordsTold(steps[j]) /\ UnderWayAt(steps[j], at[j])
      /\ ItemTold(future, attempts, worker, holding, CurItem(j), steps[j][at[j]])
  BY <1>2, <1>3, ToldFacts DEF AtStep
<1>5. future[CurItem(j)] # "cancelled" => ~steps[j][at[j]].open
  BY <1>1, SettledClosed DEF Delivered
<1>6. CASE future[CurItem(j)] = "result" /\ StepSucceeds(j, steps[j])
  BY <1>3, <1>4, <1>5, <1>6, SuccessTells
<1>7. CASE future[CurItem(j)] = "failed" /\ FinishFailed(j, steps[j])
  <2>1. steps[j][at[j]].state = "retrying" => steps[j][at[j]].attempts = MaxAttempts
    BY <1>4, <1>7 DEF ItemTold
  <2> QED
    BY <1>3, <1>4, <1>7, <2>1, FailureTells
<1>8. CASE FinishCancelled(j, at[j], steps[j])
  BY <1>3, <1>4, <1>8, CancelTells
<1> QED
  BY <1>1, <1>6, <1>7, <1>8

\* The first step of a task, and the one that stop() cancels
LEMMA EdgesTell ==
  ASSUME JInv, ToldFit, NEW j \in Jobs,
         \/ JobBegins(j)
         \/ TaskCancelled(j) /\ task[j] # "gpu"
  PROVE  Tells(j)
<1>1. CASE JobBegins(j)
  <2>1. /\ task[j] = "created" /\ Proceed(j, 1, steps[j], memo)
        /\ UNCHANGED <<request, byKey, cancelRequested, phase>>
    BY <1>1 DEF JobBegins
  <2>2. NothingDue(future, releasing, j) /\ steps[j] \in Seq(StepRecord)
    BY <2>1, JobFacts DEF JobItems
  <2>3. Runnable(j, steps[j])
    BY <2>1, <2>2 DEF Runnable
  <2>4. /\ request[j] \in JobRequests /\ Len(steps[j]) = Len(ChainOf(j))
        /\ ReadyAt(steps[j], 1) /\ 1 <= Len(ChainOf(j)) + 1 /\ RecordsTold(steps[j])
    BY <2>1, <2>3, RunnableFacts, ToldFacts
  <2> QED
    BY <2>1, <2>2, <2>4, ProceedTells
<1>2. CASE TaskCancelled(j) /\ task[j] # "gpu"
  <2>1. /\ task[j] \in {"cpu", "cpuBackoff"} /\ FinishCancelled(j, at[j], steps[j])
        /\ UNCHANGED <<request, byKey, cancelRequested, phase>>
    BY <1>2 DEF TaskCancelled
  <2>2. NothingDue(future, releasing, j) /\ steps[j] \in Seq(StepRecord)
    BY <2>1, JobFacts DEF JobItems
  <2>3. Runnable(j, steps[j]) /\ task[j] \in AtStep
    BY <2>1, <2>2 DEF Runnable, AtStep
  <2> QED
    BY <2>1, <2>3, ToldFacts, CancelTells
<1> QED
  BY <1>1, <1>2

-----------------------------------------------------------------------------
(* What is told stays so                                                      *)

LEMMA CurItemNext ==
  ASSUME NEW j
  PROVE  CurItem(j)' = <<j, MadeIn(future', j)>> /\ CurItem(j) = <<j, MadeIn(future, j)>>
  BY DEF CurItem, Made, MadeIn

\* A job that a step passes by
LEMMA RestTells ==
  ASSUME TypeOK, JInv, ToldFit, RunnersRest, NEW k \in Jobs,
         state'[k] = state[k], task'[k] = task[k], at'[k] = at[k], steps'[k] = steps[k],
         MadeIn(future', k) = MadeIn(future, k)
  PROVE  JobTold(k)'
<1>1. JobTold(k) /\ CurItem(k)' = CurItem(k)
  BY CurItemNext DEF ToldFit
<1>2. ASSUME task[k] = "gpu"
      PROVE  ItemTold(future', attempts', worker', holding', CurItem(k), steps[k][at[k]])
  <2>1. /\ CurItem(k) \in Items
        /\ ItemTold(future, attempts, worker, holding, CurItem(k), steps[k][at[k]])
    BY <1>1, <1>2, CurItemType DEF JobTold
  <2> QED
    BY <2>1 DEF ItemTold, RunnersRest, Executes
<1> QED
  BY <1>1, <1>2 DEF JobTold

\* The job whose task runs, and the item it makes
LEMMA GoesOnTells ==
  ASSUME SInv, JInv, ToldFit, NEW j \in Jobs, Tells(j),
         NEW s, NEW tk, NEW a, NEW r, JobGoesOn(j, s, tk, a, r)
  PROVE  ToldFit'
<1>0. TypeOK /\ ItemInv /\ LedgerInv
  BY DEF SInv, IInv
<1>1. \A k \in Jobs : /\ state'[k] = IF k = j THEN s ELSE state[k]
                      /\ task'[k] = IF k = j THEN tk ELSE task[k]
                      /\ at'[k] = IF k = j THEN a ELSE at[k]
                      /\ steps'[k] = IF k = j THEN r ELSE steps[k]
  BY <1>0, GoesOnRecords
<1>2. CASE tk \in {"cpu", "cpuBackoff", "done"} /\ UNCHANGED vars
  <2>1. RunnersRest
    BY <1>0, <1>2, CallsRest
  <2>2. \A k \in Jobs : MadeIn(future', k) = MadeIn(future, k)
    BY <1>2 DEF vars, itemVars, MadeIn
  <2>3. \A k \in Jobs : k # j => JobTold(k)'
    BY <1>0, <1>1, <2>1, <2>2, RestTells
  <2>4. JobTold(j)'
    BY <1>1, <1>2 DEF Tells, JobTold
  <2> QED
    BY <2>3, <2>4 DEF ToldFit
<1>3. CASE /\ tk = "gpu" /\ MakeItem(NextItem(j))
           /\ a > at[j] /\ a \in 1 .. Len(ChainOf(j)) /\ ChainOf(j)[a] \in GpuSteps
  <2> DEFINE n == MadeIn(future, j) + 1
             i == <<j, n>>
  <2>1. /\ task[j] # "none" /\ ChainOf(j) \in Seq(Steps) /\ GpuItemCount(ChainOf(j)) <= MaxSteps
        /\ JobItems(future, releasing, j, task[j], ChainOf(j), at[j])
        /\ at[j] \in Nat /\ at[j] < a /\ NothingDue(future, releasing, j)
    <3>1. a \in Nat
      BY DEF JobGoesOn
    <3> QED
      BY <1>3, <3>1, JobFacts DEF JobGoesOn
  <2>2. NextItem(j) = i /\ i \in Items /\ n \in 1 .. MaxSteps
    BY <1>3, <2>1, RoomForItem
  <2>3. MadeIn(future', j) = n
    BY <1>0, <1>3, <2>1, ItemsMade
  <2> HIDE DEF n, i
  <2>4. /\ future[i] = "none" /\ future'[i] = "pending"
        /\ UNCHANGED <<attempts, worker, holding>>
    BY <1>0, <1>3, <2>2, ItemTypes DEF MakeItem, ReachesStep
  <2>5. attempts[i] = 0 /\ \A w \in Workers : holding[w] # i
    <3>1. i # NoItem
      BY <1>0, <2>2, ItemTypes
    <3> QED
      BY <1>0, <2>2, <2>4, <3>1 DEF ItemInv, QueueFresh, HoldersExecute
  <2>6. RunnersRest
    BY <1>0, <1>3, <2>2, CallsRest
  <2>7. ASSUME NEW k \in Jobs, k # j
        PROVE  JobTold(k)'
    <3>1. MakeItem(<<j, n>>)
      BY <1>3, <2>2 DEF i
    <3>2. MadeIn(future', k) = MadeIn(future, k)
      BY <1>0, <2>2, <2>7, <3>1, ItemsOfOther
    <3> QED
      BY <1>0, <1>1, <2>6, <2>7, <3>2, RestTells
  <2>8. JobTold(j)'
    <3>1. CurItem(j)' = i
      BY <2>3, CurItemNext DEF i
    <3>2. steps'[j][at'[j]].attempts = 0
      BY <1>1, <1>3 DEF Tells
    <3>3. ItemTold(future', attempts', worker', holding', i, steps'[j][at'[j]])
      BY <2>4, <2>5, <3>2 DEF ItemTold
    <3> QED
      BY <3>1, <3>3 DEF Tells, JobTold
  <2> QED
    BY <2>7, <2>8 DEF ToldFit
<1> QED
  BY <1>2, <1>3 DEF JobGoesOn

-----------------------------------------------------------------------------
(* The runners and their observers                                            *)

LEMMA RunnerOnTells ==
  ASSUME TypeOK, ItemInv, NEW w \in Workers, RunnerOn(w)
  PROVE  \E e, o : Observe(e, o) /\ RunnerTells(w, e, o)
  BY LookingTells, RunnerTellsOther DEF RunnerOn

\* The record of the item i that job j awaits, after a step of the runner on w
LEMMA ObservedTells ==
  ASSUME SInv, JInv, ToldFit, WithinBudget', NEW w \in Workers, NEW e, NEW o, RunnerTells(w, e, o),
         NEW j \in Jobs, task[j] = "gpu", NEW r \in StepRecord, RecordTold(r),
         ItemTold(future, attempts, worker, holding, CurItem(j), r)
  PROVE  LET i == CurItem(j)
             x == IF i = e THEN AttemptFinished(r, o)
                  ELSE IF attempts'[i] > attempts[i] THEN AttemptStarted(r) ELSE r
         IN  RecordTold(x) /\ ItemTold(future', attempts', worker', holding', i, x)
<1> DEFINE i == CurItem(j)
           x == IF i = e THEN AttemptFinished(r, o)
                ELSE IF attempts'[i] > attempts[i] THEN AttemptStarted(r) ELSE r
<1>1. i \in Items /\ i # NoItem
  <2>1. i \in Items
    BY CurItemType
  <2> QED
    BY <2>1, ItemTypes DEF SInv, IInv
<1>2. /\ attempts[i] \in Nat /\ r.attempts = attempts[i] /\ MaxAttempts \in Nat
      /\ attempts[i] <= MaxAttempts /\ attempts'[i] <= MaxAttempts
  <2>1. attempts[i] \in Nat /\ MaxAttempts \in Nat
    BY <1>1, ItemTypes, RetryAssumption DEF SInv, IInv
  <2> QED
    BY <1>1, <2>1 DEF ItemTold, RecordTold, WithinBudget
<1> HIDE DEF i
<1>3. \/ attempts'[i] = attempts[i]
      \/ attempts'[i] = attempts[i] + 1 /\ i # e /\ future'[i] = "pending"
  BY <1>1 DEF RunnerTells
<1>4. i = e => i = holding[w] /\ worker[w] = "running" /\ r.state = "running" /\ future[i] = "pending"
  <2>1. i = e => i = holding[w] /\ worker[w] = "running"
    BY <1>1 DEF RunnerTells
  <2>2. i = holding[w] => future[i] = "pending"
    BY <1>1 DEF SInv, ItemInv, HoldersExecute
  <2> QED
    BY <2>1, <2>2 DEF ItemTold, i
<1>5. CASE i = e
  <2>1. x = AttemptFinished(r, o) /\ attempts'[i] = attempts[i]
    BY <1>3, <1>5
  <2>2. RecordTold(x) /\ x.attempts = r.attempts /\ x.state = IF o = "transient" THEN "retrying" ELSE r.state
    <3>1. /\ RecordTold(AttemptFinished(r, o)) /\ AttemptFinished(r, o).attempts = r.attempts
          /\ AttemptFinished(r, o).state = IF o = "transient" THEN "retrying" ELSE r.state
      BY RecordsTell
    <3> HIDE DEF x
    <3> QED
      BY <2>1, <3>1
  <2> HIDE DEF x
  <2>3. \A v \in Workers : ~(holding'[v] = i /\ worker'[v] = "running")
    <3>1. ASSUME NEW v \in Workers, holding'[v] = i, worker'[v] = "running"
          PROVE  FALSE
      <4>1. CASE v = w
        BY <1>2, <2>1, <3>1, <4>1 DEF RunnerTells
      <4>2. CASE v # w
        <5>1. holding[v] = i
          BY <3>1, <4>2 DEF RunnerTells
        <5> QED
          BY <1>1, <1>4, <1>5, <4>2, <5>1 DEF SInv, ItemInv, HoldersExecute
      <4> QED
        BY <4>1, <4>2
    <3> QED
      BY <3>1
  <2>4. future'[i] = "failed" /\ x.state = "retrying" => x.attempts = MaxAttempts
    <3>1. future'[i] = "failed" => (o = "transient" => attempts[i] >= MaxAttempts)
      BY <1>1, <1>4, <1>5 DEF RunnerTells
    <3> QED
      BY <1>2, <1>4, <1>5, <2>2, <3>1
  <2>5. ItemTold(future', attempts', worker', holding', i, x)
    BY <1>2, <2>1, <2>2, <2>3, <2>4 DEF ItemTold
  <2>6. RecordTold(x) /\ ItemTold(future', attempts', worker', holding', i, x)
    BY <2>2, <2>5
  <2> QED
    BY <2>6 DEF i, x
<1>6. CASE i # e /\ attempts'[i] = attempts[i] + 1 /\ future'[i] = "pending"
  <2>1. attempts'[i] > attempts[i] /\ r.attempts < MaxAttempts
    BY <1>2, <1>6
  <2>2. x = AttemptStarted(r)
    BY <1>6, <2>1
  <2>3. RecordTold(x) /\ x.attempts = attempts'[i] /\ x.state = "running"
    BY <1>2, <1>6, <2>1, <2>2, RecordsTell
  <2> HIDE DEF x
  <2>4. ItemTold(future', attempts', worker', holding', i, x)
    BY <1>6, <2>3 DEF ItemTold
  <2> QED
    BY <2>3, <2>4 DEF i, x
<1>7. CASE i # e /\ attempts'[i] = attempts[i]
  <2>1. x = r
    BY <1>2, <1>7
  <2>2. ASSUME NEW v \in Workers, holding'[v] = i, worker'[v] = "running"
        PROVE  r.state = "running"
    <3>1. v # w
      BY <1>2, <1>7, <2>2 DEF RunnerTells
    <3>2. holding[v] = i /\ worker[v] = "running"
      BY <2>2, <3>1 DEF RunnerTells
    <3> QED
      BY <3>2 DEF ItemTold, i
  <2>3. future'[i] = "failed" => future[i] = "failed"
    BY <1>1, <1>7 DEF RunnerTells
  <2>4. ItemTold(future', attempts', worker', holding', i, r)
    BY <1>2, <1>7, <2>2, <2>3 DEF ItemTold, i
  <2> QED
    BY <2>1, <2>4 DEF i, x
<1> QED
  BY <1>3, <1>5, <1>6, <1>7 DEF i, x

LEMMA RunsTell ==
  ASSUME SInv, JInv, ToldFit, WithinBudget', NEW w \in Workers, Runs(w)
  PROVE  ToldFit'
<1>0. TypeOK /\ ItemInv
  BY DEF SInv, IInv
<1>1. PICK e, o : Observe(e, o) /\ RunnerTells(w, e, o)
  BY <1>0, RunnerOnTells DEF Runs
<1>2. /\ UNCHANGED <<request, byKey, state, at, task>>
      /\ \A j \in Jobs : MadeIn(future', j) = MadeIn(future, j)
  <2>1. \E g, p : Observe(g, p) /\ RunnerMoves(w, g)
    BY <1>0, RunnerOnMoves DEF Runs
  <2>2. Settling /\ UNCHANGED <<byJob, caller>>
    BY <2>1 DEF RunnerMoves
  <2> QED
    BY <2>2, BesideJobs DEF Runs
<1>3. ASSUME NEW j \in Jobs
      PROVE  JobTold(j)'
  <2>1. JobTold(j) /\ steps[j] \in Seq(StepRecord) /\ CurItem(j)' = CurItem(j)
    BY <1>2, CurItemNext, JobFacts DEF ToldFit
  <2>2. CASE task[j] # "gpu"
    <3>1. steps'[j] = steps[j]
      BY <1>1, <2>2, ObserveEffect
    <3> QED
      BY <1>2, <2>1, <2>2, <3>1 DEF JobTold
  <2>3. CASE task[j] = "gpu"
    <3> DEFINE r == steps[j][at[j]]
               i == CurItem(j)
               x == IF i = e THEN AttemptFinished(r, o)
                    ELSE IF attempts'[i] > attempts[i] THEN AttemptStarted(r) ELSE r
    <3>1. steps'[j] = [steps[j] EXCEPT ![at[j]] = x]
      BY <1>1, <2>3 DEF Observe
    <3>2. at[j] \in 1 .. Len(steps[j]) /\ state[j] = "running"
      BY <2>3, JobFacts DEF RecordsFit, AtStep
    <3>3. /\ r \in StepRecord /\ RecordTold(r)
          /\ ItemTold(future, attempts, worker, holding, i, r)
      BY <2>1, <2>3, <3>2 DEF JobTold, RecordsTold
    <3>4. RecordTold(x) /\ ItemTold(future', attempts', worker', holding', i, x)
      BY <1>1, <2>3, <3>3, ObservedTells
    <3> HIDE DEF x
    <3>5. RecordsTold(steps'[j]) /\ steps'[j][at[j]] = x
      BY <2>1, <3>1, <3>2, <3>4, ToldUpdate DEF JobTold
    <3>6. TaskTold(state[j], "gpu", at[j], steps'[j])
      BY <3>2 DEF TaskTold
    <3> QED
      BY <1>2, <2>1, <2>3, <3>4, <3>5, <3>6 DEF JobTold
  <2> QED
    BY <2>2, <2>3
<1> QED
  BY <1>3 DEF ToldFit

-----------------------------------------------------------------------------
(* The other steps of the service                                             *)

\* start(), cancel(), the callbacks and stop()
LEMMA CallsTell ==
  ASSUME TypeOK, JInv, ToldFit,
         \/ ServiceStart \/ Callbacks \/ StopBegins \/ RunnersGone \/ CancelTasks \/ StopReturned
         \/ UNCHANGED svars
         \/ \E j \in Jobs : Cancel(j) \/ (task[j] = "gpu" /\ TaskCancelled(j))
  PROVE  ToldFit'
<1>1. UNCHANGED <<request, byKey, state, steps, at, task>>
  BY DEF ServiceStart, Callbacks, StopBegins, RunnersGone, CancelTasks, StopReturned, Cancel,
     TaskCancelled, jobVars, svars
<1>2. \/ UNCHANGED vars
      \/ Start \/ StopBegin \/ StopNoRunners \/ StopFlush \/ RunnerStart
      \/ OnRunnerDone \/ CancelSpawned
      \/ \E i \in Items : CancelItem(i) \/ AbandonItem(i) \/ ReleaseCallback(i)
  BY CurItemType DEF ServiceStart, Callbacks, StopBegins, RunnersGone, CancelTasks, StopReturned,
     Cancel, TaskCancelled, svars
<1>3. RunnersRest
  BY <1>2, CallsRest
<1>4. \A j \in Jobs : MadeIn(future', j) = MadeIn(future, j)
  <2>1. Settling /\ UNCHANGED <<byJob, caller>>
    BY <1>2, CallsSettle
  <2> QED
    BY <1>1, <2>1, BesideJobs
<1>5. \A j \in Jobs : JobTold(j)'
  BY <1>1, <1>3, <1>4, RestTells
<1> QED
  BY <1>5 DEF ToldFit

\* Jobs come and go.
LEMMA JobsTell ==
  ASSUME TypeOK, JInv, ToldFit, NEW j \in Jobs,
         OnDone(j) \/ \E r \in Requests : Submit(j, r)
  PROVE  ToldFit'
<1>1. RunnersRest /\ \A k \in Jobs : MadeIn(future', k) = MadeIn(future, k)
  <2>1. FinalizeJob(j) \/ \E n \in Nat : Admit(j, n)
    <3>1. ASSUME NEW r \in Requests, Submit(j, r)
          PROVE  \E n \in Nat : Admit(j, n)
      <4>1. Accepts(r.chain) /\ Admit(j, GpuItemCount(JobRequest(r).chain))
        BY <3>1 DEF Submit
      <4>2. GpuItemCount(JobRequest(r).chain) \in Nat
        <5>1. GpuItemCount(JobRequest(r).chain) \in 0 .. MaxSteps
          BY <4>1, NewJob
        <5> QED
          BY <5>1, SchedulerAssumption
      <4> QED
        BY <4>1, <4>2
    <3> QED
      BY <3>1 DEF OnDone
  <2>2. UNCHANGED future
    BY <2>1 DEF FinalizeJob, Admit, itemVars
  <2> QED
    BY <2>1, <2>2, CallsRest DEF MadeIn
<1>2. \A k \in Jobs : k # j => /\ state'[k] = state[k] /\ task'[k] = task[k]
                               /\ at'[k] = at[k] /\ steps'[k] = steps[k]
  BY DEF OnDone, Submit, JInv, JobTypes
<1>3. \A k \in Jobs : k # j => JobTold(k)'
  BY <1>1, <1>2, RestTells
<1>4. CASE OnDone(j)
  <2>1. /\ state'[j] = state[j] /\ at'[j] = at[j] /\ steps'[j] = steps[j]
        /\ task[j] = "done" /\ task'[j] = "gone"
    BY <1>4 DEF OnDone, JInv, JobTypes
  <2> QED
    BY <1>3, <2>1 DEF ToldFit, JobTold, TaskTold
<1>5. ASSUME NEW q \in Requests, Submit(j, q)
      PROVE  JobTold(j)'
  <2> DEFINE sr == [n \in 1 .. Len(JobRequest(q).chain) |-> NewStepRun]
  <2>1. state'[j] = "queued" /\ task'[j] = "created" /\ steps'[j] = sr
    BY <1>5 DEF Submit, JInv, JobTypes
  <2>2. RecordTold(NewStepRun)
    BY RetryAssumption DEF RecordTold, NewStepRun
  <2>3. RecordsTold(sr)
    <3>1. \A n \in 1 .. Len(sr) : sr[n] = NewStepRun
      <4>1. Len(JobRequest(q).chain) \in Nat
        BY <1>5, NewJob, ChainTypes DEF Submit
      <4> QED
        BY <4>1
    <3> QED
      BY <2>2, <3>1 DEF RecordsTold
  <2> QED
    BY <2>1, <2>3 DEF JobTold, TaskTold
<1> QED
  BY <1>3, <1>4, <1>5 DEF ToldFit

\* Every step of the service tells the truth about the attempts.
LEMMA ToldKept ==
  ASSUME SInv, JInv, WithinBudget, ToldFit, [ServiceNext]_svars
  PROVE  WithinBudget' /\ ToldFit'
<1>0. TypeOK /\ ItemInv /\ LedgerInv
  BY DEF SInv, IInv
<1>1. WithinBudget'
  BY <1>0, ServiceKeeps, BudgetKept
<1>2. ASSUME NEW j \in Jobs, JobBegins(j) \/ CpuBackoffDone(j) \/ GpuItemEnds(j)
                             \/ \E o \in Outcomes : CpuAttemptEnds(j, o)
      PROVE  ToldFit'
  <2>1. Tells(j)
    BY <1>0, <1>2, EdgesTell, CpuBackoffTells, GpuItemTells, CpuAttemptTells
  <2>2. PICK s, tk, a, r : JobGoesOn(j, s, tk, a, r)
    BY <1>0, <1>2, JobBeginsGoesOn, CpuBackoffGoesOn, GpuItemGoesOn, CpuAttemptGoesOn
  <2> QED
    BY <2>1, <2>2, GoesOnTells
<1>3. ASSUME NEW j \in Jobs, TaskCancelled(j), task[j] # "gpu"
      PROVE  ToldFit'
  <2>1. Tells(j)
    BY <1>3, EdgesTell
  <2>2. /\ task[j] \in {"cpu", "cpuBackoff"} /\ FinishCancelled(j, at[j], steps[j])
        /\ UNCHANGED vars /\ UNCHANGED <<request, byKey, cancelRequested, phase>>
        /\ phase = "cancelJobs"
    BY <1>3 DEF TaskCancelled
  <2>3. PICK s, tk, a, r : JobGoesOn(j, s, tk, a, r)
    BY <2>2, TaskCancelGoesOn
  <2> QED
    BY <2>1, <2>3, GoesOnTells
<1> QED
  BY <1>0, <1>1, <1>2, <1>3, CallsTell, JobsTell, RunsTell DEF ServiceNext, ServiceRuns

LEMMA InitTold == ServiceInit => WithinBudget /\ ToldFit
<1> SUFFICES ASSUME ServiceInit PROVE WithinBudget /\ ToldFit
  OBVIOUS
<1>1. \A j \in Jobs : steps[j] = <<>> /\ state[j] = "none" /\ task[j] = "none"
  BY DEF ServiceInit
<1> QED
  BY <1>1, InitBudget DEF ServiceInit, ToldFit, JobTold, RecordsTold, TaskTold

-----------------------------------------------------------------------------
(* Why a job was cancelled                                                    *)

(* A cancelled job was asked to stop, or the service was, since when it may   *)
(* have been started again.                                                   *)
CancelFit ==
  /\ starts = 0 => ~started /\ \A j \in Jobs : task[j] = "none"
  /\ \A j \in Jobs : state[j] = "cancelled" => j \in cancelRequested \/ ~started \/ starts > 1

\* A step that is no start() and cancels no job, or one that has a reason for it
LEMMA ReasonKept ==
  ASSUME CancelFit, starts' = starts, cancelRequested \subseteq cancelRequested',
         started' => started, starts = 0 => \A j \in Jobs : task'[j] = task[j],
         \A j \in Jobs : state'[j] = "cancelled" =>
           state[j] = "cancelled" \/ j \in cancelRequested \/ ~started'
  PROVE  CancelFit'
  BY DEF CancelFit

LEMMA CancelKept ==
  ASSUME SInv, JInv, AskedFit, CancelFit, [ServiceNext]_svars
  PROVE  CancelFit'
<1>0. TypeOK /\ StopExclusive /\ JobTypes /\ PhaseFits
  BY DEF SInv, IInv, JInv
<1>1. ASSUME NEW j \in Jobs, NEW s, NEW tk, NEW a, NEW r, JobGoesOn(j, s, tk, a, r)
      PROVE  CancelFit'
  <2>1. UNCHANGED <<cancelRequested, started, starts>>
    BY <1>1 DEF JobGoesOn, MakeItem, vars, lifeVars
  <2>2. starts # 0
    BY <1>1 DEF CancelFit, JobGoesOn
  <2>3. \A k \in Jobs : state'[k] = IF k = j THEN s ELSE state[k]
    BY <1>0, <1>1, GoesOnRecords
  <2>4. s = "cancelled" => j \in cancelRequested \/ ~started
    <3>1. s = "cancelled" => \/ j \in cancelRequested \/ phase = "cancelJobs"
                             \/ task[j] = "gpu" /\ future[CurItem(j)] = "cancelled"
      BY <1>1 DEF JobGoesOn, AsPromised
    <3>2. ASSUME task[j] = "gpu", future[CurItem(j)] = "cancelled"
          PROVE  j \in cancelRequested \/ ~started
      <4>1. CurItem(j) \in Items /\ JobOf(CurItem(j)) = j
        BY <3>2, CurItemType DEF CurItem, JobOf
      <4> QED
        BY <3>2, <4>1 DEF AskedFit
    <3> QED
      BY <1>0, <3>1, <3>2 DEF PhaseFits
  <2> QED
    BY <2>1, <2>2, <2>3, <2>4, ReasonKept
<1>2. CASE \E w \in Workers : Runs(w)
  <2>1. UNCHANGED <<cancelRequested, state, task>>
    BY <1>2 DEF Runs
  <2>2. UNCHANGED <<started, starts>>
    BY <1>2 DEF Runs, RunnerOn, WarmDone, ExpireTTL, Wake, Retire, AttemptFails, AttemptSettles,
         BackoffDone, CancelRunner, lifeVars
  <2> QED
    BY <2>1, <2>2, ReasonKept
<1>3. CASE \/ Callbacks \/ StopBegins \/ RunnersGone \/ CancelTasks \/ StopReturned
           \/ UNCHANGED svars
           \/ \E j \in Jobs : Cancel(j) \/ (task[j] = "gpu" /\ TaskCancelled(j))
  <2>1. UNCHANGED <<state, task>> /\ cancelRequested \subseteq cancelRequested'
    BY <1>3 DEF Callbacks, StopBegins, RunnersGone, CancelTasks, StopReturned, Cancel,
       TaskCancelled, jobVars, svars
  <2>2. starts' = starts /\ (started' => started)
    <3>1. CASE Callbacks
      BY <3>1 DEF Callbacks, RunnerStart, OnRunnerDone, CancelSpawned, ReleaseCallback, lifeVars
    <3>2. CASE StopBegins \/ RunnersGone
      BY <3>2 DEF StopBegins, RunnersGone, StopBegin, StopNoRunners, StopFlush
    <3>3. CASE CancelTasks \/ StopReturned \/ UNCHANGED svars
      BY <3>3 DEF CancelTasks, StopReturned, svars, vars, lifeVars
    <3>4. ASSUME NEW j \in Jobs, Cancel(j) \/ TaskCancelled(j)
          PROVE  starts' = starts /\ (started' => started)
      <4>1. CASE UNCHANGED vars
        BY <4>1 DEF vars, lifeVars
      <4>2. CASE CancelItem(CurItem(j))
        BY <4>2 DEF CancelItem, lifeVars
      <4>3. CASE AbandonItem(CurItem(j))
        BY <4>3 DEF AbandonItem, lifeVars
      <4> QED
        BY <3>4, <4>1, <4>2, <4>3 DEF Cancel, TaskCancelled
    <3> QED
      BY <1>3, <3>1, <3>2, <3>3, <3>4
  <2> QED
    BY <2>1, <2>2, ReasonKept
<1>4. ASSUME NEW j \in Jobs, OnDone(j) \/ \E r \in Requests : Submit(j, r)
      PROVE  CancelFit'
  <2>1. UNCHANGED <<cancelRequested, started, starts>>
    BY <1>4 DEF OnDone, Submit, FinalizeJob, Admit, lifeVars
  <2>2. \A k \in Jobs : state'[k] = state[k] \/ state'[k] = "queued"
    BY <1>0, <1>4 DEF OnDone, Submit, JobTypes
  <2>3. starts # 0
    BY <1>4 DEF CancelFit, OnDone, Submit, Admit
  <2> QED
    BY <2>1, <2>2, <2>3, ReasonKept
<1>5. CASE ServiceStart
  <2>1. starts' = starts + 1 /\ starts \in Nat /\ UNCHANGED <<state, task>>
    BY <1>0, <1>5 DEF ServiceStart, Start, TypeOK
  <2>2. CASE starts = 0
    <3>1. \A j \in Jobs : state[j] # "cancelled"
      <4>1. ASSUME NEW j \in Jobs PROVE state[j] # "cancelled"
        <5>1. RecordsFit(request[j], state[j], task[j], at[j], steps[j]) /\ task[j] = "none"
          BY <2>2, JobFacts DEF CancelFit
        <5> QED
          BY <5>1 DEF RecordsFit
      <4> QED
        BY <4>1
    <3> QED
      BY <2>1, <3>1 DEF CancelFit
  <2>3. CASE starts # 0
    BY <2>1, <2>3 DEF CancelFit
  <2> QED
    BY <2>2, <2>3
<1> QED
  BY <1>1, <1>2, <1>3, <1>4, <1>5, ServiceSteps

LEMMA InitCancel == ServiceInit => CancelFit
  BY DEF ServiceInit, Init, CancelFit

-----------------------------------------------------------------------------
(* The clients                                                                *)

\* An agent that polls has been told of a job.
AgentFit == agent = "polling" => mine \in Jobs

LEMMA ClientsStep ==
  ASSUME JInv, AgentFit, [ClientsNext]_clientVars
  PROVE  [ServiceNext]_svars /\ AgentFit'
<1>1. CASE ServiceRuns /\ UNCHANGED <<streamVars, agentVars>>
  BY <1>1 DEF ServiceNext, AgentFit, agentVars
<1>2. CASE StreamNext /\ UNCHANGED agentVars
  BY <1>2 DEF StreamNext, Open, Poll, Sent, PollAgain, Disconnect, AgentFit, agentVars
<1>3. CASE UNCHANGED clientVars
  BY <1>3 DEF clientVars, AgentFit, agentVars
<1>4. CASE SubmitChain
  <2>1. PICK j \in Unused : Submit(j, Goal) /\ (mine' = j \/ UNCHANGED agentVars)
    BY <1>4 DEF SubmitChain
  <2>2. j \in Jobs /\ Goal \in Requests
    BY <2>1, AgentAssumption DEF Unused
  <2> QED
    BY <1>4, <2>1, <2>2 DEF ServiceNext, AgentFit, agentVars
<1>5. CASE SubmitDeduplicated
  <2>1. byKey[Goal.key] \in Jobs
    BY <1>5, AgentAssumption DEF SubmitDeduplicated, Dedups, Keys, JInv, JobTypes
  <2> QED
    BY <1>5, <2>1 DEF SubmitDeduplicated, AgentFit
<1>6. CASE CancelJob
  BY <1>6 DEF CancelJob, ServiceNext, AgentFit, agentVars
<1>7. CASE GetSystemStatus \/ SubmitRefused \/ GetJob
  BY <1>7 DEF GetSystemStatus, SubmitRefused, GetJob, AgentFit
<1> QED
  BY <1>1, <1>2, <1>3, <1>4, <1>5, <1>6, <1>7 DEF ClientsNext, AgentNext

(* Whatever streams are open and whatever the agent asks, the service takes   *)
(* its own steps: what is proved of it holds behind the routes.               *)
THEOREM ClientsRunService == ClientsSpec => ServiceSpec
<1>1. ClientsInit => ServiceInit /\ AgentFit
  BY DEF ClientsInit, AgentInit, AgentFit
<1>2. ServiceInit => JInv /\ SInv
  BY InitJInv, InitSInv
<1>3. SInv /\ JInv /\ AgentFit /\ [ClientsNext]_clientVars
        => [ServiceNext]_svars /\ SInv' /\ JInv' /\ AgentFit'
  BY ClientsStep, ServiceKeeps, NextSInv
<1> QED
  BY <1>1, <1>2, <1>3, PTL DEF ClientsSpec, ServiceSpec

\* What is told holds of the service by itself.
LEMMA TellsAlways == ServiceSpec => [](SInv /\ JInv /\ AskedFit /\ WithinBudget /\ ToldFit /\ CancelFit)
<1>1. ServiceInit => AskedFit /\ WithinBudget /\ ToldFit /\ CancelFit
  BY InitJInv, InitAsked, InitTold, InitCancel
<1>2. /\ SInv /\ JInv /\ AskedFit /\ WithinBudget /\ ToldFit /\ CancelFit
      /\ [ServiceNext]_svars
      => AskedFit' /\ WithinBudget' /\ ToldFit' /\ CancelFit'
  BY AskedKept, ToldKept, CancelKept
<1> QED
  BY <1>1, <1>2, ServiceInvariance, PTL DEF ServiceSpec

(* The records of the store and of the service have their types, with the     *)
(* bounds that are not by construction: no step has more attempts than its    *)
(* budget, and the memo no more outputs than its cap, however jobs, hits and  *)
(* evictions interleave.                                                      *)
THEOREM ServiceTypesCorrect == ServiceSpec => []ServiceTypeOK
<1>1. JInv /\ ToldFit /\ MemoFit => ServiceTypeOK
  <2> SUFFICES ASSUME JInv, ToldFit, MemoFit PROVE ServiceTypeOK
    OBVIOUS
  <2>1. /\ request \in [Jobs -> JobRequests \cup {NoRequest}]
        /\ byKey \in [Keys -> Jobs \cup {NoJob}]
        /\ state \in [Jobs -> {"none", "queued", "running"} \cup Terminal]
        /\ task \in [Jobs -> {"none", "created", "cpu", "cpuBackoff", "gpu", "done", "gone"}]
        /\ cancelRequested \subseteq Jobs
        /\ phase \in {"down", "up", "runners", "yield", "cancelJobs"}
    BY DEF JInv, JobTypes, JobStates, JobTasks, Phases
  <2>2. ASSUME NEW j \in Jobs, NEW n \in 1 .. Len(steps[j])
        PROVE  steps[j][n] \in [state : {"pending", "running", "retrying"} \cup Terminal,
                                attempts : 0 .. MaxAttempts, open : BOOLEAN,
                                error : {"none", "transient_exhausted", "permanent"}]
    <3>1. steps[j][n] \in StepRecord
      BY DEF JInv, JobTypes
    <3>2. steps[j][n].attempts <= MaxAttempts
      BY DEF ToldFit, JobTold, RecordsTold, RecordTold
    <3>3. MaxAttempts \in Nat
      BY RetryAssumption
    <3> QED
      BY <3>1, <3>2, <3>3 DEF StepRecord, RecordState
  <2> QED
    BY <2>1, <2>2 DEF ServiceTypeOK, MemoFit
<1> QED
  BY <1>1, TellsAlways, MemoAlwaysFits, PTL

(* The advice that comes with an error is true and can be followed, for every *)
(* job and at every moment, whatever the runners, retries, cancels and stop() *)
(* did to the job: a budget said to be exhausted was used up, a job said to   *)
(* be cancelled was asked to stop or its service was, and a resubmission is   *)
(* not answered with the dead job (agent.py, ERROR_KINDS).                    *)
THEOREM AdviceAlwaysTrue == ClientsSpec => []AdviceIsTrue
<1>1. JInv /\ ToldFit /\ CancelFit => AdviceIsTrue
  <2> SUFFICES ASSUME JInv, ToldFit, CancelFit, NEW j \in Jobs
               PROVE  /\ Suggestion(j) # "none" <=> state[j] \in Resubmittable
                      /\ JobError(j) = "transient_exhausted" => steps[j][at[j]].attempts = MaxAttempts
                      /\ JobError(j) = "cancelled" => j \in cancelRequested \/ phase # "up" \/ starts > 1
                      /\ Suggestion(j) = "resubmit" =>
                           ~(Dedups(request[j].key) /\ byKey[request[j].key] = j)
    BY DEF AdviceIsTrue, Unused
  <2>1. TaskTold(state[j], task[j], at[j], steps[j])
    BY DEF ToldFit, JobTold
  <2>2. JobError(j) = IF state[j] = "cancelled" THEN "cancelled"
                      ELSE IF state[j] = "failed" THEN steps[j][at[j]].error ELSE "none"
    BY DEF JobError
  <2>3. state[j] = "failed" => steps[j][at[j]].error \in {"transient_exhausted", "permanent"}
    BY <2>1 DEF TaskTold
  <2>4. Suggestion(j) # "none" <=> state[j] \in Resubmittable
    BY <2>2, <2>3 DEF Suggestion, ErrorKinds, Resubmittable
  <2>5. JobError(j) = "transient_exhausted" => steps[j][at[j]].attempts = MaxAttempts
    BY <2>1, <2>2 DEF TaskTold
  <2>6. JobError(j) = "cancelled" => state[j] = "cancelled"
    BY <2>2, <2>3
  <2>7. JobError(j) = "cancelled" => j \in cancelRequested \/ phase # "up" \/ starts > 1
    BY <2>6 DEF CancelFit, JInv, PhaseFits
  <2> QED
    BY <2>4, <2>5, <2>7 DEF Dedups
<1> QED
  BY <1>1, ClientsRunService, TellsAlways, PTL

(* A stream that the server has closed was of a job that is over, and stays   *)
(* so: a terminal job is never taken up again (stream_job_events).            *)
ClosedFit == stream = "closed" => state[Watched] \in Terminal

THEOREM StreamsCloseLate == ClientsSpec => []ClosedFit
<1>1. ClientsInit => ClosedFit
  BY DEF ClientsInit, StreamInit, ClosedFit
<1>2. SInv /\ JInv /\ [ServiceNext]_svars /\ state[Watched] \in Terminal => state'[Watched] \in Terminal
  <2> SUFFICES ASSUME SInv, JInv, [ServiceNext]_svars, state[Watched] \in Terminal
               PROVE  state'[Watched] \in Terminal
    OBVIOUS
  <2>1. ASSUME NEW j \in Jobs, NEW s, NEW tk, NEW a, NEW r, JobGoesOn(j, s, tk, a, r)
        PROVE  state'[Watched] \in Terminal
    <3>1. j # Watched
      BY <2>1 DEF JobGoesOn, Terminal
    <3> QED
      BY <2>1, <3>1, StreamAssumption, GoesOnRecords DEF SInv, IInv
  <2>2. ASSUME NEW j \in Jobs, NEW r \in Requests, Submit(j, r)
        PROVE  state'[Watched] \in Terminal
    <3>1. RecordsFit(request[j], state[j], task[j], at[j], steps[j])
      BY JobFacts
    <3>2. j # Watched
      BY <2>2, <3>1 DEF RecordsFit, Submit, Untouched, Terminal
    <3> QED
      BY <2>2, <3>2, StreamAssumption DEF Submit, JInv, JobTypes
  <2>3. \/ UNCHANGED state
        \/ \E j \in Jobs : \/ \E s, tk, a, r : JobGoesOn(j, s, tk, a, r)
                           \/ \E r \in Requests : Submit(j, r)
    BY ServiceSteps DEF TaskCancelled, OnDone, Cancel, Runs, ServiceStart, Callbacks, StopBegins,
       RunnersGone, CancelTasks, StopReturned, jobVars, svars
  <2> QED
    BY <2>1, <2>2, <2>3
<1>3. ClosedFit /\ [ClientsNext]_clientVars /\ (state[Watched] \in Terminal => state'[Watched] \in Terminal)
        => ClosedFit'
  <2> SUFFICES ASSUME ClosedFit, [ClientsNext]_clientVars, stream' = "closed",
                      state[Watched] \in Terminal => state'[Watched] \in Terminal
               PROVE  state'[Watched] \in Terminal
    BY DEF ClosedFit
  <2>1. CASE UNCHANGED streamVars
    BY <2>1 DEF ClosedFit, streamVars
  <2>2. CASE StreamNext
    BY <2>2 DEF StreamNext, Open, Poll, Sent, PollAgain, Disconnect, EndOrSleep
  <2> QED
    BY <2>1, <2>2 DEF ClientsNext, clientVars
<1>4. SInv /\ JInv /\ AgentFit /\ [ClientsNext]_clientVars => [ServiceNext]_svars /\ AgentFit'
  BY ClientsStep
<1>5. ClientsInit => AgentFit
  BY DEF ClientsInit, AgentInit, AgentFit
<1> QED
  BY <1>1, <1>2, <1>3, <1>4, <1>5, ClientsRunService, ServiceInvariance, PTL DEF ClientsSpec

==============================================================================
