--------------------------- MODULE JobServiceProofs ---------------------------
(* Proofs about JobService for any jobs, requests, registry of steps and      *)
(* scheduler parameters: every step is a step of the scheduler, so what is    *)
(* proved of it holds under the service, and with it the records of the jobs, *)
(* their items and their reservations stay together.                          *)
EXTENDS JobService, GpuSchedulerLedgerProofs

JobStates   == {"none", "queued", "running"} \cup Terminal
JobTasks    == {"none", "created", "cpu", "cpuBackoff", "gpu", "done", "gone"}
AtStep      == {"cpu", "cpuBackoff", "gpu"}
Phases      == {"down", "up", "runners", "yield", "cancelJobs"}
RecordState == {"pending", "running", "retrying"} \cup Terminal

StepRecord == [state : RecordState, attempts : Nat, open : BOOLEAN,
               error : {"none", "transient_exhausted", "permanent"}]

-----------------------------------------------------------------------------
(* The inductive invariant                                                    *)

JobTypes ==
  /\ request \in [Jobs -> JobRequests \cup {NoRequest}]
  /\ byKey \in [Keys -> Jobs \cup {NoJob}]
  /\ state \in [Jobs -> JobStates]
  /\ steps \in [Jobs -> Seq(StepRecord)]
  /\ at \in [Jobs -> Nat]
  /\ task \in [Jobs -> JobTasks]
  /\ cancelRequested \subseteq Jobs
  /\ phase \in Phases

\* A job that is live or has succeeded is the newest of its key.
NewestOfKey ==
  \A j \in Jobs : ~Untouched(j) /\ state[j] \notin Resubmittable
                    => byKey[request[j].key] = j

\* Records before step n succeeded, those from n on have not begun.
ReadyAt(sr, n) ==
  \A k \in 1 .. Len(sr) : /\ ~sr[k].open
                          /\ sr[k].state = IF k < n THEN "succeeded" ELSE "pending"

\* The same but for step n, which may be under way.
UnderWayAt(sr, n) ==
  \A k \in 1 .. Len(sr) :
    IF k = n THEN sr[k].state \in {"pending", "running", "retrying"}
             ELSE ~sr[k].open /\ sr[k].state = IF k < n THEN "succeeded" ELSE "pending"

\* A job that ended in state s has records that say so, and nothing is open.
ClosedAs(sr, s) ==
  LET seen == {sr[k].state : k \in 1 .. Len(sr)}
  IN  /\ \A k \in 1 .. Len(sr) : ~sr[k].open
      /\ seen \cap {"running", "retrying"} = {}
      /\ s = "succeeded" => seen = {"succeeded"}
      /\ s = "failed" <=> "failed" \in seen

\* The records of a job with request q fit its state s, its task tk and the
\* step a it is at.
RecordsFit(q, s, tk, a, sr) ==
  /\ q = NoRequest <=> tk = "none"
  /\ tk = "none" => s = "none" /\ a = 0 /\ sr = <<>>
  /\ q # NoRequest => Len(sr) = Len(q.chain)
  /\ tk = "created" => s = "queued" /\ a = 0 /\ ReadyAt(sr, 1)
  /\ tk \in AtStep => s = "running" /\ a \in 1 .. Len(sr) /\ UnderWayAt(sr, a)
  /\ tk \in {"done", "gone"} => s \in Terminal /\ ClosedAs(sr, s)

JobRecords == \A j \in Jobs : RecordsFit(request[j], state[j], task[j], at[j], steps[j])

\* The scheduler and the service agree on how far a job is, which has given
\* back its reservation when its task is gone.
CallerFits(cl, b, tk) ==
  /\ cl = CASE tk = "none" -> "new"
            [] tk = "gone" -> "final"
            [] OTHER       -> "admitted"
  /\ tk = "gone" => b = 0

CallersFit == \A j \in Jobs : CallerFits(caller[j], byJob[j], task[j])

\* GPU steps of a chain up to step n, and after it
GpuUpTo(c, n) == {k \in 1 .. Len(c) : k <= n /\ c[k] \in GpuSteps}
GpuAfter(c, n) == {k \in 1 .. Len(c) : k > n /\ c[k] \in GpuSteps}

\* Made, in futures f
MadeIn(f, j) == Cardinality({n \in 1 .. MaxSteps : f[<<j, n>>] # "none"})

\* No item of job j is to be settled or released.
NothingDue(f, rel, j) == \A n \in 1 .. MaxSteps : f[<<j, n>>] # "pending" /\ <<j, n>> \notin rel

(* A job makes its items one after the other, each when those before it are   *)
(* over and released, and no more than it has come to GPU steps; only one that*)
(* awaits an item has one that is not over.                                   *)
JobItems(f, rel, j, tk, c, a) ==
  /\ \A n \in 1 .. MaxSteps : f[<<j, n>>] # "none" =>
       \A m \in 1 .. (n - 1) : f[<<j, m>>] = "result" /\ <<j, m>> \notin rel
  /\ IF tk = "none" THEN MadeIn(f, j) = 0 ELSE MadeIn(f, j) <= Cardinality(GpuUpTo(c, a))
  /\ IF tk = "gpu" THEN MadeIn(f, j) >= 1 ELSE NothingDue(f, rel, j)

ItemsFit == \A j \in Jobs : JobItems(future, releasing, j, task[j], ChainOf(j), at[j])

\* A job that may come to a GPU step after step a of chain c holds a unit b for it.
Covered(s, b, c, a) == s \in {"queued", "running"} => b >= Cardinality(GpuAfter(c, a))

\* The span of an awaited item is open only while a runner attempts the item,
\* or when the item was cancelled under the attempt.
SpanFits(f, wk, hd, j, tk, a, sr) ==
  tk = "gpu" /\ sr[a].open =>
    \/ f[<<j, MadeIn(f, j)>>] = "cancelled"
    \/ \E w \in Workers : hd[w] = <<j, MadeIn(f, j)>> /\ wk[w] = "running"

SpansFit == \A j \in Jobs : SpanFits(future, worker, holding, j, task[j], at[j], steps[j])

PhaseFits ==
  /\ phase = "up" <=> started
  /\ phase = "runners" <=> stopping
  /\ phase = "down" => \A j \in Jobs : task[j] \in {"none", "gone"}

(* The records of a job follow the scheduler's items only through the two     *)
(* callbacks of a future and the observer, and so its properties hold only    *)
(* together: a record is closed because no runner is at the item any more, no *)
(* item is left over because the task goes on only when it is told, and the   *)
(* task is told because its item is settled.                                  *)
JInv ==
  /\ JobTypes /\ NewestOfKey /\ JobRecords
  /\ CallersFit /\ ItemsFit /\ ReservationLasts
  /\ SpansFit /\ PhaseFits

\* What is proved of the scheduler
SInv == IInv /\ ItemInv /\ Quiet /\ LedgerInv

\* The scheduler's invariant is inductive.
LEMMA NextSInv == SInv /\ [Next]_vars => SInv'
  BY NextIInv, NextItemInv, NextLedger DEF SInv, IInv

LEMMA InitSInv == Init => SInv
  BY InitIInv, InitItemInv, InitLedger DEF SInv

-----------------------------------------------------------------------------
(* Counting                                                                   *)

LEMMA LeastExists ==
  ASSUME NEW S \in SUBSET Nat, S # {}
  PROVE  \E x \in S : \A y \in S : x <= y
<1>1. PICK x \in S : \A y \in S : ~ (<<y, x>> \in OpToRel(<, Nat))
  BY NatLessThanWellFounded, WFMin
<1>2. \A y \in S : ~ (y < x)
  BY <1>1 DEF OpToRel
<1> QED
  BY <1>2

\* A set of positions without gaps is an interval, as long as it has members.
LEMMA PrefixCount ==
  ASSUME NEW n \in Nat, NEW D \in SUBSET (1 .. n), \A k \in D : \A m \in 1 .. (k - 1) : m \in D
  PROVE  Cardinality(D) \in 0 .. n /\ D = 1 .. Cardinality(D)
<1> DEFINE gaps == (1 .. n + 1) \ D
<1>1. gaps \subseteq Nat /\ gaps # {}
  OBVIOUS
<1>2. PICK e \in gaps : \A y \in gaps : e <= y
  BY <1>1, LeastExists
<1>3. e \in 1 .. n + 1 /\ e \notin D
  BY <1>2
<1>4. \A k \in 1 .. (e - 1) : k \in D
  BY <1>2, <1>3
<1>5. \A k \in D : k \in 1 .. (e - 1)
  BY <1>3
<1>6. D = 1 .. (e - 1)
  BY <1>4, <1>5
<1>7. Cardinality(1 .. (e - 1)) = e - 1
  BY <1>3, FS_Interval
<1> QED
  BY <1>3, <1>6, <1>7

\* The items of a job, counted in futures f
LEMMA MadeIs ==
  ASSUME NEW f, NEW j,
         \A n \in 1 .. MaxSteps : f[<<j, n>>] # "none" =>
           \A m \in 1 .. (n - 1) : f[<<j, m>>] # "none"
  PROVE  /\ MadeIn(f, j) \in 0 .. MaxSteps
         /\ \A n \in 1 .. MaxSteps : f[<<j, n>>] # "none" <=> n <= MadeIn(f, j)
<1> DEFINE D == {n \in 1 .. MaxSteps : f[<<j, n>>] # "none"}
<1>1. MaxSteps \in Nat
  BY SchedulerAssumption
<1>2. D \in SUBSET (1 .. MaxSteps)
  OBVIOUS
<1>3. \A k \in D : \A m \in 1 .. (k - 1) : m \in D
  BY <1>1
<1>4. Cardinality(D) \in 0 .. MaxSteps /\ D = 1 .. Cardinality(D)
  <2> HIDE DEF D
  <2> QED
    BY <1>1, <1>2, <1>3, PrefixCount
<1>5. \A n \in 1 .. MaxSteps : n \in D <=> n <= Cardinality(D)
  <2> HIDE DEF D
  <2> QED
    BY <1>1, <1>4
<1> QED
  BY <1>4, <1>5 DEF MadeIn

\* A chain has finitely many GPU steps; going on to a GPU step takes one from
\* those that are to come.
LEMMA GpuCounts ==
  ASSUME NEW c \in Seq(Steps)
  PROVE  /\ \A n : /\ Cardinality(GpuUpTo(c, n)) \in Nat /\ Cardinality(GpuAfter(c, n)) \in Nat
                   /\ Cardinality(GpuUpTo(c, n)) <= GpuItemCount(c)
         /\ \A n, a \in Nat : n <= a =>
              /\ Cardinality(GpuUpTo(c, n)) <= Cardinality(GpuUpTo(c, a))
              /\ Cardinality(GpuAfter(c, a)) <= Cardinality(GpuAfter(c, n))
         /\ \A n \in Nat, a \in 1 .. Len(c) : n < a /\ c[a] \in GpuSteps =>
              /\ Cardinality(GpuUpTo(c, n)) + 1 <= Cardinality(GpuUpTo(c, a))
              /\ Cardinality(GpuAfter(c, a)) + 1 <= Cardinality(GpuAfter(c, n))
         /\ Cardinality(GpuAfter(c, 0)) = GpuItemCount(c)
         /\ Cardinality(GpuUpTo(c, 0)) = 0
<1> DEFINE all == {n \in 1 .. Len(c) : c[n] \in GpuSteps}
<1>1. Len(c) \in Nat /\ IsFiniteSet(1 .. Len(c))
  BY FS_Interval
<1>2. \A S \in SUBSET (1 .. Len(c)) : IsFiniteSet(S) /\ Cardinality(S) \in Nat
  BY <1>1, FS_Subset, FS_CardinalityType
<1>3. \A S, T \in SUBSET (1 .. Len(c)) : S \subseteq T => Cardinality(S) <= Cardinality(T)
  BY <1>2, FS_Subset
<1>4. \A S, T \in SUBSET (1 .. Len(c)) : \A x \in T :
        S \subseteq T /\ x \notin S => Cardinality(S) + 1 <= Cardinality(T)
  <2> SUFFICES ASSUME NEW S \in SUBSET (1 .. Len(c)), NEW T \in SUBSET (1 .. Len(c)),
                      NEW x \in T, S \subseteq T, x \notin S
               PROVE  Cardinality(S) + 1 <= Cardinality(T)
    OBVIOUS
  <2>1. S \cup {x} \in SUBSET (1 .. Len(c)) /\ S \cup {x} \subseteq T
    OBVIOUS
  <2>2. Cardinality(S \cup {x}) = Cardinality(S) + 1
    BY <1>2, FS_AddElement
  <2> QED
    BY <1>2, <1>3, <2>1, <2>2
<1>5. \A n : /\ GpuUpTo(c, n) \in SUBSET (1 .. Len(c)) /\ GpuAfter(c, n) \in SUBSET (1 .. Len(c))
             /\ GpuUpTo(c, n) \subseteq all
  BY DEF GpuUpTo, GpuAfter
<1>6. all \in SUBSET (1 .. Len(c)) /\ GpuItemCount(c) = Cardinality(all)
  BY DEF GpuItemCount
<1>7. \A n, a \in Nat : n <= a => GpuUpTo(c, n) \subseteq GpuUpTo(c, a)
                                  /\ GpuAfter(c, a) \subseteq GpuAfter(c, n)
  BY <1>1 DEF GpuUpTo, GpuAfter
<1>8. \A n \in Nat, a \in 1 .. Len(c) : n < a /\ c[a] \in GpuSteps =>
        /\ a \in GpuUpTo(c, a) /\ a \notin GpuUpTo(c, n)
        /\ a \in GpuAfter(c, n) /\ a \notin GpuAfter(c, a)
  BY <1>1 DEF GpuUpTo, GpuAfter
<1>9. GpuAfter(c, 0) = all /\ GpuUpTo(c, 0) = {}
  BY <1>1 DEF GpuUpTo, GpuAfter
<1> HIDE DEF all
<1>10. \A n, a \in Nat : n <= a =>
              /\ Cardinality(GpuUpTo(c, n)) <= Cardinality(GpuUpTo(c, a))
              /\ Cardinality(GpuAfter(c, a)) <= Cardinality(GpuAfter(c, n))
  BY <1>3, <1>5, <1>7
<1>11. ASSUME NEW n \in Nat, NEW a \in 1 .. Len(c), n < a, c[a] \in GpuSteps
       PROVE  /\ Cardinality(GpuUpTo(c, n)) + 1 <= Cardinality(GpuUpTo(c, a))
              /\ Cardinality(GpuAfter(c, a)) + 1 <= Cardinality(GpuAfter(c, n))
  <2>1. a \in Nat /\ n <= a
    BY <1>1, <1>11
  <2> QED
    BY <1>4, <1>5, <1>7, <1>8, <1>11, <2>1
<1>12. \A n : /\ Cardinality(GpuUpTo(c, n)) \in Nat /\ Cardinality(GpuAfter(c, n)) \in Nat
              /\ Cardinality(GpuUpTo(c, n)) <= GpuItemCount(c)
  BY <1>2, <1>3, <1>5, <1>6
<1>13. Cardinality(GpuAfter(c, 0)) = GpuItemCount(c) /\ Cardinality(GpuUpTo(c, 0)) = 0
  BY <1>6, <1>9, FS_EmptySet
<1> QED
  BY <1>10, <1>11, <1>12, <1>13

-----------------------------------------------------------------------------
(* Records of steps                                                           *)

LEMMA StartedRecord ==
  ASSUME NEW r \in StepRecord
  PROVE  AttemptStarted(r) \in StepRecord /\ AttemptStarted(r).state = "running"
<1>1. r.attempts + 1 \in Nat
  BY DEF StepRecord
<1> DEFINE n == r.attempts + 1
<1>2. AttemptStarted(r) = [r EXCEPT !.state = "running", !.attempts = n, !.open = TRUE]
  BY DEF AttemptStarted
<1> HIDE DEF n
<1>3. n \in Nat
  BY <1>1 DEF n
<1> QED
  BY <1>2, <1>3 DEF StepRecord, RecordState

LEMMA FinishedRecord ==
  ASSUME NEW r \in StepRecord, NEW o
  PROVE  /\ AttemptFinished(r, o) \in StepRecord /\ ~AttemptFinished(r, o).open
         /\ AttemptFinished(r, o).state \in {"retrying", r.state}
  BY DEF StepRecord, RecordState, AttemptFinished

LEMMA FailedRecord ==
  ASSUME NEW r \in StepRecord
  PROVE  Failed(r) \in StepRecord /\ Failed(r).state = "failed" /\ Failed(r).open = r.open
  BY DEF StepRecord, RecordState, Failed, Terminal

LEMMA InterruptedRecord ==
  ASSUME NEW r \in StepRecord
  PROVE  /\ Interrupted(r) \in StepRecord /\ ~Interrupted(r).open
         /\ Interrupted(r).state = IF r.state \in {"running", "retrying"} THEN "cancelled"
                                   ELSE r.state
  BY DEF StepRecord, RecordState, Interrupted, Terminal

LEMMA SucceededRecord ==
  ASSUME NEW r \in StepRecord
  PROVE  LET x == [r EXCEPT !.state = "succeeded"]
         IN  x \in StepRecord /\ x.state = "succeeded" /\ x.open = r.open
  BY DEF StepRecord, RecordState, Terminal

\* Changing the record of one step
LEMMA RecordsUpdate ==
  ASSUME NEW sr \in Seq(StepRecord), NEW n \in 1 .. Len(sr), NEW x \in StepRecord
  PROVE  LET r == [sr EXCEPT ![n] = x]
         IN  /\ r \in Seq(StepRecord) /\ Len(r) = Len(sr)
             /\ r[n] = x /\ \A k \in 1 .. Len(sr) : k # n => r[k] = sr[k]
  OBVIOUS

\* Requests that make jobs, and their chains
LEMMA ChainTypes ==
  ASSUME NEW q \in JobRequests
  PROVE  /\ q.chain \in Seq(Steps) /\ Len(q.chain) \in Nat /\ Len(q.chain) >= 1
         /\ GpuItemCount(q.chain) <= MaxSteps
         /\ \A n \in 1 .. Len(q.chain) : InputsSatisfied(q.chain, n)
         /\ q.key \in Keys
         /\ q # NoRequest
<1>1. PICK r \in Requests : q = JobRequest(r) /\ Accepts(r.chain)
  BY DEF JobRequests
<1>2. q.chain \in Seq(Steps) /\ GpuItemCount(q.chain) <= MaxSteps /\ q # NoRequest
  BY ServiceAssumption
<1>3. DOMAIN r = {"key", "chain", "image"}
  BY ServiceAssumption
<1>4. q.chain = ResolveChain(r.chain) /\ q.key = r.key
  BY <1>1, <1>3 DEF JobRequest
<1>5. q.chain # <<>> /\ \A n \in 1 .. Len(q.chain) : InputsSatisfied(q.chain, n)
  BY <1>1, <1>4 DEF Accepts, ValidChain
<1>6. Len(q.chain) \in Nat /\ Len(q.chain) >= 1
  BY <1>2, <1>5
<1> QED
  BY <1>2, <1>4, <1>5, <1>6 DEF Keys

-----------------------------------------------------------------------------
(* The loop of ChainRunner.run                                                *)

\* Job j is in state s, its task at tk and step a, with records r.
Becomes(j, s, tk, a, r) ==
  /\ state' = [state EXCEPT ![j] = s]
  /\ task' = [task EXCEPT ![j] = tk]
  /\ at' = [at EXCEPT ![j] = a]
  /\ steps' = [steps EXCEPT ![j] = r]

\* The steps before step n succeeded, and no others.
DoneBefore(sr, n) == \A k \in 1 .. Len(sr) : sr[k].state = "succeeded" <=> k < n

(* From step n on, with the steps before it done, the job ends with records   *)
(* that say how, or comes to a step that is not memoized; if it was asked to  *)
(* stop it ends, cancelled when it has a step left.                           *)
LEMMA ProceedEffect ==
  ASSUME NEW j \in Jobs, request[j] \in JobRequests,
         NEW n \in Nat, n >= 1, n <= Len(ChainOf(j)) + 1,
         NEW sr \in Seq(StepRecord), Len(sr) = Len(ChainOf(j)), ReadyAt(sr, n),
         NEW m, Proceed(j, n, sr, m)
  PROVE  \E r \in Seq(StepRecord), a \in Nat :
           /\ Len(r) = Len(sr) /\ a >= n
           /\ \/ /\ Becomes(j, "cancelled", "done", a, r) /\ ClosedAs(r, "cancelled")
                 /\ j \in cancelRequested /\ DoneBefore(r, n) /\ UNCHANGED vars
              \/ /\ Becomes(j, "succeeded", "done", a, r) /\ ClosedAs(r, "succeeded")
                 /\ n <= Len(r) => j \notin cancelRequested
                 /\ UNCHANGED vars
              \/ /\ a \in n .. Len(r) /\ UnderWayAt(r, a) /\ j \notin cancelRequested
                 /\ \/ Becomes(j, "running", "cpu", a, r) /\ UNCHANGED vars
                    \/ /\ Becomes(j, "running", "gpu", a, r) /\ MakeItem(NextItem(j))
                       /\ ChainOf(j)[a] \in GpuSteps /\ ~r[a].open
<1> DEFINE c    == ChainOf(j)
           miss == {k \in n .. Len(c) : ~Contains(m, MemoKey(j, k))}
           stop == IF miss = {} THEN Len(c) + 1
                   ELSE CHOOSE k \in miss : \A l \in miss : k <= l
           run  == [k \in DOMAIN sr |->
                      IF k \in n .. (stop - 1) THEN [sr[k] EXCEPT !.state = "succeeded"]
                      ELSE sr[k]]
<1>1. c \in Seq(Steps) /\ Len(c) \in Nat /\ Len(c) >= 1
  BY ChainTypes DEF ChainOf
<1>2. \/ /\ n <= Len(c) /\ j \in cancelRequested /\ FinishCancelled(j, n, sr)
         /\ UNCHANGED vars
      \/ /\ n <= Len(c) => j \notin cancelRequested
         /\ stop > Len(c) /\ Finish(j, stop, run, "succeeded") /\ UNCHANGED vars
      \/ /\ n <= Len(c) => j \notin cancelRequested
         /\ stop <= Len(c)
         /\ state' = [state EXCEPT ![j] = "running"]
         /\ at' = [at EXCEPT ![j] = stop]
         /\ IF c[stop] \in GpuSteps
            THEN /\ MakeItem(NextItem(j))
                 /\ task' = [task EXCEPT ![j] = "gpu"]
                 /\ steps' = [steps EXCEPT ![j] = run]
            ELSE /\ task' = [task EXCEPT ![j] = "cpu"]
                 /\ steps' = [steps EXCEPT ![j] = [run EXCEPT ![stop] = AttemptStarted(@)]]
                 /\ UNCHANGED vars
  BY DEF Proceed, SeesCancel
<1>3. stop \in n .. Len(c) + 1
  <2>1. miss \subseteq Nat /\ miss \subseteq n .. Len(c)
    BY <1>1
  <2>2. CASE miss = {}
    BY <1>1, <2>2
  <2>3. CASE miss # {}
    <3> HIDE DEF miss
    <3>1. \E x \in miss : \A y \in miss : x <= y
      BY <2>1, <2>3, LeastExists
    <3>2. stop \in miss
      BY <2>3, <3>1
    <3>3. miss \subseteq n .. Len(c) + 1
      BY <1>1, <2>1
    <3> HIDE DEF stop
    <3> QED
      BY <3>2, <3>3
  <2> QED
    BY <2>2, <2>3
<1> HIDE DEF stop
<1>4. stop \in Nat /\ stop >= n /\ stop <= Len(c) + 1
  BY <1>1, <1>3
<1>5. \A k \in 1 .. Len(sr) : sr[k] \in StepRecord
  OBVIOUS
<1>6. run \in Seq(StepRecord) /\ Len(run) = Len(sr)
      /\ \A k \in 1 .. Len(sr) : run[k] = IF k \in n .. (stop - 1)
                                          THEN [sr[k] EXCEPT !.state = "succeeded"] ELSE sr[k]
  <2>1. DOMAIN sr = 1 .. Len(sr) /\ Len(sr) \in Nat
    OBVIOUS
  <2>2. \A k \in 1 .. Len(sr) : [sr[k] EXCEPT !.state = "succeeded"] \in StepRecord
    BY <1>5, SucceededRecord
  <2> QED
    BY <1>5, <2>1, <2>2
<1> HIDE DEF run
<1>7. ReadyAt(run, stop)
  <2> SUFFICES ASSUME NEW k \in 1 .. Len(sr)
               PROVE  ~run[k].open /\ run[k].state = IF k < stop THEN "succeeded" ELSE "pending"
    BY <1>6 DEF ReadyAt
  <2>1. ~sr[k].open /\ sr[k].state = IF k < n THEN "succeeded" ELSE "pending"
    BY DEF ReadyAt
  <2>2. CASE k \in n .. (stop - 1)
    <3>1. run[k] = [sr[k] EXCEPT !.state = "succeeded"]
      BY <1>6, <2>2
    <3>2. k < stop
      BY <1>4, <2>2
    <3> QED
      BY <1>5, <2>1, <3>1, <3>2, SucceededRecord
  <2>3. CASE k \notin n .. (stop - 1)
    <3>1. run[k] = sr[k]
      BY <1>6, <2>3
    <3>2. k \in Nat /\ k >= 1
      OBVIOUS
    <3>3. k < n <=> k < stop
      BY <1>4, <2>3, <3>2
    <3> QED
      BY <2>1, <3>1, <3>3
  <2> QED
    BY <2>2, <2>3
<1>8. CASE n <= Len(c) /\ j \in cancelRequested /\ FinishCancelled(j, n, sr) /\ UNCHANGED vars
  <2> DEFINE r == [sr EXCEPT ![n] = Interrupted(sr[n])]
  <2>1. Becomes(j, "cancelled", "done", n, r) /\ UNCHANGED vars
    BY <1>8 DEF FinishCancelled, Finish, Becomes
  <2>2. n \in 1 .. Len(sr) /\ Interrupted(sr[n]) \in StepRecord
    <3>1. n \in 1 .. Len(sr)
      BY <1>1, <1>8
    <3> QED
      BY <1>5, <3>1, InterruptedRecord
  <2>3. /\ r \in Seq(StepRecord) /\ Len(r) = Len(sr) /\ r[n] = Interrupted(sr[n])
        /\ \A k \in 1 .. Len(sr) : k # n => r[k] = sr[k]
    BY <2>2, RecordsUpdate
  <2>4. ASSUME NEW k \in 1 .. Len(sr)
        PROVE  ~r[k].open /\ r[k].state = IF k < n THEN "succeeded" ELSE "pending"
    <3>1. ~sr[k].open /\ sr[k].state = IF k < n THEN "succeeded" ELSE "pending"
      BY DEF ReadyAt
    <3>2. sr[n].state = "pending" /\ sr[n] \in StepRecord
      BY <1>5, <2>2 DEF ReadyAt
    <3>3. ~Interrupted(sr[n]).open /\ Interrupted(sr[n]).state = "pending"
      BY <3>2, InterruptedRecord
    <3> HIDE DEF r
    <3>4. CASE k = n
      BY <2>3, <3>3, <3>4
    <3>5. CASE k # n
      BY <2>3, <3>1, <3>5
    <3> QED
      BY <3>4, <3>5
  <2> HIDE DEF r
  <2>5. ClosedAs(r, "cancelled") /\ DoneBefore(r, n)
    BY <2>3, <2>4 DEF ClosedAs, DoneBefore
  <2> QED
    BY <1>8, <2>1, <2>3, <2>5
<1>9. CASE /\ n <= Len(c) => j \notin cancelRequested
           /\ stop > Len(c) /\ Finish(j, stop, run, "succeeded") /\ UNCHANGED vars
  <2>1. Becomes(j, "succeeded", "done", stop, run)
    BY <1>9 DEF Finish, Becomes
  <2>2. \A k \in 1 .. Len(run) : ~run[k].open /\ run[k].state = "succeeded"
    BY <1>1, <1>4, <1>6, <1>7, <1>9 DEF ReadyAt
  <2>3. 1 \in 1 .. Len(run)
    BY <1>1, <1>6
  <2>4. ClosedAs(run, "succeeded")
    <3>1. {run[k].state : k \in 1 .. Len(run)} = {"succeeded"}
      BY <2>2, <2>3
    <3> QED
      BY <2>2, <3>1 DEF ClosedAs
  <2> QED
    BY <1>4, <1>6, <1>9, <2>1, <2>4 DEF ChainOf
<1>10. ASSUME stop <= Len(c) PROVE stop \in n .. Len(run) /\ stop \in 1 .. Len(sr)
                                    /\ UnderWayAt(run, stop) /\ ~run[stop].open
  <2>1. stop \in n .. Len(run) /\ stop \in 1 .. Len(sr)
    BY <1>1, <1>4, <1>6, <1>10
  <2> QED
    BY <1>6, <1>7, <2>1 DEF ReadyAt, UnderWayAt
<1>11. CASE /\ stop <= Len(c) /\ c[stop] \in GpuSteps /\ j \notin cancelRequested
            /\ Becomes(j, "running", "gpu", stop, run) /\ MakeItem(NextItem(j))
  BY <1>4, <1>6, <1>10, <1>11
<1>12. CASE /\ stop <= Len(c) /\ j \notin cancelRequested
            /\ Becomes(j, "running", "cpu", stop, [run EXCEPT ![stop] = AttemptStarted(@)])
            /\ UNCHANGED vars
  <2> DEFINE r == [run EXCEPT ![stop] = AttemptStarted(run[stop])]
  <2>1. Becomes(j, "running", "cpu", stop, r) /\ UNCHANGED vars
    BY <1>12
  <2>2. stop \in 1 .. Len(run) /\ AttemptStarted(run[stop]) \in StepRecord
    <3>1. stop \in 1 .. Len(run)
      BY <1>6, <1>10, <1>12
    <3>2. run[stop] \in StepRecord
      BY <1>6, <3>1
    <3> QED
      BY <3>1, <3>2, StartedRecord
  <2>3. /\ r \in Seq(StepRecord) /\ Len(r) = Len(run) /\ r[stop] = AttemptStarted(run[stop])
        /\ \A k \in 1 .. Len(run) : k # stop => r[k] = run[k]
    BY <1>6, <2>2, RecordsUpdate
  <2>4. r[stop].state = "running"
    <3>1. run[stop] \in StepRecord
      BY <1>6, <2>2
    <3>2. AttemptStarted(run[stop]).state = "running"
      BY <3>1, StartedRecord
    <3> QED
      BY <2>3, <3>2
  <2> HIDE DEF r
  <2>5. UnderWayAt(r, stop)
    BY <1>10, <1>12, <2>3, <2>4 DEF UnderWayAt
  <2>6. stop \in n .. Len(r)
    BY <1>10, <1>12, <2>3
  <2> QED
    BY <1>4, <1>6, <1>12, <2>1, <2>3, <2>5, <2>6
<1>13. n <= Len(c) \/ stop > Len(c)
  BY <1>1, <1>4
<1>14. CASE stop <= Len(c)
  <2>1. CASE n <= Len(c) /\ j \in cancelRequested /\ FinishCancelled(j, n, sr) /\ UNCHANGED vars
    BY <1>8, <2>1
  <2>2. CASE j \notin cancelRequested
    <3>1. ~ (stop > Len(c))
      BY <1>1, <1>4, <1>14
    <3>2. /\ state' = [state EXCEPT ![j] = "running"]
          /\ at' = [at EXCEPT ![j] = stop]
          /\ IF c[stop] \in GpuSteps
             THEN /\ MakeItem(NextItem(j))
                  /\ task' = [task EXCEPT ![j] = "gpu"]
                  /\ steps' = [steps EXCEPT ![j] = run]
             ELSE /\ task' = [task EXCEPT ![j] = "cpu"]
                  /\ steps' = [steps EXCEPT ![j] = [run EXCEPT ![stop] = AttemptStarted(@)]]
                  /\ UNCHANGED vars
      BY <1>2, <2>2, <3>1
    <3> QED
      BY <1>11, <1>12, <1>14, <2>2, <3>2 DEF Becomes
  <2> QED
    BY <1>1, <1>2, <1>4, <1>13, <1>14, <2>1, <2>2
<1> QED
  BY <1>1, <1>2, <1>4, <1>8, <1>9, <1>14

-----------------------------------------------------------------------------
(* Steps that settle futures                                                  *)

\* Pending items may be settled, and only the release of those becomes due.
Settling ==
  /\ \A i \in Items : \/ future'[i] = future[i]
                      \/ future[i] = "pending" /\ future'[i] \notin {"none", "pending"}
  /\ releasing' \subseteq releasing \cup {i \in Items : future[i] = "pending"
                                                      /\ future'[i] # "pending"}

\* Who executes an item goes on with it.
HoldersGoOn ==
  \A w \in Workers : worker[w] = "running" => worker'[w] = "running" /\ holding'[w] = holding[w]

\* SetFutures on futures that are only settled
LEMMA SetFuturesSettles ==
  ASSUME NEW f, SettlesOnly(f), SetFutures(f)
  PROVE  Settling
  BY DEF Settling, SettlesOnly, SetFutures

\* The steps of the scheduler that are not steps of a runner
LEMMA CallsSettle ==
  ASSUME TypeOK,
         \/ UNCHANGED vars
         \/ Start \/ StopBegin \/ StopNoRunners \/ StopFlush \/ RunnerStart
         \/ OnRunnerDone \/ CancelSpawned
         \/ \E i \in Items : CancelItem(i) \/ AbandonItem(i) \/ ReleaseCallback(i)
  PROVE  Settling /\ HoldersGoOn /\ UNCHANGED <<byJob, caller>>
<1>0. SettlesOnly(future)
  BY ItemTypes DEF SettlesOnly
<1>1. CASE \/ UNCHANGED vars
           \/ Start \/ StopBegin \/ OnRunnerDone \/ CancelSpawned
           \/ \E i \in Items : ReleaseCallback(i)
  <2>1. UNCHANGED <<future, worker, holding, byJob, caller>> /\ releasing' \subseteq releasing
    BY <1>1 DEF vars, Start, StopBegin, OnRunnerDone, CancelSpawned, ReleaseCallback,
                itemVars, backlogVars, runnerVars
  <2> QED
    BY <2>1 DEF Settling, HoldersGoOn
<1>2. CASE RunnerStart
  <2>1. UNCHANGED <<future, releasing, holding, byJob, caller>>
    BY <1>2 DEF RunnerStart, itemVars, backlogVars
  <2>2. PICK w \in FreeWorkers : worker' = [worker EXCEPT ![w] = "warming"]
    BY <1>2 DEF RunnerStart
  <2>3. worker[w] = "free"
    BY DEF FreeWorkers
  <2> QED
    BY <2>1, <2>2, <2>3, ItemTypes DEF Settling, HoldersGoOn
<1>3. CASE \/ StopNoRunners \/ StopFlush
           \/ \E i \in Items : CancelItem(i) \/ AbandonItem(i)
  <2>1. UNCHANGED <<worker, holding, byJob, caller>>
    BY <1>3 DEF StopNoRunners, StopFlush, CancelItem, AbandonItem, backlogVars, runnerVars
  <2>2. \/ UNCHANGED <<future, releasing>>
        \/ \E S : SetFutures(Settle(future, S, "cancelled"))
    BY <1>3 DEF StopNoRunners, StopFlush, Flush, CancelItem, AbandonItem
  <2>3. Settling
    BY <1>0, <2>2, SettleOnly, SetFuturesSettles DEF Settling
  <2> QED
    BY <2>1, <2>3 DEF HoldersGoOn
<1> QED
  BY <1>1, <1>2, <1>3

(* What a step of the runner on w does, its observer having seen the attempt  *)
(* at item e end: only w changes, an attempt that begins is w's, and an item  *)
(* that w was attempting is seen to end or is cancelled.                      *)
RunnerMoves(w, e) ==
  /\ Settling /\ UNCHANGED <<byJob, caller, started, stopping>>
  /\ \A v \in Workers : v # w => worker'[v] = worker[v] /\ holding'[v] = holding[v]
  /\ \A i \in Items : attempts'[i] > attempts[i] => holding'[w] = i /\ worker'[w] = "running"
  /\ worker[w] = "running" => e = holding[w] \/ future'[holding[w]] = "cancelled"

\* Taking an item or going to sleep
LEMMA TakingMoves ==
  ASSUME TypeOK, NEW w \in Workers, NEW f, SettlesOnly(f), TakeOrWait(w, f)
  PROVE  /\ Settling
         /\ \A v \in Workers : v # w => worker'[v] = worker[v] /\ holding'[v] = holding[v]
         /\ \A i \in Items : attempts'[i] > attempts[i] => holding'[w] = i /\ worker'[w] = "running"
<1> USE ItemTypes
<1>1. Settling
  <2>1. \E S : SetFutures(Settle(f, S, "cancelled"))
    BY DEF TakeOrWait
  <2> QED
    BY <2>1, SettleOnly, SetFuturesSettles
<1>2. CASE LivePos(f, queue) = {}
  <2>1. /\ worker' = [worker EXCEPT ![w] = "waiting"] /\ holding' = [holding EXCEPT ![w] = NoItem]
        /\ attempts' = attempts
    BY <1>2 DEF TakeOrWait
  <2>2. \A i \in Items : attempts'[i] = attempts[i] /\ attempts[i] \in Nat
    BY <2>1
  <2> QED
    BY <1>1, <2>1, <2>2
<1>3. CASE LivePos(f, queue) # {}
  <2>1. PICK k \in LivePos(f, queue) :
          /\ worker' = [worker EXCEPT ![w] = "running"]
          /\ holding' = [holding EXCEPT ![w] = queue[k]]
          /\ attempts' = [attempts EXCEPT ![queue[k]] = @ + 1]
    BY <1>3 DEF TakeOrWait
  <2>2. queue[k] \in Items
    BY DEF LivePos
  <2>3. holding'[w] = queue[k] /\ worker'[w] = "running"
    BY <2>1, <2>2
  <2>4. \A i \in Items : i # queue[k] => attempts'[i] = attempts[i] /\ attempts[i] \in Nat
    BY <2>1, <2>2
  <2> QED
    BY <1>1, <2>1, <2>3, <2>4
<1> QED
  BY <1>2, <1>3

\* Each step of a runner is as RunnerMoves says.
LEMMA RunnerOnMoves ==
  ASSUME TypeOK, ItemInv, NEW w \in Workers, RunnerOn(w)
  PROVE  \E e, o : Observe(e, o) /\ RunnerMoves(w, e)
<1> USE ItemTypes
<1>0. SettlesOnly(future)
  BY DEF SettlesOnly
<1>1. CASE (WarmDone(w) \/ Wake(w)) /\ Observe(NoItem, "ok")
  <2>1. /\ TakeOrWait(w, future) /\ worker[w] # "running"
        /\ UNCHANGED <<byJob, caller, started, stopping>>
    BY <1>1 DEF WarmDone, Wake, backlogVars, lifeVars
  <2> QED
    BY <1>0, <1>1, <2>1, TakingMoves DEF RunnerMoves
<1>2. CASE ExpireTTL(w) /\ Observe(NoItem, "ok")
  <2>1. /\ UNCHANGED <<future, releasing, attempts, worker, holding, byJob, caller>>
        /\ UNCHANGED <<started, stopping>> /\ worker[w] = "waiting"
    BY <1>2 DEF ExpireTTL, itemVars, backlogVars, lifeVars
  <2>2. \A i \in Items : attempts'[i] = attempts[i] /\ attempts[i] \in Nat
    BY <2>1
  <2> QED
    BY <1>2, <2>1, <2>2 DEF RunnerMoves, Settling
<1>3. CASE Retire(w) /\ Observe(NoItem, "ok")
  <2>1. /\ SetFutures(Settle(future, DeadItems(future, queue, Len(queue)), "cancelled"))
        /\ worker' = [worker EXCEPT ![w] = "free"] /\ worker[w] = "waiting"
        /\ UNCHANGED <<attempts, holding, byJob, caller, started, stopping>>
    BY <1>3 DEF Retire, backlogVars, lifeVars
  <2>2. \A i \in Items : attempts'[i] = attempts[i] /\ attempts[i] \in Nat
    BY <2>1
  <2>3. Settling
    BY <1>0, <2>1, SettleOnly, SetFuturesSettles
  <2> QED
    BY <1>3, <2>1, <2>2, <2>3 DEF RunnerMoves
<1>4. CASE AttemptFails(w) /\ Observe(holding[w], "transient")
  <2>1. /\ UNCHANGED <<future, releasing, attempts, holding, byJob, caller>>
        /\ UNCHANGED <<started, stopping>> /\ worker' = [worker EXCEPT ![w] = "backoff"]
    BY <1>4 DEF AttemptFails, itemVars, backlogVars, lifeVars
  <2>2. \A i \in Items : attempts'[i] = attempts[i] /\ attempts[i] \in Nat
    BY <2>1
  <2> QED
    BY <1>4, <2>1, <2>2 DEF RunnerMoves, Settling
<1>5. ASSUME NEW o \in Outcomes, AttemptSettles(w, o) /\ Observe(holding[w], o)
      PROVE  RunnerMoves(w, holding[w])
  <2> DEFINE next == AfterAttempt(o, attempts[holding[w]], holding[w] \in cancelled)
  <2>1. /\ next # "backoff" /\ TakeOrWait(w, Settle(future, {holding[w]}, next))
        /\ UNCHANGED <<byJob, caller, started, stopping>>
    BY <1>5 DEF AttemptSettles, backlogVars, lifeVars
  <2>2. next \in {"result", "failed", "cancelled"}
    BY <2>1 DEF AfterAttempt
  <2> HIDE DEF next
  <2>3. SettlesOnly(Settle(future, {holding[w]}, next))
    BY <1>0, <2>2, SettleOnly
  <2> QED
    BY <2>1, <2>3, TakingMoves DEF RunnerMoves
<1>6. CASE BackoffDone(w) /\ Observe(NoItem, "ok")
  <2>1. /\ UNCHANGED <<future, releasing, holding, byJob, caller, started, stopping>>
        /\ worker' = [worker EXCEPT ![w] = "running"] /\ worker[w] = "backoff"
        /\ attempts' = [attempts EXCEPT ![holding[w]] = @ + 1]
    BY <1>6 DEF BackoffDone, backlogVars, lifeVars
  <2>2. \A i \in Items : i # holding[w] => attempts'[i] = attempts[i] /\ attempts[i] \in Nat
    BY <2>1
  <2> QED
    BY <1>6, <2>1, <2>2 DEF RunnerMoves, Settling
<1>7. CASE CancelRunner(w) /\ Observe(NoItem, "ok")
  <2>1. /\ SetFutures(Settle(future, {holding[w]}, "cancelled"))
        /\ worker' = [worker EXCEPT ![w] = "free"] /\ holding' = [holding EXCEPT ![w] = NoItem]
        /\ UNCHANGED <<attempts, byJob, caller, started, stopping>>
    BY <1>7 DEF CancelRunner, backlogVars, lifeVars
  <2>2. \A i \in Items : attempts'[i] = attempts[i] /\ attempts[i] \in Nat
    BY <2>1
  <2>3. Settling
    BY <1>0, <2>1, SettleOnly, SetFuturesSettles
  <2>4. worker[w] = "running" => future'[holding[w]] = "cancelled"
    BY <2>1, SettleValue DEF SetFutures, ItemInv, HoldersExecute, Executes
  <2> QED
    BY <1>7, <2>1, <2>2, <2>3, <2>4 DEF RunnerMoves
<1> QED
  BY <1>1, <1>2, <1>3, <1>4, <1>5, <1>6, <1>7 DEF RunnerOn

-----------------------------------------------------------------------------
(* The items of a job                                                         *)

\* What JobItems says of the number of items made, and which one is the last
LEMMA MadeFacts ==
  ASSUME NEW j \in Jobs, NEW f, NEW rel, NEW tk, NEW c, NEW a, JobItems(f, rel, j, tk, c, a)
  PROVE  /\ MadeIn(f, j) \in 0 .. MaxSteps
         /\ \A n \in 1 .. MaxSteps : f[<<j, n>>] # "none" <=> n <= MadeIn(f, j)
         /\ tk = "gpu" => <<j, MadeIn(f, j)>> \in Items /\ MadeIn(f, j) \in 1 .. MaxSteps
<1>1. \A n \in 1 .. MaxSteps : f[<<j, n>>] # "none" =>
        \A m \in 1 .. (n - 1) : f[<<j, m>>] # "none"
  BY DEF JobItems
<1>2. /\ MadeIn(f, j) \in 0 .. MaxSteps
      /\ \A n \in 1 .. MaxSteps : f[<<j, n>>] # "none" <=> n <= MadeIn(f, j)
  BY <1>1, MadeIs
<1>3. tk = "gpu" => MadeIn(f, j) \in 1 .. MaxSteps
  BY <1>2, SchedulerAssumption DEF JobItems
<1> QED
  BY <1>2, <1>3 DEF Items

\* The pairs of a job and a number are items.
LEMMA JobItem ==
  ASSUME NEW j \in Jobs
  PROVE  \A n \in 1 .. MaxSteps : <<j, n>> \in Items /\ JobOf(<<j, n>>) = j
                                  /\ \A m \in 1 .. (n - 1) : <<j, m>> \in Items
<1>1. MaxSteps \in Nat
  BY SchedulerAssumption
<1> QED
  BY <1>1 DEF Items, JobOf

\* Settled futures do not disturb a job's items.
LEMMA ItemsSettled ==
  ASSUME NEW j \in Jobs, NEW tk, NEW c, NEW a, Settling,
         JobItems(future, releasing, j, tk, c, a)
  PROVE  MadeIn(future', j) = MadeIn(future, j) /\ JobItems(future', releasing', j, tk, c, a)
<1>1. \A n \in 1 .. MaxSteps : <<j, n>> \in Items /\ \A m \in 1 .. (n - 1) : <<j, m>> \in Items
  BY JobItem
<1>2. \A n \in 1 .. MaxSteps : future'[<<j, n>>] # "none" <=> future[<<j, n>>] # "none"
  BY <1>1 DEF Settling
<1>3. MadeIn(future', j) = MadeIn(future, j)
  BY <1>2 DEF MadeIn
<1>4. \A i \in Items : future[i] = "result" /\ i \notin releasing
                         => future'[i] = "result" /\ i \notin releasing'
  BY DEF Settling
<1>5. \A i \in Items : future[i] # "pending" /\ i \notin releasing
                         => future'[i] # "pending" /\ i \notin releasing'
  BY DEF Settling
<1>6. \A n \in 1 .. MaxSteps : future'[<<j, n>>] # "none" =>
        \A m \in 1 .. (n - 1) : future'[<<j, m>>] = "result" /\ <<j, m>> \notin releasing'
  BY <1>1, <1>2, <1>4 DEF JobItems
<1>7. NothingDue(future, releasing, j) => NothingDue(future', releasing', j)
  BY <1>1, <1>5 DEF NothingDue
<1> QED
  BY <1>3, <1>6, <1>7 DEF JobItems

\* A job that goes on without a new item
LEMMA ItemsGoOn ==
  ASSUME NEW j \in Jobs, NEW c \in Seq(Steps), NEW a \in Nat, NEW b \in Nat, a <= b,
         NEW tk, tk # "none", NEW tk2, tk2 \notin {"none", "gpu"}, NEW f, NEW rel,
         JobItems(f, rel, j, tk, c, a), NothingDue(f, rel, j)
  PROVE  JobItems(f, rel, j, tk2, c, b)
<1>1. MadeIn(f, j) \in 0 .. MaxSteps
  BY MadeFacts
<1>2. MadeIn(f, j) <= Cardinality(GpuUpTo(c, a))
  BY DEF JobItems
<1>3. /\ Cardinality(GpuUpTo(c, a)) \in Nat /\ Cardinality(GpuUpTo(c, b)) \in Nat
      /\ Cardinality(GpuUpTo(c, a)) <= Cardinality(GpuUpTo(c, b))
  BY GpuCounts
<1>4. MadeIn(f, j) <= Cardinality(GpuUpTo(c, b))
  BY <1>1, <1>2, <1>3, SchedulerAssumption
<1> QED
  BY <1>4 DEF JobItems

\* A job that comes to GPU step b, which has room for another item
LEMMA RoomForItem ==
  ASSUME NEW j \in Jobs, NEW c \in Seq(Steps), GpuItemCount(c) <= MaxSteps,
         NEW a \in Nat, NEW b \in 1 .. Len(c), a < b, c[b] \in GpuSteps,
         NEW tk, tk # "none", JobItems(future, releasing, j, tk, c, a)
  PROVE  /\ NextItem(j) \in Items /\ NextItem(j) = <<j, MadeIn(future, j) + 1>>
         /\ MadeIn(future, j) + 1 \in 1 .. MaxSteps
         /\ MadeIn(future, j) + 1 <= Cardinality(GpuUpTo(c, b))
<1>1. MadeIn(future, j) \in 0 .. MaxSteps /\ MaxSteps \in Nat
  BY MadeFacts, SchedulerAssumption
<1>2. MadeIn(future, j) <= Cardinality(GpuUpTo(c, a))
  BY DEF JobItems
<1>3. /\ Cardinality(GpuUpTo(c, a)) + 1 <= Cardinality(GpuUpTo(c, b))
      /\ Cardinality(GpuUpTo(c, a)) \in Nat /\ Cardinality(GpuUpTo(c, b)) \in Nat
      /\ Cardinality(GpuUpTo(c, b)) <= GpuItemCount(c) /\ GpuItemCount(c) \in Nat
  <2>1. Cardinality(GpuAfter(c, 0)) = GpuItemCount(c) /\ Cardinality(GpuAfter(c, 0)) \in Nat
    BY GpuCounts
  <2> QED
    BY <2>1, GpuCounts
<1>4. MadeIn(future, j) + 1 \in 1 .. MaxSteps /\ MadeIn(future, j) + 1 <= Cardinality(GpuUpTo(c, b))
  BY <1>1, <1>2, <1>3
<1>5. NextItem(j) = <<j, MadeIn(future, j) + 1>>
  BY DEF NextItem, Made, MadeIn
<1> QED
  BY <1>4, <1>5 DEF Items

\* The job makes it.
LEMMA ItemsMade ==
  ASSUME TypeOK, LedgerInv, NEW j \in Jobs, NEW c \in Seq(Steps), GpuItemCount(c) <= MaxSteps,
         NEW a \in Nat, NEW b \in 1 .. Len(c), a < b, c[b] \in GpuSteps,
         NEW tk, tk # "none", JobItems(future, releasing, j, tk, c, a),
         NothingDue(future, releasing, j), MakeItem(NextItem(j))
  PROVE  /\ JobItems(future', releasing', j, "gpu", c, b)
         /\ MadeIn(future', j) = MadeIn(future, j) + 1
<1> DEFINE m == MadeIn(future, j)
<1>1. /\ NextItem(j) = <<j, m + 1>> /\ <<j, m + 1>> \in Items /\ m + 1 \in 1 .. MaxSteps
      /\ m + 1 <= Cardinality(GpuUpTo(c, b))
  BY RoomForItem
<1>2. m \in 0 .. MaxSteps /\ \A n \in 1 .. MaxSteps : future[<<j, n>>] # "none" <=> n <= m
  BY MadeFacts
<1>3. MaxSteps \in Nat
  BY SchedulerAssumption
<1> HIDE DEF m
<1>4. /\ future' = [future EXCEPT ![<<j, m + 1>>] = "pending"] /\ releasing' = releasing
      /\ future \in [Items -> FutureStates]
      /\ \A n \in 1 .. m : future[<<j, n>>] = "result" /\ <<j, n>> \notin releasing
  BY <1>1, <1>2, ItemTypes DEF MakeItem, ReachesStep, JobOf
<1>5. \A n \in 1 .. MaxSteps :
        future'[<<j, n>>] = IF n = m + 1 THEN "pending" ELSE future[<<j, n>>]
  BY <1>1, <1>4, JobItem
<1>6. \A n \in 1 .. MaxSteps : future'[<<j, n>>] # "none" <=> n <= m + 1
  BY <1>2, <1>3, <1>5
<1>7. {n \in 1 .. MaxSteps : future'[<<j, n>>] # "none"} = 1 .. m + 1
  BY <1>1, <1>2, <1>3, <1>6
<1>8. MadeIn(future', j) = m + 1
  <2>1. Cardinality(1 .. m + 1) = m + 1
    BY <1>2, <1>3, FS_Interval
  <2> QED
    BY <1>7, <2>1 DEF MadeIn
<1>9. \A n \in 1 .. MaxSteps : future'[<<j, n>>] # "none" =>
        \A k \in 1 .. (n - 1) : future'[<<j, k>>] = "result" /\ <<j, k>> \notin releasing'
  <2> SUFFICES ASSUME NEW n \in 1 .. MaxSteps, future'[<<j, n>>] # "none",
                      NEW k \in 1 .. (n - 1)
               PROVE  future'[<<j, k>>] = "result" /\ <<j, k>> \notin releasing'
    OBVIOUS
  <2>1. n <= m + 1
    BY <1>6
  <2>2. k \in 1 .. m /\ k \in 1 .. MaxSteps /\ k # m + 1
    BY <1>2, <1>3, <2>1
  <2> QED
    BY <1>4, <1>5, <2>2
<1>10. MadeIn(future', j) >= 1 /\ MadeIn(future', j) <= Cardinality(GpuUpTo(c, b))
  BY <1>1, <1>2, <1>3, <1>8
<1> QED
  BY <1>8, <1>9, <1>10 DEF JobItems, m

\* Another job's new item is none of this one's.
LEMMA ItemsOfOther ==
  ASSUME TypeOK, NEW j \in Jobs, NEW k \in Jobs, k # j, NEW n \in 1 .. MaxSteps, MakeItem(<<j, n>>)
  PROVE  /\ releasing' = releasing
         /\ \A m \in 1 .. MaxSteps : future'[<<k, m>>] = future[<<k, m>>]
         /\ MadeIn(future', k) = MadeIn(future, k)
         /\ \A tk, c, a : JobItems(future, releasing, k, tk, c, a)
                            => JobItems(future', releasing', k, tk, c, a)
<1>1. future' = [future EXCEPT ![<<j, n>>] = "pending"] /\ releasing' = releasing
      /\ future \in [Items -> FutureStates]
  BY ItemTypes DEF MakeItem
<1>2. \A m \in 1 .. MaxSteps : future'[<<k, m>>] = future[<<k, m>>]
  <2>1. \A m \in 1 .. MaxSteps : <<k, m>> \in Items /\ <<k, m>> # <<j, n>>
    BY JobItem
  <2> QED
    BY <1>1, <2>1
<1>3. MadeIn(future', k) = MadeIn(future, k)
  BY <1>2 DEF MadeIn
<1>4. ASSUME NEW tk, NEW c, NEW a, JobItems(future, releasing, k, tk, c, a)
      PROVE  JobItems(future', releasing', k, tk, c, a)
  <2>1. MaxSteps \in Nat
    BY SchedulerAssumption
  <2>2. \A m \in 1 .. MaxSteps : future'[<<k, m>>] # "none" =>
          \A x \in 1 .. (m - 1) : future'[<<k, x>>] = "result" /\ <<k, x>> \notin releasing'
    BY <1>1, <1>2, <1>4, <2>1 DEF JobItems
  <2>3. NothingDue(future, releasing, k) => NothingDue(future', releasing', k)
    BY <1>1, <1>2 DEF NothingDue
  <2> QED
    BY <1>3, <1>4, <2>2, <2>3 DEF JobItems
<1> QED
  BY <1>1, <1>2, <1>3, <1>4

-----------------------------------------------------------------------------
(* A job goes on                                                              *)

\* The types of a job that is in use
LEMMA JobFacts ==
  ASSUME JInv, NEW j \in Jobs
  PROVE  /\ request[j] \in JobRequests \cup {NoRequest} /\ state[j] \in JobStates
         /\ steps[j] \in Seq(StepRecord) /\ at[j] \in Nat /\ task[j] \in JobTasks
         /\ RecordsFit(request[j], state[j], task[j], at[j], steps[j])
         /\ CallerFits(caller[j], byJob[j], task[j])
         /\ JobItems(future, releasing, j, task[j], ChainOf(j), at[j])
         /\ Covered(state[j], byJob[j], ChainOf(j), at[j])
         /\ SpanFits(future, worker, holding, j, task[j], at[j], steps[j])
         /\ task[j] # "none" => /\ request[j] \in JobRequests
                                /\ ChainOf(j) \in Seq(Steps) /\ Len(ChainOf(j)) \in Nat
                                /\ Len(ChainOf(j)) >= 1
                                /\ GpuItemCount(ChainOf(j)) <= MaxSteps
                                /\ Len(steps[j]) = Len(ChainOf(j))
<1>1. /\ request[j] \in JobRequests \cup {NoRequest} /\ state[j] \in JobStates
      /\ steps[j] \in Seq(StepRecord) /\ at[j] \in Nat /\ task[j] \in JobTasks
  BY DEF JInv, JobTypes
<1>2. /\ RecordsFit(request[j], state[j], task[j], at[j], steps[j])
      /\ CallerFits(caller[j], byJob[j], task[j])
      /\ JobItems(future, releasing, j, task[j], ChainOf(j), at[j])
      /\ SpanFits(future, worker, holding, j, task[j], at[j], steps[j])
  BY DEF JInv, JobRecords, CallersFit, ItemsFit, SpansFit
<1>3. Covered(state[j], byJob[j], ChainOf(j), at[j])
  BY DEF JInv, ReservationLasts, Covered, GpuAfter
<1>4. ASSUME task[j] # "none"
      PROVE  /\ request[j] \in JobRequests /\ Len(steps[j]) = Len(ChainOf(j))
  BY <1>1, <1>2, <1>4 DEF RecordsFit, ChainOf
<1>5. ASSUME task[j] # "none"
      PROVE  /\ ChainOf(j) \in Seq(Steps) /\ Len(ChainOf(j)) \in Nat
             /\ Len(ChainOf(j)) >= 1 /\ GpuItemCount(ChainOf(j)) <= MaxSteps
  BY <1>4, <1>5, ChainTypes DEF ChainOf
<1> QED
  BY <1>1, <1>2, <1>3, <1>4, <1>5

(* How a job may end, or go on from the step it is at to step a: a cancel is  *)
(* seen before each step, and a step that ends is the one it is at.           *)
AsPromised(j, s, a, r) ==
  /\ s = "running" => a = at[j] \/ j \notin cancelRequested
  /\ s = "succeeded" => (j \in cancelRequested => at[j] = Len(r))
  /\ s = "failed" => task[j] \in AtStep /\ DoneBefore(r, at[j])
  /\ s = "cancelled" => /\ \/ j \in cancelRequested \/ phase = "cancelJobs"
                           \/ task[j] = "gpu" /\ future[CurItem(j)] = "cancelled"
                        /\ \/ DoneBefore(r, at[j] + 1)
                           \/ task[j] \in AtStep /\ DoneBefore(r, at[j])

\* The task of job j runs up to its next await, or to its end.
JobGoesOn(j, s, tk, a, r) ==
  /\ Becomes(j, s, tk, a, r)
  /\ UNCHANGED <<request, byKey, cancelRequested, phase>>
  /\ r \in Seq(StepRecord) /\ a \in Nat /\ a >= at[j] /\ s \in JobStates
  /\ RecordsFit(request[j], s, tk, a, r) /\ AsPromised(j, s, a, r)
  /\ state[j] \in {"queued", "running"} /\ task[j] \in {"created", "cpu", "cpuBackoff", "gpu"}
  /\ NothingDue(future, releasing, j)
  /\ \/ tk \in {"cpu", "cpuBackoff", "done"} /\ UNCHANGED vars
     \/ /\ tk = "gpu" /\ MakeItem(NextItem(j))
        /\ a > at[j] /\ a \in 1 .. Len(ChainOf(j)) /\ ChainOf(j)[a] \in GpuSteps
        /\ ~r[a].open

\* The item the job makes is one of the scheduler's.
LEMMA GoesOnIsStep ==
  ASSUME JInv, NEW j \in Jobs, NEW s, NEW tk, NEW a, NEW r, JobGoesOn(j, s, tk, a, r)
  PROVE  [Next]_vars
<1>1. CASE UNCHANGED vars
  BY <1>1
<1>2. CASE /\ MakeItem(NextItem(j)) /\ a > at[j]
           /\ a \in 1 .. Len(ChainOf(j)) /\ ChainOf(j)[a] \in GpuSteps
  <2>1. task[j] # "none"
    BY DEF JobGoesOn
  <2>2. NextItem(j) \in Items
    BY <1>2, <2>1, JobFacts, RoomForItem
  <2> QED
    BY <1>2, <2>2 DEF Next
<1> QED
  BY <1>1, <1>2 DEF JobGoesOn

\* Records, keys and callers
LEMMA GoesOnRecords ==
  ASSUME TypeOK, JInv, NEW j \in Jobs, NEW s, NEW tk, NEW a, NEW r, JobGoesOn(j, s, tk, a, r)
  PROVE  /\ \A k \in Jobs : /\ state'[k] = IF k = j THEN s ELSE state[k]
                            /\ task'[k] = IF k = j THEN tk ELSE task[k]
                            /\ at'[k] = IF k = j THEN a ELSE at[k]
                            /\ steps'[k] = IF k = j THEN r ELSE steps[k]
         /\ JobTypes' /\ NewestOfKey' /\ JobRecords' /\ CallersFit' /\ PhaseFits'
<1>1. tk \in JobTasks /\ tk \notin {"none", "gone"}
  BY DEF JobGoesOn, JobTasks
<1>2. \A k \in Jobs : /\ state'[k] = IF k = j THEN s ELSE state[k]
                      /\ task'[k] = IF k = j THEN tk ELSE task[k]
                      /\ at'[k] = IF k = j THEN a ELSE at[k]
                      /\ steps'[k] = IF k = j THEN r ELSE steps[k]
  BY DEF JobGoesOn, Becomes, JInv, JobTypes
<1>3. JobTypes'
  BY <1>1 DEF JobGoesOn, Becomes, JInv, JobTypes
<1>4. NewestOfKey'
  <2>1. state[j] \notin Resubmittable
    BY DEF JobGoesOn, Resubmittable
  <2> QED
    BY <1>2, <2>1 DEF JInv, NewestOfKey, Untouched, JobGoesOn
<1>5. JobRecords'
  <2>1. \A k \in Jobs : RecordsFit(request'[k], state'[k], task'[k], at'[k], steps'[k])
    BY <1>2 DEF JInv, JobRecords, JobGoesOn
  <2> QED
    BY <2>1 DEF JobRecords
<1>6. caller' = caller /\ (UNCHANGED byJob \/ byJob' = [byJob EXCEPT ![j] = @ - 1])
      /\ UNCHANGED <<started, stopping>>
  BY DEF JobGoesOn, vars, backlogVars, lifeVars, MakeItem, NextItem, JobOf
<1>7. CallersFit'
  <2>1. ASSUME NEW k \in Jobs
        PROVE  CallerFits(caller'[k], byJob'[k], task'[k])
    <3>1. CallerFits(caller[k], byJob[k], task[k])
      BY JobFacts
    <3>2. CASE k = j
      BY <1>1, <1>2, <1>6, <3>1, <3>2 DEF CallerFits, JobGoesOn
    <3>3. CASE k # j
      <4>1. byJob'[k] = byJob[k]
        BY <1>6, <3>3 DEF TypeOK
      <4> QED
        BY <1>2, <1>6, <3>1, <3>3, <4>1
    <3> QED
      BY <3>2, <3>3
  <2> QED
    BY <2>1 DEF CallersFit
<1>8. PhaseFits'
  <2>1. phase # "down"
    BY DEF JInv, PhaseFits, JobGoesOn
  <2> QED
    BY <1>6, <2>1 DEF JInv, PhaseFits, JobGoesOn
<1> QED
  BY <1>2, <1>3, <1>4, <1>5, <1>7, <1>8


\* Items, reservations and spans
LEMMA GoesOnItems ==
  ASSUME TypeOK, LedgerInv, JInv, NEW j \in Jobs, NEW s, NEW tk, NEW a, NEW r,
         JobGoesOn(j, s, tk, a, r)
  PROVE  ItemsFit' /\ ReservationLasts' /\ SpansFit'
<1>1. \A k \in Jobs : /\ state'[k] = IF k = j THEN s ELSE state[k]
                      /\ task'[k] = IF k = j THEN tk ELSE task[k]
                      /\ at'[k] = IF k = j THEN a ELSE at[k]
                      /\ steps'[k] = IF k = j THEN r ELSE steps[k]
  BY GoesOnRecords
<1>2. \A k \in Jobs : ChainOf(k)' = ChainOf(k)
  BY DEF ChainOf, JobGoesOn
<1>3. /\ task[j] # "none" /\ ChainOf(j) \in Seq(Steps) /\ Len(ChainOf(j)) \in Nat
      /\ GpuItemCount(ChainOf(j)) <= MaxSteps
      /\ JobItems(future, releasing, j, task[j], ChainOf(j), at[j])
      /\ Covered(state[j], byJob[j], ChainOf(j), at[j])
      /\ at[j] \in Nat /\ a \in Nat /\ at[j] <= a
      /\ state[j] \in {"queued", "running"} /\ NothingDue(future, releasing, j)
  BY JobFacts DEF JobGoesOn
<1>4. byJob \in [Jobs -> Nat]
  BY DEF TypeOK
<1>5. /\ Cardinality(GpuAfter(ChainOf(j), at[j])) \in Nat
      /\ Cardinality(GpuAfter(ChainOf(j), a)) \in Nat
      /\ Cardinality(GpuAfter(ChainOf(j), a)) <= Cardinality(GpuAfter(ChainOf(j), at[j]))
      /\ byJob[j] >= Cardinality(GpuAfter(ChainOf(j), at[j]))
  BY <1>3, GpuCounts DEF Covered
<1>6. ASSUME tk \in {"cpu", "cpuBackoff", "done"}, UNCHANGED vars
      PROVE  ItemsFit' /\ ReservationLasts' /\ SpansFit'
  <2>1. UNCHANGED <<future, releasing, byJob, worker, holding>>
    BY <1>6 DEF vars, itemVars, backlogVars, runnerVars
  <2>2. JobItems(future, releasing, j, tk, ChainOf(j), a)
    BY <1>3, <1>6, ItemsGoOn
  <2>3. \A k \in Jobs : JobItems(future', releasing', k, task'[k], ChainOf(k), at'[k])
    BY <1>1, <2>1, <2>2, JobFacts
  <2>4. ItemsFit'
    BY <1>2, <2>3 DEF ItemsFit
  <2>5. \A k \in Jobs : Covered(state'[k], byJob'[k], ChainOf(k), at'[k])
    BY <1>1, <1>4, <1>5, <2>1, JobFacts DEF Covered
  <2>6. ReservationLasts'
    BY <1>2, <2>5 DEF ReservationLasts, Covered, GpuAfter
  <2>7. \A k \in Jobs : SpanFits(future', worker', holding', k, task'[k], at'[k], steps'[k])
    <3>1. SpanFits(future', worker', holding', j, task'[j], at'[j], steps'[j])
      BY <1>1, <1>6 DEF SpanFits
    <3> QED
      BY <1>1, <2>1, <3>1, JobFacts
  <2> QED
    BY <2>4, <2>6, <2>7 DEF SpansFit
<1>7. ASSUME tk = "gpu", MakeItem(NextItem(j)), a > at[j], a \in 1 .. Len(ChainOf(j)),
             ChainOf(j)[a] \in GpuSteps, ~r[a].open
      PROVE  ItemsFit' /\ ReservationLasts' /\ SpansFit'
  <2> DEFINE n == MadeIn(future, j) + 1
  <2>1. NextItem(j) = <<j, n>> /\ n \in 1 .. MaxSteps
    BY <1>3, <1>7, RoomForItem
  <2>2. MakeItem(<<j, n>>) /\ byJob' = [byJob EXCEPT ![j] = @ - 1] /\ byJob[j] > 0
        /\ UNCHANGED <<worker, holding>>
    BY <1>7, <2>1 DEF MakeItem, JobOf
  <2> HIDE DEF n
  <2>3. JobItems(future', releasing', j, "gpu", ChainOf(j), a)
    BY <1>3, <1>7, ItemsMade
  <2>4. \A k \in Jobs : JobItems(future', releasing', k, task'[k], ChainOf(k), at'[k])
    <3>1. ASSUME NEW k \in Jobs, k # j
          PROVE  JobItems(future', releasing', k, task[k], ChainOf(k), at[k])
      BY <2>1, <2>2, <3>1, ItemsOfOther, JobFacts
    <3> QED
      BY <1>1, <1>7, <2>3, <3>1
  <2>5. ItemsFit'
    BY <1>2, <2>4 DEF ItemsFit
  <2>6. \A k \in Jobs : Covered(state'[k], byJob'[k], ChainOf(k), at'[k])
    <3>1. Cardinality(GpuAfter(ChainOf(j), a)) + 1 <= Cardinality(GpuAfter(ChainOf(j), at[j]))
      BY <1>3, <1>7, GpuCounts
    <3>2. byJob'[j] = byJob[j] - 1 /\ byJob[j] \in Nat
      BY <1>4, <2>2
    <3>3. Covered(state'[j], byJob'[j], ChainOf(j), at'[j])
      BY <1>1, <1>5, <3>1, <3>2 DEF Covered
    <3>4. \A k \in Jobs : k # j => byJob'[k] = byJob[k]
      BY <1>4, <2>2
    <3> QED
      BY <1>1, <3>3, <3>4, JobFacts
  <2>7. ReservationLasts'
    BY <1>2, <2>6 DEF ReservationLasts, Covered, GpuAfter
  <2>8. ASSUME NEW k \in Jobs
        PROVE  SpanFits(future', worker', holding', k, task'[k], at'[k], steps'[k])
    <3>1. CASE k = j
      BY <1>1, <1>7, <3>1 DEF SpanFits
    <3>2. CASE k # j
      <4>1. /\ SpanFits(future, worker, holding, k, task[k], at[k], steps[k])
            /\ JobItems(future, releasing, k, task[k], ChainOf(k), at[k])
        BY JobFacts
      <4>2. /\ MadeIn(future', k) = MadeIn(future, k)
            /\ \A m \in 1 .. MaxSteps : future'[<<k, m>>] = future[<<k, m>>]
        BY <2>1, <2>2, <3>2, ItemsOfOther
      <4>3. task[k] = "gpu" => MadeIn(future, k) \in 1 .. MaxSteps
        BY <4>1, MadeFacts
      <4> QED
        BY <1>1, <2>2, <3>2, <4>1, <4>2, <4>3 DEF SpanFits
    <3> QED
      BY <3>1, <3>2
  <2> QED
    BY <2>5, <2>7, <2>8 DEF SpansFit
<1> QED
  BY <1>6, <1>7 DEF JobGoesOn

\* A job that goes on keeps the invariant.
LEMMA GoesOnKeeps ==
  ASSUME TypeOK, LedgerInv, JInv, NEW j \in Jobs, NEW s, NEW tk, NEW a, NEW r,
         JobGoesOn(j, s, tk, a, r)
  PROVE  [Next]_vars /\ JInv'
  BY GoesOnIsStep, GoesOnRecords, GoesOnItems DEF JInv

-----------------------------------------------------------------------------
(* The steps of a job's task                                                  *)

\* The task of job j runs, nothing of the job is due and the step it is at has
\* records sr.
Runnable(j, sr) ==
  /\ UNCHANGED <<request, byKey, cancelRequested, phase>>
  /\ task[j] \in {"created", "cpu", "cpuBackoff", "gpu"}
  /\ NothingDue(future, releasing, j)
  /\ sr \in Seq(StepRecord) /\ Len(sr) = Len(steps[j])

\* What the invariant says of such a job
LEMMA RunnableFacts ==
  ASSUME JInv, NEW j \in Jobs, NEW sr, Runnable(j, sr)
  PROVE  /\ request[j] \in JobRequests /\ request[j] # NoRequest
         /\ state[j] \in {"queued", "running"}
         /\ Len(sr) = Len(ChainOf(j)) /\ Len(sr) = Len(request[j].chain)
         /\ Len(sr) \in Nat /\ at[j] \in Nat
         /\ task[j] \in AtStep => at[j] \in 1 .. Len(sr) /\ UnderWayAt(steps[j], at[j])
         /\ task[j] = "created" => at[j] = 0 /\ ReadyAt(steps[j], 1)
<1>1. task[j] # "none"
  BY DEF Runnable
<1>2. /\ request[j] \in JobRequests /\ Len(steps[j]) = Len(ChainOf(j)) /\ at[j] \in Nat
      /\ Len(ChainOf(j)) \in Nat /\ RecordsFit(request[j], state[j], task[j], at[j], steps[j])
  BY <1>1, JobFacts
<1>3. request[j] # NoRequest
  BY <1>2, ServiceAssumption
<1> QED
  BY <1>1, <1>2, <1>3 DEF Runnable, RecordsFit, AtStep, ChainOf

\* The job ends with records that say how.
LEMMA Ends ==
  ASSUME JInv, NEW j \in Jobs, NEW sr, Runnable(j, sr), NEW s \in Terminal, ClosedAs(sr, s),
         NEW a \in Nat, a >= at[j], Becomes(j, s, "done", a, sr), UNCHANGED vars,
         AsPromised(j, s, a, sr)
  PROVE  JobGoesOn(j, s, "done", a, sr)
<1>1. RecordsFit(request[j], s, "done", a, sr)
  BY RunnableFacts DEF RecordsFit, AtStep
<1> QED
  BY <1>1, RunnableFacts DEF JobGoesOn, Runnable, JobStates

\* The loop of ChainRunner.run goes on from a step after the one it was at.
LEMMA ProceedGoesOn ==
  ASSUME JInv, NEW j \in Jobs, NEW sr, Runnable(j, sr),
         NEW n \in Nat, n = at[j] + 1, n <= Len(sr) + 1, ReadyAt(sr, n), NEW m,
         Proceed(j, n, sr, m)
  PROVE  \E s, tk, a, r : JobGoesOn(j, s, tk, a, r)
<1> USE RunnableFacts
<1>1. n >= 1 /\ sr \in Seq(StepRecord)
  BY DEF Runnable
<1>2. PICK r \in Seq(StepRecord), a \in Nat :
           /\ Len(r) = Len(sr) /\ a >= n
           /\ \/ /\ Becomes(j, "cancelled", "done", a, r) /\ ClosedAs(r, "cancelled")
                 /\ j \in cancelRequested /\ DoneBefore(r, n) /\ UNCHANGED vars
              \/ /\ Becomes(j, "succeeded", "done", a, r) /\ ClosedAs(r, "succeeded")
                 /\ n <= Len(r) => j \notin cancelRequested
                 /\ UNCHANGED vars
              \/ /\ a \in n .. Len(r) /\ UnderWayAt(r, a) /\ j \notin cancelRequested
                 /\ \/ Becomes(j, "running", "cpu", a, r) /\ UNCHANGED vars
                    \/ /\ Becomes(j, "running", "gpu", a, r) /\ MakeItem(NextItem(j))
                       /\ ChainOf(j)[a] \in GpuSteps /\ ~r[a].open
  BY <1>1, ProceedEffect
<1>3. a >= at[j] /\ a > at[j] /\ Runnable(j, r)
  BY <1>2 DEF Runnable
<1>4. ASSUME NEW s \in {"succeeded", "cancelled"},
             Becomes(j, s, "done", a, r) /\ ClosedAs(r, s) /\ UNCHANGED vars,
             AsPromised(j, s, a, r)
      PROVE  JobGoesOn(j, s, "done", a, r)
  BY <1>3, <1>4, Ends DEF Terminal
<1>5. ASSUME a \in n .. Len(r), UnderWayAt(r, a), NEW tk \in {"cpu", "gpu"}
      PROVE  RecordsFit(request[j], "running", tk, a, r) /\ a \in 1 .. Len(ChainOf(j))
  BY <1>2, <1>3, <1>5 DEF RecordsFit, AtStep
<1>6. CASE /\ a \in n .. Len(r) /\ UnderWayAt(r, a) /\ j \notin cancelRequested
           /\ Becomes(j, "running", "cpu", a, r) /\ UNCHANGED vars
  <2>1. RecordsFit(request[j], "running", "cpu", a, r)
    BY <1>5, <1>6
  <2>2. JobGoesOn(j, "running", "cpu", a, r)
    BY <1>3, <1>6, <2>1 DEF JobGoesOn, Runnable, JobStates, AsPromised
  <2> QED
    BY <2>2
<1>7. CASE /\ a \in n .. Len(r) /\ UnderWayAt(r, a) /\ j \notin cancelRequested
           /\ Becomes(j, "running", "gpu", a, r) /\ MakeItem(NextItem(j))
           /\ ChainOf(j)[a] \in GpuSteps /\ ~r[a].open
  <2>1. RecordsFit(request[j], "running", "gpu", a, r) /\ a \in 1 .. Len(ChainOf(j))
    BY <1>5, <1>7
  <2>2. JobGoesOn(j, "running", "gpu", a, r)
    BY <1>3, <1>7, <2>1 DEF JobGoesOn, Runnable, JobStates, AsPromised
  <2> QED
    BY <2>2
<1>8. CASE /\ Becomes(j, "cancelled", "done", a, r) /\ ClosedAs(r, "cancelled")
           /\ j \in cancelRequested /\ DoneBefore(r, n) /\ UNCHANGED vars
  <2>1. AsPromised(j, "cancelled", a, r)
    BY <1>8 DEF AsPromised
  <2> QED
    BY <1>4, <1>8, <2>1
<1>9. CASE /\ Becomes(j, "succeeded", "done", a, r) /\ ClosedAs(r, "succeeded")
           /\ n <= Len(r) => j \notin cancelRequested
           /\ UNCHANGED vars
  <2>1. AsPromised(j, "succeeded", a, r)
    BY <1>2, <1>9 DEF AsPromised
  <2> QED
    BY <1>4, <1>9, <2>1
<1> QED
  BY <1>2, <1>6, <1>7, <1>8, <1>9

\* The records when the step under way has succeeded
LEMMA SucceededReady ==
  ASSUME NEW sr \in Seq(StepRecord), NEW a \in 1 .. Len(sr), UnderWayAt(sr, a), ~sr[a].open
  PROVE  LET r == [sr EXCEPT ![a].state = "succeeded"]
         IN  /\ r = [sr EXCEPT ![a] = [sr[a] EXCEPT !.state = "succeeded"]]
             /\ r \in Seq(StepRecord) /\ Len(r) = Len(sr) /\ ReadyAt(r, a + 1)
<1> DEFINE x == [sr[a] EXCEPT !.state = "succeeded"]
           r == [sr EXCEPT ![a].state = "succeeded"]
<1>1. a \in 1 .. Len(sr) /\ Len(sr) \in Nat /\ sr[a] \in StepRecord
  OBVIOUS
<1>2. x \in StepRecord /\ x.state = "succeeded" /\ ~x.open
  BY <1>1, SucceededRecord
<1>3. r = [sr EXCEPT ![a] = x]
  OBVIOUS
<1> HIDE DEF x, r
<1>4. /\ r \in Seq(StepRecord) /\ Len(r) = Len(sr) /\ r[a] = x
      /\ \A k \in 1 .. Len(sr) : k # a => r[k] = sr[k]
  BY <1>2, <1>3, RecordsUpdate
<1>5. ReadyAt(r, a + 1)
  <2> SUFFICES ASSUME NEW k \in 1 .. Len(sr)
               PROVE  /\ ~r[k].open
                      /\ r[k].state = IF k < a + 1 THEN "succeeded" ELSE "pending"
    BY <1>4 DEF ReadyAt
  <2>1. k \in Nat /\ a \in Nat
    OBVIOUS
  <2>2. CASE k = a
    BY <1>2, <1>4, <2>1, <2>2
  <2>3. CASE k # a
    <3>1. ~sr[k].open /\ sr[k].state = IF k < a THEN "succeeded" ELSE "pending"
      BY <2>3 DEF UnderWayAt
    <3>2. k < a + 1 <=> k < a
      BY <2>1, <2>3
    <3> QED
      BY <1>4, <2>3, <3>1, <3>2
  <2> QED
    BY <2>2, <2>3
<1> QED
  BY <1>3, <1>4, <1>5 DEF r, x

\* The step returned its output.
LEMMA SuccessGoesOn ==
  ASSUME JInv, NEW j \in Jobs, NEW sr, Runnable(j, sr), task[j] \in AtStep,
         UnderWayAt(sr, at[j]), ~sr[at[j]].open, StepSucceeds(j, sr)
  PROVE  \E s, tk, a, r : JobGoesOn(j, s, tk, a, r)
<1> DEFINE a == at[j]
           r == [sr EXCEPT ![a].state = "succeeded"]
<1>1. a \in 1 .. Len(sr) /\ Len(sr) \in Nat /\ sr \in Seq(StepRecord)
  BY RunnableFacts DEF Runnable
<1>2. Proceed(j, a + 1, r, Remember(memo, MemoKey(j, a)))
  BY DEF StepSucceeds
<1>3. r \in Seq(StepRecord) /\ Len(r) = Len(sr) /\ ReadyAt(r, a + 1)
  BY <1>1, SucceededReady
<1> HIDE DEF r
<1>4. Runnable(j, r)
  BY <1>3 DEF Runnable
<1>5. a + 1 \in Nat /\ a + 1 <= Len(r) + 1
  BY <1>1, <1>3
<1> QED
  BY <1>2, <1>3, <1>4, <1>5, ProceedGoesOn

\* The step failed.
LEMMA FailureGoesOn ==
  ASSUME JInv, NEW j \in Jobs, NEW sr, Runnable(j, sr), task[j] \in AtStep,
         UnderWayAt(sr, at[j]), ~sr[at[j]].open, FinishFailed(j, sr), UNCHANGED vars
  PROVE  \E s, tk, a, r : JobGoesOn(j, s, tk, a, r)
<1> DEFINE a == at[j]
           x == Failed(sr[a])
           r == [sr EXCEPT ![a] = Failed(@)]
<1>1. a \in 1 .. Len(sr) /\ Len(sr) \in Nat /\ sr \in Seq(StepRecord) /\ sr[a] \in StepRecord
      /\ a \in Nat
  BY RunnableFacts DEF Runnable
<1>2. x \in StepRecord /\ x.state = "failed" /\ ~x.open
  BY <1>1, FailedRecord
<1>3. r = [sr EXCEPT ![a] = x]
  OBVIOUS
<1>4. Becomes(j, "failed", "done", a, r)
  BY DEF FinishFailed, Finish, Becomes
<1> HIDE DEF x, r
<1>5. /\ r \in Seq(StepRecord) /\ Len(r) = Len(sr) /\ r[a] = x
      /\ \A k \in 1 .. Len(sr) : k # a => r[k] = sr[k]
  BY <1>1, <1>2, <1>3, RecordsUpdate
<1>6. \A k \in 1 .. Len(r) : /\ ~r[k].open /\ r[k].state \notin {"running", "retrying"}
                             /\ k = a => r[k].state = "failed"
  BY <1>2, <1>5 DEF UnderWayAt
<1>7. ClosedAs(r, "failed")
  <2>1. "failed" \in {r[k].state : k \in 1 .. Len(r)}
    BY <1>1, <1>5, <1>6
  <2> QED
    BY <1>6, <2>1 DEF ClosedAs
<1>8. Runnable(j, r) /\ "failed" \in Terminal /\ a >= at[j] /\ AsPromised(j, "failed", a, r)
  <2>1. DoneBefore(r, a)
    BY <1>1, <1>2, <1>5 DEF UnderWayAt, DoneBefore
  <2> QED
    BY <1>1, <1>5, <2>1 DEF Runnable, Terminal, AsPromised
<1>9. JobGoesOn(j, "failed", "done", a, r)
  BY <1>1, <1>4, <1>7, <1>8, Ends
<1> QED
  BY <1>9

\* The step was cancelled.
LEMMA CancelGoesOn ==
  ASSUME JInv, NEW j \in Jobs, NEW sr, Runnable(j, sr), task[j] \in AtStep,
         UnderWayAt(sr, at[j]), FinishCancelled(j, at[j], sr), UNCHANGED vars,
         \/ j \in cancelRequested \/ phase = "cancelJobs"
         \/ task[j] = "gpu" /\ future[CurItem(j)] = "cancelled"
  PROVE  \E s, tk, a, r : JobGoesOn(j, s, tk, a, r)
<1> DEFINE a == at[j]
           x == Interrupted(sr[a])
           r == [sr EXCEPT ![a] = Interrupted(@)]
<1>1. a \in 1 .. Len(sr) /\ Len(sr) \in Nat /\ sr \in Seq(StepRecord) /\ sr[a] \in StepRecord
      /\ a \in Nat
  BY RunnableFacts DEF Runnable
<1>2. x \in StepRecord /\ ~x.open /\ x.state \in {"pending", "cancelled"}
  <2>1. sr[a].state \in {"pending", "running", "retrying"}
    BY <1>1 DEF UnderWayAt
  <2> QED
    BY <1>1, <2>1, InterruptedRecord
<1>3. r = [sr EXCEPT ![a] = x]
  OBVIOUS
<1>4. Becomes(j, "cancelled", "done", a, r)
  BY DEF FinishCancelled, Finish, Becomes
<1> HIDE DEF x, r
<1>5. /\ r \in Seq(StepRecord) /\ Len(r) = Len(sr) /\ r[a] = x
      /\ \A k \in 1 .. Len(sr) : k # a => r[k] = sr[k]
  BY <1>1, <1>2, <1>3, RecordsUpdate
<1>6. \A k \in 1 .. Len(r) : ~r[k].open /\ r[k].state \in {"pending", "succeeded", "cancelled"}
  BY <1>2, <1>5 DEF UnderWayAt
<1>7. ClosedAs(r, "cancelled")
  BY <1>6 DEF ClosedAs
<1>8. Runnable(j, r) /\ "cancelled" \in Terminal /\ a >= at[j] /\ AsPromised(j, "cancelled", a, r)
  <2>1. DoneBefore(r, a)
    BY <1>1, <1>2, <1>5 DEF UnderWayAt, DoneBefore
  <2> QED
    BY <1>1, <1>5, <2>1 DEF Runnable, Terminal, AsPromised
<1>9. JobGoesOn(j, "cancelled", "done", a, r)
  BY <1>1, <1>4, <1>7, <1>8, Ends
<1> QED
  BY <1>9


\* The first step of a job's task
LEMMA JobBeginsGoesOn ==
  ASSUME JInv, NEW j \in Jobs, JobBegins(j)
  PROVE  \E s, tk, a, r : JobGoesOn(j, s, tk, a, r)
<1>1. /\ task[j] = "created" /\ Proceed(j, 1, steps[j], memo)
      /\ UNCHANGED <<request, byKey, cancelRequested, phase>>
  BY DEF JobBegins
<1>2. NothingDue(future, releasing, j) /\ steps[j] \in Seq(StepRecord)
  BY <1>1, JobFacts DEF JobItems
<1>3. Runnable(j, steps[j])
  BY <1>1, <1>2 DEF Runnable
<1>4. 1 = at[j] + 1 /\ ReadyAt(steps[j], 1) /\ 1 <= Len(steps[j]) + 1
  <2>1. at[j] = 0 /\ ReadyAt(steps[j], 1) /\ Len(steps[j]) \in Nat
    BY <1>1, <1>3, RunnableFacts
  <2> QED
    BY <2>1
<1> QED
  BY <1>1, <1>3, <1>4, ProceedGoesOn

\* A record under way whose step has begun an attempt, or ended one, still is.
LEMMA UnderWayKept ==
  ASSUME NEW sr \in Seq(StepRecord), NEW n \in 1 .. Len(sr), UnderWayAt(sr, n), NEW x \in StepRecord,
         x.state \in {"pending", "running", "retrying"}
  PROVE  LET r == [sr EXCEPT ![n] = x]
         IN  /\ r \in Seq(StepRecord) /\ Len(r) = Len(sr) /\ r[n] = x /\ UnderWayAt(r, n)
<1> DEFINE r == [sr EXCEPT ![n] = x]
<1>1. /\ r \in Seq(StepRecord) /\ Len(r) = Len(sr) /\ r[n] = x
      /\ \A k \in 1 .. Len(sr) : k # n => r[k] = sr[k]
  BY RecordsUpdate
<1> HIDE DEF r
<1>2. UnderWayAt(r, n)
  BY <1>1 DEF UnderWayAt
<1> QED
  BY <1>1, <1>2 DEF r

\* The tasks of CPU steps run their attempts themselves.
LEMMA CpuAttemptGoesOn ==
  ASSUME JInv, NEW j \in Jobs, NEW o \in Outcomes, CpuAttemptEnds(j, o)
  PROVE  \E s, tk, a, r : JobGoesOn(j, s, tk, a, r)
<1> DEFINE a    == at[j]
           x    == AttemptFinished(steps[j][a], o)
           sr   == [steps[j] EXCEPT ![a] = AttemptFinished(@, o)]
           next == AfterAttempt(o, sr[a].attempts, SeesCancel(j))
<1>1. /\ task[j] = "cpu" /\ UNCHANGED <<request, byKey, cancelRequested, phase>>
      /\ \/ StepSucceeds(j, sr)
         \/ FinishFailed(j, sr) /\ UNCHANGED vars
         \/ j \in cancelRequested /\ FinishCancelled(j, at[j], sr) /\ UNCHANGED vars
         \/ /\ steps' = [steps EXCEPT ![j] = sr]
            /\ task' = [task EXCEPT ![j] = "cpuBackoff"]
            /\ UNCHANGED <<vars, state, at>>
  <2>1. next = "cancelled" => j \in cancelRequested
    BY DEF AfterAttempt, SeesCancel
  <2> QED
    BY <2>1 DEF CpuAttemptEnds
<1>2. /\ steps[j] \in Seq(StepRecord) /\ NothingDue(future, releasing, j)
      /\ UNCHANGED <<request, byKey, cancelRequested, phase>>
  BY <1>1, JobFacts DEF JobItems
<1>3. Runnable(j, steps[j])
  BY <1>1, <1>2 DEF Runnable
<1>4. /\ a \in 1 .. Len(steps[j]) /\ UnderWayAt(steps[j], a) /\ task[j] \in AtStep /\ a \in Nat
      /\ state[j] \in {"queued", "running"} /\ state \in [Jobs -> JobStates] /\ at \in [Jobs -> Nat]
      /\ request[j] # NoRequest /\ Len(steps[j]) = Len(request[j].chain)
  BY <1>1, <1>3, RunnableFacts DEF AtStep, JInv, JobTypes
<1>5. steps[j][a] \in StepRecord /\ steps[j][a].state \in {"pending", "running", "retrying"}
  BY <1>2, <1>4 DEF UnderWayAt
<1>6. x \in StepRecord /\ ~x.open /\ x.state \in {"pending", "running", "retrying"}
  BY <1>5, FinishedRecord
<1>7. sr = [steps[j] EXCEPT ![a] = x]
  OBVIOUS
<1> HIDE DEF x, sr
<1>8. sr \in Seq(StepRecord) /\ Len(sr) = Len(steps[j]) /\ sr[a] = x /\ UnderWayAt(sr, a)
  BY <1>2, <1>4, <1>6, <1>7, UnderWayKept
<1>9. Runnable(j, sr) /\ ~sr[a].open
  BY <1>3, <1>6, <1>8 DEF Runnable
<1>10. CASE StepSucceeds(j, sr)
  BY <1>4, <1>8, <1>9, <1>10, SuccessGoesOn
<1>11. CASE FinishFailed(j, sr) /\ UNCHANGED vars
  BY <1>4, <1>8, <1>9, <1>11, FailureGoesOn
<1>12. CASE j \in cancelRequested /\ FinishCancelled(j, at[j], sr) /\ UNCHANGED vars
  BY <1>4, <1>8, <1>9, <1>12, CancelGoesOn
<1>13. CASE /\ steps' = [steps EXCEPT ![j] = sr] /\ task' = [task EXCEPT ![j] = "cpuBackoff"]
            /\ UNCHANGED <<vars, state, at>>
  <2>1. state[j] = "running"
    <3>1. RecordsFit(request[j], state[j], task[j], at[j], steps[j])
      BY JobFacts
    <3> QED
      BY <1>1, <3>1 DEF RecordsFit, AtStep
  <2>2. Becomes(j, "running", "cpuBackoff", a, sr) /\ UNCHANGED vars
    BY <1>4, <1>13, <2>1 DEF Becomes
  <2>3. RecordsFit(request[j], "running", "cpuBackoff", a, sr)
    BY <1>4, <1>8 DEF RecordsFit, AtStep
  <2>4. JobGoesOn(j, "running", "cpuBackoff", a, sr)
    BY <1>1, <1>2, <1>4, <1>8, <2>1, <2>2, <2>3 DEF JobGoesOn, JobStates, AsPromised
  <2> QED
    BY <2>4
<1> QED
  BY <1>1, <1>10, <1>11, <1>12, <1>13

LEMMA CpuBackoffGoesOn ==
  ASSUME JInv, NEW j \in Jobs, CpuBackoffDone(j)
  PROVE  \E s, tk, a, r : JobGoesOn(j, s, tk, a, r)
<1> DEFINE a    == at[j]
           x    == AttemptStarted(steps[j][a])
           sr   == [steps[j] EXCEPT ![a] = x]
<1>1. /\ task[j] = "cpuBackoff" /\ UNCHANGED <<request, byKey, cancelRequested, phase>>
      /\ steps' = [steps EXCEPT ![j] = [steps[j] EXCEPT ![a] = AttemptStarted(@)]]
      /\ task' = [task EXCEPT ![j] = "cpu"]
      /\ UNCHANGED <<vars, state, at>>
  BY DEF CpuBackoffDone
<1>2. steps[j] \in Seq(StepRecord) /\ NothingDue(future, releasing, j)
  BY <1>1, JobFacts DEF JobItems
<1>3. Runnable(j, steps[j])
  BY <1>1, <1>2 DEF Runnable
<1>4. /\ a \in 1 .. Len(steps[j]) /\ UnderWayAt(steps[j], a) /\ task[j] \in AtStep /\ a \in Nat
      /\ state[j] \in {"queued", "running"} /\ state \in [Jobs -> JobStates] /\ at \in [Jobs -> Nat]
      /\ request[j] # NoRequest /\ Len(steps[j]) = Len(request[j].chain)
  BY <1>1, <1>3, RunnableFacts DEF AtStep, JInv, JobTypes
<1>5. x \in StepRecord /\ x.state = "running"
  <2>1. steps[j][a] \in StepRecord
    BY <1>2, <1>4
  <2> QED
    BY <2>1, StartedRecord
<1>6. steps' = [steps EXCEPT ![j] = sr]
  BY <1>1
<1> HIDE DEF x
<1>7. sr \in Seq(StepRecord) /\ Len(sr) = Len(steps[j]) /\ UnderWayAt(sr, a)
  BY <1>2, <1>4, <1>5, UnderWayKept
<1> HIDE DEF sr
<1>8. state[j] = "running"
  <2>1. RecordsFit(request[j], state[j], task[j], at[j], steps[j])
    BY JobFacts
  <2> QED
    BY <1>1, <2>1 DEF RecordsFit, AtStep
<1>9. Becomes(j, "running", "cpu", a, sr)
  BY <1>1, <1>4, <1>6, <1>8 DEF Becomes
<1>10. RecordsFit(request[j], "running", "cpu", a, sr)
  BY <1>4, <1>7 DEF RecordsFit, AtStep
<1>11. JobGoesOn(j, "running", "cpu", a, sr)
  BY <1>1, <1>2, <1>4, <1>7, <1>8, <1>9, <1>10 DEF JobGoesOn, JobStates, AsPromised
<1> QED
  BY <1>11

(* A task that is told of its item has nothing due: the items before it were  *)
(* released, and the release of this one ran before the task did.             *)
LEMMA DeliveredDone ==
  ASSUME LedgerInv, JInv, NEW j \in Jobs, Delivered(j)
  PROVE  NothingDue(future, releasing, j)
<1> DEFINE m == MadeIn(future, j)
<1>1. /\ task[j] = "gpu" /\ JobItems(future, releasing, j, task[j], ChainOf(j), at[j])
      /\ future[<<j, m>>] # "pending" /\ <<j, m>> \notin releasing
  BY JobFacts DEF Delivered, CurItem, Made, MadeIn
<1>2. m \in 1 .. MaxSteps /\ \A n \in 1 .. MaxSteps : future[<<j, n>>] # "none" <=> n <= m
  BY <1>1, MadeFacts
<1> HIDE DEF m
<1>3. \A n \in 1 .. (m - 1) : future[<<j, n>>] = "result" /\ <<j, n>> \notin releasing
  BY <1>1, <1>2 DEF JobItems
<1>4. MaxSteps \in Nat
  BY SchedulerAssumption
<1>5. ASSUME NEW n \in 1 .. MaxSteps
      PROVE  future[<<j, n>>] # "pending" /\ <<j, n>> \notin releasing
  <2>1. CASE n < m
    <3>1. n \in 1 .. (m - 1)
      BY <1>2, <1>4, <2>1
    <3> QED
      BY <1>3, <3>1
  <2>2. CASE n = m
    BY <1>1, <2>2
  <2>3. CASE n > m
    <3>1. future[<<j, n>>] = "none"
      BY <1>2, <1>4, <2>3
    <3>2. <<j, n>> \notin releasing
      BY <3>1 DEF LedgerInv
    <3> QED
      BY <3>1, <3>2
  <2> QED
    BY <1>2, <1>4, <2>1, <2>2, <2>3
<1> QED
  BY <1>5 DEF NothingDue

\* No runner is at an item that is settled: success and failure leave no span
\* open.
LEMMA SettledClosed ==
  ASSUME ItemInv, JInv, NEW j \in Jobs, task[j] = "gpu", future[CurItem(j)] # "pending"
  PROVE  future[CurItem(j)] # "cancelled" => ~steps[j][at[j]].open
<1>1. SpanFits(future, worker, holding, j, task[j], at[j], steps[j])
  BY JobFacts
<1>2. CurItem(j) \in Items /\ CurItem(j) = <<j, MadeIn(future, j)>>
  BY JobFacts, MadeFacts DEF CurItem, Made, MadeIn
<1>3. \A w \in Workers : holding[w] # CurItem(j)
  <2>1. CurItem(j) # NoItem
    BY <1>2, SchedulerAssumption DEF Items
  <2> QED
    BY <2>1 DEF ItemInv, HoldersExecute
<1> QED
  BY <1>1, <1>2, <1>3 DEF SpanFits

\* The awaited item is over, and with it the step.
LEMMA GpuItemGoesOn ==
  ASSUME ItemInv, LedgerInv, JInv, NEW j \in Jobs, GpuItemEnds(j)
  PROVE  \E s, tk, a, r : JobGoesOn(j, s, tk, a, r)
<1>1. /\ Delivered(j) /\ UNCHANGED <<request, byKey, cancelRequested, phase>>
      /\ \/ future[CurItem(j)] = "result" /\ StepSucceeds(j, steps[j])
         \/ future[CurItem(j)] = "failed" /\ FinishFailed(j, steps[j]) /\ UNCHANGED vars
         \/ /\ future[CurItem(j)] = "cancelled"
            /\ FinishCancelled(j, at[j], steps[j]) /\ UNCHANGED vars
  BY DEF GpuItemEnds
<1>2. task[j] = "gpu" /\ future[CurItem(j)] # "pending" /\ CurItem(j) = <<j, MadeIn(future, j)>>
  BY <1>1 DEF Delivered, CurItem, Made, MadeIn
<1>3. Runnable(j, steps[j])
  BY <1>1, <1>2, DeliveredDone, JobFacts DEF Runnable
<1>4. UnderWayAt(steps[j], at[j]) /\ task[j] \in AtStep
  BY <1>2, <1>3, RunnableFacts DEF AtStep
<1>5. future[CurItem(j)] # "cancelled" => ~steps[j][at[j]].open
  BY <1>2, SettledClosed
<1>6. CASE future[CurItem(j)] = "result" /\ StepSucceeds(j, steps[j])
  BY <1>3, <1>4, <1>5, <1>6, SuccessGoesOn
<1>7. CASE future[CurItem(j)] = "failed" /\ FinishFailed(j, steps[j]) /\ UNCHANGED vars
  BY <1>3, <1>4, <1>5, <1>7, FailureGoesOn
<1>8. CASE /\ future[CurItem(j)] = "cancelled"
           /\ FinishCancelled(j, at[j], steps[j]) /\ UNCHANGED vars
  BY <1>2, <1>3, <1>4, <1>8, CancelGoesOn
<1> QED
  BY <1>1, <1>6, <1>7, <1>8

\* stop() cancels a task that runs a CPU step.
LEMMA TaskCancelGoesOn ==
  ASSUME JInv, NEW j \in Jobs, task[j] \in {"cpu", "cpuBackoff"}, phase = "cancelJobs",
         FinishCancelled(j, at[j], steps[j]), UNCHANGED vars,
         UNCHANGED <<request, byKey, cancelRequested, phase>>
  PROVE  \E s, tk, a, r : JobGoesOn(j, s, tk, a, r)
<1>1. NothingDue(future, releasing, j) /\ steps[j] \in Seq(StepRecord)
  BY JobFacts DEF JobItems
<1>2. Runnable(j, steps[j])
  BY <1>1 DEF Runnable
<1>3. UnderWayAt(steps[j], at[j]) /\ task[j] \in AtStep
  BY <1>2, RunnableFacts DEF AtStep
<1> QED
  BY <1>2, <1>3, CancelGoesOn

-----------------------------------------------------------------------------
(* Steps beside the jobs' tasks                                               *)

LEMMA BesideJobs ==
  ASSUME JInv, Settling, UNCHANGED <<byJob, caller>>, UNCHANGED <<request, byKey, state, at, task>>
  PROVE  /\ NewestOfKey' /\ CallersFit' /\ ItemsFit' /\ ReservationLasts'
         /\ \A j \in Jobs : MadeIn(future', j) = MadeIn(future, j)
<1>1. NewestOfKey'
  BY DEF JInv, NewestOfKey, Untouched
<1>2. CallersFit'
  BY DEF JInv, CallersFit
<1>3. \A j \in Jobs : ChainOf(j)' = ChainOf(j)
  BY DEF ChainOf
<1>4. \A j \in Jobs : /\ MadeIn(future', j) = MadeIn(future, j)
                      /\ JobItems(future', releasing', j, task[j], ChainOf(j), at[j])
  BY JobFacts, ItemsSettled
<1>5. ItemsFit'
  BY <1>3, <1>4 DEF ItemsFit
<1>6. ReservationLasts'
  BY <1>3 DEF JInv, ReservationLasts
<1> QED
  BY <1>1, <1>2, <1>4, <1>5, <1>6

\* Callbacks, cancels, start() and stop() leave the records alone.
LEMMA RecordsKept ==
  ASSUME JInv, Settling, HoldersGoOn, UNCHANGED <<byJob, caller>>,
         UNCHANGED <<request, byKey, state, steps, at, task>>,
         cancelRequested' \subseteq Jobs, phase' \in Phases, PhaseFits'
  PROVE  JInv'
<1>1. /\ NewestOfKey' /\ CallersFit' /\ ItemsFit' /\ ReservationLasts'
      /\ \A j \in Jobs : MadeIn(future', j) = MadeIn(future, j)
  BY BesideJobs
<1>2. JobTypes' /\ JobRecords'
  BY DEF JInv, JobTypes, JobRecords
<1>3. ASSUME NEW j \in Jobs
      PROVE  SpanFits(future', worker', holding', j, task[j], at[j], steps[j])
  <2>1. SpanFits(future, worker, holding, j, task[j], at[j], steps[j])
    BY JobFacts
  <2>2. task[j] = "gpu" => <<j, MadeIn(future, j)>> \in Items
    BY JobFacts, MadeFacts
  <2> QED
    BY <1>1, <2>1, <2>2 DEF SpanFits, Settling, HoldersGoOn
<1>4. SpansFit'
  BY <1>3 DEF SpansFit
<1> QED
  BY <1>1, <1>2, <1>4 DEF JInv

\* What an observer does to the record of an awaited item
LEMMA ObserveEffect ==
  ASSUME JInv, NEW e, NEW o, Observe(e, o), NEW j \in Jobs
  PROVE  /\ task[j] # "gpu" => steps'[j] = steps[j]
         /\ task[j] = "gpu" => \E x \in StepRecord :
              /\ steps'[j] = [steps[j] EXCEPT ![at[j]] = x]
              /\ x.state \in {"pending", "running", "retrying"}
              /\ at[j] \in 1 .. Len(steps[j]) /\ UnderWayAt(steps[j], at[j])
              /\ x.open => /\ CurItem(j) # e
                           /\ \/ attempts'[CurItem(j)] > attempts[CurItem(j)]
                              \/ steps[j][at[j]].open
<1>1. steps'[j] = IF task[j] = "gpu"
                  THEN [steps[j] EXCEPT ![at[j]] =
                          IF CurItem(j) = e THEN AttemptFinished(@, o)
                          ELSE IF attempts'[CurItem(j)] > attempts[CurItem(j)]
                               THEN AttemptStarted(@) ELSE @]
                  ELSE steps[j]
  BY DEF Observe
<1>2. ASSUME task[j] = "gpu"
      PROVE  \E x \in StepRecord :
              /\ steps'[j] = [steps[j] EXCEPT ![at[j]] = x]
              /\ x.state \in {"pending", "running", "retrying"}
              /\ at[j] \in 1 .. Len(steps[j]) /\ UnderWayAt(steps[j], at[j])
              /\ x.open => /\ CurItem(j) # e
                           /\ \/ attempts'[CurItem(j)] > attempts[CurItem(j)]
                              \/ steps[j][at[j]].open
  <2> DEFINE y == steps[j][at[j]]
             x == IF CurItem(j) = e THEN AttemptFinished(y, o)
                  ELSE IF attempts'[CurItem(j)] > attempts[CurItem(j)]
                       THEN AttemptStarted(y) ELSE y
  <2>1. steps[j] \in Seq(StepRecord) /\ at[j] \in 1 .. Len(steps[j]) /\ UnderWayAt(steps[j], at[j])
    BY <1>2, JobFacts DEF RecordsFit, AtStep
  <2>2. y \in StepRecord /\ y.state \in {"pending", "running", "retrying"}
    BY <2>1 DEF UnderWayAt
  <2>3. steps'[j] = [steps[j] EXCEPT ![at[j]] = x]
    BY <1>1, <1>2
  <2> HIDE DEF y
  <2>4. x \in StepRecord /\ x.state \in {"pending", "running", "retrying"}
    BY <2>2, FinishedRecord, StartedRecord
  <2>5. x.open => /\ CurItem(j) # e
                  /\ attempts'[CurItem(j)] > attempts[CurItem(j)] \/ y.open
    BY <2>2, FinishedRecord
  <2> HIDE DEF x
  <2> QED
    BY <2>1, <2>3, <2>4, <2>5 DEF y
<1> QED
  BY <1>1, <1>2

(* The step of a runner: what its observer writes keeps the record under way, *)
(* and closes the span of the attempt that the runner has ended.              *)
LEMMA RunsKeeps ==
  ASSUME TypeOK, ItemInv, JInv, NEW w \in Workers, Runs(w)
  PROVE  JInv'
<1>1. PICK e, o : Observe(e, o) /\ RunnerMoves(w, e)
  BY RunnerOnMoves DEF Runs
<1>2. /\ UNCHANGED <<request, byKey, state, at, task, cancelRequested, phase>>
      /\ UNCHANGED <<byJob, caller, started, stopping>> /\ Settling
  BY <1>1 DEF Runs, RunnerMoves
<1>3. /\ NewestOfKey' /\ CallersFit' /\ ItemsFit' /\ ReservationLasts'
      /\ \A j \in Jobs : MadeIn(future', j) = MadeIn(future, j)
  BY <1>2, BesideJobs
<1>4. ASSUME NEW j \in Jobs
      PROVE  /\ steps'[j] \in Seq(StepRecord)
             /\ RecordsFit(request[j], state[j], task[j], at[j], steps'[j])
             /\ SpanFits(future', worker', holding', j, task[j], at[j], steps'[j])
  <2>1. /\ steps[j] \in Seq(StepRecord)
        /\ RecordsFit(request[j], state[j], task[j], at[j], steps[j])
        /\ SpanFits(future, worker, holding, j, task[j], at[j], steps[j])
    BY JobFacts
  <2>2. CASE task[j] # "gpu"
    <3>1. steps'[j] = steps[j]
      BY <1>1, <2>2, ObserveEffect
    <3> QED
      BY <2>1, <2>2, <3>1 DEF SpanFits
  <2>3. CASE task[j] = "gpu"
    <3>1. PICK x \in StepRecord :
              /\ steps'[j] = [steps[j] EXCEPT ![at[j]] = x]
              /\ x.state \in {"pending", "running", "retrying"}
              /\ at[j] \in 1 .. Len(steps[j]) /\ UnderWayAt(steps[j], at[j])
              /\ x.open => /\ CurItem(j) # e
                           /\ \/ attempts'[CurItem(j)] > attempts[CurItem(j)]
                              \/ steps[j][at[j]].open
      BY <1>1, <2>3, ObserveEffect
    <3>2. /\ steps'[j] \in Seq(StepRecord) /\ Len(steps'[j]) = Len(steps[j])
          /\ steps'[j][at[j]] = x /\ UnderWayAt(steps'[j], at[j])
      BY <2>1, <3>1, UnderWayKept
    <3>3. RecordsFit(request[j], state[j], task[j], at[j], steps'[j])
      BY <2>1, <2>3, <3>2 DEF RecordsFit, AtStep
    <3> DEFINE i == <<j, MadeIn(future, j)>>
    <3>4. i \in Items /\ CurItem(j) = i
      BY <2>3, JobFacts, MadeFacts DEF CurItem, Made, MadeIn
    <3> HIDE DEF i
    <3>5. ASSUME x.open
          PROVE  future'[i] = "cancelled" \/ \E v \in Workers : holding'[v] = i /\ worker'[v] = "running"
      <4>1. CASE attempts'[i] > attempts[i]
        BY <1>1, <3>4, <4>1 DEF RunnerMoves
      <4>2. CASE steps[j][at[j]].open
        <5>1. \/ future[i] = "cancelled"
              \/ \E v \in Workers : holding[v] = i /\ worker[v] = "running"
          BY <2>1, <2>3, <4>2 DEF SpanFits, i
        <5>2. CASE future[i] = "cancelled"
          BY <1>2, <3>4, <5>2 DEF Settling
        <5>3. ASSUME NEW v \in Workers, holding[v] = i, worker[v] = "running"
              PROVE  \/ future'[i] = "cancelled"
                     \/ holding'[v] = i /\ worker'[v] = "running"
          <6>1. CASE v = w
            BY <1>1, <3>1, <3>4, <3>5, <5>3, <6>1 DEF RunnerMoves
          <6>2. CASE v # w
            BY <1>1, <5>3, <6>2 DEF RunnerMoves
          <6> QED
            BY <6>1, <6>2
        <5> QED
          BY <5>1, <5>2, <5>3
      <4> QED
        BY <3>1, <3>4, <3>5, <4>1, <4>2
    <3>6. SpanFits(future', worker', holding', j, task[j], at[j], steps'[j])
      <4>1. MadeIn(future', j) = MadeIn(future, j)
        BY <1>3
      <4> QED
        BY <3>2, <3>5, <4>1 DEF SpanFits, i
    <3> QED
      BY <3>2, <3>3, <3>6
  <2> QED
    BY <2>2, <2>3
<1>5. JobTypes'
  <2>1. DOMAIN steps' = Jobs /\ \E g : steps' = [j \in Jobs |-> g[j]]
    <3>1. steps' = [j \in Jobs |-> steps'[j]]
      BY <1>1 DEF Observe
    <3> QED
      BY <3>1
  <2>2. steps' \in [Jobs -> Seq(StepRecord)]
    BY <1>4, <2>1
  <2> QED
    BY <1>2, <2>2 DEF JInv, JobTypes
<1>6. JobRecords' /\ SpansFit'
  BY <1>2, <1>4 DEF JobRecords, SpansFit
<1>7. PhaseFits'
  BY <1>2 DEF JInv, PhaseFits
<1> QED
  BY <1>3, <1>5, <1>6, <1>7 DEF JInv

-----------------------------------------------------------------------------
(* Jobs come and go                                                           *)

\* The request of a new job, and the records it is given
LEMMA NewJob ==
  ASSUME NEW r \in Requests, Accepts(r.chain)
  PROVE  LET q  == JobRequest(r)
             sr == [n \in 1 .. Len(q.chain) |-> NewStepRun]
         IN  /\ q \in JobRequests /\ q.key = r.key /\ r.key \in Keys
             /\ GpuItemCount(q.chain) \in 0 .. MaxSteps
             /\ sr \in Seq(StepRecord) /\ Len(sr) = Len(q.chain) /\ ReadyAt(sr, 1)
<1> DEFINE q  == JobRequest(r)
           sr == [n \in 1 .. Len(q.chain) |-> NewStepRun]
<1>1. q \in JobRequests /\ r.key \in Keys
  BY DEF JobRequests, Keys
<1>2. DOMAIN r = {"key", "chain", "image"}
  BY ServiceAssumption
<1>3. q.key = r.key
  BY <1>2 DEF JobRequest
<1> HIDE DEF q
<1>4. q.chain \in Seq(Steps) /\ Len(q.chain) \in Nat /\ GpuItemCount(q.chain) <= MaxSteps
  BY <1>1, ChainTypes
<1>5. GpuItemCount(q.chain) \in 0 .. MaxSteps
  <2>1. Cardinality(GpuAfter(q.chain, 0)) = GpuItemCount(q.chain)
        /\ Cardinality(GpuAfter(q.chain, 0)) \in Nat
    BY <1>4, GpuCounts
  <2> QED
    BY <1>4, <2>1, SchedulerAssumption
<1>6. NewStepRun \in StepRecord /\ ~NewStepRun.open /\ NewStepRun.state = "pending"
  BY DEF NewStepRun, StepRecord, RecordState
<1>7. sr \in Seq(StepRecord) /\ Len(sr) = Len(q.chain)
  BY <1>4, <1>6
<1>8. ReadyAt(sr, 1)
  <2>1. \A k \in 1 .. Len(sr) : sr[k] = NewStepRun /\ k \in Nat /\ ~ (k < 1)
    BY <1>4, <1>7
  <2> QED
    BY <1>6, <2>1 DEF ReadyAt
<1> QED
  BY <1>1, <1>3, <1>5, <1>7, <1>8 DEF q

\* A key is taken by a new job only when its newest one is dead.
LEMMA SubmitKeeps ==
  ASSUME TypeOK, LedgerInv, JInv, NEW j \in Jobs, NEW r \in Requests, Submit(j, r)
  PROVE  [Next]_vars /\ JInv'
<1> DEFINE q  == JobRequest(r)
           c  == q.chain
           sr == [n \in 1 .. Len(c) |-> NewStepRun]
<1>1. /\ request[j] = NoRequest /\ Accepts(r.chain) /\ ~Dedups(r.key)
      /\ Admit(j, GpuItemCount(c))
      /\ request' = [request EXCEPT ![j] = q]
      /\ byKey' = [byKey EXCEPT ![r.key] = j]
      /\ state' = [state EXCEPT ![j] = "queued"]
      /\ steps' = [steps EXCEPT ![j] = sr]
      /\ task' = [task EXCEPT ![j] = "created"]
      /\ UNCHANGED <<at, cancelRequested, phase>>
  BY DEF Submit, Untouched
<1>2. /\ q \in JobRequests /\ q.key = r.key /\ r.key \in Keys
      /\ GpuItemCount(c) \in 0 .. MaxSteps
      /\ sr \in Seq(StepRecord) /\ Len(sr) = Len(c) /\ ReadyAt(sr, 1)
  BY <1>1, NewJob
<1>3. c \in Seq(Steps) /\ q # NoRequest
  BY <1>2, ChainTypes
<1> HIDE DEF sr, q
<1>4. task[j] = "none" /\ state[j] = "none" /\ at[j] = 0
  BY <1>1, JobFacts DEF RecordsFit
<1>5. [Next]_vars
  BY <1>1, <1>2 DEF Next
<1>6. /\ UNCHANGED <<future, releasing, worker, holding, started, stopping>> /\ started
      /\ caller' = [caller EXCEPT ![j] = "admitted"] /\ caller[j] = "new"
      /\ byJob' = [byJob EXCEPT ![j] = byJob[j] + GpuItemCount(c)]
  BY <1>1 DEF Admit, itemVars, runnerVars, lifeVars
<1>7. /\ byJob[j] = 0 /\ byJob \in [Jobs -> Nat]
      /\ caller \in [Jobs -> {"new", "admitted", "final"}]
  BY <1>6 DEF LedgerInv, TypeOK
<1>8. \A k \in Jobs : /\ request'[k] = IF k = j THEN q ELSE request[k]
                      /\ state'[k] = IF k = j THEN "queued" ELSE state[k]
                      /\ task'[k] = IF k = j THEN "created" ELSE task[k]
                      /\ at'[k] = at[k]
                      /\ steps'[k] = IF k = j THEN sr ELSE steps[k]
                      /\ caller'[k] = IF k = j THEN "admitted" ELSE caller[k]
                      /\ byJob'[k] = IF k = j THEN GpuItemCount(c) ELSE byJob[k]
  BY <1>1, <1>2, <1>6, <1>7 DEF JInv, JobTypes
<1>9. JobTypes'
  BY <1>1, <1>2 DEF JInv, JobTypes, JobStates, JobTasks
<1>10. NewestOfKey'
  <2> SUFFICES ASSUME NEW k \in Jobs, request'[k] # NoRequest, state'[k] \notin Resubmittable
               PROVE  byKey'[request'[k].key] = k
    BY DEF NewestOfKey, Untouched
  <2>1. byKey \in [Keys -> Jobs \cup {NoJob}]
    BY DEF JInv, JobTypes
  <2>2. CASE k = j
    BY <1>1, <1>2, <1>8, <2>1, <2>2
  <2>3. CASE k # j
    <3>1. /\ request[k] # NoRequest /\ state[k] \notin Resubmittable
          /\ request'[k] = request[k] /\ byKey[request[k].key] = k
      BY <1>8, <2>3 DEF JInv, NewestOfKey, Untouched
    <3>2. request[k].key # r.key
      <4>1. k # NoJob
        BY ServiceAssumption
      <4> QED
        BY <1>1, <3>1, <4>1 DEF Dedups
    <3>3. request[k].key \in Keys
      BY <3>1, ChainTypes, JobFacts
    <3> QED
      BY <1>1, <2>1, <3>1, <3>2, <3>3
  <2> QED
    BY <2>2, <2>3
<1>11. JobRecords'
  <2>1. RecordsFit(q, "queued", "created", 0, sr)
    BY <1>2, <1>3 DEF RecordsFit, AtStep
  <2>2. \A k \in Jobs : RecordsFit(request'[k], state'[k], task'[k], at'[k], steps'[k])
    BY <1>4, <1>8, <2>1, JobFacts
  <2> QED
    BY <2>2 DEF JobRecords
<1>12. CallersFit'
  <2>1. \A k \in Jobs : CallerFits(caller'[k], byJob'[k], task'[k])
    <3>1. CallerFits("admitted", GpuItemCount(c), "created")
      BY DEF CallerFits
    <3> QED
      BY <1>8, <3>1, JobFacts
  <2> QED
    BY <2>1 DEF CallersFit
<1>13. \A k \in Jobs : ChainOf(k)' = IF k = j THEN c ELSE ChainOf(k)
  BY <1>8 DEF ChainOf
<1>14. ItemsFit'
  <2>1. /\ JobItems(future, releasing, j, "none", ChainOf(j), at[j])
        /\ Cardinality(GpuUpTo(c, 0)) = 0
    BY <1>3, <1>4, JobFacts, GpuCounts
  <2>2. JobItems(future, releasing, j, "created", c, 0)
    BY <2>1 DEF JobItems
  <2>3. \A k \in Jobs : JobItems(future', releasing', k, task'[k], ChainOf(k)', at'[k])
    BY <1>4, <1>6, <1>8, <1>13, <2>2, JobFacts
  <2> QED
    BY <2>3 DEF ItemsFit
<1>15. ReservationLasts'
  <2>1. Covered("queued", GpuItemCount(c), c, 0)
    <3>1. Cardinality(GpuAfter(c, 0)) = GpuItemCount(c) /\ Cardinality(GpuAfter(c, 0)) \in Nat
      BY <1>3, GpuCounts
    <3> QED
      BY <3>1 DEF Covered
  <2>2. \A k \in Jobs : Covered(state'[k], byJob'[k], ChainOf(k)', at'[k])
    BY <1>4, <1>8, <1>13, <2>1, JobFacts
  <2> QED
    BY <2>2 DEF ReservationLasts, Covered, GpuAfter
<1>16. SpansFit'
  <2>1. SpanFits(future, worker, holding, j, "created", 0, sr)
    BY DEF SpanFits
  <2>2. \A k \in Jobs : SpanFits(future', worker', holding', k, task'[k], at'[k], steps'[k])
    BY <1>4, <1>6, <1>8, <2>1, JobFacts
  <2> QED
    BY <2>2 DEF SpansFit
<1>17. PhaseFits'
  BY <1>1, <1>6 DEF JInv, PhaseFits
<1> QED
  BY <1>5, <1>9, <1>10, <1>11, <1>12, <1>14, <1>15, <1>16, <1>17 DEF JInv

\* The done-callback gives back what is left of the reservation.
LEMMA OnDoneKeeps ==
  ASSUME TypeOK, JInv, NEW j \in Jobs, OnDone(j)
  PROVE  [Next]_vars /\ JInv'
<1>1. /\ task[j] = "done" /\ FinalizeJob(j) /\ task' = [task EXCEPT ![j] = "gone"]
      /\ UNCHANGED <<request, byKey, state, steps, at, cancelRequested, phase>>
  BY DEF OnDone
<1>2. [Next]_vars
  BY <1>1 DEF Next
<1>3. /\ UNCHANGED <<future, releasing, worker, holding, started, stopping>>
      /\ caller' = [caller EXCEPT ![j] = "final"] /\ byJob' = [byJob EXCEPT ![j] = 0]
      /\ byJob \in [Jobs -> Nat] /\ caller \in [Jobs -> {"new", "admitted", "final"}]
  BY <1>1 DEF FinalizeJob, itemVars, runnerVars, lifeVars, TypeOK
<1>4. \A k \in Jobs : /\ task'[k] = IF k = j THEN "gone" ELSE task[k]
                      /\ caller'[k] = IF k = j THEN "final" ELSE caller[k]
                      /\ byJob'[k] = IF k = j THEN 0 ELSE byJob[k]
  BY <1>1, <1>3 DEF JInv, JobTypes
<1>5. JobTypes' /\ NewestOfKey'
  BY <1>1 DEF JInv, JobTypes, JobTasks, NewestOfKey, Untouched
<1>6. JobRecords'
  <2>1. RecordsFit(request[j], state[j], "gone", at[j], steps[j])
    <3>1. RecordsFit(request[j], state[j], "done", at[j], steps[j])
      BY <1>1, JobFacts
    <3> QED
      BY <3>1 DEF RecordsFit, AtStep
  <2>2. \A k \in Jobs : RecordsFit(request[k], state[k], task'[k], at[k], steps[k])
    BY <1>4, <2>1, JobFacts
  <2> QED
    BY <1>1, <2>2 DEF JobRecords
<1>7. CallersFit'
  <2>1. CallerFits("final", 0, "gone")
    BY DEF CallerFits
  <2>2. \A k \in Jobs : CallerFits(caller'[k], byJob'[k], task'[k])
    BY <1>4, <2>1, JobFacts
  <2> QED
    BY <2>2 DEF CallersFit
<1>8. \A k \in Jobs : ChainOf(k)' = ChainOf(k)
  BY <1>1 DEF ChainOf
<1>9. ItemsFit'
  <2>1. JobItems(future, releasing, j, "gone", ChainOf(j), at[j])
    <3>1. JobItems(future, releasing, j, "done", ChainOf(j), at[j])
      BY <1>1, JobFacts
    <3> QED
      BY <3>1 DEF JobItems
  <2>2. \A k \in Jobs : JobItems(future, releasing, k, task'[k], ChainOf(k), at[k])
    BY <1>4, <2>1, JobFacts
  <2> QED
    BY <1>1, <1>3, <1>8, <2>2 DEF ItemsFit
<1>10. ReservationLasts'
  <2>1. state[j] \notin {"queued", "running"}
    BY <1>1, JobFacts DEF RecordsFit, Terminal
  <2>2. \A k \in Jobs : Covered(state[k], byJob'[k], ChainOf(k), at[k])
    BY <1>4, <2>1, JobFacts DEF Covered
  <2> QED
    BY <1>1, <1>8, <2>2 DEF ReservationLasts, Covered, GpuAfter
<1>11. SpansFit'
  <2>1. \A k \in Jobs : SpanFits(future, worker, holding, k, task'[k], at[k], steps[k])
    <3>1. SpanFits(future, worker, holding, j, "gone", at[j], steps[j])
      BY DEF SpanFits
    <3> QED
      BY <1>4, <3>1, JobFacts
  <2> QED
    BY <1>1, <1>3, <2>1 DEF SpansFit
<1>12. PhaseFits'
  <2>1. phase # "down"
    BY <1>1 DEF JInv, PhaseFits
  <2> QED
    BY <1>1, <1>3, <2>1 DEF JInv, PhaseFits
<1> QED
  BY <1>2, <1>5, <1>6, <1>7, <1>9, <1>10, <1>11, <1>12 DEF JInv

-----------------------------------------------------------------------------
(* Every step of the service is a step of the scheduler, or none of its, and  *)
(* keeps the invariant.                                                       *)

LEMMA CurItemType ==
  ASSUME JInv, NEW j \in Jobs, task[j] = "gpu"
  PROVE  CurItem(j) \in Items
  BY JobFacts, MadeFacts DEF CurItem, Made, MadeIn

\* start(), cancel(), the callbacks and stop()
LEMMA OtherKeeps ==
  ASSUME TypeOK, JInv,
         \/ ServiceStart \/ Callbacks \/ StopBegins \/ RunnersGone \/ CancelTasks \/ StopReturned
         \/ \E j \in Jobs : \/ Cancel(j)
                            \/ task[j] = "gpu" /\ TaskCancelled(j)
  PROVE  [Next]_vars /\ JInv'
<1> DEFINE Quietly == /\ [Next]_vars /\ Settling /\ HoldersGoOn /\ UNCHANGED <<byJob, caller>>
                      /\ UNCHANGED <<request, byKey, state, steps, at, task>>
<1>0. JobTypes /\ PhaseFits
  BY DEF JInv
<1>1. CASE ServiceStart
  <2>1. Quietly
    BY <1>1, CallsSettle DEF ServiceStart, Next
  <2>2. PhaseFits' /\ cancelRequested' = cancelRequested /\ phase' = "up"
    BY <1>0, <1>1 DEF ServiceStart, Start, PhaseFits
  <2> QED
    BY <1>0, <2>1, <2>2, RecordsKept DEF JobTypes, Phases
<1>2. CASE Callbacks
  <2>1. Quietly /\ UNCHANGED <<cancelRequested, phase>>
    BY <1>2, CallsSettle DEF Callbacks, Next, jobVars
  <2>2. UNCHANGED <<started, stopping>>
    BY <1>2 DEF Callbacks, RunnerStart, OnRunnerDone, CancelSpawned, ReleaseCallback, lifeVars
  <2>3. PhaseFits'
    BY <1>0, <2>1, <2>2 DEF PhaseFits
  <2> QED
    BY <1>0, <2>1, <2>3, RecordsKept DEF JobTypes
<1>3. CASE StopBegins
  <2>1. Quietly
    BY <1>3, CallsSettle DEF StopBegins, Next
  <2>2. PhaseFits' /\ cancelRequested' = cancelRequested /\ phase' \in {"runners", "yield"}
    BY <1>0, <1>3 DEF StopBegins, StopBegin, StopNoRunners, PhaseFits
  <2> QED
    BY <1>0, <2>1, <2>2, RecordsKept DEF JobTypes, Phases
<1>4. CASE RunnersGone
  <2>1. Quietly
    BY <1>4, CallsSettle DEF RunnersGone, Next
  <2>2. PhaseFits' /\ cancelRequested' = cancelRequested /\ phase' = "yield"
    BY <1>0, <1>4 DEF RunnersGone, StopFlush, PhaseFits
  <2> QED
    BY <1>0, <2>1, <2>2, RecordsKept DEF JobTypes, Phases
<1>5. CASE CancelTasks \/ StopReturned
  <2>1. Quietly /\ cancelRequested' = cancelRequested
    BY <1>5, CallsSettle DEF CancelTasks, StopReturned
  <2>2. UNCHANGED <<started, stopping, task>>
    BY <1>5 DEF CancelTasks, StopReturned, vars, lifeVars
  <2>3. PhaseFits' /\ phase' \in Phases
    BY <1>0, <1>5, <2>2 DEF CancelTasks, StopReturned, PhaseFits, Phases
  <2> QED
    BY <1>0, <2>1, <2>3, RecordsKept DEF JobTypes
<1>6. ASSUME NEW j \in Jobs, Cancel(j)
      PROVE  [Next]_vars /\ JInv'
  <2>1. \/ UNCHANGED vars
        \/ \E i \in Items : CancelItem(i)
    BY <1>6, CurItemType DEF Cancel
  <2>2. Quietly
    BY <1>6, <2>1, CallsSettle DEF Cancel, Next
  <2>3. UNCHANGED <<started, stopping>>
    BY <2>1 DEF CancelItem, vars, lifeVars
  <2>4. cancelRequested' \subseteq Jobs /\ phase' = phase
    BY <1>0, <1>6 DEF Cancel, JobTypes
  <2>5. PhaseFits'
    BY <1>0, <2>2, <2>3, <2>4 DEF PhaseFits
  <2> QED
    BY <1>0, <2>2, <2>4, <2>5, RecordsKept DEF JobTypes
<1>7. ASSUME NEW j \in Jobs, task[j] = "gpu", TaskCancelled(j)
      PROVE  [Next]_vars /\ JInv'
  <2>1. /\ \E i \in Items : AbandonItem(i)
        /\ UNCHANGED <<request, byKey, state, steps, at, task, cancelRequested, phase>>
    BY <1>7, CurItemType DEF TaskCancelled
  <2>2. Quietly
    BY <2>1, CallsSettle DEF Next
  <2>3. UNCHANGED <<started, stopping>>
    BY <2>1 DEF AbandonItem, lifeVars
  <2>4. PhaseFits'
    BY <1>0, <2>1, <2>3 DEF PhaseFits
  <2> QED
    BY <1>0, <2>1, <2>2, <2>4, RecordsKept DEF JobTypes
<1> QED
  BY <1>1, <1>2, <1>3, <1>4, <1>5, <1>6, <1>7

\* A runner's step with its observer is a step of the scheduler.
LEMMA RunnerSteps ==
  ASSUME NEW w \in Workers, Runs(w)
  PROVE  Next
  BY DEF Runs, RunnerOn, Next

\* The invariant is inductive, and Next covers the scheduler's part of a step.
LEMMA ServiceKeeps ==
  ASSUME SInv, JInv, [ServiceNext]_svars
  PROVE  [Next]_vars /\ JInv'
<1>1. TypeOK /\ ItemInv /\ LedgerInv
  BY DEF SInv, IInv
<1>2. ASSUME NEW j \in Jobs, \E s, tk, a, r : JobGoesOn(j, s, tk, a, r)
      PROVE  [Next]_vars /\ JInv'
  BY <1>1, <1>2, GoesOnKeeps
<1>3. ASSUME NEW j \in Jobs, JobBegins(j) \/ CpuBackoffDone(j) \/ GpuItemEnds(j)
                             \/ \E o \in Outcomes : CpuAttemptEnds(j, o)
      PROVE  [Next]_vars /\ JInv'
  BY <1>1, <1>2, <1>3, JobBeginsGoesOn, CpuBackoffGoesOn, GpuItemGoesOn, CpuAttemptGoesOn
<1>4. ASSUME NEW j \in Jobs, TaskCancelled(j)
      PROVE  [Next]_vars /\ JInv'
  <2>1. CASE task[j] = "gpu"
    BY <1>1, <1>4, <2>1, OtherKeeps
  <2>2. CASE task[j] # "gpu"
    <3>1. /\ task[j] \in {"cpu", "cpuBackoff"} /\ FinishCancelled(j, at[j], steps[j])
          /\ UNCHANGED vars /\ UNCHANGED <<request, byKey, cancelRequested, phase>>
          /\ phase = "cancelJobs"
      BY <1>4, <2>2 DEF TaskCancelled
    <3> QED
      BY <1>2, <3>1, TaskCancelGoesOn
  <2> QED
    BY <2>1, <2>2
<1>5. ASSUME NEW j \in Jobs, OnDone(j) \/ Cancel(j) \/ \E r \in Requests : Submit(j, r)
      PROVE  [Next]_vars /\ JInv'
  BY <1>1, <1>5, OnDoneKeeps, OtherKeeps, SubmitKeeps
<1>6. ASSUME NEW w \in Workers, Runs(w)
      PROVE  [Next]_vars /\ JInv'
  BY <1>1, <1>6, RunnerSteps, RunsKeeps
<1>7. CASE ServiceStart \/ Callbacks \/ StopBegins \/ RunnersGone \/ CancelTasks \/ StopReturned
  BY <1>1, <1>7, OtherKeeps
<1>8. CASE UNCHANGED svars
  <2>1. UNCHANGED vars /\ UNCHANGED <<request, byKey, state, steps, at, task, cancelRequested, phase>>
    BY <1>8 DEF svars, jobVars
  <2>2. Settling /\ HoldersGoOn /\ UNCHANGED <<byJob, caller>> /\ UNCHANGED <<started, stopping>>
    BY <1>1, <2>1, CallsSettle DEF vars, lifeVars
  <2>3. JobTypes /\ PhaseFits'
    BY <2>1, <2>2 DEF JInv, PhaseFits
  <2> QED
    BY <2>1, <2>2, <2>3, RecordsKept DEF JobTypes
<1> QED
  BY <1>3, <1>4, <1>5, <1>6, <1>7, <1>8 DEF ServiceNext, ServiceRuns

\* It holds at the start.
LEMMA InitJInv == ServiceInit => Init /\ JInv
<1> SUFFICES ASSUME ServiceInit PROVE Init /\ JInv
  OBVIOUS
<1> USE DEF ServiceInit
<1>1. Init
  OBVIOUS
<1>2. JobTypes
  BY DEF JobTypes, JobStates, JobTasks, Phases
<1>3. \A j \in Jobs : /\ request[j] = NoRequest /\ state[j] = "none" /\ steps[j] = <<>>
                      /\ at[j] = 0 /\ task[j] = "none" /\ caller[j] = "new" /\ byJob[j] = 0
  BY DEF Init
<1>4. NewestOfKey
  BY <1>3 DEF NewestOfKey, Untouched
<1>5. JobRecords
  BY <1>3 DEF JobRecords, RecordsFit, AtStep
<1>6. CallersFit
  BY <1>3 DEF CallersFit, CallerFits
<1>7. ItemsFit
  <2>1. \A j \in Jobs : \A n \in 1 .. MaxSteps : future[<<j, n>>] = "none" /\ <<j, n>> \notin releasing
    BY JobItem DEF Init
  <2>2. \A j \in Jobs : MadeIn(future, j) = 0
    <3>1. \A j \in Jobs : {n \in 1 .. MaxSteps : future[<<j, n>>] # "none"} = {}
      BY <2>1
    <3> QED
      BY <3>1, FS_EmptySet DEF MadeIn
  <2> QED
    BY <1>3, <2>1, <2>2 DEF ItemsFit, JobItems, NothingDue
<1>8. ReservationLasts
  BY <1>3 DEF ReservationLasts
<1>9. SpansFit
  BY <1>3 DEF SpansFit, SpanFits
<1>10. PhaseFits
  BY <1>3 DEF PhaseFits, Init
<1> QED
  BY <1>1, <1>2, <1>4, <1>5, <1>6, <1>7, <1>8, <1>9, <1>10 DEF JInv

\* It holds always.
LEMMA ServiceInvariance == ServiceSpec => []SInv /\ []JInv
<1>1. ServiceInit => SInv /\ JInv
  BY InitJInv, InitSInv
<1>2. SInv /\ JInv /\ [ServiceNext]_svars => SInv' /\ JInv'
  BY ServiceKeeps, NextSInv
<1> QED
  BY <1>1, <1>2, PTL DEF ServiceSpec

(* The service runs the scheduler as GpuScheduler says: whatever its jobs,    *)
(* callbacks and stop() do is a step of the scheduler or leaves it alone, so  *)
(* every theorem about the scheduler holds under the service.                 *)
THEOREM ServiceRunsScheduler == ServiceSpec => Spec
<1>1. ServiceInit => Init
  BY InitJInv
<1>2. SInv /\ JInv /\ [ServiceNext]_svars => [Next]_vars
  BY ServiceKeeps
<1> QED
  BY <1>1, <1>2, ServiceInvariance, PTL DEF ServiceSpec, Spec

-----------------------------------------------------------------------------
(* What the invariant says                                                    *)

(* Submit, cancel and resubmit in any order: at most one job of a key is live *)
(* or has succeeded, because each such job is the newest of its key.          *)
THEOREM AlwaysOneLiveJob == ServiceSpec => []OneLiveJobPerKey
<1>1. JInv => OneLiveJobPerKey
  BY DEF JInv, NewestOfKey, OneLiveJobPerKey
<1> QED
  BY <1>1, ServiceInvariance, PTL

(* A job is terminal exactly when its task has ended.                         *)
THEOREM TasksAlwaysEndTerminal == ServiceSpec => []TaskEndsTerminal
<1>1. JInv => TaskEndsTerminal
  <2> SUFFICES ASSUME JInv, NEW j \in Jobs, ~Untouched(j)
               PROVE  task[j] \in {"done", "gone"} <=> state[j] \in Terminal
    BY DEF TaskEndsTerminal
  <2>1. RecordsFit(request[j], state[j], task[j], at[j], steps[j]) /\ task[j] \in JobTasks
    BY JobFacts
  <2> QED
    BY <2>1 DEF RecordsFit, JobTasks, AtStep, Terminal, Untouched
<1> QED
  BY <1>1, ServiceInvariance, PTL

(* The records of a terminal job are closed and tell how it ended, whoever    *)
(* ended it: its task, a cancel under an attempt, or stop().                  *)
THEOREM TerminalJobsAlwaysClosed == ServiceSpec => []TerminalJobClosed
<1>1. JInv => TerminalJobClosed
  <2> SUFFICES ASSUME JInv, NEW j \in Jobs, state[j] \in Terminal
               PROVE  ClosedAs(steps[j], state[j])
    BY DEF TerminalJobClosed, ClosedAs
  <2>1. RecordsFit(request[j], state[j], task[j], at[j], steps[j]) /\ task[j] \in JobTasks
    BY JobFacts
  <2> QED
    BY <2>1 DEF RecordsFit, JobTasks, AtStep, Terminal
<1> QED
  BY <1>1, ServiceInvariance, PTL

(* A terminal job has left nothing in the scheduler: no item, no runner and,  *)
(* when its done-callback has run, no reservation.                            *)
THEOREM NeverOrphanItems == ServiceSpec => []NoOrphanItems
<1>1. SInv /\ JInv => NoOrphanItems
  <2> SUFFICES ASSUME SInv, JInv, NEW j \in Jobs, state[j] \in Terminal
               PROVE  /\ NothingDue(future, releasing, j)
                      /\ \A w \in Workers : holding[w] = NoItem \/ JobOf(holding[w]) # j
                      /\ task[j] = "gone" => byJob[j] = 0
    BY DEF NoOrphanItems, NothingDue
  <2>1. /\ RecordsFit(request[j], state[j], task[j], at[j], steps[j])
        /\ CallerFits(caller[j], byJob[j], task[j])
        /\ JobItems(future, releasing, j, task[j], ChainOf(j), at[j])
    BY JobFacts
  <2>2. NothingDue(future, releasing, j)
    BY <2>1 DEF RecordsFit, JobItems, AtStep, Terminal
  <2>3. ASSUME NEW w \in Workers, holding[w] # NoItem
        PROVE  JobOf(holding[w]) # j
    <3>1. holding[w] \in Items /\ future[holding[w]] = "pending"
      BY <2>3, ItemTypes DEF SInv, IInv, ItemInv, HoldersExecute
    <3>2. \A i \in Items : JobOf(i) = j => \E n \in 1 .. MaxSteps : i = <<j, n>>
      BY DEF Items, JobOf
    <3> QED
      BY <2>2, <3>1, <3>2 DEF NothingDue
  <2> QED
    BY <2>1, <2>2, <2>3 DEF CallerFits
<1> QED
  BY <1>1, ServiceInvariance, PTL

(* A live job has a unit for every GPU step it has not come to, so a chain    *)
(* that was admitted never finds the backlog taken by others.                 *)
THEOREM ReservationAlwaysLasts == ServiceSpec => []ReservationLasts
<1>1. JInv => ReservationLasts
  BY DEF JInv
<1> QED
  BY <1>1, ServiceInvariance, PTL

(* A step is attempted or enqueued only when the steps before it succeeded,   *)
(* which for a valid chain is all it needs.                                   *)
THEOREM InputsAlwaysReady == ServiceSpec => []InputsReady
<1>1. JInv => InputsReady
  <2> SUFFICES ASSUME JInv, NEW j \in Jobs, task[j] \in AtStep
               PROVE  InputModels[ChainOf(j)[at[j]]] \subseteq
                        Available(ChainOf(j), {n \in 1 .. Len(steps[j]) :
                                                 steps[j][n].state = "succeeded"})
    BY DEF InputsReady, AtStep
  <2> DEFINE done == {n \in 1 .. Len(steps[j]) : steps[j][n].state = "succeeded"}
  <2>1. /\ RecordsFit(request[j], state[j], task[j], at[j], steps[j])
        /\ request[j] \in JobRequests /\ Len(steps[j]) = Len(ChainOf(j)) /\ Len(steps[j]) \in Nat
    BY JobFacts DEF AtStep
  <2>2. at[j] \in 1 .. Len(steps[j]) /\ UnderWayAt(steps[j], at[j])
    BY <2>1 DEF RecordsFit
  <2>3. done = 1 .. (at[j] - 1)
    BY <2>1, <2>2 DEF UnderWayAt
  <2>4. InputsSatisfied(ChainOf(j), at[j])
    BY <2>1, <2>2, ChainTypes DEF ChainOf
  <2> QED
    BY <2>3, <2>4 DEF InputsSatisfied
<1> QED
  BY <1>1, ServiceInvariance, PTL

(* When stop() has returned nothing is left: every job is terminal, the       *)
(* backlog is empty and no runner has a worker.                               *)
THEOREM StopAlwaysLeavesNothing == ServiceSpec => []StopLeavesNothing
<1>1. SInv /\ JInv => StopLeavesNothing
  <2> SUFFICES ASSUME SInv, JInv, phase = "down"
               PROVE  /\ \A j \in Jobs : ~Untouched(j) => state[j] \in Terminal
                      /\ admitted = 0
                      /\ Active = {}
    BY DEF StopLeavesNothing
  <2>1. ~started /\ ~stopping /\ \A j \in Jobs : task[j] \in {"none", "gone"}
    BY DEF JInv, PhaseFits
  <2>2. \A j \in Jobs : ~Untouched(j) => state[j] \in Terminal
    BY <2>1, JobFacts DEF RecordsFit, Untouched
  <2>3. Active = {}
    BY <2>1 DEF SInv, Quiet, NoRunners
  <2>4. \A j \in Jobs : byJob[j] = 0 /\ NothingDue(future, releasing, j)
    <3>1. ASSUME NEW j \in Jobs
          PROVE  byJob[j] = 0 /\ NothingDue(future, releasing, j)
      <4>1. /\ CallerFits(caller[j], byJob[j], task[j])
            /\ JobItems(future, releasing, j, task[j], ChainOf(j), at[j])
        BY JobFacts
      <4>2. NothingDue(future, releasing, j)
        BY <2>1, <4>1 DEF JobItems
      <4> QED
        BY <2>1, <4>1, <4>2 DEF CallerFits, SInv, LedgerInv
    <3> QED
      BY <3>1
  <2>5. ReservedUnits = {}
    <3>1. MaxBacklog \in Nat
      BY SchedulerAssumption
    <3> QED
      BY <2>4, <3>1 DEF ReservedUnits
  <2>6. HoldingUnits = {}
    <3>1. \A i \in Items : \E j \in Jobs : \E n \in 1 .. MaxSteps : i = <<j, n>>
      BY DEF Items
    <3> QED
      BY <2>4, <3>1 DEF HoldingUnits, NothingDue
  <2>7. admitted = 0
    BY <2>5, <2>6, FS_EmptySet DEF SInv, LedgerInv, AdmissionBalanced
  <2> QED
    BY <2>2, <2>3, <2>7
<1> QED
  BY <1>1, ServiceInvariance, PTL

-----------------------------------------------------------------------------
(* The memo                                                                   *)

\* Keys of outputs: a step, and the image it comes from
MemoKeys == {<<s, r.image>> : s \in Steps, r \in JobRequests}

\* A key that is in the memo and is moved to its end leaves the same keys, as many.
LEMMA TouchOK ==
  ASSUME NEW S, NEW s \in Seq(S), NEW e, Contains(s, e)
  PROVE  LET q == Touch(s, e)
         IN  q \in Seq(S) /\ Len(q) = Len(s) /\ \A x : Contains(s, x) => Contains(q, x)
<1> DEFINE I == {i \in 1 .. Len(s) : s[i] = e}
           k == CHOOSE i \in I : \A j \in I : i <= j
           q == Touch(s, e)
<1>1. I # {} /\ I \in SUBSET Nat
  BY DEF Contains
<1>2. RemoveFirst(s, e) = RemoveAt(s, k)
  BY <1>1 DEF RemoveFirst, SelectInSeq, Min
<1>3. k \in 1 .. Len(s) /\ s[k] = e /\ Len(s) \in Nat
  <2> HIDE DEF I
  <2>1. \E x \in I : \A y \in I : x <= y
    BY <1>1, LeastExists
  <2>2. k \in I
    BY <2>1
  <2> QED
    BY <2>2 DEF I
<1> HIDE DEF k
<1> DEFINE a == SubSeq(s, 1, k - 1)
           b == SubSeq(s, k + 1, Len(s))
<1>4. /\ a \in Seq(S) /\ Len(a) = k - 1 /\ b \in Seq(S) /\ Len(b) = Len(s) - k
      /\ \A n \in 1 .. k - 1 : a[n] = s[n]
      /\ \A n \in 1 .. Len(s) - k : b[n] = s[n + k]
  BY <1>3
<1>5. q = Append(a \o b, e)
  BY <1>2 DEF Touch, RemoveAt
<1> HIDE DEF a, b, q
<1>6. PICK ab : ab = a \o b
  OBVIOUS
<1>7. ab \in Seq(S) /\ Len(ab) = Len(s) - 1
  BY <1>3, <1>4, <1>6
<1>8. ASSUME NEW n \in 1 .. Len(s), n # k PROVE \E i \in 1 .. Len(ab) : ab[i] = s[n]
  <2>1. CASE n < k
    <3>1. n \in 1 .. k - 1 /\ n \in 1 .. Len(ab)
      BY <1>3, <1>7, <2>1
    <3>2. ab[n] = a[n]
      BY <1>4, <1>6, <3>1
    <3> QED
      BY <1>4, <3>1, <3>2
  <2>2. CASE ~(n < k)
    <3>1. n - k \in 1 .. Len(s) - k /\ n - 1 \in 1 .. Len(ab) /\ n - 1 - (k - 1) = n - k
          /\ n - k + k = n
      BY <1>3, <1>7, <1>8, <2>2
    <3>2. ab[n - 1] = b[n - 1 - (k - 1)]
      BY <1>3, <1>4, <1>6, <1>7, <3>1
    <3>3. b[n - k] = s[n - k + k]
      BY <1>4, <3>1
    <3> QED
      BY <3>1, <3>2, <3>3
  <2> QED
    BY <2>1, <2>2
<1>9. e \in S
  BY <1>3
<1>10. /\ q \in Seq(S) /\ Len(q) = Len(s) /\ q[Len(s)] = e
       /\ \A i \in 1 .. Len(ab) : q[i] = ab[i]
  BY <1>3, <1>5, <1>6, <1>7, <1>9
<1>11. ASSUME NEW x, Contains(s, x) PROVE Contains(q, x)
  <2>1. PICK n \in 1 .. Len(s) : s[n] = x
    BY <1>11 DEF Contains
  <2>2. CASE n = k
    BY <1>3, <1>10, <2>1, <2>2 DEF Contains
  <2>3. CASE n # k
    <3>1. PICK i \in 1 .. Len(ab) : ab[i] = s[n]
      BY <1>8, <2>3
    <3>2. i \in 1 .. Len(q)
      BY <1>3, <1>7, <1>10
    <3> QED
      BY <1>10, <2>1, <3>1, <3>2 DEF Contains
  <2> QED
    BY <2>2, <2>3
<1> QED
  BY <1>10, <1>11 DEF q

\* The hits of a job only reorder the memo.
LEMMA HitsOK ==
  ASSUME NEW S, NEW m \in Seq(S), NEW j, NEW n \in Nat, NEW stop \in Nat, n <= stop,
         \A k \in n .. (stop - 1) : Contains(m, MemoKey(j, k))
  PROVE  LET q == Hits(j, n, stop, m) IN q \in Seq(S) /\ Len(q) = Len(m)
<1> DEFINE IsFor(g, p) ==
             g = [k \in n .. p |-> IF k = n THEN m ELSE Touch(g[k - 1], MemoKey(j, k - 1))]
           Bad == {p \in n .. stop : ~ \E g : IsFor(g, p)}
<1>1. Bad = {}
  <2> SUFFICES ASSUME Bad # {} PROVE FALSE
    OBVIOUS
  <2>1. Bad \in SUBSET Nat
    OBVIOUS
  <2> HIDE DEF Bad
  <2>2. PICK p \in Bad : \A y \in Bad : p <= y
    BY <2>1, LeastExists
  <2>3. p \in n .. stop /\ ~ \E g : IsFor(g, p)
    BY DEF Bad
  <2>4. CASE p = n
    <3>1. IsFor([k \in n .. n |-> m], n)
      OBVIOUS
    <3> QED
      BY <2>3, <2>4, <3>1
  <2>5. CASE p # n
    <3>1. p - 1 \in n .. stop /\ ~(p <= p - 1)
      BY <2>3, <2>5
    <3>2. PICK g : IsFor(g, p - 1)
      BY <2>2, <3>1 DEF Bad
    <3> DEFINE h == [k \in n .. p |-> IF k = p THEN Touch(g[p - 1], MemoKey(j, p - 1)) ELSE g[k]]
    <3>3. IsFor(h, p)
      <4>1. ASSUME NEW k \in n .. p
            PROVE  h[k] = IF k = n THEN m ELSE Touch(h[k - 1], MemoKey(j, k - 1))
        <5>1. CASE k = p
          <6>1. h[k - 1] = g[p - 1]
            BY <3>1, <5>1
          <6> QED
            BY <2>5, <5>1, <6>1
        <5>2. CASE k # p
          <6>1. k \in n .. (p - 1) /\ (k # n => k - 1 \in n .. (p - 1) /\ k - 1 # p)
            BY <2>3, <5>2
          <6>2. g[k] = IF k = n THEN m ELSE Touch(g[k - 1], MemoKey(j, k - 1))
            BY <3>2, <6>1
          <6>3. h[k] = g[k]
            BY <5>2
          <6>4. ASSUME k # n PROVE h[k - 1] = g[k - 1]
            <7>1. k - 1 \in n .. p /\ k - 1 # p
              BY <2>3, <6>1, <6>4
            <7> QED
              BY <7>1
          <6> QED
            BY <6>2, <6>3, <6>4
        <5> QED
          BY <5>1, <5>2
      <4> QED
        BY <4>1
    <3> QED
      BY <2>3, <3>3
  <2> QED
    BY <2>4, <2>5
<1>2. \E g : IsFor(g, stop)
  <2>1. stop \in n .. stop
    OBVIOUS
  <2> QED
    BY <1>1, <2>1
<1> DEFINE f == CHOOSE g : IsFor(g, stop)
<1>3. IsFor(f, stop) /\ Hits(j, n, stop, m) = f[stop]
  BY <1>2 DEF Hits
<1> HIDE DEF f, Bad
<1>4. \A k \in n .. stop : f[k] = IF k = n THEN m ELSE Touch(f[k - 1], MemoKey(j, k - 1))
  BY <1>3
<1> DEFINE Good(k) == /\ f[k] \in Seq(S) /\ Len(f[k]) = Len(m)
                      /\ \A x : Contains(m, x) => Contains(f[k], x)
           Worse == {k \in n .. stop : ~Good(k)}
<1>5. Worse = {}
  <2> SUFFICES ASSUME Worse # {} PROVE FALSE
    OBVIOUS
  <2>1. Worse \in SUBSET Nat
    OBVIOUS
  <2> HIDE DEF Worse
  <2>2. PICK p \in Worse : \A y \in Worse : p <= y
    BY <2>1, LeastExists
  <2>3. p \in n .. stop /\ ~Good(p)
    BY DEF Worse
  <2>4. CASE p = n
    BY <1>4, <2>3, <2>4
  <2>5. CASE p # n
    <3>1. p - 1 \in n .. stop /\ p - 1 \in n .. (stop - 1) /\ ~(p <= p - 1)
      BY <2>3, <2>5
    <3>2. Good(p - 1)
      BY <2>2, <3>1 DEF Worse
    <3>3. f[p] = Touch(f[p - 1], MemoKey(j, p - 1))
      BY <1>4, <2>3, <2>5
    <3>4. Contains(f[p - 1], MemoKey(j, p - 1))
      BY <3>1, <3>2
    <3>5. Good(p)
      BY <3>2, <3>3, <3>4, TouchOK
    <3> QED
      BY <2>3, <3>5
  <2> QED
    BY <2>4, <2>5
<1>6. Good(stop)
  BY <1>5
<1> QED
  BY <1>3, <1>6

\* An output that is memoized evicts the least recently used one when there is
\* no room.
LEMMA RememberOK ==
  ASSUME NEW S, NEW m \in Seq(S), Len(m) <= MemoCap, NEW k \in S
  PROVE  Remember(m, k) \in Seq(S) /\ Len(Remember(m, k)) <= MemoCap
<1> DEFINE g == IF Contains(m, k) THEN m ELSE Append(m, k)
<1>1. MemoCap \in Nat /\ MemoCap >= 1
  BY ServiceAssumption
<1>2. g \in Seq(S) /\ Len(g) <= MemoCap + 1
  BY <1>1
<1> HIDE DEF g
<1>3. Len(g) > MemoCap => Tail(g) \in Seq(S) /\ Len(Tail(g)) <= MemoCap
  BY <1>1, <1>2
<1> QED
  BY <1>1, <1>2, <1>3 DEF Remember, g

\* The memo has keys of outputs, and no more than there is room for.
MemoFit == memo \in Seq(MemoKeys) /\ Len(memo) <= MemoCap

\* The loop of ChainRunner.run keeps the size of memo m.
LEMMA ProceedMemo ==
  ASSUME NEW j \in Jobs, request[j] \in JobRequests,
         NEW n \in Nat, n <= Len(ChainOf(j)) + 1, NEW sr,
         NEW m \in Seq(MemoKeys), Len(m) <= MemoCap, Proceed(j, n, sr, m)
  PROVE  MemoFit'
<1> DEFINE c    == ChainOf(j)
           miss == {k \in n .. Len(c) : ~Contains(m, MemoKey(j, k))}
           stop == IF miss = {} THEN Len(c) + 1
                   ELSE CHOOSE k \in miss : \A l \in miss : k <= l
<1>1. Len(c) \in Nat
  BY ChainTypes DEF ChainOf
<1>2. memo' = m \/ memo' = Hits(j, n, stop, m)
  BY DEF Proceed
<1>3. stop \in Nat /\ n <= stop /\ \A k \in n .. (stop - 1) : Contains(m, MemoKey(j, k))
  <2>1. CASE miss = {}
    BY <1>1, <2>1
  <2>2. CASE miss # {}
    <3>1. miss \in SUBSET Nat
      BY <1>1
    <3>2. stop = CHOOSE k \in miss : \A l \in miss : k <= l
      BY <2>2
    <3> HIDE DEF miss, stop
    <3>3. \E x \in miss : \A y \in miss : x <= y
      BY <2>2, <3>1, LeastExists
    <3>4. stop \in miss /\ \A l \in miss : stop <= l
      BY <3>2, <3>3
    <3>5. stop \in n .. Len(c)
      BY <3>4 DEF miss
    <3>6. ASSUME NEW k \in n .. (stop - 1) PROVE k \in n .. Len(c) /\ k \notin miss
      BY <1>1, <3>1, <3>4, <3>5
    <3> QED
      BY <1>1, <3>5, <3>6 DEF miss
  <2> QED
    BY <2>1, <2>2
<1> HIDE DEF stop
<1>4. Hits(j, n, stop, m) \in Seq(MemoKeys) /\ Len(Hits(j, n, stop, m)) = Len(m)
  BY <1>3, HitsOK
<1> QED
  BY <1>2, <1>4 DEF MemoFit

\* So does a step that succeeds, whose output is memoized first.
LEMMA SuccessMemo ==
  ASSUME JInv, MemoFit, NEW j \in Jobs, task[j] \in AtStep, NEW sr, StepSucceeds(j, sr)
  PROVE  MemoFit'
<1>1. /\ request[j] \in JobRequests /\ ChainOf(j) \in Seq(Steps) /\ Len(ChainOf(j)) \in Nat
      /\ at[j] \in 1 .. Len(ChainOf(j))
  BY JobFacts DEF AtStep, RecordsFit
<1>2. MemoKey(j, at[j]) \in MemoKeys
  BY <1>1 DEF MemoKey, MemoKeys
<1>3. PICK m : m = Remember(memo, MemoKey(j, at[j]))
  OBVIOUS
<1>4. m \in Seq(MemoKeys) /\ Len(m) <= MemoCap
  BY <1>2, <1>3, RememberOK DEF MemoFit
<1>5. \E r : Proceed(j, at[j] + 1, r, m)
  BY <1>3 DEF StepSucceeds
<1> QED
  BY <1>1, <1>4, <1>5, ProceedMemo

\* Every step of the service keeps the memo in its bound.
LEMMA MemoKept ==
  ASSUME JInv, MemoFit, [ServiceNext]_svars
  PROVE  MemoFit'
<1>1. ASSUME NEW j \in Jobs, JobBegins(j) PROVE MemoFit'
  <2>1. task[j] = "created" /\ Proceed(j, 1, steps[j], memo)
    BY <1>1 DEF JobBegins
  <2>2. request[j] \in JobRequests /\ Len(ChainOf(j)) \in Nat
    BY <2>1, JobFacts
  <2>3. 1 <= Len(ChainOf(j)) + 1
    BY <2>2
  <2> QED
    BY <2>1, <2>2, <2>3, ProceedMemo DEF MemoFit
<1>2. ASSUME NEW j \in Jobs, NEW o \in Outcomes, CpuAttemptEnds(j, o) PROVE MemoFit'
  <2>1. /\ task[j] \in AtStep
        /\ memo' = memo \/ \E sr : StepSucceeds(j, sr)
    BY <1>2 DEF CpuAttemptEnds, AtStep
  <2> QED
    BY <2>1, SuccessMemo DEF MemoFit
<1>3. ASSUME NEW j \in Jobs, GpuItemEnds(j) PROVE MemoFit'
  <2>1. /\ task[j] \in AtStep
        /\ memo' = memo \/ \E sr : StepSucceeds(j, sr)
    BY <1>3 DEF GpuItemEnds, Delivered, AtStep
  <2> QED
    BY <2>1, SuccessMemo DEF MemoFit
<1>4. ASSUME memo' = memo PROVE MemoFit'
  BY <1>4 DEF MemoFit
<1>5. ASSUME NEW j \in Jobs,
             \/ CpuBackoffDone(j) \/ OnDone(j) \/ TaskCancelled(j) \/ Cancel(j)
             \/ \E r \in Requests : Submit(j, r)
      PROVE  MemoFit'
  BY <1>4, <1>5 DEF CpuBackoffDone, OnDone, TaskCancelled, Cancel, Submit
<1>6. ASSUME NEW w \in Workers, Runs(w) PROVE MemoFit'
  BY <1>4, <1>6 DEF Runs
<1>7. CASE ServiceStart \/ Callbacks \/ StopBegins \/ RunnersGone \/ CancelTasks \/ StopReturned
  BY <1>4, <1>7 DEF ServiceStart, Callbacks, StopBegins, RunnersGone, CancelTasks, StopReturned,
     jobVars
<1>8. CASE UNCHANGED svars
  BY <1>4, <1>8 DEF svars, jobVars
<1> QED
  BY <1>1, <1>2, <1>3, <1>5, <1>6, <1>7, <1>8 DEF ServiceNext, ServiceRuns

\* No step is memoized at first.
LEMMA InitMemo == ServiceInit => MemoFit
  BY ServiceAssumption DEF ServiceInit, MemoFit

\* It stays in its bound always.
LEMMA MemoAlwaysFits == ServiceSpec => []MemoFit
<1>1. JInv /\ MemoFit /\ [ServiceNext]_svars => MemoFit'
  BY MemoKept
<1> QED
  BY <1>1, InitMemo, ServiceInvariance, PTL DEF ServiceSpec

===============================================================================
