------------------------ MODULE GpuSchedulerItemProofs ------------------------
(* Proofs about the items of GpuScheduler: where an item is from make_item to *)
(* the resolution of its future, who executes it, and that a job sees of it   *)
(* what WorkQueue promises.                                                   *)
EXTENDS GpuSchedulerProofs, GpuSchedulerRefinement

Executes == {"running", "backoff"}

-----------------------------------------------------------------------------
(* The inductive invariant                                                    *)

\* The queue holds an item once, and only items that were made and not begun.
QueueFresh ==
  /\ \A k, m \in 1 .. Len(queue) : queue[k] = queue[m] => k = m
  /\ \A k \in 1 .. Len(queue) : future[queue[k]] # "none" /\ attempts[queue[k]] = 0
  /\ \A i \in Items : future[i] = "none" => attempts[i] = 0

\* A runner holds an item exactly while it executes it: pending, begun, its own.
HoldersExecute ==
  \A w \in Workers :
    /\ holding[w] # NoItem <=> worker[w] \in Executes
    /\ holding[w] # NoItem =>
         /\ future[holding[w]] = "pending" /\ attempts[holding[w]] > 0
         /\ \A v \in Workers : holding[v] = holding[w] => v = w

\* An unresolved item is in the queue or held.
PendingPlaced ==
  \A i \in Items : future[i] = "pending" =>
    (\E k \in 1 .. Len(queue) : queue[k] = i) \/ (\E w \in Workers : holding[w] = i)

\* A scheduler that is neither started nor stopping has no runner task.
Quiet == ~started /\ ~stopping => NoRunners

(* QueueFresh is what makes a popped item nobody else's: an item with an      *)
(* attempt is out of the queue for good.  Quiet is needed for abandoned and   *)
(* flushed items, which no runner may hold.                                   *)
ItemInv == QueueFresh /\ HoldersExecute /\ PendingPlaced

-----------------------------------------------------------------------------
(* What the helpers do to an item                                             *)

LEMMA SettleValue ==
  ASSUME NEW f, NEW S, NEW o, NEW x \in Items
  PROVE  Settle(f, S, o)[x] = IF x \in S /\ f[x] = "pending" THEN o ELSE f[x]
  BY DEF Settle

\* The types the proofs about items use
LEMMA ItemTypes ==
  ASSUME TypeOK
  PROVE  /\ queue \in Seq(Items) /\ Len(queue) \in Nat
         /\ \A k \in 1 .. Len(queue) : queue[k] \in Items
         /\ future \in [Items -> FutureStates]
         /\ attempts \in [Items -> Nat]
         /\ holding \in [Workers -> Items \cup {NoItem}]
         /\ worker \in [Workers -> WorkerStates]
         /\ NoItem \notin Items
  BY SchedulerAssumption DEF TypeOK, Items, FutureStates, WorkerStates

\* Nothing of an item changes, and no runner begins or ends executing.
LEMMA ItemsUntouched ==
  ASSUME ItemInv, UNCHANGED <<queue, future, attempts, holding>>,
         \A w \in Workers : worker'[w] \in Executes <=> worker[w] \in Executes
  PROVE  ItemInv'
  BY DEF ItemInv, QueueFresh, HoldersExecute, PendingPlaced

-----------------------------------------------------------------------------
(* Each action preserves the invariant                                        *)

\* Actions that leave the items alone
LEMMA OtherItemStep ==
  ASSUME TypeOK, ItemInv,
         \/ UNCHANGED vars
         \/ Start \/ RunnerStart \/ RunnerExhausted \/ OnRunnerDone \/ StopBegin
         \/ CancelSpawned \/ LeaseOutside \/ ReleaseOutside
         \/ \E j \in Jobs : (\E n \in 0 .. MaxSteps : Admit(j, n)) \/ FinalizeJob(j)
         \/ \E i \in Items : ReleaseCallback(i)
         \/ \E w \in Workers : ExpireTTL(w) \/ AttemptFails(w)
  PROVE  ItemInv'
<1>1. UNCHANGED <<queue, future, attempts, holding>>
  BY DEF vars, Start, RunnerStart, RunnerExhausted, OnRunnerDone, StopBegin, CancelSpawned,
         LeaseOutside, ReleaseOutside, Admit, FinalizeJob, ReleaseCallback, ExpireTTL,
         AttemptFails, itemVars, runnerVars
<1>2. \/ UNCHANGED worker
      \/ \E w \in Workers, s \in WorkerStates :
           /\ worker' = [worker EXCEPT ![w] = s]
           /\ worker[w] \in Executes <=> s \in Executes
  <2>1. CASE RunnerStart \/ LeaseOutside \/ ReleaseOutside
    BY <2>1 DEF RunnerStart, LeaseOutside, ReleaseOutside, FreeWorkers, WorkerStates, Executes
  <2>2. CASE \E w \in Workers : AttemptFails(w)
    BY <2>2 DEF AttemptFails, WorkerStates, Executes
  <2>3. CASE \/ UNCHANGED vars
             \/ Start \/ RunnerExhausted \/ OnRunnerDone \/ StopBegin \/ CancelSpawned
             \/ \E j \in Jobs : (\E n \in 0 .. MaxSteps : Admit(j, n)) \/ FinalizeJob(j)
             \/ \E i \in Items : ReleaseCallback(i)
             \/ \E w \in Workers : ExpireTTL(w)
    BY <2>3 DEF vars, Start, RunnerExhausted, OnRunnerDone, StopBegin, CancelSpawned, Admit,
                FinalizeJob, ReleaseCallback, ExpireTTL, runnerVars
  <2> QED  BY <2>1, <2>2, <2>3
<1>3. \A w \in Workers : worker'[w] \in Executes <=> worker[w] \in Executes
  BY <1>2, ItemTypes
<1> QED
  BY <1>1, <1>3, ItemsUntouched

\* A new item goes to the end of the queue.
LEMMA MakeItemPlaces ==
  ASSUME TypeOK, ItemInv, NEW i \in Items, MakeItem(i)
  PROVE  ItemInv'
<1> USE ItemTypes
<1>1. /\ future[i] = "none" /\ future' = [future EXCEPT ![i] = "pending"]
      /\ queue' = Append(queue, i)
      /\ UNCHANGED <<attempts, worker, holding>>
  BY DEF MakeItem, ReachesStep
<1>2. /\ Len(queue') = Len(queue) + 1 /\ queue'[Len(queue) + 1] = i
      /\ \A k \in 1 .. Len(queue) : queue'[k] = queue[k] /\ queue[k] # i
  BY <1>1, AppendProperties DEF ItemInv, QueueFresh
<1>3. \A k \in 1 .. Len(queue') : k \in 1 .. Len(queue) \/ k = Len(queue) + 1
  BY <1>2
<1>4. /\ attempts[i] = 0 /\ \A x \in Items : future'[x] = IF x = i THEN "pending" ELSE future[x]
      /\ \A w \in Workers : holding[w] # i
  BY <1>1 DEF ItemInv, QueueFresh, HoldersExecute
<1>5. QueueFresh'
  BY <1>1, <1>2, <1>3, <1>4 DEF ItemInv, QueueFresh
<1>6. HoldersExecute'
  BY <1>1, <1>4 DEF ItemInv, HoldersExecute
<1>7. PendingPlaced'
  <2> SUFFICES ASSUME NEW x \in Items, future'[x] = "pending",
                      ~ \E w \in Workers : holding[w] = x
               PROVE  \E k \in 1 .. Len(queue') : queue'[k] = x
    BY <1>1 DEF PendingPlaced
  <2>1. CASE x = i
    BY <1>2, <2>1
  <2>2. CASE x # i
    <3>1. PICK k \in 1 .. Len(queue) : queue[k] = x
      BY <1>4, <2>2 DEF ItemInv, PendingPlaced
    <3> QED  BY <1>2, <3>1
  <2> QED  BY <2>1, <2>2
<1> QED
  BY <1>5, <1>6, <1>7 DEF ItemInv

\* Items nobody executes may be resolved where they are.
LEMMA ResolvedInPlace ==
  ASSUME TypeOK, ItemInv, NEW S, NEW o \in FutureStates \ {"none", "pending"},
         future' = Settle(future, S, o), UNCHANGED <<queue, attempts, holding, worker>>,
         \A w \in Workers : holding[w] \notin S
  PROVE  ItemInv'
<1> USE ItemTypes
<1>1. \A x \in Items : future'[x] = IF x \in S /\ future[x] = "pending" THEN o ELSE future[x]
  BY SettleValue
<1>2. QueueFresh'
  BY <1>1 DEF ItemInv, QueueFresh
<1>3. HoldersExecute'
  BY <1>1 DEF ItemInv, HoldersExecute
<1>4. PendingPlaced'
  BY <1>1 DEF ItemInv, PendingPlaced
<1> QED
  BY <1>2, <1>3, <1>4 DEF ItemInv

LEMMA CancelItemStep ==
  ASSUME TypeOK, ItemInv, Quiet, NEW i \in Items, CancelItem(i) \/ AbandonItem(i)
  PROVE  ItemInv'
<1>1. UNCHANGED <<queue, attempts, holding, worker>>
  BY DEF CancelItem, AbandonItem, runnerVars
<1>2. CASE CancelItem(i) /\ attempts[i] # 0
  <2>1. UNCHANGED future
    BY <1>2 DEF CancelItem
  <2> QED  BY <1>1, <2>1, ItemsUntouched
<1>3. CASE CancelItem(i) /\ attempts[i] = 0
  <2>1. future' = Settle(future, {i}, "cancelled")
    BY <1>3 DEF CancelItem, SetFutures
  <2>2. \A w \in Workers : holding[w] \notin {i}
    BY <1>3, ItemTypes DEF ItemInv, HoldersExecute
  <2> QED  BY <1>1, <2>1, <2>2, ResolvedInPlace DEF FutureStates
<1>4. CASE AbandonItem(i)
  <2>1. future' = Settle(future, {i}, "cancelled") /\ Active = {}
    BY <1>4 DEF AbandonItem, SetFutures, Quiet, NoRunners
  <2>2. \A w \in Workers : holding[w] \notin {i}
    BY <2>1, ItemTypes DEF Active, ItemInv, HoldersExecute, Executes
  <2> QED  BY <1>1, <2>1, <2>2, ResolvedInPlace DEF FutureStates
<1> QED
  BY <1>2, <1>3, <1>4

-----------------------------------------------------------------------------
(* Taking an item                                                             *)

(* f are the futures the runner starts from: those before the step, but for   *)
(* the item it has just settled.                                              *)
LetsGo(w, f) ==
  /\ f \in [Items -> FutureStates]
  /\ \A x \in Items : \/ f[x] = future[x] /\ x # holding[w]
                      \/ f[x] \notin {"none", "pending"} /\ x = holding[w]

\* What the futures are when the first n positions have been dropped or popped
LEMMA DeadValue ==
  ASSUME TypeOK, NEW f \in [Items -> FutureStates], NEW n,
         SetFutures(Settle(f, DeadItems(f, queue, n), "cancelled"))
  PROVE  \A x \in Items :
           future'[x] = IF x \in DeadItems(f, queue, n) /\ f[x] = "pending"
                        THEN "cancelled" ELSE f[x]
  BY SettleValue DEF SetFutures

\* An item another runner executes is neither queued nor settled.
LEMMA OtherHolders ==
  ASSUME TypeOK, ItemInv, NEW w \in Workers, NEW f, LetsGo(w, f),
         NEW v \in Workers, v # w, holding[v] # NoItem
  PROVE  /\ holding[v] \in Items /\ holding[v] # holding[w]
         /\ f[holding[v]] = "pending"
         /\ \A k \in 1 .. Len(queue) : queue[k] # holding[v]
<1>1. holding[v] \in Items /\ holding[v] # holding[w]
  BY ItemTypes DEF ItemInv, HoldersExecute
<1>2. f[holding[v]] = "pending"
  BY <1>1 DEF LetsGo, ItemInv, HoldersExecute
<1>3. ASSUME NEW k \in 1 .. Len(queue) PROVE queue[k] # holding[v]
  BY <1>1, ItemTypes DEF ItemInv, QueueFresh, HoldersExecute
<1> QED
  BY <1>1, <1>2, <1>3

\* An item pending in f was pending, and is queued or executed by another runner.
LEMMA StillPlaced ==
  ASSUME TypeOK, ItemInv, NEW w \in Workers, NEW f, LetsGo(w, f),
         NEW x \in Items, f[x] = "pending"
  PROVE  \/ \E k \in 1 .. Len(queue) : queue[k] = x
         \/ \E v \in Workers : v # w /\ holding[v] = x
<1>1. future[x] = "pending" /\ x # holding[w]
  BY DEF LetsGo
<1> QED
  BY <1>1 DEF ItemInv, PendingPlaced

\* The runner finds nothing live: every queued item is dropped, and it sleeps.
LEMMA SleepStep ==
  ASSUME TypeOK, ItemInv, NEW w \in Workers, NEW f, LetsGo(w, f),
         LivePos(f, queue) = {}, queue' = <<>>,
         SetFutures(Settle(f, DeadItems(f, queue, Len(queue)), "cancelled")),
         NEW s \in {"waiting", "free"}, worker' = [worker EXCEPT ![w] = s],
         holding' = [holding EXCEPT ![w] = NoItem], attempts' = attempts
  PROVE  ItemInv'
<1> USE ItemTypes
<1> DEFINE D == DeadItems(f, queue, Len(queue))
<1>1. \A x \in Items : future'[x] = IF x \in D /\ f[x] = "pending" THEN "cancelled" ELSE f[x]
  BY DeadValue DEF LetsGo
<1>2. \A x : x \in D <=> \E k \in 1 .. Len(queue) : queue[k] = x
  BY DEF DeadItems
<1> HIDE DEF D
<1>3. QueueFresh'
  <2>1. Len(queue') = 0 /\ 1 .. Len(queue') = {}
    OBVIOUS
  <2>2. \A x \in Items : future'[x] = "none" => future[x] = "none"
    BY <1>1 DEF LetsGo
  <2> QED  BY <2>1, <2>2 DEF ItemInv, QueueFresh
<1>4. HoldersExecute'
  <2>1. \A v \in Workers : v # w => holding'[v] = holding[v] /\ worker'[v] = worker[v]
    OBVIOUS
  <2>2. holding'[w] = NoItem /\ worker'[w] \notin Executes
    BY DEF Executes
  <2>3. ASSUME NEW v \in Workers, v # w, holding[v] # NoItem
        PROVE  future'[holding[v]] = "pending"
    <3>1. /\ holding[v] \in Items /\ f[holding[v]] = "pending"
          /\ \A k \in 1 .. Len(queue) : queue[k] # holding[v]
      BY <2>3, OtherHolders
    <3> QED  BY <1>1, <1>2, <3>1
  <2> QED  BY <2>1, <2>2, <2>3 DEF ItemInv, HoldersExecute
<1>5. PendingPlaced'
  <2> SUFFICES ASSUME NEW x \in Items, future'[x] = "pending"
               PROVE  \E v \in Workers : holding'[v] = x
    BY DEF PendingPlaced
  <2>1. f[x] = "pending" /\ x \notin D
    BY <1>1
  <2>2. PICK v \in Workers : v # w /\ holding[v] = x
    BY <1>2, <2>1, StillPlaced
  <2> QED  BY <2>2
<1> QED
  BY <1>3, <1>4, <1>5 DEF ItemInv

\* The runner takes the first live item: dead ones before it are dropped.
LEMMA PopStep ==
  ASSUME TypeOK, ItemInv, NEW w \in Workers, NEW f, LetsGo(w, f),
         NEW k, FirstLive(k, f, queue), queue' = Behind(queue, k),
         SetFutures(Settle(f, DeadItems(f, queue, k), "cancelled")),
         worker' = [worker EXCEPT ![w] = "running"],
         holding' = [holding EXCEPT ![w] = queue[k]],
         attempts' = [attempts EXCEPT ![queue[k]] = @ + 1]
  PROVE  ItemInv'
<1> USE ItemTypes
<1> DEFINE D == DeadItems(f, queue, k)
           p == queue[k]
<1>1. /\ k \in 1 .. Len(queue) /\ p \in Items /\ f[p] = "pending"
      /\ \A m \in 1 .. Len(queue) : m < k => m \notin LivePos(f, queue)
  BY DEF FirstLive, LivePos, Live
<1>2. \A x \in Items : future'[x] = IF x \in D /\ f[x] = "pending" THEN "cancelled" ELSE f[x]
  BY DeadValue DEF LetsGo
<1>3. /\ \A m \in 1 .. Len(queue) : m < k => queue[m] \in D
      /\ \A x \in D : x # p /\ \E m \in 1 .. Len(queue) : queue[m] = x
  <2>1. \A m \in 1 .. Len(queue) : m < k => m \in 1 .. k
    BY <1>1
  <2>2. \A m \in 1 .. k : m \in 1 .. Len(queue)
    BY <1>1
  <2>3. ASSUME NEW m \in (1 .. k) \ LivePos(f, queue) PROVE queue[m] # p
    <3>1. m \in 1 .. Len(queue) /\ m # k
      BY <2>2 DEF FirstLive
    <3> QED  BY <1>1, <3>1 DEF ItemInv, QueueFresh
  <2> QED  BY <1>1, <2>1, <2>2, <2>3 DEF DeadItems
<1>4. /\ Len(queue') = Len(queue) - k
      /\ \A m \in 1 .. Len(queue') : m + k \in 1 .. Len(queue) /\ queue'[m] = queue[m + k]
      /\ \A m \in 1 .. Len(queue) : m > k => m - k \in 1 .. Len(queue') /\ queue'[m - k] = queue[m]
  <2>1. queue' = SubSeq(queue, k + 1, Len(queue)) /\ queue \in Seq(Items)
    BY DEF Behind
  <2> QED  BY <1>1, <2>1
<1> HIDE DEF D, p
<1>5. attempts[p] = 0 /\ p # holding[w]
  BY <1>1 DEF ItemInv, QueueFresh, p, LetsGo
<1>6. \A x \in Items : attempts'[x] = IF x = p THEN 1 ELSE attempts[x]
  BY <1>1, <1>5 DEF p
<1>7. QueueFresh'
  <2>1. ASSUME NEW m \in 1 .. Len(queue'), NEW n \in 1 .. Len(queue'), queue'[m] = queue'[n]
        PROVE  m = n
    BY <1>1, <1>4, <2>1 DEF ItemInv, QueueFresh
  <2>2. ASSUME NEW m \in 1 .. Len(queue')
        PROVE  future'[queue'[m]] # "none" /\ attempts'[queue'[m]] = 0
    <3>1. m + k \in 1 .. Len(queue) /\ m + k # k /\ queue'[m] = queue[m + k]
      BY <1>1, <1>4
    <3>2. queue[m + k] # p /\ queue[m + k] \in Items
      BY <1>1, <3>1 DEF ItemInv, QueueFresh, p
    <3>3. future[queue[m + k]] # "none" /\ attempts[queue[m + k]] = 0
      BY <3>1 DEF ItemInv, QueueFresh
    <3>4. f[queue[m + k]] # "none"
      BY <3>2, <3>3 DEF LetsGo
    <3> QED  BY <1>2, <1>6, <3>1, <3>2, <3>3, <3>4
  <2>3. ASSUME NEW x \in Items, future'[x] = "none"
        PROVE  attempts'[x] = 0
    <3>1. f[x] = "none" /\ x # p
      BY <1>1, <1>2, <2>3
    <3>2. future[x] = "none"
      BY <3>1 DEF LetsGo
    <3> QED  BY <1>6, <3>1, <3>2 DEF ItemInv, QueueFresh
  <2> QED  BY <2>1, <2>2, <2>3 DEF QueueFresh
<1>8. \A v \in Workers : /\ v # w => holding'[v] = holding[v] /\ worker'[v] = worker[v]
                         /\ v = w => holding'[v] = p /\ worker'[v] = "running"
  BY DEF p
<1>9. HoldersExecute'
  <2>1. future'[p] = "pending" /\ attempts'[p] > 0 /\ p # NoItem
    BY <1>1, <1>2, <1>3, <1>6
  <2>2. ASSUME NEW v \in Workers, v # w, holding[v] # NoItem
        PROVE  /\ future'[holding[v]] = "pending" /\ attempts'[holding[v]] > 0
               /\ holding[v] # p
    <3>1. holding[v] \in Items /\ f[holding[v]] = "pending" /\ holding[v] \notin D
      BY <1>3, <2>2, OtherHolders
    <3>2. holding[v] # p
      BY <1>1, <2>2, OtherHolders DEF p
    <3>3. attempts[holding[v]] > 0
      BY <2>2 DEF ItemInv, HoldersExecute
    <3> QED  BY <1>2, <1>6, <3>1, <3>2, <3>3
  <2> QED  BY <1>8, <2>1, <2>2 DEF ItemInv, HoldersExecute, Executes
<1>10. PendingPlaced'
  <2> SUFFICES ASSUME NEW x \in Items, future'[x] = "pending", x # p
               PROVE  \/ \E m \in 1 .. Len(queue') : queue'[m] = x
                      \/ \E v \in Workers : holding'[v] = x
    BY SMTT(30), <1>8 DEF PendingPlaced
  <2>1. f[x] = "pending" /\ x \notin D
    BY <1>2
  <2>2. CASE \E m \in 1 .. Len(queue) : queue[m] = x
    <3>1. PICK m \in 1 .. Len(queue) : queue[m] = x
      BY <2>2
    <3>2. m > k
      BY <1>1, <1>3, <2>1, <3>1 DEF p
    <3> QED  BY <1>4, <3>1, <3>2
  <2>3. CASE \E v \in Workers : v # w /\ holding[v] = x
    BY <1>8, <2>3
  <2> QED  BY <2>1, <2>2, <2>3, StillPlaced
<1> QED
  BY <1>7, <1>9, <1>10 DEF ItemInv

LEMMA TakeOrWaitPlaces ==
  ASSUME TypeOK, ItemInv, NEW w \in Workers, NEW f, LetsGo(w, f), TakeOrWait(w, f)
  PROVE  ItemInv'
<1>1. CASE LivePos(f, queue) = {}
  BY <1>1, SleepStep DEF TakeOrWait
<1>2. CASE LivePos(f, queue) # {}
  BY <1>2, PopStep DEF TakeOrWait
<1> QED
  BY <1>1, <1>2

\* However a runner comes to _pop_live, it has let its item go first.
LEMMA RunnerLetsGo ==
  ASSUME TypeOK, ItemInv, NEW w \in Workers,
         WarmDone(w) \/ Wake(w) \/ \E o \in Outcomes : AttemptSettles(w, o)
  PROVE  \E f : LetsGo(w, f) /\ TakeOrWait(w, f)
<1> USE ItemTypes
<1>1. CASE WarmDone(w) \/ Wake(w)
  <2>1. worker[w] \notin Executes /\ TakeOrWait(w, future)
    BY <1>1 DEF WarmDone, Wake, Executes
  <2>2. LetsGo(w, future)
    BY <2>1 DEF ItemInv, HoldersExecute, LetsGo
  <2> QED  BY <2>1, <2>2
<1>2. ASSUME NEW o \in Outcomes, AttemptSettles(w, o)
      PROVE  \E f : LetsGo(w, f) /\ TakeOrWait(w, f)
  <2> DEFINE next == AfterAttempt(o, attempts[holding[w]], holding[w] \in cancelled)
             f    == Settle(future, {holding[w]}, next)
  <2>1. worker[w] = "running" /\ next # "backoff" /\ TakeOrWait(w, f)
    BY <1>2 DEF AttemptSettles
  <2>2. next \in FutureStates \ {"none", "pending"}
    BY <2>1 DEF AfterAttempt, FutureStates
  <2> HIDE DEF next
  <2>3. holding[w] \in Items /\ future[holding[w]] = "pending"
    BY <2>1 DEF ItemInv, HoldersExecute, Executes
  <2>4. f \in [Items -> FutureStates]
    BY <2>2, SettleType
  <2>5. \A x \in Items : f[x] = IF x = holding[w] THEN next ELSE future[x]
    BY <2>3, SettleValue
  <2>6. LetsGo(w, f)
    BY <2>2, <2>4, <2>5 DEF LetsGo
  <2> QED  BY <2>1, <2>6
<1> QED
  BY <1>1, <1>2

\* A runner that retires held nothing and leaves an empty queue.
LEMMA RetireLetsGo ==
  ASSUME TypeOK, ItemInv, NEW w \in Workers, Retire(w)
  PROVE  /\ LetsGo(w, future) /\ LivePos(future, queue) = {} /\ queue' = <<>>
         /\ SetFutures(Settle(future, DeadItems(future, queue, Len(queue)), "cancelled"))
         /\ worker' = [worker EXCEPT ![w] = "free"] /\ holding' = [holding EXCEPT ![w] = NoItem]
         /\ attempts' = attempts
<1> USE ItemTypes
<1>1. /\ worker[w] = "waiting" /\ LivePos(future, queue) = {} /\ queue' = <<>>
      /\ worker' = [worker EXCEPT ![w] = "free"]
      /\ SetFutures(Settle(future, DeadItems(future, queue, Len(queue)), "cancelled"))
      /\ attempts' = attempts /\ holding' = holding
  BY DEF Retire, MayRetire
<1>2. holding[w] = NoItem
  BY <1>1 DEF ItemInv, HoldersExecute, Executes
<1> QED
  BY <1>1, <1>2 DEF LetsGo

\* No item is lost or doubled where a runner looks for its next one.
LEMMA RunnerTakes ==
  ASSUME TypeOK, ItemInv, NEW w \in Workers,
         WarmDone(w) \/ Wake(w) \/ Retire(w) \/ \E o \in Outcomes : AttemptSettles(w, o)
  PROVE  ItemInv'
<1>1. CASE Retire(w)
  BY <1>1, RetireLetsGo, SleepStep
<1>2. CASE ~ Retire(w)
  BY <1>2, RunnerLetsGo, TakeOrWaitPlaces
<1> QED
  BY <1>1, <1>2

\* The next attempt of an item is begun by the runner that holds it.
LEMMA BackoffDoneStep ==
  ASSUME TypeOK, ItemInv, NEW w \in Workers, BackoffDone(w)
  PROVE  ItemInv'
<1> USE ItemTypes
<1>1. /\ worker[w] = "backoff" /\ worker' = [worker EXCEPT ![w] = "running"]
      /\ attempts' = [attempts EXCEPT ![holding[w]] = @ + 1]
      /\ UNCHANGED <<queue, future, holding>>
  BY DEF BackoffDone
<1>2. /\ holding[w] \in Items /\ future[holding[w]] = "pending" /\ attempts[holding[w]] > 0
      /\ \A k \in 1 .. Len(queue) : queue[k] # holding[w]
  BY <1>1 DEF ItemInv, HoldersExecute, QueueFresh, Executes
<1>3. \A x \in Items : attempts'[x] = IF x = holding[w] THEN attempts[x] + 1 ELSE attempts[x]
  BY <1>1, <1>2
<1>4. QueueFresh'
  BY <1>1, <1>2, <1>3 DEF ItemInv, QueueFresh
<1>5. HoldersExecute'
  <2>1. \A v \in Workers : worker'[v] \in Executes <=> worker[v] \in Executes
    BY <1>1 DEF Executes
  <2>2. \A v \in Workers : holding[v] # NoItem => attempts'[holding[v]] > 0
    BY <1>3 DEF ItemInv, HoldersExecute
  <2> QED  BY <1>1, <2>1, <2>2 DEF ItemInv, HoldersExecute
<1>6. PendingPlaced'
  BY <1>1 DEF ItemInv, PendingPlaced
<1> QED
  BY <1>4, <1>5, <1>6 DEF ItemInv

\* The item of a cancelled runner is resolved with it.
LEMMA CancelRunnerPlaces ==
  ASSUME TypeOK, ItemInv, NEW w \in Workers, CancelRunner(w)
  PROVE  ItemInv'
<1> USE ItemTypes
<1>1. /\ worker' = [worker EXCEPT ![w] = "free"] /\ holding' = [holding EXCEPT ![w] = NoItem]
      /\ future' = Settle(future, {holding[w]}, "cancelled")
      /\ UNCHANGED <<queue, attempts>>
  BY DEF CancelRunner, SetFutures
<1>2. \A x \in Items : future'[x] = IF x = holding[w] /\ future[x] = "pending"
                                    THEN "cancelled" ELSE future[x]
  BY <1>1, SettleValue
<1>3. \A v \in Workers : /\ v # w => holding'[v] = holding[v] /\ worker'[v] = worker[v]
                         /\ v = w => holding'[v] = NoItem /\ worker'[v] = "free"
  BY <1>1
<1>4. QueueFresh'
  BY <1>1, <1>2 DEF ItemInv, QueueFresh
<1>5. HoldersExecute'
  <2>1. ASSUME NEW v \in Workers, v # w, holding[v] # NoItem
        PROVE  future'[holding[v]] = "pending" /\ attempts'[holding[v]] > 0
    BY ZenonT(30), <1>1, <1>2, <2>1 DEF ItemInv, HoldersExecute
  <2> QED  BY <1>3, <2>1 DEF ItemInv, HoldersExecute, Executes
<1>6. PendingPlaced'
  <2> SUFFICES ASSUME NEW x \in Items, future'[x] = "pending"
               PROVE  \/ \E k \in 1 .. Len(queue) : queue[k] = x
                      \/ \E v \in Workers : holding'[v] = x
    BY <1>1 DEF PendingPlaced
  <2>1. future[x] = "pending" /\ x # holding[w]
    BY <1>2
  <2> QED  BY SMTT(30), <1>3, <2>1 DEF ItemInv, PendingPlaced
<1> QED
  BY <1>4, <1>5, <1>6 DEF ItemInv

\* Without runners every pending item is queued, so the flush resolves them all.
LEMMA FlushStep ==
  ASSUME TypeOK, ItemInv, StopNoRunners \/ StopFlush
  PROVE  ItemInv'
<1> USE ItemTypes
<1>1. /\ Active = {} /\ queue' = <<>> /\ UNCHANGED <<attempts, worker, holding>>
      /\ future' = Settle(future, {queue[k] : k \in 1 .. Len(queue)}, "cancelled")
  BY DEF StopNoRunners, StopFlush, NoRunners, Flush, SetFutures, runnerVars
<1>2. \A w \in Workers : holding[w] = NoItem
  BY <1>1 DEF ItemInv, HoldersExecute, Active, Executes
<1>3. \A x \in Items : future'[x] =
        IF (\E k \in 1 .. Len(queue) : queue[k] = x) /\ future[x] = "pending"
        THEN "cancelled" ELSE future[x]
  <2> DEFINE Q == {queue[k] : k \in 1 .. Len(queue)}
  <2>1. \A x \in Items : future'[x] = IF x \in Q /\ future[x] = "pending"
                                      THEN "cancelled" ELSE future[x]
    BY <1>1, SettleValue
  <2> QED  BY <2>1
<1>4. QueueFresh'
  <2>1. Len(queue') = 0 /\ 1 .. Len(queue') = {}
    BY <1>1
  <2> QED  BY SMTT(30), <1>1, <1>3, <2>1 DEF ItemInv, QueueFresh
<1>5. HoldersExecute'
  BY <1>1, <1>2 DEF ItemInv, HoldersExecute
<1>6. PendingPlaced'
  BY <1>2, <1>3 DEF ItemInv, PendingPlaced
<1> QED
  BY <1>4, <1>5, <1>6 DEF ItemInv

-----------------------------------------------------------------------------
(* Outside start() and stop() there are no runner tasks.                      *)

LEMMA QuietStep ==
  ASSUME TypeOK, Quiet, [Next]_vars
  PROVE  Quiet'
<1> SUFFICES ASSUME ~started', ~stopping' PROVE NoRunners'
  BY DEF Quiet
<1> USE DEF NoRunners, Active
<1>1. CASE StopNoRunners \/ StopFlush
  BY <1>1 DEF StopNoRunners, StopFlush, runnerVars
<1>2. CASE StopBegin
  BY <1>2 DEF StopBegin
<1>3. CASE UNCHANGED lifeVars
  <2>1. ~started /\ ~stopping /\ Active = {} /\ spawned = 0 /\ finished = 0
    BY <1>3 DEF Quiet, lifeVars
  <2>2. \A w \in Workers : worker[w] \in NotRunner
    BY <2>1 DEF NotRunner
  <2>3. /\ ~ (RunnerStart \/ RunnerExhausted \/ OnRunnerDone \/ CancelSpawned)
        /\ \A w \in Workers : ~ CancelRunner(w)
    BY <2>1 DEF RunnerStart, RunnerExhausted, OnRunnerDone, CancelSpawned, CancelRunner,
                Cancellable
  <2>4. \A w \in Workers : ~ (\/ WarmDone(w) \/ ExpireTTL(w) \/ Wake(w) \/ Retire(w)
                              \/ AttemptFails(w) \/ BackoffDone(w)
                              \/ \E o \in Outcomes : AttemptSettles(w, o))
    BY <2>2 DEF WarmDone, ExpireTTL, Wake, Retire, AttemptFails, BackoffDone, AttemptSettles,
                NotRunner
  <2>5. CASE LeaseOutside \/ ReleaseOutside
    <3>1. PICK w \in Workers, s \in NotRunner : worker' = [worker EXCEPT ![w] = s]
      BY <2>5 DEF LeaseOutside, ReleaseOutside, FreeWorkers, NotRunner
    <3>2. UNCHANGED <<spawned, finished>>
      BY <2>5 DEF LeaseOutside, ReleaseOutside
    <3>3. \A v \in Workers : worker'[v] \in NotRunner
      BY <2>2, <3>1, ItemTypes
    <3> QED  BY <2>1, <3>2, <3>3 DEF NotRunner
  <2>6. CASE \E i \in Items : MakeItem(i)
    BY <2>1, <2>6 DEF MakeItem, Reconcile
  <2>7. CASE Start
    BY <1>3, <2>1, <2>7 DEF Start, lifeVars
  <2>8. CASE \/ UNCHANGED vars
             \/ \E j \in Jobs : (\E n \in 0 .. MaxSteps : Admit(j, n)) \/ FinalizeJob(j)
             \/ \E i \in Items : CancelItem(i) \/ AbandonItem(i) \/ ReleaseCallback(i)
    BY <2>1, <2>8 DEF vars, Admit, FinalizeJob, CancelItem, AbandonItem, ReleaseCallback,
                      runnerVars
  <2>9. CASE StopNoRunners \/ StopBegin \/ StopFlush
    BY <1>1, <1>2, <2>9
  <2> QED  BY <2>3, <2>4, <2>5, <2>6, <2>7, <2>8, <2>9 DEF Next
<1>4. CASE Start
  BY <1>4 DEF Start
<1>5. \/ StopNoRunners \/ StopFlush \/ StopBegin \/ UNCHANGED lifeVars \/ Start
  <2>1. CASE \E j \in Jobs : (\E n \in 0 .. MaxSteps : Admit(j, n)) \/ FinalizeJob(j)
    BY <2>1 DEF Admit, FinalizeJob
  <2>2. CASE \E i \in Items : MakeItem(i) \/ CancelItem(i) \/ AbandonItem(i) \/ ReleaseCallback(i)
    BY <2>2 DEF MakeItem, CancelItem, AbandonItem, ReleaseCallback
  <2>3. CASE \E w \in Workers : WarmDone(w) \/ ExpireTTL(w) \/ Wake(w) \/ Retire(w)
    BY <2>3 DEF WarmDone, ExpireTTL, Wake, Retire
  <2>4. CASE \E w \in Workers : \/ AttemptFails(w) \/ BackoffDone(w) \/ CancelRunner(w)
                                \/ \E o \in Outcomes : AttemptSettles(w, o)
    BY <2>4 DEF AttemptFails, BackoffDone, CancelRunner, AttemptSettles
  <2>5. CASE \/ RunnerStart \/ RunnerExhausted \/ OnRunnerDone \/ CancelSpawned
             \/ LeaseOutside \/ ReleaseOutside \/ UNCHANGED vars
    BY <2>5 DEF RunnerStart, RunnerExhausted, OnRunnerDone, CancelSpawned, LeaseOutside,
                ReleaseOutside, vars
  <2> QED  BY <2>1, <2>2, <2>3, <2>4, <2>5 DEF Next
<1> QED
  BY <1>1, <1>2, <1>3, <1>4, <1>5

-----------------------------------------------------------------------------
(* The theorems about items                                                   *)

LEMMA InitItemInv == Init => ItemInv /\ Quiet
<1> SUFFICES ASSUME Init PROVE ItemInv /\ Quiet
  OBVIOUS
<1>1. Len(queue) = 0 /\ 1 .. Len(queue) = {}
  BY DEF Init
<1>2. QueueFresh
  BY <1>1 DEF Init, QueueFresh
<1>3. HoldersExecute
  BY DEF Init, HoldersExecute, Executes
<1>4. PendingPlaced
  BY DEF Init, PendingPlaced
<1>5. Quiet
  BY DEF Init, Quiet, NoRunners, Active
<1> QED
  BY <1>2, <1>3, <1>4, <1>5 DEF ItemInv

LEMMA NextItemInv == TypeOK /\ ItemInv /\ Quiet /\ [Next]_vars => ItemInv' /\ Quiet'
<1> SUFFICES ASSUME TypeOK, ItemInv, Quiet, [Next]_vars PROVE ItemInv' /\ Quiet'
  OBVIOUS
<1>1. ASSUME NEW i \in Items, MakeItem(i) \/ CancelItem(i) \/ AbandonItem(i)
      PROVE  ItemInv'
  BY <1>1, MakeItemPlaces, CancelItemStep
<1>2. ASSUME NEW w \in Workers,
             \/ WarmDone(w) \/ Wake(w) \/ Retire(w) \/ \E o \in Outcomes : AttemptSettles(w, o)
             \/ BackoffDone(w) \/ CancelRunner(w)
      PROVE  ItemInv'
  BY <1>2, RunnerTakes, BackoffDoneStep, CancelRunnerPlaces
<1>3. CASE StopNoRunners \/ StopFlush
  BY <1>3, FlushStep, QuietStep
<1>4. CASE \/ UNCHANGED vars
           \/ Start \/ RunnerStart \/ RunnerExhausted \/ OnRunnerDone \/ StopBegin
           \/ CancelSpawned \/ LeaseOutside \/ ReleaseOutside
           \/ \E j \in Jobs : (\E n \in 0 .. MaxSteps : Admit(j, n)) \/ FinalizeJob(j)
           \/ \E i \in Items : ReleaseCallback(i)
           \/ \E w \in Workers : ExpireTTL(w) \/ AttemptFails(w)
  BY <1>4, OtherItemStep, QuietStep
<1> QED
  BY <1>1, <1>2, <1>3, <1>4, QuietStep DEF Next

(* Where every item is, and who executes it, in every reachable state         *)
THEOREM ItemInvariance == Spec => [](ItemInv /\ Quiet)
<1>1. TypeOK /\ (ItemInv /\ Quiet) /\ [Next]_vars => (ItemInv /\ Quiet)'
  BY NextItemInv
<1> QED
  BY <1>1, InitItemInv, TypeCorrect, PTL DEF Spec

(* No item is executed by two runners, is executed while it is queued, or is  *)
(* still executed once its future is resolved; no runner executes nothing.    *)
THEOREM OneRunnerAlways == Spec => []OneRunnerPerItem
<1>1. ASSUME TypeOK, ItemInv PROVE OneRunnerPerItem
  <2>1. ASSUME NEW w \in Workers, holding[w] # NoItem, NEW k \in 1 .. Len(queue)
        PROVE  queue[k] # holding[w]
    BY <1>1, <2>1, ItemTypes DEF ItemInv, QueueFresh, HoldersExecute
  <2> QED
    BY <1>1, <2>1 DEF ItemInv, HoldersExecute, Executes, OneRunnerPerItem
<1> QED
  BY <1>1, ItemInvariance, TypeCorrect, PTL

(* No unresolved item is lost or doubled: it is in the queue exactly once and *)
(* not begun, or begun and held by a runner, through retries and stops.       *)
THEOREM PendingNeverLost == Spec => []PendingIsSomewhere
<1>1. ASSUME TypeOK, ItemInv PROVE PendingIsSomewhere
  <2> SUFFICES ASSUME NEW i \in Items, future[i] = "pending"
               PROVE  \/ /\ Cardinality({k \in 1 .. Len(queue) : queue[k] = i}) = 1
                         /\ attempts[i] = 0
                      \/ attempts[i] > 0 /\ \E w \in Workers : holding[w] = i
    BY DEF PendingIsSomewhere
  <2>1. CASE \E k \in 1 .. Len(queue) : queue[k] = i
    <3>1. PICK k \in 1 .. Len(queue) : queue[k] = i
      BY <2>1
    <3>2. {m \in 1 .. Len(queue) : queue[m] = i} = {k}
      BY <1>1, <3>1 DEF ItemInv, QueueFresh
    <3>3. Cardinality({m \in 1 .. Len(queue) : queue[m] = i}) = 1
      BY <3>2, FS_Singleton
    <3> QED  BY <1>1, <3>1, <3>3 DEF ItemInv, QueueFresh
  <2>2. CASE \E w \in Workers : holding[w] = i
    BY <1>1, <2>2, ItemTypes DEF ItemInv, HoldersExecute
  <2> QED  BY <1>1, <2>1, <2>2 DEF ItemInv, PendingPlaced
<1> QED
  BY <1>1, ItemInvariance, TypeCorrect, PTL

-----------------------------------------------------------------------------
(* The retry budget                                                           *)

(* No item has more attempts than the policy allows, and a runner that sleeps *)
(* a backoff has one left to make.                                            *)
WithinBudget ==
  /\ \A i \in Items : attempts[i] <= MaxAttempts
  /\ \A w \in Workers : worker[w] = "backoff" => attempts[holding[w]] < MaxAttempts

\* What a runner that looks for its next item does to the others and to itself
LEMMA TakingBegins ==
  ASSUME TypeOK, ItemInv, NEW w \in Workers, NEW f, LetsGo(w, f), TakeOrWait(w, f)
  PROVE  /\ \A v \in Workers : v # w => worker'[v] = worker[v] /\ holding'[v] = holding[v]
         /\ worker'[w] \in {"waiting", "running"}
         /\ \A i \in Items : attempts'[i] # attempts[i] =>
              /\ attempts[i] = 0 /\ attempts'[i] = 1 /\ i # holding[w]
              /\ future'[i] = "pending" /\ holding'[w] = i /\ worker'[w] = "running"
         /\ worker'[w] = "running" =>
              /\ holding'[w] \in Items
              /\ attempts'[holding'[w]] = attempts[holding'[w]] + 1
         /\ \A i \in Items : future'[i] = "failed" => f[i] = "failed"
<1> USE ItemTypes
<1>1. CASE LivePos(f, queue) = {}
  <2>1. /\ worker' = [worker EXCEPT ![w] = "waiting"] /\ holding' = [holding EXCEPT ![w] = NoItem]
        /\ attempts' = attempts
        /\ SetFutures(Settle(f, DeadItems(f, queue, Len(queue)), "cancelled"))
    BY <1>1 DEF TakeOrWait
  <2>2. \A i \in Items : future'[i] = "failed" => f[i] = "failed"
    BY <2>1, DeadValue DEF LetsGo
  <2> QED
    BY <2>1, <2>2
<1>2. CASE LivePos(f, queue) # {}
  <2>1. PICK k \in LivePos(f, queue) :
          /\ SetFutures(Settle(f, DeadItems(f, queue, k), "cancelled"))
          /\ worker' = [worker EXCEPT ![w] = "running"]
          /\ holding' = [holding EXCEPT ![w] = queue[k]]
          /\ attempts' = [attempts EXCEPT ![queue[k]] = @ + 1]
    BY <1>2 DEF TakeOrWait
  <2> DEFINE p == queue[k]
  <2>2. k \in 1 .. Len(queue) /\ p \in Items /\ f[p] = "pending"
    BY <2>1 DEF LivePos, Live
  <2>3. attempts[p] = 0 /\ p # holding[w]
    BY <2>2 DEF ItemInv, QueueFresh, LetsGo
  <2>4. \A x \in Items : future'[x] = IF x \in DeadItems(f, queue, k) /\ f[x] = "pending"
                                      THEN "cancelled" ELSE f[x]
    BY <2>1, DeadValue DEF LetsGo
  <2>5. p \notin DeadItems(f, queue, k)
    <3>1. ASSUME NEW m \in (1 .. k) \ LivePos(f, queue) PROVE queue[m] # p
      <4>1. m \in 1 .. Len(queue) /\ m # k
        BY <2>1, <2>2
      <4> QED
        BY <2>2, <4>1 DEF ItemInv, QueueFresh
    <3> QED
      BY <3>1 DEF DeadItems
  <2>6. future'[p] = "pending" /\ \A i \in Items : future'[i] = "failed" => f[i] = "failed"
    BY <2>2, <2>4, <2>5
  <2>7. /\ worker'[w] = "running" /\ holding'[w] = p
        /\ \A v \in Workers : v # w => worker'[v] = worker[v] /\ holding'[v] = holding[v]
        /\ attempts'[p] = 1 /\ \A i \in Items : i # p => attempts'[i] = attempts[i]
    BY <2>1, <2>2, <2>3
  <2> HIDE DEF p
  <2> QED
    BY <2>2, <2>3, <2>6, <2>7
<1> QED
  BY <1>1, <1>2

(* Nobody but a runner begins an attempt, fails an item or takes one.         *)
RunnersRest ==
  /\ UNCHANGED attempts
  /\ \A i \in Items : future'[i] = "failed" => future[i] = "failed"
  /\ \A w \in Workers : /\ worker'[w] \in Executes => worker'[w] = worker[w]
                        /\ holding'[w] = holding[w]

LEMMA CallsRest ==
  ASSUME TypeOK,
         \/ UNCHANGED vars
         \/ Start \/ RunnerStart \/ RunnerExhausted \/ OnRunnerDone
         \/ StopBegin \/ StopNoRunners \/ StopFlush \/ CancelSpawned
         \/ LeaseOutside \/ ReleaseOutside
         \/ \E j \in Jobs : (\E n \in Nat : Admit(j, n)) \/ FinalizeJob(j)
         \/ \E i \in Items : MakeItem(i) \/ CancelItem(i) \/ AbandonItem(i) \/ ReleaseCallback(i)
  PROVE  RunnersRest
<1> USE ItemTypes
<1>1. CASE \/ UNCHANGED vars
           \/ Start \/ OnRunnerDone \/ RunnerExhausted \/ StopBegin \/ CancelSpawned
           \/ \E j \in Jobs : (\E n \in Nat : Admit(j, n)) \/ FinalizeJob(j)
           \/ \E i \in Items : ReleaseCallback(i)
  BY <1>1 DEF RunnersRest, vars, itemVars, runnerVars, Start, OnRunnerDone, RunnerExhausted,
       StopBegin, CancelSpawned, Admit, FinalizeJob, ReleaseCallback
<1>2. CASE RunnerStart \/ LeaseOutside \/ ReleaseOutside
  <2>1. UNCHANGED <<attempts, future, holding>>
    BY <1>2 DEF RunnerStart, LeaseOutside, ReleaseOutside, itemVars
  <2>2. \E v \in Workers, s \in {"warming", "leasedOutside", "free"} :
          worker' = [worker EXCEPT ![v] = s]
    BY <1>2 DEF RunnerStart, LeaseOutside, ReleaseOutside, FreeWorkers
  <2> QED
    BY <2>1, <2>2 DEF RunnersRest, Executes
<1>3. CASE StopNoRunners \/ StopFlush \/ \E i \in Items : CancelItem(i) \/ AbandonItem(i)
  <2>1. UNCHANGED <<attempts, worker, holding>>
    BY <1>3 DEF StopNoRunners, StopFlush, CancelItem, AbandonItem, runnerVars
  <2>2. UNCHANGED future \/ \E S : SetFutures(Settle(future, S, "cancelled"))
    BY <1>3 DEF StopNoRunners, StopFlush, Flush, CancelItem, AbandonItem
  <2>3. \A i \in Items : future'[i] = "failed" => future[i] = "failed"
    BY SMTT(30), <2>2, SettleValue DEF SetFutures
  <2> QED
    BY <2>1, <2>3 DEF RunnersRest
<1>4. ASSUME NEW i \in Items, MakeItem(i)
      PROVE  RunnersRest
  BY <1>4 DEF MakeItem, RunnersRest
<1> QED
  BY <1>1, <1>2, <1>3, <1>4

(* What a step of the runner on w does that has seen the attempt at item e end*)
(* with outcome o (NoItem: none): a failure follows an attempt that ended, on *)
(* a transient one when the budget is spent; what runs after it has begun it. *)
RunnerTells(w, e, o) ==
  /\ \A v \in Workers : v # w => worker'[v] = worker[v] /\ holding'[v] = holding[v]
  /\ \A i \in Items : attempts'[i] # attempts[i] =>
       /\ attempts'[i] = attempts[i] + 1 /\ i # e /\ future'[i] = "pending"
       /\ attempts[i] = 0 \/ (worker[w] = "backoff" /\ holding[w] = i)
       /\ holding'[w] = i /\ worker'[w] = "running"
  /\ worker'[w] = "running" => attempts'[holding'[w]] = attempts[holding'[w]] + 1
  /\ worker'[w] = "backoff" => /\ worker[w] = "running" /\ holding'[w] = holding[w]
                               /\ attempts[holding[w]] < MaxAttempts
  /\ \A i \in Items : future'[i] = "failed" =>
       \/ future[i] = "failed"
       \/ i = e /\ (o = "transient" => attempts[i] >= MaxAttempts)
  /\ e = NoItem \/ (e = holding[w] /\ worker[w] = "running")

\* Runners that look for their next item
LEMMA LookingTells ==
  ASSUME TypeOK, ItemInv, NEW w \in Workers
  PROVE  /\ WarmDone(w) \/ Wake(w) => RunnerTells(w, NoItem, "ok")
         /\ \A o \in Outcomes : AttemptSettles(w, o) => RunnerTells(w, holding[w], o)
<1> USE ItemTypes
<1>1. ASSUME WarmDone(w) \/ Wake(w)
      PROVE  RunnerTells(w, NoItem, "ok")
  <2>1. worker[w] \notin Executes /\ TakeOrWait(w, future)
    BY <1>1 DEF WarmDone, Wake, Executes
  <2>2. LetsGo(w, future)
    BY <2>1 DEF ItemInv, HoldersExecute, LetsGo
  <2> QED
    BY <2>1, <2>2, TakingBegins DEF RunnerTells
<1>2. ASSUME NEW o \in Outcomes, AttemptSettles(w, o)
      PROVE  RunnerTells(w, holding[w], o)
  <2> DEFINE h    == holding[w]
             next == AfterAttempt(o, attempts[h], h \in cancelled)
             f    == Settle(future, {h}, next)
  <2>1. worker[w] = "running" /\ next # "backoff" /\ TakeOrWait(w, f)
    BY <1>2 DEF AttemptSettles
  <2>2. next \in FutureStates \ {"none", "pending"}
    BY <2>1 DEF AfterAttempt, FutureStates
  <2>3. next = "failed" => (o = "transient" => attempts[h] >= MaxAttempts)
    BY DEF AfterAttempt
  <2> HIDE DEF next
  <2>4. h \in Items /\ future[h] = "pending"
    BY <2>1 DEF ItemInv, HoldersExecute, Executes
  <2>5. f \in [Items -> FutureStates]
    BY <2>2, SettleType
  <2>6. \A x \in Items : f[x] = IF x = h THEN next ELSE future[x]
    BY <2>4, SettleValue
  <2>7. LetsGo(w, f)
    BY <2>2, <2>5, <2>6 DEF LetsGo
  <2> HIDE DEF f, h
  <2>8. \A i \in Items : f[i] = "failed" =>
          future[i] = "failed" \/ (i = h /\ (o = "transient" => attempts[i] >= MaxAttempts))
    BY <2>3, <2>6
  <2> QED
    BY <2>1, <2>7, <2>8, TakingBegins DEF RunnerTells, h
<1> QED
  BY <1>1, <1>2

\* The other steps of a runner
LEMMA RunnerTellsOther ==
  ASSUME TypeOK, ItemInv, NEW w \in Workers
  PROVE  /\ ExpireTTL(w) \/ Retire(w) \/ BackoffDone(w) \/ CancelRunner(w) => RunnerTells(w, NoItem, "ok")
         /\ AttemptFails(w) => RunnerTells(w, holding[w], "transient")
<1> USE ItemTypes
<1>1. ASSUME ExpireTTL(w)
      PROVE  RunnerTells(w, NoItem, "ok")
  BY <1>1 DEF ExpireTTL, itemVars, RunnerTells
<1>2. ASSUME Retire(w)
      PROVE  RunnerTells(w, NoItem, "ok")
  <2>1. /\ worker' = [worker EXCEPT ![w] = "free"] /\ holding' = [holding EXCEPT ![w] = NoItem]
        /\ attempts' = attempts
        /\ SetFutures(Settle(future, DeadItems(future, queue, Len(queue)), "cancelled"))
    BY <1>2, RetireLetsGo
  <2>2. \A i \in Items : future'[i] = "failed" => future[i] = "failed"
    BY <2>1, DeadValue
  <2> QED
    BY <2>1, <2>2 DEF RunnerTells
<1>3. ASSUME BackoffDone(w)
      PROVE  RunnerTells(w, NoItem, "ok")
  <2>1. /\ worker[w] = "backoff" /\ worker' = [worker EXCEPT ![w] = "running"]
        /\ attempts' = [attempts EXCEPT ![holding[w]] = @ + 1] /\ UNCHANGED <<future, holding>>
    BY <1>3 DEF BackoffDone
  <2>2. holding[w] \in Items /\ future[holding[w]] = "pending"
    BY <2>1 DEF ItemInv, HoldersExecute, Executes
  <2> QED
    BY <2>1, <2>2 DEF RunnerTells
<1>4. ASSUME CancelRunner(w)
      PROVE  RunnerTells(w, NoItem, "ok")
  <2>1. /\ worker' = [worker EXCEPT ![w] = "free"] /\ holding' = [holding EXCEPT ![w] = NoItem]
        /\ attempts' = attempts /\ SetFutures(Settle(future, {holding[w]}, "cancelled"))
    BY <1>4 DEF CancelRunner
  <2>2. \A i \in Items : future'[i] = "failed" => future[i] = "failed"
    BY SMTT(30), <2>1, SettleValue DEF SetFutures
  <2> QED
    BY <2>1, <2>2 DEF RunnerTells
<1>5. ASSUME AttemptFails(w)
      PROVE  RunnerTells(w, holding[w], "transient")
  <2>1. /\ worker[w] = "running" /\ worker' = [worker EXCEPT ![w] = "backoff"]
        /\ UNCHANGED <<attempts, future, holding>>
        /\ AfterAttempt("transient", attempts[holding[w]], holding[w] \in cancelled) = "backoff"
    BY <1>5 DEF AttemptFails, itemVars
  <2>2. attempts[holding[w]] \in Nat
    BY <2>1 DEF ItemInv, HoldersExecute, Executes
  <2>3. attempts[holding[w]] < MaxAttempts
    BY <2>1, <2>2, RetryAssumption DEF AfterAttempt
  <2> QED
    BY <2>1, <2>3 DEF RunnerTells
<1> QED
  BY <1>1, <1>2, <1>3, <1>4, <1>5

\* A runner keeps to the budget.
LEMMA BudgetKept ==
  ASSUME TypeOK, ItemInv, WithinBudget, [Next]_vars
  PROVE  WithinBudget'
<1> USE ItemTypes
<1>1. ASSUME RunnersRest
      PROVE  WithinBudget'
  BY <1>1 DEF RunnersRest, WithinBudget, Executes
<1>2. ASSUME NEW w \in Workers, NEW e, NEW o, RunnerTells(w, e, o)
      PROVE  WithinBudget'
  <2>1. ASSUME NEW i \in Items
        PROVE  attempts'[i] <= MaxAttempts
    <3>1. attempts[i] \in Nat /\ attempts[i] <= MaxAttempts /\ MaxAttempts \in Nat \ {0}
      BY RetryAssumption DEF WithinBudget
    <3>2. CASE attempts'[i] = attempts[i]
      BY <3>1, <3>2
    <3>3. CASE attempts'[i] # attempts[i]
      <4>1. /\ attempts'[i] = attempts[i] + 1
            /\ attempts[i] = 0 \/ (worker[w] = "backoff" /\ holding[w] = i)
        BY <1>2, <3>3 DEF RunnerTells
      <4>2. attempts[i] < MaxAttempts
        BY <3>1, <4>1 DEF WithinBudget
      <4> QED
        BY <3>1, <4>1, <4>2
    <3> QED
      BY <3>2, <3>3
  <2>2. ASSUME NEW v \in Workers, worker'[v] = "backoff"
        PROVE  attempts'[holding'[v]] < MaxAttempts
    <3>1. /\ holding'[v] = holding[v] /\ attempts[holding[v]] < MaxAttempts
          /\ worker[v] \in Executes
      BY <1>2, <2>2 DEF RunnerTells, WithinBudget, Executes
    <3>2. holding[v] \in Items
      BY <3>1 DEF ItemInv, HoldersExecute
    <3>3. attempts'[holding[v]] = attempts[holding[v]]
      <4>1. SUFFICES ASSUME attempts'[holding[v]] # attempts[holding[v]] PROVE FALSE
        OBVIOUS
      <4>2. worker'[w] = "running" /\ (attempts[holding[v]] = 0 \/ holding[w] = holding[v])
        BY <1>2, <3>2, <4>1 DEF RunnerTells
      <4>3. attempts[holding[v]] > 0 /\ (holding[w] = holding[v] => w = v)
        BY <3>1, <3>2 DEF ItemInv, HoldersExecute
      <4> QED
        BY <2>2, <3>2, <4>2, <4>3
    <3> QED
      BY <3>1, <3>3
  <2> QED
    BY <2>1, <2>2 DEF WithinBudget
<1>3. ASSUME NEW w \in Workers,
             \/ WarmDone(w) \/ ExpireTTL(w) \/ Wake(w) \/ Retire(w) \/ AttemptFails(w)
             \/ BackoffDone(w) \/ CancelRunner(w) \/ \E o \in Outcomes : AttemptSettles(w, o)
      PROVE  \E e, o : RunnerTells(w, e, o)
  BY <1>3, LookingTells, RunnerTellsOther
<1>4. \A n \in 0 .. MaxSteps : n \in Nat
  BY SchedulerAssumption
<1> QED
  BY <1>1, <1>2, <1>3, <1>4, CallsRest DEF Next

LEMMA InitBudget == Init => WithinBudget
  BY RetryAssumption DEF Init, WithinBudget

(* An item never has more attempts than max_attempts, whoever executes it and *)
(* whatever is cancelled or stopped in between (run_with_retries, _execute).  *)
THEOREM BudgetKeptAlways == Spec => []WithinBudget
<1>1. TypeOK /\ (ItemInv /\ Quiet) /\ WithinBudget /\ [Next]_vars => WithinBudget'
  BY BudgetKept
<1> QED
  BY <1>1, InitBudget, ItemInvariance, TypeCorrect, PTL DEF Spec

-----------------------------------------------------------------------------
(* What is at some positions of a queue, as a sequence                        *)

\* Positions of a sequence are naturals, and finitely many.
LEMMA Positions ==
  ASSUME NEW q \in Seq(Items), NEW L, L \subseteq 1 .. Len(q)
  PROVE  /\ Len(q) \in Nat /\ L \in SUBSET Nat /\ IsFiniteSet(L) /\ Cardinality(L) \in Nat
         /\ \A k \in L : k \in 1 .. Len(q) /\ k \in Nat
<1>1. Len(q) \in Nat
  OBVIOUS
<1>2. IsFiniteSet(1 .. Len(q))
  BY <1>1, FS_Interval
<1>3. IsFiniteSet(L)
  BY <1>2, FS_Subset
<1>4. \A k \in L : k \in 1 .. Len(q) /\ k \in Nat
  BY <1>1
<1> QED
  BY <1>1, <1>3, <1>4, FS_CardinalityType

\* A subset that misses a member counts less.
LEMMA SubsetCount ==
  ASSUME NEW L, IsFiniteSet(L), NEW S, S \subseteq L
  PROVE  /\ IsFiniteSet(S) /\ Cardinality(S) \in 0 .. Cardinality(L)
         /\ Cardinality(L) \in Nat
         /\ \A x \in L : x \notin S => Cardinality(S) < Cardinality(L)
<1>1. IsFiniteSet(S) /\ Cardinality(S) <= Cardinality(L)
      /\ (Cardinality(L) = Cardinality(S) => L = S)
  BY FS_Subset
<1>2. Cardinality(S) \in Nat /\ Cardinality(L) \in Nat
  BY <1>1, FS_CardinalityType
<1> QED
  BY <1>1, <1>2

\* Before ranks the members of a finite set of naturals from 0, in order.
LEMMA Ranks ==
  ASSUME NEW L \in SUBSET Nat, IsFiniteSet(L)
  PROVE  /\ Cardinality(L) \in Nat
         /\ \A k : Before(L, k) \in 0 .. Cardinality(L)
         /\ \A k \in L : Before(L, k) < Cardinality(L) /\ Before(L, k) + 1 \in 1 .. Cardinality(L)
         /\ \A k, m \in L : k < m => Before(L, k) < Before(L, m)
<1>1. ASSUME NEW k PROVE Before(L, k) \in 0 .. Cardinality(L) /\ Cardinality(L) \in Nat
  <2>1. {x \in L : x < k} \subseteq L
    OBVIOUS
  <2> QED  BY <2>1, SubsetCount DEF Before
<1>2. ASSUME NEW k \in L PROVE Before(L, k) < Cardinality(L)
  <2>1. {x \in L : x < k} \subseteq L /\ k \notin {x \in L : x < k}
    OBVIOUS
  <2> QED  BY <2>1, SubsetCount DEF Before
<1>3. ASSUME NEW k \in L, NEW m \in L, k < m PROVE Before(L, k) < Before(L, m)
  <2> DEFINE A == {x \in L : x < k}
             B == {x \in L : x < m}
  <2>1. B \subseteq L /\ A \subseteq B /\ k \in B /\ k \notin A
    <3>1. \A x \in L : x \in Nat
      OBVIOUS
    <3>2. \A x \in L : x < k => x < m
      BY <1>3, <3>1
    <3>3. ~ (k < k)
      BY <3>1
    <3> QED  BY <1>3, <3>2, <3>3
  <2>2. Cardinality(A) < Cardinality(B)
    <3> HIDE DEF A, B
    <3> QED  BY <2>1, SubsetCount
  <2> QED  BY <2>2 DEF Before
<1>4. ASSUME NEW k \in L PROVE Before(L, k) + 1 \in 1 .. Cardinality(L)
  BY <1>1, <1>2
<1> QED
  BY <1>1, <1>2, <1>3, <1>4

\* No two positions have the same rank,
LEMMA OneRankEach ==
  ASSUME NEW L \in SUBSET Nat, IsFiniteSet(L), NEW j \in L, NEW k \in L,
         Before(L, j) = Before(L, k)
  PROVE  j = k
<1>1. Before(L, j) \in Nat /\ Before(L, k) \in Nat
  BY Ranks
<1>2. j < k => Before(L, j) < Before(L, k)
  BY Ranks
<1>3. k < j => Before(L, k) < Before(L, j)
  BY Ranks
<1> QED
  BY <1>1, <1>2, <1>3

\* and every rank is taken: the ranking is a bijection.
LEMMA EveryRank ==
  ASSUME NEW L \in SUBSET Nat, IsFiniteSet(L), NEW m \in 1 .. Cardinality(L)
  PROVE  \E k \in L : Before(L, k) = m - 1
<1> DEFINE N == Cardinality(L)
           f == [k \in L |-> Before(L, k) + 1]
<1>1. N \in Nat /\ \A k \in L : Before(L, k) \in Nat /\ Before(L, k) + 1 \in 1 .. N
  BY Ranks
<1>2. IsFiniteSet(1 .. N) /\ Cardinality(1 .. N) = N
  BY <1>1, FS_Interval
<1>3. \A j, k \in L : Before(L, j) + 1 = Before(L, k) + 1 => j = k
  BY <1>1, OneRankEach
<1>4. f \in Injection(L, 1 .. N)
  BY <1>1, <1>3 DEF Injection, IsInjective
<1>5. f \in Surjection(L, 1 .. N)
  <2> HIDE DEF f
  <2> QED  BY <1>2, <1>4, FS_Injection
<1>6. PICK k \in L : f[k] = m
  BY <1>5 DEF Surjection
<1> QED
  BY <1>1, <1>6

\* AtPositions lists what is at the positions, by rank,
LEMMA InOrder ==
  ASSUME NEW q \in Seq(Items), NEW L, L \subseteq 1 .. Len(q)
  PROVE  LET s == AtPositions(q, L)
         IN  /\ s \in Seq(Items) /\ Len(s) = Cardinality(L)
             /\ \A k \in L : s[Before(L, k) + 1] = q[k]
<1> DEFINE s == AtPositions(q, L)
           at(m) == CHOOSE k \in L : Before(L, k) = m - 1
<1>1. /\ L \in SUBSET Nat /\ IsFiniteSet(L) /\ Cardinality(L) \in Nat
      /\ \A k \in L : q[k] \in Items
  <2>1. \A k \in 1 .. Len(q) : q[k] \in Items
    OBVIOUS
  <2> QED  BY <2>1, Positions
<1>2. ASSUME NEW m \in 1 .. Cardinality(L) PROVE at(m) \in L /\ Before(L, at(m)) = m - 1
  BY <1>1, EveryRank
<1>3. s = [m \in 1 .. Cardinality(L) |-> q[at(m)]]
  BY DEF AtPositions
<1> HIDE DEF at
<1>4. \A m \in 1 .. Cardinality(L) : q[at(m)] \in Items
  BY <1>1, <1>2
<1>5. s \in Seq(Items) /\ Len(s) = Cardinality(L)
  BY <1>1, <1>3, <1>4
<1>6. ASSUME NEW k \in L PROVE s[Before(L, k) + 1] = q[k]
  <2> DEFINE m == Before(L, k) + 1
  <2>1. m \in 1 .. Cardinality(L) /\ m - 1 = Before(L, k)
    BY <1>1, Ranks
  <2> HIDE DEF m
  <2>2. at(m) \in L /\ Before(L, at(m)) = Before(L, k)
    BY <1>2, <2>1
  <2>3. at(m) = k
    BY <1>1, <2>2, OneRankEach
  <2> QED  BY <1>3, <2>1, <2>3 DEF m
<1> QED
  BY <1>5, <1>6

\* and it is the only sequence that does.
LEMMA OnlyInOrder ==
  ASSUME NEW q \in Seq(Items), NEW L, L \subseteq 1 .. Len(q),
         NEW s \in Seq(Items), Len(s) = Cardinality(L), \A k \in L : s[Before(L, k) + 1] = q[k]
  PROVE  AtPositions(q, L) = s
<1> DEFINE t == AtPositions(q, L)
<1>1. t \in Seq(Items) /\ Len(t) = Cardinality(L) /\ \A k \in L : t[Before(L, k) + 1] = q[k]
  BY InOrder
<1>2. L \in SUBSET Nat /\ IsFiniteSet(L) /\ Cardinality(L) \in Nat
  BY Positions
<1> HIDE DEF t
<1>3. ASSUME NEW m \in 1 .. Len(t) PROVE t[m] = s[m]
  <2>1. PICK k \in L : Before(L, k) = m - 1
    BY <1>1, <1>2, EveryRank
  <2>2. Before(L, k) + 1 = m
    BY <1>1, <1>2, <2>1
  <2> QED  BY <1>1, <2>2
<1>4. t = s
  BY <1>1, <1>2, <1>3
<1> QED
  BY <1>4 DEF t

\* Append at the end of the queue is Append at the end of the line.
LEMMA LineGrows ==
  ASSUME NEW q \in Seq(Items), NEW L, L \subseteq 1 .. Len(q), NEW i \in Items
  PROVE  AtPositions(Append(q, i), L \cup {Len(q) + 1}) = Append(AtPositions(q, L), i)
<1> DEFINE n == Len(q) + 1
           M == L \cup {n}
           s == AtPositions(q, L)
           r == Append(q, i)
<1>1. /\ L \in SUBSET Nat /\ IsFiniteSet(L) /\ n \in Nat /\ n \notin L
      /\ \A k \in L : k \in 1 .. Len(q) /\ k \in Nat /\ k < n
  <2>1. Len(q) \in Nat /\ L \in SUBSET Nat /\ IsFiniteSet(L)
    BY Positions
  <2>2. \A k \in L : k \in 1 .. Len(q) /\ k \in Nat /\ k < n
    BY <2>1
  <2>3. n \in Nat /\ ~ (n < n)
    BY <2>1
  <2> QED  BY <2>1, <2>2, <2>3
<1>2. /\ s \in Seq(Items) /\ Len(s) = Cardinality(L) /\ Cardinality(L) \in Nat
      /\ \A k \in L : s[Before(L, k) + 1] = q[k]
      /\ \A k \in L : Before(L, k) + 1 \in 1 .. Cardinality(L)
  BY <1>1, InOrder, Ranks
<1>3. /\ r \in Seq(Items) /\ Len(r) = n /\ r[n] = i
      /\ \A k \in 1 .. Len(q) : r[k] = q[k]
  BY AppendProperties
<1>4. M \subseteq 1 .. Len(r)
  <2>1. \A k \in L : k \in 1 .. n
    BY <1>1
  <2>2. n \in 1 .. n
    BY <1>1
  <2> QED  BY <1>3, <2>1, <2>2
<1> HIDE DEF s, n, r
<1>5. Cardinality(M) = Cardinality(L) + 1
  BY <1>1, FS_AddElement
<1>6. ASSUME NEW k \in L PROVE Before(M, k) = Before(L, k)
  <2>1. {x \in M : x < k} = {x \in L : x < k}
    BY <1>1
  <2> QED  BY <2>1 DEF Before
<1>7. Before(M, n) = Cardinality(L)
  <2>1. ~ (n < n)
    BY <1>1
  <2>2. {x \in M : x < n} = L
    BY <1>1, <2>1
  <2> QED  BY <2>2 DEF Before
<1>8. /\ Append(s, i) \in Seq(Items) /\ Len(Append(s, i)) = Cardinality(M)
      /\ Append(s, i)[Cardinality(L) + 1] = i
      /\ \A k \in 1 .. Cardinality(L) : Append(s, i)[k] = s[k]
  BY <1>2, <1>5, AppendProperties
<1>9. ASSUME NEW k \in M PROVE Append(s, i)[Before(M, k) + 1] = r[k]
  BY <1>1, <1>2, <1>3, <1>6, <1>7, <1>8
<1> DEFINE t == Append(s, i)
<1> HIDE DEF M
<1>10. r \in Seq(Items) /\ M \subseteq 1 .. Len(r) /\ t \in Seq(Items) /\ Len(t) = Cardinality(M)
  BY <1>3, <1>4, <1>8
<1>11. \A k \in M : t[Before(M, k) + 1] = r[k]
  BY <1>9
<1> HIDE DEF t
<1>12. AtPositions(r, M) = t
  BY Zenon, <1>10, <1>11, OnlyInOrder
<1> QED
  BY Zenon, <1>12 DEF t, M, n, s, r

\* A position that leaves the set leaves the line at its rank.
LEMMA LineShrinks ==
  ASSUME NEW q \in Seq(Items), NEW L, L \subseteq 1 .. Len(q), NEW p \in L
  PROVE  LET s == AtPositions(q, L)
             r == Before(L, p) + 1
         IN  /\ r \in 1 .. Len(s) /\ s[r] = q[p]
             /\ AtPositions(q, L \ {p}) = SubSeq(s, 1, r - 1) \o SubSeq(s, r + 1, Len(s))
<1> DEFINE M == L \ {p}
           s == AtPositions(q, L)
           r == Before(L, p) + 1
           t == SubSeq(s, 1, r - 1) \o SubSeq(s, r + 1, Len(s))
<1>1. L \in SUBSET Nat /\ IsFiniteSet(L) /\ Cardinality(L) \in Nat
  BY Positions
<1>2. /\ s \in Seq(Items) /\ Len(s) = Cardinality(L)
      /\ \A k \in L : s[Before(L, k) + 1] = q[k]
  BY InOrder
<1>3. /\ \A k \in L : Before(L, k) \in Nat /\ Before(L, k) + 1 \in 1 .. Cardinality(L)
      /\ \A k, m \in L : k < m => Before(L, k) < Before(L, m)
  BY <1>1, Ranks
<1>4. r \in 1 .. Len(s) /\ s[r] = q[p]
  BY <1>2, <1>3
<1>5. Cardinality(M) = Cardinality(L) - 1 /\ M \subseteq 1 .. Len(q)
  BY <1>1, FS_RemoveElement
<1>6. ASSUME NEW k \in M, k < p PROVE Before(M, k) = Before(L, k)
  <2>1. k \in Nat /\ p \in Nat /\ ~ (p < k)
    BY <1>1, <1>6
  <2>2. {x \in M : x < k} = {x \in L : x < k}
    BY <2>1
  <2> QED  BY <2>2 DEF Before
<1>7. ASSUME NEW k \in M, p < k PROVE Before(M, k) = Before(L, k) - 1
  <2> DEFINE A == {x \in L : x < k}
  <2>1. A \subseteq L /\ p \in A /\ {x \in M : x < k} = A \ {p}
    BY <1>7
  <2>2. Cardinality(A \ {p}) = Cardinality(A) - 1
    <3> HIDE DEF A
    <3>1. IsFiniteSet(A)
      BY <1>1, <2>1, FS_Subset
    <3> QED  BY <2>1, <3>1, FS_RemoveElement
  <2> QED  BY <2>1, <2>2 DEF Before
<1> HIDE DEF s, M, r
<1>8. /\ t \in Seq(Items) /\ Len(t) = Cardinality(M)
      /\ \A m \in 1 .. Len(t) : t[m] = IF m < r THEN s[m] ELSE s[m + 1]
  <2> DEFINE a == SubSeq(s, 1, r - 1)
             b == SubSeq(s, r + 1, Len(s))
  <2>1. r \in Nat /\ r >= 1 /\ Len(s) \in Nat /\ r <= Len(s)
    BY <1>1, <1>2, <1>4
  <2>2. /\ a \in Seq(Items) /\ Len(a) = r - 1
        /\ \A m \in 1 .. (r - 1) : a[m] = s[m]
    BY <1>2, <2>1
  <2>3. /\ b \in Seq(Items) /\ Len(b) = Len(s) - r
        /\ \A m \in 1 .. (Len(s) - r) : b[m] = s[m + r]
    BY <1>2, <2>1
  <2> HIDE DEF a, b
  <2>4. /\ a \o b \in Seq(Items) /\ Len(a \o b) = Len(s) - 1
        /\ \A m \in 1 .. (Len(s) - 1) : (a \o b)[m] = IF m <= r - 1 THEN a[m] ELSE b[m - (r - 1)]
    <3>1. Len(a) + Len(b) = Len(s) - 1
      BY <2>1, <2>2, <2>3
    <3>2. /\ a \o b \in Seq(Items) /\ Len(a \o b) = Len(a) + Len(b)
          /\ \A m \in 1 .. (Len(a) + Len(b)) :
                (a \o b)[m] = IF m <= Len(a) THEN a[m] ELSE b[m - Len(a)]
      BY <2>2, <2>3, ConcatProperties
    <3> QED  BY <2>2, <3>1, <3>2
  <2>5. ASSUME NEW m \in 1 .. (Len(s) - 1)
        PROVE  (a \o b)[m] = IF m < r THEN s[m] ELSE s[m + 1]
    <3>1. CASE m < r
      BY <2>1, <2>2, <2>4, <3>1
    <3>2. CASE ~ (m < r)
      <4>1. m - (r - 1) \in 1 .. (Len(s) - r) /\ (m - (r - 1)) + r = m + 1 /\ ~ (m <= r - 1)
        BY <2>1, <3>2
      <4> QED  BY <2>3, <2>4, <3>2, <4>1
    <3> QED  BY <3>1, <3>2
  <2> QED  BY <1>2, <1>5, <2>4, <2>5 DEF a, b
<1> HIDE DEF t
<1>9. ASSUME NEW k \in M PROVE t[Before(M, k) + 1] = q[k]
  <2>1. /\ k \in L /\ k # p /\ k \in Nat /\ p \in Nat /\ p \in L
        /\ Before(L, k) \in Nat /\ Before(L, p) \in Nat /\ Before(L, k) + 1 \in 1 .. Cardinality(L)
        /\ r = Before(L, p) + 1 /\ s[Before(L, k) + 1] = q[k]
    BY <1>1, <1>2, <1>3 DEF M, r
  <2>2. CASE k < p
    <3>1. Before(M, k) = Before(L, k) /\ Before(L, k) < Before(L, p)
      BY <1>3, <1>6, <2>1, <2>2
    <3>2. Before(L, k) + 1 \in 1 .. Len(t) /\ Before(L, k) + 1 < r
      BY SMTT(30), <1>1, <1>2, <1>4, <1>5, <1>8, <2>1, <3>1
    <3>3. t[Before(L, k) + 1] = s[Before(L, k) + 1]
      BY <1>8, <3>2
    <3> QED  BY <2>1, <3>1, <3>3
  <2>3. CASE p < k
    <3>1. Before(M, k) + 1 = Before(L, k) /\ Before(L, p) < Before(L, k)
      BY <1>3, <1>7, <2>1, <2>3
    <3>2. Before(L, k) \in 1 .. Len(t) /\ ~ (Before(L, k) < r)
      BY SMTT(30), <1>1, <1>2, <1>4, <1>5, <1>8, <2>1, <3>1
    <3>3. t[Before(L, k)] = s[Before(L, k) + 1]
      BY <1>8, <3>2
    <3> QED  BY <2>1, <3>1, <3>3
  <2> QED  BY <2>1, <2>2, <2>3
<1>10. AtPositions(q, M) = t
  BY <1>5, <1>8, <1>9, OnlyInOrder
<1> QED
  BY <1>4, <1>10 DEF M, s, t, r

\* Numbers shifted by d are as many.
LEMMA ShiftCount ==
  ASSUME NEW S \in SUBSET Nat, IsFiniteSet(S), NEW d \in Nat, NEW T,
         \A x \in S : x - d \in T, \A y \in T : y \in Nat /\ y + d \in S
  PROVE  Cardinality(T) = Cardinality(S)
<1> DEFINE f == [x \in S |-> x - d]
<1>1. f \in [S -> T] /\ \A x, y \in S : f[x] = f[y] => x = y
  OBVIOUS
<1>2. \A y \in T : \E x \in S : f[x] = y
  <2> SUFFICES ASSUME NEW y \in T PROVE f[y + d] = y /\ y + d \in S
    OBVIOUS
  <2> QED  OBVIOUS
<1>3. f \in Bijection(S, T)
  <2> HIDE DEF f
  <2> QED  BY <1>1, <1>2 DEF Bijection, Injection, IsInjective, Surjection
<1> HIDE DEF f
<1> QED
  BY <1>3, FS_Bijection DEF ExistsBijection

\* popleft up to the first position of the line takes the head of the line.
LEMMA LineMoves ==
  ASSUME NEW q \in Seq(Items), NEW L, L \subseteq 1 .. Len(q), NEW k \in L,
         \A m \in L : k <= m,
         NEW M, \A m : m \in M <=> m \in 1 .. (Len(q) - k) /\ m + k \in L
  PROVE  LET s == AtPositions(q, L)
         IN  s # <<>> /\ Head(s) = q[k] /\ AtPositions(Behind(q, k), M) = Tail(s)
<1> DEFINE s == AtPositions(q, L)
           r == Behind(q, k)
<1>1. /\ L \in SUBSET Nat /\ IsFiniteSet(L) /\ Cardinality(L) \in Nat /\ Len(q) \in Nat
      /\ k \in 1 .. Len(q) /\ \A x \in L : x \in 1 .. Len(q) /\ x \in Nat
  BY Positions
<1>2. /\ s \in Seq(Items) /\ Len(s) = Cardinality(L)
      /\ \A x \in L : s[Before(L, x) + 1] = q[x]
  BY InOrder
<1>3. \A x \in L : Before(L, x) \in Nat /\ Before(L, x) + 1 \in 1 .. Cardinality(L)
  BY <1>1, Ranks
<1>4. Before(L, k) = 0
  <2>1. \A x \in L : ~ (x < k)
    BY <1>1
  <2>2. {x \in L : x < k} = {}
    BY <2>1
  <2> QED  BY <2>2, FS_EmptySet DEF Before
<1> HIDE DEF s
<1>5. Cardinality(L) >= 1 /\ s[1] = q[k]
  BY <1>1, <1>2, <1>3, <1>4
<1>6. s # <<>> /\ Head(s) = q[k]
  BY <1>2, <1>5
<1>7. /\ r \in Seq(Items) /\ Len(r) = Len(q) - k
      /\ \A m \in 1 .. (Len(q) - k) : r[m] = q[m + k]
  BY <1>1 DEF Behind
<1> HIDE DEF r
<1>8. \A m \in M : m \in 1 .. (Len(q) - k) /\ m \in Nat /\ m + k \in L /\ m + k # k
  BY <1>1
<1>9. \A x \in L \ {k} : x - k \in M /\ (x - k) + k = x /\ k < x
  <2> SUFFICES ASSUME NEW x \in L, x # k PROVE x - k \in M /\ (x - k) + k = x /\ k < x
    OBVIOUS
  <2>1. x \in 1 .. Len(q) /\ k < x
    BY <1>1
  <2>2. x - k \in 1 .. (Len(q) - k) /\ (x - k) + k = x
    BY <1>1, <2>1
  <2> QED  BY <2>1, <2>2
<1>10. Cardinality(M) = Cardinality(L) - 1
  <2>1. L \ {k} \in SUBSET Nat /\ IsFiniteSet(L \ {k}) /\ k \in Nat
        /\ Cardinality(L \ {k}) = Cardinality(L) - 1
    BY <1>1, FS_RemoveElement
  <2>2. Cardinality(M) = Cardinality(L \ {k})
    BY <1>8, <1>9, <2>1, ShiftCount
  <2> QED  BY <2>1, <2>2
<1>11. ASSUME NEW m \in M PROVE Before(M, m) + 1 = Before(L, m + k)
  <2> DEFINE A == {x \in L : x < m + k}
             B == {x \in M : x < m}
  <2>1. A \subseteq L /\ k \in A /\ m \in Nat /\ m >= 1 /\ k \in Nat
    BY <1>1, <1>8
  <2>2. \A x \in A \ {k} : x - k \in B
    BY <1>1, <1>9, <2>1
  <2>3. \A y \in B : y \in Nat /\ y + k \in A \ {k}
    BY <1>1, <1>8, <2>1
  <2> HIDE DEF A, B
  <2>4. IsFiniteSet(A) /\ A \in SUBSET Nat /\ Cardinality(A) \in Nat
    BY <1>1, <2>1, FS_Subset, FS_CardinalityType
  <2>5. /\ A \ {k} \in SUBSET Nat /\ IsFiniteSet(A \ {k})
        /\ Cardinality(A \ {k}) = Cardinality(A) - 1
    BY <2>1, <2>4, FS_RemoveElement
  <2>6. Cardinality(B) = Cardinality(A \ {k})
    BY <2>1, <2>2, <2>3, <2>5, ShiftCount
  <2> QED  BY <2>4, <2>5, <2>6 DEF Before, A, B
<1>12. /\ Tail(s) \in Seq(Items) /\ Len(Tail(s)) = Cardinality(M)
       /\ \A m \in 1 .. Cardinality(M) : Tail(s)[m] = s[m + 1]
  BY <1>1, <1>2, <1>5, <1>6, <1>10
<1>13. ASSUME NEW m \in M PROVE Tail(s)[Before(M, m) + 1] = r[m]
  <2>1. /\ m + k \in L /\ r[m] = q[m + k] /\ Before(M, m) + 1 = Before(L, m + k)
        /\ s[Before(L, m + k) + 1] = q[m + k]
    BY <1>2, <1>7, <1>8, <1>11
  <2>2. Before(L, m + k) \in 1 .. Cardinality(M)
    <3>1. IsFiniteSet(M) /\ M \in SUBSET Nat
      <4>1. M \subseteq 1 .. Len(r)
        BY <1>7, <1>8
      <4> QED  BY <1>7, <4>1, Positions
    <3>2. Before(M, m) + 1 \in 1 .. Cardinality(M)
      BY <3>1, Ranks
    <3> QED  BY <2>1, <3>2
  <2> QED  BY <1>12, <2>1, <2>2
<1>14. AtPositions(r, M) = Tail(s)
  <2>1. M \subseteq 1 .. Len(r)
    BY <1>7, <1>8
  <2> QED  BY ZenonT(30), <1>7, <1>12, <1>13, <2>1, OnlyInOrder
<1> QED
  BY <1>6, <1>14 DEF s, r

\* Without positions the line is empty.
LEMMA NobodyInLine ==
  ASSUME NEW q
  PROVE  AtPositions(q, {}) = <<>>
<1>1. Cardinality({}) = 0 /\ 1 .. 0 = {}
  BY FS_EmptySet
<1> QED
  BY <1>1 DEF AtPositions

\* Who is in the line is who is at its positions.
LEMMA InLineAre ==
  ASSUME NEW q \in Seq(Items), NEW L, L \subseteq 1 .. Len(q)
  PROVE  LET s == AtPositions(q, L)
         IN  {s[n] : n \in 1 .. Len(s)} = {q[k] : k \in L}
<1> DEFINE s == AtPositions(q, L)
<1>1. /\ Len(s) = Cardinality(L) /\ \A k \in L : s[Before(L, k) + 1] = q[k]
  BY InOrder
<1>2. L \in SUBSET Nat /\ IsFiniteSet(L) /\ Cardinality(L) \in Nat
  BY Positions
<1>3. \A k \in L : Before(L, k) + 1 \in 1 .. Cardinality(L)
  BY <1>2, Ranks
<1> HIDE DEF s
<1>4. ASSUME NEW n \in 1 .. Len(s) PROVE \E k \in L : s[n] = q[k]
  <2>1. PICK k \in L : Before(L, k) = n - 1
    BY <1>1, <1>2, EveryRank
  <2>2. Before(L, k) + 1 = n
    BY <1>1, <1>2, <2>1
  <2> QED  BY <1>1, <2>2
<1>5. \A k \in L : \E n \in 1 .. Len(s) : s[n] = q[k]
  BY <1>1, <1>3
<1>6. {s[n] : n \in 1 .. Len(s)} = {q[k] : k \in L}
  <2> SUFFICES ASSUME NEW x
               PROVE  (\E n \in 1 .. Len(s) : x = s[n]) <=> (\E k \in L : x = q[k])
    BY Zenon
  <2> QED  BY <1>4, <1>5, Zenon
<1> QED
  BY <1>6 DEF s

-----------------------------------------------------------------------------
(* The line a job sees                                                        *)

(* cancel() flags no item that was not made, and when the item is not begun   *)
(* it is closed as it is flagged.  So the queue has no pending flagged item:  *)
(* the dead items _pop_live and _flush drop are settled already, and nobody   *)
(* outside sees them go.                                                      *)
FlaggedFit ==
  \A i \in cancelled : future[i] # "none" /\ (future[i] = "pending" => attempts[i] > 0)

\* Positions of queue q whose items are pending in futures f, and their items
Pending(f, q) == {k \in 1 .. Len(q) : f[q[k]] = "pending"}
Line(f, q)    == AtPositions(q, Pending(f, q))

\* A queued item that is pending has not been flagged by cancel().
LEMMA QueuedUnflagged ==
  ASSUME TypeOK, ItemInv, FlaggedFit
  PROVE  \A k \in 1 .. Len(queue) : future[queue[k]] = "pending" => queue[k] \notin cancelled
  BY ItemTypes DEF ItemInv, QueueFresh, FlaggedFit

\* The line is the pending items of the queue,
LEMMA LineIs ==
  ASSUME TypeOK, ItemInv, FlaggedFit
  PROVE  LiveQueue = Line(future, queue)
<1>1. LivePos(future, queue) = Pending(future, queue)
  BY QueuedUnflagged DEF LivePos, Live, Pending
<1> QED
  BY <1>1 DEF LiveQueue, Line

\* and still is after a step.
LEMMA LineWillBe ==
  ASSUME TypeOK', ItemInv', FlaggedFit'
  PROVE  LiveQueue' = Line(future', queue')
<1>1. /\ \A k \in 1 .. Len(queue') : queue'[k] \in Items /\ attempts'[queue'[k]] = 0
      /\ \A i \in cancelled' : future'[i] = "pending" => attempts'[i] > 0
  BY DEF TypeOK, ItemInv, QueueFresh, FlaggedFit
<1>2. \A k \in 1 .. Len(queue') : future'[queue'[k]] = "pending" => queue'[k] \notin cancelled'
  BY <1>1
<1>3. LivePos(future, queue)' = Pending(future', queue')
  BY <1>2 DEF LivePos, Live, Pending
<1> QED
  BY <1>3 DEF LiveQueue, Line

\* No more items are executed than there are workers.
LEMMA ServersEnough ==
  ASSUME NEW h \in [Workers -> Items \cup {NoItem}]
  PROVE  Cardinality({h[w] : w \in Workers} \ {NoItem}) <= Capacity
<1> DEFINE T == {h[w] : w \in Workers} \ {NoItem}
           S == {w \in Workers : h[w] # NoItem}
           f == [w \in S |-> h[w]]
<1>1. IsFiniteSet(S) /\ Cardinality(S) \in 0 .. Capacity
  BY WorkersFinite
<1>2. f \in Surjection(S, T)
  BY DEF Surjection
<1>3. IsFiniteSet(T) /\ Cardinality(T) <= Cardinality(S)
  <2> HIDE DEF f, S, T
  <2> QED  BY <1>1, <1>2, FS_Surjection
<1>4. Cardinality(T) \in Nat
  BY <1>3, FS_CardinalityType
<1> QED
  BY <1>1, <1>3, <1>4, SchedulerAssumption

\* What the proofs of the steps start from
Seen ==
  /\ TypeOK /\ ItemInv /\ Quiet /\ FlaggedFit
  /\ LiveQueue = Line(future, queue) /\ LiveQueue' = Line(future', queue')

WQvars == <<LiveQueue, Executing, future>>

\* A step that leaves queue, futures and runners' items is invisible.
LEMMA NothingSeen ==
  ASSUME Seen, UNCHANGED <<queue, future, holding>>
  PROVE  UNCHANGED WQvars
<1>1. Executing' = Executing
  BY DEF Executing
<1> QED
  BY <1>1 DEF Seen, WQvars

\* make_item puts the item at the end of the line.
LEMMA EnqueueSeen ==
  ASSUME Seen, NEW i \in Items, MakeItem(i)
  PROVE  WQ!Enqueue(i)
<1> USE ItemTypes
<1>0. TypeOK /\ ItemInv
  BY DEF Seen
<1>1. /\ future[i] = "none" /\ future' = [future EXCEPT ![i] = "pending"]
      /\ queue' = Append(queue, i) /\ UNCHANGED holding
  BY DEF MakeItem, ReachesStep
<1>2. queue \in Seq(Items) /\ Len(queue) \in Nat /\ future \in [Items -> FutureStates]
  BY <1>0
<1>3. \A k \in 1 .. Len(queue) : queue[k] \in Items /\ queue[k] # i
  BY <1>0, <1>1 DEF ItemInv, QueueFresh
<1>4. Len(queue') = Len(queue) + 1 /\ queue'[Len(queue) + 1] = i
      /\ \A k \in 1 .. Len(queue) : queue'[k] = queue[k]
  BY <1>1, <1>2, AppendProperties
<1>5. \A k : k \in 1 .. Len(queue') <=> k \in 1 .. Len(queue) \/ k = Len(queue) + 1
  BY <1>2, <1>4
<1>6. Pending(future', queue') = Pending(future, queue) \cup {Len(queue) + 1}
  BY <1>1, <1>2, <1>3, <1>4, <1>5 DEF Pending
<1>7. Line(future', queue') = Append(Line(future, queue), i)
  <2>1. Pending(future, queue) \subseteq 1 .. Len(queue)
    BY DEF Pending
  <2>2. AtPositions(Append(queue, i), Pending(future, queue) \cup {Len(queue) + 1})
          = Append(AtPositions(queue, Pending(future, queue)), i)
    BY <1>2, <2>1, LineGrows
  <2>3. Line(future', queue')
          = AtPositions(Append(queue, i), Pending(future, queue) \cup {Len(queue) + 1})
    BY <1>1, <1>6 DEF Line
  <2> QED  BY <2>2, <2>3 DEF Line
<1>8. Executing' = Executing
  BY <1>1 DEF Executing
<1> QED
  BY <1>1, <1>7, <1>8 DEF Seen, WQ!Enqueue

\* An item that is queued and pending is resolved where it is.
LEMMA WithdrawSeen ==
  ASSUME Seen, NEW i \in Items, future[i] = "pending", \A w \in Workers : holding[w] # i,
         future' = Settle(future, {i}, "cancelled"), UNCHANGED <<queue, holding>>
  PROVE  \E r \in 1 .. Len(LiveQueue) : WQ!Withdraw(r)
<1> USE ItemTypes
<1>0. TypeOK /\ ItemInv
  BY DEF Seen
<1>1. \A x \in Items : future'[x] = IF x = i THEN "cancelled" ELSE future[x]
  BY SettleValue
<1>2. PICK p \in 1 .. Len(queue) : queue[p] = i
  BY <1>0 DEF ItemInv, PendingPlaced
<1>3. /\ queue \in Seq(Items)
      /\ \A k \in 1 .. Len(queue) : queue[k] \in Items /\ (queue[k] = i => k = p)
  BY <1>0, <1>2 DEF ItemInv, QueueFresh
<1> DEFINE L == Pending(future, queue)
           s == Line(future, queue)
           r == Before(L, p) + 1
<1>4. L \subseteq 1 .. Len(queue) /\ p \in L
  BY <1>2 DEF Pending
<1>5. Pending(future', queue') = L \ {p}
  BY <1>1, <1>2, <1>3 DEF Pending
<1> HIDE DEF L
<1>6. /\ r \in 1 .. Len(s) /\ s[r] = i
      /\ Line(future', queue') = SubSeq(s, 1, r - 1) \o SubSeq(s, r + 1, Len(s))
  <2>1. Line(future', queue') = AtPositions(queue, L \ {p}) /\ s = AtPositions(queue, L)
    BY <1>5 DEF Line, L
  <2> HIDE DEF s
  <2>2. LET t == AtPositions(queue, L)
            n == Before(L, p) + 1
        IN  /\ n \in 1 .. Len(t) /\ t[n] = queue[p]
            /\ AtPositions(queue, L \ {p}) = SubSeq(t, 1, n - 1) \o SubSeq(t, n + 1, Len(t))
    BY <1>3, <1>4, LineShrinks
  <2> QED  BY <1>2, <2>1, <2>2
<1> HIDE DEF s, r
<1>7. future' = WQ!Close({i}, "cancelled")
  BY <1>1 DEF WQ!Close, Settle
<1>8. Executing' = Executing
  BY DEF Executing
<1>9. LiveQueue = s
  BY DEF Seen, s
<1> QED
  BY <1>6, <1>7, <1>8, <1>9 DEF Seen, WQ!Withdraw

\* Dead items are settled already.
LEMMA DeadStay ==
  ASSUME Seen, NEW w \in Workers, NEW f, LetsGo(w, f)
  PROVE  /\ LivePos(f, queue) = Pending(future, queue)
         /\ \A n \in 0 .. Len(queue) : Settle(f, DeadItems(f, queue, n), "cancelled") = f
<1> USE ItemTypes
<1>0. TypeOK /\ ItemInv
  BY DEF Seen
<1>1. ASSUME NEW k \in 1 .. Len(queue)
      PROVE  /\ queue[k] \in Items /\ f[queue[k]] = future[queue[k]]
             /\ future[queue[k]] = "pending" => queue[k] \notin cancelled
  <2>1. queue[k] \in Items /\ queue[k] # holding[w]
    BY <1>0 DEF ItemInv, QueueFresh, HoldersExecute
  <2> QED  BY <1>0, <2>1, QueuedUnflagged DEF LetsGo, Seen
<1>2. LivePos(f, queue) = Pending(future, queue)
  BY <1>1 DEF LivePos, Live, Pending
<1>3. ASSUME NEW n \in 0 .. Len(queue)
      PROVE  Settle(f, DeadItems(f, queue, n), "cancelled") = f
  <2>1. \A k \in (1 .. n) \ LivePos(f, queue) : f[queue[k]] # "pending"
    <3>1. \A k \in 1 .. n : k \in 1 .. Len(queue)
      BY <1>0
    <3> QED  BY <1>1, <1>2, <3>1 DEF Pending
  <2>2. \A x \in DeadItems(f, queue, n) : f[x] # "pending"
    BY <2>1 DEF DeadItems
  <2>3. f \in [Items -> FutureStates]
    BY DEF LetsGo
  <2> QED  BY <2>2, <2>3 DEF Settle
<1> QED
  BY <1>2, <1>3

\* What a runner executed, and closed with outcome o
Closed(w) == IF holding[w] = NoItem THEN {} ELSE {holding[w]}

\* A runner that lets its item go closes that item and no other.
LEMMA ClosedOnly ==
  ASSUME Seen, NEW w \in Workers, NEW f, LetsGo(w, f)
  PROVE  \E o \in {"result", "failed", "cancelled"} : f = WQ!Close(Closed(w), o)
<1> USE ItemTypes
<1>0. TypeOK /\ ItemInv /\ f \in [Items -> FutureStates] /\ future \in [Items -> FutureStates]
  BY DEF Seen, LetsGo
<1>1. CASE holding[w] = NoItem
  <2>1. \A x \in Items : f[x] = future[x]
    BY <1>0, <1>1 DEF LetsGo
  <2> QED  BY <1>0, <1>1, <2>1 DEF Closed, WQ!Close
<1>2. CASE holding[w] # NoItem
  <2>1. holding[w] \in Items
    BY <1>0, <1>2
  <2>2. f[holding[w]] \in {"result", "failed", "cancelled"}
    BY <1>0, <2>1 DEF LetsGo, FutureStates
  <2>3. \A x \in Items : x # holding[w] => f[x] = future[x]
    BY DEF LetsGo
  <2>4. f = WQ!Close(Closed(w), f[holding[w]])
    BY <1>0, <1>2, <2>1, <2>3 DEF Closed, WQ!Close
  <2> QED  BY <2>2, <2>4
<1> QED
  BY <1>1, <1>2

\* What a runner takes next replaces what it held.
LEMMA HeldNow ==
  ASSUME Seen, NEW w \in Workers, NEW i \in Items \cup {NoItem},
         holding' = [holding EXCEPT ![w] = i]
  PROVE  /\ Executing' = (Executing \ Closed(w)) \cup ({i} \ {NoItem})
         /\ Closed(w) \subseteq Executing
         /\ Cardinality(Executing') <= Capacity
<1> USE ItemTypes
<1>0. TypeOK /\ ItemInv /\ holding \in [Workers -> Items \cup {NoItem}]
  BY DEF Seen
<1>1. \A v \in Workers : holding'[v] = IF v = w THEN i ELSE holding[v]
  BY <1>0
<1>2. \A v \in Workers : v # w /\ holding[v] # NoItem => holding[v] # holding[w]
  BY <1>0 DEF ItemInv, HoldersExecute
<1>3. \A x : x \in Executing' <=>
        x # NoItem /\ (x = i \/ \E v \in Workers : v # w /\ holding[v] = x)
  BY <1>1 DEF Executing
<1>4. \A x : x \in Executing <=> x # NoItem /\ \E v \in Workers : holding[v] = x
  BY DEF Executing
<1>5. \A x : x \in Closed(w) <=> x # NoItem /\ x = holding[w]
  BY DEF Closed
<1>6. ASSUME NEW x
      PROVE  x \in Executing' <=> x \in (Executing \ Closed(w)) \cup ({i} \ {NoItem})
  BY <1>2, <1>3, <1>4, <1>5
<1>7. Executing' = (Executing \ Closed(w)) \cup ({i} \ {NoItem})
  BY <1>6
<1>8. Closed(w) \subseteq Executing
  BY <1>4, <1>5
<1>9. Cardinality(Executing') <= Capacity
  <2>1. holding' \in [Workers -> Items \cup {NoItem}]
    BY <1>0
  <2> QED  BY <2>1, ServersEnough DEF Executing
<1> QED
  BY <1>7, <1>8, <1>9

\* The runner finds nothing and sleeps, retires or is cancelled.
LEMMA FinishSeen ==
  ASSUME Seen, NEW w \in Workers, NEW f, LetsGo(w, f), future' = f,
         holding' = [holding EXCEPT ![w] = NoItem], LiveQueue' = LiveQueue
  PROVE  \/ \E i \in Executing, o \in {"result", "failed", "cancelled"} : WQ!Finish(i, o)
         \/ UNCHANGED WQvars
<1>1. PICK o \in {"result", "failed", "cancelled"} : f = WQ!Close(Closed(w), o)
  BY ClosedOnly
<1>2. Executing' = Executing \ Closed(w) /\ Closed(w) \subseteq Executing
  BY HeldNow
<1>3. CASE holding[w] = NoItem
  <2>1. \A x \in Items : f[x] = future[x]
    BY <1>3, ItemTypes DEF LetsGo, Seen
  <2>2. f = future
    BY <2>1, ItemTypes DEF LetsGo, Seen
  <2> QED  BY <1>2, <1>3, <2>2 DEF Closed, WQvars
<1>4. CASE holding[w] # NoItem
  <2>1. Closed(w) = {holding[w]}
    BY <1>4 DEF Closed
  <2>2. holding[w] \in Executing /\ WQ!Finish(holding[w], o)
    BY <1>1, <1>2, <2>1 DEF WQ!Finish
  <2> QED  BY <2>2
<1> QED
  BY <1>3, <1>4

\* _pop_live: the runner closes what it held and serves the head of the line.
LEMMA ServeSeen ==
  ASSUME Seen, NEW w \in Workers, NEW f, LetsGo(w, f), LivePos(f, queue) # {}, TakeOrWait(w, f)
  PROVE  \E o \in {"result", "failed", "cancelled"} :
           WQ!Serve({}, o) \/ \E i \in Executing : WQ!Serve({i}, o)
<1> USE ItemTypes
<1>0. TypeOK /\ ItemInv /\ queue \in Seq(Items) /\ Len(queue) \in Nat
  BY DEF Seen
<1>1. PICK k \in LivePos(f, queue) :
        /\ FirstLive(k, f, queue) /\ queue' = Behind(queue, k)
        /\ future' = Settle(f, DeadItems(f, queue, k), "cancelled")
        /\ holding' = [holding EXCEPT ![w] = queue[k]]
  BY DEF TakeOrWait, SetFutures
<1> DEFINE L == Pending(future, queue)
           s == Line(future, queue)
<1>2. LivePos(f, queue) = L /\ L \subseteq 1 .. Len(queue)
  BY DeadStay DEF Pending
<1>3. /\ k \in 1 .. Len(queue) /\ k \in 0 .. Len(queue) /\ queue[k] \in Items
      /\ k \in L /\ \A m \in L : k <= m
  BY <1>0, <1>1, <1>2 DEF FirstLive
<1>4. future' = f
  BY <1>1, <1>3, DeadStay
<1>5. /\ Len(queue') = Len(queue) - k
      /\ \A m \in 1 .. (Len(queue) - k) : queue'[m] = queue[m + k]
  BY <1>0, <1>1, <1>3 DEF Behind
<1>6. \A m : m \in Pending(future', queue') <=> m \in 1 .. (Len(queue) - k) /\ m + k \in L
  <2> SUFFICES ASSUME NEW m \in 1 .. (Len(queue) - k)
               PROVE  f[queue[m + k]] = "pending" <=> m + k \in L
    BY <1>4, <1>5 DEF Pending
  <2>1. m + k \in 1 .. Len(queue)
    BY <1>0, <1>3
  <2>2. m + k \in LivePos(f, queue) <=> Live(f, queue[m + k])
    BY <2>1 DEF LivePos
  <2>3. queue[m + k] \in Items /\ queue[m + k] # holding[w]
    BY <1>0, <2>1 DEF ItemInv, QueueFresh, HoldersExecute
  <2>4. f[queue[m + k]] = future[queue[m + k]]
    BY <2>3 DEF LetsGo
  <2> QED  BY <2>1, <2>4 DEF Pending
<1>7. s # <<>> /\ Head(s) = queue[k] /\ Line(future', queue') = Tail(s)
  <2> HIDE DEF L
  <2> QED  BY <1>0, <1>1, <1>2, <1>3, <1>6, LineMoves DEF Line, L
<1>8. /\ Executing' = (Executing \ Closed(w)) \cup {queue[k]}
      /\ Closed(w) \subseteq Executing /\ Cardinality(Executing') <= Capacity
  BY ZenonT(30), <1>0, <1>1, <1>3, HeldNow
<1>9. PICK o \in {"result", "failed", "cancelled"} : f = WQ!Close(Closed(w), o)
  BY ClosedOnly
<1> HIDE DEF s
<1>10. WQ!Serve(Closed(w), o)
  <2>1. LiveQueue = s /\ LiveQueue' = Tail(s)
    BY <1>7 DEF Seen, s
  <2>2. WQ!Cardinality(Executing') = Cardinality(Executing')
    BY DEF WQ!Cardinality, Cardinality
  <2> QED  BY <1>4, <1>7, <1>8, <1>9, <2>1, <2>2 DEF WQ!Serve
<1>11. Closed(w) = {} \/ \E i \in Executing : Closed(w) = {i}
  BY <1>8 DEF Closed
<1> QED
  BY <1>10, <1>11

\* The runner finds nothing live: the line is empty, before and after.
LEMMA NobodyWaits ==
  ASSUME Seen, NEW w \in Workers, NEW f, LetsGo(w, f), LivePos(f, queue) = {}, queue' = <<>>,
         SetFutures(Settle(f, DeadItems(f, queue, Len(queue)), "cancelled"))
  PROVE  future' = f /\ LiveQueue' = LiveQueue
<1>1. Len(queue) \in 0 .. Len(queue)
  BY ItemTypes DEF Seen
<1>2. future' = f /\ Pending(future, queue) = {}
  BY <1>1, DeadStay DEF SetFutures
<1>3. Pending(future', queue') = {}
  <2>1. Len(<<>>) = 0 /\ 1 .. 0 = {}
    OBVIOUS
  <2> QED  BY <2>1 DEF Pending
<1> QED
  BY <1>2, <1>3, NobodyInLine DEF Seen, Line

\* The tail of _runner: it serves the head of the line, or sleeps.
LEMMA TakingSeen ==
  ASSUME Seen, NEW w \in Workers, NEW f, LetsGo(w, f), TakeOrWait(w, f)
  PROVE  WQ!WNext \/ UNCHANGED WQvars
<1>1. CASE LivePos(f, queue) = {}
  <2>1. /\ queue' = <<>> /\ holding' = [holding EXCEPT ![w] = NoItem]
        /\ SetFutures(Settle(f, DeadItems(f, queue, Len(queue)), "cancelled"))
    BY <1>1 DEF TakeOrWait
  <2> QED  BY <1>1, <2>1, NobodyWaits, FinishSeen DEF WQ!WNext, WQ!Closings
<1>2. CASE LivePos(f, queue) # {}
  BY <1>2, ServeSeen DEF WQ!WNext, WQ!Closings
<1> QED
  BY <1>1, <1>2

\* stop() with its runners gone closes everybody in the line.
LEMMA FlushSeen ==
  ASSUME Seen, Active = {}, Flush, UNCHANGED holding
  PROVE  WQ!Shutdown
<1> USE ItemTypes
<1>0. TypeOK /\ ItemInv
  BY DEF Seen
<1>1. queue' = <<>> /\ future' = Settle(future, {queue[k] : k \in 1 .. Len(queue)}, "cancelled")
  BY DEF Flush, SetFutures
<1>2. Executing = {} /\ Executing' = {}
  <2>1. \A w \in Workers : holding[w] = NoItem
    BY <1>0 DEF ItemInv, HoldersExecute, Active, Executes
  <2> QED  BY <2>1 DEF Executing
<1>3. LiveQueue' = <<>>
  <2>1. Len(<<>>) = 0 /\ 1 .. 0 = {}
    OBVIOUS
  <2>2. Pending(future', queue') = {}
    BY <1>1, <2>1 DEF Pending
  <2> QED  BY <2>2, NobodyInLine DEF Seen, Line
<1>4. WQ!InLine = {queue[k] : k \in Pending(future, queue)}
  <2>1. queue \in Seq(Items) /\ Pending(future, queue) \subseteq 1 .. Len(queue)
    BY <1>0 DEF Pending
  <2> QED  BY <2>1, InLineAre DEF WQ!InLine, Seen, Line
<1>5. \A i \in Items : i \in WQ!InLine <=>
        i \in {queue[k] : k \in 1 .. Len(queue)} /\ future[i] = "pending"
  BY <1>4 DEF Pending
<1>6. future' = WQ!Close(WQ!InLine, "cancelled")
  BY <1>1, <1>5 DEF WQ!Close, Settle
<1> QED
  BY <1>2, <1>3, <1>6 DEF WQ!Shutdown

\* An item is flagged once it was made, and when it was not begun it is closed.
LEMMA FlaggedKept ==
  ASSUME TypeOK, ItemInv, FlaggedFit, TypeOK', [Next]_vars
  PROVE  FlaggedFit'
<1> USE ItemTypes
<1>0. /\ cancelled \subseteq Items /\ \A i \in Items : attempts[i] \in Nat /\ attempts'[i] \in Nat
  BY DEF TypeOK
<1>1. ASSUME UNCHANGED cancelled, \A i \in Items : attempts'[i] >= attempts[i],
             \A i \in Items : future[i] # "none" =>
               future'[i] # "none" /\ (future'[i] = "pending" => future[i] = "pending")
      PROVE  FlaggedFit'
  BY <1>0, <1>1 DEF FlaggedFit
<1>2. ASSUME UNCHANGED <<cancelled, attempts>>, NEW S, SetFutures(Settle(future, S, "cancelled"))
      PROVE  FlaggedFit'
  <2>1. \A i \in Items : future'[i] \in {future[i], "cancelled"}
    BY <1>2, SettleValue DEF SetFutures
  <2> QED  BY <1>0, <1>1, <1>2, <2>1
<1>3. ASSUME NEW i \in Items, MakeItem(i) PROVE FlaggedFit'
  BY <1>0, <1>1, <1>3 DEF MakeItem, ReachesStep
<1>4. ASSUME NEW i \in Items, CancelItem(i) PROVE FlaggedFit'
  <2>1. /\ future[i] = "pending" /\ cancelled' = cancelled \cup {i} /\ UNCHANGED attempts
    BY <1>4 DEF CancelItem
  <2>2. CASE attempts[i] = 0
    <3>1. \A x \in Items : future'[x] = IF x = i THEN "cancelled" ELSE future[x]
      BY <1>4, <2>1, <2>2, SettleValue DEF CancelItem, SetFutures
    <3> QED  BY <1>0, <2>1, <3>1 DEF FlaggedFit
  <2>3. CASE attempts[i] # 0
    <3>1. UNCHANGED future
      BY <1>4, <2>3 DEF CancelItem
    <3> QED  BY <1>0, <2>1, <2>3, <3>1 DEF FlaggedFit
  <2> QED  BY <2>2, <2>3
<1>5. CASE StopNoRunners \/ StopFlush \/ \E i \in Items : AbandonItem(i)
  <2>1. UNCHANGED <<cancelled, attempts>> /\ \E S : SetFutures(Settle(future, S, "cancelled"))
    BY <1>5 DEF StopNoRunners, StopFlush, Flush, AbandonItem
  <2> QED  BY <1>2, <2>1
<1>6. CASE \E w \in Workers : Retire(w) \/ CancelRunner(w)
  <2>1. UNCHANGED <<cancelled, attempts>> /\ \E S : SetFutures(Settle(future, S, "cancelled"))
    BY <1>6 DEF Retire, CancelRunner
  <2> QED  BY <1>2, <2>1
<1>7. ASSUME NEW w \in Workers, BackoffDone(w) PROVE FlaggedFit'
  <2>1. /\ UNCHANGED <<cancelled, future>> /\ attempts' = [attempts EXCEPT ![holding[w]] = @ + 1]
    BY <1>7 DEF BackoffDone
  <2> QED  BY <1>0, <1>1, <2>1
<1>8. ASSUME NEW w \in Workers, WarmDone(w) \/ Wake(w) \/ \E o \in Outcomes : AttemptSettles(w, o)
      PROVE  FlaggedFit'
  <2>1. UNCHANGED cancelled
    BY <1>8 DEF WarmDone, Wake, AttemptSettles
  <2>2. PICK f : LetsGo(w, f) /\ TakeOrWait(w, f)
    BY <1>8, RunnerLetsGo
  <2>3. \E S : future' = Settle(f, S, "cancelled")
    BY <2>2 DEF TakeOrWait, SetFutures
  <2>4. \A i \in Items : future'[i] = f[i] \/ future'[i] = "cancelled"
    BY <2>3, SettleValue
  <2>5. \A i \in Items : attempts'[i] >= attempts[i]
    <3>1. CASE LivePos(f, queue) = {}
      BY <1>0, <2>2, <3>1 DEF TakeOrWait
    <3>2. CASE LivePos(f, queue) # {}
      <4>1. PICK k \in LivePos(f, queue) : attempts' = [attempts EXCEPT ![queue[k]] = @ + 1]
        BY <2>2, <3>2 DEF TakeOrWait
      <4> QED  BY <1>0, <4>1
    <3> QED  BY <3>1, <3>2
  <2> QED  BY <1>1, <2>1, <2>2, <2>4, <2>5 DEF LetsGo
<1>9. CASE \/ UNCHANGED vars
           \/ Start \/ RunnerStart \/ RunnerExhausted \/ OnRunnerDone \/ StopBegin
           \/ CancelSpawned \/ LeaseOutside \/ ReleaseOutside
           \/ \E j \in Jobs : (\E n \in 0 .. MaxSteps : Admit(j, n)) \/ FinalizeJob(j)
           \/ \E i \in Items : ReleaseCallback(i)
           \/ \E w \in Workers : ExpireTTL(w) \/ AttemptFails(w)
  <2>1. UNCHANGED <<future, cancelled, attempts>>
    BY <1>9 DEF vars, Start, RunnerStart, RunnerExhausted, OnRunnerDone, StopBegin, CancelSpawned,
         LeaseOutside, ReleaseOutside, Admit, FinalizeJob, ReleaseCallback, ExpireTTL,
         AttemptFails, itemVars
  <2> QED  BY <1>0, <1>1, <2>1
<1> QED
  BY <1>3, <1>4, <1>5, <1>6, <1>7, <1>8, <1>9 DEF Next

\* Every step of the scheduler is one of the line, or nothing to it.
LEMMA StepSeen ==
  ASSUME Seen, [Next]_vars
  PROVE  WQ!WNext \/ UNCHANGED WQvars
<1> USE ItemTypes
<1>0. TypeOK /\ ItemInv /\ Quiet
  BY DEF Seen
<1>1. ASSUME NEW i \in Items, MakeItem(i) PROVE WQ!WNext
  BY <1>1, EnqueueSeen DEF WQ!WNext
<1>2. ASSUME NEW i \in Items, CancelItem(i) PROVE WQ!WNext \/ UNCHANGED WQvars
  <2>1. UNCHANGED <<queue, holding>> /\ future[i] = "pending"
    BY <1>2 DEF CancelItem, runnerVars
  <2>2. CASE attempts[i] = 0
    <3>1. future' = Settle(future, {i}, "cancelled")
      BY <1>2, <2>2 DEF CancelItem, SetFutures
    <3>2. \A w \in Workers : holding[w] # i
      BY <1>0, <2>2 DEF ItemInv, HoldersExecute
    <3> QED  BY <2>1, <3>1, <3>2, WithdrawSeen DEF WQ!WNext
  <2>3. CASE attempts[i] # 0
    <3>1. UNCHANGED future
      BY <1>2, <2>3 DEF CancelItem
    <3> QED  BY <2>1, <3>1, NothingSeen
  <2> QED  BY <2>2, <2>3
<1>3. ASSUME NEW i \in Items, AbandonItem(i) PROVE WQ!WNext
  <2>1. /\ UNCHANGED <<queue, holding>> /\ future[i] = "pending" /\ Active = {}
        /\ future' = Settle(future, {i}, "cancelled")
    BY <1>0, <1>3 DEF AbandonItem, runnerVars, SetFutures, Quiet, NoRunners
  <2>2. \A w \in Workers : holding[w] # i
    BY <1>0, <2>1 DEF Active, ItemInv, HoldersExecute, Executes
  <2> QED  BY <2>1, <2>2, WithdrawSeen DEF WQ!WNext
<1>4. ASSUME NEW w \in Workers, WarmDone(w) \/ Wake(w) \/ \E o \in Outcomes : AttemptSettles(w, o)
      PROVE  WQ!WNext \/ UNCHANGED WQvars
  BY <1>0, <1>4, RunnerLetsGo, TakingSeen
<1>5. ASSUME NEW w \in Workers, Retire(w) PROVE WQ!WNext \/ UNCHANGED WQvars
  BY <1>0, <1>5, RetireLetsGo, NobodyWaits, FinishSeen DEF WQ!WNext, WQ!Closings
<1>6. ASSUME NEW w \in Workers, CancelRunner(w) PROVE WQ!WNext \/ UNCHANGED WQvars
  <2>1. /\ future' = Settle(future, {holding[w]}, "cancelled") /\ UNCHANGED queue
        /\ holding' = [holding EXCEPT ![w] = NoItem]
    BY <1>6 DEF CancelRunner, SetFutures
  <2>2. \A x \in Items : future'[x] = IF x = holding[w] THEN "cancelled" ELSE future[x]
    BY <1>0, <2>1, SettleValue DEF ItemInv, HoldersExecute
  <2>3. LetsGo(w, future')
    <3>1. future' \in [Items -> FutureStates]
      BY <1>0, <2>1, SettleType DEF FutureStates
    <3> QED  BY <2>2, <3>1 DEF LetsGo
  <2>4. Pending(future', queue') = Pending(future, queue)
    <3>1. \A k \in 1 .. Len(queue) : queue[k] \in Items /\ queue[k] # holding[w]
      BY <1>0 DEF ItemInv, QueueFresh, HoldersExecute
    <3> QED  BY <2>1, <2>2, <3>1 DEF Pending
  <2>5. LiveQueue' = LiveQueue
    BY <2>1, <2>4 DEF Seen, Line
  <2> QED  BY <2>1, <2>3, <2>5, FinishSeen DEF WQ!WNext, WQ!Closings
<1>7. CASE StopNoRunners \/ StopFlush
  <2>1. Active = {} /\ Flush /\ UNCHANGED holding
    BY <1>7 DEF StopNoRunners, StopFlush, NoRunners, runnerVars
  <2> QED  BY <2>1, FlushSeen DEF WQ!WNext
<1>8. CASE \/ UNCHANGED vars
           \/ Start \/ RunnerStart \/ RunnerExhausted \/ OnRunnerDone \/ StopBegin
           \/ CancelSpawned \/ LeaseOutside \/ ReleaseOutside
           \/ \E j \in Jobs : (\E n \in 0 .. MaxSteps : Admit(j, n)) \/ FinalizeJob(j)
           \/ \E i \in Items : ReleaseCallback(i)
           \/ \E w \in Workers : ExpireTTL(w) \/ AttemptFails(w) \/ BackoffDone(w)
  <2>1. UNCHANGED <<queue, future, holding>>
    BY <1>8 DEF vars, Start, RunnerStart, RunnerExhausted, OnRunnerDone, StopBegin, CancelSpawned,
         LeaseOutside, ReleaseOutside, Admit, FinalizeJob, ReleaseCallback, ExpireTTL,
         AttemptFails, BackoffDone, itemVars, runnerVars
  <2> QED  BY <2>1, NothingSeen
<1> QED
  BY <1>1, <1>2, <1>3, <1>4, <1>5, <1>6, <1>7, <1>8 DEF Next

\* Nothing is queued, executed or made at the start.
LEMMA InitSeen == Init => WQ!WInit /\ FlaggedFit
<1> SUFFICES ASSUME Init PROVE WQ!WInit /\ FlaggedFit
  OBVIOUS
<1>1. LivePos(future, queue) = {}
  <2>1. Len(<<>>) = 0 /\ 1 .. 0 = {}
    OBVIOUS
  <2> QED  BY <2>1 DEF Init, LivePos
<1>2. LiveQueue = <<>>
  BY <1>1, NobodyInLine DEF LiveQueue
<1>3. Executing = {}
  BY DEF Init, Executing
<1> QED
  BY <1>2, <1>3 DEF Init, WQ!WInit, FlaggedFit

(* Whatever runners, timeouts, retries, cancels and stop() do, a job sees a   *)
(* FIFO line with at most Capacity items executing, and each future settled   *)
(* once: a step of the scheduler is a step of the line or invisible to it.    *)
THEOREM WorkQueueKept == Spec => ImplementsWorkQueue
<1>1. Init => FlaggedFit /\ WQ!WInit
  BY InitSeen
<1>2. TypeOK /\ ItemInv /\ FlaggedFit /\ TypeOK' /\ [Next]_vars => FlaggedFit'
  BY FlaggedKept
<1>3. /\ TypeOK /\ ItemInv /\ Quiet /\ FlaggedFit
      /\ TypeOK' /\ ItemInv' /\ FlaggedFit' /\ [Next]_vars
      => [WQ!WNext]_(WQ!wvars)
  <2> SUFFICES ASSUME TypeOK, ItemInv, Quiet, FlaggedFit,
                      TypeOK', ItemInv', FlaggedFit', [Next]_vars
               PROVE  WQ!WNext \/ UNCHANGED WQvars
    BY DEF WQvars, WQ!wvars
  <2>1. Seen
    BY LineIs, LineWillBe DEF Seen
  <2> QED  BY <2>1, StepSeen
<1> QED
  BY <1>1, <1>2, <1>3, TypeCorrect, ItemInvariance, PTL DEF Spec, ImplementsWorkQueue, WQ!WSpec

===============================================================================
