------------------------ MODULE GpuSchedulerRefinement ------------------------
(* GpuScheduler implements WorkQueue: seen through the futures, the line is   *)
(* the live part of the queue, the items served are those runners hold.       *)
EXTENDS GpuScheduler

\* How many positions of L are before k
Before(L, k) == Cardinality({x \in L : x < k})

\* What is at positions L of q, in order
AtPositions(q, L) == [m \in 1 .. Cardinality(L) |-> q[CHOOSE k \in L : Before(L, k) = m - 1]]

LiveQueue == AtPositions(queue, LivePos(future, queue))
Executing == {holding[w] : w \in Workers} \ {NoItem}

WQ == INSTANCE WorkQueue WITH line <- LiveQueue, serving <- Executing, outcome <- future

(* Whatever runners, timeouts, retries, cancels and stop() do, a job sees a   *)
(* FIFO line with at most Capacity items executing, and each future settled   *)
(* once: a step of the scheduler is a step of the line or invisible to it.    *)
ImplementsWorkQueue == WQ!WSpec

===============================================================================
