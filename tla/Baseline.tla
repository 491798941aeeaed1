------------------------------ MODULE Baseline ------------------------------
(* run_naive of service/harness.py: the kit used with no service layer.  Each *)
(* request is a task that runs its chain: CPU steps inline, GPU steps on a    *)
(* worker it leases, warms, runs on and cools for that step alone.  There is  *)
(* one attempt per step; a full pool or a failed step ends the request.       *)
EXTENDS GpuPool, SequencesExt

CONSTANT Chains   \* chains of the workload, as the resource class of each step

\* In every chain the CPU steps come first, and there are some.
ASSUME ChainsAssumption ==
  \A c \in Chains : /\ c \in Seq({"cpu", "gpu"}) /\ c # <<>> /\ Head(c) = "cpu"
                     /\ \A n \in 2 .. Len(c) : c[n] = "cpu" => c[n - 1] = "cpu"

VARIABLES
  chain,     \* request.chain, once it has arrived
  at,        \* the step each request is at (0: it has not arrived)
  verdict,   \* how its handle() ended
  counts     \* succeeded, failed, shed, cold_starts

bvars == <<chain, at, verdict, counts>>

BaselineInit ==
  /\ chain = [t \in Tasks |-> <<>>]
  /\ at = [t \in Tasks |-> 0]
  /\ verdict = [t \in Tasks |-> "none"]
  /\ counts = [succeeded |-> 0, failed |-> 0, shed |-> 0, cold_starts |-> 0]

\* handle() ends with verdict v.
Ends(t, v) ==
  /\ verdict' = [verdict EXCEPT ![t] = v]
  /\ counts' = [counts EXCEPT ![v] = @ + 1]

NextIs(t, class) == at[t] < Len(chain[t]) /\ chain[t][at[t] + 1] = class
Advances(t)      == at' = [at EXCEPT ![t] = @ + 1] /\ UNCHANGED chain

\* The cold start of worker w of the pool ws is counted before it is awaited.
CountsLease(ws, w) ==
  /\ counts' = IF ws[w].state = "cold" THEN [counts EXCEPT !.cold_starts = @ + 1] ELSE counts
  /\ UNCHANGED verdict

\* The driver starts a request's task; arrivals are at any time.
Arrives(t) ==
  /\ at[t] = 0
  /\ \E c \in Chains : chain' = [chain EXCEPT ![t] = c]
  /\ at' = [at EXCEPT ![t] = 1]
  /\ UNCHANGED <<pvars, verdict, counts>>

\* A CPU step ends, and the task goes on to what follows in the same turn.
CpuStepEnds(t) ==
  /\ at[t] > 0 /\ verdict[t] = "none" /\ doing[t] = "out"
  /\ \/ Ends(t, "failed") /\ UNCHANGED <<pvars, chain, at>>
     \/ at[t] = Len(chain[t]) /\ Ends(t, "succeeded") /\ UNCHANGED <<pvars, chain, at>>
     \/ NextIs(t, "cpu") /\ Advances(t) /\ UNCHANGED <<pvars, verdict, counts>>
     \/ NextIs(t, "gpu") /\ Enter(t) /\ Advances(t) /\ CountsLease(workers, FirstOf(Free))
     \/ NextIs(t, "gpu") /\ Free = {} /\ Advances(t) /\ Ends(t, "shed") /\ UNCHANGED pvars

\* warm() returns and the step runs.
RequestWarm(t) == WarmRuns(t) /\ UNCHANGED bvars

(* A GPU step ends.  The worker is cooled and released on every path; a GPU   *)
(* step that follows leases one in the same turn.                             *)
GpuStepEnds(t) ==
  /\ doing[t] = "running"
  /\ \/ Leave(t) /\ Ends(t, "failed") /\ UNCHANGED <<chain, at>>
     \/ at[t] = Len(chain[t]) /\ Leave(t) /\ Ends(t, "succeeded") /\ UNCHANGED <<chain, at>>
     \/ /\ NextIs(t, "gpu") /\ Relet(t) /\ Advances(t)
        /\ CountsLease(LetGoBy(t), FirstOf(Free \cup {on[t]}))

BaselineNext ==
  \/ Tick /\ UNCHANGED bvars
  \/ \E t \in Tasks : Arrives(t) \/ CpuStepEnds(t) \/ RequestWarm(t) \/ GpuStepEnds(t)

BaselineSpec == PoolInit /\ BaselineInit /\ [][BaselineNext]_<<pvars, bvars>>

-----------------------------------------------------------------------------
(* Properties                                                                 *)

(* What the row of the baseline reports is what happened: each request is     *)
(* counted once, every GPU step that got a worker paid a cold start of its    *)
(* own, and when no request is left no worker is warm (the post-condition of  *)
(* run_naive).  A request is never shed between two GPU steps: nobody can     *)
(* take the worker it has just released.                                      *)
BaselineIsHonest ==
  LET Of(v) == {t \in Tasks : verdict[t] = v}
      GpuStepsOf(t) == {n \in 1 .. at[t] : chain[t][n] = "gpu"}
  IN  /\ \A v \in {"succeeded", "failed", "shed"} : counts[v] = Cardinality(Of(v))
      /\ counts.cold_starts + counts.shed =
           Cardinality(UNION {{t} \X GpuStepsOf(t) : t \in Tasks})
      /\ (\A t \in Tasks : verdict[t] # "none") => WarmCount = 0
      /\ \A t \in Of("shed") : chain[t][at[t] - 1] = "cpu"

=============================================================================
