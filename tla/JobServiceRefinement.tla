------------------------- MODULE JobServiceRefinement -------------------------
(* JobService keeps the contract of JobContract: a job has done the steps that*)
(* are recorded as succeeded, and is at the step its task executes or awaits. *)
EXTENDS JobService

OfferOf(q) == [key |-> q.key, length |-> Len(q.chain)]

\* What each job was submitted for
OfferOfJob == [j \in Jobs |-> IF Untouched(j) THEN NoRequest ELSE OfferOf(request[j])]

\* The newest job of each key somebody may submit with
NewestJob == [k \in {q.key : q \in JobRequests} |-> byKey[k]]

\* The records that say succeeded
DoneIn(sr) == Cardinality({n \in 1 .. Len(sr) : sr[n].state = "succeeded"})

StepsDone == [j \in Jobs |-> DoneIn(steps[j])]

\* The step the job's task executes or awaits
StepUnderWay == [j \in Jobs |-> IF task[j] \in {"cpu", "cpuBackoff", "gpu"} THEN at[j] ELSE 0]

\* All that stop() does before it returns is one thing to a client.
ServicePhase == IF phase \in {"down", "up"} THEN phase ELSE "closing"

Contract ==
  INSTANCE JobContract WITH
    Offers   <- {OfferOf(q) : q \in JobRequests},
    NoOffer  <- NoRequest,
    offer    <- OfferOfJob,
    newest   <- NewestJob,
    status   <- state,
    progress <- StepsDone,
    step     <- StepUnderWay,
    asked    <- cancelRequested,
    service  <- ServicePhase

(* Whatever the runners, retries, memoized outputs, cancels and stop() do, in *)
(* whatever order, a job goes through its chain as the contract says: steps   *)
(* in order, none after a cancel ("the job stops before its next step"), one  *)
(* ending that is final, and a success only when every step has succeeded.    *)
ImplementsJobContract == Contract!CSpec

=============================================================================
