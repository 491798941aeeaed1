------------------------------- MODULE PoolUse -------------------------------
(* The two users of a pool, one of which it has to itself: the scheduler's    *)
(* runners (Attempts) or the harness's naive baseline (Baseline).             *)
EXTENDS Attempts, Baseline

VARIABLE user   \* whose pool this is

Init ==
  /\ PoolInit /\ AttemptsInit /\ BaselineInit
  /\ user \in {"service", "naive"}

Next ==
  /\ \/ user = "service" /\ AttemptsNext /\ UNCHANGED bvars
     \/ user = "naive" /\ BaselineNext /\ UNCHANGED avars
  /\ UNCHANGED user

Spec == Init /\ [][Next]_<<pvars, avars, bvars, user>>

-----------------------------------------------------------------------------
(* Properties                                                                 *)

\* The trace of the service's jobs adds up against the bill of its pool.
TraceWithinBill == user = "service" => AttributedWithinBill

=============================================================================
