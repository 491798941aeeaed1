------------------------------ MODULE RetryLoop ------------------------------
(* run_with_retries of service/retry.py, as the decision it takes when an     *)
(* attempt has ended.  The loop itself is spread over the actions of whoever  *)
(* runs it: begin an attempt, end an attempt, sleep the backoff.              *)
EXTENDS Naturals

CONSTANT MaxAttempts   \* RetryPolicy.max_attempts

ASSUME RetryAssumption == MaxAttempts \in Nat \ {0}

Outcomes == {"ok", "transient", "permanent"}

\* Mutant: a cancel that comes in a later backoff is not noticed after the next attempt.
AfterAttempt_AbortOnce(o, n, abort) ==
  IF o = "transient"
  THEN IF n >= MaxAttempts THEN "failed"      \* RetryExhaustedError
       ELSE IF abort /\ n = 1 THEN "cancelled" ELSE "backoff"
  ELSE IF o = "ok" THEN "result" ELSE "failed"

(* What the loop does after an attempt ended with outcome o as the n-th one,  *)
(* abort being what should_abort() answers at that moment.  It is consulted   *)
(* only here, before the backoff sleep, and not when the sleep is over.       *)
AfterAttempt(o, n, abort) ==
  IF o = "transient"
  THEN IF n >= MaxAttempts THEN "failed"      \* RetryExhaustedError
       ELSE IF abort THEN "cancelled" ELSE "backoff"
  ELSE IF o = "ok" THEN "result" ELSE "failed"

==============================================================================
