--------------------------- MODULE WarmPoolPolicy ---------------------------
(* The autoscaling policies of service/scheduler.py: how many workers should  *)
(* be warm right now.  A policy is pure; the scheduler caps its answer.       *)
EXTENDS Naturals

CONSTANTS
  Policy,       \* "adaptive" (AdaptivePolicy) or "always" (AlwaysWarmN)
  MinWarm,      \* min_warm of AdaptivePolicy, n of AlwaysWarmN
  TargetDrain   \* target_drain_s of AdaptivePolicy

ASSUME PolicyAssumption ==
  /\ Policy \in {"adaptive", "always"}
  /\ MinWarm \in Nat
  /\ TargetDrain \in Nat \ {0}

Larger(a, b)  == IF a >= b THEN a ELSE b
Smaller(a, b) == IF a <= b THEN a ELSE b

\* math.ceil(n / d)
CeilDiv(n, d) == (n + d - 1) \div d

\* AdaptivePolicy.decide and AlwaysWarmN.decide
Decide(queueDepth, busy, avg) ==
  IF Policy = "always"
  THEN MinWarm
  ELSE Larger(Larger(CeilDiv(queueDepth * avg, TargetDrain), busy), MinWarm)

\* AlwaysWarmN has idle_ttl_s = math.inf: its runners never look at the clock
FiniteTTL == Policy = "adaptive"

=============================================================================
