\* Two runners or two requests on a pool of two workers; two items execute the same step on the same input
CONSTANTS
  t1 = t1
  t2 = t2
  e1 = e1
  e2 = e2
  views = views
  NoTime = NoTime
  NoExecution = NoExecution
  Tasks = {t1, t2}
  Capacity = 2
  ColdStarts <- Delays
  MaxTime = 3
  MaxAttempts = 2
  Executions = {e1, e2}
  StepInputs = {views}
  Failures = {"transient"}
  BackoffBase = 1
  BackoffFactor = 2
  BackoffCap = 2
  Chains <- KitChains
SYMMETRY Interchangeable
SPECIFICATION Spec
INVARIANTS
  PoolTypeOK
  BillIsWarmTime
  LeaseClosesBill
  RunNeverRaises
  FreshDraws
  TraceWithinBill
  BaselineIsHonest
PROPERTIES
  ColdStartPaid
\* The clock is bounded, and runners that were stopped do not come back.
CHECK_DEADLOCK FALSE
