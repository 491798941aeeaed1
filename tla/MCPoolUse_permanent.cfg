\* The same step on the same input is executed for two jobs, the first of which fails
CONSTANTS
  t1 = t1
  t2 = t2
  e1 = e1
  e2 = e2
  views = views
  NoTime = NoTime
  NoExecution = NoExecution
  Tasks = {t1}
  Capacity = 1
  ColdStarts = {1}
  MaxTime = 3
  MaxAttempts = 2
  Executions = {e1, e2}
  StepInputs = {views}
  Failures = {"transient", "permanent"}
  BackoffBase = 1
  BackoffFactor = 2
  BackoffCap = 2
  Chains <- KitChains
SPECIFICATION Spec
INVARIANT PermanentIsFinal
CHECK_DEADLOCK FALSE
