\* Three one-step jobs on two workers with retries, a warm floor of one worker, started and stopped once
CONSTANTS
  j1 = j1
  j2 = j2
  j3 = j3
  NoItem = NoItem
  Jobs = {j1, j2, j3}
  MaxSteps = 1
  Capacity = 2
  MaxBacklog = 3
  MaxAttempts = 2
  Policy = "adaptive"
  MinWarm = 1
  TargetDrain = 2
  AvgValues <- Long
  ForeignLeases = 0
  MaxStarts = 1
SYMMETRY JobSymmetry
SPECIFICATION Spec
INVARIANTS
  TypeOK
  RunnersFitPool
  PoolNeverExhausted
  NoLostWakeup
  OneRunnerPerItem
  PendingIsSomewhere
PROPERTIES
  ScaleDownIsLazy
\* no job left and the scheduler stopped: nothing more happens
CHECK_DEADLOCK FALSE
