\* stop() cancels a runner before its first step
CONSTANTS
  j1 = j1
  j2 = j2
  j3 = j3
  NoItem = NoItem
  Jobs = {j1, j2}
  MaxSteps = 1
  Capacity = 2
  MaxBacklog = 3
  MaxAttempts = 2
  Policy = "adaptive"
  MinWarm = 0
  TargetDrain = 2
  AvgValues <- Long
  ForeignLeases = 0
  MaxStarts = 1
SYMMETRY JobSymmetry
SPECIFICATION Spec
INVARIANTS
  NoSlotDrift
\* no job left and the scheduler stopped: nothing more happens
CHECK_DEADLOCK FALSE
