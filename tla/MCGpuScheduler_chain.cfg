\* Two jobs of up to two GPU steps on two workers of a pool another holder uses too, a backlog of three, two starts
CONSTANTS
  j1 = j1
  j2 = j2
  j3 = j3
  NoItem = NoItem
  Jobs = {j1, j2}
  MaxSteps = 2
  Capacity = 2
  MaxBacklog = 3
  MaxAttempts = 1
  Policy = "adaptive"
  MinWarm = 0
  TargetDrain = 2
  AvgValues <- Long
  ForeignLeases = 1
  MaxStarts = 2
SYMMETRY JobSymmetry
SPECIFICATION Spec
INVARIANTS
  AdmissionBalanced
  SlotsAreRunners
  TargetMet
PROPERTIES
  ImplementsWorkQueue
\* no job left and the scheduler stopped: nothing more happens
CHECK_DEADLOCK FALSE
