\* A resubmission of a job whose cancel was accepted
CONSTANTS
  j1 = j1
  j2 = j2
  NoItem = NoItem
  NoRequest = NoRequest
  NoJob = NoJob
  Jobs = {j1, j2}
  MaxSteps = 2
  Capacity = 1
  MaxBacklog = 3
  MaxAttempts = 1
  Policy = "adaptive"
  MinWarm = 0
  TargetDrain = 2
  AvgValues <- Long
  ForeignLeases = 0
  MaxStarts = 1
  Requests <- Submissions
  Steps <- Registry
  InputModels <- Inputs
  OutputModel <- Outputs
  ResourceClass <- Classes
  Presets <- PresetChains
  MemoCap = 2
SYMMETRY JobSymmetry
SPECIFICATION ServiceSpec
INVARIANTS
  CancelFreesKey
\* every job over and the service stopped: nothing more happens
CHECK_DEADLOCK FALSE
