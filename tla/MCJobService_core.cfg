\* Two submissions of chains that share their steps, with retries, failures, cancels and a stop at any moment, under AlwaysWarmN; the memo has room for two of the three steps
CONSTANTS
  j1 = j1
  j2 = j2
  NoItem = NoItem
  NoRequest = NoRequest
  NoJob = NoJob
  Jobs = {j1, j2}
  MaxSteps = 2
  Capacity = 1
  MaxBacklog = 3
  MaxAttempts = 2
  Policy = "always"
  MinWarm = 1
  TargetDrain = 2
  AvgValues <- Long
  ForeignLeases = 0
  MaxStarts = 1
  Requests <- Submissions
  Steps <- Registry
  InputModels <- Inputs
  OutputModel <- Outputs
  ResourceClass <- Classes
  Presets <- PresetChains
  MemoCap = 2
SYMMETRY JobSymmetry
SPECIFICATION ServiceSpec
INVARIANTS
  ServiceTypeOK
  OneLiveJobPerKey
  TaskEndsTerminal
  TerminalJobClosed
  NoOrphanItems
  ReservationLasts
  InputsReady
  StopLeavesNothing
PROPERTIES
  ImplementsJobContract
\* every job over and the service stopped: nothing more happens
CHECK_DEADLOCK FALSE
