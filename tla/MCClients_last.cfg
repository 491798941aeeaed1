\* The last event of a stream
CONSTANTS
  j1 = j1
  j2 = j2
  NoItem = NoItem
  NoRequest = NoRequest
  NoJob = NoJob
  Jobs = {j1}
  Watched = j1
  Goal <- Multiview
  MaxSteps = 1
  Capacity = 1
  MaxBacklog = 1
  MaxAttempts = 2
  Policy = "adaptive"
  MinWarm = 0
  TargetDrain = 2
  AvgValues <- Long
  ForeignLeases = 0
  MaxStarts = 1
  Requests <- Goals
  Steps <- Registry
  InputModels <- Inputs
  OutputModel <- Outputs
  ResourceClass <- Classes
  Presets <- PresetChains
  MemoCap = 2
SPECIFICATION ClientsSpec
INVARIANTS
  EndIsEmitted
\* the job over, the stream closed and the service stopped: nothing more happens
CHECK_DEADLOCK FALSE
