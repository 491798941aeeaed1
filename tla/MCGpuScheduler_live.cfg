\* Liveness under the fairness of the event loop
CONSTANTS
  j1 = j1
  j2 = j2
  j3 = j3
  NoItem = NoItem
  Jobs = {j1, j2}
  MaxSteps = 1
  Capacity = 2
  MaxBacklog = 2
  MaxAttempts = 3
  Policy = "adaptive"
  MinWarm = 0
  TargetDrain = 2
  AvgValues <- ShortOrLong
  ForeignLeases = 0
  MaxStarts = 1
SPECIFICATION FairSpec
PROPERTIES
  CancelIsHeeded
  ItemsSettle
  ScalesToFloor
\* no job left and the scheduler stopped: nothing more happens
CHECK_DEADLOCK FALSE
