\* Two tasks that are waited for and one that is not, ticks of two units, at most two ticks per call, two calls
CONSTANTS
  t1 = t1
  t2 = t2
  t3 = t3
  Tasks = {t1, t2, t3}
  Watched = {t1, t2}
  Delays <- SomeDelays
  StepS = 2
  MaxS = 4
  MaxCalls = 2
SPECIFICATION FairClockSpec
INVARIANTS
  ClockTypeOK
  CallbacksDrained
PROPERTIES
  SleepIsExact
  AdvanceUntilEnds
\* the last call has returned or timed out
CHECK_DEADLOCK FALSE
