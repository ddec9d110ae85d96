SPECIFICATION MCSpec
\* The instance stops when every caller has made its calls.
CHECK_DEADLOCK FALSE
CONSTANTS
  Run = {r1, r2, r3}
  Event = {e1}
  MaxRuns = 1
  MaxEvents = 1
  MaxEmitted = 2
  MaxClock = 1
  ClockStepsBack = FALSE
  MaxRaised = 1
SYMMETRY StoreSymmetry
INVARIANTS
  ReturnedWritesSurvive
  BoundIsRestored
PROPERTIES
  StoreSpec
  CallsAreOneStep
