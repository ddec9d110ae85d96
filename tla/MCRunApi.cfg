SPECIFICATION ServingSpec
CONSTANTS
  Run = {r1, r2}
  MaxRuns = 1
  MaxEvents = 3
  MaxReports = 2
  MaxReloads = 1
INVARIANTS
  KeepsTheNewest
  RecordsWhatItWasTold
  AnswerMatchesRecord
  TimelineIsFramed
PROPERTIES
  EveryRequestAnswered
