SPECIFICATION LoopSpec
CONSTANTS
  Node <- MCNode
  Definition <- MCDefinition
  Input <- MCInput
  Output <- MCOutput
INVARIANTS
  TypeOK
  WithinBudget
  HistoryTellsTheRun
  RunIsReplay
  EventsAreReplay
  RecursionLimitUnreached
  OnlyLoopsExhaustVisits
PROPERTIES
  AnsweredRunEnds
  DeadlineEndsRun
