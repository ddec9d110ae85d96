SPECIFICATION LoopSpec
CONSTANTS
  Branch = {b1, b2, b3}
  MaxConcurrency = {1, 2}
INVARIANTS
  TypeOK
  PermitsConserved
  NoLostWakeup
  EventsTellBranches
PROPERTIES
  NothingStartsWhenClosing
  VisitSpec
  FailureEndsNode
  EventuallyDone
