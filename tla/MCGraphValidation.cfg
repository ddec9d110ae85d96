SPECIFICATION Spec
CONSTANT Definition <- MCDefinition
INVARIANTS
  VerdictIsExact
PROPERTIES
  EventuallyDecided
