SPECIFICATION Spec
CONSTANTS
  Node <- MCNode
  Definition <- MCDefinition
  Input <- MCInput
  Output <- MCOutput
INVARIANTS
  NodeFailureTraced
