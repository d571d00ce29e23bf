SPECIFICATION Spec
CONSTANTS
  Inputs <- AllInputs
  MaxCopies = 2
  MaxLength = 4
INVARIANTS RelationExact RunExact
CHECK_DEADLOCK FALSE
