SPECIFICATION Spec
CONSTANTS
  Letter = {"a", "b"}
  Adjacent <- Spaced
  MaxN = 2
  MaxNA = 2
  Antecedent <- Antecedents
INVARIANTS SatIsCoherent UniComplete ExCompleteBelowBound
CHECK_DEADLOCK FALSE
