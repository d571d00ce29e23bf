SPECIFICATION Spec
CONSTANTS
  Letter = {"a", "b"}
  Adjacent <- Consecutive
  MaxN = 2
  MaxNA = 2
  Antecedent <- Antecedents
INVARIANTS SatIsCoherent
CHECK_DEADLOCK FALSE
