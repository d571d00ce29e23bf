SPECIFICATION Spec
CONSTANTS
  MaxChar = 1
  Inputs <- AllInputs
INVARIANTS TypeOK PendingSuffices ResultMinimal
PROPERTIES FindsClasses LoopAdvances
