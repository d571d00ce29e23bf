SPECIFICATION Spec
CONSTANTS
  Letter = {"e", "l", "s"}
  Adjacent <- Spaced
  Inputs <- StarInputs
  MaxDepth = 12
  MaxLength = 4
INVARIANTS ImageSound
