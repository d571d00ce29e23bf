SPECIFICATION Spec
CONSTANTS
  Letter = {"e", "l", "s"}
  Adjacent <- Spaced
  Inputs <- AllInputs
  MaxDepth = 12
  MaxLength = 5
INVARIANTS TypeOK ImageSound ImageComplete FlagHonestIfPlain
PROPERTIES Terminates
