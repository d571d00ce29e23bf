SPECIFICATION TeacherSpec
CONSTANTS
  Letter = {"e", "l", "s"}
  Adjacent <- Spaced
  Inputs <- Spaced
  Code <- Chars
  MaxChar = 6
  AV0 <- LinearV0
  AV1 <- LinearV1
  AI <- LinearI
  AF <- LinearF
  TE <- LinearT
  Conjectures <- AllConjectures
  MaxDepth = 12
  MaxLength = 6
INVARIANTS AnswerExact SuccessorsExact OverflowOnlyOnCycle
