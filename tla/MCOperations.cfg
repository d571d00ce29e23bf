SPECIFICATION CallsSpec
CONSTANTS
  MaxChar = 2
  Base <- BasicAutomata
  MaxLength = 3
  MaxCalls = 3
  MaxStates = 4
INVARIANTS LanguageExact FlagHonest NoDeadTransitions SubsetExact ShortestExact
CHECK_DEADLOCK FALSE
