SPECIFICATION FormulaSpec
CONSTANTS
  Words <- SmallWords
  MaxWords = 2
  MaxAntecedents = 1
  MaxN = 2
INVARIANTS TypeOK LookupInRange WordsExact
