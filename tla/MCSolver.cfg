SPECIFICATION FairSpec
CONSTANTS
  Word <- BranchWord
  V0 <- BranchV0
  V1 <- BranchV1
  I <- BranchI
  F <- BranchF
  Edges <- BranchEdges
  Lang <- BranchLang
  Rank <- BranchRank
  MaxStates = 4
  NoAnswer = NoAnswer
  Endless <- BranchEndless
INVARIANTS TypeOK SampleSound NoContradiction ConjectureCoherent ConjectureMinimal StatesBounded
PROPERTIES RejectedForGood NoDuplicate ReturnsWinningSet ExchangeEnds
