SPECIFICATION AttractorSpec
CONSTANTS
  t1 = t1
  t2 = t2
  v1 = v1
  v2 = v2
  v3 = v3
  Target <- Targets
  Vertex <- FiveVertices
  Limits <- WholeAttractor
INVARIANT OpponentForced
