\* The value of three messages.
CONSTANTS
  NumNodes = 3
  Samples <- MCSamples
  Variances <- MCVariances
  Unit = 2
SPECIFICATION Spec
INVARIANTS BetweenSamples UncertainCountsLess
