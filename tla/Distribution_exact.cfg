\* Four slots; three samples of 5, or two with one of 4, have squares that round.
CONSTANTS
  WindowSize = 4
  Samples <- MCSamples
  Exact = 52
  MaxInexact = 4
SPECIFICATION Spec
INVARIANTS TypeOK SumIsRecent SquaresWithinRounding VarianceAboveRounding MeanOfFirstSamples
