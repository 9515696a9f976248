\* Four grains of 5 and 6 samples, three of them remembered, a window of three.
CONSTANTS
  Samples = 29
  MinSize = 5
  MaxSize = 7
  Window = 3
  Repeats = 3
SPECIFICATION FairSpec
INVARIANTS ReadsInGrain NoRepeat
PROPERTIES SearchEnds
