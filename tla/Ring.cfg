CONSTANTS
  Frame = {1, 2}
  Blank = 0
  Size = 4
  MaxBatch = 3
SPECIFICATION Spec
INVARIANTS NoRace NoShortPush NoShortRead LatencyHonest ResizedInQuiet
PROPERTIES IsFifo
