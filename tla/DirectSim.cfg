\* Two sources and a listener.  With a range of 10, a distance of 11 is in the
\* band in which a pair stays as it is.
CONSTANTS
  Source = {s1, s2}
  Listener = {l1}
  Distance = {10, 11, 12}
  Reach = {0, 10}
SPECIFICATION DSpec
SYMMETRY Symmetry
INVARIANTS InSimulator StagedIsDirty ResultsAreReal
