\* Three sources compete for up to three slots; three steps of level decay; a
\* registration sees up to two snapshots.
SPECIFICATION Spec
CONSTANTS
  Source = {s1, s2, s3}
  NoSource = NoSource
  MaxLevel = 2
  MaxSlots = 3
  MaxTicks = 2
INVARIANTS Sorted NoTwice FadesOut HoldsLoudest
