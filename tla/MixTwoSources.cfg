CONSTANTS
  s1 = s1  s2 = s2  l1 = l1  l2 = l2  p1 = p1  p2 = p2  v1 = v1  v2 = v2
  NoSource = NoSource
  Source = {s1, s2}
  Listener = {l1}
  Speaker = {p1}
  Stream = {v1, v2}
  Owner <- TwoSourcesOwner
  Feeds <- TwoStreamsFeeds
  Sensors = {}
  F = 2
  Cap = 3
  MaxChanges = 1
SPECIFICATION HSpec
INVARIANTS TypeOK RoundSound DrainBeforeCollect RoundPushedOnce WholeMix
