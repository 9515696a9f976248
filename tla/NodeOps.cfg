\* One source node that registers twice, with two playbacks and two volumes.
\* The system stops after finish().
SPECIFICATION FairSpec
CONSTANTS
  Source = {r1, r2}
  Other = {}
  NoRid = NoRid
  Playback = {p1, p2}
  Volumes = 2
INVARIANTS NeverDropped VolumeKept
PROPERTIES IdleWhenRemoved IdleTimesOut
CHECK_DEADLOCK FALSE
