\* One source node that registers twice, and one listener or geometry.  The
\* system stops after finish().
SPECIFICATION Spec
CONSTANTS
  Source = {r1, r2}
  Other = {o1}
  NoRid = NoRid
  Playback = {p1}
  Volumes = 2
INVARIANTS HeldIsAlive NothingLeaks
PROPERTIES KeepsLife
CHECK_DEADLOCK FALSE
