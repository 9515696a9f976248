CONSTANTS
  Listener = {l1}
SPECIFICATION FairSpec
INVARIANTS CommitExcludesPass TickExcludesJob ReleasedLast NoLostWakeup
PROPERTIES CollectionsStable FinishEnds DirtyCommitted
