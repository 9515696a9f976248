CONSTANTS
  Listener = {l1}
SPECIFICATION FairSpec
PROPERTIES WaitTakenBack
