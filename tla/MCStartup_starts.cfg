SPECIFICATION FairSpec
INVARIANTS TypeOK OneServer AloneServes
PROPERTIES OwnScriptsKept StartsEnd
CONSTANTS
  Processes = {p1, p2}
  Addresses = 2
  Own <- MCOwn
  MaxStarts = 5
  None = None
CHECK_DEADLOCK FALSE
