SPECIFICATION FairSpec
INVARIANTS TypeOK OnlyFailedOpenKeeps AloneNotRefused
PROPERTIES CallsReturn AtomicCalls
CONSTANTS
  Callers = {c1, c2}
  Texts = {m}
  Limit = 2
  MaxLog = 2
  None = None
CHECK_DEADLOCK FALSE
