SPECIFICATION Spec
INVARIANTS ScriptsIfMissing
CONSTANTS
  Processes = {p1}
  Addresses = 2
  Own <- MCNone
  MaxStarts = 2
  None = None
CHECK_DEADLOCK FALSE
