SPECIFICATION FairSpec
CONSTANTS
  Threads = {t1, t2}
  NULL = NULL
  Fds = {f1, f2}
  Scripts <- MCScripts
  NotFound <- MCNotFound
INVARIANTS TypeOK UnsharedResponse FaultNeedsOverlap NoLeak IInv
PROPERTY EveryRequestEnds
CHECK_DEADLOCK FALSE
