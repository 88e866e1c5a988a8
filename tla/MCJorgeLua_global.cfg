SPECIFICATION Spec
CONSTANTS
  Threads = {t1, t2}
  NULL = NULL
  Fds = {f1, f2}
  Scripts <- MCEcho
  NotFound <- MCNotFound
INVARIANT OwnResponse
CHECK_DEADLOCK FALSE
