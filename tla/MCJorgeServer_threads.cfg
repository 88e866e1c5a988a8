SPECIFICATION Spec
CONSTANTS
  Clients = {c1, c2, c3}
  Fds <- MCFds
  Cells = {x1, x2, x3}
  Backlog = 2
  MaxThreads = 2
  MaxLost = 1
  None = None
INVARIANT ThreadForEachRequest
CHECK_DEADLOCK FALSE
