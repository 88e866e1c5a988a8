SPECIFICATION FairSpec
CONSTANTS
  Clients = {c1, c2, c3}
  Fds <- MCFds
  Cells = {x1, x2, x3}
  Backlog = 2
  MaxThreads = 2
  MaxLost = 1
  None = None
INVARIANTS TypeOK CellsPassed OneOwner
PROPERTIES KeepsPromise QueueMoves
CHECK_DEADLOCK FALSE
