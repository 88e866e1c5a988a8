SPECIFICATION FairSpec
INVARIANTS TypeOK  StoredTwiceNeedsLostAnswer
PROPERTIES ErasedWasStored Settles
CONSTANTS
  Pages = {p1, p2}
  Writers = {p1}
  Kind <- MCKind
  Limit = 4
  OldLen = 10
  MaxPosts = 3
  MaxFaults = 1
  None = None
CHECK_DEADLOCK FALSE
