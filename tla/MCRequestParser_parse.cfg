SPECIFICATION FairSpec
CONSTANT Requests <- MCRequests
INVARIANTS TypeOK ReadsInside ParsesWellFormed SeesRequest IndexInBlock IndexSparesRest
PROPERTY Halts
CHECK_DEADLOCK FALSE
