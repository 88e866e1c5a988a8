SPECIFICATION FairSpec
CONSTANT Requests <- Bare
PROPERTY IndexFits
CHECK_DEADLOCK FALSE
