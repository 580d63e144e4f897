CONSTANTS
  N = 3
  PE <- PEs112
  Room = 1
  MaxItems = 2
SPECIFICATION FairSpec
INVARIANTS CloseAfterWriters NothingLost
PROPERTY SegmentEnds
CHECK_DEADLOCK FALSE
