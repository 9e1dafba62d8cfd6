\* A writer, both kinds of rotation, and a channel that may never be read again.
SPECIFICATION FairSpec
CONSTANTS
  MaxLines = 3
  LineLen = 2
  MaxPartial = 2
  Rotations = {"rename", "truncate"}
  MaxRotations = 2
  QueueCap = 1
  MaxTaken = 3
INVARIANTS TypeOK WholeLinesInOrder
PROPERTIES LinesAreFollowed StopEnds
CHECK_DEADLOCK FALSE
