SPECIFICATION FairSpec
CONSTANTS
  Size = 5
  InitWindow = 5
  Scale = 2
  MaxDepleted = 0
  Counts = {5}
  MaxSegment = 3
  MaxSeq = 9
PROPERTY WindowReopens
CHECK_DEADLOCK FALSE
