SPECIFICATION Spec
CONSTANTS
  Size = 7
  InitWindow = 9
  Scale = 2
  MaxDepleted = 1
  Counts = {1, 3, 7}
  MaxSegment = 3
  MaxSeq = 9
INVARIANTS
  TypeOK
  ReassemblyExact
  ReadsStream
VIEW View
CHECK_DEADLOCK FALSE
