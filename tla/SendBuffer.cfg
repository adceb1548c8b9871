SPECIFICATION Spec
CONSTANTS
  Size = 4
  MaxLen = 2
  Window = 4
  MaxRtx = 1
  MaxWritten = 6
INVARIANTS
  TypeOK
  
  SentBetween
  InFlightIsTimed
CHECK_DEADLOCK FALSE
