SPECIFICATION FairSpec
CONSTANTS
  Size = 3
  MaxLen = 2
  Window = 3
  MaxRtx = 1
  MaxWritten = 2
PROPERTY LostIsResent
CHECK_DEADLOCK FALSE
