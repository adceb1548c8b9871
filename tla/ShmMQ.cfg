CONSTANTS
  BlockSize = 7
  HeadSize = 2
  Lens <- MCLens
  BufSize = 2
  MaxMsgs = 6
SPECIFICATION Spec
INVARIANTS TypeOK NoOverrun HeaderAssert ReadsOldest
PROPERTY RefinesFifo
CHECK_DEADLOCK FALSE
