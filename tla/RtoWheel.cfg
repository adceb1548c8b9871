CONSTANTS
  t1 = t1
  t2 = t2
  Tcbs <- Blocks
  Hash = 3
  Stride = 1
  Word = 8
  Rtos = {1, 3}
  MaxRtx = 1
  Thresh = 1
  MaxStep = 1
  MaxDrift = 1
  MaxAge = 1
SPECIFICATION FairSpec
INVARIANTS TypeOK ListMatchesIndex CountOfListed
PROPERTIES TimerIsServed ResendUnderTraffic
