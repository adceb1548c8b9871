CONSTANTS
  c1 = c1
  c2 = c2
  Conns <- Peers
  NoTcb = NoTcb
  NoBuf = NoBuf
  BacklogSize = 3
  MaxFds = 2
  MaxRtx = 0
  WriteFds = {}
  MaxIds = 2
  QueueBound = 1
SPECIFICATION Spec
SYMMETRY Symmetry
INVARIANTS ConnectIsPending OpenIsWatched
