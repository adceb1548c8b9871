CONSTANTS
  c1 = c1
  c2 = c2
  Conns <- Peer
  NoTcb = NoTcb
  NoBuf = NoBuf
  BacklogSize = 2
  MaxFds = 2
  MaxRtx = 1
  WriteFds = {1}
  MaxIds = 2
  QueueBound = 1
SPECIFICATION Spec
INVARIANTS TypeOK SocketBinding WriteReachesOwner
PROPERTY RebindAfterWrap
