SPECIFICATION Spec
CONSTANTS
  HbLen = 3
  HbTime = 2
  Keys = {1, 7}
  ListenKey = 6
  RcvChunks = {2}
  SndChunks = {1, 2}
  BacklogSize = 3
  NetFirst = TRUE
  MaxFd = 4
  WriteFds = {2}
  QueueBound = 1
INVARIANTS TypeOK SocketFound KeyUnique ChunksConserved BuffersOwned WriteLands AcceptInOrder
