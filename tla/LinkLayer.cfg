SPECIFICATION FairSpec
CONSTANTS
  p1 = p1
  p2 = p2
  h1 = h1
  h2 = h2
  OwnHa = own
  Broadcast = broadcast
  Ips <- TwoPeers
  Hwaddrs <- TwoHosts
  Byte = 4
  Rings <- OneRing
  Slots = 1
  Burst = 2
  MaxArpEntries = 3
  Thresh = 1
  Words <- OneWord
  OddBytes <- SomeOdds
INVARIANTS
  TypeOK
  ChecksumsVerify
  LossesAreApart
  ArpUnique
  FrameToOwner
  OwedIsListed
PROPERTY OwedIsHanded
