CONSTANTS
  Receiver = r
  Broadcast = b
  Addresses = {r, b, o}
  MaxNeighbors = 2
  MaxPackets = 2
  MaxTransmissions = 2
  MaxBackoff = 1
  DsnMod = 2
  FifoSize = 2
  MaxId = 2
SPECIFICATION FairSpec
CONSTRAINT Bounded
INVARIANTS TypeOK NeighborsInUse BuffersInUse
PROPERTIES ImplementsLink RepeatsNeedBroadcast HeadLeaves
