CONSTANTS
  p = p
  q = q
  Peers = {p, q}
  NumIds = 3
  MaxPeers = 3
  DesiredSize = 2
SPECIFICATION FairSpec
CHECK_DEADLOCK FALSE
PROPERTY ObjectsReturned
