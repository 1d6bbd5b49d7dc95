SPECIFICATION FairSpec
CONSTANTS
  Peers = {p1, p2}
  NoPeer = NoPeer
  MaxSlots = 3
INVARIANTS
  TypeOK
  TableConsistent
  ReplyRouteHolds
PROPERTIES
  IdleEndpointCloses
