SPECIFICATION Spec
CONSTANTS
  Peers = {p1, p2}
  NoPeer = NoPeer
  MaxSockets = 3
  MaxWaiting = 2
  MaxQueue = 1
SYMMETRY Symmetry
INVARIANTS
  TypeOK
  OneSocketPerPeer
  OkMeansConnected
