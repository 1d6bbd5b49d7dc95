SPECIFICATION Spec
CONSTANTS
  Calls = {k1, k2}
  Ports = {p1, p2}
  NoPort = NoPort
  Hole = Hole
  NoCall = NoCall
  NoConn = NoConn
  Ordered = FALSE
  MaxLines = 1
  MaxSip = 3
SYMMETRY Symmetry
INVARIANTS
  PortMapMatchesCalls
  NoCrossTalk
CHECK_DEADLOCK FALSE
