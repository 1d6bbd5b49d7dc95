SPECIFICATION Spec
CONSTANTS
  Calls = {k1}
  Ports = {p1, p2, p3}
  NoPort = NoPort
  Hole = Hole
  NoCall = NoCall
  NoConn = NoConn
  Ordered = TRUE
  MaxLines = 2
  MaxSip = 4
SYMMETRY Symmetry
INVARIANTS
  TypeOK
  PortMapMatchesCalls
  NoCrossTalk
  NoHoles
  AnsweredLinesLinked
PROPERTIES
  DiesOfErasedOrOwnCall
CHECK_DEADLOCK FALSE
