SPECIFICATION Spec
CONSTANTS
  Calls = {k1}
  Ports = {p1, p2}
  NoPort = NoPort
  Hole = Hole
  NoCall = NoCall
  NoConn = NoConn
  Ordered = TRUE
  MaxLines = 1
  MaxSip = 4
PROPERTIES
  RefusedCallIsErased
CHECK_DEADLOCK FALSE
