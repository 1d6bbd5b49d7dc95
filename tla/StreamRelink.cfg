SPECIFICATION FairSpec
CONSTANTS
  ActivityTimerAccepted = 2
  ActivityTimerClient = 2
  ConnectStartsOver = TRUE
  MaxConns = 2
  MaxWire = 1
  MaxBacklog = 1
  MaxPayload = 0
INVARIANTS
  ConnectOKStands
PROPERTIES
  StableLinkConnects
