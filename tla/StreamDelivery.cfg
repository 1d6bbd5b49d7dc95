SPECIFICATION Spec
CONSTANTS
  ActivityTimerAccepted = 2
  ActivityTimerClient = 2
  ConnectStartsOver = TRUE
  MaxConns = 1
  MaxWire = 2
  MaxBacklog = 1
  MaxPayload = 2
INVARIANTS
  TypeOK
  DeliveredInOrder
