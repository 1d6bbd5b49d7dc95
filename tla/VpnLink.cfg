SPECIFICATION FairSpec
CONSTANTS
  Clients = {c1}
  ActivityTimerAccepted = 3
  ActivityTimerClient = 2
INVARIANTS
  TypeOK
  HandshakeAgreement
  SilenceIsBounded
PROPERTIES
  DropsOnlyWhenSilent
  AudibleClientConnects
  DeadClientExpires
  ImplementsTunnelLink
