SPECIFICATION Spec
CONSTANTS
  NoAddr = "noaddr"
  Addrs = {"noaddr", "a", "b", "near", "far"}
  Channels = {0, 1}
  Requests <- MCRequests
  Replies <- MCReplies
INVARIANTS
  TypeOK
  ReturnsToSender
  MediaAgrees
  ProperMessagesPass
  RequestReachesItsTarget
CHECK_DEADLOCK FALSE
