\* The first SSRC and its successor: one collision, after which the BYE of the old
\* SSRC waits.
CONSTANTS
  MaxMembers = 2
  MinInterval = 2
  Share = 1
  FewMembers = 2
  ImmediateBYE = TRUE
  Address = {a1}
  MaxSSRC = 2
  MaxPackets = 1
  NoAddress = NoAddress
SPECIFICATION Spec
INVARIANT CollisionAnswered
PROPERTIES BYEIsSentLast CallsReturn
CHECK_DEADLOCK FALSE
