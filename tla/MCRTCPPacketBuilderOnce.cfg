CONSTANTS
  MaximumPacketSize = 112
  MaxPerPacket = 2
  Cycle = 8
  ExtMod = 64
  Sources <- MCSources
  Memberships <- MCMemberships
  Interval <- MCInterval
  ItemLength <- MCItemLength
  CNameLength = 1
  Lengths = {0, 4, 30}
  MaxAdded = 4
  FirstNumber = {8, 11, 15}
  MaxNumber = 18
  MaxGap = 3
  MaxLate = 2
  MaxReceived = 5
  MaxWaiting = 3
  MaxBeside = 2
SPECIFICATION RTCPSpec
INVARIANT ReportedOnce
