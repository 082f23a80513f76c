SPECIFICATION Spec
CONSTANTS
  None = None
  WILD = WILD
  HashSize = 2
  Port = {5}
  MaxTransSize = 8
  MaxCSRCs = 2
  WordCycle = 2
  Cycle = 3
  Destination <- MCDestination
  Host = {1, 3}
  SSRC = {1, 2, 3}
  OwnSSRC = 4
  Datagram <- MCDatagram
  SDESDatagram <- MCSDESDatagram
  MaxTold = 3
  MaxPrivItems = 2
  CSRC = {1, 2}
  PayloadType = {8, 72}
  Length = {1, 3}
  Words = {1, 2}
  Increment = {0, 1}
  MinSize = 6
  Size = {5, 6, 8, 9}
  Portbase = 5
  Parts = {"destinations", "filter", "sources", "packets", "sdes"}
INVARIANTS TablesServe CreateCanBeRetried PacketsGoOut WalksSeeAll KnownIsSaid
