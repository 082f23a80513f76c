CONSTANTS
  SSRC = {s1, s2, s3}
  OwnSSRC = s1
  Address <- MCAddress
  CName = {c1}
  Probation = "store"
  ProbationCount = 1
  MaxProbationPackets = 1
  MemberTimeout = 1
  SenderTimeoutDelay = 0
  ByeTimeout = 0
  NoteTimeoutDelay = 0
  MaxQueue = 2
  MaxPackets = 2
SPECIFICATION Spec
INVARIANTS SourcesCounted
PROPERTIES SourcesKeepHost SilentSourceRemoved
