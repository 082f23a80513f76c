SPECIFICATION BlockingSpec
CONSTANTS
  Request = {1, 2}
  None = None
  TimedOut = TimedOut
  MaxCSeq = 4
  Codes = {"ok", "auth", "moved"}
  BodyLengths = {0, 1, 3}
  BufferSize = 3
  AppThread = FALSE
INVARIANTS PendingConnectionIsWatched RecordsKept ResultIsOwn
PROPERTIES TimedCallReturns RequestsGoOn
CHECK_DEADLOCK FALSE
