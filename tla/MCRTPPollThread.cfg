CONSTANTS
  Host = {h1}
  Port = {1, 2}
  Group = {g1}
  MaxPending = 1
  MaxQueue = 2
  MaxAborts = 2
  Delays = {"short", "long"}
  MaxCreates = 2
SPECIFICATION PollSpec
INVARIANTS SelectedWasAsked DestroyedAlone
PROPERTIES ThreadServes
CHECK_DEADLOCK FALSE
