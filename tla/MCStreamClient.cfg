SPECIFICATION Spec
CONSTANTS
  Client = {c1}
  None = None
  MaxTracks = 2
  MaxOpens = 1
  MaxControls = 3
  Controls = {"PAUSE", "RESUME", "TEARDOWN"}
  ServerCloses = TRUE
INVARIANTS CommandsHaveSession PlayFollowsSetups
PROPERTIES StreamRunsItsCourse
