\* Three sockets whose numbers straddle the bound; two conditions, so that
\* a socket can be watched for one and ready for the other.
\* Three tasks: one to insert before, between and after two others.
CONSTANTS
  Socket = {0, 1, 2}
  readable = readable
  writable = writable
  Condition = {readable, writable}
  MaxChanges = 3
  Task = {t1, t2, t3}
  MaxDelay = 3
  MaxSetBacks = 1
SPECIFICATION MCSpec
INVARIANTS SelectSeesEveryHandler OneDescriptorPerSocket SelectWakesInTime
PROPERTIES ReadySocketServed ImplementsTimers EveryTaskRuns
