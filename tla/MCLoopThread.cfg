\* Two threads: one loop after another, or after one that could not be
\* created.  Three triggers: one used last, one below it, one above.
CONSTANTS
  N = 3
  MaxCalls = 3
  Usages = {"handlers", "foreign"}
  MaxThreads = 2
SPECIFICATION LoopSpec
INVARIANTS LoopIsSound
PROPERTIES CallsReturn TriggeredIsHandled
