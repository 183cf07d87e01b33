\* An abort returns when the next run has started.
SPECIFICATION Spec
CONSTANTS
  Tabs = {c1}
  MaxRuns = 2
  MaxEvents = 2
  MaxConnects = 1
  MaxLoad = 4
  BufferSize = 1
  Aborting = TRUE
  Persisting = FALSE
  None = None
INVARIANTS CompletedByItsOwn
\* The bounds on runs, events and sockets let an instance stop.
CHECK_DEADLOCK FALSE
