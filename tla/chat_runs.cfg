\* Two runs of a session with aborts, or one with broken connections, under fairness.
SPECIFICATION FairSpec
CONSTANTS
  Tabs = {c1, c2}
  MaxRuns = 2
  MaxEvents = 2
  MaxConnects = 2
  MaxLoad = 3
  BufferSize = 2
  Aborting = TRUE
  Persisting = TRUE
  None = None
INVARIANTS ExactlyOneComplete RunningIsCurrent OneWorkingRuntime 
PROPERTIES EveryRunEnds
\* The bounds on runs, events and sockets let an instance stop.
CHECK_DEADLOCK FALSE
