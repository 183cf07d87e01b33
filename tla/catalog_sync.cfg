\* Drops, restarts of both sides, a lost delta or a failed read.
SPECIFICATION FairSpec
CONSTANTS
  Ids = {a, b}
  MaxChanges = 2
  MaxEpoch = 2
  MaxConnects = 2
  MaxFaults = 1
  None = None
INVARIANTS LiveRowsAreCurrent NothingSlipsThrough
PROPERTIES ImplementsReplica SyncingEnds CatchesUp
\* The bounds on changes and connections let an instance stop.
CHECK_DEADLOCK FALSE
