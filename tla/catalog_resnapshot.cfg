\* A reconnect without faults, rows inserted in front of others.
SPECIFICATION FairSpec
CONSTANTS
  Ids = {a, b}
  MaxChanges = 2
  MaxEpoch = 1
  MaxConnects = 2
  MaxFaults = 0
  None = None
PROPERTY ResnapshotRecovers
\* The bounds on changes and connections let an instance stop.
CHECK_DEADLOCK FALSE
