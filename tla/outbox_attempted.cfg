\* Slow requests, crashes, store errors and lost replies, under fairness.
SPECIFICATION FairSpec
CONSTANTS
  Users = {u1}
  Endpoints = {e1, e2}
  Occurrences = {o1}
  NoUser = NoUser
  Tokens = {1, 2}
  NoToken = NoToken
  MaxClaims = 2
  Lease = 1
  RetryBase = 1
  RetryCap = 2
  MaxAttempts = 2
  MaxFaults = 2
  Disturbances <- CrashesOnly
INVARIANTS AtMostOnePush
PROPERTIES OpenIsAttempted
