\* Two users and one endpoint that may pass from one to the other, every disturbance.
SPECIFICATION Spec
CONSTANTS
  Users = {u1, u2}
  Endpoints = {e1}
  Occurrences = {o1}
  NoUser = NoUser
  Tokens = {1, 2}
  NoToken = NoToken
  MaxClaims = 2
  Lease = 1
  RetryBase = 1
  RetryCap = 2
  MaxAttempts = 2
  MaxFaults = 2
  Disturbances <- AllDisturbances
INVARIANTS PauseMatchesPolicy OpenHasSubscription
PROPERTIES ClosedForGood
SYMMETRY Symmetry
