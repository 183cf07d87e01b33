\* A second session takes over the conversation of the first one.
SPECIFICATION Spec
CONSTANTS
  a1 = a1
  a2 = a2
  c1 = c1
  c2 = c2
  Generations = {g1}
  Apps = {a1, a2}
  Conversations = {c1, c2}
  Users = {u1}
  MutationIds = {m1}
  None = None
  Known <- OnlyFirst
  MaxPosition = 2
  MaxRevision = 5
  BrowserScans = TRUE
  Assigning = TRUE
  Watched = {}
INVARIANTS StoreConsistent
PROPERTIES WatchKept
