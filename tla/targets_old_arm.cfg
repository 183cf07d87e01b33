\* The browser rebinds a generation while the monitor reads its old transcript.
SPECIFICATION Spec
CONSTANTS
  a1 = a1
  a2 = a2
  c1 = c1
  c2 = c2
  Generations = {g1}
  Apps = {a1, a2}
  Conversations = {c1, c2}
  Users = {u1}
  MutationIds = {m1}
  None = None
  Known <- OneEach
  MaxPosition = 2
  MaxRevision = 5
  BrowserScans = TRUE
  Assigning = FALSE
  Watched = {}
PROPERTIES OldArmNeverNotifies
