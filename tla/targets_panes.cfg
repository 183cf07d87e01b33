\* Two panes on two watched conversations under the monitor alone, which never stops.
SPECIFICATION FairSpec
CONSTANTS
  a1 = a1
  a2 = a2
  c1 = c1
  c2 = c2
  Generations = {g1, g2}
  Apps = {a1, a2}
  Conversations = {c1, c2}
  Users = {u1}
  MutationIds = {}
  None = None
  Known <- OneEach
  MaxPosition = 2
  MaxRevision = 4
  BrowserScans = FALSE
  Assigning = FALSE
  Watched <- BothWatched
INVARIANTS OneDecisionPerReply
PROPERTIES  ViewChangeRaisesRevision
