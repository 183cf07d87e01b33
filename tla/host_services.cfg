\* Collector: two panes of one session name. Updater: two updates, three mishaps.
\* Supervisor: two runs, one of them attended, two workers, an abort or an answer.
SPECIFICATION Spec
CONSTANTS
  k1 = k1
  k2 = k2
  Lanes = {"external", "live"}
  Keys = {k1, k2}
  LaneOf <- AllLive
  NameOf <- OneName
  Processes = {p1}
  Conversations = {s1}
  Idle = Idle
  None = None
  Grace = 2
  BindingGrace = 2
  DegradeAfter = 1
  MaxChanges = 2
  MaxFailures = 1
  MaxJobs = 2
  MaxMishaps = 3
  Runs = {r1, r2}
  Attended = {r1}
  MaxWorkers = 2
  MaxRequests = 1
INVARIANTS LinkIsSafe OneWorkerActs RunsAreReported OneWorker QuestionIsOffered
PROPERTIES ImplementsFeed CollectorCatchesUp OutcomeIsTrue UpdateEnds SupervisorWaitsEnd
\* The bounds let an instance stop.
CHECK_DEADLOCK FALSE
