\* Stream: one pane, a queue and a socket that hold one frame, one connection or
\* server lost. Shell: a tab with three sockets, a replay buffer that trims.
SPECIFICATION Spec
CONSTANTS
  Lanes = {"live"}
  Keys = {k1}
  LaneOf <- AllLive
  NameOf <- OneName
  Processes = {p1}
  Conversations = {}
  Idle = Idle
  Nothing = Nothing
  MaxQueued = 1
  MaxBuffered = 0
  BrowserResyncs = 1
  MaxRevision = 3
  MaxRequests = 1
  MaxFaults = 1
  Tabs = {t1}
  BufferSize = 1
  MaxTerminals = 2
  MaxSockets = 3
  MaxChunks = 3
  NoEntry = NoEntry
INVARIANTS  WithheldIsTold TerminalIsKept 
PROPERTIES TrustedIsFresh StreamEpisodeEnds
\* The bounds let an instance stop.
CHECK_DEADLOCK FALSE
