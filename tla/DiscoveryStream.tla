----------------------------- MODULE DiscoveryStream -----------------------------
(***************************************************************************)
(* The discovery stream between the collector and a browser: the server's   *)
(* bounded queue of the socket, the frames on the wire, and the browser's   *)
(* reducer with its bookkeeping of the reads it has asked for. The server   *)
(* keeps sockets apart, so one browser stands for all.                      *)
(***************************************************************************)
EXTENDS DiscoveryFeed, Sequences

CONSTANTS
  MaxQueued,      \* MAX_QUEUED_MESSAGES
  MaxBuffered,    \* MAX_BUFFERED_AMOUNT, in frames the socket has not sent yet
  BrowserResyncs, \* MAX_RESYNCS_PER_WINDOW of the browser
  MaxRevision,    \* bound: snapshots of a server process
  MaxRequests,    \* bound: the user asks only while fewer are on their way
  MaxFaults,      \* bound: connections and server processes lost
  Nothing

ASSUME StreamAssumption ==
  /\ {MaxQueued, BrowserResyncs} \subseteq Nat \ {0}
  /\ {MaxBuffered, MaxRevision, MaxRequests, MaxFaults} \subseteq Nat

VARIABLES
  epoch,     \* the server process
  sub,       \* the socket's subscriber
  wire,      \* frames sent and not yet received
  requests,  \* messages of the browser not yet handled
  browser,
  faults     \* how many connections and processes have been lost

stream == <<epoch, sub, wire, requests, browser>>
svars == <<feed, stream, faults>>

Epochs == 1..(MaxFaults + 1)
Nobody == [on |-> FALSE, queue |-> << >>, awaiting |-> FALSE]

(* read: of the snapshot asked for; window: resyncs sent in it; recovery: the  *)
(* deferred attempt; frame: age of the last good frame; auth: whom the lanes'  *)
(* rows are taken from.                                                        *)
Browsers ==
  [connected : BOOLEAN, epoch : Epochs \cup {Nothing}, revision : Nat, rows : Partial(Keys, Rows),
   awaiting : BOOLEAN, read : {"none", "fresh", "expired"}, window : 0..BrowserResyncs,
   recovery : {"none", "open", "armed", "attempted"}, frame : {"none", "fresh", "old"},
   auth : [Lanes -> {"stream", "rest"}]]

Trusting(b) == \E l \in Lanes : b.auth[l] = "stream"
Distrusting(b) == [b EXCEPT !.auth = [l \in Lanes |-> "rest"]]

-----------------------------------------------------------------------------
(* The server's side of a socket.                                            *)

Changed(old, new) == {k \in DOMAIN old \cup DOMAIN new :
                        k \in DOMAIN old /\ k \in DOMAIN new => old[k] # new[k]}

\* Faulty variant: a removed row is no change.
DiffWithoutRemoved(old, new) ==
  [k \in {j \in Changed(old, new) : j \in DOMAIN new} |-> [op |-> "added", row |-> new[k]]]

\* Of a row that turns stale only that is told; nothing else of it changes then.
Diff(old, new) ==
  [k \in Changed(old, new) |->
     IF k \notin DOMAIN new THEN [op |-> "removed"]
     ELSE IF k \notin DOMAIN old THEN [op |-> "added", row |-> new[k]]
     ELSE IF old[k].presence # "stale" /\ new[k].presence = "stale" THEN [op |-> "stale"]
     ELSE [op |-> "updated", row |-> new[k]]]

Heartbeat == [kind |-> "heartbeat", epoch |-> epoch, revision |-> revision]
ResyncRequired == [kind |-> "resync_required", epoch |-> epoch]
Snapshot == [kind |-> "snapshot", epoch |-> epoch, revision |-> revision,
             rows |-> rows, health |-> health]
Delta == [kind |-> "delta", epoch |-> epoch, revision |-> revision', prev |-> revision,
          changes |-> Diff(rows, rows'), health |-> health']

\* The queue goes out at once, and whole, unless the socket is behind already.
Flush(s) ==
  IF Len(wire) > MaxBuffered
  THEN sub' = s /\ wire' = wire
  ELSE sub' = [s EXCEPT !.queue = << >>] /\ wire' = wire \o s.queue

\* Faulty variant: the frame that does not fit is dropped, and so are later deltas.
OverflowsSilently(s, frame) == [s EXCEPT !.awaiting = TRUE]

Overflows(s, frame) == [s EXCEPT !.awaiting = TRUE, !.queue = <<ResyncRequired>>]

Enqueue(s, frame) ==
  Flush(IF Len(s.queue) >= MaxQueued THEN Overflows(s, frame)
        ELSE [s EXCEPT !.queue = Append(@, frame)])

\* What the collector's listener does after a tick.
Notify ==
  IF ~sub.on THEN UNCHANGED <<sub, wire>>
  ELSE IF revision' = revision
  THEN IF ~sub.awaiting /\ sub.queue = << >>
       THEN Enqueue(sub, Heartbeat) ELSE UNCHANGED <<sub, wire>>
  ELSE IF sub.awaiting THEN Flush(sub) ELSE Enqueue(sub, Delta)

TickEnds ==
  /\ \/ revision < MaxRevision /\ FeedNext
     \/ UNCHANGED feed
  /\ Notify
  /\ UNCHANGED <<epoch, requests, browser, faults>>

SendsSnapshot(s) == Enqueue([s EXCEPT !.awaiting = FALSE], Snapshot)

HandlesSubscribe ==
  /\ requests # << >> /\ Head(requests) = "subscribe"
  /\ SendsSnapshot([Nobody EXCEPT !.on = TRUE])
  /\ requests' = Tail(requests)
  /\ UNCHANGED <<feed, faults, epoch, browser>>

HandlesResync ==
  /\ requests # << >> /\ Head(requests) = "resync"
  /\ SendsSnapshot(sub)
  /\ requests' = Tail(requests)
  /\ UNCHANGED <<feed, faults, epoch, browser>>

-----------------------------------------------------------------------------
(* The browser's bookkeeping of its reads.                                   *)

\* Faulty variant: an attempt that is over the limit is not deferred.
DeferredIfAllowed(b) ==
  IF b.recovery = "open" /\ b.window < BrowserResyncs THEN [b EXCEPT !.recovery = "armed"] ELSE b

Deferred(b) == IF b.recovery = "open" THEN [b EXCEPT !.recovery = "armed"] ELSE b

Admitted(b) == [b EXCEPT !.read = "fresh", !.window = @ + 1]

Opened(b, reason) ==
  IF reason # "client_error" /\ b.recovery = "none" THEN [b EXCEPT !.recovery = "open"] ELSE b

Disposition(b, retryExpired) ==
  IF b.read # "none" /\ (~retryExpired \/ b.read = "fresh") THEN "pending"
  ELSE IF b.window >= BrowserResyncs THEN "limited" ELSE "sent"

-----------------------------------------------------------------------------
(* The browser's reducer.                                                    *)

Reset(b) ==
  Distrusting([b EXCEPT !.epoch = Nothing, !.revision = 0, !.rows = << >>, !.awaiting = TRUE,
                        !.frame = "none"])

\* resetAndResync. A limited manual refresh keeps what is shown.
ResetAndResync(b, reason, retryExpired) ==
  LET how == Disposition(b, retryExpired)
      asked == Deferred(IF how = "sent" THEN Admitted(Opened(b, reason)) ELSE Opened(b, reason))
  IN /\ requests' = IF how = "sent" THEN Append(requests, "resync") ELSE requests
     /\ browser' =
          IF how = "limited" /\ reason = "client_error" THEN asked ELSE Reset(asked)

\* The rows are taken from the stream for the lanes whose last scans went well.
Authorised(b, frame) ==
  [b EXCEPT !.auth = [l \in Lanes |-> IF frame.health[l] = "ok" THEN "stream" ELSE "rest"]]

Keeps(b) == browser' = b /\ UNCHANGED requests

TakesSnapshot(f) ==
  IF f.epoch = browser.epoch /\ f.revision < browser.revision THEN Keeps(browser)
  ELSE Keeps(Authorised([browser EXCEPT !.epoch = f.epoch, !.revision = f.revision,
                           !.rows = f.rows, !.awaiting = FALSE, !.frame = "fresh",
                           !.read = "none", !.recovery = "none"], f))

TakesHeartbeat(f) ==
  IF browser.awaiting THEN Keeps(browser)
  ELSE IF f.epoch # browser.epoch THEN ResetAndResync(browser, "epoch_mismatch", FALSE)
  ELSE IF f.revision > browser.revision THEN ResetAndResync(browser, "gap", FALSE)
  ELSE IF browser.frame # "fresh" THEN Keeps(Distrusting(browser))
  ELSE Keeps(browser)

\* A patch or a stale mark of a row that is not there changes nothing.
Patched(b, told) ==
  LET touched == {k \in DOMAIN told : told[k].op = "added" \/ k \in DOMAIN b}
      kept == (DOMAIN b \cup touched) \ {k \in DOMAIN told : told[k].op = "removed"}
  IN [k \in kept |->
        IF k \notin touched THEN b[k]
        ELSE IF told[k].op = "stale" THEN [b[k] EXCEPT !.presence = "stale"]
        ELSE told[k].row]

ResyncReason(f) ==
  IF f.epoch # browser.epoch THEN "epoch_mismatch"
  ELSE IF f.prev # browser.revision \/ f.revision # browser.revision + 1 THEN "gap" ELSE "none"

TakesDelta(f) ==
  IF ResyncReason(f) # "none" THEN ResetAndResync(browser, ResyncReason(f), FALSE)
  ELSE IF browser.awaiting \/ f.revision <= browser.revision THEN Keeps(browser)
  ELSE Keeps(Authorised([browser EXCEPT !.revision = f.revision, !.frame = "fresh",
                                        !.rows = Patched(@, f.changes)], f))

Receives ==
  /\ wire # << >> /\ wire' = Tail(wire)
  /\ LET f == Head(wire)
     IN \/ f.kind = "snapshot" /\ TakesSnapshot(f)
        \/ f.kind = "heartbeat" /\ TakesHeartbeat(f)
        \/ f.kind = "delta" /\ TakesDelta(f)
        \/ f.kind = "resync_required" /\ ResetAndResync(browser, "gap", FALSE)
  /\ UNCHANGED <<feed, faults, epoch, sub>>

-----------------------------------------------------------------------------
(* The browser's timers, the user, the connection.                           *)

BrowserOnly == UNCHANGED <<feed, faults, epoch, sub, wire>>

\* DISCOVERY_STALE_MS pass without an answer.
ReadExpires ==
  /\ browser.read = "fresh" /\ browser' = [browser EXCEPT !.read = "expired"]
  /\ UNCHANGED requests /\ BrowserOnly

\* DISCOVERY_STALE_MS pass without a frame.
FrameAges ==
  /\ browser.frame = "fresh" /\ browser' = [browser EXCEPT !.frame = "old"]
  /\ UNCHANGED requests /\ BrowserOnly

WindowPasses ==
  /\ browser.window > 0 /\ browser' = [browser EXCEPT !.window = 0]
  /\ UNCHANGED requests /\ BrowserOnly

\* The deferred attempt of an episode, when a read may be asked for again.
RecoveryFires ==
  /\ browser.recovery = "armed" /\ browser.read # "fresh" /\ browser.window < BrowserResyncs
  /\ browser' = Admitted([browser EXCEPT !.recovery = "attempted"])
  /\ requests' = Append(requests, "resync")
  /\ BrowserOnly

\* Faulty variant: the timer leaves the lanes their authority.
DoubtsNothing(b) == [b EXCEPT !.frame = "none"]

Doubts(b) == Distrusting(b)

\* The interval timer of the hook.
ChecksFrames ==
  /\ browser.connected /\ browser.frame # "fresh"
  /\ ~(browser.awaiting /\ browser.read = "fresh")
  /\ browser' = Doubts(browser) /\ browser' # browser
  /\ UNCHANGED requests /\ BrowserOnly

\* The user asks, or comes back to the page.
Refreshes ==
  /\ browser.connected /\ Len(requests) < MaxRequests
  /\ ResetAndResync(browser, "client_error", TRUE)
  /\ browser' # browser /\ BrowserOnly

Offline ==
  Reset([browser EXCEPT !.connected = FALSE, !.read = "none", !.window = 0, !.recovery = "none"])

Dropped ==
  /\ browser' = Offline /\ sub' = Nobody /\ wire' = << >> /\ requests' = << >>

\* The network's doing, or the server's that closes a slow client or one that asks for
\* more snapshots than MAX_RESYNCS_PER_WINDOW allow.
Drops ==
  /\ browser.connected /\ faults < MaxFaults /\ faults' = faults + 1
  /\ Dropped
  /\ UNCHANGED <<feed, epoch>>

\* A new server process has a new epoch and a collector that knows nothing.
ServerRestarts ==
  /\ faults < MaxFaults /\ faults' = faults + 1
  /\ epoch' = epoch + 1
  /\ rows' = << >> /\ revision' = 0 /\ health' = [l \in Lanes |-> "unknown"]
  /\ Dropped

\* The socket opens and the hook subscribes, knowing nothing.
Connects ==
  /\ ~browser.connected
  /\ browser' = [Reset([browser EXCEPT !.connected = TRUE]) EXCEPT !.read = "fresh"]
  /\ requests' = <<"subscribe">>
  /\ BrowserOnly

-----------------------------------------------------------------------------
StreamInit ==
  /\ FeedInit
  /\ epoch = 1 /\ sub = Nobody /\ wire = << >> /\ requests = << >> /\ faults = 0
  /\ browser = [connected |-> FALSE, epoch |-> Nothing, revision |-> 0, rows |-> << >>,
                awaiting |-> TRUE, read |-> "none", window |-> 0, recovery |-> "none",
                frame |-> "none", auth |-> [l \in Lanes |-> "rest"]]

StreamStep ==
  \/ TickEnds
  \/ HandlesSubscribe \/ HandlesResync
  \/ Receives \/ ReadExpires \/ FrameAges \/ WindowPasses \/ RecoveryFires \/ ChecksFrames
  \/ Refreshes \/ Drops \/ ServerRestarts \/ Connects

StreamSpec == StreamInit /\ [][StreamStep]_svars

\* Messages arrive and are handled, time passes. The user does nothing that must
\* happen, and neither ticks nor heartbeats are needed.
StreamFairness ==
  /\ WF_svars(HandlesSubscribe \/ HandlesResync) /\ WF_svars(Receives) /\ WF_svars(Connects)
  /\ WF_svars(ReadExpires) /\ WF_svars(FrameAges) /\ WF_svars(WindowPasses)
  /\ WF_svars(RecoveryFires) /\ WF_svars(ChecksFrames)

StreamFairSpec == StreamSpec /\ StreamFairness

-----------------------------------------------------------------------------
Frames == {"snapshot", "delta", "heartbeat", "resync_required"}

(* Type invariant; the queue keeps to its limit.                              *)
StreamTypeOK ==
  /\ rows \in Partial(Keys, Rows) /\ revision \in Nat /\ health \in Healths
  /\ epoch \in Epochs /\ browser \in Browsers /\ faults \in 0..MaxFaults
  /\ sub.on \in BOOLEAN /\ sub.awaiting \in BOOLEAN /\ Len(sub.queue) <= MaxQueued
  /\ \A i \in DOMAIN wire : wire[i].kind \in Frames
  /\ \A i \in DOMAIN requests : requests[i] \in {"subscribe", "resync"}

\* Snapshot and deltas add up: a browser at the collector's revision shows the
\* collector's rows, whatever was dropped from its queue in between.
CaughtUpIsEqual ==
  ~browser.awaiting /\ browser.epoch = epoch /\ browser.revision = revision
    => browser.rows = rows

StreamConsistent == StreamTypeOK /\ CaughtUpIsEqual

\* A browser is never left believing in a stream the server has stopped: when deltas
\* are withheld, the demand to resync is still on its way or has been heeded.
WithheldIsTold ==
  sub.awaiting => \/ browser.awaiting
                  \/ \E i \in DOMAIN sub.queue : sub.queue[i].kind = "resync_required"
                  \/ \E i \in DOMAIN wire : wire[i].kind = "resync_required"

\* Rows that fall behind for good, in a queue nothing flushes or after a lost demand,
\* do not stay trusted: the browser catches up, or takes the lanes from REST again.
TrustedIsFresh ==
  []<>(Trusting(browser) => browser.epoch = epoch /\ browser.revision = revision)

\* A broken sequence is not forgotten: a browser without a snapshot gets one, or has
\* spent the deferred attempt of the episode, or the answer waits in the queue of a
\* socket that was behind: only the next change of the snapshot flushes it.
EpisodeEnds ==
  browser.awaiting ~> ~browser.awaiting \/ browser.recovery = "attempted" \/ sub.queue # << >>
=============================================================================
