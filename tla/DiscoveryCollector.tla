--------------------------- MODULE DiscoveryCollector ---------------------------
(***************************************************************************)
(* The discovery collector: it scans the host's tmux panes and keeps one    *)
(* numbered snapshot of the agent sessions found there. A tick probes the   *)
(* panes first and scans only when something may have changed; callers may  *)
(* force a scan at any time. The host changes while a scan is under way.    *)
(***************************************************************************)
EXTENDS DiscoveryFeed

CONSTANTS
  Grace,         \* GRACE_TICKS_LIVE and GRACE_TICKS_EXTERNAL
  BindingGrace,  \* GJC_BINDING_GRACE_TICKS
  DegradeAfter,  \* UNAVAILABLE_DEGRADE_TICKS
  MaxChanges,    \* bound: changes of the host
  MaxFailures,   \* bound: probes and scans that fail
  None

ASSUME CollectorAssumption ==
  /\ {Grace, BindingGrace, DegradeAfter} \subseteq Nat \ {0}
  /\ {MaxChanges, MaxFailures} \subseteq Nat

VARIABLES
  world,     \* external: what runs in the host's panes
  missing,   \* scans in a row that did not find a row's pane
  unbound,   \* scans in a row that found a live row without its conversation
  failures,  \* failed scans of each lane in a row
  tick,      \* the tick under way, and what the next one has to do
  lastFull,  \* the last scan of both lanes: "never", "recent", or "old" enough for a fallback
  changes,   \* how often the host has changed
  failed     \* how many probes and scans have failed

observed == <<feed, missing, unbound, failures>>
collector == <<observed, tick, lastFull>>
cvars == <<world, collector, changes, failed>>

(* print: the fingerprint the tick has probed; last: that of the last scan    *)
(* that followed a probe; full: a forced tick may join this one.              *)
Prints == Partial(Keys, Processes) \cup {None}
Ticks == [phase : {"idle", "probe", "scan", "apply"}, full : BOOLEAN, again : BOOLEAN,
          required : BOOLEAN, print : Prints, last : Prints,
          ok : [Lanes -> BOOLEAN], panes : Partial(Keys, Contents)]

Unscanned ==
  [phase |-> "idle", full |-> FALSE, again |-> FALSE, required |-> FALSE,
   print |-> None, last |-> None, ok |-> [l \in Lanes |-> TRUE], panes |-> << >>]

CollectorInit ==
  /\ FeedInit
  /\ world = << >> /\ changes = 0 /\ failed = 0
  /\ missing = [k \in Keys |-> 0] /\ unbound = [k \in Keys |-> 0] /\ failures = [l \in Lanes |-> 0]
  /\ tick = Unscanned /\ lastFull = "never"

-----------------------------------------------------------------------------
(* The host.                                                                 *)

Without(f, k) == [j \in DOMAIN f \ {k} |-> f[j]]
With(f, k, v) == [j \in DOMAIN f \cup {k} |-> IF j = k THEN v ELSE f[j]]

\* A pane gets an agent or another one, its conversation changes, or it is gone;
\* a session name is in use once.
HostChanges ==
  /\ changes < MaxChanges
  /\ \E k \in Keys :
       \/ /\ k \in DOMAIN world
          /\ world' = Without(world, k)
       \/ /\ \A j \in DOMAIN world \ {k} : NameOf[j] # NameOf[k]
          /\ \E c \in Contents : world' = With(world, k, c)
  /\ world' # world
  /\ changes' = changes + 1
  /\ UNCHANGED <<collector, failed>>

\* What hostPaneFingerprint tells apart: panes and their processes, no conversation.
Fingerprint == [k \in DOMAIN world |-> world[k].process]

-----------------------------------------------------------------------------
(* A tick.                                                                   *)

\* Faulty variant: a probe that finds no change always saves the scan.
NeedsFullUnaged(forced) ==
  \/ forced \/ tick.required
  \/ lastFull = "never"
  \/ \E k \in DOMAIN rows : rows[k].presence = "stale"

NeedsFull(forced) ==
  \/ forced \/ tick.required
  \/ lastFull \in {"never", "old"}
  \/ \E k \in DOMAIN rows : rows[k].presence = "stale"

\* A forced tick joins the scan under way if that one is full, else it comes after it.
RunTick(forced) ==
  /\ IF tick.phase = "idle"
     THEN tick' = [tick EXCEPT !.phase = IF NeedsFull(forced) THEN "scan" ELSE "probe",
                               !.full = NeedsFull(forced), !.print = None]
     ELSE forced /\ ~tick.full /\ tick' = [tick EXCEPT !.again = TRUE]
  /\ UNCHANGED <<world, observed, lastFull, changes, failed>>

TimerTick == tick.phase = "idle" /\ RunTick(FALSE)

\* forceRefresh, tick, ensureFresh.
ForcedTick == RunTick(TRUE)

Ended(t) ==
  [t EXCEPT !.phase = IF t.again THEN "scan" ELSE "idle", !.full = t.again, !.again = FALSE,
            !.print = None, !.ok = [l \in Lanes |-> TRUE], !.panes = << >>]

TrackedProcessesAreAlive ==
  \A k \in DOMAIN rows : k \in DOMAIN world /\ world[k].process = rows[k].process

Unchanged == Fingerprint = tick.last /\ TrackedProcessesAreAlive

ProbeFails ==
  /\ tick.phase = "probe" /\ failed < MaxFailures
  /\ tick' = [tick EXCEPT !.phase = "scan"]
  /\ failed' = failed + 1
  /\ UNCHANGED <<world, observed, lastFull, changes>>

ProbeFindsChange ==
  /\ tick.phase = "probe" /\ ~Unchanged
  /\ tick' = [tick EXCEPT !.phase = "scan", !.full = TRUE, !.print = Fingerprint]
  /\ UNCHANGED <<world, observed, lastFull, changes, failed>>

ProbeSkips ==
  /\ tick.phase = "probe" /\ Unchanged
  /\ tick' = Ended(tick)
  /\ UNCHANGED <<world, observed, lastFull, changes, failed>>

\* Both scanners read the host; each may fail.
Scan ==
  /\ tick.phase = "scan"
  /\ \E unread \in SUBSET Lanes :
       /\ failed + Cardinality(unread) <= MaxFailures
       /\ failed' = failed + Cardinality(unread)
       /\ tick' = [tick EXCEPT !.phase = "apply",
                               !.ok = [l \in Lanes |-> l \notin unread],
                               !.panes = [k \in {j \in DOMAIN world : LaneOf[j] \notin unread}
                                            |-> world[k]]]
  /\ UNCHANGED <<world, observed, lastFull, changes>>

-----------------------------------------------------------------------------
(* What a scan does to the rows of the lanes it could read.                  *)

Found(k) == k \in DOMAIN tick.panes
Tracked(k) == k \in DOMAIN rows

\* Another session has the row's name.
NameTaken(k) ==
  ~Found(k) /\ \E j \in DOMAIN tick.panes : LaneOf[j] = LaneOf[k] /\ NameOf[j] = NameOf[k]

TemporarilyUnbound(k) ==
  /\ Tracked(k) /\ Found(k) /\ LaneOf[k] = "live"
  /\ rows[k].process = tick.panes[k].process
  /\ rows[k].conversation # Idle /\ tick.panes[k].conversation = Idle

Held(k) == TemporarilyUnbound(k) /\ unbound[k] + 1 < BindingGrace

\* Faulty variant: the first scan that misses a row removes it.
GoneAtOnce(k) == Tracked(k) /\ tick.ok[LaneOf[k]] /\ ~Found(k)

Gone(k) ==
  /\ Tracked(k) /\ tick.ok[LaneOf[k]] /\ ~Found(k)
  /\ NameTaken(k) \/ (rows[k].presence = "stale" /\ missing[k] + 1 >= Grace)

RowAfter(k) ==
  IF ~tick.ok[LaneOf[k]] THEN rows[k]
  ELSE IF ~Found(k) THEN [rows[k] EXCEPT !.presence = "stale"]
  ELSE IF Held(k) THEN [rows[k] EXCEPT !.presence = "present"]
  ELSE [process |-> tick.panes[k].process, conversation |-> tick.panes[k].conversation,
        presence |-> "present"]

ApplyAvailable ==
  /\ rows' = [k \in {j \in Keys : (Tracked(j) /\ ~Gone(j)) \/ Found(j)} |-> RowAfter(k)]
  /\ missing' = [k \in Keys |->
       IF ~tick.ok[LaneOf[k]] THEN missing[k]
       ELSE IF Found(k) \/ ~Tracked(k) \/ Gone(k) THEN 0
       ELSE IF rows[k].presence = "present" THEN 1 ELSE missing[k] + 1]
  /\ unbound' = [k \in Keys |->
       IF Held(k) THEN unbound[k] + 1
       ELSE IF Found(k) \/ Gone(k) THEN 0 ELSE unbound[k]]

ApplyHealth ==
  /\ failures' = [l \in Lanes |-> IF tick.ok[l] THEN 0 ELSE failures[l] + 1]
  /\ health' = [l \in Lanes |->
       IF tick.ok[l] THEN "ok"
       ELSE IF failures[l] + 1 = DegradeAfter THEN "failed" ELSE health[l]]

Apply ==
  /\ tick.phase = "apply"
  /\ ApplyAvailable
  /\ ApplyHealth
  /\ revision' = IF rows' # rows \/ health' # health THEN revision + 1 ELSE revision
  /\ LET all == \A l \in Lanes : tick.ok[l]
     IN /\ lastFull' = IF all THEN "recent" ELSE lastFull
        /\ tick' = Ended([tick EXCEPT !.required = ~all,
                                      !.last = IF all /\ tick.print # None THEN tick.print ELSE @])
  /\ UNCHANGED <<world, changes, failed>>

\* FULL_SCAN_FALLBACK_MS pass.
FullScanAges ==
  /\ lastFull = "recent" /\ lastFull' = "old"
  /\ UNCHANGED <<world, observed, tick, changes, failed>>

CollectorStep ==
  \/ HostChanges \/ TimerTick \/ ForcedTick
  \/ ProbeFails \/ ProbeFindsChange \/ ProbeSkips \/ Scan \/ Apply \/ FullScanAges

CollectorSpec == CollectorInit /\ [][CollectorStep]_cvars

\* The timer runs, scans return, time passes; nobody has to force a scan.
CollectorFairness ==
  /\ WF_cvars(TimerTick) /\ WF_cvars(ProbeFindsChange \/ ProbeSkips)
  /\ WF_cvars(Scan) /\ WF_cvars(Apply) /\ WF_cvars(FullScanAges)

-----------------------------------------------------------------------------
(* Type invariant; the counters stay below their limits, and a row is stale   *)
(* exactly while scans that missed it are counted.                            *)
CollectorTypeOK ==
  /\ world \in Partial(Keys, Contents) /\ rows \in Partial(Keys, Rows)
  /\ missing \in [Keys -> 0..(Grace - 1)] /\ unbound \in [Keys -> 0..(BindingGrace - 1)]
  /\ \A k \in Keys : missing[k] > 0 <=> k \in DOMAIN rows /\ rows[k].presence = "stale"
  /\ revision \in Nat /\ health \in Healths /\ failures \in [Lanes -> 0..MaxFailures]
  /\ tick \in Ticks /\ lastFull \in {"never", "recent", "old"}
  /\ changes \in 0..MaxChanges /\ failed \in 0..MaxFailures

\* What listeners see of a tick is a snapshot of the feed, with the next number, or
\* nothing new: the stream sends no delta for a number it has sent already.
ImplementsFeed == FeedSpec

\* Once the host stops changing the snapshot shows it as it is, whatever the probes
\* have saved and whichever scan a forced tick has joined.
RowsCatchUp ==
  <>[](rows = [k \in DOMAIN world |-> [process |-> world[k].process,
                                      conversation |-> world[k].conversation,
                                      presence |-> "present"]])
=============================================================================
