------------------------------- MODULE ChatRun -------------------------------
(***************************************************************************)
(* The live runs of one chat session: the registry that numbers, buffers    *)
(* and forwards the events of a provider runtime, the handlers of           *)
(* chat.send, chat.abort and chat.subscribe with their awaits, and the      *)
(* browser tabs that lose their socket, reconnect and ask for a replay.     *)
(* The registry keeps sessions apart, so one session stands for all.        *)
(***************************************************************************)
EXTENDS Integers, FiniteSets, FiniteSetsExt

CONSTANTS
  Tabs,         \* browser tabs
  MaxRuns,      \* bound: runs of the session
  MaxEvents,    \* bound: events of a run
  MaxConnects,  \* bound: sockets of a tab
  MaxLoad,      \* bound: runs and sockets together
  BufferSize,   \* MAX_BUFFERED_EVENTS_PER_RUN
  Aborting,     \* whether runs are aborted in this instance
  Persisting,   \* whether the provider's transcript is followed in this instance
  None

ASSUME ConstantsAssumption ==
  /\ MaxRuns \in Nat \ {0} /\ MaxEvents \in Nat \ {0}
  /\ MaxConnects \in Nat \ {0} /\ MaxLoad \in Nat /\ BufferSize \in Nat \ {0}
  /\ Aborting \in BOOLEAN /\ Persisting \in BOOLEAN /\ None \notin Tabs \X Nat

Runs == 1..MaxRuns
Sockets == Tabs \X (1..MaxConnects)
Events == Runs \X (1..MaxEvents)

VARIABLES
  current,    \* the session's entry of the registry: a run, or 0
  run,        \* the runs, also those replaced or evicted
  runtime,    \* provider runtimes: "none", "working", "told" (has said complete), "settled"
  timers,     \* runs whose eviction timer is pending
  sends,      \* sockets whose chat.send waits for the tmux guard
  aborts,     \* runs whose chat.abort waits for the provider
  asked,      \* runs an abort was asked for
  persisted,  \* how many events of each run are in the provider's transcript
  open,       \* sockets the server takes for open
  tab         \* the tabs

registry == <<current, run, timers>>
server == <<registry, runtime, sends, aborts, asked>>
vars == <<server, persisted, open, tab>>

RunRecord == [status : {"new", "running", "completed"}, lastSeq : 0..MaxEvents,
              socket : Sockets \cup {None}, completes : Nat,
              by : {None, "runtime", "settled", "abort"}]

(* phase: "down", then on a new socket "connected", "refreshed", "subscribed" *)
TabRecord == [phase : {"down", "connected", "refreshed", "subscribed"},
              connects : 0..MaxConnects, lastSeq : 0..MaxEvents, got : SUBSET Events]

Socket(c) == <<c, tab[c].connects>>
Alive(s) == s \in Sockets /\ s = Socket(s[1]) /\ tab[s[1]].phase # "down"
Buffered(r) == {q \in 1..run[r].lastSeq : q > run[r].lastSeq - BufferSize}

\* What a tab does with a frame of run r: it keeps it and remembers the highest seq.
Shown(t, r, seqs) ==
  [t EXCEPT !.got = @ \cup ({r} \X seqs), !.lastSeq = Max({@} \cup seqs)]

\* Runs started and sockets opened so far.
Load == Cardinality({r \in Runs : run[r].status # "new"})
        + Cardinality({s \in Sockets : s[2] <= tab[s[1]].connects})

-----------------------------------------------------------------------------
(* The registry.                                                             *)

\* Faulty variant: a second complete of a run passes.
RecordedTwice(r, complete, by) ==
  LET q == run[r].lastSeq + 1
  IN /\ q <= MaxEvents
     /\ run' = [run EXCEPT ![r].lastSeq = q,
                           ![r].completes = IF complete THEN @ + 1 ELSE @,
                           ![r].by = IF complete THEN by ELSE @,
                           ![r].status = IF complete THEN "completed" ELSE @]
     /\ timers' = IF complete THEN timers \cup {r} ELSE timers
     /\ tab' = IF run[r].socket \in open /\ Alive(run[r].socket)
               THEN [tab EXCEPT ![run[r].socket[1]] = Shown(@, r, {q})] ELSE tab

(* decorateAndRecordEvent and the writer's forward: the event gets the next   *)
(* seq, is buffered and sent to the run's socket; a second complete of the    *)
(* run is dropped. A frame for a socket whose tab has gone is lost.           *)
Recorded(r, complete, by) ==
  LET q == run[r].lastSeq + 1
  IN IF complete /\ run[r].status = "completed" THEN UNCHANGED <<run, timers, tab>>
     ELSE /\ q <= MaxEvents
          /\ run' = [run EXCEPT ![r].lastSeq = q,
                                ![r].completes = IF complete THEN @ + 1 ELSE @,
                                ![r].by = IF complete THEN by ELSE @,
                                ![r].status = IF complete THEN "completed" ELSE @]
          /\ timers' = IF complete THEN timers \cup {r} ELSE timers
          /\ tab' = IF run[r].socket \in open /\ Alive(run[r].socket)
                    THEN [tab EXCEPT ![run[r].socket[1]] = Shown(@, r, {q})] ELSE tab

\* completeRun, by session
CompleteRun(by) ==
  IF current # 0 /\ run[current].status = "running" THEN Recorded(current, TRUE, by)
  ELSE UNCHANGED <<run, timers, tab>>

\* Faulty variant: a run without a complete of its own is left alone.
CompleteRunNever(r, by) == UNCHANGED <<run, timers, tab>>

CompleteRunIfCurrent(r, by) ==
  IF current = r /\ run[r].status = "running" THEN Recorded(r, TRUE, by)
  ELSE UNCHANGED <<run, timers, tab>>

\* Faulty variant: every entry is evicted.
EvictsAny(r) ==
  /\ r \in timers
  /\ timers' = timers \ {r}
  /\ current' = 0
  /\ UNCHANGED <<run, runtime, sends, aborts, asked, persisted, open, tab>>

(* The timer looks the session up again: it may evict a later completed run.  *)
Evicts(r) ==
  /\ r \in timers
  /\ timers' = timers \ {r}
  /\ current' = IF current # 0 /\ run[current].status = "completed" THEN 0 ELSE current
  /\ UNCHANGED <<run, runtime, sends, aborts, asked, persisted, open, tab>>

Init ==
  /\ current = 0
  /\ run = [r \in Runs |-> [status |-> "new", lastSeq |-> 0, socket |-> None,
                            completes |-> 0, by |-> None]]
  /\ runtime = [r \in Runs |-> "none"]
  /\ timers = {} /\ sends = {} /\ aborts = {} /\ asked = {}
  /\ persisted = [r \in Runs |-> 0]
  /\ open = {}
  /\ tab = [c \in Tabs |-> [phase |-> "down", connects |-> 0, lastSeq |-> 0, got |-> {}]]

-----------------------------------------------------------------------------
(* The provider runtimes.                                                    *)

\* Also after its complete and after an abort, until it settles.
RuntimeEmits(r) ==
  /\ runtime[r] \in {"working", "told"}
  /\ run[r].lastSeq + 1 < MaxEvents    \* bound: room for the complete
  /\ Recorded(r, FALSE, None)
  /\ UNCHANGED <<current, runtime, sends, aborts, asked, persisted, open>>

RuntimeCompletes(r) ==
  /\ runtime[r] = "working"
  /\ runtime' = [runtime EXCEPT ![r] = "told"]
  /\ Recorded(r, TRUE, "runtime")
  /\ UNCHANGED <<current, sends, aborts, asked, persisted, open>>

(* The promise of the runtime settles: the finally block of handleChatSend.   *)
RuntimeSettles(r) ==
  /\ runtime[r] \in {"working", "told"}
  /\ runtime' = [runtime EXCEPT ![r] = "settled"]
  /\ CompleteRunIfCurrent(r, "settled")
  /\ UNCHANGED <<current, sends, aborts, asked, persisted, open>>

Persists(r) ==
  /\ Persisting /\ persisted[r] < run[r].lastSeq
  /\ persisted' = [persisted EXCEPT ![r] = @ + 1]
  /\ UNCHANGED <<server, open, tab>>

-----------------------------------------------------------------------------
(* The messages of a tab.                                                    *)

(* chat.send awaits the guard against a live tmux pane.                       *)
SendArrives(c) ==
  /\ tab[c].phase = "subscribed" /\ Socket(c) \in open
  /\ Socket(c) \notin sends
  /\ sends' = sends \cup {Socket(c)}
  /\ UNCHANGED <<registry, runtime, aborts, asked, persisted, open, tab>>

\* The pane is live, discovery is unavailable, or the user lost authorization.
SendRefused(s) ==
  /\ s \in sends
  /\ sends' = sends \ {s}
  /\ UNCHANGED <<registry, runtime, aborts, asked, persisted, open, tab>>

\* Faulty variant: the registry does not refuse a second run.
MayStartAlways == TRUE
MayStart == current = 0 \/ run[current].status # "running"

SendProceeds(s) ==
  /\ s \in sends
  /\ sends' = sends \ {s}
  /\ IF MayStart
     THEN \E r \in Runs : /\ Load < MaxLoad /\ run[r].status = "new"
                          /\ \A x \in 1..(r - 1) : run[x].status # "new"
                          /\ current' = r
                          /\ run' = [run EXCEPT ![r].status = "running", ![r].socket = s]
                          /\ runtime' = [runtime EXCEPT ![r] = "working"]
     ELSE UNCHANGED <<current, run, runtime>>
  /\ UNCHANGED <<timers, aborts, asked, persisted, open, tab>>

AbortArrives(c) ==
  /\ Aborting
  /\ tab[c].phase = "subscribed" /\ Socket(c) \in open
  /\ current # 0 /\ run[current].status = "running"
  /\ aborts' = aborts \cup {current}
  /\ asked' = asked \cup {current}
  /\ UNCHANGED <<registry, runtime, sends, persisted, open, tab>>

(* The provider answers; the session's run is completed, or for some          *)
(* providers a failed abort changes nothing.                                  *)
AbortReturns(r) ==
  /\ r \in aborts
  /\ aborts' = aborts \ {r}
  /\ CompleteRun("abort") \/ UNCHANGED <<run, timers, tab>>
  /\ UNCHANGED <<current, runtime, sends, asked, persisted, open>>

\* Faulty variant: the stream moves to the tab without a replay.
SubscribeWithoutReplay(c) ==
  /\ tab[c].phase = "refreshed" /\ Socket(c) \in open
  /\ run' = IF current # 0 /\ run[current].status = "running"
            THEN [run EXCEPT ![current].socket = Socket(c)] ELSE run
  /\ tab' = [tab EXCEPT ![c].phase = "subscribed"]
  /\ UNCHANGED <<current, timers, runtime, sends, aborts, asked, persisted, open>>

(* chat.subscribe: only a running run is attached and replayed.               *)
Subscribe(c) ==
  /\ tab[c].phase = "refreshed" /\ Socket(c) \in open
  /\ LET running == current # 0 /\ run[current].status = "running"
         replay == IF running THEN {q \in Buffered(current) : q > tab[c].lastSeq} ELSE {}
     IN /\ run' = IF running THEN [run EXCEPT ![current].socket = Socket(c)] ELSE run
        /\ tab' = [tab EXCEPT ![c] = [Shown(@, current, replay) EXCEPT !.phase = "subscribed"]]
  /\ UNCHANGED <<current, timers, runtime, sends, aborts, asked, persisted, open>>

-----------------------------------------------------------------------------
(* The tabs and their sockets.                                               *)

Connects(c) ==
  /\ tab[c].phase = "down" /\ tab[c].connects < MaxConnects /\ Load < MaxLoad
  /\ tab' = [tab EXCEPT ![c].phase = "connected", ![c].connects = @ + 1]
  /\ open' = open \cup {<<c, tab[c].connects + 1>>}
  /\ UNCHANGED <<server, persisted>>

(* refreshFromServer: the transcript as it is persisted now.                  *)
Refreshes(c) ==
  /\ tab[c].phase = "connected"
  /\ tab' = [tab EXCEPT ![c].phase = "refreshed",
                        ![c].got = @ \cup {e \in Events : e[2] <= persisted[e[1]]}]
  /\ UNCHANGED <<server, persisted, open>>

\* The connection breaks; the server may learn of it later.
Drops(c) ==
  /\ tab[c].phase # "down"
  /\ tab' = [tab EXCEPT ![c].phase = "down"]
  /\ UNCHANGED <<server, persisted, open>>

ServerCloses(s) ==
  /\ s \in open /\ ~Alive(s)
  /\ open' = open \ {s}
  /\ UNCHANGED <<server, persisted, tab>>

Next ==
  \/ \E r \in Runs : \/ RuntimeEmits(r) \/ RuntimeCompletes(r) \/ RuntimeSettles(r)
                     \/ Persists(r) \/ Evicts(r) \/ AbortReturns(r)
  \/ \E c \in Tabs : \/ SendArrives(c) \/ AbortArrives(c) \/ Subscribe(c)
                     \/ Connects(c) \/ Refreshes(c) \/ Drops(c)
  \/ \E s \in Sockets : SendRefused(s) \/ SendProceeds(s) \/ ServerCloses(s)

Spec == Init /\ [][Next]_vars

(* The promise of a runtime settles at last: its process ends.                *)
FairSpec == Spec /\ \A r \in Runs : WF_vars(RuntimeSettles(r))

-----------------------------------------------------------------------------
(* Properties.                                                               *)

(* Type invariant. *)
TypeOK ==
  /\ current \in 0..MaxRuns
  /\ run \in [Runs -> RunRecord]
  /\ runtime \in [Runs -> {"none", "working", "told", "settled"}]
  /\ timers \subseteq {r \in Runs : run[r].status = "completed"} /\ sends \subseteq Sockets /\ aborts \subseteq Runs
  /\ asked \subseteq Runs /\ open \subseteq Sockets
  /\ persisted \in [Runs -> 0..MaxEvents]
  /\ tab \in [Tabs -> TabRecord]

(* "every provider run ends with exactly one complete": never a second one,   *)
(* whoever completes it, and one at the latest when its runtime has settled.  *)
ExactlyOneComplete ==
  \A r \in Runs : /\ run[r].completes = 1 <=> run[r].status = "completed"
                  /\ run[r].completes <= 1
                  /\ runtime[r] = "settled" => run[r].status = "completed"

(* A run that is processing is the session's entry: it can be found by        *)
(* subscribe and abort, and nothing evicts or replaces it.                    *)
RunningIsCurrent == \A r \in Runs : run[r].status = "running" => current = r

(* Two runtimes never work on one session at a time, unless an abort has      *)
(* completed the run of one of them.                                          *)
OneWorkingRuntime ==
  \A r, x \in Runs : runtime[r] = "working" /\ runtime[x] = "working"
                     /\ run[r].by # "abort" /\ run[x].by # "abort" => r = x

(* A run is completed by its own runtime or by an abort of itself: "the       *)
(* session-keyed completeRun would kill that new run".                        *)
CompletedByItsOwn == \A r \in Runs : run[r].by = "abort" => r \in asked

(* A tab that has subscribed and gets the stream has every event of the run,  *)
(* from the stream, the replay or the transcript, while the buffer suffices:  *)
(* "the server replays only the events this client actually missed". Of the   *)
(* session's first run: the tab keeps its cursor when the next one numbers    *)
(* its events from 1 again.                                                   *)
NothingMissed ==
  \A c \in Tabs :
    /\ tab[c].phase = "subscribed" /\ run[1].socket = Socket(c) /\ Socket(c) \in open
    /\ run[1].status = "running" /\ run[1].lastSeq <= BufferSize
    => \A q \in 1..run[1].lastSeq : <<1, q>> \in tab[c].got

(* Every run ends, aborted or not; no session stays in processing.            *)
EveryRunEnds == \A r \in Runs : run[r].status = "running" ~> run[r].status = "completed"
=============================================================================
