---------------------------- MODULE FleetRequests ----------------------------
(* Calls of a hub on one of its peers: the mutation and read clients, the     *)
(* connection that carries their frames, the peer's request ledger and the    *)
(* handlers that act on tmux (src/server/modules/fleet/rpc, protocol, peer).  *)
(* A handler checks its authority, awaits, and then acts in several tmux      *)
(* commands, while the link may be replaced, the peer may crash, the grant    *)
(* may be revoked and the deadline may pass on either host's clock.           *)
EXTENDS Naturals, Sequences, FiniteSets

CONSTANTS
  Calls,         \* the calls the hub's users make, each with its request id
  OpOf,          \* their operations: "retained" (the ledger keeps the result),
                 \*   "streamed" (pane.input: a mutation it does not keep), "read"
  Capacity,      \* entries of a connection's ledger (FleetRequestLedger)
  MaxGeneration, \* bound: connections the peer accepts
  MaxFaults      \* bound: restarts of the peer and revoked grants

ASSUME FleetRequestsAssumption ==
  /\ IsFiniteSet(Calls)
  /\ OpOf \in [Calls -> {"retained", "streamed", "read"}]
  /\ Capacity \in Nat \ {0}
  /\ MaxGeneration \in Nat
  /\ MaxFaults \in Nat

Generations == 1 .. MaxGeneration
Mutations == {c \in Calls : OpOf[c] # "read"}
Answers == {"applied", "read", "none", "possible"}

VARIABLES
  peer,     \* the peer: persisted generation, active connection (0: none), grant
  jobs,     \* per connection, its ledger: where the handler of each request is
  link,     \* the hub's end: state, accepted generation, dialled connection
  toPeer,   \* requests on their way to the active connection
  toHub,    \* frames on their way on the connection the hub has dialled
  calls,    \* the promises of the clients
  late,     \* calls whose deadline has passed on the hub's clock
  effects   \* history: how often the host began to act for a call, and how it ended

vars == <<peer, jobs, link, toPeer, toHub, calls, late, effects>>

Absent == [state |-> "absent", answers |-> 0, response |-> "none"]
Running == {"verifying", "checking", "acting", "half"}
Jobs == [state : Running \cup {"absent", "complete"}, answers : Nat, response : Answers]

TypeOK ==
  /\ peer \in [accepted : 0 .. MaxGeneration, active : 0 .. MaxGeneration,
               granted : BOOLEAN, faults : 0 .. MaxFaults, epoch : 1 .. MaxFaults + 1]
  /\ jobs \in [Generations -> [Calls -> Jobs]]
  /\ link \in [state : {"offline", "syncing", "online"},
               generation : 0 .. MaxGeneration, dialled : 0 .. MaxGeneration,
               epoch : 0 .. MaxFaults + 1]
  /\ toPeer \in Seq(Calls)
  /\ toHub \in Seq([kind : {"heartbeat"}, epoch : 1 .. MaxFaults + 1]
                   \cup [kind : {"response"}, call : Calls, answer : Answers])
  /\ calls \in [Calls -> [state : {"idle", "waiting", "done"}, generation : 0 .. MaxGeneration,
                          outcome : Answers, lost : BOOLEAN, retried : BOOLEAN]]
  /\ late \in SUBSET Calls
  /\ effects \in [Calls -> [begun : Nat, finished : BOOLEAN, torn : BOOLEAN,
                            refused : BOOLEAN]]

Init ==
  /\ peer = [accepted |-> 0, active |-> 0, granted |-> TRUE, faults |-> 0, epoch |-> 1]
  /\ jobs = [g \in Generations |-> [c \in Calls |-> Absent]]
  /\ link = [state |-> "offline", generation |-> 0, dialled |-> 0, epoch |-> 0]
  /\ toPeer = <<>> /\ toHub = <<>>
  /\ calls = [c \in Calls |-> [state |-> "idle", generation |-> 0, outcome |-> "none",
                               lost |-> FALSE, retried |-> FALSE]]
  /\ late = {}
  /\ effects = [c \in Calls |-> [begun |-> 0, finished |-> FALSE, torn |-> FALSE, refused |-> FALSE]]

-----------------------------------------------------------------------------
(* The clients, on the hub.                                                  *)

Settled(call, outcome) == [call EXCEPT !.state = "done", !.outcome = outcome]

\* Faulty variant: a lost link is taken for a request that was not sent.
MutationHearsNone(call, state, generation) ==
  IF call.state = "waiting" /\ (state # "online" \/ generation # call.generation)
  THEN Settled(call, "none") ELSE call

\* Faulty variant: the client listens for its answer only.
MutationHearsNothing(call, state, generation) == call

(* A mutation in flight hears every status of its host: anything but an       *)
(* online link of its own generation leaves its outcome unknown.              *)
MutationHears(call, state, generation) ==
  IF call.state = "waiting" /\ (state # "online" \/ generation # call.generation)
  THEN Settled(call, "possible") ELSE call

(* A read that lost its link is sent once more when another one is online.    *)
Resent(call, state, generation) ==
  /\ call.state = "waiting" /\ call.lost /\ ~call.retried
  /\ state = "online" /\ generation # call.generation

ReadHears(c, call, state, generation) ==
  IF Resent(call, state, generation)
  THEN IF c \in late THEN Settled(call, "none")
       ELSE [call EXCEPT !.retried = TRUE, !.generation = generation]
  ELSE IF call.state = "waiting" /\ state # "online" THEN [call EXCEPT !.lost = TRUE] ELSE call

Orders(S) == {s \in [1 .. Cardinality(S) -> S] : S \subseteq {s[i] : i \in DOMAIN s}}

(* Every change of the link's status, with what the calls make of it.         *)
Transition(state, generation, dialled, epoch) ==
  LET resent == {c \in Calls \ Mutations : /\ Resent(calls[c], state, generation)
                                           /\ c \notin late}
  IN /\ link' = [link EXCEPT !.state = state, !.generation = generation, !.dialled = dialled,
                                !.epoch = epoch]
     /\ calls' = [c \in Calls |-> IF c \in Mutations THEN MutationHears(calls[c], state, generation)
                                  ELSE ReadHears(c, calls[c], state, generation)]
     /\ \E order \in Orders(resent) :
          toPeer' = IF peer.active = dialled THEN toPeer \o order ELSE toPeer

Sent(c) == IF peer.active = link.dialled THEN Append(toPeer, c) ELSE toPeer

(* A user's call: refused while the link is not online or after the deadline, *)
(* not sent when its frame is too large, and otherwise waiting for an answer. *)
Call(c) ==
  /\ calls[c].state = "idle"
  /\ \/ /\ link.state # "online" \/ c \in late
        /\ calls' = [calls EXCEPT ![c] = Settled(@, "none")]
        /\ UNCHANGED toPeer
     \/ /\ link.state = "online" /\ c \notin late
        /\ calls' = [calls EXCEPT ![c] = [@ EXCEPT !.state = "waiting", !.generation = link.generation]]
        /\ toPeer' = Sent(c)
     \/ /\ link.state = "online" /\ c \notin late
        /\ calls' = [calls EXCEPT ![c] =
             IF c \in Mutations THEN Settled(@, "none")
             ELSE [@ EXCEPT !.state = "waiting", !.generation = link.generation, !.lost = TRUE]]
        /\ UNCHANGED toPeer
  /\ UNCHANGED <<peer, jobs, link, toHub, late, effects>>

(* A hub retry with the same request id on the same connection, of a call     *)
(* whose outcome was left unknown: what the ledger keeps its results for.     *)
Retry(c) ==
  /\ OpOf[c] = "retained" /\ calls[c].state = "done" /\ calls[c].outcome = "possible"
  /\ ~calls[c].retried
  /\ link.state = "online" /\ link.generation = calls[c].generation /\ c \notin late
  /\ calls' = [calls EXCEPT ![c] = [@ EXCEPT !.state = "waiting", !.retried = TRUE]]
  /\ toPeer' = Sent(c)
  /\ UNCHANGED <<peer, jobs, link, toHub, late, effects>>

(* The client's timer at the deadline. *)
TimesOut(c) ==
  /\ calls[c].state = "waiting" /\ c \in late
  /\ calls' = [calls EXCEPT ![c] = Settled(@, IF c \in Mutations THEN "possible" ELSE "none")]
  /\ UNCHANGED <<peer, jobs, link, toPeer, toHub, late, effects>>

(* A response reaches the call that waits for it under this generation.       *)
TakesResponse ==
  /\ toHub # <<>> /\ Head(toHub).kind = "response"
  /\ LET c == Head(toHub).call
     IN calls' = IF calls[c].state = "waiting" /\ calls[c].generation = link.dialled
                 THEN [calls EXCEPT ![c] = Settled(@, Head(toHub).answer)] ELSE calls
  /\ toHub' = Tail(toHub)
  /\ UNCHANGED <<peer, jobs, link, toPeer, late, effects>>

(* A deadline passes on the hub's clock. The peer compares it with a clock of *)
(* its own, so there each check may find it passed.                           *)
DeadlinePasses(c) ==
  /\ c \notin late /\ calls[c].state # "done"
  /\ late' = late \cup {c}
  /\ UNCHANGED <<peer, jobs, link, toPeer, toHub, calls, effects>>

-----------------------------------------------------------------------------
(* The link.                                                                 *)

(* The hub dials and both prove who they are: the peer claims the next        *)
(* generation, which supersedes the connection it had, and opens with a       *)
(* heartbeat. The new connection has a ledger of its own.                     *)
Connects ==
  /\ link.dialled = 0 /\ peer.granted /\ peer.accepted < MaxGeneration
  /\ peer' = [peer EXCEPT !.accepted = @ + 1, !.active = peer.accepted + 1]
  /\ link' = [link EXCEPT !.state = "syncing", !.generation = 0, !.dialled = peer.accepted + 1]
  /\ toPeer' = <<>>
  /\ toHub' = <<[kind |-> "heartbeat", epoch |-> peer.epoch]>>
  /\ UNCHANGED <<jobs, calls, late, effects>>

(* The first heartbeat names the generation. The link is online, unless the   *)
(* peer is a new process whose catalog has to be fetched first.               *)
TakesHeartbeat ==
  /\ toHub # <<>> /\ Head(toHub).kind = "heartbeat"
  /\ Transition(IF link.epoch \in {0, Head(toHub).epoch} THEN "online" ELSE "syncing",
                link.dialled, link.dialled, Head(toHub).epoch)
  /\ toHub' = Tail(toHub)
  /\ UNCHANGED <<peer, jobs, late, effects>>

(* The catalog misses a delta; later it has its snapshot, or the next         *)
(* heartbeat comes.                                                           *)
MarksSyncing ==
  /\ link.state = "online"
  /\ Transition("syncing", link.generation, link.dialled, link.epoch)
  /\ UNCHANGED <<peer, jobs, toHub, late, effects>>

MarksOnline ==
  /\ link.state = "syncing" /\ link.generation # 0
  /\ Transition("online", link.generation, link.dialled, link.epoch)
  /\ UNCHANGED <<peer, jobs, toHub, late, effects>>

(* The hub's socket closes, its lease of heartbeats ends, or a person asks    *)
(* for a new connection. The peer may not know yet.                           *)
HubDisconnects ==
  /\ link.dialled # 0
  /\ Transition("offline", 0, 0, link.epoch)
  /\ toHub' = <<>>
  /\ UNCHANGED <<peer, jobs, late, effects>>

(* The peer's end closes: socket, lease, a full writer, a revoked grant. Its  *)
(* handlers go on, and what they answer has nowhere to go.                    *)
PeerDisconnects ==
  /\ peer.active # 0
  /\ peer' = [peer EXCEPT !.active = 0]
  /\ toPeer' = <<>>
  /\ UNCHANGED <<jobs, link, toHub, calls, late, effects>>

(* The owner revokes the grant in the database. *)
Revokes ==
  /\ peer.granted /\ peer.faults < MaxFaults
  /\ peer' = [peer EXCEPT !.granted = FALSE, !.faults = @ + 1]
  /\ UNCHANGED <<jobs, link, toPeer, toHub, calls, late, effects>>

(* The peer's process dies with its handlers, and starts again.               *)
PeerCrashes ==
  /\ peer.faults < MaxFaults
  /\ peer' = [peer EXCEPT !.active = 0, !.faults = @ + 1, !.epoch = @ + 1]
  /\ jobs' = [g \in Generations |-> [c \in Calls |-> Absent]]
  /\ effects' = [c \in Calls |->
       IF \E g \in Generations : jobs[g][c].state = "half"
       THEN [effects[c] EXCEPT !.torn = TRUE] ELSE effects[c]]
  /\ toPeer' = <<>>
  /\ UNCHANGED <<link, toHub, calls, late>>

-----------------------------------------------------------------------------
(* The peer: the ledger admits a request, and its handler runs.               *)

(* A success whose frame is too large is answered by a failure: 'possible'    *)
(* for a mutation that was applied.                                           *)
Fitting(answer) ==
  {answer} \cup (CASE answer = "applied" -> {"possible"} [] answer = "read" -> {"none"} [] OTHER -> {})

Replies(g, c, answer, copies) ==
  \E a \in Fitting(answer) :
    toHub' = IF peer.active = g /\ link.dialled = g
             THEN toHub \o [i \in 1 .. copies |-> [kind |-> "response", call |-> c, answer |-> a]]
             ELSE toHub

(* admit: a request id the ledger knows is coalesced with its running handler *)
(* or answered with the recorded response; a full ledger refuses the rest.    *)
Admits ==
  /\ peer.active # 0 /\ toPeer # <<>>
  /\ LET g == peer.active
         c == Head(toPeer)
         size == Cardinality({d \in Calls : jobs[g][d].state # "absent"})
     IN \/ /\ jobs[g][c].state = "absent" /\ size < Capacity
           /\ jobs' = [jobs EXCEPT ![g][c] = [Absent EXCEPT !.state = "verifying", !.answers = 1]]
           /\ UNCHANGED <<toHub, effects>>
        \/ /\ jobs[g][c].state = "absent" /\ size >= Capacity
           /\ Replies(g, c, "none", 1)
           /\ effects' = [effects EXCEPT ![c].refused = TRUE]
           /\ UNCHANGED jobs
        \/ /\ jobs[g][c].state \in Running
           /\ jobs' = [jobs EXCEPT ![g][c].answers = @ + 1]
           /\ UNCHANGED <<toHub, effects>>
        \/ /\ jobs[g][c].state = "complete"
           /\ Replies(g, c, jobs[g][c].response, 1)
           /\ UNCHANGED <<jobs, effects>>
  /\ toPeer' = Tail(toPeer)
  /\ UNCHANGED <<peer, link, calls, late>>

\* Faulty variant: no operation is retained.
CompletesForgetting(g, c, answer) ==
  /\ jobs' = [jobs EXCEPT ![g][c] = Absent]
  /\ Replies(g, c, answer, jobs[g][c].answers)

(* complete: the result is kept for the operations the ledger retains, the    *)
(* entry of any other is dropped; every waiting copy of the request is        *)
(* answered if the connection is still the current one.                       *)
Completes(g, c, answer) ==
  /\ jobs' = [jobs EXCEPT ![g][c] =
       IF OpOf[c] = "retained" THEN [state |-> "complete", answers |-> 0, response |-> answer] ELSE Absent]
  /\ Replies(g, c, answer, jobs[g][c].answers)

(* A read takes what it finds, within its deadline.                           *)
Reads(g, c) ==
  /\ OpOf[c] = "read" /\ jobs[g][c].state = "verifying"
  /\ \E answer \in {"read", "none"} : Completes(g, c, answer)
  /\ UNCHANGED <<peer, link, toPeer, calls, late, effects>>

(* A mutation first finds its target afresh and looks at the clock, which may *)
(* refuse it.                                                                 *)
Verifies(g, c) ==
  /\ c \in Mutations /\ jobs[g][c].state = "verifying"
  /\ \/ jobs' = [jobs EXCEPT ![g][c].state = "checking"] /\ UNCHANGED toHub
     \/ Completes(g, c, "none")
  /\ UNCHANGED <<peer, link, toPeer, calls, late, effects>>

\* Faulty variant: only the grant is looked up.
AuthorisedByGrant(g) == peer.granted

(* finalCheck: the connection is the one accepted last and its hub is granted. *)
(* The clock and the protection of the hosted pane may refuse it too.         *)
Authorised(g) == g = peer.accepted /\ peer.granted

Checks(g, c) ==
  /\ jobs[g][c].state = "checking"
  /\ \/ /\ Authorised(g)
        /\ jobs' = [jobs EXCEPT ![g][c].state = "acting"]
        /\ UNCHANGED toHub
     \/ Completes(g, c, "none")
  /\ UNCHANGED <<peer, link, toPeer, calls, late, effects>>

(* The pane is identified once more and the first tmux command is given, or   *)
(* refused: a conflict is answered as 'none', another error as 'possible'.    *)
Begins(g, c) ==
  /\ jobs[g][c].state = "acting"
  /\ \/ /\ jobs' = [jobs EXCEPT ![g][c].state = "half"]
        /\ effects' = [effects EXCEPT ![c].begun = @ + 1]
        /\ UNCHANGED toHub
     \/ \E answer \in {"none", "possible"} : Completes(g, c, answer) /\ UNCHANGED effects
  /\ UNCHANGED <<peer, link, toPeer, calls, late>>

(* The other commands follow: Enter after the paste, the next selection key.  *)
Finishes(g, c) ==
  /\ jobs[g][c].state = "half"
  /\ effects' = [effects EXCEPT ![c].finished = TRUE]
  /\ Completes(g, c, "applied")
  /\ UNCHANGED <<peer, link, toPeer, calls, late>>

(* One of them fails: requireTmuxSuccess throws a conflict, which is answered *)
(* as any other, or the error is not a mapped one.                            *)
Tears(g, c) ==
  /\ jobs[g][c].state = "half"
  /\ effects' = [effects EXCEPT ![c].torn = TRUE]
  /\ \E answer \in {"none", "possible"} : Completes(g, c, answer)
  /\ UNCHANGED <<peer, link, toPeer, calls, late>>

-----------------------------------------------------------------------------
Handles(g, c) ==
  Reads(g, c) \/ Verifies(g, c) \/ Checks(g, c) \/ Begins(g, c) \/ Finishes(g, c) \/ Tears(g, c)

Next ==
  \/ \E c \in Calls : Call(c) \/ Retry(c) \/ TimesOut(c) \/ DeadlinePasses(c)
  \/ TakesResponse \/ TakesHeartbeat \/ Connects
  \/ MarksSyncing \/ MarksOnline \/ HubDisconnects
  \/ PeerDisconnects \/ Revokes \/ PeerCrashes
  \/ Admits
  \/ \E g \in Generations, c \in Calls : Handles(g, c)

Spec == Init /\ [][Next]_vars

(* Frames of a connection are taken in turn, a handler goes on to its end, and *)
(* the hub notices that the peer is gone when its heartbeats cease.           *)
Fairness ==
  /\ WF_vars(TakesResponse \/ TakesHeartbeat)
  /\ WF_vars(Admits)
  /\ WF_vars(link.dialled # peer.active /\ HubDisconnects)
  /\ WF_vars(\E g \in Generations, c \in Calls : Handles(g, c))

FairSpec == Spec /\ Fairness

-----------------------------------------------------------------------------
(* Properties.                                                               *)

(* A mutation acts at most once, whatever is repeated, dropped or replaced:   *)
(* "at-most-once within one accepted connection generation", no replay after. *)
AtMostOnce == \A c \in Calls : effects[c].begun <= 1

(* What the caller is told is true, and stays true: 'applied' after all of it *)
(* was done, 'none' only if nothing was and nothing will be, if a conflict    *)
(* between two tmux commands tore it, or if it is the answer to the first     *)
(* copy of a repeated request, which a full ledger refused and forgot.        *)
Truthful ==
  \A c \in Mutations :
    calls[c].state = "done" =>
      /\ calls[c].outcome = "applied" => effects[c].finished
      /\ calls[c].outcome = "none" =>
           \/ effects[c].begun = 0 \/ effects[c].torn
           \/ effects[c].refused /\ calls[c].retried

(* Once the peer has accepted a newer connection, a mutation of an older one  *)
(* that was not past its final check changes nothing any more, even if its    *)
(* caller, told that the outcome is unknown, has long reconnected.            *)
OldLinkIsFenced ==
  [][\A g \in Generations, c \in Calls :
       g < peer.accepted /\ jobs[g][c].state \in {"absent", "verifying", "checking"}
         => jobs'[g][c].state \in {"absent", "verifying", "checking", "complete"}]_vars

(* The deadline is the last resort: a mutation in flight is settled by its    *)
(* answer, or by the loss of the link that was to bring it.                   *)
Settles == \A c \in Mutations : calls[c].state = "waiting" ~> calls[c].state = "done"
=============================================================================
