------------------------------ MODULE GjcSupervisor ------------------------------
(***************************************************************************)
(* Runs of the GJC agent in a child process of the server: the supervisor   *)
(* starts the worker when a run needs it, sends it requests down one pipe,  *)
(* hears responses and events up another, and gives every run up when the   *)
(* worker fails. The worker takes requests as they come and answers when    *)
(* it can. A run asks its user at most one question.                        *)
(***************************************************************************)
EXTENDS Integers, FiniteSets, Sequences, SequencesExt

CONSTANTS
  Runs,
  Attended,    \* bound: the runs that may be aborted or ask something
  MaxWorkers,  \* bound: workers started
  MaxRequests  \* bound: aborts and answers sent to a worker

ASSUME SupervisorAssumption ==
  /\ IsFiniteSet(Runs) /\ Attended \subseteq Runs
  /\ MaxWorkers \in Nat \ {0} /\ MaxRequests \in Nat

Workers == 1..MaxWorkers
Requests == 1..MaxRequests

VARIABLES
  platform,   \* "posix", where a kill is done when it is asked for, or "windows"
  supervisor,
  run,
  approval,   \* the app-owned mirror of a run's question, and the request that answers it
  tracked,    \* aborts and answers that wait for a response
  expired,    \* those that do no longer
  requests,   \* how many were sent
  down, up,   \* the frames in the pipes of the supervisor's child
  alive,      \* external: worker processes
  worker      \* the state of the child

gvars == <<platform, supervisor, run, approval, tracked, expired, requests, down, up, alive, worker>>

SupervisorStates ==
  [child : Workers \cup {0}, ready : BOOLEAN, started : 0..MaxWorkers,
   terminating : Workers \cup {0}, refused : BOOLEAN, shutdown : {"no", "asked", "done"}]

(* waits: what ensureWorker waits for; told: complete messages sent for it.    *)
RunStates ==
  [spawned : BOOLEAN, waits : {"nothing", "worker", "termination"}, sent : BOOLEAN,
   aborted : BOOLEAN, forwarded : {"no", "completed", "failed"},
   over : {"no", "resolved", "rejected"}, told : 0..2]

ApprovalStates == [state : {"none", "open", "inFlight"}, id : Requests \cup {0}]

Request == [kind : {"abort", "reply"}, run : Runs, id : Requests]

(* aborting: the aborts that await gjc.                                        *)
WorkerStates ==
  [initialized : {"no", "loading", "yes"}, closed : {"no", "draining", "answered"},
   runs : [Runs -> {"none", "running", "aborted", "over"}],
   question : [Runs -> {"none", "open", "answered", "done"}],
   aborting : SUBSET Request]

Unspawned == [spawned |-> FALSE, waits |-> "nothing", sent |-> FALSE, aborted |-> FALSE,
           forwarded |-> "no", over |-> "no", told |-> 0]

NoApproval == [state |-> "none", id |-> 0]

NewWorker == [initialized |-> "no", closed |-> "no", runs |-> [r \in Runs |-> "none"],
              question |-> [r \in Runs |-> "none"], aborting |-> {}]

Registered(r) == run[r].spawned /\ run[r].over = "no"

Frame(kind, r, id, ok) == [kind |-> kind, run |-> r, id |-> id, ok |-> ok]
ToAll(kind, ok) == [kind |-> kind, ok |-> ok]

\* Faulty variant: a run that forwarded its own terminal message is told another.
FinishedTwice(x, failing) ==
  [x EXCEPT !.over = IF failing /\ ~x.aborted THEN "rejected" ELSE "resolved",
            !.told = IF x.aborted THEN @ ELSE @ + 1]

(* finish: resolved or rejected, and told unless the worker has told already.  *)
Finished(x, failing) ==
  [x EXCEPT !.over = IF failing /\ ~x.aborted THEN "rejected" ELSE "resolved",
            !.told = IF x.aborted \/ x.forwarded # "no" THEN @ ELSE @ + 1]

\* The worker's own terminal message, on its way to the run's user.
Forwarded(x, kind) == [x EXCEPT !.forwarded = kind, !.told = @ + 1]

\* finish also forgets the questions of the run.
Mirrors(approvals) ==
  approval' = [r \in Runs |-> IF run'[r].over # "no" THEN NoApproval ELSE approvals[r]]

Starting == supervisor.child # 0 /\ ~supervisor.ready

\* base: the supervisor's state before; survivors: the processes that are not gone.
StartsWorker(base, survivors) ==
  LET w == base.started + 1
  IN /\ w \in Workers
     /\ supervisor' = [base EXCEPT !.child = w, !.started = w]
     /\ alive' = survivors \cup {w}
     /\ down' = <<ToAll("initialize", TRUE)>> /\ up' = << >> /\ worker' = NewWorker

-----------------------------------------------------------------------------
(* The supervisor's callers: spawn, abort, resolveApproval, shutdown.         *)

SpawnIsRefused(r) ==
  /\ supervisor.refused
  /\ run' = [run EXCEPT ![r] = Finished([@ EXCEPT !.spawned = TRUE], TRUE)]
  /\ UNCHANGED <<supervisor, down, up, alive, worker>>

\* Faulty variant: the worker that is being killed is not waited for.
MustWaitNever == FALSE

\* A failed worker's processes have to be gone before there is another.
MustWait == supervisor.terminating # 0

SpawnWaits(r) ==
  /\ ~supervisor.refused /\ (MustWait \/ Starting)
  /\ MustWait => supervisor.started < MaxWorkers
  /\ run' = [run EXCEPT ![r] = [@ EXCEPT !.spawned = TRUE,
                                         !.waits = IF MustWait THEN "termination" ELSE "worker"]]
  /\ UNCHANGED <<supervisor, down, up, alive, worker>>

SpawnSends(r) ==
  /\ supervisor.ready
  /\ run' = [run EXCEPT ![r] = [@ EXCEPT !.spawned = TRUE, !.sent = TRUE]]
  /\ down' = Append(down, Frame("start", r, 0, TRUE))
  /\ UNCHANGED <<supervisor, up, alive, worker>>

SpawnStarts(r) ==
  /\ supervisor.child = 0 /\ ~supervisor.refused /\ ~MustWait
  /\ StartsWorker(supervisor, alive)
  /\ run' = [run EXCEPT ![r] = [@ EXCEPT !.spawned = TRUE, !.waits = "worker"]]

Spawns(r) ==
  /\ supervisor.shutdown = "no" /\ ~run[r].spawned
  /\ SpawnIsRefused(r) \/ SpawnWaits(r) \/ SpawnSends(r) \/ SpawnStarts(r)
  /\ UNCHANGED <<platform, approval, tracked, expired, requests>>

\* Its promise is shared by everybody who aborts the run meanwhile.
Aborts(r) ==
  /\ r \in Attended /\ Registered(r) /\ \A t \in tracked : ~(t.kind = "abort" /\ t.run = r)
  /\ \/ /\ ~run[r].sent
        /\ run' = [run EXCEPT ![r] = Finished([@ EXCEPT !.aborted = TRUE], FALSE)]
        /\ Mirrors(approval)
        /\ UNCHANGED <<tracked, requests, down>>
     \/ /\ run[r].sent /\ requests < MaxRequests
        /\ requests' = requests + 1
        /\ tracked' = tracked \cup {[kind |-> "abort", run |-> r, id |-> requests']}
        /\ down' = Append(down, Frame("abort", r, requests', TRUE))
        /\ UNCHANGED <<run, approval>>
  /\ UNCHANGED <<platform, supervisor, expired, up, alive, worker>>

Answers(r) ==
  /\ approval[r].state = "open" /\ requests < MaxRequests
  /\ requests' = requests + 1
  /\ approval' = [approval EXCEPT ![r] = [state |-> "inFlight", id |-> requests']]
  /\ tracked' = tracked \cup {[kind |-> "reply", run |-> r, id |-> requests']}
  /\ down' = Append(down, Frame("reply", r, requests', TRUE))
  /\ UNCHANGED <<platform, supervisor, run, expired, up, alive, worker>>

\* stopWorker: without a child there is at most a termination to wait for.
Shutdown ==
  /\ supervisor.shutdown = "no"
  /\ supervisor' = [supervisor EXCEPT !.shutdown =
                      IF supervisor.child = 0 /\ supervisor.terminating = 0 THEN "done" ELSE "asked"]
  /\ IF supervisor.child = 0 THEN UNCHANGED <<run, down>>
     ELSE /\ run' = [r \in Runs |-> IF Registered(r) THEN [run[r] EXCEPT !.aborted = TRUE] ELSE run[r]]
          /\ down' = Append(down, ToAll("shutdown", TRUE))
  /\ UNCHANGED <<platform, approval, tracked, expired, requests, up, alive, worker>>

-----------------------------------------------------------------------------
(* The failure of a worker.                                                   *)

\* Faulty variant: runs that wait for a worker that has failed go on waiting.
GivenUpIfSent(r) ==
  IF Registered(r) /\ run[r].sent THEN Finished(run[r], run[r].forwarded # "completed") ELSE run[r]

\* A terminal message the worker has forwarded is how the run ended.
GivenUp(r) ==
  LET x == [run[r] EXCEPT !.waits = "nothing"]
  IN IF Registered(r) THEN Finished(x, x.forwarded # "completed") ELSE x

(* workerFailed: the tree of a Windows worker that has exited is gone with its *)
(* job object, any other is killed.                                            *)
Fails(exited) ==
  LET kills == platform = "windows" /\ ~exited
  IN /\ supervisor.child # 0
     /\ supervisor' = [supervisor EXCEPT !.child = 0, !.ready = FALSE,
                                         !.terminating = IF kills THEN supervisor.child ELSE 0,
                                         !.shutdown = IF @ = "asked" /\ ~kills THEN "done" ELSE @]
     /\ alive' = IF kills THEN alive ELSE alive \ {supervisor.child}
     /\ run' = [r \in Runs |-> GivenUp(r)]
     /\ Mirrors(approval)
     /\ tracked' = {} /\ expired' = {} /\ down' = << >> /\ up' = << >> /\ worker' = NewWorker
     /\ UNCHANGED <<platform, requests>>

WorkerExits == Fails(TRUE)

\* A frame that cannot be read or sent.
WorkerBreaks == Fails(FALSE)

StartTimesOut == Starting /\ Fails(FALSE)

ShutdownTimesOut == supervisor.shutdown = "asked" /\ Fails(FALSE)

Waiting == {r \in Runs : run[r].waits = "termination"}

\* Whoever waited calls ensureWorker again, even for a run that is over.
TerminationEnds ==
  /\ supervisor.terminating # 0
  /\ LET base == [supervisor EXCEPT !.terminating = 0, !.shutdown = IF @ = "asked" THEN "done" ELSE @]
         survivors == alive \ {supervisor.terminating}
     IN IF Waiting # {} THEN StartsWorker(base, survivors)
        ELSE /\ supervisor' = base /\ alive' = survivors
             /\ UNCHANGED <<down, up, worker>>
  /\ run' = [r \in Runs |-> IF r \in Waiting THEN [run[r] EXCEPT !.waits = "worker"] ELSE run[r]]
  /\ UNCHANGED <<platform, approval, tracked, expired, requests>>

TerminationFails ==
  /\ supervisor.terminating # 0
  /\ supervisor' = [supervisor EXCEPT !.terminating = 0, !.refused = TRUE,
                                      !.shutdown = IF @ = "asked" THEN "done" ELSE @]
  /\ run' = [r \in Runs |-> IF r \in Waiting THEN GivenUp(r) ELSE run[r]]
  /\ UNCHANGED <<platform, approval, tracked, expired, requests, down, up, alive, worker>>

-----------------------------------------------------------------------------
(* What the supervisor hears.                                                 *)

Hears(kind) == up # << >> /\ Head(up).kind = kind /\ up' = Tail(up)

HearsReady ==
  /\ Hears("initialize") /\ Head(up).ok
  /\ LET released == {r \in Runs : run[r].waits = "worker"}
         sent == {r \in released : Registered(r)}
     IN /\ run' = [r \in Runs |-> IF r \in released THEN [run[r] EXCEPT !.waits = "nothing", !.sent = r \in sent]
                                  ELSE run[r]]
        /\ down' = down \o [i \in 1 .. Cardinality(sent) |-> Frame("start", SetToSeq(sent)[i], 0, TRUE)]
  /\ supervisor' = [supervisor EXCEPT !.ready = TRUE]
  /\ UNCHANGED <<platform, approval, tracked, expired, requests, alive, worker>>

\* Its worker fails once it has said that it cannot start, or that it shuts down.
HearsOfTheEnd ==
  /\ up # << >> /\ \/ Head(up).kind = "initialize" /\ ~Head(up).ok
                   \/ Head(up).kind = "shutdown"
  /\ Fails(FALSE)

HearsOutcome ==
  /\ Hears("start")
  /\ LET r == Head(up).run
     IN run' = [run EXCEPT ![r] = Finished(@, @.forwarded = "failed" \/ ~Head(up).ok)]
  /\ Mirrors(approval)
  /\ UNCHANGED <<platform, supervisor, tracked, expired, requests, down, alive, worker>>

\* Faulty variant: an answer that failed leaves the question in flight.
RestoredNever(t) == approval

\* restoreApproval: the entry may be another one by now.
Restored(t) ==
  IF t.kind = "reply" /\ approval[t.run].id = t.id
  THEN [approval EXCEPT ![t.run] = [state |-> "open", id |-> 0]] ELSE approval

HeardLate == Head(up).id \in expired /\ expired' = expired \ {Head(up).id}

HearsAnswer ==
  /\ Hears("abort") \/ Hears("reply")
  /\ LET f == Head(up)
         t == [kind |-> f.kind, run |-> f.run, id |-> f.id]
     IN \/ HeardLate /\ UNCHANGED <<run, approval, tracked>>
        \/ /\ t \in tracked /\ tracked' = tracked \ {t}
           /\ run' = IF f.kind = "abort" /\ f.ok /\ Registered(f.run)
                     THEN [run EXCEPT ![f.run].aborted = TRUE] ELSE run
           /\ approval' = IF f.ok THEN approval ELSE Restored(t)
           /\ UNCHANGED expired
  /\ UNCHANGED <<platform, supervisor, requests, down, alive, worker>>

AnswerTimesOut(t) ==
  /\ tracked' = tracked \ {t} /\ expired' = expired \cup {t.id}
  /\ approval' = Restored(t)
  /\ UNCHANGED <<platform, supervisor, run, requests, down, up, alive, worker>>

\* Events of runs that are over are ignored.
HearsEvent ==
  /\ \E kind \in {"completed", "failed", "ask", "cancel"} : Hears(kind)
  /\ LET f == Head(up)
         r == f.run
     IN IF ~Registered(r) THEN UNCHANGED <<run, approval>>
        ELSE IF f.kind \in {"completed", "failed"}
        THEN /\ run' = [run EXCEPT ![r] = Forwarded(@, f.kind)]
             /\ UNCHANGED approval
        ELSE /\ approval' = [approval EXCEPT ![r] = [state |-> IF f.kind = "ask" THEN "open" ELSE "none",
                                                     id |-> 0]]
             /\ UNCHANGED run
  /\ UNCHANGED <<platform, supervisor, tracked, expired, requests, down, alive, worker>>

-----------------------------------------------------------------------------
(* The worker: GjcWorkerHost, and gjc behind it.                              *)

Takes(kind) == down # << >> /\ Head(down).kind = kind /\ down' = Tail(down)

Says(frames) == up' = up \o frames

WorkerUnchanged == <<platform, supervisor, run, approval, tracked, expired, requests, alive>>

TakesInitialize ==
  /\ Takes("initialize")
  /\ worker' = [worker EXCEPT !.initialized = "loading"]
  /\ UNCHANGED <<WorkerUnchanged, up>>

RuntimeLoads ==
  /\ worker.initialized = "loading"
  /\ \E ok \in BOOLEAN : /\ worker' = [worker EXCEPT !.initialized = IF ok THEN "yes" ELSE "no"]
                         /\ Says(<<ToAll("initialize", ok)>>)
  /\ UNCHANGED <<WorkerUnchanged, down>>

Hosted(r) == worker.runs[r] \in {"running", "aborted"}

\* A request for a closed worker, or for a run it does not have.
TakesInVain ==
  /\ down # << >>
  /\ LET f == Head(down)
     IN /\ \/ f.kind = "start" /\ worker.closed # "no"
           \/ f.kind \in {"abort", "reply"} /\ (worker.closed # "no" \/ ~Hosted(f.run))
        /\ Says(<<[f EXCEPT !.ok = FALSE]>>)
  /\ down' = Tail(down)
  /\ UNCHANGED <<WorkerUnchanged, worker>>

TakesStart ==
  /\ Takes("start") /\ worker.closed = "no"
  /\ worker' = [worker EXCEPT !.runs[Head(down).run] = "running"]
  /\ UNCHANGED <<WorkerUnchanged, up>>

TakesAbort ==
  /\ Takes("abort") /\ worker.closed = "no" /\ Hosted(Head(down).run)
  /\ worker' = [worker EXCEPT !.aborting = @ \cup {[kind |-> "abort", run |-> Head(down).run, id |-> Head(down).id]}]
  /\ UNCHANGED <<WorkerUnchanged, up>>

\* An answer that gjc cannot be given puts the question again.
TakesReply ==
  /\ Takes("reply") /\ worker.closed = "no" /\ Hosted(Head(down).run)
  /\ LET f == Head(down)
     IN \/ /\ worker.question[f.run] \in {"open", "answered"}
           /\ worker' = [worker EXCEPT !.question[f.run] = "answered"] /\ Says(<<f>>)
        \/ /\ worker.question[f.run] \in {"open", "answered"}
           /\ UNCHANGED worker /\ Says(<<Frame("ask", f.run, 0, TRUE), f>>)
        \/ /\ worker.question[f.run] \notin {"open", "answered"}
           /\ UNCHANGED worker /\ Says(<<[f EXCEPT !.ok = FALSE]>>)
  /\ UNCHANGED WorkerUnchanged

\* close aborts every run, which may fail; before the worker is initialized it refuses.
TakesShutdown ==
  /\ Takes("shutdown")
  /\ IF worker.initialized = "yes"
     THEN /\ \E aborted \in SUBSET {r \in Runs : Hosted(r)} :
               worker' = [worker EXCEPT !.closed = "draining",
                            !.runs = [r \in Runs |-> IF r \in aborted THEN "aborted" ELSE worker.runs[r]]]
          /\ UNCHANGED up
     ELSE UNCHANGED worker /\ Says(<<ToAll("shutdown", FALSE)>>)
  /\ UNCHANGED WorkerUnchanged

\* All runs are over, or CLOSE_DRAIN_MS has passed.
Drained ==
  /\ worker.closed = "draining"
  /\ worker' = [worker EXCEPT !.closed = "answered"] /\ Says(<<ToAll("shutdown", TRUE)>>)
  /\ UNCHANGED <<WorkerUnchanged, down>>

\* A run asks, or its gjc rejects the answer.
Asks(r) ==
  /\ r \in Attended \/ worker.question[r] = "answered"
  /\ Hosted(r) /\ worker.question[r] \in {"none", "answered"}
  /\ worker' = [worker EXCEPT !.question[r] = "open"] /\ Says(<<Frame("ask", r, 0, TRUE)>>)
  /\ UNCHANGED <<WorkerUnchanged, down>>

\* By the answer, by another client of gjc, or because gjc cannot be reached.
QuestionEnds(r) ==
  /\ Hosted(r) /\ worker.question[r] \in {"open", "answered"}
  /\ worker' = [worker EXCEPT !.question[r] = "done"] /\ Says(<<Frame("cancel", r, 0, TRUE)>>)
  /\ UNCHANGED <<WorkerUnchanged, down>>

AbortAnswered(t) ==
  /\ \E ok \in BOOLEAN :
       /\ worker.runs[t.run] # "running" => ok
       /\ worker' = [worker EXCEPT !.aborting = @ \ {t}, !.runs[t.run] = IF ok /\ @ = "running" THEN "aborted" ELSE @]
       /\ Says(<<Frame("abort", t.run, t.id, ok)>>)
  /\ UNCHANGED <<WorkerUnchanged, down>>

\* The terminal message of a run that is being aborted is the abort's caller's.
RunEnds(r) ==
  /\ Hosted(r)
  /\ LET silent == worker.runs[r] = "aborted" \/ \E t \in worker.aborting : t.run = r
         cancels == IF worker.question[r] \in {"open", "answered"} THEN <<Frame("cancel", r, 0, TRUE)>> ELSE << >>
     IN \E how \in {"completed", "failed"} :
          Says(cancels \o (IF silent THEN << >> ELSE <<Frame(how, r, 0, TRUE)>>)
                       \o <<Frame("start", r, 0, how = "completed")>>)
  /\ worker' = [worker EXCEPT !.runs[r] = "over", !.question[r] = "done"]
  /\ UNCHANGED <<WorkerUnchanged, down>>

-----------------------------------------------------------------------------
GjcInit ==
  /\ platform \in {"posix", "windows"}
  /\ supervisor = [child |-> 0, ready |-> FALSE, started |-> 0, terminating |-> 0, refused |-> FALSE,
                   shutdown |-> "no"]
  /\ run = [r \in Runs |-> Unspawned] /\ approval = [r \in Runs |-> NoApproval]
  /\ tracked = {} /\ expired = {} /\ requests = 0
  /\ down = << >> /\ up = << >> /\ alive = {} /\ worker = NewWorker

Hearing == HearsReady \/ HearsOfTheEnd \/ HearsOutcome \/ HearsAnswer \/ HearsEvent

GjcStep ==
  \/ \E r \in Runs : Spawns(r) \/ Aborts(r) \/ Answers(r)
  \/ Shutdown \/ WorkerExits \/ WorkerBreaks \/ StartTimesOut \/ ShutdownTimesOut
  \/ TerminationEnds \/ TerminationFails
  \/ Hearing
  \/ \E t \in tracked : AnswerTimesOut(t)
  \/ TakesInitialize \/ RuntimeLoads \/ TakesInVain \/ TakesStart \/ TakesAbort \/ TakesReply \/ TakesShutdown \/ Drained
  \/ \E r \in Runs : Asks(r) \/ QuestionEnds(r) \/ RunEnds(r)
  \/ \E t \in worker.aborting : AbortAnswered(t)

(* Timers of the supervisor run out, and a kill returns, taskkill's after five *)
(* seconds at the latest. Nothing is assumed of the worker.                    *)
GjcFairness ==
  WF_gvars(StartTimesOut) /\ WF_gvars(ShutdownTimesOut) /\ WF_gvars(TerminationEnds \/ TerminationFails)

GjcSpec == GjcInit /\ [][GjcStep]_gvars /\ GjcFairness

-----------------------------------------------------------------------------
GjcTypeOK ==
  /\ platform \in {"posix", "windows"} /\ supervisor \in SupervisorStates
  /\ run \in [Runs -> RunStates] /\ approval \in [Runs -> ApprovalStates]
  /\ tracked \subseteq Request /\ expired \subseteq Requests /\ requests \in 0..MaxRequests
  /\ alive \subseteq Workers /\ worker \in WorkerStates

(* A run that is over was completed once: by the worker's own message or by    *)
(* the supervisor, and by neither when its abort was confirmed, which leaves   *)
(* the completion to whoever aborted it. Before, it was completed at most by   *)
(* the worker.                                                                 *)
RunsAreReported ==
  \A r \in Runs :
    /\ LET reported == run[r].over # "no" /\ ~run[r].aborted
       IN run[r].told = (IF run[r].forwarded # "no" \/ reported THEN 1 ELSE 0)
    /\ run[r].aborted /\ supervisor.shutdown = "no" => run[r].forwarded = "no"

(* There is one worker at a time: a replacement is not started before the      *)
(* processes of the failed one are gone, and none is left behind; on Windows   *)
(* unless it cannot be killed, and then there is never another.                *)
OneWorker ==
  /\ alive \ {supervisor.child, supervisor.terminating} # {} => supervisor.refused
  /\ Cardinality(alive) <= 1
  /\ platform = "posix" /\ supervisor.shutdown = "done" => alive = {}

(* A question that waits for its user at gjc is offered to him, unless it is   *)
(* on its way or an answer is that can still fail; no question is offered that *)
(* nobody would hear the answer of.                                            *)
QuestionIsOffered ==
  \A r \in Runs :
    /\ /\ Registered(r) /\ worker.runs[r] = "running" /\ worker.question[r] = "open"
       /\ \A i \in DOMAIN up : ~(up[i].kind = "ask" /\ up[i].run = r)
       => approval[r].state = "open" \/ \E t \in tracked : t.kind = "reply" /\ t.id = approval[r].id
    /\ approval[r].state # "none" => Registered(r) /\ run[r].sent

(* Nobody waits for ever for a worker to start or to be gone, nor a shutdown   *)
(* for its end, whatever the worker does.                                      *)
NobodyWaits == supervisor.shutdown # "asked" /\ \A r \in Runs : run[r].waits = "nothing"
WaitsEnd == []<>NobodyWaits
=============================================================================
