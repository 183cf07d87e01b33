------------------------- MODULE GjcSupervisor_proofs -------------------------
(***************************************************************************)
(* For any number of runs, workers and requests: there is one worker at a   *)
(* time, whatever fails and however long a kill takes; a run that is over   *)
(* was reported to its user once; and a question is in front of the user    *)
(* as long as gjc waits for the answer.                                     *)
(***************************************************************************)
EXTENDS GjcSupervisor, FiniteSetTheorems, SequenceTheorems, TLAPS

-----------------------------------------------------------------------------
(* The processes.                                                            *)

SupervisorType ==
  /\ supervisor \in SupervisorStates /\ platform \in {"posix", "windows"} /\ alive \subseteq Workers

(* The processes there may be are those the supervisor knows of, one at most, *)
(* until a kill has failed; then there is never a child again.                *)
Accounted ==
  /\ supervisor.child = 0 \/ supervisor.terminating = 0
  /\ supervisor.refused => supervisor.child = 0 /\ supervisor.terminating = 0
  /\ supervisor.refused \/ alive \subseteq {supervisor.child, supervisor.terminating}
  /\ \A v, w \in alive : v = w

\* Where a kill is done at once, nothing is left to wait for.
KilledAtOnce ==
  platform = "posix" =>
    /\ supervisor.terminating = 0 /\ ~supervisor.refused
    /\ supervisor.shutdown = "done" => supervisor.child = 0

GInv == SupervisorType /\ Accounted /\ KilledAtOnce

LEMMA InitGInv == GjcInit => GInv
BY SupervisorAssumption
   DEF GjcInit, GInv, SupervisorType, SupervisorStates, Accounted, KilledAtOnce, Workers

\* A step that touches no process: it may say that the worker is ready.
LEMMA QuietStep ==
  ASSUME GInv, UNCHANGED <<platform, alive>>,
         supervisor' = supervisor \/ supervisor' = [supervisor EXCEPT !.ready = TRUE]
  PROVE  GInv'
BY DEF GInv, SupervisorType, SupervisorStates, Accounted, KilledAtOnce

\* A worker is started where nothing is left of another.
LEMMA StartStep ==
  ASSUME GInv, NEW base \in SupervisorStates, NEW survivors,
         base.child = 0, base.terminating = 0, ~base.refused,
         platform = "posix" => base.shutdown # "done",
         survivors = {},
         StartsWorker(base, survivors), platform' = platform
  PROVE  GInv'
<1>1. /\ base.started + 1 \in Workers
      /\ supervisor' = [base EXCEPT !.child = base.started + 1, !.started = base.started + 1]
      /\ alive' = {base.started + 1}
  BY DEF StartsWorker
<1>2. supervisor' \in SupervisorStates
  <2>1. base.started + 1 \in Workers \cup {0} /\ base.started + 1 \in 0 .. MaxWorkers
    BY <1>1, SupervisorAssumption DEF SupervisorStates, Workers
  <2> QED BY <1>1, <2>1 DEF SupervisorStates
<1>3. /\ supervisor'.terminating = 0 /\ ~supervisor'.refused
      /\ supervisor'.child = base.started + 1 /\ supervisor'.shutdown = base.shutdown
  BY <1>1 DEF SupervisorStates
<1> QED BY <1>1, <1>2, <1>3 DEF GInv, SupervisorType, Accounted, KilledAtOnce

LEMMA SpawnsKeeps == ASSUME GInv, NEW r \in Runs, Spawns(r) PROVE GInv'
<1>1. CASE SpawnStarts(r)
  <2>1. /\ supervisor.child = 0 /\ supervisor.terminating = 0 /\ ~supervisor.refused
        /\ supervisor.shutdown = "no" /\ StartsWorker(supervisor, alive) /\ platform' = platform
    BY <1>1 DEF SpawnStarts, Spawns, MustWait
  <2>2. alive = {} /\ supervisor \in SupervisorStates
    BY <2>1, SupervisorAssumption DEF GInv, SupervisorType, Accounted, Workers
  <2> QED BY <2>1, <2>2, StartStep
<1>2. CASE SpawnIsRefused(r) \/ SpawnWaits(r) \/ SpawnSends(r)
  BY <1>2, QuietStep DEF SpawnIsRefused, SpawnWaits, SpawnSends, Spawns
<1> QED BY <1>1, <1>2 DEF Spawns

LEMMA ShutdownKeeps == ASSUME GInv, Shutdown PROVE GInv'
BY DEF Shutdown, GInv, SupervisorType, SupervisorStates, Accounted, KilledAtOnce

\* The child fails: it is gone, or the only one that is waited for.
LEMMA FailsKeeps == ASSUME GInv, NEW exited \in BOOLEAN, Fails(exited) PROVE GInv'
<1> DEFINE kills == platform = "windows" /\ ~exited
<1>1. /\ supervisor.child # 0 /\ platform' = platform
      /\ supervisor' = [supervisor EXCEPT !.child = 0, !.ready = FALSE,
                                          !.terminating = IF kills THEN supervisor.child ELSE 0,
                                          !.shutdown = IF @ = "asked" /\ ~kills THEN "done" ELSE @]
      /\ alive' = IF kills THEN alive ELSE alive \ {supervisor.child}
  BY DEF Fails
<1>2. /\ supervisor \in SupervisorStates /\ supervisor.terminating = 0 /\ ~supervisor.refused
      /\ alive \subseteq {supervisor.child} /\ alive \subseteq Workers
      /\ supervisor.child \in Workers
  BY <1>1, SupervisorAssumption DEF GInv, SupervisorType, SupervisorStates, Accounted, Workers
<1> HIDE DEF kills
<1>3. /\ supervisor' \in SupervisorStates /\ supervisor'.child = 0
      /\ supervisor'.terminating = IF kills THEN supervisor.child ELSE 0
      /\ ~supervisor'.refused
  BY <1>1, <1>2 DEF SupervisorStates
<1>4. platform = "posix" => ~kills
  BY DEF kills
<1> QED BY <1>1, <1>2, <1>3, <1>4 DEF GInv, SupervisorType, Accounted, KilledAtOnce

LEMMA TerminationKeeps ==
  ASSUME GInv, TerminationEnds \/ TerminationFails
  PROVE  GInv'
<1>1. /\ supervisor.terminating # 0 /\ platform' = platform /\ supervisor \in SupervisorStates
      /\ supervisor.child = 0 /\ ~supervisor.refused /\ platform # "posix"
      /\ alive \subseteq {supervisor.terminating} /\ alive \subseteq Workers
  BY SupervisorAssumption
     DEF TerminationEnds, TerminationFails, GInv, SupervisorType, Accounted, KilledAtOnce, Workers
<1>2. CASE TerminationEnds
  <2> DEFINE base == [supervisor EXCEPT !.terminating = 0,
                                        !.shutdown = IF @ = "asked" THEN "done" ELSE @]
             survivors == alive \ {supervisor.terminating}
  <2>1. /\ base \in SupervisorStates /\ base.child = 0 /\ base.terminating = 0 /\ ~base.refused
        /\ survivors = {}
    BY <1>1 DEF SupervisorStates
  <2>2. \/ StartsWorker(base, survivors)
        \/ supervisor' = base /\ alive' = survivors
    BY <1>2 DEF TerminationEnds
  <2> HIDE DEF base, survivors
  <2>3. CASE StartsWorker(base, survivors)
    BY <1>1, <2>1, <2>3, StartStep
  <2>4. CASE supervisor' = base /\ alive' = survivors
    BY <1>1, <2>1, <2>4 DEF GInv, SupervisorType, Accounted, KilledAtOnce
  <2> QED BY <2>2, <2>3, <2>4
<1>3. CASE TerminationFails
  BY <1>1, <1>3 DEF TerminationFails, GInv, SupervisorType, SupervisorStates, Accounted, KilledAtOnce
<1> QED BY <1>2, <1>3

LEMMA StepKeepsGInv == GInv /\ [GjcStep]_gvars => GInv'
<1> SUFFICES ASSUME GInv, [GjcStep]_gvars PROVE GInv'
  OBVIOUS
<1>1. CASE \E r \in Runs : Spawns(r)
  BY <1>1, SpawnsKeeps
<1>2. CASE Shutdown
  BY <1>2, ShutdownKeeps
<1>3. CASE WorkerExits \/ WorkerBreaks \/ StartTimesOut \/ ShutdownTimesOut \/ HearsOfTheEnd
  BY <1>3, FailsKeeps DEF WorkerExits, WorkerBreaks, StartTimesOut, ShutdownTimesOut, HearsOfTheEnd
<1>4. CASE TerminationEnds \/ TerminationFails
  BY <1>4, TerminationKeeps
<1>5. CASE HearsReady \/ HearsOutcome \/ HearsAnswer \/ HearsEvent
           \/ (\E r \in Runs : Aborts(r) \/ Answers(r)) \/ (\E t \in tracked : AnswerTimesOut(t))
  BY <1>5, QuietStep DEF HearsReady, HearsOutcome, HearsAnswer, HearsEvent, Aborts, Answers, AnswerTimesOut
<1>6. CASE \/ TakesInitialize \/ RuntimeLoads \/ TakesInVain \/ TakesStart \/ TakesAbort \/ TakesReply
           \/ TakesShutdown \/ Drained
           \/ \E r \in Runs : Asks(r) \/ QuestionEnds(r) \/ RunEnds(r)
           \/ \E t \in worker.aborting : AbortAnswered(t)
  BY <1>6, QuietStep
     DEF TakesInitialize, RuntimeLoads, TakesInVain, TakesStart, TakesAbort, TakesReply, TakesShutdown,
         Drained, Asks, QuestionEnds, RunEnds, AbortAnswered, WorkerUnchanged
<1>7. CASE UNCHANGED gvars
  BY <1>7, QuietStep DEF gvars
<1> QED BY <1>1, <1>2, <1>3, <1>4, <1>5, <1>6, <1>7 DEF GjcStep, Hearing

(* There is one worker at a time (ensureWorker waits for the termination of   *)
(* the failed one, workerFailed and terminateWorker): the invariant adds that *)
(* a child and a worker that is being killed are never there together.        *)
THEOREM OneAtATime == GjcSpec => []OneWorker
<1>1. GInv => OneWorker
  <2> SUFFICES ASSUME GInv PROVE OneWorker
    OBVIOUS
  <2>1. alive \ {supervisor.child, supervisor.terminating} # {} => supervisor.refused
    BY DEF GInv, Accounted
  <2>2. Cardinality(alive) <= 1
    <3>1. CASE alive = {}
      BY <3>1, FS_EmptySet
    <3>2. ASSUME NEW w \in alive PROVE Cardinality(alive) <= 1
      <4>1. alive = {w}
        BY <3>2 DEF GInv, Accounted
      <4> QED BY <4>1, FS_Singleton
    <3> QED BY <3>1, <3>2
  <2>3. platform = "posix" /\ supervisor.shutdown = "done" => alive = {}
    BY SupervisorAssumption DEF GInv, SupervisorType, Accounted, KilledAtOnce, Workers
  <2> QED BY <2>1, <2>2, <2>3 DEF OneWorker
<1> QED BY <1>1, InitGInv, StepKeepsGInv, PTL DEF GjcSpec

-----------------------------------------------------------------------------
(* The frames in a pipe. Of the order they are in only this is used: taking   *)
(* one leaves the others, and a frame that is there once is gone when taken.  *)

RunKinds == {"start", "abort", "reply", "completed", "failed", "ask", "cancel"}
Wire == {f \in [kind : RunKinds, run : Runs, id : Requests \cup {0}, ok : BOOLEAN] :
           f.kind \in {"abort", "reply"} => f.id \in Requests}
        \cup [kind : {"initialize", "shutdown"}, ok : BOOLEAN]

FramesOf(s, r) == {f \in Range(s) : f.kind \in RunKinds /\ f.run = r}
Has(s, kinds, r) == \E f \in FramesOf(s, r) : f.kind \in kinds
Once(s, kinds, r) ==
  \A i, j \in DOMAIN s : s[i].kind \in kinds /\ s[i].run = r /\ s[j].kind \in kinds /\ s[j].run = r
                           => i = j

\* t has no frames of r that s has not, and none of them more often.
Less(t, s, r) ==
  /\ FramesOf(t, r) \subseteq FramesOf(s, r)
  /\ \A kinds \in SUBSET RunKinds : Once(s, kinds, r) => Once(t, kinds, r)

LEMMA WireKinds ==
  \A f \in Wire : \/ /\ f.kind \in RunKinds /\ f.run \in Runs /\ f.id \in Requests \cup {0} /\ f.ok \in BOOLEAN
                     /\ f.kind \in {"abort", "reply"} => f.id \in Requests
                     /\ f = Frame(f.kind, f.run, f.id, f.ok)
                  \/ f.kind \in {"initialize", "shutdown"} /\ f.ok \in BOOLEAN
  BY DEF Wire, Frame

LEMMA FramesAreWire ==
  /\ \A kind \in RunKinds, r \in Runs, id \in Requests \cup {0}, ok \in BOOLEAN :
       (kind \in {"abort", "reply"} => id \in Requests) => Frame(kind, r, id, ok) \in Wire
  /\ \A kind \in {"initialize", "shutdown"}, ok \in BOOLEAN : ToAll(kind, ok) \in Wire
  BY DEF Wire, Frame, ToAll

LEMMA NoFrames == /\ << >> \in Seq(Wire) /\ Range(<< >>) = {}
                  /\ \A r : FramesOf(<< >>, r) = {} /\ \A kinds : Once(<< >>, kinds, r)
  BY EmptySeq DEF Range, FramesOf, Once

LEMMA TakenFrame ==
  ASSUME NEW s \in Seq(Wire), s # << >>
  PROVE  /\ Tail(s) \in Seq(Wire) /\ Head(s) \in Range(s) /\ Head(s) \in Wire
         /\ Range(s) = Range(Tail(s)) \cup {Head(s)}
         /\ \A r : Less(Tail(s), s, r)
         /\ \A r, kinds : Once(s, kinds, r) /\ Head(s).kind \in kinds /\ Head(s).run = r
                            => \A f \in Range(Tail(s)) : ~(f.kind \in kinds /\ f.run = r)
<1> DEFINE t == Tail(s)
<1>1. /\ Head(s) \in Wire /\ t \in Seq(Wire) /\ Len(t) = Len(s) - 1
      /\ \A i \in 1 .. Len(t) : t[i] = s[i + 1]
      /\ Head(s) = s[1]
  BY HeadTailProperties
<1>2. /\ Len(s) \in Nat /\ DOMAIN s = 1 .. Len(s) /\ Len(s) >= 1
      /\ Len(t) \in Nat /\ DOMAIN t = 1 .. Len(t)
  BY <1>1, LenProperties, EmptySeq
<1> HIDE DEF t
<1>3. \A i \in DOMAIN t : i + 1 \in DOMAIN s /\ t[i] = s[i + 1] /\ i + 1 # 1
  BY <1>1, <1>2
<1>4. \A i \in DOMAIN s : i = 1 \/ (i - 1 \in DOMAIN t /\ s[i] = t[i - 1])
  BY <1>1, <1>2
<1>5. 1 \in DOMAIN s
  BY <1>2
<1>6. Range(s) = Range(t) \cup {Head(s)}
  <2>1. Range(t) \subseteq Range(s) /\ Head(s) \in Range(s)
    BY <1>1, <1>3, <1>5 DEF Range
  <2>2. Range(s) \subseteq Range(t) \cup {Head(s)}
    BY <1>1, <1>4 DEF Range
  <2> QED BY <2>1, <2>2
<1>7. \A r, kinds : Once(s, kinds, r) => Once(t, kinds, r)
  <2> SUFFICES ASSUME NEW r, NEW kinds, Once(s, kinds, r),
                      NEW i \in DOMAIN t, NEW j \in DOMAIN t,
                      t[i].kind \in kinds, t[i].run = r, t[j].kind \in kinds, t[j].run = r
               PROVE  i = j
    BY DEF Once
  <2>1. i + 1 = j + 1
    BY <1>3 DEF Once
  <2> QED BY <1>2, <2>1
<1>8. \A r, kinds : Once(s, kinds, r) /\ Head(s).kind \in kinds /\ Head(s).run = r
                      => \A f \in Range(t) : ~(f.kind \in kinds /\ f.run = r)
  BY <1>1, <1>3, <1>5 DEF Once, Range
<1>9. \A r : Less(t, s, r)
  BY <1>6, <1>7 DEF Less, FramesOf
<1> QED BY <1>1, <1>6, <1>8, <1>9 DEF t

LEMMA MoreFrames ==
  ASSUME NEW s \in Seq(Wire), NEW t \in Seq(Wire)
  PROVE  /\ s \o t \in Seq(Wire) /\ Range(s \o t) = Range(s) \cup Range(t)
         /\ \A r : FramesOf(s \o t, r) = FramesOf(s, r) \cup FramesOf(t, r)
         /\ \A r, kinds : /\ Once(s, kinds, r) /\ Once(t, kinds, r)
                          /\ \/ \A f \in Range(s) : ~(f.kind \in kinds /\ f.run = r)
                             \/ \A f \in Range(t) : ~(f.kind \in kinds /\ f.run = r)
                          => Once(s \o t, kinds, r)
<1> DEFINE u == s \o t
           n == Len(s)
<1>1. /\ u \in Seq(Wire) /\ Len(u) = n + Len(t)
      /\ \A i \in 1 .. n + Len(t) : u[i] = IF i <= n THEN s[i] ELSE t[i - n]
  BY ConcatProperties
<1>2. /\ n \in Nat /\ DOMAIN s = 1 .. n /\ Len(t) \in Nat /\ DOMAIN t = 1 .. Len(t)
      /\ DOMAIN u = 1 .. (n + Len(t))
  BY <1>1, LenProperties
<1> HIDE DEF u, n
<1>3. \A i \in DOMAIN u : \/ i \in DOMAIN s /\ u[i] = s[i]
                          \/ i \notin DOMAIN s /\ i - n \in DOMAIN t /\ u[i] = t[i - n]
  BY <1>1, <1>2
<1>4. /\ \A i \in DOMAIN s : i \in DOMAIN u /\ u[i] = s[i]
      /\ \A i \in DOMAIN t : i + n \in DOMAIN u /\ u[i + n] = t[i]
  BY <1>1, <1>2
<1>5. Range(u) = Range(s) \cup Range(t)
  <2>1. Range(u) \subseteq Range(s) \cup Range(t)
    BY <1>3 DEF Range
  <2>2. Range(s) \subseteq Range(u)
    BY <1>4 DEF Range
  <2>3. Range(t) \subseteq Range(u)
    BY <1>4 DEF Range
  <2> QED BY <2>1, <2>2, <2>3
<1>6. ASSUME NEW r, NEW kinds, Once(s, kinds, r), Once(t, kinds, r),
             \/ \A f \in Range(s) : ~(f.kind \in kinds /\ f.run = r)
             \/ \A f \in Range(t) : ~(f.kind \in kinds /\ f.run = r)
      PROVE  Once(u, kinds, r)
  <2> SUFFICES ASSUME NEW i \in DOMAIN u, NEW j \in DOMAIN u,
                      u[i].kind \in kinds, u[i].run = r, u[j].kind \in kinds, u[j].run = r
               PROVE  i = j
    BY DEF Once
  <2>1. CASE i \in DOMAIN s /\ j \in DOMAIN s
    BY <1>3, <1>6, <2>1 DEF Once
  <2>2. CASE i \notin DOMAIN s /\ j \notin DOMAIN s
    <3>1. i - n = j - n
      BY <1>3, <1>6, <2>2 DEF Once
    <3> QED BY <1>2, <3>1
  <2>3. CASE i \in DOMAIN s <=> j \notin DOMAIN s
    <3>1. /\ \E f \in Range(s) : f.kind \in kinds /\ f.run = r
          /\ \E f \in Range(t) : f.kind \in kinds /\ f.run = r
      BY <1>3, <2>3 DEF Range
    <3> QED BY <1>6, <3>1
  <2> QED BY <2>1, <2>2, <2>3
<1>7. \A r : FramesOf(u, r) = FramesOf(s, r) \cup FramesOf(t, r)
  BY <1>5 DEF FramesOf
<1> QED BY <1>1, <1>5, <1>6, <1>7 DEF u

LEMMA OneMoreFrame ==
  ASSUME NEW s \in Seq(Wire), NEW f \in Wire
  PROVE  /\ Append(s, f) \in Seq(Wire) /\ Append(s, f) = s \o <<f>>
         /\ <<f>> \in Seq(Wire) /\ Range(<<f>>) = {f} /\ \A kinds, r : Once(<<f>>, kinds, r)
<1>1. Append(s, f) = s \o <<f>> /\ Append(s, f) \in Seq(Wire)
  BY AppendIsConcat, AppendProperties
<1>2. <<f>> \in Seq(Wire) /\ DOMAIN <<f>> = {1} /\ <<f>>[1] = f
  OBVIOUS
<1> QED BY <1>1, <1>2 DEF Range, Once

(* A frame put into a pipe behind others.                                     *)
LEMMA PutFrame ==
  ASSUME NEW s \in Seq(Wire), NEW f \in Wire
  PROVE  /\ s \o <<f>> \in Seq(Wire) /\ Append(s, f) = s \o <<f>>
         /\ \A r : FramesOf(s \o <<f>>, r) =
                     FramesOf(s, r) \cup (IF f.kind \in RunKinds /\ f.run = r THEN {f} ELSE {})
         /\ \A r, kinds : /\ Once(s, kinds, r)
                          /\ f.kind \in kinds /\ f.run = r => \A g \in Range(s) : ~(g.kind \in kinds /\ g.run = r)
                          => Once(s \o <<f>>, kinds, r)
         /\ \A r : f.kind \notin RunKinds \/ f.run # r => FramesOf(s \o <<f>>, r) = FramesOf(s, r)
<1>1. /\ <<f>> \in Seq(Wire) /\ Range(<<f>>) = {f} /\ Append(s, f) = s \o <<f>>
      /\ \A kinds, r : Once(<<f>>, kinds, r)
  BY OneMoreFrame
<1> DEFINE one == <<f>>
<1> HIDE DEF one
<1>2. /\ one \in Seq(Wire) /\ Range(one) = {f} /\ \A kinds, r : Once(one, kinds, r)
  BY <1>1 DEF one
<1>3. /\ s \o one \in Seq(Wire) /\ Range(s \o one) = Range(s) \cup Range(one)
      /\ \A r : FramesOf(s \o one, r) = FramesOf(s, r) \cup FramesOf(one, r)
      /\ \A r, kinds : /\ Once(s, kinds, r) /\ Once(one, kinds, r)
                       /\ \/ \A g \in Range(s) : ~(g.kind \in kinds /\ g.run = r)
                          \/ \A g \in Range(one) : ~(g.kind \in kinds /\ g.run = r)
                       => Once(s \o one, kinds, r)
  BY <1>2, MoreFrames
<1>4. \A r : FramesOf(one, r) = IF f.kind \in RunKinds /\ f.run = r THEN {f} ELSE {}
  BY <1>2 DEF FramesOf
<1>5. \A r, kinds : /\ Once(s, kinds, r)
                    /\ f.kind \in kinds /\ f.run = r => \A g \in Range(s) : ~(g.kind \in kinds /\ g.run = r)
                    => Once(s \o one, kinds, r)
  BY <1>2, <1>3
<1> QED BY <1>1, <1>3, <1>4, <1>5 DEF one

-----------------------------------------------------------------------------
(* The invariant behind the reports. A run that was sent has one token: its   *)
(* start frame, its host in the worker, or the response; and while it has it, *)
(* the supervisor has not settled it.                                         *)

OneRun == [spawned : BOOLEAN, waits : {"nothing", "worker", "termination"}, sent : BOOLEAN,
           aborted : BOOLEAN, forwarded : {"no", "completed", "failed"},
           over : {"no", "resolved", "rejected"}, told : Nat]

Kinds ==
  /\ run \in [Runs -> OneRun] /\ approval \in [Runs -> ApprovalStates]
  /\ down \in Seq(Wire) /\ up \in Seq(Wire) /\ worker \in WorkerStates
  /\ tracked \subseteq Request /\ requests \in Nat

Ends == {"completed", "failed"}
Aborting(r) == \E t \in worker.aborting : t.run = r
Confirmed(r) == \E f \in FramesOf(up, r) : f.kind = "abort" /\ f.ok

\* Without a child nobody is at work, and the runs that are left wait for one.
Childless ==
  supervisor.child = 0 =>
    /\ down = << >> /\ up = << >> /\ worker = NewWorker /\ ~supervisor.ready
    /\ \A r \in Runs : Registered(r) => ~run[r].sent

Unsent(r) ==
  /\ ~run[r].spawned => /\ run[r].over = "no" /\ ~run[r].sent /\ ~run[r].aborted
                        /\ run[r].waits = "nothing"
  /\ run[r].waits # "nothing" => ~run[r].sent
  /\ ~run[r].sent =>
       /\ run[r].forwarded = "no" /\ worker.runs[r] = "none"
       /\ FramesOf(down, r) = {} /\ FramesOf(up, r) = {}
       /\ Registered(r) /\ supervisor.shutdown = "no" => ~run[r].aborted

Token(r) ==
  /\ Once(down, {"start"}, r) /\ Once(up, {"start"}, r)
  /\ Has(down, {"start"}, r) => worker.runs[r] = "none" /\ ~Has(up, {"start"}, r)
  /\ Has(up, {"start"}, r) => ~Hosted(r)
  /\ Has(down, {"start"}, r) \/ Has(up, {"start"}, r) \/ Hosted(r) => Registered(r)

\* The worker's own report of the end: once, and when it no longer hosts the run.
Reported(r) ==
  /\ Once(up, Ends, r)
  /\ Has(up, Ends, r) => worker.runs[r] = "over" /\ run[r].forwarded = "no"
  /\ Registered(r) /\ run[r].forwarded # "no" => worker.runs[r] = "over"

\* A run that is being aborted does not report.
Silent(r) ==
  supervisor.shutdown = "no" =>
    /\ Aborting(r) \/ Confirmed(r) \/ worker.runs[r] = "aborted" \/ run[r].aborted =>
         ~Has(up, Ends, r) /\ run[r].forwarded = "no"
    /\ Confirmed(r) \/ (run[r].aborted /\ Registered(r)) => worker.runs[r] \in {"aborted", "over"}

Told(r) ==
  LET reported == run[r].over # "no" /\ ~run[r].aborted
  IN run[r].told = (IF run[r].forwarded # "no" \/ reported THEN 1 ELSE 0)

Mirrored(r) == approval[r].state # "none" => Registered(r) /\ run[r].sent

RunOk(r) == Unsent(r) /\ Token(r) /\ Reported(r) /\ Silent(r) /\ Told(r) /\ Mirrored(r)

Settling == Kinds /\ Childless /\ \A r \in Runs : RunOk(r)

(* The worker is told to shut down when the supervisor shuts down, aborts runs *)
(* it has been given, and a question that is not offered awaits no answer.    *)
Served ==
  /\ (\E f \in Range(down) : f.kind = "shutdown") => supervisor.shutdown # "no"
  /\ \A t \in worker.aborting : worker.runs[t.run] # "none"
  /\ \A r \in Runs : approval[r].state = "none" => approval[r].id = 0

RInv == GInv /\ Settling /\ Served

LEMMA InitRInv == GjcInit => RInv
<1> SUFFICES ASSUME GjcInit PROVE RInv
  OBVIOUS
<1>1. /\ run = [r \in Runs |-> Unspawned] /\ approval = [r \in Runs |-> NoApproval]
      /\ down = << >> /\ up = << >> /\ worker = NewWorker /\ tracked = {} /\ requests = 0
      /\ supervisor.child = 0 /\ ~supervisor.ready
  BY DEF GjcInit
<1>2. Kinds
  BY <1>1, NoFrames
     DEF Kinds, OneRun, Unspawned, ApprovalStates, NoApproval, WorkerStates, NewWorker
<1>3. \A r \in Runs : /\ run[r] = Unspawned /\ approval[r].state = "none" /\ worker.runs[r] = "none"
                      /\ worker.aborting = {}
  BY <1>1 DEF NoApproval, NewWorker
<1>4. Childless
  BY <1>1, <1>3 DEF Childless, Registered, Unspawned
<1>5. ASSUME NEW r \in Runs PROVE RunOk(r)
  <2>1. Unsent(r)
    BY <1>1, <1>3, NoFrames DEF Unsent, Registered, Unspawned
  <2>2. Token(r)
    BY <1>1, <1>3, NoFrames DEF Token, Has, Hosted
  <2>3. Reported(r)
    BY <1>1, <1>3, NoFrames DEF Reported, Has, Unspawned
  <2>4. Silent(r)
    BY <1>1, <1>3, NoFrames DEF Silent, Has, Confirmed, Aborting, Unspawned
  <2>5. Told(r) /\ Mirrored(r)
    BY <1>3 DEF Told, Mirrored, Unspawned
  <2> QED BY <2>1, <2>2, <2>3, <2>4, <2>5 DEF RunOk
<1>6. Served
  BY <1>1, <1>3, NoFrames DEF Served, NoApproval, NewWorker
<1> QED BY <1>2, <1>4, <1>5, <1>6, InitGInv DEF RInv, Settling

(* A run that a step does not touch: its frames may only get fewer.           *)
LEMMA Untouched ==
  ASSUME NEW r \in Runs, RunOk(r),
         run'[r] = run[r], worker'.runs[r] = worker.runs[r], Aborting(r)' => Aborting(r),
         Less(down', down, r), Less(up', up, r),
         supervisor'.shutdown = "no" => supervisor.shutdown = "no",
         approval'[r] = approval[r] \/ approval'[r].state = "none"
  PROVE  RunOk(r)'
<1>1. /\ FramesOf(down', r) \subseteq FramesOf(down, r) /\ FramesOf(up', r) \subseteq FramesOf(up, r)
      /\ Once(down, {"start"}, r) => Once(down', {"start"}, r)
      /\ Once(up, {"start"}, r) => Once(up', {"start"}, r)
      /\ Once(up, Ends, r) => Once(up', Ends, r)
  <2>1. {"start"} \in SUBSET RunKinds /\ Ends \in SUBSET RunKinds
    BY DEF RunKinds, Ends
  <2> QED BY <2>1 DEF Less
<1>2. \A kinds : (Has(down', kinds, r) => Has(down, kinds, r)) /\ (Has(up', kinds, r) => Has(up, kinds, r))
  BY <1>1 DEF Has
<1>3. (Confirmed(r)' => Confirmed(r)) /\ (Hosted(r)' <=> Hosted(r)) /\ (Registered(r)' <=> Registered(r))
  BY <1>1 DEF Confirmed, Hosted, Registered
<1>4. Unsent(r)'
  BY <1>1, <1>3 DEF RunOk, Unsent
<1>5. Token(r)'
  BY <1>1, <1>2, <1>3 DEF RunOk, Token
<1>6. Reported(r)'
  BY <1>1, <1>2, <1>3 DEF RunOk, Reported
<1>7. Silent(r)'
  BY <1>2, <1>3 DEF RunOk, Silent
<1>8. Told(r)' /\ Mirrored(r)'
  BY <1>3 DEF RunOk, Told, Mirrored
<1> QED BY <1>4, <1>5, <1>6, <1>7, <1>8 DEF RunOk

LEMMA LessOrEqual ==
  /\ \A s, r : Less(s, s, r)
  /\ \A s, r : Less(<< >>, s, r)
  /\ \A s \in Seq(Wire) : \A r : s # << >> => Less(Tail(s), s, r)
  /\ \A s \in Seq(Wire), f \in Wire : \A r :
       f.kind \notin RunKinds \/ f.run # r => Less(s \o <<f>>, s, r) /\ Less(Append(s, f), s, r)
<1>1. \A s, r : Less(s, s, r) /\ Less(<< >>, s, r)
  BY NoFrames DEF Less
<1>2. \A s \in Seq(Wire) : \A r : s # << >> => Less(Tail(s), s, r)
  BY TakenFrame
<1>3. ASSUME NEW s \in Seq(Wire), NEW f \in Wire, NEW r, f.kind \notin RunKinds \/ f.run # r
      PROVE  Less(s \o <<f>>, s, r) /\ Less(Append(s, f), s, r)
  <2>1. /\ FramesOf(s \o <<f>>, r) = FramesOf(s, r) /\ Append(s, f) = s \o <<f>>
        /\ \A kinds : /\ Once(s, kinds, r)
                      /\ f.kind \in kinds /\ f.run = r => \A g \in Range(s) : ~(g.kind \in kinds /\ g.run = r)
                      => Once(s \o <<f>>, kinds, r)
    BY <1>3, PutFrame
  <2> QED BY <1>3, <2>1 DEF Less
<1> QED BY <1>1, <1>2, <1>3

LEMMA RunChanged ==
  ASSUME run \in [Runs -> OneRun], NEW r \in Runs, NEW x \in OneRun, run' = [run EXCEPT ![r] = x]
  PROVE  run' \in [Runs -> OneRun] /\ run'[r] = x /\ \A q \in Runs \ {r} : run'[q] = run[q]
  OBVIOUS

LEMMA FinishedShape ==
  ASSUME NEW x \in OneRun, NEW failing \in BOOLEAN,
         x.told = (IF x.forwarded # "no" THEN 1 ELSE 0)
  PROVE  LET y == Finished(x, failing) IN
         /\ y \in OneRun /\ y.over # "no"
         /\ y.spawned = x.spawned /\ y.waits = x.waits /\ y.sent = x.sent
         /\ y.aborted = x.aborted /\ y.forwarded = x.forwarded
         /\ y.told = (IF x.forwarded # "no" \/ ~x.aborted THEN 1 ELSE 0)
<1> DEFINE o == IF failing /\ ~x.aborted THEN "rejected" ELSE "resolved"
           n == IF x.aborted \/ x.forwarded # "no" THEN x.told ELSE x.told + 1
           y == Finished(x, failing)
<1>1. x = [spawned |-> x.spawned, waits |-> x.waits, sent |-> x.sent, aborted |-> x.aborted,
           forwarded |-> x.forwarded, over |-> x.over, told |-> x.told]
  BY DEF OneRun
<1>2. y = [spawned |-> x.spawned, waits |-> x.waits, sent |-> x.sent, aborted |-> x.aborted,
           forwarded |-> x.forwarded, over |-> o, told |-> n]
  <2>1. y = [x EXCEPT !.over = o, !.told = n]
    BY <1>1 DEF Finished
  <2> HIDE DEF o, n, y
  <2> QED BY <1>1, <2>1
<1>3. o \in {"rejected", "resolved"} /\ n \in Nat
  BY DEF OneRun
<1>4. n = (IF x.forwarded # "no" \/ ~x.aborted THEN 1 ELSE 0)
  BY DEF OneRun
<1> HIDE DEF o, n, y
<1>5. /\ y.spawned = x.spawned /\ y.waits = x.waits /\ y.sent = x.sent
      /\ y.aborted = x.aborted /\ y.forwarded = x.forwarded /\ y.over = o /\ y.told = n
  BY <1>2
<1>6. y \in OneRun
  BY <1>2, <1>3 DEF OneRun
<1> QED BY <1>3, <1>4, <1>5, <1>6 DEF y

(* A run that is settled: its token is gone and its frames are no more.       *)
LEMMA SettledOk ==
  ASSUME NEW r \in Runs, RunOk(r), run[r].over = "no",
         NEW x \in OneRun, NEW failing \in BOOLEAN, run'[r] = Finished(x, failing),
         x.spawned, x.sent = run[r].sent, x.forwarded = run[r].forwarded, x.told = run[r].told,
         x.waits \in {"nothing", run[r].waits},
         x.aborted => run[r].aborted \/ ~run[r].sent,
         Less(down', down, r), Less(up', up, r), Aborting(r)' => Aborting(r),
         ~Has(down', {"start"}, r), ~Has(up', {"start"}, r), ~Hosted(r)',
         \/ worker'.runs[r] = worker.runs[r]
         \/ FramesOf(up', r) = {} /\ worker'.runs[r] = "none",
         supervisor'.shutdown = "no" => supervisor.shutdown = "no",
         approval'[r].state = "none"
  PROVE  RunOk(r)' /\ run'[r] \in OneRun
<1>1. x.told = (IF x.forwarded # "no" THEN 1 ELSE 0)
  BY DEF RunOk, Told
<1>2. /\ run'[r] \in OneRun /\ run'[r].over # "no" /\ run'[r].spawned
      /\ run'[r].waits \in {"nothing", run[r].waits} /\ run'[r].sent = run[r].sent
      /\ run'[r].aborted = x.aborted /\ run'[r].forwarded = run[r].forwarded
      /\ run'[r].told = (IF run[r].forwarded # "no" \/ ~x.aborted THEN 1 ELSE 0)
  BY <1>1, FinishedShape
<1>3. /\ FramesOf(down', r) \subseteq FramesOf(down, r) /\ FramesOf(up', r) \subseteq FramesOf(up, r)
      /\ Once(down, {"start"}, r) => Once(down', {"start"}, r)
      /\ Once(up, {"start"}, r) => Once(up', {"start"}, r)
      /\ Once(up, Ends, r) => Once(up', Ends, r)
  <2>1. {"start"} \in SUBSET RunKinds /\ Ends \in SUBSET RunKinds
    BY DEF RunKinds, Ends
  <2> QED BY <2>1 DEF Less
<1>4. ~Registered(r)'
  BY <1>2 DEF Registered
<1>5. Has(up', Ends, r) => Has(up, Ends, r) /\ worker'.runs[r] = worker.runs[r]
  BY <1>3 DEF Has
<1>6. Confirmed(r)' => Confirmed(r) /\ worker'.runs[r] = worker.runs[r]
  BY <1>3 DEF Confirmed
<1>7. Unsent(r)'
  BY <1>2, <1>3, <1>4 DEF RunOk, Unsent
<1>8. Token(r)'
  BY <1>3 DEF RunOk, Token
<1>9. Reported(r)'
  BY <1>2, <1>3, <1>4, <1>5 DEF RunOk, Reported
<1>10. Silent(r)'
  <2> SUFFICES ASSUME supervisor'.shutdown = "no"
               PROVE  /\ Aborting(r)' \/ Confirmed(r)' \/ worker'.runs[r] = "aborted" \/ run'[r].aborted =>
                           ~Has(up', Ends, r) /\ run'[r].forwarded = "no"
                      /\ Confirmed(r)' => worker'.runs[r] \in {"aborted", "over"}
    BY <1>4 DEF Silent
  <2>1. worker'.runs[r] # "aborted"
    BY DEF Hosted
  <2>2. ~run[r].sent => ~Has(up, Ends, r) /\ run[r].forwarded = "no"
    BY DEF RunOk, Unsent, Has
  <2>3. Aborting(r) \/ Confirmed(r) \/ run[r].aborted => ~Has(up, Ends, r) /\ run[r].forwarded = "no"
    BY DEF RunOk, Silent
  <2> QED BY <1>2, <1>5, <1>6, <2>1, <2>2, <2>3 DEF RunOk, Silent
<1>11. Told(r)' /\ Mirrored(r)'
  BY <1>2 DEF Told, Mirrored
<1> QED BY <1>2, <1>7, <1>8, <1>9, <1>10, <1>11 DEF RunOk

-----------------------------------------------------------------------------
(* The steps.                                                                 *)

\* An unsent run has no token.
LEMMA NoToken ==
  ASSUME NEW r \in Runs, RunOk(r), ~run[r].sent
  PROVE  /\ FramesOf(down, r) = {} /\ FramesOf(up, r) = {} /\ worker.runs[r] = "none"
         /\ ~Has(down, {"start"}, r) /\ ~Has(up, {"start"}, r) /\ ~Hosted(r)
         /\ approval[r].state = "none" /\ run[r].forwarded = "no"
  BY DEF RunOk, Unsent, Mirrored, Has, Hosted

LEMMA NewWorkerShape ==
  /\ NewWorker \in WorkerStates /\ NewWorker.aborting = {}
  /\ \A r \in Runs : NewWorker.runs[r] = "none" /\ NewWorker.question[r] = "none"
  BY DEF NewWorker, WorkerStates

(* A worker is started: nothing was on the pipes of the child there was not.  *)
LEMMA StartOk ==
  ASSUME Kinds, Childless, supervisor.child = 0, NEW base, NEW survivors,
         StartsWorker(base, survivors), base.shutdown = supervisor.shutdown \/ base.shutdown # "no",
         base \in SupervisorStates
  PROVE  /\ down' \in Seq(Wire) /\ up' \in Seq(Wire) /\ worker' \in WorkerStates
         /\ supervisor'.child # 0
         /\ supervisor'.shutdown = "no" => supervisor.shutdown = "no"
         /\ \A r \in Runs : /\ Less(down', down, r) /\ Less(up', up, r)
                            /\ worker'.runs[r] = worker.runs[r]
                            /\ Aborting(r)' => Aborting(r)
<1>1. /\ down' = <<ToAll("initialize", TRUE)>> /\ up' = << >> /\ worker' = NewWorker
      /\ supervisor' = [base EXCEPT !.child = base.started + 1, !.started = base.started + 1]
      /\ base.started + 1 \in Workers
  BY DEF StartsWorker
<1>2. down = << >> /\ up = << >> /\ worker = NewWorker
  BY DEF Childless
<1>3. ToAll("initialize", TRUE) \in Wire /\ ToAll("initialize", TRUE).kind \notin RunKinds
  BY FramesAreWire DEF ToAll, RunKinds
<1>4. << >> \in Seq(Wire) /\ << >> \o down' = down'
  BY <1>1, <1>3, OneMoreFrame, ConcatEmptySeq, NoFrames
<1>5. \A r \in Runs : Less(down', down, r)
  <2> DEFINE f == ToAll("initialize", TRUE)
  <2> HIDE DEF f
  <2>1. f \in Wire /\ f.kind \notin RunKinds /\ down' = <<f>>
    BY <1>1, <1>3 DEF f
  <2>2. \A r \in Runs : Less(<< >> \o <<f>>, << >>, r)
    BY <1>4, <2>1, LessOrEqual
  <2> QED BY <1>2, <1>4, <2>1, <2>2
<1>6. supervisor'.child # 0 /\ supervisor'.shutdown = base.shutdown
  BY <1>1, SupervisorAssumption DEF SupervisorStates, Workers
<1>7. down' \in Seq(Wire)
  BY <1>1, <1>3, OneMoreFrame, NoFrames
<1>8. \A r \in Runs : Less(up', up, r)
  BY <1>1, <1>2, LessOrEqual
<1>9. worker' \in WorkerStates /\ \A r \in Runs : worker'.runs[r] = worker.runs[r] /\ (Aborting(r)' => Aborting(r))
  BY <1>1, <1>2, NewWorkerShape DEF Aborting
<1> QED BY <1>1, <1>5, <1>6, <1>7, <1>8, <1>9, NoFrames

(* A run whose start frame is put into the pipe.                              *)
LEMMA SentOk ==
  ASSUME NEW r \in Runs, RunOk(r), ~run[r].sent, run[r].over = "no", run[r] \in OneRun,
         run'[r] = [run[r] EXCEPT !.spawned = TRUE, !.waits = "nothing", !.sent = TRUE],
         \A f \in FramesOf(down', r) : f.kind = "start", Once(down', {"start"}, r), Less(up', up, r),
         worker' = worker, approval'[r] = approval[r], supervisor'.shutdown = supervisor.shutdown
  PROVE  RunOk(r)' /\ run'[r] \in OneRun
<1>1. /\ run'[r].spawned /\ run'[r].waits = "nothing" /\ run'[r].sent
      /\ run'[r].aborted = run[r].aborted /\ run'[r].forwarded = run[r].forwarded
      /\ run'[r].over = "no" /\ run'[r].told = run[r].told /\ run'[r] \in OneRun
  BY DEF OneRun
<1>2. /\ FramesOf(up, r) = {} /\ worker.runs[r] = "none"
      /\ approval[r].state = "none" /\ run[r].forwarded = "no"
  BY NoToken
<1>3. FramesOf(up', r) = {} /\ Once(up', {"start"}, r) /\ Once(up', Ends, r)
  <2>1. {"start"} \in SUBSET RunKinds /\ Ends \in SUBSET RunKinds
    BY DEF RunKinds, Ends
  <2> QED BY <1>2, <2>1 DEF Less, RunOk, Token, Reported
<1>4. Registered(r)' /\ (supervisor'.shutdown = "no" => ~run'[r].aborted)
  BY <1>1 DEF Registered, RunOk, Unsent
<1>5. Unsent(r)'
  BY <1>1 DEF Unsent
<1>6. Token(r)'
  BY <1>2, <1>3, <1>4 DEF Token, Has
<1>7. Reported(r)' /\ Silent(r)'
  BY <1>1, <1>2, <1>3, <1>4 DEF Reported, Silent, Has, Confirmed
<1>8. Told(r)' /\ Mirrored(r)'
  BY <1>1, <1>2 DEF Told, Mirrored, RunOk
<1> QED BY <1>1, <1>5, <1>6, <1>7, <1>8 DEF RunOk

LEMMA SpawnsOk == ASSUME RInv, NEW r \in Runs, Spawns(r) PROVE Settling'
<1> USE DEF RInv, Settling
<1>1. /\ supervisor.shutdown = "no" /\ ~run[r].spawned
      /\ UNCHANGED <<platform, approval, tracked, requests>>
      /\ SpawnIsRefused(r) \/ SpawnWaits(r) \/ SpawnSends(r) \/ SpawnStarts(r)
  BY DEF Spawns
<1>2. /\ run[r].over = "no" /\ ~run[r].sent /\ ~run[r].aborted /\ run[r].waits = "nothing"
      /\ run[r].forwarded = "no" /\ run[r] \in OneRun /\ run \in [Runs -> OneRun]
      /\ run[r].told = 0
  <2>1. ~run[r].sent /\ run[r].over = "no" /\ ~run[r].aborted /\ run[r].waits = "nothing"
    BY <1>1 DEF RunOk, Unsent
  <2> QED BY <2>1 DEF RunOk, Unsent, Told, Kinds
<1>3. \A q : Less(down, down, q) /\ Less(up, up, q)
  BY LessOrEqual
<1>4. CASE SpawnIsRefused(r)
  <2> DEFINE x == [run[r] EXCEPT !.spawned = TRUE]
  <2>1. /\ x \in OneRun /\ x.spawned /\ x.sent = run[r].sent /\ x.forwarded = run[r].forwarded
        /\ x.told = run[r].told /\ x.waits = run[r].waits /\ x.aborted = run[r].aborted /\ x.over = "no"
    BY <1>2 DEF OneRun
  <2>2. run' = [run EXCEPT ![r] = Finished(x, TRUE)] /\ UNCHANGED <<supervisor, down, up, alive, worker>>
    BY <1>4 DEF SpawnIsRefused
  <2>3. Finished(x, TRUE) \in OneRun /\ Finished(x, TRUE).over # "no"
    <3>1. x.told = (IF x.forwarded # "no" THEN 1 ELSE 0)
      BY <1>2, <2>1
    <3> HIDE DEF x
    <3> QED BY <2>1, <3>1, FinishedShape
  <2> HIDE DEF x
  <2>4. run' \in [Runs -> OneRun] /\ run'[r] = Finished(x, TRUE) /\ \A q \in Runs \ {r} : run'[q] = run[q]
    BY <1>2, <2>2, <2>3, RunChanged
  <2>5. RunOk(r)'
    <3>1. /\ ~Has(down, {"start"}, r) /\ ~Has(up, {"start"}, r) /\ ~Hosted(r)
          /\ approval[r].state = "none"
      BY <1>2, NoToken
    <3>2. ~Hosted(r)' /\ (Aborting(r)' => Aborting(r))
      BY <2>2, <3>1 DEF Hosted, Aborting
    <3>3. ~Has(down', {"start"}, r) /\ ~Has(up', {"start"}, r)
      BY <2>2, <3>1
    <3> QED BY <1>1, <1>2, <1>3, <2>1, <2>2, <2>4, <3>1, <3>2, <3>3, SettledOk
  <2>6. ASSUME NEW q \in Runs \ {r} PROVE RunOk(q)'
    BY <1>1, <1>3, <2>2, <2>4, Untouched DEF Aborting
  <2>7. Kinds'
    BY <1>1, <2>2, <2>4 DEF Kinds
  <2>8. Childless'
    BY <2>2, <2>3, <2>4 DEF Childless, Registered
  <2> QED BY <2>5, <2>6, <2>7, <2>8
<1>5. CASE SpawnWaits(r)
  <2> DEFINE w == IF MustWait THEN "termination" ELSE "worker"
             x == [run[r] EXCEPT !.spawned = TRUE, !.waits = w]
  <2>1. /\ x \in OneRun /\ x.spawned /\ x.sent = run[r].sent /\ x.forwarded = run[r].forwarded
        /\ x.told = run[r].told /\ x.waits = w /\ x.aborted = run[r].aborted /\ x.over = "no"
    BY <1>2 DEF OneRun
  <2>2. run' = [run EXCEPT ![r] = x] /\ UNCHANGED <<supervisor, down, up, alive, worker>>
    BY <1>5 DEF SpawnWaits
  <2> HIDE DEF x, w
  <2>4. run' \in [Runs -> OneRun] /\ run'[r] = x /\ \A q \in Runs \ {r} : run'[q] = run[q]
    BY <1>2, <2>1, <2>2, RunChanged
  <2>5. RunOk(r)'
    <3>1. /\ ~Has(down, {"start"}, r) /\ ~Has(up, {"start"}, r) /\ ~Hosted(r)
          /\ FramesOf(down, r) = {} /\ FramesOf(up, r) = {}
          /\ approval[r].state = "none" /\ worker.runs[r] = "none"
      BY <1>2, NoToken
    <3>2. Unsent(r)'
      BY <1>2, <2>1, <2>2, <2>4, <3>1 DEF RunOk, Unsent
    <3>3. Token(r)'
      BY <2>2, <3>1 DEF RunOk, Token, Hosted
    <3>4. Reported(r)' /\ Silent(r)'
      BY <1>2, <2>1, <2>2, <2>4, <3>1 DEF RunOk, Reported, Silent, Has, Confirmed
    <3>5. Told(r)' /\ Mirrored(r)'
      BY <1>1, <1>2, <2>1, <2>4, <3>1 DEF RunOk, Told, Mirrored
    <3> QED BY <3>2, <3>3, <3>4, <3>5 DEF RunOk
  <2>6. ASSUME NEW q \in Runs \ {r} PROVE RunOk(q)'
    BY <1>1, <1>3, <2>2, <2>4, Untouched DEF Aborting
  <2>7. Kinds'
    BY <1>1, <2>2, <2>4 DEF Kinds
  <2>8. Childless'
    BY <1>2, <2>1, <2>2, <2>4 DEF Childless, Registered
  <2> QED BY <2>5, <2>6, <2>7, <2>8
<1>6. CASE SpawnSends(r)
  <2> DEFINE x == [run[r] EXCEPT !.spawned = TRUE, !.sent = TRUE]
             f == Frame("start", r, 0, TRUE)
  <2>1. x = [run[r] EXCEPT !.spawned = TRUE, !.waits = "nothing", !.sent = TRUE] /\ x \in OneRun
    BY <1>2 DEF OneRun
  <2>2. /\ run' = [run EXCEPT ![r] = x] /\ UNCHANGED <<supervisor, up, alive, worker>>
        /\ down' = Append(down, f) /\ supervisor.ready
    BY <1>6 DEF SpawnSends
  <2>3. f \in Wire /\ f.kind = "start" /\ f.run = r
    BY FramesAreWire DEF Frame, RunKinds
  <2> HIDE DEF x, f
  <2>4. run' \in [Runs -> OneRun] /\ run'[r] = x /\ \A q \in Runs \ {r} : run'[q] = run[q]
    BY <1>2, <2>1, <2>2, RunChanged
  <2>5. /\ down' \in Seq(Wire) /\ FramesOf(down', r) = {f} /\ Once(down', {"start"}, r)
        /\ \A q \in Runs \ {r} : Less(down', down, q)
    <3>1. down \in Seq(Wire) /\ FramesOf(down, r) = {} /\ Once(down, {"start"}, r)
      BY <1>2, NoToken DEF Kinds, RunOk, Token
    <3>2. \A g \in Range(down) : ~(g.kind \in {"start"} /\ g.run = r)
      BY <3>1 DEF FramesOf, RunKinds
    <3>3. \A q \in Runs \ {r} : Less(Append(down, f), down, q)
      BY <2>3, <3>1, LessOrEqual
    <3>4. down' \in Seq(Wire) /\ FramesOf(down', r) = FramesOf(down, r) \cup {f} /\ Once(down', {"start"}, r)
      <4>1. /\ down \o <<f>> \in Seq(Wire) /\ Append(down, f) = down \o <<f>>
            /\ FramesOf(down \o <<f>>, r) =
                 FramesOf(down, r) \cup (IF f.kind \in RunKinds /\ f.run = r THEN {f} ELSE {})
        BY <2>3, <3>1, PutFrame
      <4>2. Once(down \o <<f>>, {"start"}, r)
        BY <2>3, <3>1, <3>2, PutFrame
      <4> QED BY <2>2, <2>3, <4>1, <4>2 DEF RunKinds
    <3> QED BY <2>2, <3>1, <3>3, <3>4
  <2>6. RunOk(r)'
    BY <1>1, <1>2, <1>3, <2>1, <2>2, <2>3, <2>4, <2>5, SentOk
  <2>7. ASSUME NEW q \in Runs \ {r} PROVE RunOk(q)'
    BY <1>1, <1>3, <2>2, <2>4, <2>5, Untouched DEF Aborting
  <2>8. Kinds'
    BY <1>1, <2>2, <2>4, <2>5 DEF Kinds
  <2>9. Childless'
    BY <2>2 DEF Childless
  <2> QED BY <2>6, <2>7, <2>8, <2>9
<1>7. CASE SpawnStarts(r)
  <2> DEFINE x == [run[r] EXCEPT !.spawned = TRUE, !.waits = "worker"]
  <2>1. /\ x \in OneRun /\ x.spawned /\ x.sent = run[r].sent /\ x.forwarded = run[r].forwarded
        /\ x.told = run[r].told /\ x.waits = "worker" /\ x.aborted = run[r].aborted /\ x.over = "no"
    BY <1>2 DEF OneRun
  <2>2. /\ run' = [run EXCEPT ![r] = x] /\ supervisor.child = 0
        /\ StartsWorker(supervisor, alive)
    BY <1>7 DEF SpawnStarts
  <2> HIDE DEF x
  <2>3. /\ down' \in Seq(Wire) /\ up' \in Seq(Wire) /\ worker' \in WorkerStates
        /\ supervisor'.child # 0 /\ (supervisor'.shutdown = "no" => supervisor.shutdown = "no")
        /\ \A q \in Runs : /\ Less(down', down, q) /\ Less(up', up, q)
                           /\ worker'.runs[q] = worker.runs[q] /\ (Aborting(q)' => Aborting(q))
    <3>1. supervisor \in SupervisorStates
      BY DEF GInv, SupervisorType
    <3> QED BY <2>2, <3>1, StartOk
  <2>4. run' \in [Runs -> OneRun] /\ run'[r] = x /\ \A q \in Runs \ {r} : run'[q] = run[q]
    BY <1>2, <2>1, <2>2, RunChanged
  <2>5. RunOk(r)'
    <3>1. /\ FramesOf(down, r) = {} /\ FramesOf(up, r) = {} /\ worker.runs[r] = "none"
          /\ approval[r].state = "none"
      BY <1>2, NoToken
    <3>2. FramesOf(down', r) = {} /\ FramesOf(up', r) = {} /\ worker'.runs[r] = "none"
      BY <2>3, <3>1 DEF Less
    <3>3. Once(down', {"start"}, r) /\ Once(up', {"start"}, r) /\ Once(up', Ends, r)
      <4>1. {"start"} \in SUBSET RunKinds /\ Ends \in SUBSET RunKinds
        BY DEF RunKinds, Ends
      <4> QED BY <2>3, <4>1 DEF Less, RunOk, Token, Reported
    <3>4. Unsent(r)'
      BY <1>2, <2>1, <2>4, <3>2 DEF Unsent
    <3>5. Token(r)'
      BY <3>2, <3>3 DEF Token, Has, Hosted
    <3>6. Reported(r)' /\ Silent(r)'
      BY <1>2, <2>1, <2>4, <3>2, <3>3 DEF Reported, Silent, Has, Confirmed
    <3>7. Told(r)' /\ Mirrored(r)'
      BY <1>1, <1>2, <2>1, <2>4, <3>1 DEF Told, Mirrored
    <3> QED BY <3>4, <3>5, <3>6, <3>7 DEF RunOk
  <2>6. ASSUME NEW q \in Runs \ {r} PROVE RunOk(q)'
    BY <1>1, <2>3, <2>4, Untouched
  <2>7. Kinds'
    BY <1>1, <2>3, <2>4 DEF Kinds
  <2>8. Childless'
    BY <2>3 DEF Childless
  <2> QED BY <2>5, <2>6, <2>7, <2>8
<1> QED BY <1>1, <1>4, <1>5, <1>6, <1>7

(* Frames that are neither a token nor a report, to or about a run that was   *)
(* sent.                                                                      *)
Harmless == {"abort", "reply", "ask", "cancel"}

Plus(t, s, r) ==
  /\ \A f \in FramesOf(t, r) : f \in FramesOf(s, r) \/ f.kind \in Harmless
  /\ Once(s, {"start"}, r) => Once(t, {"start"}, r)
  /\ Once(s, Ends, r) => Once(t, Ends, r)

LEMMA PlusFacts ==
  /\ \A t, s, r : Less(t, s, r) => Plus(t, s, r)
  /\ \A s \in Seq(Wire), f \in Wire : \A r : f.kind \in Harmless => Plus(s \o <<f>>, s, r)
  /\ \A s \in Seq(Wire), t \in Seq(Wire) : \A r :
       (\A f \in Range(t) : f.kind \in Harmless) => Plus(s \o t, s, r)
<1> USE DEF Harmless, Ends
<1>1. ASSUME NEW t, NEW s, NEW r, Less(t, s, r) PROVE Plus(t, s, r)
  <2>1. {"start"} \in SUBSET RunKinds /\ Ends \in SUBSET RunKinds
    BY DEF RunKinds
  <2> QED BY <1>1, <2>1 DEF Less, Plus
<1>2. ASSUME NEW s \in Seq(Wire), NEW t \in Seq(Wire), NEW r, \A f \in Range(t) : f.kind \in Harmless
      PROVE  Plus(s \o t, s, r)
  <2>1. \A f \in FramesOf(s \o t, r) : f \in FramesOf(s, r) \/ f.kind \in Harmless
    BY <1>2, MoreFrames DEF FramesOf
  <2>2. \A f \in Range(t) : f.kind \notin {"start"} /\ f.kind \notin Ends
    BY <1>2
  <2>3. Once(t, {"start"}, r) /\ Once(t, Ends, r)
    BY <2>2 DEF Once, Range
  <2>4. Once(s, {"start"}, r) => Once(s \o t, {"start"}, r)
    BY <2>2, <2>3, MoreFrames
  <2>5. Once(s, Ends, r) => Once(s \o t, Ends, r)
    BY <2>2, <2>3, MoreFrames
  <2> QED BY <2>1, <2>4, <2>5 DEF Plus
<1>3. ASSUME NEW s \in Seq(Wire), NEW f \in Wire, NEW r, f.kind \in Harmless
      PROVE  Plus(s \o <<f>>, s, r)
  <2>1. <<f>> \in Seq(Wire) /\ \A g \in Range(<<f>>) : g.kind \in Harmless
    BY <1>3, OneMoreFrame
  <2> DEFINE t == <<f>>
  <2> HIDE DEF t
  <2>2. t \in Seq(Wire) /\ \A g \in Range(t) : g.kind \in Harmless
    BY <2>1 DEF t
  <2>3. Plus(s \o t, s, r)
    BY <1>2, <2>2
  <2> QED BY <2>3 DEF t
<1> QED BY <1>1, <1>2, <1>3

LEMMA AddressedOk ==
  ASSUME NEW r \in Runs, RunOk(r), run[r].sent,
         run'[r] = run[r], worker'.runs[r] = worker.runs[r], Aborting(r)' => Aborting(r),
         Plus(down', down, r), Plus(up', up, r), Confirmed(r)' => Confirmed(r),
         supervisor'.shutdown = "no" => supervisor.shutdown = "no",
         approval'[r].state # "none" => Registered(r)
  PROVE  RunOk(r)'
<1>1. /\ Has(down', {"start"}, r) => Has(down, {"start"}, r)
      /\ Has(up', {"start"}, r) => Has(up, {"start"}, r)
      /\ Has(up', Ends, r) => Has(up, Ends, r)
  BY DEF Plus, Has, Harmless, Ends
<1>2. (Hosted(r)' <=> Hosted(r)) /\ (Registered(r)' <=> Registered(r))
  BY DEF Hosted, Registered
<1>3. Unsent(r)'
  BY <1>2 DEF RunOk, Unsent
<1>4. Token(r)'
  BY <1>1, <1>2 DEF RunOk, Token, Plus
<1>5. Reported(r)'
  BY <1>1, <1>2 DEF RunOk, Reported, Plus
<1>6. Silent(r)'
  BY <1>1, <1>2 DEF RunOk, Silent
<1>7. Told(r)' /\ Mirrored(r)'
  BY <1>2 DEF RunOk, Told, Mirrored
<1> QED BY <1>3, <1>4, <1>5, <1>6, <1>7 DEF RunOk

LEMMA AbortsOk == ASSUME RInv, NEW r \in Runs, Aborts(r) PROVE Settling'
<1> USE DEF RInv, Settling
<1>1. /\ Registered(r) /\ UNCHANGED <<platform, supervisor, expired, up, alive, worker>>
      /\ run \in [Runs -> OneRun] /\ run[r] \in OneRun /\ run[r].over = "no" /\ run[r].spawned
  BY DEF Aborts, Registered, Kinds
<1>2. \A q : Less(down, down, q) /\ Less(up, up, q)
  BY LessOrEqual
<1>3. CASE /\ ~run[r].sent
           /\ run' = [run EXCEPT ![r] = Finished([@ EXCEPT !.aborted = TRUE], FALSE)]
           /\ Mirrors(approval)
           /\ UNCHANGED <<tracked, requests, down>>
  <2> DEFINE x == [run[r] EXCEPT !.aborted = TRUE]
  <2>1. /\ x \in OneRun /\ x.spawned /\ x.sent = run[r].sent /\ x.forwarded = run[r].forwarded
        /\ x.told = run[r].told /\ x.waits = run[r].waits /\ x.over = "no"
    BY <1>1 DEF OneRun
  <2>2. run' = [run EXCEPT ![r] = Finished(x, FALSE)]
    BY <1>3
  <2>3. Finished(x, FALSE) \in OneRun /\ Finished(x, FALSE).over # "no"
    <3>1. x.told = (IF x.forwarded # "no" THEN 1 ELSE 0)
      BY <1>1, <2>1 DEF RunOk, Told
    <3> HIDE DEF x
    <3> QED BY <2>1, <3>1, FinishedShape
  <2> HIDE DEF x
  <2>4. run' \in [Runs -> OneRun] /\ run'[r] = Finished(x, FALSE) /\ \A q \in Runs \ {r} : run'[q] = run[q]
    BY <1>1, <2>2, <2>3, RunChanged
  <2>5. approval' = [q \in Runs |-> IF run'[q].over # "no" THEN NoApproval ELSE approval[q]]
    BY <1>3 DEF Mirrors
  <2>6. /\ approval' \in [Runs -> ApprovalStates]
        /\ approval'[r].state = "none"
        /\ \A q \in Runs : approval'[q] = approval[q] \/ approval'[q].state = "none"
    <3>1. NoApproval \in ApprovalStates /\ NoApproval.state = "none"
      BY DEF NoApproval, ApprovalStates
    <3> QED BY <2>3, <2>4, <2>5, <3>1 DEF Kinds
  <2>7. RunOk(r)'
    <3>1. ~Has(down, {"start"}, r) /\ ~Has(up, {"start"}, r) /\ ~Hosted(r)
      BY <1>3, NoToken
    <3>2. /\ ~Hosted(r)' /\ (Aborting(r)' => Aborting(r))
          /\ ~Has(down', {"start"}, r) /\ ~Has(up', {"start"}, r)
          /\ Less(down', down, r) /\ Less(up', up, r)
      BY <1>1, <1>2, <1>3, <3>1 DEF Hosted, Aborting
    <3> QED BY <1>1, <1>3, <2>1, <2>4, <2>6, <3>2, SettledOk
  <2>8. ASSUME NEW q \in Runs \ {r} PROVE RunOk(q)'
    BY <1>1, <1>2, <1>3, <2>4, <2>6, Untouched DEF Aborting
  <2>9. Kinds'
    BY <1>1, <1>3, <2>4, <2>6 DEF Kinds
  <2>10. Childless'
    BY <1>1, <1>3, <2>3, <2>4 DEF Childless, Registered
  <2> QED BY <2>7, <2>8, <2>9, <2>10
<1>4. CASE /\ run[r].sent /\ requests < MaxRequests
           /\ requests' = requests + 1
           /\ tracked' = tracked \cup {[kind |-> "abort", run |-> r, id |-> requests']}
           /\ down' = Append(down, Frame("abort", r, requests', TRUE))
           /\ UNCHANGED <<run, approval>>
  <2> DEFINE f == Frame("abort", r, requests', TRUE)
  <2>1. requests' \in Requests /\ requests' \in Nat
    BY <1>4, SupervisorAssumption DEF Requests, Kinds
  <2>2. f \in Wire /\ f.kind \in Harmless /\ f.run = r /\ down' = Append(down, f)
    BY <1>4, <2>1, FramesAreWire DEF Frame, RunKinds, Harmless
  <2>3. tracked' \subseteq Request
    BY <1>4, <2>1 DEF Request, Kinds
  <2> HIDE DEF f
  <2>4. /\ down' \in Seq(Wire) /\ Plus(down', down, r)
        /\ \A q \in Runs \ {r} : Less(down', down, q)
    <3>1. down \in Seq(Wire)
      BY DEF Kinds
    <3>2. Append(down, f) = down \o <<f>> /\ down \o <<f>> \in Seq(Wire)
      BY <2>2, <3>1, PutFrame
    <3> QED BY <2>2, <3>1, <3>2, PlusFacts, LessOrEqual
  <2>5. RunOk(r)'
    <3>1. Plus(up', up, r) /\ (Confirmed(r)' => Confirmed(r)) /\ (Aborting(r)' => Aborting(r))
      BY <1>1, <1>2, PlusFacts DEF Confirmed, Aborting
    <3> QED BY <1>1, <1>4, <2>4, <3>1, AddressedOk
  <2>6. ASSUME NEW q \in Runs \ {r} PROVE RunOk(q)'
    BY <1>1, <1>2, <1>4, <2>4, Untouched DEF Aborting
  <2>7. Kinds'
    BY <1>1, <1>4, <2>1, <2>3, <2>4 DEF Kinds
  <2>8. Childless'
    BY <1>1, <1>4 DEF Childless
  <2> QED BY <2>5, <2>6, <2>7, <2>8
<1> QED BY <1>3, <1>4 DEF Aborts

LEMMA AnswersOk == ASSUME RInv, NEW r \in Runs, Answers(r) PROVE Settling'
<1> USE DEF RInv, Settling
<1>1. /\ approval[r].state = "open" /\ requests < MaxRequests /\ requests' = requests + 1
      /\ approval' = [approval EXCEPT ![r] = [state |-> "inFlight", id |-> requests']]
      /\ tracked' = tracked \cup {[kind |-> "reply", run |-> r, id |-> requests']}
      /\ down' = Append(down, Frame("reply", r, requests', TRUE))
      /\ UNCHANGED <<platform, supervisor, run, expired, up, alive, worker>>
  BY DEF Answers
<1>2. Registered(r) /\ run[r].sent
  BY <1>1 DEF RunOk, Mirrored
<1>3. \A q : Less(up, up, q)
  BY LessOrEqual
<1> DEFINE f == Frame("reply", r, requests', TRUE)
<1>4. requests' \in Requests /\ requests' \in Nat
  BY <1>1, SupervisorAssumption DEF Requests, Kinds
<1>5. f \in Wire /\ f.kind \in Harmless /\ f.run = r /\ down' = Append(down, f)
  BY <1>1, <1>4, FramesAreWire DEF Frame, RunKinds, Harmless
<1>6. /\ tracked' \subseteq Request /\ approval' \in [Runs -> ApprovalStates]
      /\ \A q \in Runs \ {r} : approval'[q] = approval[q]
  BY <1>1, <1>4 DEF Request, ApprovalStates, Kinds
<1> HIDE DEF f
<1>7. /\ down' \in Seq(Wire) /\ Plus(down', down, r)
      /\ \A q \in Runs \ {r} : Less(down', down, q)
  <2>1. down \in Seq(Wire)
    BY DEF Kinds
  <2>2. Append(down, f) = down \o <<f>> /\ down \o <<f>> \in Seq(Wire)
    BY <1>5, <2>1, PutFrame
  <2> QED BY <1>5, <2>1, <2>2, PlusFacts, LessOrEqual
<1>8. RunOk(r)'
  <2>1. Plus(up', up, r) /\ (Confirmed(r)' => Confirmed(r)) /\ (Aborting(r)' => Aborting(r))
    BY <1>1, <1>3, PlusFacts DEF Confirmed, Aborting
  <2> QED BY <1>1, <1>2, <1>7, <2>1, AddressedOk
<1>9. ASSUME NEW q \in Runs \ {r} PROVE RunOk(q)'
  BY <1>1, <1>3, <1>6, <1>7, Untouched DEF Aborting
<1>10. Kinds'
  BY <1>1, <1>4, <1>6, <1>7 DEF Kinds
<1>11. Childless'
  BY <1>1, <1>2 DEF Childless
<1> QED BY <1>8, <1>9, <1>10, <1>11

(* A run the worker works at, as long as neither its token nor its report     *)
(* moves.                                                                     *)
LEMMA AtWorkOk ==
  ASSUME NEW r \in Runs, RunOk(r), run[r].sent, run'[r].spawned, run'[r].sent,
         run'[r].waits = run[r].waits, run'[r].forwarded = run[r].forwarded,
         run'[r].over = run[r].over, run'[r].told = run[r].told,
         run'[r].aborted = run[r].aborted \/ Registered(r),
         Plus(down', down, r), Plus(up', up, r),
         Hosted(r)' <=> Hosted(r), worker'.runs[r] = "over" <=> worker.runs[r] = "over",
         worker'.runs[r] = "none" <=> worker.runs[r] = "none",
         approval'[r].state # "none" => Registered(r), Silent(r)'
  PROVE  RunOk(r)'
<1>1. /\ Has(down', {"start"}, r) => Has(down, {"start"}, r)
      /\ Has(up', {"start"}, r) => Has(up, {"start"}, r)
      /\ Has(up', Ends, r) => Has(up, Ends, r)
  BY DEF Plus, Has, Harmless, Ends
<1>2. run[r].spawned /\ (Registered(r)' <=> Registered(r))
  BY DEF Registered, RunOk, Unsent
<1>3. Unsent(r)'
  BY <1>2 DEF RunOk, Unsent
<1>4. Token(r)'
  BY <1>1, <1>2 DEF RunOk, Token, Plus
<1>5. Reported(r)'
  BY <1>1, <1>2 DEF RunOk, Reported, Plus
<1>6. Told(r)' /\ Mirrored(r)'
  BY <1>2 DEF RunOk, Told, Mirrored, Registered
<1> QED BY <1>3, <1>4, <1>5, <1>6 DEF RunOk

\* Once its worker hosts a run, the run is unreported: it was sent and goes on.
LEMMA HostedRun ==
  ASSUME NEW r \in Runs, RunOk(r), Hosted(r)
  PROVE  /\ run[r].sent /\ Registered(r) /\ run[r].forwarded = "no"
         /\ ~Has(up, Ends, r) /\ ~Has(up, {"start"}, r) /\ ~Has(down, {"start"}, r)
<1>1. worker.runs[r] # "none" /\ worker.runs[r] # "over"
  BY DEF Hosted
<1> QED BY <1>1 DEF RunOk, Unsent, Token, Reported

\* Frames are only of runs that were sent.
LEMMA FramesOfSent ==
  ASSUME NEW r \in Runs, RunOk(r), FramesOf(down, r) \cup FramesOf(up, r) # {}
  PROVE  run[r].sent
BY DEF RunOk, Unsent

\* The steps of the worker: it is there, and so is a child of the supervisor.
LEMMA WorkerStep ==
  ASSUME Settling, UNCHANGED WorkerUnchanged, worker' \in WorkerStates, down' \in Seq(Wire), up' \in Seq(Wire),
         down # << >> \/ up # << >> \/ worker # NewWorker, \A r \in Runs : RunOk(r)'
  PROVE  Settling'
<1>1. supervisor.child # 0 /\ UNCHANGED <<supervisor, run, approval, tracked, requests>>
  BY DEF Settling, Childless, WorkerUnchanged
<1> QED BY <1>1 DEF Settling, Kinds, Childless

LEMMA MaybeTaken ==
  ASSUME down \in Seq(Wire), down' = down \/ (down # << >> /\ down' = Tail(down))
  PROVE  down' \in Seq(Wire) /\ \A q : Less(down', down, q)
<1>1. CASE down' = down
  BY <1>1, LessOrEqual
<1>2. CASE down # << >> /\ down' = Tail(down)
  <2>1. Tail(down) \in Seq(Wire) /\ \A q : Less(Tail(down), down, q)
    BY <1>2, TakenFrame
  <2> QED BY <1>2, <2>1
<1> QED BY <1>1, <1>2

LEMMA TakesInitializeOk == ASSUME RInv, TakesInitialize \/ RuntimeLoads \/ Drained PROVE Settling'
<1> USE DEF RInv, Settling
<1>1. worker \in WorkerStates /\ down \in Seq(Wire) /\ up \in Seq(Wire)
      /\ UNCHANGED <<supervisor, run, approval, tracked, requests>> /\ UNCHANGED WorkerUnchanged
  BY DEF Kinds, TakesInitialize, RuntimeLoads, Drained, WorkerUnchanged
<1>2. /\ worker' \in WorkerStates /\ worker'.runs = worker.runs /\ worker'.aborting = worker.aborting
      /\ down # << >> \/ worker # NewWorker
  <2>1. CASE TakesInitialize
    BY <1>1, <2>1 DEF TakesInitialize, Takes, WorkerStates
  <2>2. CASE RuntimeLoads
    <3>1. worker # NewWorker
      BY <2>2 DEF RuntimeLoads, NewWorker
    <3> QED BY <1>1, <2>2, <3>1 DEF RuntimeLoads, WorkerStates
  <2>3. CASE Drained
    <3>1. worker # NewWorker
      BY <2>3 DEF Drained, NewWorker
    <3> QED BY <1>1, <2>3, <3>1 DEF Drained, WorkerStates
  <2> QED BY <2>1, <2>2, <2>3
<1>3. down' \in Seq(Wire) /\ \A q : Less(down', down, q)
  <2>1. down' = down \/ (down # << >> /\ down' = Tail(down))
    BY DEF TakesInitialize, RuntimeLoads, Drained, Takes
  <2> QED BY <1>1, <2>1, MaybeTaken
<1>4. up' \in Seq(Wire) /\ \A q : Less(up', up, q)
  <2>1. up' = up \/ \E kind \in {"initialize", "shutdown"}, ok \in BOOLEAN : up' = up \o <<ToAll(kind, ok)>>
    BY DEF TakesInitialize, RuntimeLoads, Drained, Says
  <2>2. ASSUME NEW kind \in {"initialize", "shutdown"}, NEW ok \in BOOLEAN, NEW f, f = ToAll(kind, ok),
               up' = up \o <<f>>
        PROVE  up' \in Seq(Wire) /\ \A q : Less(up', up, q)
    <3>1. f \in Wire /\ f.kind \notin RunKinds
      BY <2>2, FramesAreWire DEF ToAll, RunKinds
    <3> QED BY <1>1, <2>2, <3>1, LessOrEqual, PutFrame
  <2>3. ASSUME NEW kind \in {"initialize", "shutdown"}, NEW ok \in BOOLEAN, up' = up \o <<ToAll(kind, ok)>>
        PROVE  up' \in Seq(Wire) /\ \A q : Less(up', up, q)
    BY <2>2, <2>3
  <2> QED BY <1>1, <2>1, <2>3, LessOrEqual
<1>5. ASSUME NEW r \in Runs PROVE RunOk(r)'
  BY <1>1, <1>2, <1>3, <1>4, Untouched DEF Aborting
<1> QED BY <1>1, <1>2, <1>3, <1>4, <1>5, WorkerStep

\* A frame about r is put on the supervisor's pipe, and one may be taken.
LEMMA WorkerSays ==
  ASSUME NEW r \in Runs, down \in Seq(Wire), up \in Seq(Wire),
         down' = down \/ (down # << >> /\ down' = Tail(down)),
         NEW t \in Seq(Wire), up' = up \o t, \A f \in Range(t) : f.kind \in Harmless /\ f.run = r
  PROVE  /\ down' \in Seq(Wire) /\ up' \in Seq(Wire)
         /\ Plus(down', down, r) /\ Plus(up', up, r)
         /\ \A q \in Runs \ {r} : Less(down', down, q) /\ Less(up', up, q)
         /\ FramesOf(up', r) = FramesOf(up, r) \cup FramesOf(t, r)
<1>1. down' \in Seq(Wire) /\ \A q : Less(down', down, q)
  BY MaybeTaken
<1>2. up' \in Seq(Wire) /\ \A q : FramesOf(up', q) = FramesOf(up, q) \cup FramesOf(t, q)
  BY MoreFrames
<1>3. Plus(up', up, r)
  BY PlusFacts
<1>4. ASSUME NEW q \in Runs \ {r} PROVE Less(up', up, q)
  <2>1. FramesOf(t, q) = {}
    BY DEF FramesOf
  <2>2. ASSUME NEW kinds, Once(up, kinds, q) PROVE Once(up', kinds, q)
    <3>1. Once(t, kinds, q) /\ \A f \in Range(t) : ~(f.kind \in kinds /\ f.run = q)
      BY DEF Once, Range
    <3> QED BY <2>2, <3>1, MoreFrames
  <2> QED BY <1>2, <2>1, <2>2 DEF Less
<1>5. Plus(down', down, r)
  BY <1>1, PlusFacts
<1> QED BY <1>1, <1>2, <1>3, <1>4, <1>5

\* What the worker says, in sequences of one or two frames, or of none.
LEMMA FewFrames ==
  /\ \A f \in Wire : <<f>> \in Seq(Wire) /\ Range(<<f>>) = {f}
  /\ \A f, g \in Wire : <<f, g>> \in Seq(Wire) /\ Range(<<f, g>>) = {f, g}
  /\ << >> \in Seq(Wire) /\ Range(<< >>) = {}
  /\ \A s \in Seq(Wire) : s \o << >> = s
<1>1. ASSUME NEW f \in Wire PROVE <<f>> \in Seq(Wire) /\ Range(<<f>>) = {f}
  BY NoFrames, OneMoreFrame
<1>2. ASSUME NEW f \in Wire, NEW g \in Wire PROVE <<f, g>> \in Seq(Wire) /\ Range(<<f, g>>) = {f, g}
  <2>1. <<f, g>> \in Seq(Wire) /\ DOMAIN <<f, g>> = {1, 2} /\ <<f, g>>[1] = f /\ <<f, g>>[2] = g
    OBVIOUS
  <2> QED BY <2>1 DEF Range
<1> QED BY <1>1, <1>2, NoFrames, ConcatEmptySeq

(* The steps in which the worker speaks about a run it hosts, or of a request *)
(* it cannot serve.                                                           *)
LEMMA SpokenOk ==
  ASSUME Settling, UNCHANGED WorkerUnchanged, worker' \in WorkerStates, NEW r \in Runs, run[r].sent,
         down' = down \/ (down # << >> /\ down' = Tail(down)), down # << >> \/ Hosted(r),
         NEW t \in Seq(Wire), up' = up \o t,
         \A f \in Range(t) : f.kind \in Harmless /\ f.run = r /\ (f.kind = "abort" => ~f.ok),
         worker'.runs = worker.runs, worker'.aborting = worker.aborting
  PROVE  Settling'
<1> USE DEF Settling
<1>1. worker \in WorkerStates /\ down \in Seq(Wire) /\ up \in Seq(Wire)
      /\ UNCHANGED <<supervisor, run, approval, tracked, requests>>
  BY DEF Kinds, WorkerUnchanged
<1>2. /\ down' \in Seq(Wire) /\ up' \in Seq(Wire)
      /\ Plus(down', down, r) /\ Plus(up', up, r)
      /\ \A q \in Runs \ {r} : Less(down', down, q) /\ Less(up', up, q)
      /\ FramesOf(up', r) = FramesOf(up, r) \cup FramesOf(t, r)
  BY <1>1, WorkerSays
<1>3. RunOk(r)'
  <2>1. Confirmed(r)' => Confirmed(r)
    BY <1>2 DEF Confirmed, FramesOf
  <2>2. Aborting(r)' => Aborting(r)
    BY DEF Aborting
  <2>3. approval'[r].state # "none" => Registered(r)
    BY <1>1 DEF RunOk, Mirrored
  <2> QED BY <1>1, <1>2, <2>1, <2>2, <2>3, AddressedOk
<1>4. ASSUME NEW q \in Runs \ {r} PROVE RunOk(q)'
  BY <1>1, <1>2, Untouched DEF Aborting
<1>5. down # << >> \/ up # << >> \/ worker # NewWorker
  BY NewWorkerShape DEF Hosted
<1> QED BY <1>1, <1>2, <1>3, <1>4, <1>5, WorkerStep

LEMMA AsksOk == ASSUME RInv, NEW r \in Runs, Asks(r) \/ QuestionEnds(r) PROVE Settling'
<1> USE DEF RInv, Settling
<1>1. Hosted(r) /\ RunOk(r) /\ UNCHANGED WorkerUnchanged /\ down' = down /\ worker \in WorkerStates
  BY DEF Asks, QuestionEnds, Kinds
<1>2. run[r].sent
  BY <1>1, HostedRun
<1>3. PICK kind \in {"ask", "cancel"} : up' = up \o <<Frame(kind, r, 0, TRUE)>>
  BY DEF Asks, QuestionEnds, Says
<1> DEFINE t == <<Frame(kind, r, 0, TRUE)>>
<1>4. t \in Seq(Wire) /\ \A f \in Range(t) : f.kind \in Harmless /\ f.run = r /\ (f.kind = "abort" => ~f.ok)
  <2>1. /\ Frame(kind, r, 0, TRUE) \in Wire /\ Frame(kind, r, 0, TRUE).kind = kind
        /\ Frame(kind, r, 0, TRUE).run = r
    BY FramesAreWire DEF RunKinds, Frame
  <2> QED BY <2>1, FewFrames DEF Harmless
<1>5. worker' \in WorkerStates /\ worker'.runs = worker.runs /\ worker'.aborting = worker.aborting
  BY <1>1 DEF Asks, QuestionEnds, WorkerStates
<1> HIDE DEF t
<1>6. up' = up \o t
  BY <1>3 DEF t
<1> QED BY <1>1, <1>2, <1>4, <1>5, <1>6, SpokenOk

\* The next frame of a pipe.
LEMMA NextFrame ==
  ASSUME NEW s \in Seq(Wire), s # << >>, Head(s).kind \in RunKinds
  PROVE  /\ Head(s) \in Wire /\ Head(s).run \in Runs /\ Head(s).id \in Requests \cup {0}
         /\ Head(s).ok \in BOOLEAN /\ (Head(s).kind \in {"abort", "reply"} => Head(s).id \in Requests)
         /\ Head(s) = Frame(Head(s).kind, Head(s).run, Head(s).id, Head(s).ok)
         /\ Head(s) \in FramesOf(s, Head(s).run)
<1>1. Head(s) \in Range(s) /\ Head(s) \in Wire
  BY TakenFrame
<1> DEFINE f == Head(s)
<1> HIDE DEF f
<1>2. f \in Range(s) /\ f \in Wire /\ f.kind \in RunKinds
  BY <1>1 DEF f
<1>3. f.run \in Runs /\ f.id \in Requests \cup {0} /\ f.ok \in BOOLEAN /\ f = Frame(f.kind, f.run, f.id, f.ok)
      /\ (f.kind \in {"abort", "reply"} => f.id \in Requests)
  BY <1>2, WireKinds DEF RunKinds
<1>4. f \in FramesOf(s, f.run)
  BY <1>2 DEF FramesOf
<1> QED BY <1>2, <1>3, <1>4 DEF f

LEMMA RefusedFrame ==
  ASSUME NEW f \in Wire, f.kind \in RunKinds
  PROVE  [f EXCEPT !.ok = FALSE] = Frame(f.kind, f.run, f.id, FALSE)
<1>1. f \in [kind : RunKinds, run : Runs, id : Requests \cup {0}, ok : BOOLEAN]
  BY DEF Wire, RunKinds
<1>2. f = [kind |-> f.kind, run |-> f.run, id |-> f.id, ok |-> f.ok]
  BY <1>1
<1> DEFINE no == FALSE
           y == [f EXCEPT !.ok = no]
<1>3. y = [f EXCEPT !.ok = no]
  OBVIOUS
<1> HIDE DEF no, y
<1>4. y = [kind |-> f.kind, run |-> f.run, id |-> f.id, ok |-> no]
  BY <1>2, <1>3
<1> QED BY <1>4 DEF Frame, no, y

LEMMA TakesReplyOk == ASSUME RInv, TakesReply PROVE Settling'
<1> USE DEF RInv, Settling
<1> DEFINE f == Head(down)
           no == [f EXCEPT !.ok = FALSE]
           ask == Frame("ask", f.run, 0, TRUE)
<1>1. /\ down # << >> /\ f.kind = "reply" /\ down' = Tail(down) /\ Hosted(f.run)
      /\ UNCHANGED WorkerUnchanged /\ worker \in WorkerStates /\ down \in Seq(Wire) /\ up \in Seq(Wire)
  BY DEF TakesReply, Takes, Kinds
<1>2. /\ f \in Wire /\ f.run \in Runs /\ f \in FramesOf(down, f.run)
      /\ f = Frame(f.kind, f.run, f.id, f.ok) /\ f.id \in Requests
  <2>1. f.kind \in RunKinds
    BY <1>1 DEF RunKinds
  <2> QED BY <1>1, <2>1, NextFrame
<1>3. run[f.run].sent
  BY <1>2, FramesOfSent
<1>4. no \in Wire /\ no.kind = "reply" /\ no.run = f.run
  <2>1. no = Frame("reply", f.run, f.id, FALSE)
    <3> HIDE DEF f
    <3> QED BY <1>1, <1>2, RefusedFrame DEF RunKinds
  <2>2. Frame("reply", f.run, f.id, FALSE) \in Wire
    BY <1>2, FramesAreWire DEF RunKinds
  <2> HIDE DEF no, f
  <2> QED BY <2>1, <2>2 DEF Frame
<1>5. ask \in Wire /\ ask.kind = "ask" /\ ask.run = f.run
  BY <1>2, FramesAreWire DEF RunKinds, Frame
<1>6. worker' \in WorkerStates /\ worker'.runs = worker.runs /\ worker'.aborting = worker.aborting
  <2>1. worker' = worker \/ worker' = [worker EXCEPT !.question[f.run] = "answered"]
    BY DEF TakesReply
  <2>2. PICK r \in Runs : r = f.run
    BY <1>2
  <2>3. CASE worker' = [worker EXCEPT !.question[r] = "answered"]
    BY <1>1, <2>3 DEF WorkerStates
  <2> QED BY <1>1, <2>1, <2>2, <2>3
<1>7. up' = up \o <<f>> \/ up' = up \o <<ask, f>> \/ up' = up \o <<no>>
  BY DEF TakesReply, Says
<1> HIDE DEF f, no, ask
<1>8. PICK t \in Seq(Wire) : up' = up \o t /\ \A g \in Range(t) : g \in {f, no, ask}
  <2>1. CASE up' = up \o <<f>>
    <3>1. <<f>> \in Seq(Wire) /\ Range(<<f>>) = {f}
      BY <1>2, FewFrames
    <3> QED BY <2>1, <3>1
  <2>2. CASE up' = up \o <<ask, f>>
    <3>1. <<ask, f>> \in Seq(Wire) /\ Range(<<ask, f>>) = {ask, f}
      BY <1>2, <1>5, FewFrames
    <3> QED BY <2>2, <3>1
  <2>3. CASE up' = up \o <<no>>
    <3>1. <<no>> \in Seq(Wire) /\ Range(<<no>>) = {no}
      BY <1>4, FewFrames
    <3> QED BY <2>3, <3>1
  <2> QED BY <1>7, <2>1, <2>2, <2>3
<1>9. \A g \in Range(t) : g.kind \in Harmless /\ g.run = f.run /\ (g.kind = "abort" => ~g.ok)
  BY <1>1, <1>4, <1>5, <1>8 DEF Harmless
<1> QED BY <1>1, <1>2, <1>3, <1>6, <1>8, <1>9, SpokenOk

\* An abort goes to gjc: the run has not reported, and will not.
LEMMA TakesAbortOk == ASSUME RInv, TakesAbort PROVE Settling'
<1> USE DEF RInv, Settling
<1> DEFINE f == Head(down)
<1>1. /\ down # << >> /\ f.kind = "abort" /\ down' = Tail(down) /\ Hosted(f.run) /\ up' = up
      /\ UNCHANGED WorkerUnchanged /\ worker \in WorkerStates /\ down \in Seq(Wire) /\ up \in Seq(Wire)
      /\ worker' = [worker EXCEPT !.aborting = @ \cup {[kind |-> "abort", run |-> f.run, id |-> f.id]}]
      /\ UNCHANGED <<supervisor, run, approval, tracked, requests>>
  BY DEF TakesAbort, Takes, Kinds, WorkerUnchanged
<1>2. f.run \in Runs /\ f.id \in Requests
  <2>1. f.kind \in RunKinds
    BY <1>1 DEF RunKinds
  <2> QED BY <1>1, <2>1, NextFrame
<1>3. PICK r \in Runs, id \in Requests : r = f.run /\ id = f.id
  BY <1>2
<1> HIDE DEF f
<1>4. /\ worker' \in WorkerStates /\ worker'.runs = worker.runs /\ worker'.question = worker.question
      /\ worker'.aborting = worker.aborting \cup {[kind |-> "abort", run |-> r, id |-> id]}
  <2>1. [kind |-> "abort", run |-> r, id |-> id] \in Request
    BY DEF Request
  <2> QED BY <1>1, <1>3, <2>1 DEF WorkerStates
<1>5. down' \in Seq(Wire) /\ \A q : Less(down', down, q)
  BY <1>1, MaybeTaken DEF f
<1>6. up' \in Seq(Wire) /\ \A q : Less(up', up, q)
  BY <1>1, LessOrEqual
<1>7. RunOk(r)'
  <2>1. run[r].sent /\ Registered(r) /\ run[r].forwarded = "no" /\ ~Has(up, Ends, r)
    BY <1>1, <1>3, HostedRun
  <2>2. Silent(r)'
    BY <1>1, <1>4, <2>1 DEF Silent, RunOk, Confirmed, Registered
  <2>3. (Hosted(r)' <=> Hosted(r)) /\ Plus(down', down, r) /\ Plus(up', up, r) /\ run[r].spawned
    BY <1>4, <1>5, <1>6, <2>1, PlusFacts DEF Hosted, Registered
  <2> QED BY <1>1, <1>4, <2>1, <2>2, <2>3, AtWorkOk
<1>8. ASSUME NEW q \in Runs \ {r} PROVE RunOk(q)'
  <2>1. Aborting(q)' => Aborting(q)
    BY <1>4, <1>8 DEF Aborting
  <2> QED BY <1>1, <1>4, <1>5, <1>6, <2>1, Untouched
<1> QED BY <1>1, <1>4, <1>5, <1>6, <1>7, <1>8, WorkerStep

\* gjc's answer to an abort: what it confirms it has stopped.
LEMMA AbortAnsweredOk == ASSUME RInv, NEW t \in worker.aborting, AbortAnswered(t) PROVE Settling'
<1> USE DEF RInv, Settling
<1> DEFINE r == t.run
<1>1. PICK ok \in BOOLEAN :
        /\ worker.runs[r] # "running" => ok
        /\ worker' = [worker EXCEPT !.aborting = @ \ {t}, !.runs[r] = IF ok /\ @ = "running" THEN "aborted" ELSE @]
        /\ up' = up \o <<Frame("abort", r, t.id, ok)>>
  BY DEF AbortAnswered, Says
<1>2. /\ UNCHANGED WorkerUnchanged /\ down' = down /\ worker \in WorkerStates /\ t \in Request
      /\ down \in Seq(Wire) /\ up \in Seq(Wire) /\ r \in Runs /\ t.id \in Requests
      /\ UNCHANGED <<supervisor, run, approval, tracked, requests>>
  BY DEF AbortAnswered, Kinds, WorkerUnchanged, WorkerStates, Request
<1> DEFINE f == Frame("abort", r, t.id, ok)
           s == <<f>>
<1>3. f \in Wire /\ f.kind = "abort" /\ f.run = r /\ f.ok = ok
  BY <1>2, FramesAreWire DEF Frame, RunKinds
<1>4. s \in Seq(Wire) /\ Range(s) = {f} /\ up' = up \o s
  BY <1>1, <1>3, FewFrames
<1> HIDE DEF f, s
<1>5. /\ down' \in Seq(Wire) /\ up' \in Seq(Wire)
      /\ Plus(down', down, r) /\ Plus(up', up, r)
      /\ \A q \in Runs \ {r} : Less(down', down, q) /\ Less(up', up, q)
      /\ FramesOf(up', r) = FramesOf(up, r) \cup FramesOf(s, r)
  <2>1. \A g \in Range(s) : g.kind \in Harmless /\ g.run = r
    BY <1>3, <1>4 DEF Harmless
  <2> QED BY <1>2, <1>4, <2>1, WorkerSays
<1>6. FramesOf(s, r) = {f}
  BY <1>3, <1>4 DEF FramesOf, RunKinds
<1>7. /\ worker' \in WorkerStates /\ worker'.aborting \subseteq worker.aborting
      /\ worker'.runs[r] = IF ok /\ worker.runs[r] = "running" THEN "aborted" ELSE worker.runs[r]
      /\ \A q \in Runs \ {r} : worker'.runs[q] = worker.runs[q]
  BY <1>1, <1>2 DEF WorkerStates
<1>8. worker.runs[r] \in {"running", "aborted", "over"}
  BY <1>2 DEF Served, WorkerStates
<1>9. RunOk(r)'
  <2>1. run[r].sent /\ run[r].spawned
    BY <1>2, <1>8 DEF RunOk, Unsent
  <2>2. Silent(r)'
    <3> SUFFICES ASSUME supervisor'.shutdown = "no" PROVE Silent(r)'
      BY DEF Silent
    <3>1. ~Has(up, Ends, r) /\ run[r].forwarded = "no"
      BY <1>2 DEF RunOk, Silent, Aborting
    <3>2. ~Has(up', Ends, r)
      BY <1>3, <1>5, <1>6, <3>1 DEF Has, Ends
    <3>3. Confirmed(r)' => Confirmed(r) \/ ok
      BY <1>3, <1>5, <1>6 DEF Confirmed
    <3>4. Confirmed(r) \/ (run[r].aborted /\ Registered(r)) => worker.runs[r] \in {"aborted", "over"}
      BY <1>2 DEF RunOk, Silent
    <3>5. Registered(r)' <=> Registered(r)
      BY <1>2 DEF Registered
    <3> QED BY <1>1, <1>2, <1>7, <1>8, <3>1, <3>2, <3>3, <3>4, <3>5 DEF Silent
  <2>3. (Hosted(r)' <=> Hosted(r)) /\ (worker'.runs[r] = "over" <=> worker.runs[r] = "over")
        /\ (worker'.runs[r] = "none" <=> worker.runs[r] = "none")
    BY <1>7 DEF Hosted
  <2>4. approval'[r].state # "none" => Registered(r)
    BY <1>2 DEF RunOk, Mirrored
  <2> QED BY <1>2, <1>5, <2>1, <2>2, <2>3, <2>4, AtWorkOk
<1>10. ASSUME NEW q \in Runs \ {r} PROVE RunOk(q)'
  BY <1>2, <1>5, <1>7, Untouched DEF Aborting
<1>11. worker # NewWorker
  BY NewWorkerShape
<1> QED BY <1>2, <1>5, <1>7, <1>9, <1>10, <1>11, WorkerStep

\* A start frame is taken: it was the run's token.
LEMMA TokenTaken ==
  ASSUME down \in Seq(Wire), down # << >>, down' = Tail(down),
         NEW r \in Runs, RunOk(r), Head(down).kind = "start", Head(down).run = r
  PROVE  /\ run[r].sent /\ Registered(r) /\ run[r].forwarded = "no" /\ worker.runs[r] = "none"
         /\ ~Has(up, {"start"}, r) /\ ~Has(up, Ends, r) /\ ~Has(down', {"start"}, r)
         /\ Once(down', {"start"}, r)
<1>1. Head(down) \in FramesOf(down, r)
  BY NextFrame DEF RunKinds
<1>2. Has(down, {"start"}, r)
  BY <1>1 DEF Has
<1>3. \A f \in Range(Tail(down)) : ~(f.kind \in {"start"} /\ f.run = r)
  <2>1. Once(down, {"start"}, r)
    BY DEF RunOk, Token
  <2> QED BY <2>1, TakenFrame
<1>4. ~Has(down', {"start"}, r) /\ Once(down', {"start"}, r)
  BY <1>3 DEF Has, FramesOf, Once, Range
<1> QED BY <1>1, <1>2, <1>4 DEF RunOk, Unsent, Token, Reported

LEMMA TakesStartOk == ASSUME RInv, TakesStart PROVE Settling'
<1> USE DEF RInv, Settling
<1> DEFINE f == Head(down)
<1>1. /\ down # << >> /\ f.kind = "start" /\ down' = Tail(down) /\ up' = up
      /\ UNCHANGED WorkerUnchanged /\ worker \in WorkerStates /\ down \in Seq(Wire) /\ up \in Seq(Wire)
      /\ worker' = [worker EXCEPT !.runs[f.run] = "running"]
      /\ UNCHANGED <<supervisor, run, approval, tracked, requests>>
  BY DEF TakesStart, Takes, Kinds, WorkerUnchanged
<1>2. f.run \in Runs
  BY <1>1, NextFrame DEF RunKinds
<1>3. PICK r \in Runs : r = f.run
  BY <1>2
<1>4. worker' = [worker EXCEPT !.runs[r] = "running"]
  BY <1>1, <1>3
<1>5. /\ worker' \in WorkerStates /\ worker'.runs[r] = "running" /\ worker'.aborting = worker.aborting
      /\ \A q \in Runs \ {r} : worker'.runs[q] = worker.runs[q]
  <2> DEFINE now == [worker.runs EXCEPT ![r] = "running"]
  <2>1. /\ now \in [Runs -> {"none", "running", "aborted", "over"}] /\ now[r] = "running"
        /\ \A q \in Runs \ {r} : now[q] = worker.runs[q]
    BY <1>1 DEF WorkerStates
  <2>2. worker' = [worker EXCEPT !.runs = now]
    BY <1>4
  <2> HIDE DEF now
  <2>3. worker' \in WorkerStates /\ worker'.runs = now /\ worker'.aborting = worker.aborting
    BY <1>1, <2>1, <2>2 DEF WorkerStates
  <2> QED BY <2>1, <2>3
<1>6. down' \in Seq(Wire) /\ \A q : Less(down', down, q)
  BY <1>1, MaybeTaken
<1>7. up' \in Seq(Wire) /\ \A q : Less(up', up, q)
  BY <1>1, LessOrEqual
<1>8. /\ run[r].sent /\ Registered(r) /\ run[r].forwarded = "no" /\ worker.runs[r] = "none"
      /\ ~Has(up, {"start"}, r) /\ ~Has(up, Ends, r) /\ ~Has(down', {"start"}, r)
      /\ Once(down', {"start"}, r)
  BY <1>1, <1>3, TokenTaken
<1> HIDE DEF f
<1>9. RunOk(r)'
  <2>1. Unsent(r)'
    BY <1>1, <1>8 DEF RunOk, Unsent, Registered
  <2>2. Token(r)'
    BY <1>1, <1>8 DEF RunOk, Token, Registered
  <2>3. Reported(r)'
    BY <1>1, <1>8 DEF RunOk, Reported
  <2>4. Silent(r)'
    <3>1. ~Aborting(r)
      BY <1>8 DEF Served, Aborting
    <3> QED BY <1>1, <1>5, <1>8, <3>1 DEF RunOk, Silent, Aborting, Confirmed, Registered
  <2>5. Told(r)' /\ Mirrored(r)'
    BY <1>1 DEF RunOk, Told, Mirrored, Registered
  <2> QED BY <2>1, <2>2, <2>3, <2>4, <2>5 DEF RunOk
<1>10. ASSUME NEW q \in Runs \ {r} PROVE RunOk(q)'
  BY <1>1, <1>5, <1>6, <1>7, Untouched DEF Aborting
<1> QED BY <1>1, <1>5, <1>6, <1>7, <1>9, <1>10, WorkerStep

LEMMA TakesInVainOk == ASSUME RInv, TakesInVain PROVE Settling'
<1> USE DEF RInv, Settling
<1> DEFINE f == Head(down)
           no == [f EXCEPT !.ok = FALSE]
<1>1. /\ down # << >> /\ f.kind \in {"start", "abort", "reply"} /\ down' = Tail(down)
      /\ up' = up \o <<no>> /\ worker' = worker
      /\ UNCHANGED WorkerUnchanged /\ worker \in WorkerStates /\ down \in Seq(Wire) /\ up \in Seq(Wire)
      /\ UNCHANGED <<supervisor, run, approval, tracked, requests>>
  BY DEF TakesInVain, Takes, Kinds, WorkerUnchanged, Says
<1>2. /\ f \in Wire /\ f.run \in Runs /\ f \in FramesOf(down, f.run)
      /\ f = Frame(f.kind, f.run, f.id, f.ok) /\ f.id \in Requests \cup {0}
      /\ f.kind \in RunKinds /\ (f.kind \in {"abort", "reply"} => f.id \in Requests)
  <2>1. f.kind \in RunKinds
    BY <1>1 DEF RunKinds
  <2> QED BY <1>1, <2>1, NextFrame
<1>3. PICK r \in Runs : r = f.run
  BY <1>2
<1>4. no \in Wire /\ no.kind = f.kind /\ no.run = r /\ ~no.ok
  <2>1. no = Frame(f.kind, f.run, f.id, FALSE)
    <3> HIDE DEF f
    <3> QED BY <1>1, <1>2, RefusedFrame
  <2>2. Frame(f.kind, f.run, f.id, FALSE) \in Wire
    BY <1>2, FramesAreWire
  <2> HIDE DEF no, f
  <2> QED BY <1>3, <2>1, <2>2 DEF Frame
<1>5. run[r].sent
  BY <1>2, <1>3, FramesOfSent
<1> DEFINE t == <<no>>
<1> HIDE DEF no
<1>6. t \in Seq(Wire) /\ Range(t) = {no} /\ up' = up \o t
  BY <1>1, <1>4, FewFrames
<1>7. CASE f.kind # "start"
  <2>1. \A g \in Range(t) : g.kind \in Harmless /\ g.run = r /\ (g.kind = "abort" => ~g.ok)
    BY <1>1, <1>4, <1>6, <1>7 DEF Harmless
  <2>2. t \in Seq(Wire) /\ up' = up \o t
    BY <1>6
  <2> HIDE DEF t
  <2> QED BY <1>1, <1>5, <2>1, <2>2, SpokenOk
<1>8. CASE f.kind = "start"
  <2>1. /\ run[r].sent /\ Registered(r) /\ run[r].forwarded = "no" /\ worker.runs[r] = "none"
        /\ ~Has(up, {"start"}, r) /\ ~Has(up, Ends, r) /\ ~Has(down', {"start"}, r)
        /\ Once(down', {"start"}, r)
    BY <1>1, <1>3, <1>8, TokenTaken
  <2>2. down' \in Seq(Wire) /\ \A q : Less(down', down, q)
    BY <1>1, MaybeTaken
  <2>3. /\ up' \in Seq(Wire) /\ FramesOf(up', r) = FramesOf(up, r) \cup {no}
        /\ Once(up', {"start"}, r) /\ Once(up', Ends, r)
        /\ \A q \in Runs \ {r} : Less(up', up, q)
    <3>1. \A g \in Range(up) : ~(g.kind \in {"start"} /\ g.run = r)
      BY <2>1 DEF Has, FramesOf, RunKinds
    <3>2. Once(up, {"start"}, r) /\ Once(up, Ends, r) /\ no.kind = "start" /\ no.kind \notin Ends
      BY <1>4, <1>8 DEF RunOk, Token, Reported, Ends
    <3>3. /\ up \o <<no>> \in Seq(Wire)
          /\ FramesOf(up \o <<no>>, r) = FramesOf(up, r) \cup (IF no.kind \in RunKinds /\ no.run = r THEN {no} ELSE {})
      BY <1>1, <1>4, PutFrame
    <3>4. Once(up \o <<no>>, {"start"}, r)
      BY <1>1, <1>4, <3>1, <3>2, PutFrame
    <3>5. Once(up \o <<no>>, Ends, r)
      BY <1>1, <1>4, <3>2, PutFrame
    <3>6. \A q \in Runs \ {r} : Less(up \o <<no>>, up, q)
      BY <1>1, <1>4, LessOrEqual
    <3> QED BY <1>1, <1>2, <1>4, <3>3, <3>4, <3>5, <3>6
  <2>4. ~Has(up', Ends, r) /\ (Confirmed(r)' => Confirmed(r)) /\ (Registered(r)' <=> Registered(r))
    BY <1>1, <1>4, <1>8, <2>1, <2>3 DEF Has, Ends, Confirmed, Registered
  <2>5. RunOk(r)'
    <3>1. Unsent(r)'
      BY <1>1, <2>1, <2>4 DEF RunOk, Unsent, Registered
    <3>2. Token(r)'
      BY <1>1, <2>1, <2>3, <2>4 DEF Token, Hosted
    <3>3. Reported(r)'
      BY <1>1, <2>1, <2>3, <2>4 DEF Reported
    <3>4. Silent(r)'
      BY <1>1, <2>1, <2>4 DEF RunOk, Silent, Aborting
    <3>5. Told(r)' /\ Mirrored(r)'
      BY <1>1, <2>4 DEF RunOk, Told, Mirrored
    <3> QED BY <3>1, <3>2, <3>3, <3>4, <3>5 DEF RunOk
  <2>6. ASSUME NEW q \in Runs \ {r} PROVE RunOk(q)'
    BY <1>1, <2>2, <2>3, Untouched DEF Aborting
  <2> QED BY <1>1, <2>2, <2>3, <2>5, <2>6, WorkerStep
<1> QED BY <1>7, <1>8

LEMMA TakesShutdownOk == ASSUME RInv, TakesShutdown PROVE Settling'
<1> USE DEF RInv, Settling
<1>1. /\ down # << >> /\ Head(down).kind = "shutdown" /\ down' = Tail(down)
      /\ UNCHANGED WorkerUnchanged /\ worker \in WorkerStates /\ down \in Seq(Wire) /\ up \in Seq(Wire)
      /\ UNCHANGED <<supervisor, run, approval, tracked, requests>>
  BY DEF TakesShutdown, Takes, Kinds, WorkerUnchanged
<1>2. supervisor.shutdown # "no"
  BY <1>1, TakenFrame DEF Served
<1>3. down' \in Seq(Wire) /\ \A q : Less(down', down, q)
  BY <1>1, MaybeTaken
<1>4. up' \in Seq(Wire) /\ \A q : Less(up', up, q)
  <2> DEFINE f == ToAll("shutdown", FALSE)
  <2>1. f \in Wire /\ f.kind \notin RunKinds
    BY FramesAreWire DEF ToAll, RunKinds
  <2>2. up' = up \/ up' = up \o <<f>>
    BY DEF TakesShutdown, Says
  <2> HIDE DEF f
  <2>3. CASE up' = up
    BY <1>1, <2>3, LessOrEqual
  <2>4. CASE up' = up \o <<f>>
    <3>1. up \o <<f>> \in Seq(Wire) /\ \A q : Less(up \o <<f>>, up, q)
      BY <1>1, <2>1, LessOrEqual, PutFrame
    <3> QED BY <2>4, <3>1
  <2> QED BY <2>2, <2>3, <2>4
<1>5. /\ worker' \in WorkerStates
      /\ \A r \in Runs : \/ worker'.runs[r] = worker.runs[r]
                         \/ Hosted(r) /\ worker'.runs[r] = "aborted"
  <2>1. CASE worker' = worker
    BY <1>1, <2>1
  <2>2. ASSUME NEW aborted \in SUBSET {r \in Runs : Hosted(r)},
               worker' = [worker EXCEPT !.closed = "draining",
                            !.runs = [r \in Runs |-> IF r \in aborted THEN "aborted" ELSE worker.runs[r]]]
        PROVE  <1>5!1 /\ <1>5!2
    <3> DEFINE now == [r \in Runs |-> IF r \in aborted THEN "aborted" ELSE worker.runs[r]]
    <3>1. now \in [Runs -> {"none", "running", "aborted", "over"}]
      BY <1>1 DEF WorkerStates
    <3>2. worker' = [worker EXCEPT !.closed = "draining", !.runs = now]
      BY <2>2
    <3>3. \A r \in Runs : now[r] = worker.runs[r] \/ (Hosted(r) /\ now[r] = "aborted")
      OBVIOUS
    <3> HIDE DEF now
    <3>4. worker' \in WorkerStates /\ worker'.runs = now
      BY <1>1, <3>1, <3>2 DEF WorkerStates
    <3> QED BY <3>3, <3>4
  <2> QED BY <2>1, <2>2 DEF TakesShutdown
<1>6. ASSUME NEW r \in Runs PROVE RunOk(r)'
  <2>1. CASE worker'.runs[r] = worker.runs[r]
    <3>1. Silent(r)'
      BY <1>1, <1>2 DEF Silent
    <3>2. Plus(down', down, r) /\ Plus(up', up, r)
      BY <1>3, <1>4, PlusFacts
    <3>3. (Hosted(r)' <=> Hosted(r)) /\ (Mirrored(r) => (approval'[r].state # "none" => Registered(r)))
      BY <1>1, <2>1 DEF Hosted, Mirrored
    <3>4. CASE run[r].sent
      <4>1. Mirrored(r) /\ run[r].spawned
        BY <3>4 DEF RunOk, Unsent
      <4> QED BY <1>1, <2>1, <3>1, <3>2, <3>3, <3>4, <4>1, AtWorkOk
    <3>5. CASE ~run[r].sent
      <4>1. FramesOf(down', r) = {} /\ FramesOf(up', r) = {}
        BY <1>3, <1>4, <3>5, NoToken DEF Less
      <4>2. Once(down', {"start"}, r) /\ Once(up', {"start"}, r) /\ Once(up', Ends, r)
        <5>1. {"start"} \in SUBSET RunKinds /\ Ends \in SUBSET RunKinds
          BY DEF RunKinds, Ends
        <5> QED BY <1>3, <1>4, <5>1 DEF Less, RunOk, Token, Reported
      <4>3. worker.runs[r] = "none" /\ Unsent(r)'
        BY <1>1, <2>1, <3>5, <4>1 DEF RunOk, Unsent, Registered
      <4>4. Token(r)' /\ Reported(r)'
        BY <1>1, <2>1, <3>5, <4>1, <4>2, <4>3 DEF RunOk, Token, Reported, Has, Hosted, Unsent
      <4>5. Told(r)' /\ Mirrored(r)'
        BY <1>1 DEF RunOk, Told, Mirrored, Registered
      <4> QED BY <3>1, <4>3, <4>4, <4>5 DEF RunOk
    <3> QED BY <3>4, <3>5
  <2>2. CASE Hosted(r) /\ worker'.runs[r] = "aborted"
    <3>1. Silent(r)'
      BY <1>1, <1>2 DEF Silent
    <3>2. Plus(down', down, r) /\ Plus(up', up, r)
      BY <1>3, <1>4, PlusFacts
    <3>3. run[r].sent /\ Registered(r)
      BY <2>2, HostedRun
    <3>4. worker.runs[r] # "none" /\ worker.runs[r] # "over" /\ Hosted(r)' /\ run[r].spawned
      BY <2>2, <3>3 DEF Hosted, Registered
    <3> QED BY <1>1, <2>2, <3>1, <3>2, <3>3, <3>4, AtWorkOk
  <2> QED BY <1>5, <2>1, <2>2
<1> QED BY <1>1, <1>3, <1>4, <1>5, <1>6, WorkerStep

\* What a run leaves in the pipe when it ends.
Ending(t, r, second) ==
  /\ t \in Seq(Wire) /\ \A f \in Range(t) : f.kind \in {"cancel", "start"} \cup Ends /\ f.run = r
  /\ Once(t, {"start"}, r) /\ Once(t, Ends, r)
  /\ second = << >> => \A f \in Range(t) : f.kind \notin Ends

LEMMA LastWords ==
  ASSUME NEW r \in Runs, NEW how \in Ends, NEW s \in Wire, s.kind = "start", s.run = r,
         NEW first, first = << >> \/ first = <<Frame("cancel", r, 0, TRUE)>>,
         NEW second, second = << >> \/ second = <<Frame(how, r, 0, TRUE)>>,
         NEW t, t = (first \o second) \o <<s>>
  PROVE  Ending(t, r, second)
<1> DEFINE c == Frame("cancel", r, 0, TRUE)
           e == Frame(how, r, 0, TRUE)
           third == <<s>>
<1>1. /\ c \in Wire /\ e \in Wire /\ s \in Wire
      /\ c.kind = "cancel" /\ e.kind = how /\ s.kind = "start" /\ c.run = r /\ e.run = r /\ s.run = r
  BY FramesAreWire DEF RunKinds, Ends, Frame
<1>2. /\ t = (first \o second) \o third
      /\ first = << >> \/ first = <<c>>
      /\ second = << >> \/ second = <<e>>
  OBVIOUS
<1> HIDE DEF c, e
<1>3. first \in Seq(Wire) /\ Range(first) \subseteq {c} /\ \A kinds : Once(first, kinds, r)
  <2>1. CASE first = << >>
    BY <2>1, NoFrames
  <2>2. CASE first = <<c>>
    BY <1>1, <2>2, NoFrames, OneMoreFrame
  <2> QED BY <1>2, <2>1, <2>2
<1>4. /\ second \in Seq(Wire) /\ Range(second) \subseteq {e} /\ \A kinds : Once(second, kinds, r)
      /\ second = << >> => Range(second) = {}
  <2>1. CASE second = << >>
    BY <2>1, NoFrames
  <2>2. CASE second = <<e>>
    BY <1>1, <2>2, NoFrames, OneMoreFrame
  <2> QED BY <1>2, <2>1, <2>2
<1>5. third \in Seq(Wire) /\ Range(third) = {s} /\ \A kinds : Once(third, kinds, r)
  BY <1>1, NoFrames, OneMoreFrame
<1> HIDE DEF third
<1> DEFINE both == first \o second
<1>6. both \in Seq(Wire) /\ Range(both) = Range(first) \cup Range(second)
  BY <1>3, <1>4, MoreFrames
<1>7. Once(both, {"start"}, r) /\ Once(both, Ends, r)
  <2>1. \A f \in Range(first) : ~(f.kind \in {"start"} /\ f.run = r) /\ ~(f.kind \in Ends /\ f.run = r)
    BY <1>1, <1>3 DEF Ends
  <2>2. Once(both, {"start"}, r)
    BY <1>3, <1>4, <2>1, MoreFrames
  <2>3. Once(both, Ends, r)
    BY <1>3, <1>4, <2>1, MoreFrames
  <2> QED BY <2>2, <2>3
<1> HIDE DEF both
<1>8. t \in Seq(Wire) /\ Range(t) = Range(both) \cup {s}
  <2>1. both \o third \in Seq(Wire) /\ Range(both \o third) = Range(both) \cup Range(third)
    BY <1>5, <1>6, MoreFrames
  <2> QED BY <1>2, <1>5, <2>1 DEF both
<1>9. Once(t, {"start"}, r) /\ Once(t, Ends, r)
  <2>1. /\ \A f \in Range(both) : ~(f.kind \in {"start"} /\ f.run = r)
        /\ \A f \in Range(third) : ~(f.kind \in Ends /\ f.run = r)
    BY <1>1, <1>3, <1>4, <1>5, <1>6 DEF Ends
  <2>2. Once(both \o third, {"start"}, r)
    BY <1>5, <1>6, <1>7, <2>1, MoreFrames
  <2>3. Once(both \o third, Ends, r)
    BY <1>5, <1>6, <1>7, <2>1, MoreFrames
  <2> QED BY <1>2, <2>2, <2>3 DEF both
<1> QED BY <1>1, <1>3, <1>4, <1>6, <1>8, <1>9 DEF Ending, Ends

\* A run ends: it reports, unless it is being aborted, and responds.
LEMMA RunEndsOk == ASSUME RInv, NEW r \in Runs, RunEnds(r) PROVE Settling'
<1> USE DEF RInv, Settling
<1> DEFINE silent == worker.runs[r] = "aborted" \/ \E t \in worker.aborting : t.run = r
           asks == worker.question[r] \in {"open", "answered"}
<1>1. /\ Hosted(r) /\ UNCHANGED WorkerUnchanged /\ down' = down /\ worker \in WorkerStates
      /\ down \in Seq(Wire) /\ up \in Seq(Wire)
      /\ UNCHANGED <<supervisor, run, approval, tracked, requests>>
      /\ worker' = [worker EXCEPT !.runs[r] = "over", !.question[r] = "done"]
  BY DEF RunEnds, Kinds, WorkerUnchanged
<1> DEFINE first == IF asks THEN <<Frame("cancel", r, 0, TRUE)>> ELSE << >>
<1>2. PICK how \in Ends : up' = up \o ((first \o (IF silent THEN << >> ELSE <<Frame(how, r, 0, TRUE)>>))
                                         \o <<Frame("start", r, 0, how = "completed")>>)
  BY DEF RunEnds, Says, Ends
<1> DEFINE second == IF silent THEN << >> ELSE <<Frame(how, r, 0, TRUE)>>
           s == Frame("start", r, 0, how = "completed")
           t == (first \o second) \o <<s>>
<1>3. /\ t \in Seq(Wire) /\ \A f \in Range(t) : f.kind \in {"cancel", "start"} \cup Ends /\ f.run = r
      /\ Once(t, {"start"}, r) /\ Once(t, Ends, r)
      /\ silent => \A f \in Range(t) : f.kind \notin Ends
  <2>0. s \in Wire /\ s.kind = "start" /\ s.run = r
    <3> DEFINE ok == how = "completed"
    <3>1. ok \in BOOLEAN
      OBVIOUS
    <3> HIDE DEF ok
    <3>2. Frame("start", r, 0, ok) \in Wire
      BY <3>1, FramesAreWire DEF RunKinds
    <3> QED BY <3>2 DEF Frame, ok
  <2>1. /\ first = << >> \/ first = <<Frame("cancel", r, 0, TRUE)>>
        /\ second = << >> \/ second = <<Frame(how, r, 0, TRUE)>>
        /\ silent => second = << >>
        /\ t = (first \o second) \o <<s>>
    OBVIOUS
  <2> HIDE DEF asks, silent, s, first, second, t
  <2>2. Ending(t, r, second)
    BY <2>0, <2>1, LastWords, Zenon
  <2> QED BY <2>1, <2>2 DEF Ending
<1>4. up' = up \o t
  BY <1>2
<1> HIDE DEF t
<1>5. silent <=> worker.runs[r] = "aborted" \/ Aborting(r)
  BY DEF Aborting
<1> HIDE DEF silent, asks
<1>6. /\ worker' \in WorkerStates /\ worker'.runs[r] = "over" /\ worker'.aborting = worker.aborting
      /\ \A q \in Runs \ {r} : worker'.runs[q] = worker.runs[q]
  <2> DEFINE now == [worker.runs EXCEPT ![r] = "over"]
             asked == [worker.question EXCEPT ![r] = "done"]
  <2>1. /\ now \in [Runs -> {"none", "running", "aborted", "over"}] /\ now[r] = "over"
        /\ asked \in [Runs -> {"none", "open", "answered", "done"}]
        /\ \A q \in Runs \ {r} : now[q] = worker.runs[q]
    BY <1>1 DEF WorkerStates
  <2>2. worker' = [worker EXCEPT !.runs = now, !.question = asked]
    BY <1>1
  <2> HIDE DEF now, asked
  <2>3. worker' \in WorkerStates /\ worker'.runs = now /\ worker'.aborting = worker.aborting
    BY <1>1, <2>1, <2>2 DEF WorkerStates
  <2> QED BY <2>1, <2>3
<1>7. /\ run[r].sent /\ Registered(r) /\ run[r].forwarded = "no"
      /\ ~Has(up, Ends, r) /\ ~Has(up, {"start"}, r) /\ ~Has(down, {"start"}, r)
  BY <1>1, HostedRun
<1>8. /\ up' \in Seq(Wire) /\ FramesOf(up', r) = FramesOf(up, r) \cup FramesOf(t, r)
      /\ Once(up', {"start"}, r) /\ Once(up', Ends, r)
      /\ \A q \in Runs \ {r} : Less(up', up, q)
  <2>1. up' \in Seq(Wire) /\ \A q : FramesOf(up', q) = FramesOf(up, q) \cup FramesOf(t, q)
    BY <1>1, <1>3, <1>4, MoreFrames
  <2>2. /\ \A f \in Range(up) : ~(f.kind \in {"start"} /\ f.run = r)
        /\ \A f \in Range(up) : ~(f.kind \in Ends /\ f.run = r)
    BY <1>7 DEF Has, FramesOf, RunKinds, Ends
  <2>3. Once(up, {"start"}, r) /\ Once(up, Ends, r) /\ Once(t, {"start"}, r) /\ Once(t, Ends, r)
    BY <1>3 DEF RunOk, Token, Reported
  <2>4. Once(up', {"start"}, r)
    BY <1>1, <1>3, <1>4, <2>2, <2>3, MoreFrames
  <2>5. Once(up', Ends, r)
    BY <1>1, <1>3, <1>4, <2>2, <2>3, MoreFrames
  <2>6. ASSUME NEW q \in Runs \ {r} PROVE Less(up', up, q)
    <3>1. FramesOf(t, q) = {}
      BY <1>3, <2>6 DEF FramesOf
    <3>2. ASSUME NEW kinds, Once(up, kinds, q) PROVE Once(up', kinds, q)
      <4>1. Once(t, kinds, q) /\ \A f \in Range(t) : ~(f.kind \in kinds /\ f.run = q)
        BY <1>3, <2>6 DEF Once, Range
      <4> QED BY <1>1, <1>3, <1>4, <3>2, <4>1, MoreFrames
    <3> QED BY <2>1, <3>1, <3>2 DEF Less
  <2> QED BY <2>1, <2>4, <2>5, <2>6
<1>9. RunOk(r)'
  <2>1. Unsent(r)'
    BY <1>1, <1>7 DEF RunOk, Unsent, Registered
  <2>2. Token(r)'
    BY <1>1, <1>6, <1>7, <1>8 DEF RunOk, Token, Registered, Hosted
  <2>3. Reported(r)'
    BY <1>1, <1>6, <1>7, <1>8 DEF Reported
  <2>4. Silent(r)'
    <3> SUFFICES ASSUME supervisor'.shutdown = "no" PROVE Silent(r)'
      BY DEF Silent
    <3>1. Confirmed(r)' => Confirmed(r)
      BY <1>3, <1>8 DEF Confirmed, FramesOf, Ends
    <3>2. Confirmed(r) \/ run[r].aborted => silent
      BY <1>1, <1>5, <1>7 DEF RunOk, Silent, Hosted
    <3>3. Aborting(r)' => silent
      BY <1>5, <1>6 DEF Aborting
    <3>4. silent => ~Has(up', Ends, r)
      BY <1>3, <1>7, <1>8 DEF Has, FramesOf
    <3> QED BY <1>1, <1>6, <1>7, <3>1, <3>2, <3>3, <3>4 DEF Silent
  <2>5. Told(r)' /\ Mirrored(r)'
    BY <1>1 DEF RunOk, Told, Mirrored, Registered
  <2> QED BY <2>1, <2>2, <2>3, <2>4, <2>5 DEF RunOk
<1>10. ASSUME NEW q \in Runs \ {r} PROVE RunOk(q)'
  BY <1>1, <1>6, <1>8, LessOrEqual, Untouched DEF Aborting
<1>11. worker # NewWorker /\ down' \in Seq(Wire)
  BY <1>1, NewWorkerShape DEF Hosted
<1> QED BY <1>1, <1>6, <1>8, <1>9, <1>10, <1>11, WorkerStep

-----------------------------------------------------------------------------
(* What the supervisor hears.                                                 *)

\* Hearing a frame about r: it was the last of its kind if there is one at most.
LEMMA Heard ==
  ASSUME Settling, up # << >>, up' = Tail(up), NEW r \in Runs,
         Head(up).run = r, Head(up).kind \in RunKinds
  PROVE  /\ run[r].sent /\ Head(up) \in FramesOf(up, r) /\ supervisor.child # 0
         /\ up' \in Seq(Wire) /\ \A q : Less(up', up, q)
         /\ Head(up).kind = "start" =>
              /\ ~Has(up', {"start"}, r) /\ Registered(r) /\ ~Hosted(r) /\ ~Has(down, {"start"}, r)
         /\ Head(up).kind \in Ends =>
              /\ ~Has(up', Ends, r) /\ worker.runs[r] = "over" /\ run[r].forwarded = "no"
              /\ Has(up, Ends, r)
<1> USE DEF Settling
<1>1. up \in Seq(Wire) /\ RunOk(r)
  BY DEF Kinds
<1>2. Head(up) \in FramesOf(up, r) /\ run[r].sent
  BY <1>1, NextFrame, FramesOfSent
<1>3. up' \in Seq(Wire) /\ \A q : Less(up', up, q)
  BY <1>1, TakenFrame
<1>4. ASSUME NEW kinds, Once(up, kinds, r), Head(up).kind \in kinds
      PROVE  ~Has(up', kinds, r) /\ Has(up, kinds, r)
  <2>1. \A f \in Range(Tail(up)) : ~(f.kind \in kinds /\ f.run = r)
    BY <1>1, <1>4, TakenFrame
  <2> QED BY <1>2, <1>4, <2>1 DEF Has, FramesOf
<1>5. ASSUME Head(up).kind = "start"
      PROVE  ~Has(up', {"start"}, r) /\ Registered(r) /\ ~Hosted(r) /\ ~Has(down, {"start"}, r)
  <2>1. Once(up, {"start"}, r)
    BY DEF RunOk, Token
  <2>2. ~Has(up', {"start"}, r) /\ Has(up, {"start"}, r)
    BY <1>4, <1>5, <2>1
  <2> QED BY <2>2 DEF RunOk, Token
<1>6. ASSUME Head(up).kind \in Ends
      PROVE  /\ ~Has(up', Ends, r) /\ worker.runs[r] = "over" /\ run[r].forwarded = "no"
             /\ Has(up, Ends, r)
  <2>1. Once(up, Ends, r)
    BY DEF RunOk, Reported
  <2>2. ~Has(up', Ends, r) /\ Has(up, Ends, r)
    BY <1>4, <1>6, <2>1
  <2> QED BY <2>2 DEF RunOk, Reported
<1>7. supervisor.child # 0
  BY DEF Childless
<1> QED BY <1>2, <1>3, <1>5, <1>6, <1>7

\* finish forgets the question of a run that is over, and touches no other.
LEMMA MirrorsShape ==
  ASSUME Kinds, Mirrors(approval)
  PROVE  /\ approval' \in [Runs -> ApprovalStates]
         /\ \A q \in Runs : approval'[q] = approval[q] \/ approval'[q].state = "none"
         /\ \A q \in Runs : run'[q].over # "no" => approval'[q].state = "none"
         /\ \A q \in Runs : run'[q].over = "no" => approval'[q] = approval[q]
<1>1. NoApproval \in ApprovalStates /\ NoApproval.state = "none"
  BY DEF NoApproval, ApprovalStates
<1>2. approval' = [q \in Runs |-> IF run'[q].over # "no" THEN NoApproval ELSE approval[q]]
  BY DEF Mirrors
<1> QED BY <1>1, <1>2 DEF Kinds

LEMMA HearsOutcomeOk == ASSUME RInv, HearsOutcome PROVE Settling'
<1> USE DEF RInv, Settling
<1> DEFINE f == Head(up)
<1>1. /\ up # << >> /\ f.kind = "start" /\ up' = Tail(up) /\ up \in Seq(Wire)
      /\ run' = [run EXCEPT ![f.run] = Finished(@, @.forwarded = "failed" \/ ~f.ok)]
      /\ Mirrors(approval)
      /\ UNCHANGED <<platform, supervisor, tracked, expired, requests, down, alive, worker>>
  BY DEF HearsOutcome, Hears, Kinds
<1>2. f.run \in Runs
  BY <1>1, NextFrame DEF RunKinds
<1>3. PICK r \in Runs : r = f.run
  BY <1>2
<1> DEFINE failing == run[r].forwarded = "failed" \/ ~f.ok
           x == run[r]
<1>4. run' = [run EXCEPT ![r] = Finished(x, failing)] /\ failing \in BOOLEAN
  BY <1>1, <1>3
<1>5. /\ up' \in Seq(Wire) /\ \A q : Less(up', up, q)
      /\ ~Has(up', {"start"}, r) /\ Registered(r) /\ ~Hosted(r) /\ ~Has(down, {"start"}, r)
      /\ supervisor.child # 0
  BY <1>1, <1>3, Heard DEF RunKinds
<1> HIDE DEF f, failing
<1>6. /\ x \in OneRun /\ x.over = "no" /\ x.spawned /\ run \in [Runs -> OneRun]
      /\ x.told = (IF x.forwarded # "no" THEN 1 ELSE 0)
  BY <1>5 DEF Registered, Kinds, RunOk, Told
<1>7. Finished(x, failing) \in OneRun /\ Finished(x, failing).over # "no"
  BY <1>4, <1>6, FinishedShape
<1>8. run' \in [Runs -> OneRun] /\ run'[r] = Finished(x, failing) /\ \A q \in Runs \ {r} : run'[q] = run[q]
  BY <1>4, <1>6, <1>7, RunChanged
<1>9. /\ approval' \in [Runs -> ApprovalStates] /\ approval'[r].state = "none"
      /\ \A q \in Runs : approval'[q] = approval[q] \/ approval'[q].state = "none"
  BY <1>1, <1>7, <1>8, MirrorsShape
<1>10. \A q : Less(down', down, q)
  BY <1>1, LessOrEqual
<1>11. RunOk(r)'
  <2>1. /\ ~Hosted(r)' /\ (Aborting(r)' => Aborting(r))
        /\ ~Has(down', {"start"}, r) /\ ~Has(up', {"start"}, r)
    BY <1>1, <1>5 DEF Hosted, Aborting
  <2> QED BY <1>1, <1>4, <1>5, <1>6, <1>8, <1>9, <1>10, <2>1, SettledOk
<1>12. ASSUME NEW q \in Runs \ {r} PROVE RunOk(q)'
  BY <1>1, <1>5, <1>8, <1>9, <1>10, Untouched DEF Aborting
<1>13. Kinds'
  BY <1>1, <1>5, <1>8, <1>9 DEF Kinds
<1>14. Childless'
  BY <1>1, <1>5 DEF Childless
<1> QED BY <1>11, <1>12, <1>13, <1>14

LEMMA HearsEventOk == ASSUME RInv, HearsEvent PROVE Settling'
<1> USE DEF RInv, Settling
<1> DEFINE f == Head(up)
<1>1. /\ up # << >> /\ f.kind \in {"completed", "failed", "ask", "cancel"} /\ up' = Tail(up) /\ up \in Seq(Wire)
      /\ UNCHANGED <<platform, supervisor, tracked, expired, requests, down, alive, worker>>
      /\ run \in [Runs -> OneRun] /\ approval \in [Runs -> ApprovalStates]
  BY DEF HearsEvent, Hears, Kinds
<1>2. f.run \in Runs /\ f.kind \in RunKinds
  BY <1>1, NextFrame DEF RunKinds
<1>3. PICK r \in Runs : r = f.run
  BY <1>2
<1>4. PICK kind \in {"completed", "failed", "ask", "cancel"} : kind = f.kind
  BY <1>1
<1>5. /\ up' \in Seq(Wire) /\ \A q : Less(up', up, q)
      /\ run[r].sent /\ supervisor.child # 0
      /\ kind \in Ends => ~Has(up', Ends, r) /\ worker.runs[r] = "over" /\ run[r].forwarded = "no" /\ Has(up, Ends, r)
  <2>1. /\ up' \in Seq(Wire) /\ \A q : Less(up', up, q)
        /\ run[r].sent /\ supervisor.child # 0
    BY <1>1, <1>2, <1>3, Heard
  <2>2. f.kind \in Ends => ~Has(up', Ends, r) /\ worker.runs[r] = "over" /\ run[r].forwarded = "no" /\ Has(up, Ends, r)
    BY <1>1, <1>2, <1>3, Heard
  <2> QED BY <1>4, <2>1, <2>2
<1> DEFINE n == run[r].told + 1
           x == [run[r] EXCEPT !.forwarded = kind, !.told = n]
<1>6. \/ ~Registered(r) /\ UNCHANGED <<run, approval>>
      \/ /\ Registered(r) /\ kind \in Ends /\ approval' = approval
         /\ run' = [run EXCEPT ![r] = x]
      \/ /\ Registered(r) /\ kind \in {"ask", "cancel"} /\ run' = run
         /\ approval' = [approval EXCEPT ![r] = [state |-> IF kind = "ask" THEN "open" ELSE "none", id |-> 0]]
  <2> DEFINE said(k, q) == [run[q] EXCEPT !.forwarded = k, !.told = run[q].told + 1]
             asked(k) == [state |-> IF k = "ask" THEN "open" ELSE "none", id |-> 0]
  <2>1. IF ~Registered(f.run) THEN UNCHANGED <<run, approval>>
        ELSE IF f.kind \in {"completed", "failed"}
        THEN run' = [run EXCEPT ![f.run] = said(f.kind, f.run)] /\ UNCHANGED approval
        ELSE approval' = [approval EXCEPT ![f.run] = asked(f.kind)] /\ UNCHANGED run
    BY DEF HearsEvent, Forwarded
  <2>2. x = said(kind, r)
    OBVIOUS
  <2> HIDE DEF said, asked, f, x
  <2>3. IF ~Registered(r) THEN UNCHANGED <<run, approval>>
        ELSE IF kind \in {"completed", "failed"}
        THEN run' = [run EXCEPT ![r] = said(kind, r)] /\ UNCHANGED approval
        ELSE approval' = [approval EXCEPT ![r] = asked(kind)] /\ UNCHANGED run
    BY <1>3, <1>4, <2>1
  <2> QED BY <2>2, <2>3 DEF asked, Ends
<1> HIDE DEF f
<1>7. \A q : Less(down', down, q)
  BY <1>1, LessOrEqual
<1>8. CASE ~Registered(r) /\ UNCHANGED <<run, approval>>
  <2>1. ASSUME NEW q \in Runs PROVE RunOk(q)'
    BY <1>1, <1>5, <1>7, <1>8, Untouched DEF Aborting
  <2> QED BY <1>1, <1>5, <1>8, <2>1 DEF Kinds, Childless
<1>9. CASE /\ Registered(r) /\ kind \in {"ask", "cancel"} /\ run' = run
           /\ approval' = [approval EXCEPT ![r] = [state |-> IF kind = "ask" THEN "open" ELSE "none", id |-> 0]]
  <2>1. approval' \in [Runs -> ApprovalStates] /\ \A q \in Runs \ {r} : approval'[q] = approval[q]
    BY <1>1, <1>9 DEF ApprovalStates
  <2>2. RunOk(r)'
    <3>1. Plus(down', down, r) /\ Plus(up', up, r) /\ (Aborting(r)' => Aborting(r))
      BY <1>1, <1>5, <1>7, PlusFacts DEF Aborting
    <3>2. Confirmed(r)' => Confirmed(r)
      BY <1>5 DEF Confirmed, Less
    <3> QED BY <1>1, <1>5, <1>9, <3>1, <3>2, AddressedOk
  <2>3. ASSUME NEW q \in Runs \ {r} PROVE RunOk(q)'
    BY <1>1, <1>5, <1>7, <1>9, <2>1, Untouched DEF Aborting
  <2> QED BY <1>1, <1>5, <1>9, <2>1, <2>2, <2>3 DEF Kinds, Childless
<1>10. CASE /\ Registered(r) /\ kind \in Ends /\ approval' = approval
            /\ run' = [run EXCEPT ![r] = x]
  <2>1. run[r] \in OneRun /\ n = run[r].told + 1 /\ n \in Nat /\ kind \in Ends /\ x = [run[r] EXCEPT !.forwarded = kind, !.told = n]
    BY <1>1, <1>10 DEF OneRun
  <2> HIDE DEF n
  <2>2. /\ x \in OneRun /\ x.forwarded = kind /\ x.told = n /\ x.spawned = run[r].spawned
        /\ x.sent = run[r].sent /\ x.waits = run[r].waits /\ x.aborted = run[r].aborted /\ x.over = run[r].over
    BY <2>1 DEF OneRun, Ends
  <2> HIDE DEF x
  <2>3. run' \in [Runs -> OneRun] /\ run'[r] = x /\ \A q \in Runs \ {r} : run'[q] = run[q]
    BY <1>1, <1>10, <2>2, RunChanged
  <2>4. /\ ~Has(up', Ends, r) /\ worker.runs[r] = "over" /\ run[r].forwarded = "no" /\ Has(up, Ends, r)
        /\ kind # "no" /\ Registered(r)' /\ Registered(r)
    BY <1>5, <1>10, <2>2, <2>3 DEF Ends, Registered
  <2>5. RunOk(r)'
    <3>1. /\ Once(down', {"start"}, r) /\ Once(up', {"start"}, r) /\ Once(up', Ends, r)
          /\ (Has(down', {"start"}, r) => Has(down, {"start"}, r))
          /\ (Has(up', {"start"}, r) => Has(up, {"start"}, r))
      <4>1. {"start"} \in SUBSET RunKinds /\ Ends \in SUBSET RunKinds
        BY DEF RunKinds, Ends
      <4> QED BY <1>5, <1>7, <4>1 DEF Less, RunOk, Token, Reported, Has
    <3>2. Unsent(r)'
      BY <1>1, <1>5, <2>2, <2>3 DEF RunOk, Unsent
    <3>3. Token(r)'
      BY <1>1, <2>4, <3>1 DEF RunOk, Token, Hosted
    <3>4. Reported(r)'
      BY <1>1, <2>4, <3>1 DEF Reported
    <3>5. Silent(r)'
      <4>1. Confirmed(r)' => Confirmed(r)
        BY <1>5 DEF Confirmed, Less
      <4> QED BY <1>1, <2>2, <2>3, <2>4, <4>1 DEF RunOk, Silent, Aborting
    <3>6. Told(r)' /\ Mirrored(r)'
      BY <1>5, <1>10, <2>1, <2>2, <2>3, <2>4 DEF RunOk, Told, Mirrored, Registered
    <3> QED BY <3>2, <3>3, <3>4, <3>5, <3>6 DEF RunOk
  <2>6. ASSUME NEW q \in Runs \ {r} PROVE RunOk(q)'
    BY <1>1, <1>5, <1>7, <1>10, <2>3, Untouched DEF Aborting
  <2> QED BY <1>1, <1>5, <1>10, <2>3, <2>5, <2>6 DEF Kinds, Childless
<1> QED BY <1>6, <1>8, <1>9, <1>10

\* The answer to a request, or its failure to come, may offer a question again.
LEMMA RestoredOk ==
  ASSUME RInv, NEW t \in Request
  PROVE  /\ Restored(t) \in [Runs -> ApprovalStates]
         /\ \A q \in Runs \ {t.run} : Restored(t)[q] = approval[q]
         /\ Restored(t) = approval \/ (approval[t.run].state # "none" /\ run[t.run].sent /\ Registered(t.run))
         /\ Restored(t)[t.run] = approval[t.run] \/ Restored(t)[t.run] = [state |-> "open", id |-> 0]
<1>1. approval \in [Runs -> ApprovalStates] /\ t.run \in Runs /\ t.id # 0
  BY SupervisorAssumption DEF RInv, Settling, Kinds, Request, Requests
<1>2. approval[t.run].state = "none" => approval[t.run].id = 0
  BY <1>1 DEF RInv, Served
<1>3. approval[t.run].state # "none" => run[t.run].sent /\ Registered(t.run)
  BY <1>1 DEF RInv, Settling, RunOk, Mirrored
<1> QED BY <1>1, <1>2, <1>3 DEF Restored, ApprovalStates

LEMMA AnswerTimesOutOk == ASSUME RInv, NEW t \in tracked, AnswerTimesOut(t) PROVE Settling'
<1> USE DEF RInv, Settling
<1>1. /\ tracked' = tracked \ {t} /\ approval' = Restored(t)
      /\ UNCHANGED <<platform, supervisor, run, requests, down, up, alive, worker>>
      /\ t \in Request /\ t.run \in Runs
  BY DEF AnswerTimesOut, Kinds, Request
<1>2. /\ approval' \in [Runs -> ApprovalStates]
      /\ \A q \in Runs \ {t.run} : approval'[q] = approval[q]
      /\ approval' = approval \/ (run[t.run].sent /\ Registered(t.run))
  BY <1>1, RestoredOk
<1>3. \A q : Less(down', down, q) /\ Less(up', up, q)
  BY <1>1, LessOrEqual
<1>4. ASSUME NEW q \in Runs PROVE RunOk(q)'
  <2>1. CASE approval'[q] = approval[q]
    BY <1>1, <1>3, <2>1, Untouched DEF Aborting
  <2>2. CASE approval'[q] # approval[q]
    <3>1. run[q].sent /\ Registered(q)
      BY <1>2, <2>2
    <3>2. Plus(down', down, q) /\ Plus(up', up, q) /\ (Aborting(q)' => Aborting(q))
          /\ (Confirmed(q)' => Confirmed(q))
      BY <1>1, <1>3, PlusFacts DEF Aborting, Confirmed
    <3> QED BY <1>1, <3>1, <3>2, AddressedOk
  <2> QED BY <2>1, <2>2
<1>5. Kinds'
  BY <1>1, <1>2 DEF Kinds
<1>6. Childless'
  BY <1>1 DEF Childless, Registered
<1> QED BY <1>4, <1>5, <1>6

\* A run that was not sent, and waits for something else or no longer.
LEMMA WaitedOk ==
  ASSUME NEW r \in Runs, RunOk(r), run[r] \in OneRun, ~run[r].sent,
         NEW w \in {"nothing", "worker", "termination"},
         run'[r] = [run[r] EXCEPT !.waits = w], run[r].spawned \/ w = "nothing",
         Less(down', down, r), Less(up', up, r), worker'.runs[r] = worker.runs[r],
         supervisor'.shutdown = "no" => supervisor.shutdown = "no",
         approval'[r] = approval[r] \/ approval'[r].state = "none"
  PROVE  RunOk(r)' /\ run'[r] \in OneRun
<1>1. /\ run'[r].spawned = run[r].spawned /\ run'[r].waits = w /\ run'[r].sent = run[r].sent
      /\ run'[r].aborted = run[r].aborted /\ run'[r].forwarded = run[r].forwarded
      /\ run'[r].over = run[r].over /\ run'[r].told = run[r].told /\ run'[r] \in OneRun
  BY DEF OneRun
<1>2. FramesOf(down, r) = {} /\ FramesOf(up, r) = {} /\ worker.runs[r] = "none" /\ run[r].forwarded = "no"
  BY NoToken
<1>3. FramesOf(down', r) = {} /\ FramesOf(up', r) = {} /\ (Registered(r)' <=> Registered(r))
  BY <1>1, <1>2 DEF Less, Registered
<1>4. Once(down', {"start"}, r) /\ Once(up', {"start"}, r) /\ Once(up', Ends, r)
  <2>1. {"start"} \in SUBSET RunKinds /\ Ends \in SUBSET RunKinds
    BY DEF RunKinds, Ends
  <2> QED BY <2>1 DEF Less, RunOk, Token, Reported
<1>5. Unsent(r)'
  BY <1>1, <1>2, <1>3 DEF RunOk, Unsent
<1>6. Token(r)'
  BY <1>2, <1>3, <1>4 DEF Token, Has, Hosted
<1>7. Reported(r)'
  BY <1>1, <1>2, <1>3, <1>4 DEF Reported, Has
<1>8. Silent(r)'
  BY <1>1, <1>2, <1>3 DEF RunOk, Silent, Unsent, Has, Confirmed
<1>9. Told(r)' /\ Mirrored(r)'
  BY <1>1, <1>3 DEF RunOk, Told, Mirrored
<1> QED BY <1>1, <1>5, <1>6, <1>7, <1>8, <1>9 DEF RunOk

LEMMA HearsAnswerOk == ASSUME RInv, HearsAnswer PROVE Settling'
<1> USE DEF RInv, Settling
<1> DEFINE f == Head(up)
<1>1. /\ up # << >> /\ f.kind \in {"abort", "reply"} /\ up' = Tail(up) /\ up \in Seq(Wire)
      /\ UNCHANGED <<platform, supervisor, requests, down, alive, worker>>
      /\ run \in [Runs -> OneRun] /\ approval \in [Runs -> ApprovalStates] /\ tracked \subseteq Request
  BY DEF HearsAnswer, Hears, Kinds
<1>2. /\ f.run \in Runs /\ f.kind \in RunKinds /\ f.id \in Requests
      /\ f \in FramesOf(up, f.run)
  <2>1. f.kind \in RunKinds
    BY <1>1 DEF RunKinds
  <2> QED BY <1>1, <2>1, NextFrame
<1>3. PICK r \in Runs : r = f.run
  BY <1>2
<1>4. PICK t \in Request : t = [kind |-> f.kind, run |-> f.run, id |-> f.id]
  BY <1>1, <1>2 DEF Request
<1>5. t.run = r /\ t.kind = f.kind
  BY <1>3, <1>4
<1>6. /\ up' \in Seq(Wire) /\ \A q : Less(up', up, q)
      /\ run[r].sent /\ supervisor.child # 0
  BY <1>1, <1>2, <1>3, Heard
<1>7. /\ tracked' \subseteq Request
      /\ run' = run \/ /\ f.kind = "abort" /\ f.ok /\ Registered(r)
                       /\ run' = [run EXCEPT ![r].aborted = TRUE]
      /\ approval' = approval \/ approval' = Restored(t)
  BY <1>1, <1>3, <1>4 DEF HearsAnswer
<1>8. Confirmed(r) \/ ~(f.kind = "abort" /\ f.ok)
  BY <1>2, <1>3 DEF Confirmed
<1> HIDE DEF f
<1>9. /\ approval' \in [Runs -> ApprovalStates]
      /\ \A q \in Runs \ {r} : approval'[q] = approval[q]
      /\ approval' = approval \/ (run[r].sent /\ Registered(r))
  BY <1>1, <1>5, <1>7, RestoredOk
<1>10. \A q : Less(down', down, q)
  BY <1>1, LessOrEqual
<1>11. (Confirmed(r)' => Confirmed(r)) /\ (Aborting(r)' => Aborting(r))
       /\ Plus(down', down, r) /\ Plus(up', up, r)
  BY <1>1, <1>6, <1>10, PlusFacts DEF Confirmed, Less, Aborting
<1>12. approval'[r].state # "none" => Registered(r)
  BY <1>9 DEF RunOk, Mirrored
<1>13. CASE run' = run
  <2>1. RunOk(r)'
    BY <1>1, <1>6, <1>11, <1>12, <1>13, AddressedOk
  <2>2. ASSUME NEW q \in Runs \ {r} PROVE RunOk(q)'
    BY <1>1, <1>6, <1>9, <1>10, <1>13, Untouched DEF Aborting
  <2>3. Kinds' /\ Childless'
    BY <1>1, <1>6, <1>7, <1>9, <1>13 DEF Kinds, Childless
  <2> QED BY <2>1, <2>2, <2>3
<1>14. CASE /\ f.kind = "abort" /\ f.ok /\ Registered(r)
            /\ run' = [run EXCEPT ![r].aborted = TRUE]
  <2> DEFINE x == [run[r] EXCEPT !.aborted = TRUE]
  <2>1. /\ x \in OneRun /\ x.forwarded = run[r].forwarded /\ x.told = run[r].told /\ x.spawned = run[r].spawned
        /\ x.sent = run[r].sent /\ x.waits = run[r].waits /\ x.aborted /\ x.over = run[r].over
    BY <1>1 DEF OneRun
  <2>2. run' = [run EXCEPT ![r] = x]
    BY <1>14
  <2> HIDE DEF x
  <2>3. run' \in [Runs -> OneRun] /\ run'[r] = x /\ \A q \in Runs \ {r} : run'[q] = run[q]
    BY <1>1, <2>1, <2>2, RunChanged
  <2>4. Confirmed(r) /\ (Registered(r)' <=> Registered(r)) /\ run[r].spawned
    BY <1>8, <1>14, <2>1, <2>3 DEF Registered
  <2>5. Silent(r)'
    <3> SUFFICES ASSUME supervisor'.shutdown = "no" PROVE Silent(r)'
      BY DEF Silent
    <3>1. ~Has(up, Ends, r) /\ run[r].forwarded = "no" /\ worker.runs[r] \in {"aborted", "over"}
      BY <1>1, <2>4 DEF RunOk, Silent
    <3>2. ~Has(up', Ends, r)
      BY <1>6, <3>1 DEF Has, Less
    <3> QED BY <1>1, <2>1, <2>3, <3>1, <3>2 DEF Silent
  <2>6. RunOk(r)'
    <3>1. Hosted(r)' <=> Hosted(r)
      BY <1>1 DEF Hosted
    <3> QED BY <1>1, <1>6, <1>11, <1>12, <1>14, <2>1, <2>3, <2>4, <2>5, <3>1, AtWorkOk
  <2>7. ASSUME NEW q \in Runs \ {r} PROVE RunOk(q)'
    BY <1>1, <1>6, <1>9, <1>10, <2>3, Untouched DEF Aborting
  <2>8. Kinds' /\ Childless'
    BY <1>1, <1>6, <1>7, <1>9, <2>3 DEF Kinds, Childless
  <2> QED BY <2>6, <2>7, <2>8
<1> QED BY <1>7, <1>13, <1>14

\* The runs that are released are sent in some order, each once.
LEMMA Ordered ==
  ASSUME NEW S \in SUBSET Runs
  PROVE  /\ Cardinality(S) \in Nat
         /\ SetToSeq(S) \in [1 .. Cardinality(S) -> S] /\ IsInjective(SetToSeq(S))
<1>1. IsFiniteSet(S)
  BY SupervisorAssumption, FS_Subset
<1>2. Cardinality(S) \in Nat /\ ExistsBijection(1 .. Cardinality(S), S)
  BY <1>1, FS_CardinalityType
<1>3. \E g \in [1 .. Cardinality(S) -> S] : IsInjective(g)
  BY <1>2 DEF ExistsBijection, Bijection, Injection
<1> QED BY <1>2, <1>3 DEF SetToSeq

StartsOf(S) == [i \in 1 .. Cardinality(S) |-> Frame("start", SetToSeq(S)[i], 0, TRUE)]

LEMMA StartFrames ==
  ASSUME NEW S \in SUBSET Runs
  PROVE  /\ StartsOf(S) \in Seq(Wire)
         /\ \A f \in Range(StartsOf(S)) : f.kind = "start" /\ f.run \in S
         /\ \A r : Once(StartsOf(S), {"start"}, r)
<1> DEFINE n == Cardinality(S)
           order == SetToSeq(S)
           starts == [i \in 1 .. n |-> Frame("start", order[i], 0, TRUE)]
<1>1. n \in Nat /\ order \in [1 .. n -> S] /\ IsInjective(order)
  BY Ordered
<1>2. StartsOf(S) = starts
  BY DEF StartsOf
<1> HIDE DEF n, order
<1>3. \A i \in 1 .. n : /\ starts[i] = Frame("start", order[i], 0, TRUE) /\ order[i] \in S /\ order[i] \in Runs
                        /\ starts[i] \in Wire
  BY <1>1, FramesAreWire DEF RunKinds
<1>4. DOMAIN starts = 1 .. n
  OBVIOUS
<1>5. starts \in Seq(Wire)
  <2>1. starts \in [1 .. n -> Wire]
    BY <1>3, <1>4
  <2> HIDE DEF starts
  <2> QED BY <1>1, <2>1
<1> HIDE DEF starts
<1>6. \A i \in DOMAIN starts : starts[i].kind = "start" /\ starts[i].run = order[i]
  BY <1>3, <1>4 DEF Frame
<1>7. \A r : Once(starts, {"start"}, r)
  BY <1>1, <1>4, <1>6 DEF Once, IsInjective
<1>8. \A f \in Range(starts) : f.kind = "start" /\ f.run \in S
  BY <1>3, <1>4, <1>6 DEF Range
<1> QED BY <1>2, <1>5, <1>7, <1>8

LEMMA HearsReadyOk == ASSUME RInv, HearsReady PROVE Settling'
<1> USE DEF RInv, Settling
<1> DEFINE released == {r \in Runs : run[r].waits = "worker"}
           sent == {r \in released : Registered(r)}
           starts == StartsOf(sent)
<1>1. /\ up # << >> /\ Head(up).kind = "initialize" /\ up' = Tail(up) /\ up \in Seq(Wire)
      /\ run' = [r \in Runs |-> IF r \in released THEN [run[r] EXCEPT !.waits = "nothing", !.sent = r \in sent]
                                ELSE run[r]]
      /\ down' = down \o starts
      /\ supervisor' = [supervisor EXCEPT !.ready = TRUE]
      /\ UNCHANGED <<platform, approval, tracked, expired, requests, alive, worker>>
      /\ run \in [Runs -> OneRun] /\ down \in Seq(Wire) /\ supervisor \in SupervisorStates
  BY DEF HearsReady, Hears, Kinds, GInv, SupervisorType, StartsOf
<1>2. sent \subseteq Runs
  OBVIOUS
<1>3. /\ starts \in Seq(Wire)
      /\ \A f \in Range(starts) : f.kind = "start" /\ f.run \in sent
      /\ \A r : Once(starts, {"start"}, r)
  <2> HIDE DEF sent
  <2> QED BY <1>2, StartFrames
<1>4. up' \in Seq(Wire) /\ \A q : Less(up', up, q)
  BY <1>1, TakenFrame
<1>5. /\ supervisor'.child = supervisor.child /\ supervisor'.shutdown = supervisor.shutdown
      /\ supervisor.child # 0
  BY <1>1 DEF SupervisorStates, Childless
<1>6. ASSUME NEW r \in Runs
      PROVE  /\ r \notin released => run'[r] = run[r]
             /\ r \in released => run'[r] = [run[r] EXCEPT !.waits = "nothing", !.sent = r \in sent]
  BY <1>1
<1>7. ASSUME NEW r \in released PROVE r \in sent <=> Registered(r)
  OBVIOUS
<1>8. ASSUME NEW r \in released PROVE run[r].waits = "worker" /\ r \in Runs
  OBVIOUS
<1>9. sent \subseteq released
  OBVIOUS
<1> HIDE DEF released, sent, starts
<1>10. /\ down' \in Seq(Wire)
       /\ \A r : FramesOf(down', r) = FramesOf(down, r) \cup FramesOf(starts, r)
  BY <1>1, <1>3, MoreFrames
<1>11. ASSUME NEW r, r \notin sent PROVE Less(down', down, r)
  <2>1. FramesOf(starts, r) = {}
    BY <1>3, <1>11 DEF FramesOf
  <2>2. ASSUME NEW kinds, Once(down, kinds, r) PROVE Once(down', kinds, r)
    <3>1. \A f \in Range(starts) : ~(f.kind \in kinds /\ f.run = r)
      BY <1>3, <1>11
    <3>2. Once(starts, kinds, r)
      BY <3>1 DEF Once, Range
    <3> QED BY <1>1, <1>3, <2>2, <3>1, <3>2, MoreFrames
  <2> QED BY <1>10, <2>1, <2>2 DEF Less
<1>12. ASSUME NEW r \in Runs PROVE RunOk(r)' /\ run'[r] \in OneRun
  <2>1. CASE r \notin released
    <3>1. Less(down', down, r) /\ run'[r] = run[r] /\ (Aborting(r)' => Aborting(r))
      BY <1>1, <1>6, <1>9, <1>11, <2>1 DEF Aborting
    <3>2. RunOk(r)'
      BY <1>1, <1>4, <1>5, <3>1, Untouched
    <3> QED BY <1>1, <3>1, <3>2
  <2>2. CASE r \in sent
    <3>1. r \in released /\ Registered(r) /\ run[r].waits = "worker" /\ run[r] \in OneRun
      BY <1>1, <1>7, <1>8, <1>9, <2>2
    <3>2. ~run[r].sent /\ run[r].over = "no" /\ run[r].spawned
      BY <3>1 DEF RunOk, Unsent, Registered
    <3>3. run'[r] = [run[r] EXCEPT !.spawned = TRUE, !.waits = "nothing", !.sent = TRUE]
      <4>1. run'[r] = [run[r] EXCEPT !.waits = "nothing", !.sent = TRUE]
        BY <1>6, <2>2, <3>1
      <4> QED BY <3>1, <3>2, <4>1 DEF OneRun
    <3>4. \A f \in FramesOf(down', r) : f.kind = "start"
      BY <1>3, <1>10, <3>2, NoToken DEF FramesOf
    <3>5. Once(down', {"start"}, r)
      <4>1. \A f \in Range(down) : ~(f.kind \in {"start"} /\ f.run = r)
        BY <3>2, NoToken DEF FramesOf, RunKinds
      <4>2. Once(down, {"start"}, r) /\ Once(starts, {"start"}, r)
        BY <1>3 DEF RunOk, Token
      <4> QED BY <1>1, <1>3, <4>1, <4>2, MoreFrames
    <3> QED BY <1>1, <1>4, <1>5, <3>1, <3>2, <3>3, <3>4, <3>5, SentOk
  <2>3. CASE r \in released /\ r \notin sent
    <3>1. run[r].waits = "worker" /\ run[r] \in OneRun /\ ~run[r].sent /\ ~Registered(r)
      BY <1>1, <1>7, <1>8, <2>3 DEF RunOk, Unsent
    <3>2. run'[r] = [run[r] EXCEPT !.waits = "nothing"]
      <4>1. run'[r] = [run[r] EXCEPT !.waits = "nothing", !.sent = r \in sent]
        BY <1>6, <2>3
      <4>2. (r \in sent) = run[r].sent
        BY <2>3, <3>1 DEF OneRun
      <4>3. run'[r] = [run[r] EXCEPT !.waits = "nothing", !.sent = run[r].sent]
        BY <4>1, <4>2
      <4> QED BY <3>1, <4>3 DEF OneRun
    <3> QED BY <1>1, <1>4, <1>5, <1>11, <2>3, <3>1, <3>2, WaitedOk DEF Aborting
  <2> QED BY <2>1, <2>2, <2>3
<1>13. Kinds'
  <2>1. run' \in [Runs -> OneRun]
    BY <1>1, <1>12
  <2> QED BY <1>1, <1>4, <1>10, <2>1 DEF Kinds
<1>14. Childless'
  BY <1>5 DEF Childless
<1> QED BY <1>12, <1>13, <1>14

-----------------------------------------------------------------------------
(* The failure of a worker.                                                   *)

\* A run that is not going on, without a worker: nothing is left of it.
LEMMA GoneOk ==
  ASSUME NEW r \in Runs, RunOk(r), run[r] \in OneRun, ~Registered(r),
         run'[r] = [run[r] EXCEPT !.waits = "nothing"],
         FramesOf(down', r) = {}, FramesOf(up', r) = {}, worker'.runs[r] = "none",
         \A kinds : Once(down', kinds, r) /\ Once(up', kinds, r), ~Aborting(r)',
         supervisor'.shutdown = "no" => supervisor.shutdown = "no",
         approval'[r] = approval[r] \/ approval'[r].state = "none"
  PROVE  RunOk(r)' /\ run'[r] \in OneRun
<1>1. /\ run'[r].spawned = run[r].spawned /\ run'[r].waits = "nothing" /\ run'[r].sent = run[r].sent
      /\ run'[r].aborted = run[r].aborted /\ run'[r].forwarded = run[r].forwarded
      /\ run'[r].over = run[r].over /\ run'[r].told = run[r].told /\ run'[r] \in OneRun
  BY DEF OneRun
<1>2. ~Registered(r)'
  BY <1>1 DEF Registered
<1>3. Unsent(r)'
  BY <1>1, <1>2 DEF RunOk, Unsent
<1>4. Token(r)'
  BY DEF Token, Has, Hosted
<1>5. Reported(r)'
  BY <1>2 DEF Reported, Has
<1>6. Silent(r)'
  BY <1>1, <1>2 DEF RunOk, Silent, Has, Confirmed
<1>7. Told(r)' /\ Mirrored(r)'
  BY <1>1, <1>2 DEF RunOk, Told, Mirrored
<1> QED BY <1>1, <1>3, <1>4, <1>5, <1>6, <1>7 DEF RunOk

\* What giving a run up makes of it.
LEMMA GivenUpShape ==
  ASSUME Kinds, NEW r \in Runs, RunOk(r)
  PROVE  LET x == [run[r] EXCEPT !.waits = "nothing"] IN
         /\ x \in OneRun /\ x.spawned = run[r].spawned /\ x.sent = run[r].sent
         /\ x.forwarded = run[r].forwarded /\ x.told = run[r].told /\ x.waits = "nothing"
         /\ x.aborted = run[r].aborted /\ x.over = run[r].over
         /\ GivenUp(r) = IF Registered(r) THEN Finished(x, run[r].forwarded # "completed") ELSE x
         /\ GivenUp(r) \in OneRun
         /\ ~(GivenUp(r).spawned /\ GivenUp(r).over = "no")
<1> DEFINE x == [run[r] EXCEPT !.waits = "nothing"]
           failing == run[r].forwarded # "completed"
<1>1. /\ x \in OneRun /\ x.spawned = run[r].spawned /\ x.sent = run[r].sent
      /\ x.forwarded = run[r].forwarded /\ x.told = run[r].told /\ x.waits = "nothing"
      /\ x.aborted = run[r].aborted /\ x.over = run[r].over
  BY DEF Kinds, OneRun
<1>2. GivenUp(r) = IF Registered(r) THEN Finished(x, failing) ELSE x
  BY <1>1 DEF GivenUp
<1>3. failing \in BOOLEAN
  OBVIOUS
<1> HIDE DEF x, failing
<1>4. CASE Registered(r)
  <2>1. x.told = (IF x.forwarded # "no" THEN 1 ELSE 0)
    BY <1>1, <1>4 DEF RunOk, Told, Registered
  <2>2. Finished(x, failing) \in OneRun /\ Finished(x, failing).over # "no"
    BY <1>1, <1>3, <2>1, FinishedShape
  <2>3. GivenUp(r) \in OneRun /\ ~(GivenUp(r).spawned /\ GivenUp(r).over = "no")
    BY <1>2, <1>4, <2>2
  <2> QED BY <1>1, <1>2, <2>3 DEF x, failing
<1>5. CASE ~Registered(r)
  BY <1>1, <1>2, <1>5 DEF Registered, x, failing
<1> QED BY <1>4, <1>5

LEMMA FailsOk == ASSUME RInv, NEW exited \in BOOLEAN, Fails(exited) PROVE Settling'
<1> USE DEF RInv, Settling
<1>1. /\ run' = [r \in Runs |-> GivenUp(r)] /\ Mirrors(approval)
      /\ tracked' = {} /\ down' = << >> /\ up' = << >> /\ worker' = NewWorker /\ UNCHANGED requests
      /\ supervisor \in SupervisorStates /\ run \in [Runs -> OneRun] /\ requests \in Nat
  BY DEF Fails, Kinds, GInv, SupervisorType
<1>2. /\ supervisor'.child = 0 /\ ~supervisor'.ready
      /\ supervisor'.shutdown = "no" => supervisor.shutdown = "no"
  BY <1>1 DEF Fails, SupervisorStates
<1>3. /\ approval' \in [Runs -> ApprovalStates]
      /\ \A q \in Runs : approval'[q] = approval[q] \/ approval'[q].state = "none"
      /\ \A q \in Runs : run'[q].over # "no" => approval'[q].state = "none"
  BY <1>1, MirrorsShape
<1>4. /\ \A r \in Runs : FramesOf(down', r) = {} /\ FramesOf(up', r) = {} /\ worker'.runs[r] = "none"
      /\ \A r \in Runs : ~Aborting(r)' /\ Less(down', down, r) /\ Less(up', up, r)
      /\ \A r, kinds : Once(down', kinds, r) /\ Once(up', kinds, r)
  BY <1>1, NoFrames, LessOrEqual, NewWorkerShape DEF Aborting
<1>5. ASSUME NEW r \in Runs PROVE RunOk(r)' /\ run'[r] \in OneRun /\ ~Registered(r)'
  <2> DEFINE x == [run[r] EXCEPT !.waits = "nothing"]
             failing == run[r].forwarded # "completed"
  <2>1. /\ x \in OneRun /\ x.spawned = run[r].spawned /\ x.sent = run[r].sent
        /\ x.forwarded = run[r].forwarded /\ x.told = run[r].told /\ x.waits = "nothing"
        /\ x.aborted = run[r].aborted /\ x.over = run[r].over
        /\ run'[r] = IF Registered(r) THEN Finished(x, failing) ELSE x
        /\ run'[r] \in OneRun
        /\ ~(run'[r].spawned /\ run'[r].over = "no")
    BY <1>1, GivenUpShape
  <2>2. ~Registered(r)' /\ failing \in BOOLEAN
    BY <2>1 DEF Registered
  <2>3. CASE Registered(r)
    <3>1. approval'[r].state = "none"
      <4>1. run[r].spawned /\ run'[r].spawned
        <5> HIDE DEF x, failing
        <5>1. x.told = (IF x.forwarded # "no" THEN 1 ELSE 0)
          BY <2>1, <2>3 DEF RunOk, Told, Registered
        <5>2. Finished(x, failing).spawned = x.spawned
          BY <2>1, <2>2, <5>1, FinishedShape
        <5> QED BY <2>1, <2>3, <5>2 DEF Registered
      <4> QED BY <1>3, <2>1, <4>1
    <3>2. ~Has(down', {"start"}, r) /\ ~Has(up', {"start"}, r) /\ ~Hosted(r)'
      BY <1>4 DEF Has, Hosted
    <3>3. run[r].over = "no" /\ run[r].spawned /\ run'[r] = Finished(x, failing)
      BY <2>1, <2>3 DEF Registered
    <3> HIDE DEF x, failing
    <3>4. x \in OneRun /\ x.spawned /\ x.waits \in {"nothing", run[r].waits}
      BY <2>1, <3>3
    <3>5. RunOk(r)'
      BY <1>2, <1>4, <2>1, <2>2, <3>1, <3>2, <3>3, <3>4, SettledOk
    <3> QED BY <2>1, <2>2, <3>5
  <2>4. CASE ~Registered(r)
    <3>1. run'[r] = [run[r] EXCEPT !.waits = "nothing"] /\ run[r] \in OneRun
      BY <1>1, <2>1, <2>4
    <3> HIDE DEF x, failing
    <3>2. RunOk(r)'
      BY <1>2, <1>3, <1>4, <2>4, <3>1, GoneOk
    <3> QED BY <2>1, <2>2, <3>2
  <2> QED BY <2>3, <2>4
<1>6. Kinds'
  <2>1. run' \in [Runs -> OneRun]
    BY <1>1, <1>5
  <2> QED BY <1>1, <1>3, <2>1, NoFrames, NewWorkerShape DEF Kinds
<1>7. Childless'
  BY <1>1, <1>2, <1>5 DEF Childless
<1> QED BY <1>5, <1>6, <1>7

LEMMA TerminationEndsOk == ASSUME RInv, TerminationEnds PROVE Settling'
<1> USE DEF RInv, Settling
<1> DEFINE base == [supervisor EXCEPT !.terminating = 0,
                                      !.shutdown = IF @ = "asked" THEN "done" ELSE @]
           survivors == alive \ {supervisor.terminating}
<1>1. /\ supervisor.terminating # 0 /\ supervisor \in SupervisorStates
      /\ UNCHANGED <<platform, approval, tracked, expired, requests>>
      /\ run' = [r \in Runs |-> IF r \in Waiting THEN [run[r] EXCEPT !.waits = "worker"] ELSE run[r]]
      /\ run \in [Runs -> OneRun]
  BY DEF TerminationEnds, GInv, SupervisorType, Kinds
<1>2. \/ StartsWorker(base, survivors)
      \/ supervisor' = base /\ UNCHANGED <<down, up, worker>>
  BY DEF TerminationEnds
<1>3. supervisor.child = 0
  BY <1>1 DEF GInv, Accounted
<1>4. /\ base \in SupervisorStates /\ base.child = 0 /\ base.ready = supervisor.ready
      /\ base.shutdown = supervisor.shutdown \/ base.shutdown # "no"
  BY <1>1, <1>3 DEF SupervisorStates
<1> HIDE DEF base, survivors
<1>5. /\ down' \in Seq(Wire) /\ up' \in Seq(Wire) /\ worker' \in WorkerStates
      /\ supervisor'.shutdown = "no" => supervisor.shutdown = "no"
      /\ \A r \in Runs : /\ Less(down', down, r) /\ Less(up', up, r)
                         /\ worker'.runs[r] = worker.runs[r]
                         /\ Aborting(r)' => Aborting(r)
  <2>1. CASE StartsWorker(base, survivors)
    BY <1>3, <1>4, <2>1, StartOk
  <2>2. CASE supervisor' = base /\ UNCHANGED <<down, up, worker>>
    BY <1>4, <2>2, LessOrEqual DEF Kinds, Aborting
  <2> QED BY <1>2, <2>1, <2>2
<1>6. ASSUME NEW r \in Runs
      PROVE  /\ r \notin Waiting => run'[r] = run[r]
             /\ r \in Waiting => run'[r] = [run[r] EXCEPT !.waits = "worker"] /\ run[r].waits = "termination"
  BY <1>1 DEF Waiting
<1>7. ASSUME NEW r \in Runs PROVE RunOk(r)' /\ run'[r] \in OneRun /\ (Registered(r)' => ~run'[r].sent \/ supervisor'.child # 0)
  <2>1. CASE r \notin Waiting
    <3>1. RunOk(r)'
      BY <1>1, <1>5, <1>6, <2>1, Untouched
    <3> QED BY <1>1, <1>3, <1>6, <2>1, <3>1 DEF Childless, Registered
  <2>2. CASE r \in Waiting
    <3>1. run'[r] = [run[r] EXCEPT !.waits = "worker"] /\ run[r].waits = "termination" /\ run[r] \in OneRun
      BY <1>1, <1>6, <2>2
    <3>2. ~run[r].sent /\ run[r].spawned
      BY <3>1 DEF RunOk, Unsent
    <3>3. RunOk(r)' /\ run'[r] \in OneRun
      BY <1>1, <1>5, <3>1, <3>2, WaitedOk
    <3>4. ~run'[r].sent
      BY <3>1, <3>2 DEF OneRun
    <3> QED BY <3>3, <3>4
  <2> QED BY <2>1, <2>2
<1>8. Kinds'
  <2>1. run' \in [Runs -> OneRun]
    BY <1>1, <1>7
  <2> QED BY <1>1, <1>5, <2>1 DEF Kinds
<1>9. Childless'
  <2>1. CASE StartsWorker(base, survivors)
    <3>1. supervisor'.child # 0
      BY <1>3, <1>4, <2>1, StartOk
    <3> QED BY <3>1 DEF Childless
  <2>2. CASE supervisor' = base /\ UNCHANGED <<down, up, worker>>
    BY <1>3, <1>4, <1>7, <2>2 DEF Childless
  <2> QED BY <1>2, <2>1, <2>2
<1> QED BY <1>7, <1>8, <1>9

LEMMA TerminationFailsOk == ASSUME RInv, TerminationFails PROVE Settling'
<1> USE DEF RInv, Settling
<1>1. /\ supervisor.terminating # 0 /\ supervisor \in SupervisorStates
      /\ UNCHANGED <<platform, approval, tracked, expired, requests, down, up, alive, worker>>
      /\ run' = [r \in Runs |-> IF r \in Waiting THEN GivenUp(r) ELSE run[r]]
      /\ run \in [Runs -> OneRun]
  BY DEF TerminationFails, GInv, SupervisorType, Kinds
<1>2. /\ supervisor'.child = supervisor.child /\ supervisor'.ready = supervisor.ready
      /\ supervisor'.shutdown = "no" => supervisor.shutdown = "no"
  BY <1>1 DEF TerminationFails, SupervisorStates
<1>3. \A r : Less(down', down, r) /\ Less(up', up, r) /\ (Aborting(r)' => Aborting(r))
  BY <1>1, LessOrEqual DEF Aborting
<1>4. ASSUME NEW r \in Runs PROVE RunOk(r)' /\ run'[r] \in OneRun /\ (Registered(r)' /\ run'[r].sent => Registered(r) /\ run[r].sent)
  <2>1. CASE r \notin Waiting
    <3>1. run'[r] = run[r]
      BY <1>1, <2>1
    <3>2. RunOk(r)'
      BY <1>1, <1>2, <1>3, <3>1, Untouched
    <3> QED BY <1>1, <3>1, <3>2 DEF Registered
  <2>2. CASE r \in Waiting
    <3> DEFINE x == [run[r] EXCEPT !.waits = "nothing"]
               failing == run[r].forwarded # "completed"
    <3>1. /\ x \in OneRun /\ x.spawned = run[r].spawned /\ x.sent = run[r].sent
          /\ x.forwarded = run[r].forwarded /\ x.told = run[r].told /\ x.waits = "nothing"
          /\ x.aborted = run[r].aborted /\ x.over = run[r].over
          /\ run'[r] = IF Registered(r) THEN Finished(x, failing) ELSE x
          /\ run'[r] \in OneRun
          /\ ~(run'[r].spawned /\ run'[r].over = "no")
      <4>1. run'[r] = GivenUp(r)
        BY <1>1, <2>2
      <4> QED BY <4>1, GivenUpShape
    <3>2. ~run[r].sent /\ run[r] \in OneRun
      BY <1>1, <2>2 DEF RunOk, Unsent, Waiting
    <3>3. /\ ~Has(down, {"start"}, r) /\ ~Has(up, {"start"}, r) /\ ~Hosted(r) /\ approval[r].state = "none"
      BY <3>2, NoToken
    <3>4. ~Registered(r)' /\ failing \in BOOLEAN
      BY <3>1 DEF Registered
    <3>5. CASE Registered(r)
      <4>1. run[r].over = "no" /\ run[r].spawned /\ run'[r] = Finished(x, failing)
        BY <3>1, <3>5 DEF Registered
      <4>2. /\ ~Has(down', {"start"}, r) /\ ~Has(up', {"start"}, r) /\ ~Hosted(r)' /\ approval'[r].state = "none"
            /\ worker'.runs[r] = worker.runs[r]
        BY <1>1, <3>3 DEF Hosted
      <4> HIDE DEF x, failing
      <4>3. x \in OneRun /\ x.spawned /\ x.waits \in {"nothing", run[r].waits}
        BY <3>1, <4>1
      <4>4. RunOk(r)'
        BY <1>2, <1>3, <3>1, <3>2, <3>4, <4>1, <4>2, <4>3, SettledOk
      <4> QED BY <3>1, <3>4, <4>4
    <3>6. CASE ~Registered(r)
      <4>1. run'[r] = [run[r] EXCEPT !.waits = "nothing"]
        BY <3>1, <3>6
      <4> HIDE DEF x, failing
      <4>2. RunOk(r)'
        BY <1>1, <1>2, <1>3, <3>2, <4>1, WaitedOk
      <4> QED BY <3>1, <3>4, <4>2
    <3> QED BY <3>5, <3>6
  <2> QED BY <2>1, <2>2
<1>5. Kinds'
  <2>1. run' \in [Runs -> OneRun]
    BY <1>1, <1>4
  <2> QED BY <1>1, <2>1 DEF Kinds
<1>6. Childless'
  BY <1>1, <1>2, <1>4 DEF Childless
<1> QED BY <1>4, <1>5, <1>6

\* The runs that are left when the supervisor shuts down count as aborted.
LEMMA ShutdownOk == ASSUME RInv, Shutdown PROVE Settling'
<1> USE DEF RInv, Settling
<1>1. /\ supervisor.shutdown = "no" /\ supervisor \in SupervisorStates
      /\ UNCHANGED <<platform, approval, tracked, expired, requests, up, alive, worker>>
      /\ run \in [Runs -> OneRun] /\ down \in Seq(Wire)
  BY DEF Shutdown, GInv, SupervisorType, Kinds
<1>2. /\ supervisor'.child = supervisor.child /\ supervisor'.ready = supervisor.ready
      /\ supervisor'.shutdown # "no"
  BY <1>1 DEF Shutdown, SupervisorStates
<1>3. down' \in Seq(Wire) /\ (supervisor.child = 0 => down' = down) /\ \A r : Less(down', down, r) /\ Less(up', up, r)
  <2> DEFINE f == ToAll("shutdown", TRUE)
  <2>1. f \in Wire /\ f.kind \notin RunKinds
    BY FramesAreWire DEF ToAll, RunKinds
  <2>2. down' = down \/ (supervisor.child # 0 /\ down' = Append(down, f))
    BY DEF Shutdown
  <2> HIDE DEF f
  <2>3. CASE down' = down
    BY <1>1, <2>3, LessOrEqual
  <2>4. CASE supervisor.child # 0 /\ down' = Append(down, f)
    <3>1. Append(down, f) \in Seq(Wire) /\ \A r : Less(Append(down, f), down, r)
      BY <1>1, <2>1, LessOrEqual, PutFrame
    <3> QED BY <1>1, <2>4, <3>1, LessOrEqual
  <2> QED BY <2>2, <2>3, <2>4
<1>4. ASSUME NEW r \in Runs
      PROVE  run'[r] = run[r] \/ (Registered(r) /\ run'[r] = [run[r] EXCEPT !.aborted = TRUE])
  BY DEF Shutdown
<1>5. ASSUME NEW r \in Runs
      PROVE  RunOk(r)' /\ run'[r] \in OneRun /\ (Registered(r)' /\ run'[r].sent => Registered(r) /\ run[r].sent)
  <2>1. CASE run'[r] = run[r]
    <3>1. RunOk(r)'
      BY <1>1, <1>2, <1>3, <2>1, Untouched DEF Aborting
    <3> QED BY <1>1, <2>1, <3>1 DEF Registered
  <2>2. CASE Registered(r) /\ run'[r] = [run[r] EXCEPT !.aborted = TRUE]
    <3>1. run[r] \in OneRun
      BY <1>1
    <3>2. /\ run'[r].spawned = run[r].spawned /\ run'[r].waits = run[r].waits /\ run'[r].sent = run[r].sent
          /\ run'[r].aborted /\ run'[r].forwarded = run[r].forwarded
          /\ run'[r].over = run[r].over /\ run'[r].told = run[r].told /\ run'[r] \in OneRun
      BY <2>2, <3>1 DEF OneRun
    <3>3. Registered(r)' /\ (Hosted(r)' <=> Hosted(r))
      BY <1>1, <2>2, <3>2 DEF Registered, Hosted
    <3>4. /\ FramesOf(down', r) \subseteq FramesOf(down, r) /\ FramesOf(up', r) \subseteq FramesOf(up, r)
          /\ Once(down', {"start"}, r) /\ Once(up', {"start"}, r) /\ Once(up', Ends, r)
      <4>1. {"start"} \in SUBSET RunKinds /\ Ends \in SUBSET RunKinds
        BY DEF RunKinds, Ends
      <4> QED BY <1>3, <4>1 DEF Less, RunOk, Token, Reported
    <3>5. \A kinds : (Has(down', kinds, r) => Has(down, kinds, r)) /\ (Has(up', kinds, r) => Has(up, kinds, r))
      BY <3>4 DEF Has
    <3>6. Unsent(r)'
      BY <1>1, <1>2, <2>2, <3>2, <3>3, <3>4 DEF RunOk, Unsent, Registered
    <3>7. Token(r)'
      BY <1>1, <3>3, <3>4, <3>5 DEF RunOk, Token
    <3>8. Reported(r)' /\ Silent(r)'
      BY <1>1, <1>2, <2>2, <3>2, <3>4, <3>5 DEF RunOk, Reported, Silent
    <3>9. Told(r)' /\ Mirrored(r)'
      BY <1>1, <2>2, <3>2, <3>3 DEF RunOk, Told, Mirrored, Registered
    <3> QED BY <2>2, <3>2, <3>6, <3>7, <3>8, <3>9 DEF RunOk
  <2> QED BY <1>4, <2>1, <2>2
<1>6. Kinds'
  <2>1. run' \in [Runs -> OneRun]
    <3>1. run' = run \/ run' = [r \in Runs |-> IF Registered(r) THEN [run[r] EXCEPT !.aborted = TRUE] ELSE run[r]]
      BY DEF Shutdown
    <3>2. \A r \in Runs : run'[r] \in OneRun
      BY <1>5
    <3> QED BY <1>1, <3>1, <3>2
  <2> QED BY <1>1, <1>3, <2>1 DEF Kinds
<1>7. Childless'
  BY <1>1, <1>2, <1>3, <1>5 DEF Childless
<1> QED BY <1>5, <1>6, <1>7

-----------------------------------------------------------------------------
(* What is served.                                                            *)

(* What the supervisor may put into its pipe in a step.                       *)
Put(f) ==
  \/ f.kind \in {"initialize", "start", "abort"}
  \/ f.kind = "reply" /\ f.id = requests' /\ f.id \in Requests
  \/ f.kind = "shutdown" /\ supervisor'.shutdown # "no"

LEMMA PutDown ==
  ASSUME RInv, GjcStep
  PROVE  \A f \in Range(down') : f \in Range(down) \/ Put(f)
<1> USE DEF RInv, Settling
<1>1. down \in Seq(Wire) /\ supervisor \in SupervisorStates /\ run \in [Runs -> OneRun] /\ requests \in Nat
  BY DEF Kinds, GInv, SupervisorType
<1>2. ASSUME NEW f \in Wire, Put(f), down' = Append(down, f)
      PROVE  \A g \in Range(down') : g \in Range(down) \/ Put(g)
  <2> DEFINE one == <<f>>
  <2>1. one \in Seq(Wire) /\ Range(one) = {f} /\ down' = down \o one
    BY <1>1, <1>2, OneMoreFrame
  <2> HIDE DEF one
  <2>2. Range(down') = Range(down) \cup Range(one)
    BY <1>1, <2>1, MoreFrames
  <2> QED BY <1>2, <2>1, <2>2
<1>3. ASSUME down' = down \/ down' = << >> \/ (down # << >> /\ down' = Tail(down))
      PROVE  Range(down') \subseteq Range(down)
  BY <1>1, <1>3, TakenFrame, NoFrames
<1>4. ASSUME down' = <<ToAll("initialize", TRUE)>>
      PROVE  \A g \in Range(down') : Put(g)
  <2> DEFINE f == ToAll("initialize", TRUE)
  <2>1. f \in Wire /\ f.kind = "initialize"
    BY FramesAreWire DEF ToAll
  <2> HIDE DEF f
  <2>2. Put(f) /\ Range(<<f>>) = {f}
    BY <1>1, <2>1, OneMoreFrame DEF Put
  <2> QED BY <1>4, <2>2 DEF f
<1>5. CASE \E r \in Runs : Spawns(r)
  <2> SUFFICES ASSUME NEW r \in Runs, Spawns(r)
               PROVE  \A g \in Range(down') : g \in Range(down) \/ Put(g)
    BY <1>5
  <2>1. CASE SpawnSends(r)
    <3> DEFINE f == Frame("start", r, 0, TRUE)
    <3>1. f \in Wire /\ f.kind = "start" /\ down' = Append(down, f)
      BY <2>1, FramesAreWire DEF SpawnSends, Frame, RunKinds
    <3> HIDE DEF f
    <3>2. Put(f)
      BY <3>1 DEF Put
    <3> QED BY <1>2, <3>1, <3>2
  <2>2. CASE SpawnStarts(r)
    BY <1>4, <2>2 DEF SpawnStarts, StartsWorker
  <2>3. CASE SpawnIsRefused(r) \/ SpawnWaits(r)
    BY <1>3, <2>3 DEF SpawnIsRefused, SpawnWaits
  <2> QED BY <2>1, <2>2, <2>3 DEF Spawns
<1>6. CASE \E r \in Runs : Aborts(r) \/ Answers(r)
  <2> SUFFICES ASSUME NEW r \in Runs, Aborts(r) \/ Answers(r)
               PROVE  \A g \in Range(down') : g \in Range(down) \/ Put(g)
    BY <1>6
  <2>1. CASE down' = down
    BY <1>3, <2>1
  <2>2. CASE down' # down
    <3>1. PICK kind \in {"abort", "reply"} :
            requests < MaxRequests /\ requests' = requests + 1 /\ down' = Append(down, Frame(kind, r, requests', TRUE))
      BY <2>2 DEF Aborts, Answers
    <3>2. requests' \in Requests
      BY <1>1, <3>1, SupervisorAssumption DEF Requests
    <3>3. PICK id \in Requests : id = requests'
      BY <3>2
    <3> DEFINE f == Frame(kind, r, id, TRUE)
    <3>4. f \in Wire /\ f.kind = kind /\ f.id = id
      BY FramesAreWire DEF Frame, RunKinds
    <3>5. down' = Append(down, f)
      BY <3>1, <3>3
    <3> HIDE DEF f
    <3>6. Put(f)
      BY <3>3, <3>4 DEF Put
    <3> QED BY <1>2, <3>4, <3>5, <3>6
  <2> QED BY <2>1, <2>2
<1>7. CASE Shutdown
  <2> DEFINE f == ToAll("shutdown", TRUE)
  <2>1. supervisor'.shutdown # "no"
    BY <1>1, <1>7 DEF Shutdown, SupervisorStates
  <2>2. f \in Wire /\ f.kind = "shutdown"
    BY FramesAreWire DEF ToAll
  <2>3. down' = down \/ down' = Append(down, f)
    BY <1>7 DEF Shutdown
  <2> HIDE DEF f
  <2>4. Put(f)
    BY <2>1, <2>2 DEF Put
  <2> QED BY <1>2, <1>3, <2>2, <2>3, <2>4
<1>8. CASE WorkerExits \/ WorkerBreaks \/ StartTimesOut \/ ShutdownTimesOut \/ HearsOfTheEnd
  BY <1>3, <1>8 DEF WorkerExits, WorkerBreaks, StartTimesOut, ShutdownTimesOut, HearsOfTheEnd, Fails
<1>9. CASE TerminationEnds \/ TerminationFails
  <2>1. down' = down \/ down' = <<ToAll("initialize", TRUE)>>
    BY <1>9 DEF TerminationEnds, TerminationFails, StartsWorker
  <2> QED BY <1>3, <1>4, <2>1
<1>10. CASE HearsReady
  <2>1. PICK S \in SUBSET Runs : down' = down \o StartsOf(S)
    BY <1>10 DEF HearsReady, StartsOf
  <2>2. /\ StartsOf(S) \in Seq(Wire) /\ \A f \in Range(StartsOf(S)) : f.kind = "start"
    BY StartFrames
  <2>3. Range(down') = Range(down) \cup Range(StartsOf(S))
    BY <1>1, <2>1, <2>2, MoreFrames
  <2> QED BY <2>2, <2>3 DEF Put
<1>11. CASE \/ HearsOutcome \/ HearsAnswer \/ HearsEvent
            \/ \E t \in tracked : AnswerTimesOut(t)
            \/ \E r \in Runs : Asks(r) \/ QuestionEnds(r) \/ RunEnds(r)
            \/ \E t \in worker.aborting : AbortAnswered(t)
            \/ RuntimeLoads \/ Drained
  <2>1. down' = down
    BY <1>11 DEF HearsOutcome, HearsAnswer, HearsEvent, AnswerTimesOut, Asks, QuestionEnds, RunEnds,
                 AbortAnswered, RuntimeLoads, Drained
  <2> QED BY <1>3, <2>1
<1>12. CASE TakesInitialize \/ TakesInVain \/ TakesStart \/ TakesAbort \/ TakesReply \/ TakesShutdown
  <2>1. down # << >> /\ down' = Tail(down)
    BY <1>12 DEF TakesInitialize, TakesInVain, TakesStart, TakesAbort, TakesReply, TakesShutdown, Takes
  <2> QED BY <1>3, <2>1
<1> QED BY <1>5, <1>6, <1>7, <1>8, <1>9, <1>10, <1>11, <1>12 DEF GjcStep, Hearing

\* Once asked for, the shutdown goes on.
LEMMA ShutdownStays ==
  ASSUME RInv, GjcStep, supervisor.shutdown # "no"
  PROVE  supervisor'.shutdown # "no"
<1>1. supervisor \in SupervisorStates
  BY DEF RInv, GInv, SupervisorType
<1>2. CASE supervisor' = supervisor \/ supervisor' = [supervisor EXCEPT !.ready = TRUE]
  BY <1>1, <1>2 DEF SupervisorStates
<1>3. CASE \E exited \in BOOLEAN : Fails(exited)
  BY <1>1, <1>3 DEF Fails, SupervisorStates
<1>4. CASE TerminationEnds
  <2> DEFINE base == [supervisor EXCEPT !.terminating = 0,
                                        !.shutdown = IF @ = "asked" THEN "done" ELSE @]
  <2>1. base \in SupervisorStates /\ base.shutdown # "no"
    BY <1>1 DEF SupervisorStates
  <2>2. supervisor' = base \/ supervisor' = [base EXCEPT !.child = base.started + 1, !.started = base.started + 1]
    BY <1>4 DEF TerminationEnds, StartsWorker
  <2> HIDE DEF base
  <2> QED BY <2>1, <2>2 DEF SupervisorStates
<1>5. CASE TerminationFails
  BY <1>1, <1>5 DEF TerminationFails, SupervisorStates
<1>6. CASE \/ \E r \in Runs : Spawns(r) \/ Aborts(r) \/ Answers(r)
           \/ Shutdown \/ HearsReady \/ HearsOutcome \/ HearsAnswer \/ HearsEvent
           \/ \E t \in tracked : AnswerTimesOut(t)
  <2>1. supervisor' = supervisor \/ supervisor' = [supervisor EXCEPT !.ready = TRUE]
    BY <1>6 DEF Spawns, SpawnIsRefused, SpawnWaits, SpawnSends, SpawnStarts, Aborts, Answers, Shutdown,
                HearsReady, HearsOutcome, HearsAnswer, HearsEvent, AnswerTimesOut
  <2> QED BY <1>2, <2>1
<1>7. CASE \/ TakesInitialize \/ RuntimeLoads \/ TakesInVain \/ TakesStart \/ TakesAbort \/ TakesReply
           \/ TakesShutdown \/ Drained
           \/ \E r \in Runs : Asks(r) \/ QuestionEnds(r) \/ RunEnds(r)
           \/ \E t \in worker.aborting : AbortAnswered(t)
  <2>1. supervisor' = supervisor
    BY <1>7 DEF TakesInitialize, RuntimeLoads, TakesInVain, TakesStart, TakesAbort, TakesReply, TakesShutdown,
                Drained, Asks, QuestionEnds, RunEnds, AbortAnswered, WorkerUnchanged
  <2> QED BY <1>2, <2>1
<1> QED BY <1>3, <1>4, <1>5, <1>6, <1>7
        DEF GjcStep, Hearing, WorkerExits, WorkerBreaks, StartTimesOut, ShutdownTimesOut, HearsOfTheEnd

\* No abort is for a run the worker has not got.
LEMMA AbortsServed ==
  ASSUME RInv, GjcStep
  PROVE  \A t \in worker'.aborting : worker'.runs[t.run] # "none"
<1> USE DEF RInv, Settling
<1>1. /\ worker \in WorkerStates /\ \A t \in worker.aborting : worker.runs[t.run] # "none" /\ t.run \in Runs
      /\ down \in Seq(Wire)
  BY DEF Kinds, Served, WorkerStates, Request
<1>2. CASE worker' = NewWorker \/ worker' = worker
  BY <1>1, <1>2, NewWorkerShape
<1>3. ASSUME worker'.aborting \subseteq worker.aborting,
             \A r \in Runs : worker.runs[r] # "none" => worker'.runs[r] # "none"
      PROVE  \A t \in worker'.aborting : worker'.runs[t.run] # "none"
  BY <1>1, <1>3
<1>4. CASE \/ \E r \in Runs : Spawns(r) \/ Aborts(r) \/ Answers(r)
           \/ Shutdown \/ WorkerExits \/ WorkerBreaks \/ StartTimesOut \/ ShutdownTimesOut
           \/ TerminationEnds \/ TerminationFails \/ Hearing
           \/ \E t \in tracked : AnswerTimesOut(t)
  <2>1. worker' = NewWorker \/ worker' = worker
    BY <1>4 DEF Spawns, SpawnIsRefused, SpawnWaits, SpawnSends, SpawnStarts, StartsWorker, Aborts, Answers,
                Shutdown, WorkerExits, WorkerBreaks, StartTimesOut, ShutdownTimesOut, Fails, TerminationEnds,
                TerminationFails, Hearing, HearsReady, HearsOfTheEnd, HearsOutcome, HearsAnswer, HearsEvent,
                AnswerTimesOut
  <2> QED BY <1>2, <2>1
<1>5. CASE TakesInitialize \/ RuntimeLoads \/ Drained \/ TakesInVain
  <2>1. worker'.aborting = worker.aborting /\ worker'.runs = worker.runs
    BY <1>1, <1>5 DEF TakesInitialize, RuntimeLoads, Drained, TakesInVain, WorkerStates
  <2> QED BY <1>3, <2>1
<1>6. CASE TakesReply
  <2>1. worker' = worker \/ worker' = [worker EXCEPT !.question[Head(down).run] = "answered"]
    BY <1>6 DEF TakesReply
  <2>2. worker'.aborting = worker.aborting /\ worker'.runs = worker.runs
    BY <1>1, <2>1 DEF WorkerStates
  <2> QED BY <1>3, <2>2
<1>7. CASE \E r \in Runs : Asks(r) \/ QuestionEnds(r)
  <2>1. worker'.aborting = worker.aborting /\ worker'.runs = worker.runs
    BY <1>1, <1>7 DEF Asks, QuestionEnds, WorkerStates
  <2> QED BY <1>3, <2>1
<1>8. CASE TakesStart
  <2> DEFINE now == [worker.runs EXCEPT ![Head(down).run] = "running"]
  <2>1. worker' = [worker EXCEPT !.runs = now]
    BY <1>8 DEF TakesStart
  <2>2. \A r \in Runs : worker.runs[r] # "none" => now[r] # "none"
    BY <1>1 DEF WorkerStates
  <2> HIDE DEF now
  <2>3. worker'.aborting = worker.aborting /\ worker'.runs = now
    BY <1>1, <2>1 DEF WorkerStates
  <2> QED BY <1>3, <2>2, <2>3
<1>9. CASE \E r \in Runs : RunEnds(r)
  <2> PICK r \in Runs : RunEnds(r)
    BY <1>9
  <2> DEFINE now == [worker.runs EXCEPT ![r] = "over"]
             asked == [worker.question EXCEPT ![r] = "done"]
  <2>1. worker' = [worker EXCEPT !.runs = now, !.question = asked]
    BY DEF RunEnds
  <2>2. \A q \in Runs : worker.runs[q] # "none" => now[q] # "none"
    BY <1>1 DEF WorkerStates
  <2> HIDE DEF now, asked
  <2>3. worker'.aborting = worker.aborting /\ worker'.runs = now
    BY <1>1, <2>1 DEF WorkerStates
  <2> QED BY <1>3, <2>2, <2>3
<1>10. CASE TakesAbort
  <2>1. /\ down # << >> /\ Head(down).kind = "abort" /\ worker.runs[Head(down).run] \in {"running", "aborted"}
        /\ worker' = [worker EXCEPT !.aborting =
                        @ \cup {[kind |-> "abort", run |-> Head(down).run, id |-> Head(down).id]}]
    BY <1>10 DEF TakesAbort, Takes, Hosted
  <2>2. PICK r, id : r = Head(down).run /\ id = Head(down).id
    OBVIOUS
  <2>3. /\ worker'.aborting = worker.aborting \cup {[kind |-> "abort", run |-> r, id |-> id]}
        /\ worker'.runs = worker.runs /\ worker.runs[r] # "none"
    BY <1>1, <2>1, <2>2 DEF WorkerStates
  <2> QED BY <1>1, <2>3
<1>11. CASE \E t \in worker.aborting : AbortAnswered(t)
  <2> PICK t \in worker.aborting : AbortAnswered(t)
    BY <1>11
  <2>1. PICK ok \in BOOLEAN :
          worker' = [worker EXCEPT !.aborting = @ \ {t}, !.runs[t.run] = IF ok /\ @ = "running" THEN "aborted" ELSE @]
    BY DEF AbortAnswered
  <2> DEFINE left == worker.aborting \ {t}
             now == [worker.runs EXCEPT ![t.run] = IF ok /\ @ = "running" THEN "aborted" ELSE @]
  <2>2. worker' = [worker EXCEPT !.aborting = left, !.runs = now]
    BY <2>1
  <2>3. \A q \in Runs : worker.runs[q] # "none" => now[q] # "none"
    BY <1>1 DEF WorkerStates
  <2>4. left \subseteq worker.aborting
    OBVIOUS
  <2> HIDE DEF now, left
  <2>5. worker'.aborting = left /\ worker'.runs = now
    BY <1>1, <2>2 DEF WorkerStates
  <2> QED BY <1>3, <2>3, <2>4, <2>5
<1>12. CASE TakesShutdown
  <2>1. CASE worker' = worker
    BY <1>2, <2>1
  <2>2. ASSUME NEW aborted \in SUBSET {r \in Runs : Hosted(r)},
               worker' = [worker EXCEPT !.closed = "draining",
                            !.runs = [r \in Runs |-> IF r \in aborted THEN "aborted" ELSE worker.runs[r]]]
        PROVE  \A t \in worker'.aborting : worker'.runs[t.run] # "none"
    <3> DEFINE now == [r \in Runs |-> IF r \in aborted THEN "aborted" ELSE worker.runs[r]]
    <3>1. \A q \in Runs : worker.runs[q] # "none" => now[q] # "none"
      OBVIOUS
    <3>2. worker' = [worker EXCEPT !.closed = "draining", !.runs = now]
      BY <2>2
    <3> HIDE DEF now
    <3>3. worker'.aborting = worker.aborting /\ worker'.runs = now
      BY <1>1, <3>2 DEF WorkerStates
    <3> QED BY <1>3, <3>1, <3>3
  <2> QED BY <1>12, <2>1, <2>2 DEF TakesShutdown
<1> QED BY <1>4, <1>5, <1>6, <1>7, <1>8, <1>9, <1>10, <1>11, <1>12 DEF GjcStep

\* A question that is not offered awaits no answer.
LEMMA NothingAwaited ==
  ASSUME RInv, GjcStep
  PROVE  \A r \in Runs : approval'[r].state = "none" => approval'[r].id = 0
<1> USE DEF RInv, Settling
<1>1. /\ approval \in [Runs -> ApprovalStates] /\ Kinds
      /\ \A r \in Runs : approval[r].state = "none" => approval[r].id = 0
  BY DEF Kinds, Served
<1>2. CASE approval' = approval
  BY <1>1, <1>2
<1>3. CASE Mirrors(approval)
  BY <1>1, <1>3 DEF Mirrors, NoApproval
<1>4. CASE \E t \in Request : approval' = Restored(t)
  <2> PICK t \in Request : approval' = Restored(t)
    BY <1>4
  <2>1. /\ \A q \in Runs \ {t.run} : approval'[q] = approval[q]
        /\ approval'[t.run] = approval[t.run] \/ approval'[t.run] = [state |-> "open", id |-> 0]
    BY RestoredOk
  <2> QED BY <1>1, <2>1
<1>5. CASE \E r \in Runs : Answers(r)
  BY <1>1, <1>5 DEF Answers
<1>6. CASE HearsEvent
  <2> DEFINE o == IF Head(up).kind = "ask" THEN "open" ELSE "none"
  <2>1. approval' = approval \/ approval' = [approval EXCEPT ![Head(up).run] = [state |-> o, id |-> 0]]
    BY <1>6 DEF HearsEvent
  <2> HIDE DEF o
  <2> QED BY <1>1, <2>1
<1>7. CASE HearsAnswer
  <2>1. up # << >> /\ Head(up).kind \in RunKinds /\ up \in Seq(Wire)
    BY <1>7 DEF HearsAnswer, Hears, RunKinds, Kinds
  <2>2. Head(up).run \in Runs /\ (Head(up).kind \in {"abort", "reply"} => Head(up).id \in Requests)
    BY <2>1, NextFrame
  <2>3. approval' = approval \/ \E t \in Request : approval' = Restored(t)
    <3>1. Head(up).kind \in {"abort", "reply"}
      BY <1>7 DEF HearsAnswer, Hears
    <3>2. [kind |-> Head(up).kind, run |-> Head(up).run, id |-> Head(up).id] \in Request
      BY <2>2, <3>1 DEF Request
    <3> QED BY <1>7, <3>2 DEF HearsAnswer
  <2> QED BY <1>2, <1>4, <2>3
<1>8. CASE \E t \in tracked : AnswerTimesOut(t)
  BY <1>4, <1>8 DEF AnswerTimesOut, Kinds
<1>9. CASE \/ \E r \in Runs : Spawns(r) \/ Aborts(r)
           \/ Shutdown \/ WorkerExits \/ WorkerBreaks \/ StartTimesOut \/ ShutdownTimesOut
           \/ TerminationEnds \/ TerminationFails \/ HearsReady \/ HearsOfTheEnd \/ HearsOutcome
  <2>1. approval' = approval \/ Mirrors(approval)
    BY <1>9 DEF Spawns, Aborts, Shutdown, WorkerExits, WorkerBreaks, StartTimesOut, ShutdownTimesOut, Fails,
                TerminationEnds, TerminationFails, HearsReady, HearsOfTheEnd, HearsOutcome
  <2> QED BY <1>2, <1>3, <2>1
<1>10. CASE \/ TakesInitialize \/ RuntimeLoads \/ TakesInVain \/ TakesStart \/ TakesAbort \/ TakesReply
            \/ TakesShutdown \/ Drained
            \/ \E r \in Runs : Asks(r) \/ QuestionEnds(r) \/ RunEnds(r)
            \/ \E t \in worker.aborting : AbortAnswered(t)
  <2>1. approval' = approval
    BY <1>10 DEF TakesInitialize, RuntimeLoads, TakesInVain, TakesStart, TakesAbort, TakesReply, TakesShutdown,
                 Drained, Asks, QuestionEnds, RunEnds, AbortAnswered, WorkerUnchanged
  <2> QED BY <1>2, <2>1
<1> QED BY <1>5, <1>6, <1>7, <1>8, <1>9, <1>10 DEF GjcStep, Hearing

LEMMA StepServed == ASSUME RInv, GjcStep PROVE Served'
<1>1. (\E f \in Range(down') : f.kind = "shutdown") => supervisor'.shutdown # "no"
  BY PutDown, ShutdownStays DEF RInv, Served, Put
<1> QED BY <1>1, AbortsServed, NothingAwaited DEF Served

LEMMA StepSettling == ASSUME RInv, GjcStep PROVE Settling'
<1>1. CASE \E r \in Runs : Spawns(r) \/ Aborts(r) \/ Answers(r)
  BY <1>1, SpawnsOk, AbortsOk, AnswersOk
<1>2. CASE Shutdown \/ TerminationEnds \/ TerminationFails
  BY <1>2, ShutdownOk, TerminationEndsOk, TerminationFailsOk
<1>3. CASE WorkerExits \/ WorkerBreaks \/ StartTimesOut \/ ShutdownTimesOut \/ HearsOfTheEnd
  <2>1. Fails(TRUE) \/ Fails(FALSE)
    BY <1>3 DEF WorkerExits, WorkerBreaks, StartTimesOut, ShutdownTimesOut, HearsOfTheEnd
  <2> QED BY <2>1, FailsOk
<1>4. CASE HearsReady \/ HearsOutcome \/ HearsAnswer \/ HearsEvent
  BY <1>4, HearsReadyOk, HearsOutcomeOk, HearsAnswerOk, HearsEventOk
<1>5. CASE \E t \in tracked : AnswerTimesOut(t)
  BY <1>5, AnswerTimesOutOk
<1>6. CASE TakesInitialize \/ RuntimeLoads \/ TakesInVain \/ TakesStart \/ Drained
  BY <1>6, TakesInitializeOk, TakesInVainOk, TakesStartOk
<1>7. CASE TakesAbort \/ TakesReply \/ TakesShutdown
  BY <1>7, TakesAbortOk, TakesReplyOk, TakesShutdownOk
<1>8. CASE \/ \E r \in Runs : Asks(r) \/ QuestionEnds(r) \/ RunEnds(r)
           \/ \E t \in worker.aborting : AbortAnswered(t)
  BY <1>8, AsksOk, RunEndsOk, AbortAnsweredOk
<1> QED BY <1>1, <1>2, <1>3, <1>4, <1>5, <1>6, <1>7, <1>8 DEF GjcStep, Hearing

LEMMA StepRInv == RInv /\ [GjcStep]_gvars => RInv'
<1> SUFFICES ASSUME RInv, [GjcStep]_gvars PROVE RInv'
  OBVIOUS
<1>1. GInv'
  BY StepKeepsGInv DEF RInv
<1>2. CASE GjcStep
  BY <1>1, <1>2, StepServed, StepSettling DEF RInv
<1>3. CASE UNCHANGED gvars
  <2>1. Served' /\ Kinds' /\ Childless'
    BY <1>3 DEF gvars, RInv, Settling, Served, Kinds, Childless, Registered
  <2>2. ASSUME NEW r \in Runs PROVE RunOk(r)'
    BY <1>3, LessOrEqual, Untouched DEF gvars, RInv, Settling, Aborting
  <2> QED BY <1>1, <2>1, <2>2 DEF RInv, Settling
<1> QED BY <1>2, <1>3

(* A run that is over was completed once: the worker's own report (host.ts,   *)
(* the terminal message of a run) and the supervisor's (finish) never both    *)
(* reach its user, whatever fails, answers late or is aborted in between, and *)
(* a confirmed abort leaves both unsaid. The invariant follows the run's one  *)
(* token through the pipes and the worker.                                    *)
THEOREM EveryRunIsReportedOnce == GjcSpec => []RunsAreReported
<1>1. RInv => RunsAreReported
  BY DEF RInv, Settling, RunOk, Told, Silent, RunsAreReported
<1> QED BY <1>1, InitRInv, StepRInv, PTL DEF GjcSpec
-----------------------------------------------------------------------------
(* Questions. One that is open at gjc, and not on its way, is offered to its  *)
(* user or an answer to it is under way; and if the worker has responded to   *)
(* that answer, then that it failed.                                          *)

ReplyTo(r) == [kind |-> "reply", run |-> r, id |-> approval[r].id]
Replied(r) == \E f \in FramesOf(up, r) : f.kind = "reply" /\ f.ok /\ f.id = approval[r].id
Awaits(r) == /\ Registered(r) /\ worker.runs[r] = "running" /\ worker.question[r] = "open"
             /\ ~Has(up, {"ask"}, r)

Offered(r) ==
  /\ worker.runs[r] = "none" => worker.question[r] = "none"
  /\ Has(up, {"cancel"}, r) => worker.question[r] = "done"
  /\ Awaits(r) => \/ approval[r].state = "open"
                  \/ approval[r].state = "inFlight" /\ ReplyTo(r) \in tracked /\ ~Replied(r)

\* An answer is sent under a number that no frame has yet.
Fresh == \A f \in Range(down) \cup Range(up) : f.kind = "reply" => f.id \in 1..requests

Offering == Fresh /\ \A r \in Runs : Offered(r)

OInv == RInv /\ Offering

LEMMA InitOInv == GjcInit => OInv
<1> SUFFICES ASSUME GjcInit PROVE OInv
  OBVIOUS
<1>1. /\ down = << >> /\ up = << >> /\ worker = NewWorker
  BY DEF GjcInit
<1>2. \A r \in Runs : worker.runs[r] = "none" /\ worker.question[r] = "none"
  BY <1>1 DEF NewWorker
<1>3. Offering
  BY <1>1, <1>2, NoFrames DEF Offering, Fresh, Offered, Awaits, Has
<1> QED BY <1>3, InitRInv DEF OInv

(* What the worker says that does not touch the question of r: it does not    *)
(* confirm an answer nor end the question, and no ask is heard.               *)
Beside(t, s, r) ==
  /\ \A f \in FramesOf(t, r) : f \in FramesOf(s, r) \/ f.kind \notin {"cancel", "reply"} \/ (f.kind = "reply" /\ ~f.ok)
  /\ \A f \in FramesOf(s, r) : f.kind = "ask" => f \in FramesOf(t, r)

LEMMA OfferKept ==
  ASSUME NEW r \in Runs, RunOk(r), Offered(r), worker'.question[r] = worker.question[r],
         \/ worker'.runs[r] = worker.runs[r] \/ worker'.runs[r] \in {"aborted", "over"}
         \/ worker.runs[r] = "none",
         Beside(up', up, r),
         \/ ~Registered(r)' \/ approval'[r].state = "open"
         \/ approval'[r] = approval[r] /\ (ReplyTo(r) \in tracked => ReplyTo(r) \in tracked')
  PROVE  Offered(r)'
<1>1. worker'.runs[r] = "none" => worker'.question[r] = "none"
  BY DEF Offered
<1>2. Has(up', {"cancel"}, r) => worker'.question[r] = "done"
  BY DEF Offered, Beside, Has
<1>3. ASSUME Awaits(r)', approval'[r].state # "open"
      PROVE  approval'[r].state = "inFlight" /\ ReplyTo(r)' \in tracked' /\ ~Replied(r)'
  <2>1. worker.question[r] = "open" /\ worker.runs[r] # "none" /\ worker'.runs[r] = "running"
    BY <1>3 DEF Awaits, Offered
  <2>2. worker.runs[r] = "running"
    BY <2>1
  <2>3. Registered(r)
    BY <2>2 DEF RunOk, Token, Hosted
  <2>4. ~Has(up, {"ask"}, r)
    BY <1>3 DEF Awaits, Beside, Has
  <2>5. approval'[r] = approval[r] /\ (ReplyTo(r) \in tracked => ReplyTo(r) \in tracked')
    BY <1>3 DEF Awaits
  <2>6. approval[r].state = "inFlight" /\ ReplyTo(r) \in tracked /\ ~Replied(r)
    BY <1>3, <2>1, <2>2, <2>3, <2>4, <2>5 DEF Awaits, Offered
  <2>7. ~Replied(r)'
    BY <2>5, <2>6 DEF Replied, Beside
  <2> QED BY <2>5, <2>6, <2>7 DEF ReplyTo
<1> QED BY <1>1, <1>2, <1>3 DEF Offered

\* With a new worker there are no questions.
LEMMA NoQuestions ==
  ASSUME worker' = NewWorker, up' = << >>
  PROVE  \A r \in Runs : Offered(r)'
<1>1. \A r \in Runs : worker'.runs[r] = "none" /\ worker'.question[r] = "none"
  BY DEF NewWorker
<1> QED BY <1>1, NoFrames DEF Offered, Awaits, Has

\* A frame that is no ask is heard, or nothing is.
LEMMA HeardBeside ==
  ASSUME up \in Seq(Wire), up' = up \/ (up # << >> /\ up' = Tail(up)), NEW r \in Runs,
         up' = up \/ Head(up).kind \notin RunKinds \/ Head(up).kind # "ask" \/ Head(up).run # r
  PROVE  Beside(up', up, r)
<1>1. CASE up' = up
  BY <1>1 DEF Beside
<1>2. CASE up # << >> /\ up' = Tail(up) /\ up' # up
  <2>1. Range(up) = Range(up') \cup {Head(up)}
    BY <1>2, TakenFrame
  <2> QED BY <1>2, <2>1 DEF Beside, FramesOf
<1> QED BY <1>1, <1>2

\* Frames about r are said.
LEMMA SaidAbout ==
  ASSUME up \in Seq(Wire), NEW t \in Seq(Wire), up' = up \o t, NEW r \in Runs,
         \A f \in Range(t) : f.kind \in RunKinds /\ f.run = r
  PROVE  /\ FramesOf(up', r) = FramesOf(up, r) \cup Range(t)
         /\ \A q \in Runs \ {r} : Beside(up', up, q)
         /\ (\A f \in Range(t) : f.kind \notin {"cancel", "reply"} \/ (f.kind = "reply" /\ ~f.ok)) => Beside(up', up, r)
<1>1. \A q : FramesOf(up', q) = FramesOf(up, q) \cup FramesOf(t, q)
  BY MoreFrames
<1>2. FramesOf(t, r) = Range(t) /\ \A q \in Runs \ {r} : FramesOf(t, q) = {}
  BY DEF FramesOf
<1> QED BY <1>1, <1>2 DEF Beside

\* Frames about the worker are said.
LEMMA SaidToAll ==
  ASSUME up \in Seq(Wire), NEW f \in Wire, f.kind \notin RunKinds, up' = up \/ up' = up \o <<f>>
  PROVE  \A q \in Runs : Beside(up', up, q)
<1>1. \A q : FramesOf(up', q) = FramesOf(up, q)
  <2>1. CASE up' = up
    BY <2>1
  <2>2. CASE up' = up \o <<f>>
    BY <2>2, PutFrame
  <2> QED BY <2>1, <2>2
<1> QED BY <1>1 DEF Beside

\* The supervisor's callers and timers, but for answers: questions stay what they are.
LEMMA CallsOffer ==
  ASSUME OInv,
         \/ \E r \in Runs : Spawns(r) \/ Aborts(r)
         \/ Shutdown \/ WorkerExits \/ WorkerBreaks \/ StartTimesOut \/ ShutdownTimesOut
         \/ TerminationEnds \/ TerminationFails \/ HearsReady \/ HearsOfTheEnd \/ HearsOutcome
  PROVE  \A r \in Runs : Offered(r)'
<1> USE DEF OInv, Offering
<1>1. Kinds /\ up \in Seq(Wire) /\ \A r \in Runs : RunOk(r) /\ Offered(r)
  BY DEF RInv, Settling, Kinds
<1>2. CASE worker' = NewWorker /\ up' = << >>
  BY <1>2, NoQuestions
<1>3. ASSUME worker' = worker, up' = up \/ (up # << >> /\ up' = Tail(up) /\ Head(up).kind # "ask"),
             approval' = approval \/ Mirrors(approval), tracked \subseteq tracked'
      PROVE  \A r \in Runs : Offered(r)'
  <2> SUFFICES ASSUME NEW r \in Runs PROVE Offered(r)'
    OBVIOUS
  <2>1. Beside(up', up, r)
    BY <1>1, <1>3, HeardBeside
  <2>2. ~Registered(r)' \/ approval'[r] = approval[r]
    BY <1>1, <1>3, MirrorsShape DEF Registered
  <2> QED BY <1>1, <1>3, <2>1, <2>2, OfferKept
<1>4. CASE WorkerExits \/ WorkerBreaks \/ StartTimesOut \/ ShutdownTimesOut \/ HearsOfTheEnd
  BY <1>2, <1>4 DEF WorkerExits, WorkerBreaks, StartTimesOut, ShutdownTimesOut, HearsOfTheEnd, Fails
<1>5. CASE \E r \in Runs : Spawns(r)
  <2>1. \/ worker' = NewWorker /\ up' = << >>
        \/ worker' = worker /\ up' = up /\ approval' = approval /\ tracked' = tracked
    BY <1>5 DEF Spawns, SpawnIsRefused, SpawnWaits, SpawnSends, SpawnStarts, StartsWorker
  <2> QED BY <1>2, <1>3, <2>1
<1>6. CASE (\E r \in Runs : Aborts(r)) \/ Shutdown \/ TerminationFails
  <2>1. /\ worker' = worker /\ up' = up /\ (approval' = approval \/ Mirrors(approval))
        /\ tracked \subseteq tracked'
    BY <1>6 DEF Aborts, Shutdown, TerminationFails
  <2> QED BY <1>3, <2>1
<1>7. CASE TerminationEnds
  <2>1. \/ worker' = NewWorker /\ up' = << >>
        \/ worker' = worker /\ up' = up /\ approval' = approval /\ tracked' = tracked
    BY <1>7 DEF TerminationEnds, StartsWorker
  <2> QED BY <1>2, <1>3, <2>1
<1>8. CASE HearsReady \/ HearsOutcome
  <2>1. /\ worker' = worker /\ up # << >> /\ up' = Tail(up) /\ Head(up).kind # "ask"
        /\ approval' = approval \/ Mirrors(approval)
        /\ tracked' = tracked
    BY <1>8 DEF HearsReady, HearsOutcome, Hears
  <2> QED BY <1>3, <2>1
<1> QED BY <1>4, <1>5, <1>6, <1>7, <1>8

\* An answer goes out: the worker has not responded to it.
LEMMA AnswersOffer == ASSUME OInv, NEW r \in Runs, Answers(r) PROVE \A q \in Runs : Offered(q)'
<1> USE DEF OInv, Offering
<1>1. /\ Kinds /\ up \in Seq(Wire) /\ \A q \in Runs : RunOk(q) /\ Offered(q)
      /\ approval \in [Runs -> ApprovalStates] /\ requests \in Nat
  BY DEF RInv, Settling, Kinds
<1>2. /\ requests' = requests + 1
      /\ approval' = [approval EXCEPT ![r] = [state |-> "inFlight", id |-> requests']]
      /\ tracked' = tracked \cup {[kind |-> "reply", run |-> r, id |-> requests']}
      /\ UNCHANGED <<run, up, worker>>
  BY DEF Answers
<1>3. \A q \in Runs : Beside(up', up, q)
  BY <1>1, <1>2, HeardBeside
<1>4. ASSUME NEW q \in Runs \ {r} PROVE Offered(q)'
  <2>1. approval'[q] = approval[q] /\ tracked \subseteq tracked'
    BY <1>1, <1>2
  <2> QED BY <1>1, <1>2, <1>3, <2>1, OfferKept
<1>5. Offered(r)'
  <2>1. approval'[r].state = "inFlight" /\ approval'[r].id = requests + 1
    BY <1>1, <1>2
  <2>2. ReplyTo(r)' \in tracked'
    BY <1>2, <2>1 DEF ReplyTo
  <2>3. ~Replied(r)'
    <3>1. \A f \in FramesOf(up, r) : f.kind = "reply" => f.id \in 1..requests
      BY DEF Fresh, FramesOf
    <3>2. requests + 1 \notin 1..requests
      BY <1>1
    <3> QED BY <1>2, <2>1, <3>1, <3>2 DEF Replied
  <2>4. /\ worker'.runs[r] = "none" => worker'.question[r] = "none"
        /\ Has(up', {"cancel"}, r) => worker'.question[r] = "done"
    BY <1>1, <1>2 DEF Offered
  <2> QED BY <2>1, <2>2, <2>3, <2>4 DEF Offered
<1> QED BY <1>4, <1>5

\* An answer is given up, or its response is heard: if it failed, the question is put again.
LEMMA ResponseOffers ==
  ASSUME OInv, NEW t \in Request, tracked' = tracked \ {t},
         UNCHANGED worker, up' = up \/ (up # << >> /\ up' = Tail(up) /\ Head(up).kind # "ask"),
         \/ approval' = Restored(t)
         \/ approval' = approval /\ (t.kind = "reply" => \E f \in FramesOf(up, t.run) : f.kind = "reply" /\ f.ok /\ f.id = t.id)
  PROVE  \A q \in Runs : Offered(q)'
<1> USE DEF OInv, Offering
<1>1. /\ Kinds /\ up \in Seq(Wire) /\ \A q \in Runs : RunOk(q) /\ Offered(q)
      /\ approval \in [Runs -> ApprovalStates] /\ t.run \in Runs
  BY DEF RInv, Settling, Kinds, Request
<1>2. \A q \in Runs : Beside(up', up, q)
  BY <1>1, HeardBeside
<1>3. ASSUME NEW q \in Runs PROVE t # ReplyTo(q) \/ (t.kind = "reply" /\ t.run = q /\ t.id = approval[q].id)
  BY DEF ReplyTo
<1>4. ASSUME NEW q \in Runs, t # ReplyTo(q), approval'[q] = approval[q] PROVE Offered(q)'
  <2>1. ReplyTo(q) \in tracked => ReplyTo(q) \in tracked'
    BY <1>4
  <2> QED BY <1>1, <1>2, <1>4, <2>1, OfferKept
<1>5. ASSUME NEW q \in Runs, approval'[q].state = "open" PROVE Offered(q)'
  BY <1>1, <1>2, <1>5, OfferKept
<1>6. CASE approval' = Restored(t)
  <2> SUFFICES ASSUME NEW q \in Runs PROVE Offered(q)'
    OBVIOUS
  <2>1. CASE t = ReplyTo(q)
    <3>1. approval'[q].state = "open"
      BY <1>1, <1>3, <1>6, <2>1 DEF Restored
    <3> QED BY <1>5, <3>1
  <2>2. CASE t # ReplyTo(q)
    <3>1. approval'[q] = approval[q] \/ approval'[q].state = "open"
      BY <1>1, <1>6 DEF Restored
    <3> QED BY <1>4, <1>5, <2>2, <3>1
  <2> QED BY <2>1, <2>2
<1>7. CASE approval' = approval /\ (t.kind = "reply" => \E f \in FramesOf(up, t.run) : f.kind = "reply" /\ f.ok /\ f.id = t.id)
  <2> SUFFICES ASSUME NEW q \in Runs PROVE Offered(q)'
    OBVIOUS
  <2>1. CASE t = ReplyTo(q)
    <3>1. Replied(q)
      BY <1>3, <1>7, <2>1 DEF Replied, ReplyTo
    <3>2. Awaits(q)' => Awaits(q)
      <4> SUFFICES ASSUME Awaits(q)' PROVE Awaits(q)
        OBVIOUS
      <4>1. worker.runs[q] = "running" /\ worker.question[q] = "open" /\ ~Has(up', {"ask"}, q)
        BY DEF Awaits
      <4>2. Registered(q)
        BY <1>1, <4>1 DEF RunOk, Token, Hosted
      <4>3. ~Has(up, {"ask"}, q)
        BY <1>2, <4>1 DEF Has, Beside
      <4> QED BY <4>1, <4>2, <4>3 DEF Awaits
    <3>3. CASE approval[q].state = "open"
      BY <1>5, <1>7, <3>3
    <3>4. CASE ~Awaits(q)'
      <4>1. /\ worker'.runs[q] = "none" => worker'.question[q] = "none"
            /\ Has(up', {"cancel"}, q) => worker'.question[q] = "done"
        BY <1>1, <1>2 DEF Offered, Beside, Has
      <4> QED BY <3>4, <4>1 DEF Offered
    <3> QED BY <1>1, <3>1, <3>2, <3>3, <3>4 DEF Offered
  <2>2. CASE t # ReplyTo(q)
    BY <1>4, <1>7, <2>2
  <2> QED BY <2>1, <2>2
<1> QED BY <1>6, <1>7

LEMMA HearsAnswerOffers == ASSUME OInv, HearsAnswer PROVE \A q \in Runs : Offered(q)'
<1> USE DEF OInv, Offering
<1> DEFINE f == Head(up)
<1>1. /\ up # << >> /\ f.kind \in {"abort", "reply"} /\ up' = Tail(up) /\ up \in Seq(Wire)
      /\ UNCHANGED <<platform, supervisor, requests, down, alive, worker>>
      /\ \A q \in Runs : RunOk(q) /\ Offered(q)
  BY DEF HearsAnswer, Hears, RInv, Settling, Kinds
<1>2. f.run \in Runs /\ f.id \in Requests /\ f \in FramesOf(up, f.run)
  <2>1. f.kind \in RunKinds
    BY <1>1 DEF RunKinds
  <2> QED BY <1>1, <2>1, NextFrame
<1>3. PICK t \in Request : t = [kind |-> f.kind, run |-> f.run, id |-> f.id]
  BY <1>1, <1>2 DEF Request
<1>4. t.kind = f.kind /\ t.run = f.run /\ t.id = f.id
  BY <1>3
<1>5. \/ UNCHANGED <<run, approval, tracked>>
      \/ tracked' = tracked \ {t} /\ approval' = IF f.ok THEN approval ELSE Restored(t)
  BY <1>3 DEF HearsAnswer
<1>6. \A q \in Runs : Beside(up', up, q)
  BY <1>1, HeardBeside
<1> HIDE DEF f
<1>7. CASE UNCHANGED <<run, approval, tracked>>
  BY <1>1, <1>6, <1>7, OfferKept
<1>8. CASE tracked' = tracked \ {t} /\ approval' = IF f.ok THEN approval ELSE Restored(t)
  <2>1. up' = Tail(up) /\ Head(up).kind # "ask"
    BY <1>1 DEF f
  <2>2. \/ approval' = Restored(t)
        \/ approval' = approval /\ (t.kind = "reply" => \E g \in FramesOf(up, t.run) : g.kind = "reply" /\ g.ok /\ g.id = t.id)
    BY <1>2, <1>4, <1>8
  <2> QED BY <1>1, <1>8, <2>1, <2>2, ResponseOffers
<1> QED BY <1>5, <1>7, <1>8

LEMMA TimeoutOffers == ASSUME OInv, NEW t \in tracked, AnswerTimesOut(t) PROVE \A q \in Runs : Offered(q)'
<1>1. t \in Request
  BY DEF OInv, RInv, Settling, Kinds
<1> QED BY <1>1, ResponseOffers DEF AnswerTimesOut

\* An ask is heard: the question is offered; a cancel is: it is not open.
LEMMA HearsEventOffers == ASSUME OInv, HearsEvent PROVE \A q \in Runs : Offered(q)'
<1> USE DEF OInv, Offering
<1> DEFINE f == Head(up)
<1>1. /\ up # << >> /\ f.kind \in {"completed", "failed", "ask", "cancel"} /\ up' = Tail(up) /\ up \in Seq(Wire)
      /\ UNCHANGED <<platform, supervisor, tracked, expired, requests, down, alive, worker>>
      /\ approval \in [Runs -> ApprovalStates] /\ \A q \in Runs : RunOk(q) /\ Offered(q)
  BY DEF HearsEvent, Hears, RInv, Settling, Kinds
<1>2. /\ f.run \in Runs /\ f \in FramesOf(up, f.run) /\ f.kind \in RunKinds
  BY <1>1, NextFrame DEF RunKinds
<1>3. PICK r \in Runs : r = f.run
  BY <1>2
<1>4. PICK kind \in {"completed", "failed", "ask", "cancel"} : kind = f.kind
  BY <1>1
<1> DEFINE asked == [state |-> IF kind = "ask" THEN "open" ELSE "none", id |-> 0]
<1>5. \/ approval' = approval /\ (Registered(r) => kind \in Ends) /\ (Registered(r)' => Registered(r))
      \/ kind \in {"ask", "cancel"} /\ approval' = [approval EXCEPT ![r] = asked]
  <2>1. run' = run \/ (Registered(r) /\ kind \in Ends)
    BY <1>3, <1>4 DEF HearsEvent, Ends
  <2>2. IF ~Registered(r) THEN approval' = approval
        ELSE IF kind \in {"completed", "failed"} THEN approval' = approval
        ELSE approval' = [approval EXCEPT ![r] = asked]
    <3> DEFINE heard(k) == [state |-> IF k = "ask" THEN "open" ELSE "none", id |-> 0]
    <3>1. IF ~Registered(f.run) THEN approval' = approval
          ELSE IF f.kind \in {"completed", "failed"} THEN approval' = approval
          ELSE approval' = [approval EXCEPT ![f.run] = heard(f.kind)]
      BY DEF HearsEvent
    <3>2. asked = heard(kind)
      OBVIOUS
    <3> HIDE DEF f, heard, asked
    <3> QED BY <1>3, <1>4, <3>1, <3>2
  <2>3. CASE ~Registered(r)
    BY <2>1, <2>2, <2>3 DEF Registered
  <2>4. CASE Registered(r)
    BY <2>2, <2>4 DEF Ends
  <2> QED BY <2>3, <2>4
<1>6. ASSUME NEW q \in Runs, kind # "ask" \/ q # r PROVE Beside(up', up, q)
  BY <1>1, <1>3, <1>4, <1>6, HeardBeside
<1>7. /\ up' \in Seq(Wire) /\ \A g \in FramesOf(up', r) : g \in FramesOf(up, r)
      /\ \A q : Less(up', up, q)
  BY <1>1, TakenFrame DEF Less
<1>8. kind = "cancel" => worker.question[r] = "done"
  <2>1. kind = "cancel" => Has(up, {"cancel"}, r)
    BY <1>2, <1>3, <1>4 DEF Has
  <2> QED BY <1>1, <2>1 DEF Offered
<1>9. /\ worker'.runs[r] = "none" => worker'.question[r] = "none"
      /\ Has(up', {"cancel"}, r) => worker'.question[r] = "done"
  BY <1>1, <1>7 DEF Offered, Has
<1> HIDE DEF f, asked
<1>10. CASE approval' = approval /\ (Registered(r) => kind \in Ends) /\ (Registered(r)' => Registered(r))
  <2>1. ASSUME NEW q \in Runs \ {r} PROVE Offered(q)'
    BY <1>1, <1>6, <1>10, OfferKept
  <2>2. Offered(r)'
    <3>1. CASE Registered(r)
      <4>1. kind # "ask"
        BY <1>10, <3>1 DEF Ends
      <4> QED BY <1>1, <1>6, <1>10, <4>1, OfferKept
    <3>2. CASE ~Registered(r)
      <4>1. ~Awaits(r)'
        BY <1>10, <3>2 DEF Awaits
      <4> QED BY <1>9, <4>1 DEF Offered
    <3> QED BY <3>1, <3>2
  <2> QED BY <2>1, <2>2
<1>11. CASE kind \in {"ask", "cancel"} /\ approval' = [approval EXCEPT ![r] = asked]
  <2>1. approval'[r] = asked /\ \A q \in Runs \ {r} : approval'[q] = approval[q]
    BY <1>1, <1>11
  <2>2. ASSUME NEW q \in Runs \ {r} PROVE Offered(q)'
    BY <1>1, <1>6, <2>1, OfferKept
  <2>3. CASE kind = "ask"
    <3>1. approval'[r].state = "open"
      BY <2>1, <2>3 DEF asked
    <3>2. Offered(r)'
      BY <1>9, <3>1 DEF Offered
    <3> QED BY <2>2, <3>2
  <2>4. CASE kind = "cancel"
    <3>1. ~Awaits(r)'
      BY <1>1, <1>8, <2>4 DEF Awaits
    <3>2. Offered(r)'
      BY <1>9, <3>1 DEF Offered
    <3> QED BY <2>2, <3>2
  <2> QED BY <1>11, <2>2, <2>3, <2>4
<1> QED BY <1>5, <1>10, <1>11

(* Steps of the worker that touch no question: a run may start, or be aborted. *)
LEMMA WorkOffers ==
  ASSUME OInv, UNCHANGED <<run, approval, tracked>>, worker'.question = worker.question,
         \A q \in Runs : \/ worker'.runs[q] = worker.runs[q] \/ worker'.runs[q] \in {"aborted", "over"}
                         \/ worker.runs[q] = "none",
         \A q \in Runs : Beside(up', up, q)
  PROVE  \A q \in Runs : Offered(q)'
BY OfferKept DEF OInv, RInv, Settling, Offering

LEMMA TakesOffer ==
  ASSUME OInv, TakesInitialize \/ RuntimeLoads \/ Drained \/ TakesShutdown \/ TakesAbort \/ TakesStart
  PROVE  \A q \in Runs : Offered(q)'
<1>1. worker \in WorkerStates /\ up \in Seq(Wire) /\ down \in Seq(Wire)
      /\ UNCHANGED <<run, approval, tracked>>
  BY DEF OInv, RInv, Settling, Kinds, TakesInitialize, RuntimeLoads, Drained, TakesShutdown, TakesAbort,
         TakesStart, WorkerUnchanged
<1>2. \A q \in Runs : Beside(up', up, q)
  <2>1. up' = up \/ \E kind \in {"initialize", "shutdown"}, ok \in BOOLEAN : up' = up \o <<ToAll(kind, ok)>>
    BY DEF TakesInitialize, RuntimeLoads, Drained, TakesShutdown, TakesAbort, TakesStart, Says
  <2>2. ASSUME NEW kind \in {"initialize", "shutdown"}, NEW ok \in BOOLEAN, NEW f, f = ToAll(kind, ok),
               up' = up \o <<f>>
        PROVE  \A q \in Runs : Beside(up', up, q)
    <3>1. f \in Wire /\ f.kind \notin RunKinds
      BY <2>2, FramesAreWire DEF ToAll, RunKinds
    <3> QED BY <1>1, <2>2, <3>1, SaidToAll
  <2>3. CASE up' = up
    BY <1>1, <2>3, HeardBeside
  <2> QED BY <2>1, <2>2, <2>3
<1>3. CASE TakesInitialize \/ RuntimeLoads \/ Drained \/ TakesAbort
  <2>1. worker'.question = worker.question /\ worker'.runs = worker.runs
    BY <1>1, <1>3 DEF TakesInitialize, RuntimeLoads, Drained, TakesAbort, WorkerStates
  <2> QED BY <1>1, <1>2, <2>1, WorkOffers
<1>4. CASE TakesShutdown
  <2>1. CASE worker' = worker
    BY <1>1, <1>2, <2>1, WorkOffers
  <2>2. ASSUME NEW aborted \in SUBSET {r \in Runs : Hosted(r)},
               worker' = [worker EXCEPT !.closed = "draining",
                            !.runs = [r \in Runs |-> IF r \in aborted THEN "aborted" ELSE worker.runs[r]]]
        PROVE  \A q \in Runs : Offered(q)'
    <3> DEFINE now == [r \in Runs |-> IF r \in aborted THEN "aborted" ELSE worker.runs[r]]
    <3>1. \A q \in Runs : now[q] = worker.runs[q] \/ now[q] \in {"aborted", "over"}
      OBVIOUS
    <3>2. worker' = [worker EXCEPT !.closed = "draining", !.runs = now]
      BY <2>2
    <3> HIDE DEF now
    <3>3. worker'.question = worker.question /\ worker'.runs = now
      BY <1>1, <3>2 DEF WorkerStates
    <3> QED BY <1>1, <1>2, <3>1, <3>3, WorkOffers
  <2> QED BY <1>4, <2>1, <2>2 DEF TakesShutdown
<1>5. CASE TakesStart
  <2>1. /\ down # << >> /\ Head(down).kind = "start" /\ down' = Tail(down)
        /\ worker' = [worker EXCEPT !.runs[Head(down).run] = "running"]
    BY <1>5 DEF TakesStart, Takes
  <2>2. PICK r \in Runs : r = Head(down).run
    BY <1>1, <2>1, NextFrame DEF RunKinds
  <2>3. worker.runs[r] = "none"
    BY <1>1, <2>1, <2>2, TokenTaken DEF OInv, RInv, Settling
  <2> DEFINE now == [worker.runs EXCEPT ![r] = "running"]
  <2>4. \A q \in Runs : now[q] = worker.runs[q] \/ worker.runs[q] = "none"
    BY <1>1, <2>3 DEF WorkerStates
  <2>5. worker' = [worker EXCEPT !.runs = now]
    BY <2>1, <2>2
  <2> HIDE DEF now
  <2>6. worker'.question = worker.question /\ worker'.runs = now
    BY <1>1, <2>5 DEF WorkerStates
  <2> QED BY <1>1, <1>2, <2>4, <2>6, WorkOffers
<1> QED BY <1>3, <1>4, <1>5

LEMMA InVainOffers == ASSUME OInv, TakesInVain PROVE \A q \in Runs : Offered(q)'
<1> DEFINE f == Head(down)
           no == [f EXCEPT !.ok = FALSE]
<1>1. /\ down # << >> /\ f.kind \in {"start", "abort", "reply"} /\ up' = up \o <<no>> /\ worker' = worker
      /\ down \in Seq(Wire) /\ up \in Seq(Wire) /\ UNCHANGED <<run, approval, tracked>>
  BY DEF TakesInVain, Says, WorkerUnchanged, OInv, RInv, Settling, Kinds
<1>2. f.kind \in RunKinds
  BY <1>1 DEF RunKinds
<1>3. f \in Wire /\ f.run \in Runs /\ f.id \in Requests \cup {0} /\ (f.kind \in {"abort", "reply"} => f.id \in Requests)
  BY <1>1, <1>2, NextFrame
<1>4. no \in Wire /\ no.kind = f.kind /\ no.run = f.run /\ ~no.ok
  <2>1. no = Frame(f.kind, f.run, f.id, FALSE)
    <3> HIDE DEF f
    <3> QED BY <1>2, <1>3, RefusedFrame
  <2>2. Frame(f.kind, f.run, f.id, FALSE) \in Wire
    BY <1>2, <1>3, FramesAreWire
  <2> HIDE DEF no, f
  <2> QED BY <2>1, <2>2 DEF Frame
<1>5. PICK r \in Runs : r = f.run
  BY <1>3
<1> DEFINE t == <<no>>
<1> HIDE DEF f, no
<1>6. t \in Seq(Wire) /\ Range(t) = {no} /\ up' = up \o t
  BY <1>1, <1>4, FewFrames
<1> HIDE DEF t
<1>7. \A g \in Range(t) : g.kind \in RunKinds /\ g.run = r /\ g.kind # "cancel" /\ ~g.ok
  BY <1>1, <1>2, <1>4, <1>5, <1>6
<1>8. \A q \in Runs \ {r} : Beside(up', up, q)
  BY <1>1, <1>6, <1>7, SaidAbout
<1>9. Beside(up', up, r)
  BY <1>1, <1>6, <1>7, SaidAbout
<1> QED BY <1>1, <1>8, <1>9, WorkOffers

LEMMA AbortOffers == ASSUME OInv, NEW t \in worker.aborting, AbortAnswered(t) PROVE \A q \in Runs : Offered(q)'
<1>1. /\ worker \in WorkerStates /\ up \in Seq(Wire) /\ t \in Request /\ t.run \in Runs
      /\ UNCHANGED <<run, approval, tracked>>
  BY DEF AbortAnswered, WorkerUnchanged, OInv, RInv, Settling, Kinds, WorkerStates, Request
<1>2. PICK ok \in BOOLEAN :
        /\ worker' = [worker EXCEPT !.aborting = @ \ {t}, !.runs[t.run] = IF ok /\ @ = "running" THEN "aborted" ELSE @]
        /\ up' = up \o <<Frame("abort", t.run, t.id, ok)>>
  BY DEF AbortAnswered, Says
<1>3. PICK r \in Runs : r = t.run
  BY <1>1
<1>4. worker'.question = worker.question
      /\ \A q \in Runs : worker'.runs[q] = worker.runs[q] \/ worker'.runs[q] \in {"aborted", "over"}
  <2> DEFINE left == worker.aborting \ {t}
             now == [worker.runs EXCEPT ![r] = IF ok /\ @ = "running" THEN "aborted" ELSE @]
  <2>1. worker' = [worker EXCEPT !.aborting = left, !.runs = now]
    BY <1>2, <1>3
  <2>2. \A q \in Runs : now[q] = worker.runs[q] \/ now[q] \in {"aborted", "over"}
    BY <1>1 DEF WorkerStates
  <2> HIDE DEF left, now
  <2>3. worker'.question = worker.question /\ worker'.runs = now
    BY <1>1, <2>1 DEF WorkerStates
  <2> QED BY <2>2, <2>3
<1> DEFINE f == Frame("abort", r, t.id, ok)
           s == <<f>>
<1>5. f \in Wire /\ f.kind = "abort" /\ f.run = r
  <2>1. t.id \in Requests
    BY <1>1 DEF Request
  <2> QED BY <2>1, FramesAreWire DEF Frame, RunKinds
<1>6. up' = up \o s
  BY <1>2, <1>3
<1> HIDE DEF f
<1>7. s \in Seq(Wire) /\ Range(s) = {f}
  BY <1>5, FewFrames
<1> HIDE DEF s
<1>8. \A g \in Range(s) : g.kind \in RunKinds /\ g.run = r /\ g.kind \notin {"cancel", "reply"}
  BY <1>5, <1>7 DEF RunKinds
<1>9. \A q \in Runs \ {r} : Beside(up', up, q)
  BY <1>1, <1>6, <1>7, <1>8, SaidAbout
<1>10. Beside(up', up, r)
  BY <1>1, <1>6, <1>7, <1>8, SaidAbout
<1> QED BY <1>1, <1>4, <1>9, <1>10, WorkOffers

\* The worker speaks about the question of r.
LEMMA QuestionOffers ==
  ASSUME OInv, NEW r \in Runs, UNCHANGED <<run, approval, tracked>>,
         \A q \in Runs \ {r} : worker'.question[q] = worker.question[q] /\ worker'.runs[q] = worker.runs[q],
         \A q \in Runs \ {r} : Beside(up', up, q),
         worker'.runs[r] # "none", Has(up', {"cancel"}, r) => worker'.question[r] = "done",
         worker'.question[r] # "open" \/ Has(up', {"ask"}, r)
  PROVE  \A q \in Runs : Offered(q)'
<1>1. Offered(r)'
  BY DEF Offered, Awaits
<1>2. ASSUME NEW q \in Runs \ {r} PROVE Offered(q)'
  BY OfferKept DEF OInv, RInv, Settling, Offering
<1> QED BY <1>1, <1>2

LEMMA TakesReplyOffers == ASSUME OInv, TakesReply PROVE \A q \in Runs : Offered(q)'
<1> DEFINE f == Head(down)
           no == [f EXCEPT !.ok = FALSE]
           ask == Frame("ask", f.run, 0, TRUE)
<1>1. /\ down # << >> /\ f.kind = "reply" /\ Hosted(f.run) /\ worker \in WorkerStates
      /\ down \in Seq(Wire) /\ up \in Seq(Wire) /\ UNCHANGED <<run, approval, tracked>>
  BY DEF TakesReply, Takes, WorkerUnchanged, OInv, RInv, Settling, Kinds
<1>2. f.kind \in RunKinds
  BY <1>1 DEF RunKinds
<1>3. f \in Wire /\ f.run \in Runs /\ f.id \in Requests \cup {0} /\ (f.kind \in {"abort", "reply"} => f.id \in Requests)
  BY <1>1, <1>2, NextFrame
<1>4. no \in Wire /\ no.kind = f.kind /\ no.run = f.run /\ ~no.ok
  <2>1. no = Frame(f.kind, f.run, f.id, FALSE)
    <3> HIDE DEF f
    <3> QED BY <1>2, <1>3, RefusedFrame
  <2>2. Frame(f.kind, f.run, f.id, FALSE) \in Wire
    BY <1>2, <1>3, FramesAreWire
  <2> HIDE DEF no, f
  <2> QED BY <2>1, <2>2 DEF Frame
<1>5. ask \in Wire /\ ask.kind = "ask" /\ ask.run = f.run
  BY <1>3, FramesAreWire DEF RunKinds, Frame
<1>6. PICK r \in Runs : r = f.run
  BY <1>3
<1>7. \/ /\ worker.question[r] \in {"open", "answered"} /\ up' = up \o <<f>>
         /\ worker' = [worker EXCEPT !.question[r] = "answered"]
      \/ /\ worker.question[r] \in {"open", "answered"} /\ up' = up \o <<ask, f>> /\ worker' = worker
      \/ /\ up' = up \o <<no>> /\ worker' = worker
  BY <1>6 DEF TakesReply, Says
<1> HIDE DEF f, no, ask
<1>8. /\ <<f>> \in Seq(Wire) /\ Range(<<f>>) = {f} /\ <<no>> \in Seq(Wire) /\ Range(<<no>>) = {no}
      /\ <<ask, f>> \in Seq(Wire) /\ Range(<<ask, f>>) = {ask, f}
  BY <1>3, <1>4, <1>5, FewFrames
<1>9. /\ f.kind = "reply" /\ no.kind = "reply" /\ ask.kind = "ask" /\ f.run = r /\ no.run = r /\ ask.run = r /\ ~no.ok
      /\ {f, no, ask} \subseteq Wire /\ {"reply", "ask"} \subseteq RunKinds
  BY <1>1, <1>3, <1>4, <1>5, <1>6 DEF RunKinds
<1>10. \A g \in {f, no, ask} : g.kind \in RunKinds /\ g.run = r
  BY <1>9
<1>11. worker.runs[r] # "none" /\ (worker.question[r] # "done" => ~Has(up, {"cancel"}, r))
  BY <1>1, <1>6 DEF Hosted, OInv, Offering, Offered
<1>12. CASE /\ worker.question[r] \in {"open", "answered"} /\ up' = up \o <<f>>
            /\ worker' = [worker EXCEPT !.question[r] = "answered"]
  <2>1. /\ worker'.runs = worker.runs /\ worker'.question[r] = "answered"
        /\ \A q \in Runs \ {r} : worker'.question[q] = worker.question[q]
    BY <1>1, <1>12 DEF WorkerStates
  <2> DEFINE t == <<f>>
  <2>2. t \in Seq(Wire) /\ Range(t) = {f} /\ up' = up \o t
    BY <1>8, <1>12
  <2> HIDE DEF t
  <2>3. \A g \in Range(t) : g.kind \in RunKinds /\ g.run = r
    BY <1>10, <2>2
  <2>4. FramesOf(up', r) = FramesOf(up, r) \cup {f} /\ \A q \in Runs \ {r} : Beside(up', up, q)
    BY <1>1, <2>2, <2>3, SaidAbout
  <2>5. ~Has(up', {"cancel"}, r)
    BY <1>9, <1>11, <1>12, <2>4 DEF Has
  <2> QED BY <1>1, <1>11, <2>1, <2>4, <2>5, QuestionOffers
<1>13. CASE /\ worker.question[r] \in {"open", "answered"} /\ up' = up \o <<ask, f>> /\ worker' = worker
  <2> DEFINE t == <<ask, f>>
  <2>1. t \in Seq(Wire) /\ Range(t) = {ask, f} /\ up' = up \o t
    BY <1>8, <1>13
  <2> HIDE DEF t
  <2>2. \A g \in Range(t) : g.kind \in RunKinds /\ g.run = r
    BY <1>10, <2>1
  <2>3. FramesOf(up', r) = FramesOf(up, r) \cup {ask, f} /\ \A q \in Runs \ {r} : Beside(up', up, q)
    BY <1>1, <2>1, <2>2, SaidAbout
  <2>4. ~Has(up', {"cancel"}, r) /\ Has(up', {"ask"}, r)
    BY <1>9, <1>11, <1>13, <2>3 DEF Has
  <2> QED BY <1>1, <1>11, <1>13, <2>3, <2>4, QuestionOffers
<1>14. CASE up' = up \o <<no>> /\ worker' = worker
  <2> DEFINE t == <<no>>
  <2>1. t \in Seq(Wire) /\ Range(t) = {no} /\ up' = up \o t
    BY <1>8, <1>14
  <2> HIDE DEF t
  <2>2. \A g \in Range(t) : g.kind \in RunKinds /\ g.run = r
    BY <1>10, <2>1
  <2>3. \A q \in Runs \ {r} : Beside(up', up, q)
    BY <1>1, <2>1, <2>2, SaidAbout
  <2>4. Beside(up', up, r)
    BY <1>1, <1>9, <2>1, SaidAbout
  <2> QED BY <1>1, <1>14, <2>3, <2>4, WorkOffers
<1> QED BY <1>7, <1>12, <1>13, <1>14

LEMMA AsksOffer == ASSUME OInv, NEW r \in Runs, Asks(r) \/ QuestionEnds(r) PROVE \A q \in Runs : Offered(q)'
<1>1. /\ Hosted(r) /\ worker \in WorkerStates /\ up \in Seq(Wire) /\ UNCHANGED <<run, approval, tracked>>
  BY DEF Asks, QuestionEnds, WorkerUnchanged, OInv, RInv, Settling, Kinds
<1>2. PICK kind \in {"ask", "cancel"} :
        /\ up' = up \o <<Frame(kind, r, 0, TRUE)>>
        /\ kind = "ask" => /\ worker.question[r] \in {"none", "answered"}
                           /\ worker' = [worker EXCEPT !.question[r] = "open"]
        /\ kind = "cancel" => worker' = [worker EXCEPT !.question[r] = "done"]
  <2>1. CASE Asks(r)
    BY <2>1 DEF Asks, Says
  <2>2. CASE QuestionEnds(r)
    BY <2>2 DEF QuestionEnds, Says
  <2> QED BY <2>1, <2>2
<1> DEFINE f == Frame(kind, r, 0, TRUE)
           t == <<f>>
<1>3. f \in Wire /\ f.kind = kind /\ f.run = r /\ kind \in RunKinds
  BY FramesAreWire DEF RunKinds, Frame
<1> HIDE DEF f
<1>4. t \in Seq(Wire) /\ Range(t) = {f}
  BY <1>3, FewFrames
<1>5. up' = up \o t
  BY <1>2 DEF f
<1> HIDE DEF t
<1>6. FramesOf(up', r) = FramesOf(up, r) \cup {f} /\ \A q \in Runs \ {r} : Beside(up', up, q)
  BY <1>1, <1>3, <1>4, <1>5, SaidAbout
<1>7. /\ worker'.runs = worker.runs /\ worker.runs[r] # "none"
      /\ \A q \in Runs \ {r} : worker'.question[q] = worker.question[q]
      /\ kind = "ask" => worker'.question[r] = "open" /\ ~Has(up, {"cancel"}, r)
      /\ kind = "cancel" => worker'.question[r] = "done"
  <2>1. worker.runs[r] # "none" /\ (worker.question[r] # "done" => ~Has(up, {"cancel"}, r))
    BY <1>1 DEF Hosted, OInv, Offering, Offered
  <2> QED BY <1>1, <1>2, <2>1 DEF WorkerStates
<1>8. /\ Has(up', {"cancel"}, r) => worker'.question[r] = "done"
      /\ worker'.question[r] # "open" \/ Has(up', {"ask"}, r)
  BY <1>3, <1>6, <1>7 DEF Has
<1> QED BY <1>1, <1>6, <1>7, <1>8, QuestionOffers

LEMMA RunEndsOffers == ASSUME OInv, NEW r \in Runs, RunEnds(r) PROVE \A q \in Runs : Offered(q)'
<1> DEFINE silent == worker.runs[r] = "aborted" \/ \E t \in worker.aborting : t.run = r
           first == IF worker.question[r] \in {"open", "answered"} THEN <<Frame("cancel", r, 0, TRUE)>> ELSE << >>
<1>1. /\ Hosted(r) /\ worker \in WorkerStates /\ up \in Seq(Wire) /\ UNCHANGED <<run, approval, tracked>>
      /\ worker' = [worker EXCEPT !.runs[r] = "over", !.question[r] = "done"]
  BY DEF RunEnds, WorkerUnchanged, OInv, RInv, Settling, Kinds
<1>2. PICK how \in Ends : up' = up \o ((first \o (IF silent THEN << >> ELSE <<Frame(how, r, 0, TRUE)>>))
                                         \o <<Frame("start", r, 0, how = "completed")>>)
  BY DEF RunEnds, Says, Ends
<1> DEFINE second == IF silent THEN << >> ELSE <<Frame(how, r, 0, TRUE)>>
           s == Frame("start", r, 0, how = "completed")
           t == (first \o second) \o <<s>>
<1>3. s \in Wire /\ s.kind = "start" /\ s.run = r
  <2> DEFINE ok == how = "completed"
  <2>1. ok \in BOOLEAN
    OBVIOUS
  <2> HIDE DEF ok
  <2>2. Frame("start", r, 0, ok) \in Wire
    BY <2>1, FramesAreWire DEF RunKinds
  <2> QED BY <2>2 DEF Frame, ok
<1>4. /\ first = << >> \/ first = <<Frame("cancel", r, 0, TRUE)>>
      /\ second = << >> \/ second = <<Frame(how, r, 0, TRUE)>>
      /\ t = (first \o second) \o <<s>> /\ up' = up \o t
  BY <1>2
<1> HIDE DEF silent, first, second, s, t
<1>5. Ending(t, r, second)
  BY <1>3, <1>4, LastWords, Zenon
<1>6. t \in Seq(Wire) /\ \A f \in Range(t) : f.kind \in RunKinds /\ f.run = r
  BY <1>5 DEF Ending, RunKinds, Ends
<1>7. \A q \in Runs \ {r} : Beside(up', up, q)
  BY <1>1, <1>4, <1>6, SaidAbout
<1>8. /\ worker'.runs[r] = "over" /\ worker'.question[r] = "done"
      /\ \A q \in Runs \ {r} : worker'.question[q] = worker.question[q] /\ worker'.runs[q] = worker.runs[q]
  <2> DEFINE now == [worker.runs EXCEPT ![r] = "over"]
             asked == [worker.question EXCEPT ![r] = "done"]
  <2>1. /\ now[r] = "over" /\ asked[r] = "done"
        /\ \A q \in Runs \ {r} : now[q] = worker.runs[q] /\ asked[q] = worker.question[q]
    BY <1>1 DEF WorkerStates
  <2>2. worker' = [worker EXCEPT !.runs = now, !.question = asked]
    BY <1>1
  <2> HIDE DEF now, asked
  <2>3. worker'.runs = now /\ worker'.question = asked
    BY <1>1, <2>2 DEF WorkerStates
  <2> QED BY <2>1, <2>3
<1> QED BY <1>1, <1>7, <1>8, QuestionOffers

(* What the worker may put into its pipe: the response to an answer has the   *)
(* number of the answer.                                                      *)
Said(f) == f.kind = "reply" => \E g \in Range(down) : g.kind = "reply" /\ g.id = f.id

LEMMA PutUp ==
  ASSUME RInv, GjcStep
  PROVE  \A f \in Range(up') : f \in Range(up) \/ Said(f)
<1>1. down \in Seq(Wire) /\ up \in Seq(Wire) /\ worker \in WorkerStates
  BY DEF RInv, Settling, Kinds
<1>2. ASSUME up' = up \/ up' = << >> \/ (up # << >> /\ up' = Tail(up))
      PROVE  Range(up') \subseteq Range(up)
  BY <1>1, <1>2, TakenFrame, NoFrames
<1>3. ASSUME NEW t \in Seq(Wire), up' = up \o t, \A f \in Range(t) : Said(f)
      PROVE  \A f \in Range(up') : f \in Range(up) \/ Said(f)
  BY <1>1, <1>3, MoreFrames
<1>4. ASSUME NEW f \in Wire, Said(f), up' = up \o <<f>>
      PROVE  \A g \in Range(up') : g \in Range(up) \/ Said(g)
  <2> DEFINE t == <<f>>
  <2>1. t \in Seq(Wire) /\ Range(t) = {f} /\ up' = up \o t
    BY <1>4, FewFrames
  <2> HIDE DEF t
  <2> QED BY <1>3, <1>4, <2>1
<1>5. CASE \/ \E r \in Runs : Spawns(r) \/ Aborts(r) \/ Answers(r)
           \/ Shutdown \/ WorkerExits \/ WorkerBreaks \/ StartTimesOut \/ ShutdownTimesOut
           \/ TerminationEnds \/ TerminationFails \/ Hearing
           \/ \E t \in tracked : AnswerTimesOut(t)
  <2>1. up' = up \/ up' = << >> \/ (up # << >> /\ up' = Tail(up))
    BY <1>5 DEF Spawns, SpawnIsRefused, SpawnWaits, SpawnSends, SpawnStarts, StartsWorker, Aborts, Answers,
                Shutdown, WorkerExits, WorkerBreaks, StartTimesOut, ShutdownTimesOut, Fails, TerminationEnds,
                TerminationFails, Hearing, HearsReady, HearsOfTheEnd, HearsOutcome, HearsAnswer, HearsEvent,
                AnswerTimesOut, Hears
  <2> QED BY <1>2, <2>1
<1>6. CASE TakesInitialize \/ RuntimeLoads \/ Drained \/ TakesShutdown \/ TakesAbort \/ TakesStart
  <2>1. up' = up \/ \E kind \in {"initialize", "shutdown"}, ok \in BOOLEAN : up' = up \o <<ToAll(kind, ok)>>
    BY <1>6 DEF TakesInitialize, RuntimeLoads, Drained, TakesShutdown, TakesAbort, TakesStart, Says
  <2>2. ASSUME NEW kind \in {"initialize", "shutdown"}, NEW ok \in BOOLEAN, NEW f, f = ToAll(kind, ok),
               up' = up \o <<f>>
        PROVE  \A g \in Range(up') : g \in Range(up) \/ Said(g)
    <3>1. f \in Wire /\ f.kind # "reply"
      BY <2>2, FramesAreWire DEF ToAll
    <3> QED BY <1>4, <2>2, <3>1 DEF Said
  <2> QED BY <1>2, <2>1, <2>2
<1>7. CASE \/ \E r \in Runs : Asks(r) \/ QuestionEnds(r)
           \/ \E t \in worker.aborting : AbortAnswered(t)
  <2>1. PICK kind \in {"ask", "cancel", "abort"}, r \in Runs, id \in Requests \cup {0}, ok \in BOOLEAN :
          up' = up \o <<Frame(kind, r, id, ok)>> /\ (kind = "abort" => id \in Requests)
    <3>1. \A t \in worker.aborting : t.run \in Runs /\ t.id \in Requests
      BY <1>1 DEF WorkerStates, Request
    <3> QED BY <1>7, <3>1 DEF Asks, QuestionEnds, AbortAnswered, Says
  <2> DEFINE f == Frame(kind, r, id, ok)
  <2>2. f \in Wire /\ f.kind = kind
    BY <2>1, FramesAreWire DEF RunKinds, Frame
  <2>3. up' = up \o <<f>>
    BY <2>1
  <2> HIDE DEF f
  <2>4. Said(f)
    BY <2>2 DEF Said
  <2> QED BY <1>4, <2>2, <2>3, <2>4
<1>8. CASE \E r \in Runs : RunEnds(r)
  <2> PICK r \in Runs : RunEnds(r)
    BY <1>8
  <2> DEFINE silent == worker.runs[r] = "aborted" \/ \E t \in worker.aborting : t.run = r
             first == IF worker.question[r] \in {"open", "answered"} THEN <<Frame("cancel", r, 0, TRUE)>> ELSE << >>
  <2>1. PICK how \in Ends : up' = up \o ((first \o (IF silent THEN << >> ELSE <<Frame(how, r, 0, TRUE)>>))
                                           \o <<Frame("start", r, 0, how = "completed")>>)
    BY DEF RunEnds, Says, Ends
  <2> DEFINE second == IF silent THEN << >> ELSE <<Frame(how, r, 0, TRUE)>>
             s == Frame("start", r, 0, how = "completed")
             t == (first \o second) \o <<s>>
  <2>2. s \in Wire /\ s.kind = "start" /\ s.run = r
    <3> DEFINE ok == how = "completed"
    <3>1. ok \in BOOLEAN
      OBVIOUS
    <3> HIDE DEF ok
    <3>2. Frame("start", r, 0, ok) \in Wire
      BY <3>1, FramesAreWire DEF RunKinds
    <3> QED BY <3>2 DEF Frame, ok
  <2>3. /\ first = << >> \/ first = <<Frame("cancel", r, 0, TRUE)>>
        /\ second = << >> \/ second = <<Frame(how, r, 0, TRUE)>>
        /\ t = (first \o second) \o <<s>> /\ up' = up \o t
    BY <2>1
  <2> HIDE DEF silent, first, second, s, t
  <2>4. Ending(t, r, second)
    BY <2>2, <2>3, LastWords, Zenon
  <2>5. t \in Seq(Wire) /\ \A f \in Range(t) : Said(f)
    BY <2>4 DEF Ending, Ends, Said
  <2> QED BY <1>3, <2>3, <2>5
<1>9. CASE TakesInVain \/ TakesReply
  <2> DEFINE f == Head(down)
             no == [f EXCEPT !.ok = FALSE]
             ask == Frame("ask", f.run, 0, TRUE)
  <2>1. down # << >> /\ f.kind \in {"start", "abort", "reply"}
    BY <1>9 DEF TakesInVain, TakesReply, Takes
  <2>2. f.kind \in RunKinds
    BY <2>1 DEF RunKinds
  <2>3. /\ f \in Wire /\ f.run \in Runs /\ f.id \in Requests \cup {0}
        /\ (f.kind \in {"abort", "reply"} => f.id \in Requests) /\ f \in Range(down)
    BY <1>1, <2>1, <2>2, NextFrame, TakenFrame
  <2>4. no \in Wire /\ no.kind = f.kind /\ no.id = f.id
    <3>1. no = Frame(f.kind, f.run, f.id, FALSE)
      <4> HIDE DEF f
      <4> QED BY <2>2, <2>3, RefusedFrame
    <3>2. Frame(f.kind, f.run, f.id, FALSE) \in Wire
      BY <2>2, <2>3, FramesAreWire
    <3> HIDE DEF no, f
    <3> QED BY <3>1, <3>2 DEF Frame
  <2>5. ask \in Wire /\ ask.kind = "ask"
    BY <2>3, FramesAreWire DEF RunKinds, Frame
  <2>6. up' = up \o <<no>> \/ up' = up \o <<f>> \/ up' = up \o <<ask, f>>
    BY <1>9 DEF TakesInVain, TakesReply, Says
  <2> HIDE DEF f, no, ask
  <2>7. Said(f) /\ Said(no) /\ Said(ask)
    BY <2>3, <2>4, <2>5 DEF Said
  <2>8. CASE up' = up \o <<ask, f>>
    <3> DEFINE t == <<ask, f>>
    <3>1. t \in Seq(Wire) /\ Range(t) = {ask, f} /\ up' = up \o t
      BY <2>3, <2>5, <2>8, FewFrames
    <3> HIDE DEF t
    <3> QED BY <1>3, <2>7, <3>1
  <2> QED BY <1>4, <2>3, <2>4, <2>6, <2>7, <2>8
<1> QED BY <1>5, <1>6, <1>7, <1>8, <1>9 DEF GjcStep

LEMMA StepFresh == ASSUME RInv, Fresh, GjcStep PROVE Fresh'
<1>1. requests \in Nat
  BY DEF RInv, Settling, Kinds
<1>2. requests' = requests \/ requests' = requests + 1
  BY DEF GjcStep, Hearing, Spawns, Aborts, Answers, Shutdown, WorkerExits, WorkerBreaks, StartTimesOut,
         ShutdownTimesOut, Fails, TerminationEnds, TerminationFails, HearsReady, HearsOfTheEnd, HearsOutcome,
         HearsAnswer, HearsEvent, AnswerTimesOut, TakesInitialize, RuntimeLoads, TakesInVain, TakesStart,
         TakesAbort, TakesReply, TakesShutdown, Drained, Asks, QuestionEnds, RunEnds, AbortAnswered,
         WorkerUnchanged
<1>3. ASSUME NEW f, f \in Range(down) \cup Range(up), f.kind = "reply" PROVE f.id \in 1..requests'
  BY <1>1, <1>2, <1>3 DEF Fresh
<1>4. ASSUME NEW f \in Range(down'), f.kind = "reply" PROVE f.id \in 1..requests'
  <2>1. f \in Range(down) \/ Put(f)
    BY PutDown
  <2>2. CASE Put(f)
    BY <1>4, <2>2, SupervisorAssumption DEF Put, Requests
  <2> QED BY <1>3, <1>4, <2>1, <2>2
<1>5. ASSUME NEW f \in Range(up'), f.kind = "reply" PROVE f.id \in 1..requests'
  <2>1. f \in Range(up) \/ Said(f)
    BY PutUp
  <2> QED BY <1>3, <1>5, <2>1 DEF Said
<1> QED BY <1>4, <1>5 DEF Fresh

LEMMA StepOffers == ASSUME OInv, GjcStep PROVE \A q \in Runs : Offered(q)'
<1>1. CASE \/ \E r \in Runs : Spawns(r) \/ Aborts(r)
           \/ Shutdown \/ WorkerExits \/ WorkerBreaks \/ StartTimesOut \/ ShutdownTimesOut
           \/ TerminationEnds \/ TerminationFails \/ HearsReady \/ HearsOfTheEnd \/ HearsOutcome
  BY <1>1, CallsOffer
<1>2. CASE (\E r \in Runs : Answers(r)) \/ HearsAnswer \/ HearsEvent \/ \E t \in tracked : AnswerTimesOut(t)
  BY <1>2, AnswersOffer, HearsAnswerOffers, HearsEventOffers, TimeoutOffers
<1>3. CASE TakesInitialize \/ RuntimeLoads \/ Drained \/ TakesShutdown \/ TakesAbort \/ TakesStart
  BY <1>3, TakesOffer
<1>4. CASE \/ TakesInVain \/ TakesReply
           \/ \E r \in Runs : Asks(r) \/ QuestionEnds(r) \/ RunEnds(r)
           \/ \E t \in worker.aborting : AbortAnswered(t)
  BY <1>4, InVainOffers, TakesReplyOffers, AsksOffer, RunEndsOffers, AbortOffers
<1> QED BY <1>1, <1>2, <1>3, <1>4 DEF GjcStep, Hearing

LEMMA StepOInv == OInv /\ [GjcStep]_gvars => OInv'
<1> SUFFICES ASSUME OInv, [GjcStep]_gvars PROVE OInv'
  OBVIOUS
<1>1. RInv'
  BY StepRInv DEF OInv
<1>2. CASE GjcStep
  BY <1>1, <1>2, StepFresh, StepOffers DEF OInv, Offering
<1>3. CASE UNCHANGED gvars
  <2>1. Fresh'
    BY <1>3 DEF gvars, OInv, Offering, Fresh
  <2>2. ASSUME NEW r \in Runs PROVE Offered(r)'
    BY <1>3 DEF gvars, OInv, Offering, Offered, Awaits, Registered, ReplyTo, Replied, Has
  <2> QED BY <1>1, <2>1, <2>2 DEF OInv, Offering
<1> QED BY <1>2, <1>3

(* The app's mirror of the questions of gjc (restoreApproval and the handling *)
(* of events): a question that gjc waits for is offered, or its answer is     *)
(* under way and can still fail, whatever is answered late, twice or not at   *)
(* all; and nothing is offered of a run that has no worker to hear it.        *)
THEOREM OpenQuestionsAreOffered == GjcSpec => []QuestionIsOffered
<1>1. OInv => QuestionIsOffered
  <2> SUFFICES ASSUME OInv, NEW r \in Runs
               PROVE  /\ /\ Registered(r) /\ worker.runs[r] = "running" /\ worker.question[r] = "open"
                         /\ \A i \in DOMAIN up : ~(up[i].kind = "ask" /\ up[i].run = r)
                         => approval[r].state = "open" \/ \E t \in tracked : t.kind = "reply" /\ t.id = approval[r].id
                      /\ approval[r].state # "none" => Registered(r) /\ run[r].sent
    BY DEF QuestionIsOffered
  <2>1. Mirrored(r) /\ Offered(r)
    BY DEF OInv, RInv, Settling, RunOk, Offering
  <2>2. ASSUME \A i \in DOMAIN up : ~(up[i].kind = "ask" /\ up[i].run = r) PROVE ~Has(up, {"ask"}, r)
    BY <2>2 DEF Has, FramesOf, Range
  <2>3. ReplyTo(r).kind = "reply" /\ ReplyTo(r).id = approval[r].id
    BY DEF ReplyTo
  <2> QED BY <2>1, <2>2, <2>3 DEF Mirrored, Offered, Awaits
<1> QED BY <1>1, InitOInv, StepOInv, PTL DEF GjcSpec
=============================================================================
