--------------------------- MODULE ChatRun_proofs ---------------------------
(***************************************************************************)
(* For every number of tabs, runs, events and sockets and every size of the *)
(* buffer: a run is completed once, a processing run is not replaced, one   *)
(* runtime works on a session unless its run was aborted, and a tab that    *)
(* is subscribed to the first run has every event of it.                    *)
(***************************************************************************)
EXTENDS ChatRun, TLAPS, WellFoundedInduction

-----------------------------------------------------------------------------
(* The maximum of a bounded set of naturals is one of its members.            *)
LEMMA BoundedMax ==
  ASSUME NEW b \in Nat, NEW S \in SUBSET (0..b), S # {}
  PROVE  Max(S) \in S
<1> DEFINE T == {b - x : x \in S}
<1>0. \A x \in S : x \in Nat /\ b - x \in Nat
  OBVIOUS
<1>1. T \subseteq Nat /\ T # {}
  BY <1>0
<1>2. PICK m \in T : \A y \in T : ~(<<y, m>> \in OpToRel(<, Nat))
  <2> HIDE DEF T
  <2> QED BY <1>1, NatLessThanWellFounded, WFMin
<1>3. \A y \in T : ~(y < m)
  BY <1>1, <1>2 DEF OpToRel
<1>4. PICK x \in S : m = b - x
  BY <1>2
<1>5. \A y \in S : ~(b - y < b - x)
  BY <1>3, <1>4
<1>6. \A y \in S : x >= y
  BY <1>0, <1>5
<1> QED
  BY <1>6 DEF Max

(* A tab that shows frames of a run stays a tab.                              *)
LEMMA ShownType ==
  ASSUME NEW t \in TabRecord, NEW r \in 0..MaxRuns, NEW seqs \in SUBSET (1..MaxEvents),
         r = 0 => seqs = {}
  PROVE  /\ Shown(t, r, seqs) \in TabRecord
         /\ Shown(t, r, seqs).phase = t.phase
         /\ Shown(t, r, seqs).connects = t.connects
<1>1. MaxEvents \in Nat
  BY ConstantsAssumption
<1> DEFINE S == {t.lastSeq} \cup seqs
<1>2. S \in SUBSET (0..MaxEvents) /\ S # {}
  <2>1. t.lastSeq \in 0..MaxEvents
    BY DEF TabRecord
  <2>2. 1..MaxEvents \subseteq 0..MaxEvents
    BY <1>1
  <2> QED BY <2>1, <2>2
<1>3. Max(S) \in 0..MaxEvents
  <2> HIDE DEF S
  <2> QED BY <1>1, <1>2, BoundedMax
<1>4. {r} \X seqs \subseteq Events
  <2>1. seqs = {} \/ r \in Runs
    BY ConstantsAssumption DEF Runs
  <2> QED BY <2>1 DEF Events
<1> HIDE DEF S
<1>5. Shown(t, r, seqs) = [t EXCEPT !.got = @ \cup ({r} \X seqs), !.lastSeq = Max(S)]
  BY DEF Shown, S
<1> QED
  BY <1>3, <1>4, <1>5 DEF TabRecord

-----------------------------------------------------------------------------
(* The inductive invariant: a run that was never started has no runtime and   *)
(* no complete, and a tab that is up has a socket.                            *)
NewRunsAreUntouched ==
  \A r \in Runs : run[r].status = "new" <=> runtime[r] = "none"

UpTabsHaveSockets == \A c \in Tabs : tab[c].phase # "down" => tab[c].connects >= 1

IInv == /\ TypeOK /\ ExactlyOneComplete /\ RunningIsCurrent
        /\ NewRunsAreUntouched /\ UpTabsHaveSockets

(* What the registry's step may do to runs, timers and tabs.                  *)
RegistryStep ==
  /\ run' \in [Runs -> RunRecord]
  /\ timers' \subseteq {r \in Runs : run'[r].status = "completed"}
  /\ tab' \in [Tabs -> TabRecord]
  /\ \A c \in Tabs : tab'[c].phase = tab[c].phase /\ tab'[c].connects = tab[c].connects
  /\ \A r \in Runs : /\ run'[r].completes = 1 <=> run'[r].status = "completed"
                     /\ run'[r].completes <= 1
                     /\ \/ run'[r].status = run[r].status
                        \/ run[r].status = "running" /\ run'[r].status = "completed"

LEMMA UnchangedStep ==
  ASSUME IInv, UNCHANGED <<run, timers, tab>> PROVE RegistryStep
<1>1. run' = run /\ timers' = timers /\ tab' = tab
  OBVIOUS
<1>2. /\ run' \in [Runs -> RunRecord] /\ tab' \in [Tabs -> TabRecord]
      /\ timers' \subseteq {r \in Runs : run'[r].status = "completed"}
  BY <1>1 DEF IInv, TypeOK
<1>3. \A c \in Tabs : tab'[c].phase = tab[c].phase /\ tab'[c].connects = tab[c].connects
  BY <1>1
<1>4. \A r \in Runs : /\ run[r].completes = 1 <=> run[r].status = "completed"
                      /\ run[r].completes <= 1
  BY DEF IInv, ExactlyOneComplete
<1>5. \A r \in Runs : /\ run'[r].completes = 1 <=> run'[r].status = "completed"
                      /\ run'[r].completes <= 1
                      /\ run'[r].status = run[r].status
  BY <1>1, <1>4
<1> QED BY <1>2, <1>3, <1>5 DEF RegistryStep

LEMMA RecordedStep ==
  ASSUME IInv, NEW r \in Runs, NEW complete \in BOOLEAN,
         NEW by \in {None, "runtime", "settled", "abort"},
         run[r].status # "new", Recorded(r, complete, by)
  PROVE  RegistryStep /\ (complete => run'[r].status = "completed")
<1> USE DEF IInv
<1>1. CASE complete /\ run[r].status = "completed"
  BY <1>1, UnchangedStep DEF Recorded
<1>2. CASE ~(complete /\ run[r].status = "completed")
  <2> DEFINE q == run[r].lastSeq + 1
  <2>1. q \in 1..MaxEvents
    BY <1>2 DEF Recorded, TypeOK, RunRecord
  <2>2. run' = [run EXCEPT ![r].lastSeq = q,
                           ![r].completes = IF complete THEN @ + 1 ELSE @,
                           ![r].by = IF complete THEN by ELSE @,
                           ![r].status = IF complete THEN "completed" ELSE @]
    BY <1>2 DEF Recorded
  <2>3. timers' = IF complete THEN timers \cup {r} ELSE timers
    BY <1>2 DEF Recorded
  <2>4. run' \in [Runs -> RunRecord]
    <3>1. run[r] \in RunRecord /\ q \in 0..MaxEvents
      BY <2>1 DEF TypeOK
    <3>2. CASE complete
      <4> HIDE DEF q
      <4>1. run' = [run EXCEPT ![r] = [run[r] EXCEPT !.lastSeq = q, !.completes = @ + 1,
                                                     !.by = by, !.status = "completed"]]
        BY <2>2, <3>2
      <4>2. run[r].completes + 1 \in Nat
        BY <3>1 DEF RunRecord
      <4>3. [run[r] EXCEPT !.lastSeq = q, !.completes = @ + 1,
                           !.by = by, !.status = "completed"] \in RunRecord
        BY <3>1, <4>2 DEF RunRecord
      <4> QED BY <4>1, <4>3 DEF TypeOK
    <3>3. CASE ~complete
      <4> HIDE DEF q
      <4>1. run' = [run EXCEPT ![r] = [run[r] EXCEPT !.lastSeq = q]]
        BY <2>2, <3>3
      <4> QED BY <3>1, <4>1 DEF TypeOK, RunRecord
    <3> QED BY <3>2, <3>3
  <2>5a. \A x \in Runs \ {r} : run'[x] = run[x]
    BY <2>2 DEF TypeOK
  <2>5. /\ run'[r].status = IF complete THEN "completed" ELSE run[r].status
        /\ run'[r].completes = IF complete THEN run[r].completes + 1 ELSE run[r].completes
    BY <2>2 DEF TypeOK, RunRecord
  <2>6. complete => run[r].status = "running" /\ run[r].completes = 0
    <3>1. run[r].status \in {"new", "running", "completed"} /\ run[r].completes \in Nat
      BY DEF TypeOK, RunRecord
    <3>2. /\ run[r].completes = 1 <=> run[r].status = "completed"
          /\ run[r].completes <= 1
      BY DEF ExactlyOneComplete
    <3>3. complete => run[r].status # "completed"
      BY <1>2
    <3> QED BY <3>1, <3>2, <3>3
  <2>7. /\ tab' \in [Tabs -> TabRecord]
        /\ \A c \in Tabs : tab'[c].phase = tab[c].phase /\ tab'[c].connects = tab[c].connects
    <3>1. CASE run[r].socket \in open /\ Alive(run[r].socket)
      <4> DEFINE c == run[r].socket[1]
      <4>1. c \in Tabs
        BY <3>1 DEF Alive, Sockets
      <4>2. tab' = [tab EXCEPT ![c] = Shown(@, r, {q})]
        BY <1>2, <3>1 DEF Recorded
      <4>3. /\ Shown(tab[c], r, {q}) \in TabRecord
            /\ Shown(tab[c], r, {q}).phase = tab[c].phase
            /\ Shown(tab[c], r, {q}).connects = tab[c].connects
        <5> HIDE DEF q, c
        <5>1. r \in 0..MaxRuns /\ r # 0
          BY ConstantsAssumption DEF Runs
        <5> QED BY <4>1, <2>1, <5>1, ShownType DEF TypeOK
      <4> HIDE DEF c, q
      <4> QED BY <4>1, <4>2, <4>3 DEF TypeOK
    <3>2. CASE ~(run[r].socket \in open /\ Alive(run[r].socket))
      BY <1>2, <3>2 DEF Recorded, TypeOK
    <3> QED BY <3>1, <3>2
  <2> HIDE DEF q
  <2>8. timers' \subseteq {x \in Runs : run'[x].status = "completed"}
    BY <2>3, <2>5, <2>5a DEF TypeOK
  <2>9. \A x \in Runs : /\ run'[x].completes = 1 <=> run'[x].status = "completed"
                        /\ run'[x].completes <= 1
                        /\ \/ run'[x].status = run[x].status
                           \/ run[x].status = "running" /\ run'[x].status = "completed"
    <3>1. CASE complete
      <4>1. run[r].status = "running" /\ run[r].completes = 0
        BY <2>6, <3>1
      <4>2. run'[r].status = "completed" /\ run'[r].completes = run[r].completes + 1
        BY <2>5, <3>1
      <4> QED BY <2>5a, <4>1, <4>2 DEF ExactlyOneComplete
    <3>2. CASE ~complete
      <4>1. run'[r].status = run[r].status /\ run'[r].completes = run[r].completes
        BY <2>5, <3>2
      <4> QED BY <2>5a, <4>1 DEF ExactlyOneComplete
    <3> QED BY <3>1, <3>2
  <2> QED BY <2>4, <2>5, <2>7, <2>8, <2>9 DEF RegistryStep
<1> QED BY <1>1, <1>2

LEMMA CompleteRunStep ==
  ASSUME IInv, NEW by \in {None, "runtime", "settled", "abort"}, CompleteRun(by)
  PROVE  RegistryStep
<1>1. CASE current # 0 /\ run[current].status = "running"
  <2>1. current \in Runs
    BY <1>1 DEF IInv, TypeOK, Runs
  <2> QED BY <1>1, <2>1, RecordedStep DEF CompleteRun
<1>2. CASE ~(current # 0 /\ run[current].status = "running")
  BY <1>2, UnchangedStep DEF CompleteRun
<1> QED BY <1>1, <1>2

LEMMA CompleteRunIfCurrentStep ==
  ASSUME IInv, NEW r \in Runs, NEW by \in {None, "runtime", "settled", "abort"},
         run[r].status # "new", CompleteRunIfCurrent(r, by)
  PROVE  RegistryStep /\ run'[r].status = "completed"
<1>1. CASE current = r /\ run[r].status = "running"
  BY <1>1, RecordedStep DEF CompleteRunIfCurrent
<1>2. CASE ~(current = r /\ run[r].status = "running")
  <2>1. run[r].status = "completed"
    BY <1>2 DEF IInv, RunningIsCurrent, TypeOK, RunRecord
  <2> QED BY <1>2, <2>1, UnchangedStep DEF CompleteRunIfCurrent
<1> QED BY <1>1, <1>2

(* A registry step that leaves the session's entry alone keeps the invariant, *)
(* when a runtime that settles has its run completed.                         *)
LEMMA RegistryStepKeeps ==
  ASSUME IInv, RegistryStep, current' = current,
         runtime' \in [Runs -> {"none", "working", "told", "settled"}],
         \A r \in Runs : runtime'[r] = "none" <=> runtime[r] = "none",
         \A r \in Runs : runtime'[r] = "settled" =>
            runtime[r] = "settled" \/ run'[r].status = "completed",
         UNCHANGED <<sends, asked, persisted, open>>, aborts' \subseteq aborts
  PROVE  IInv'
<1> USE DEF IInv, RegistryStep
<1>1. TypeOK'
  BY DEF TypeOK
<1>2. ExactlyOneComplete'
  <2> SUFFICES ASSUME NEW r \in Runs, runtime'[r] = "settled"
               PROVE  run'[r].status = "completed"
    BY DEF ExactlyOneComplete
  <2> QED BY DEF ExactlyOneComplete
<1>3. RunningIsCurrent'
  BY DEF RunningIsCurrent
<1>4. NewRunsAreUntouched'
  BY DEF NewRunsAreUntouched, TypeOK, RunRecord
<1>5. UpTabsHaveSockets'
  BY DEF UpTabsHaveSockets
<1> QED BY <1>1, <1>2, <1>3, <1>4, <1>5

-----------------------------------------------------------------------------
LEMMA InitInv == Init => IInv
<1> SUFFICES ASSUME Init PROVE IInv
  OBVIOUS
<1> USE ConstantsAssumption
<1>1. TypeOK
  BY DEF Init, TypeOK, RunRecord, TabRecord
<1>2. ExactlyOneComplete /\ RunningIsCurrent /\ NewRunsAreUntouched
  BY DEF Init, ExactlyOneComplete, RunningIsCurrent, NewRunsAreUntouched
<1>3. UpTabsHaveSockets
  BY DEF Init, UpTabsHaveSockets
<1> QED BY <1>1, <1>2, <1>3 DEF IInv

LEMMA RuntimeKeeps ==
  ASSUME IInv, NEW r \in Runs,
         RuntimeEmits(r) \/ RuntimeCompletes(r) \/ RuntimeSettles(r) \/ AbortReturns(r)
  PROVE  IInv'
<1>1. CASE RuntimeEmits(r)
  <2>1. run[r].status # "new"
    BY <1>1 DEF RuntimeEmits, IInv, NewRunsAreUntouched
  <2>2. RegistryStep
    BY <1>1, <2>1, RecordedStep DEF RuntimeEmits
  <2> QED BY <1>1, <2>2, RegistryStepKeeps DEF RuntimeEmits, IInv, TypeOK
<1>2. CASE RuntimeCompletes(r)
  <2>1. run[r].status # "new"
    BY <1>2 DEF RuntimeCompletes, IInv, NewRunsAreUntouched
  <2>2. RegistryStep
    BY <1>2, <2>1, RecordedStep DEF RuntimeCompletes
  <2> QED BY <1>2, <2>2, RegistryStepKeeps DEF RuntimeCompletes, IInv, TypeOK
<1>3. CASE RuntimeSettles(r)
  <2>1. run[r].status # "new"
    BY <1>3 DEF RuntimeSettles, IInv, NewRunsAreUntouched
  <2>2. RegistryStep /\ run'[r].status = "completed"
    BY <1>3, <2>1, CompleteRunIfCurrentStep DEF RuntimeSettles
  <2> QED BY <1>3, <2>2, RegistryStepKeeps DEF RuntimeSettles, IInv, TypeOK
<1>4. CASE AbortReturns(r)
  <2>1. RegistryStep
    BY <1>4, CompleteRunStep, UnchangedStep DEF AbortReturns
  <2> QED BY <1>4, <2>1, RegistryStepKeeps DEF AbortReturns, IInv, TypeOK
<1> QED BY <1>1, <1>2, <1>3, <1>4

LEMMA EvictionKeeps ==
  ASSUME IInv, NEW r \in Runs, Persists(r) \/ Evicts(r)
  PROVE  IInv'
<1> USE DEF IInv, server, registry
<1>1. CASE Persists(r)
  <2>1. persisted' \in [Runs -> 0..MaxEvents]
    <3>1. persisted[r] \in 0..MaxEvents /\ run[r].lastSeq \in 0..MaxEvents
      BY DEF TypeOK, RunRecord
    <3>2. persisted[r] < run[r].lastSeq /\ MaxEvents \in Nat
      BY <1>1, ConstantsAssumption DEF Persists
    <3>3. persisted[r] + 1 \in 0..MaxEvents
      BY <3>1, <3>2
    <3> QED BY <1>1, <3>3 DEF Persists, TypeOK
  <2>2. UNCHANGED <<server, open, tab>>
    BY <1>1 DEF Persists
  <2>3. TypeOK'
    BY <2>1, <2>2 DEF TypeOK
  <2> QED BY <2>2, <2>3 DEF ExactlyOneComplete, RunningIsCurrent,
             NewRunsAreUntouched, UpTabsHaveSockets
<1>2. CASE Evicts(r)
  <2>1. /\ timers' \subseteq timers
        /\ current' = IF current # 0 /\ run[current].status = "completed" THEN 0 ELSE current
        /\ UNCHANGED <<run, runtime, sends, aborts, asked, persisted, open, tab>>
    BY <1>2 DEF Evicts
  <2>2. TypeOK'
    BY <2>1, ConstantsAssumption DEF TypeOK
  <2>3. RunningIsCurrent'
    BY <2>1 DEF RunningIsCurrent
  <2> QED BY <2>1, <2>2, <2>3 DEF ExactlyOneComplete, NewRunsAreUntouched, UpTabsHaveSockets
<1> QED BY <1>1, <1>2

LEMMA SocketType ==
  ASSUME IInv, NEW c \in Tabs, tab[c].phase # "down" PROVE Socket(c) \in Sockets
BY DEF IInv, TypeOK, TabRecord, UpTabsHaveSockets, Socket, Sockets

LEMMA SendKeeps ==
  ASSUME IInv, \/ \E c \in Tabs : SendArrives(c) \/ AbortArrives(c)
               \/ \E s \in Sockets : SendRefused(s) \/ SendProceeds(s)
  PROVE  IInv'
<1> USE DEF IInv, registry
<1>1. ASSUME NEW c \in Tabs, SendArrives(c) PROVE IInv'
  <2>1. Socket(c) \in Sockets
    BY <1>1, SocketType DEF SendArrives
  <2> QED BY <1>1, <2>1 DEF SendArrives, TypeOK, ExactlyOneComplete, RunningIsCurrent,
             NewRunsAreUntouched, UpTabsHaveSockets
<1>2. ASSUME NEW c \in Tabs, AbortArrives(c) PROVE IInv'
  <2>1. current \in Runs
    BY <1>2 DEF AbortArrives, TypeOK, Runs
  <2> QED BY <1>2, <2>1 DEF AbortArrives, TypeOK, ExactlyOneComplete, RunningIsCurrent,
             NewRunsAreUntouched, UpTabsHaveSockets
<1>3. ASSUME NEW s \in Sockets, SendRefused(s) PROVE IInv'
  BY <1>3 DEF SendRefused, TypeOK, ExactlyOneComplete, RunningIsCurrent,
     NewRunsAreUntouched, UpTabsHaveSockets
<1>4. ASSUME NEW s \in Sockets, SendProceeds(s) PROVE IInv'
  <2>1. CASE MayStart
    <3>1. PICK r \in Runs : /\ run[r].status = "new"
                            /\ current' = r
                            /\ run' = [run EXCEPT ![r].status = "running", ![r].socket = s]
                            /\ runtime' = [runtime EXCEPT ![r] = "working"]
      BY <1>4, <2>1 DEF SendProceeds
    <3>2. sends' \subseteq sends /\ UNCHANGED <<timers, aborts, asked, persisted, open, tab>>
      BY <1>4 DEF SendProceeds
    <3>3. run' \in [Runs -> RunRecord]
      <4>1. run' = [run EXCEPT ![r] = [run[r] EXCEPT !.status = "running", !.socket = s]]
        BY <3>1
      <4>2. run[r] \in RunRecord
        BY DEF TypeOK
      <4> QED BY <4>1, <4>2 DEF TypeOK, RunRecord
    <3>4. /\ run'[r].status = "running" /\ run'[r].completes = run[r].completes
          /\ runtime'[r] = "working"
          /\ \A x \in Runs \ {r} : run'[x] = run[x] /\ runtime'[x] = runtime[x]
      BY <3>1 DEF TypeOK, RunRecord
    <3>5. TypeOK'
      <4>1. timers' \subseteq {x \in Runs : run'[x].status = "completed"}
        BY <3>1, <3>2, <3>4 DEF TypeOK
      <4>2. current' \in 0..MaxRuns
        BY <3>1 DEF Runs
      <4> QED BY <3>1, <3>2, <3>3, <4>1, <4>2 DEF TypeOK
    <3>6. ExactlyOneComplete'
      BY <3>1, <3>4 DEF ExactlyOneComplete
    <3>7. \A x \in Runs : run[x].status # "running"
      BY <2>1 DEF MayStart, RunningIsCurrent, Runs
    <3>8. RunningIsCurrent'
      BY <3>1, <3>4, <3>7 DEF RunningIsCurrent
    <3>9. NewRunsAreUntouched'
      BY <3>4 DEF NewRunsAreUntouched
    <3> QED BY <3>2, <3>5, <3>6, <3>8, <3>9 DEF UpTabsHaveSockets
  <2>2. CASE ~MayStart
    BY <1>4, <2>2 DEF SendProceeds, TypeOK, ExactlyOneComplete, RunningIsCurrent,
       NewRunsAreUntouched, UpTabsHaveSockets
  <2> QED BY <2>1, <2>2
<1> QED BY <1>1, <1>2, <1>3, <1>4

LEMMA SubscribeKeeps ==
  ASSUME IInv, NEW c \in Tabs, Subscribe(c) PROVE IInv'
<1> USE DEF IInv
<1> DEFINE running == current # 0 /\ run[current].status = "running"
           replay == IF running THEN {q \in Buffered(current) : q > tab[c].lastSeq} ELSE {}
<1>1. Socket(c) \in Sockets
  BY SocketType DEF Subscribe
<1>2. run' \in [Runs -> RunRecord]
      /\ \A r \in Runs : run'[r].status = run[r].status /\ run'[r].completes = run[r].completes
  <2>1. CASE running
    <3>1. current \in Runs /\ run' = [run EXCEPT ![current].socket = Socket(c)]
      BY <2>1 DEF Subscribe, TypeOK, Runs
    <3> QED BY <1>1, <3>1 DEF TypeOK, RunRecord
  <2>2. CASE ~running
    BY <2>2 DEF Subscribe, TypeOK
  <2> QED BY <2>1, <2>2
<1>3. /\ replay \in SUBSET (1..MaxEvents)
      /\ current = 0 => replay = {}
  <2>1. CASE running
    <3>1. current \in Runs
      BY <2>1 DEF TypeOK, Runs
    <3>2. run[current].lastSeq \in 0..MaxEvents
      BY <3>1 DEF TypeOK, RunRecord
    <3> QED BY <2>1, <3>2, ConstantsAssumption DEF Buffered
  <2>2. CASE ~running
    BY <2>2
  <2> QED BY <2>1, <2>2
<1>4. tab' = [tab EXCEPT ![c] = [Shown(@, current, replay) EXCEPT !.phase = "subscribed"]]
  BY DEF Subscribe
<1> HIDE DEF replay
<1>5. /\ Shown(tab[c], current, replay) \in TabRecord
      /\ Shown(tab[c], current, replay).connects = tab[c].connects
  BY <1>3, ShownType DEF TypeOK
<1>6. tab' \in [Tabs -> TabRecord] /\ \A d \in Tabs : tab'[d].connects = tab[d].connects
  BY <1>4, <1>5 DEF TypeOK, TabRecord
<1>7. \A d \in Tabs \ {c} : tab'[d] = tab[d]
  BY <1>4 DEF TypeOK
<1>8. UNCHANGED <<current, timers, runtime, sends, aborts, asked, persisted, open>>
  BY DEF Subscribe
<1>9. TypeOK'
  BY <1>2, <1>6, <1>8 DEF TypeOK
<1>10. UpTabsHaveSockets'
  <2>1. tab[c].phase # "down"
    BY DEF Subscribe
  <2> QED BY <2>1, <1>6, <1>7 DEF UpTabsHaveSockets
<1> QED BY <1>2, <1>8, <1>9, <1>10 DEF ExactlyOneComplete, RunningIsCurrent, NewRunsAreUntouched

LEMMA SocketKeeps ==
  ASSUME IInv, \/ \E c \in Tabs : Connects(c) \/ Refreshes(c) \/ Drops(c)
               \/ \E s \in Sockets : ServerCloses(s)
  PROVE  IInv'
<1> USE DEF IInv, server, registry
<1>1. UNCHANGED <<server, persisted>>
  BY DEF Connects, Refreshes, Drops, ServerCloses
<1> DEFINE Socketed == open' \subseteq Sockets /\ tab' \in [Tabs -> TabRecord] /\ UpTabsHaveSockets'
<1>2. ASSUME NEW c \in Tabs, Connects(c) PROVE Socketed
  <2>1. tab[c].connects + 1 \in 1..MaxConnects
    BY <1>2, ConstantsAssumption DEF Connects, TypeOK, TabRecord
  <2> QED BY <1>2, <2>1 DEF Connects, TypeOK, TabRecord, Sockets, UpTabsHaveSockets
<1>3. ASSUME NEW c \in Tabs, Refreshes(c) PROVE Socketed
  <2>1. {e \in Events : e[2] <= persisted[e[1]]} \subseteq Events
    OBVIOUS
  <2> QED BY <1>3, <2>1 DEF Refreshes, TypeOK, TabRecord, UpTabsHaveSockets
<1>4. ASSUME NEW c \in Tabs, Drops(c) PROVE Socketed
  BY <1>4 DEF Drops, TypeOK, TabRecord, UpTabsHaveSockets
<1>5. ASSUME NEW s \in Sockets, ServerCloses(s) PROVE Socketed
  BY <1>5 DEF ServerCloses, TypeOK, UpTabsHaveSockets
<1>6. Socketed
  BY <1>2, <1>3, <1>4, <1>5
<1> QED BY <1>1, <1>6 DEF TypeOK, ExactlyOneComplete, RunningIsCurrent, NewRunsAreUntouched

LEMMA StepKeeps == IInv /\ [Next]_vars => IInv'
<1> SUFFICES ASSUME IInv, [Next]_vars PROVE IInv'
  OBVIOUS
<1>1. CASE UNCHANGED vars
  BY <1>1 DEF vars, server, registry, IInv, TypeOK, ExactlyOneComplete, RunningIsCurrent,
     NewRunsAreUntouched, UpTabsHaveSockets
<1>2. ASSUME NEW r \in Runs,
             \/ RuntimeEmits(r) \/ RuntimeCompletes(r) \/ RuntimeSettles(r)
             \/ Persists(r) \/ Evicts(r) \/ AbortReturns(r)
      PROVE  IInv'
  BY <1>2, RuntimeKeeps, EvictionKeeps
<1>3. ASSUME NEW c \in Tabs,
             \/ SendArrives(c) \/ AbortArrives(c) \/ Subscribe(c)
             \/ Connects(c) \/ Refreshes(c) \/ Drops(c)
      PROVE  IInv'
  BY <1>3, SendKeeps, SubscribeKeeps, SocketKeeps
<1>4. ASSUME NEW s \in Sockets, SendRefused(s) \/ SendProceeds(s) \/ ServerCloses(s)
      PROVE  IInv'
  BY <1>4, SendKeeps, SocketKeeps
<1> QED BY <1>1, <1>2, <1>3, <1>4 DEF Next

LEMMA Invariant == Spec => []IInv
BY InitInv, StepKeeps, PTL DEF Spec

-----------------------------------------------------------------------------
(* The registry, the runtimes and the tabs hold values of their types, and an *)
(* eviction is pending for completed runs only.                               *)
THEOREM TypeCorrect == Spec => []TypeOK
<1>1. IInv => TypeOK
  BY DEF IInv
<1> QED BY <1>1, Invariant, PTL

(* However aborts, completes, settling promises and timers interleave, a run  *)
(* gets at most one complete, and has it when its runtime has settled.        *)
THEOREM OneComplete == Spec => []ExactlyOneComplete
<1>1. IInv => ExactlyOneComplete
  BY DEF IInv
<1> QED BY <1>1, Invariant, PTL

(* No timer of an older run and no later send evicts or replaces a run that   *)
(* is processing.                                                             *)
THEOREM RunningStaysCurrent == Spec => []RunningIsCurrent
<1>1. IInv => RunningIsCurrent
  BY DEF IInv
<1> QED BY <1>1, Invariant, PTL

-----------------------------------------------------------------------------
(* What one event does to its run, and to the tab its run's socket leads to.  *)
Written(r) ==
  /\ run[r].status # "new"
  /\ \A x \in Runs \ {r} : run'[x] = run[x]
  /\ run'[r].socket = run[r].socket
  /\ run'[r].lastSeq = run[r].lastSeq + 1
  /\ \/ run'[r].status = run[r].status /\ run'[r].by = run[r].by
     \/ /\ run[r].status = "running" /\ run'[r].status = "completed"
        /\ run'[r].by = "abort" \/ runtime'[r] # "working"
  /\ tab' = IF run[r].socket \in open /\ Alive(run[r].socket)
            THEN [tab EXCEPT ![run[r].socket[1]] = Shown(@, r, {run[r].lastSeq + 1})] ELSE tab

LEMMA RecordedWrites ==
  ASSUME IInv, NEW r \in Runs, NEW complete \in BOOLEAN,
         NEW by \in {None, "runtime", "settled", "abort"},
         run[r].status # "new", Recorded(r, complete, by),
         complete => by = "abort" \/ runtime'[r] # "working"
  PROVE  Written(r) \/ UNCHANGED <<run, tab>>
<1>1. CASE complete /\ run[r].status = "completed"
  BY <1>1 DEF Recorded
<1>2. CASE ~(complete /\ run[r].status = "completed")
  <2>1. /\ run' = [run EXCEPT ![r].lastSeq = run[r].lastSeq + 1,
                              ![r].completes = IF complete THEN @ + 1 ELSE @,
                              ![r].by = IF complete THEN by ELSE @,
                              ![r].status = IF complete THEN "completed" ELSE @]
        /\ tab' = IF run[r].socket \in open /\ Alive(run[r].socket)
                  THEN [tab EXCEPT ![run[r].socket[1]] = Shown(@, r, {run[r].lastSeq + 1})]
                  ELSE tab
    BY <1>2 DEF Recorded
  <2>2. run \in [Runs -> RunRecord] /\ run[r].status \in {"new", "running", "completed"}
    BY DEF IInv, TypeOK, RunRecord
  <2>3. /\ \A x \in Runs \ {r} : run'[x] = run[x]
        /\ run'[r].socket = run[r].socket /\ run'[r].lastSeq = run[r].lastSeq + 1
        /\ run'[r].by = IF complete THEN by ELSE run[r].by
        /\ run'[r].status = IF complete THEN "completed" ELSE run[r].status
    BY <2>1, <2>2 DEF RunRecord
  <2> QED BY <1>2, <2>1, <2>2, <2>3 DEF Written
<1> QED BY <1>1, <1>2

(* The four actions that write events.                                        *)
Writes(r) == RuntimeEmits(r) \/ RuntimeCompletes(r) \/ RuntimeSettles(r) \/ AbortReturns(r)

LEMMA WritesWrite ==
  ASSUME IInv, NEW r \in Runs, Writes(r)
  PROVE  /\ UNCHANGED <<current, sends, open>>
         /\ UNCHANGED <<run, tab>> \/ \E x \in Runs : Written(x)
         /\ \A x \in Runs : runtime'[x] = "working" => runtime[x] = "working"
<1>1. UNCHANGED <<current, sends, open>>
  BY DEF Writes, RuntimeEmits, RuntimeCompletes, RuntimeSettles, AbortReturns
<1>2. runtime \in [Runs -> {"none", "working", "told", "settled"}]
  BY DEF IInv, TypeOK
<1>3. CASE RuntimeEmits(r)
  <2>1. run[r].status # "new"
    BY <1>3 DEF RuntimeEmits, IInv, NewRunsAreUntouched
  <2>2. Written(r) \/ UNCHANGED <<run, tab>>
    BY <1>3, <2>1, RecordedWrites DEF RuntimeEmits
  <2> QED BY <1>1, <1>3, <2>2 DEF RuntimeEmits
<1>4. CASE RuntimeCompletes(r)
  <2>1. run[r].status # "new" /\ runtime'[r] # "working"
    BY <1>2, <1>4 DEF RuntimeCompletes, IInv, NewRunsAreUntouched
  <2>2. Written(r) \/ UNCHANGED <<run, tab>>
    BY <1>4, <2>1, RecordedWrites DEF RuntimeCompletes
  <2> QED BY <1>1, <1>2, <1>4, <2>2 DEF RuntimeCompletes
<1>5. CASE RuntimeSettles(r)
  <2>1. run[r].status # "new" /\ runtime'[r] # "working"
    BY <1>2, <1>5 DEF RuntimeSettles, IInv, NewRunsAreUntouched
  <2>2. Written(r) \/ UNCHANGED <<run, tab>>
    BY <1>5, <2>1, RecordedWrites DEF RuntimeSettles, CompleteRunIfCurrent
  <2> QED BY <1>1, <1>2, <1>5, <2>2 DEF RuntimeSettles
<1>6. CASE AbortReturns(r)
  <2>1. CASE CompleteRun("abort") /\ current # 0 /\ run[current].status = "running"
    <3>1. current \in Runs
      BY <2>1 DEF IInv, TypeOK, Runs
    <3>2. Recorded(current, TRUE, "abort")
      BY <2>1 DEF CompleteRun
    <3>3. Written(current) \/ UNCHANGED <<run, tab>>
      BY <2>1, <3>1, <3>2, RecordedWrites
    <3> QED BY <1>1, <1>6, <3>1, <3>3 DEF AbortReturns
  <2>2. CASE ~(CompleteRun("abort") /\ current # 0 /\ run[current].status = "running")
    BY <1>1, <1>6, <2>2 DEF AbortReturns, CompleteRun
  <2> QED BY <2>1, <2>2
<1> QED BY <1>3, <1>4, <1>5, <1>6 DEF Writes

(* The start of a run, the only other step that gives a run a socket besides  *)
(* the subscription of a tab to the one that runs.                            *)
Started(s) ==
  \E r \in Runs :
    /\ s \in sends /\ sends' = sends \ {s}
    /\ \A x \in Runs : run[x].status # "running"
    /\ run[r].status = "new" /\ \A x \in 1..(r - 1) : run[x].status # "new"
    /\ run' = [run EXCEPT ![r].status = "running", ![r].socket = s]
    /\ UNCHANGED <<open, tab>>

LEMMA SendsStart ==
  ASSUME IInv, NEW s \in Sockets, SendProceeds(s)
  PROVE  \/ Started(s)
         \/ sends' = sends \ {s} /\ UNCHANGED <<run, runtime, open, tab>>
<1>1. CASE MayStart
  <2>1. \A x \in Runs : run[x].status # "running"
    BY <1>1 DEF IInv, MayStart, RunningIsCurrent, Runs
  <2> QED BY <1>1, <2>1 DEF SendProceeds, Started
<1>2. CASE ~MayStart
  BY <1>2 DEF SendProceeds
<1> QED BY <1>1, <1>2

-----------------------------------------------------------------------------
(* A runtime works on a completed run only after an abort; with it the one    *)
(* that works on a run of its own works on the session's entry.               *)
WorkingIsRunning ==
  \A r \in Runs : runtime[r] = "working" /\ run[r].status = "completed" => run[r].by = "abort"

LEMMA WorkingInit == Init => WorkingIsRunning
BY DEF Init, WorkingIsRunning

LEMMA WorkingStep == IInv /\ WorkingIsRunning /\ [Next]_vars => WorkingIsRunning'
<1> SUFFICES ASSUME IInv, WorkingIsRunning, [Next]_vars PROVE WorkingIsRunning'
  OBVIOUS
<1> USE DEF server, registry
<1>1. ASSUME NEW r \in Runs, Writes(r) PROVE WorkingIsRunning'
  BY <1>1, WritesWrite DEF WorkingIsRunning, Written
<1>2. ASSUME NEW s \in Sockets, SendProceeds(s) PROVE WorkingIsRunning'
  <2>1. CASE MayStart
    <3>1. PICK r \in Runs : /\ run' = [run EXCEPT ![r].status = "running", ![r].socket = s]
                            /\ runtime' = [runtime EXCEPT ![r] = "working"]
      BY <1>2, <2>1 DEF SendProceeds
    <3>2. /\ run'[r].status = "running"
          /\ \A x \in Runs \ {r} : run'[x] = run[x] /\ runtime'[x] = runtime[x]
      BY <3>1 DEF IInv, TypeOK, RunRecord
    <3> QED BY <3>2 DEF WorkingIsRunning
  <2>2. CASE ~MayStart
    BY <1>2, <2>2 DEF SendProceeds, WorkingIsRunning
  <2> QED BY <2>1, <2>2
<1>3. ASSUME NEW c \in Tabs, Subscribe(c) PROVE WorkingIsRunning'
  <2>1. UNCHANGED runtime
    BY <1>3 DEF Subscribe
  <2>2. \A r \in Runs : run'[r].status = run[r].status /\ run'[r].by = run[r].by
    BY <1>3 DEF Subscribe, IInv, TypeOK, RunRecord
  <2> QED BY <2>1, <2>2 DEF WorkingIsRunning
<1>4. CASE UNCHANGED <<run, runtime>>
  BY <1>4 DEF WorkingIsRunning
<1>5. \/ \E r \in Runs : Writes(r)
      \/ \E s \in Sockets : SendProceeds(s)
      \/ \E c \in Tabs : Subscribe(c)
      \/ UNCHANGED <<run, runtime>>
  BY DEF Next, vars, Writes, Persists, Evicts, SendArrives, AbortArrives, Connects, Refreshes,
     Drops, SendRefused, ServerCloses
<1> QED BY <1>1, <1>2, <1>3, <1>4, <1>5

(* Two runtimes work at a time on one session only after an abort: the send   *)
(* that starts a run is refused while one is running, and a runtime whose run *)
(* has ended without an abort has said so or settled.                         *)
THEOREM OneRuntimeWorks == Spec => []OneWorkingRuntime
<1>1. IInv /\ WorkingIsRunning => OneWorkingRuntime
  <2> SUFFICES ASSUME IInv, WorkingIsRunning, NEW r \in Runs, NEW x \in Runs,
                      runtime[r] = "working", runtime[x] = "working",
                      run[r].by # "abort", run[x].by # "abort"
               PROVE  r = x
    BY DEF OneWorkingRuntime
  <2>1. /\ run[r].status \in {"new", "running", "completed"}
        /\ run[x].status \in {"new", "running", "completed"}
    BY DEF IInv, TypeOK, RunRecord
  <2>2. run[r].status = "running" /\ run[x].status = "running"
    BY <2>1 DEF IInv, NewRunsAreUntouched, WorkingIsRunning
  <2> QED BY <2>2 DEF IInv, RunningIsCurrent
<1> QED BY <1>1, Invariant, WorkingInit, WorkingStep, PTL DEF Spec

-----------------------------------------------------------------------------
(* What a tab has seen of the first run. While that run has not ended there   *)
(* is no other; a socket that may get a stream subscribed before, and is not  *)
(* of a later connection; and what lies below a tab's cursor it has.          *)
RunsInOrder ==
  /\ \A r \in Runs : run[r].status = "new" => run[r].lastSeq = 0
  /\ run[1].status # "completed" => \A r \in Runs \ {1} : run[r].status = "new"

SocketsWereSubscribed ==
  \A s \in Sockets : s \in sends \/ (\E r \in Runs : run[r].socket = s)
     => s[2] <= tab[s[1]].connects /\ (Alive(s) => tab[s[1]].phase = "subscribed")

CursorCovers ==
  run[1].status # "completed" /\ run[1].lastSeq <= BufferSize
  => \A c \in Tabs : \A q \in 1..tab[c].lastSeq : <<1, q>> \in tab[c].got

Streamed == RunsInOrder /\ SocketsWereSubscribed /\ CursorCovers /\ NothingMissed

LEMMA FirstRun == 1 \in Runs /\ Runs \subseteq Nat
BY ConstantsAssumption DEF Runs

LEMMA ShownKeeps ==
  ASSUME NEW t \in TabRecord, NEW r, NEW seqs \in SUBSET (1..MaxEvents)
  PROVE  /\ Shown(t, r, seqs).phase = t.phase
         /\ Shown(t, r, seqs).connects = t.connects
         /\ Shown(t, r, seqs).got = t.got \cup ({r} \X seqs)
         /\ Shown(t, r, seqs).lastSeq \in {t.lastSeq} \cup seqs
<1> DEFINE S == {t.lastSeq} \cup seqs
<1>1. MaxEvents \in Nat /\ S \in SUBSET (0..MaxEvents) /\ S # {}
  <2>1. MaxEvents \in Nat /\ t.lastSeq \in 0..MaxEvents
    BY ConstantsAssumption DEF TabRecord
  <2>2. 1..MaxEvents \subseteq 0..MaxEvents
    BY <2>1
  <2> QED BY <2>1, <2>2
<1> HIDE DEF S
<1>2. Max(S) \in S
  BY <1>1, BoundedMax
<1>3. Shown(t, r, seqs) = [t EXCEPT !.got = @ \cup ({r} \X seqs), !.lastSeq = Max(S)]
  BY DEF Shown, S
<1>4. Shown(t, r, seqs).lastSeq = Max(S)
  BY <1>3 DEF TabRecord
<1>5. Shown(t, r, seqs).lastSeq \in {t.lastSeq} \cup seqs
  BY <1>2, <1>4 DEF S
<1> QED BY <1>3, <1>5 DEF TabRecord

(* The tab at a socket is the tab with that socket's number of connections.   *)
LEMMA SocketOfTab ==
  ASSUME NEW s \in Sockets
  PROVE  s[1] \in Tabs /\ (Alive(s) => s = Socket(s[1]) /\ tab[s[1]].phase # "down")
BY DEF Sockets, Alive

LEMMA StreamedInit == Init => Streamed
<1> SUFFICES ASSUME Init PROVE Streamed
  OBVIOUS
<1>1. RunsInOrder /\ CursorCovers /\ NothingMissed
  BY FirstRun, ConstantsAssumption DEF Init, RunsInOrder, CursorCovers, NothingMissed
<1>2. SocketsWereSubscribed
  <2>1. None \notin Sockets
    BY ConstantsAssumption DEF Sockets
  <2> QED BY <2>1 DEF Init, SocketsWereSubscribed
<1> QED BY <1>1, <1>2 DEF Streamed

(* A step that leaves every tab its phase and its connections, and makes no   *)
(* other socket one that may get a stream.                                    *)
LEMMA SocketsStay ==
  ASSUME SocketsWereSubscribed,
         \A c \in Tabs : tab'[c].phase = tab[c].phase /\ tab'[c].connects = tab[c].connects,
         \A s \in Sockets : s \in sends' \/ (\E r \in Runs : run'[r].socket = s)
                            => s \in sends \/ \E r \in Runs : run[r].socket = s
  PROVE  SocketsWereSubscribed'
<1>1. \A s \in Sockets : s[1] \in Tabs
  BY DEF Sockets
<1>2. \A s \in Sockets : Alive(s)' <=> Alive(s)
  BY <1>1 DEF Alive, Socket
<1> QED BY <1>1, <1>2 DEF SocketsWereSubscribed

LEMMA WriteStreams ==
  ASSUME IInv, IInv', Streamed, NEW x \in Runs, Written(x), UNCHANGED <<current, sends, open>>
  PROVE  Streamed'
<1> USE DEF Streamed
<1> DEFINE q == run[x].lastSeq + 1
           s == run[x].socket
           fed == s \in open /\ Alive(s)
<1>1. q \in 1..MaxEvents
  <2>1. run'[x].lastSeq \in 0..MaxEvents /\ run[x].lastSeq \in 0..MaxEvents
    BY DEF IInv, TypeOK, RunRecord
  <2>2. run'[x].lastSeq = q
    BY DEF Written
  <2> QED BY <2>1, <2>2
<1>2. tab \in [Tabs -> TabRecord] /\ run[x].lastSeq \in Nat
  BY DEF IInv, TypeOK, RunRecord
<1>3. fed => s \in Sockets /\ s[1] \in Tabs /\ s = Socket(s[1])
  BY DEF Alive, Sockets
<1>4. \A c \in Tabs : ~(fed /\ c = s[1]) => tab'[c] = tab[c]
  <2>1. tab' = IF fed THEN [tab EXCEPT ![s[1]] = Shown(@, x, {q})] ELSE tab
    BY DEF Written
  <2> HIDE DEF fed, s, q
  <2> QED BY <1>2, <2>1
<1>5. fed => /\ tab'[s[1]].phase = tab[s[1]].phase
             /\ tab'[s[1]].connects = tab[s[1]].connects
             /\ tab'[s[1]].got = tab[s[1]].got \cup {<<x, q>>}
             /\ tab'[s[1]].lastSeq \in {tab[s[1]].lastSeq, q}
  <2>1. tab' = IF fed THEN [tab EXCEPT ![s[1]] = Shown(@, x, {q})] ELSE tab
    BY DEF Written
  <2> HIDE DEF fed, s, q
  <2> SUFFICES ASSUME fed PROVE /\ tab'[s[1]].phase = tab[s[1]].phase
                                /\ tab'[s[1]].connects = tab[s[1]].connects
                                /\ tab'[s[1]].got = tab[s[1]].got \cup {<<x, q>>}
                                /\ tab'[s[1]].lastSeq \in {tab[s[1]].lastSeq, q}
    OBVIOUS
  <2>2. tab'[s[1]] = Shown(tab[s[1]], x, {q}) /\ tab[s[1]] \in TabRecord
    BY <1>2, <1>3, <2>1
  <2>3. {q} \in SUBSET (1..MaxEvents) /\ {x} \X {q} = {<<x, q>>}
    BY <1>1
  <2> QED BY <2>2, <2>3, ShownKeeps
<1>6. \A r \in Runs : run'[r].socket = run[r].socket
  BY DEF Written
<1> HIDE DEF fed, s, q
<1>7. SocketsWereSubscribed'
  BY <1>4, <1>5, <1>6, SocketsStay
<1>8. RunsInOrder'
  <2>1. \A r \in Runs : /\ run'[r].status = "new" => run[r].status = "new" /\ run'[r] = run[r]
                        /\ run[r].status = "new" => run'[r] = run[r]
                        /\ run[r].status = "completed" => run'[r].status = "completed"
    BY DEF Written
  <2> QED BY <2>1, FirstRun DEF RunsInOrder
<1>9. run'[1].status # "completed" => /\ x = 1 /\ run[1].status # "completed"
                                      /\ run[1].status # "new" /\ run'[1].lastSeq = q
  BY FirstRun DEF Written, RunsInOrder, q
<1>10. run[1].status # "completed" => run[1].status \in {"new", "running"}
  BY FirstRun DEF IInv, TypeOK, RunRecord
<1>11. fed => tab[s[1]].phase = "subscribed"
  BY <1>3 DEF SocketsWereSubscribed, fed, s
<1>12. ASSUME run'[1].status # "completed", run'[1].lastSeq <= BufferSize, fed
       PROVE  \A p \in 1..q : <<1, p>> \in tab'[s[1]].got
  <2>1. x = 1 /\ run[1].status = "running" /\ run[1].lastSeq <= BufferSize
    <3>1. x = 1 /\ run[1].status = "running" /\ run'[1].lastSeq = q
      BY <1>9, <1>10, <1>12
    <3> QED BY <1>2, <1>12, <3>1, ConstantsAssumption DEF q
  <2>2. \A p \in 1..run[1].lastSeq : <<1, p>> \in tab[s[1]].got
    BY <1>3, <1>11, <1>12, <2>1 DEF NothingMissed, fed, s
  <2>3. \A p \in 1..q : p = q \/ p \in 1..run[1].lastSeq
    BY <1>2, <2>1 DEF q
  <2>4. <<1, q>> \in tab'[s[1]].got /\ tab[s[1]].got \subseteq tab'[s[1]].got
    BY <1>5, <1>12, <2>1
  <2> QED BY <2>2, <2>3, <2>4
<1>13. CursorCovers'
  <2> SUFFICES ASSUME run'[1].status # "completed", run'[1].lastSeq <= BufferSize,
                      NEW c \in Tabs, NEW p \in 1..tab'[c].lastSeq
               PROVE  <<1, p>> \in tab'[c].got
    BY DEF CursorCovers
  <2>1. x = 1 /\ run[1].status # "completed" /\ run[1].lastSeq <= BufferSize
    <3>1. x = 1 /\ run[1].status # "completed" /\ run'[1].lastSeq = q
      BY <1>9
    <3> QED BY <1>2, <3>1, ConstantsAssumption DEF q
  <2>2. \A d \in 1..tab[c].lastSeq : <<1, d>> \in tab[c].got
    BY <2>1 DEF CursorCovers
  <2>3. CASE ~(fed /\ c = s[1])
    BY <1>4, <2>2, <2>3
  <2>4. CASE fed /\ c = s[1] /\ tab'[c].lastSeq = q
    BY <1>12, <2>4
  <2>5. CASE fed /\ c = s[1] /\ tab'[c].lastSeq = tab[c].lastSeq
    BY <1>5, <2>2, <2>5
  <2> QED BY <1>5, <2>3, <2>4, <2>5
<1>14. NothingMissed'
  <2> SUFFICES ASSUME NEW c \in Tabs, tab'[c].phase = "subscribed", run'[1].socket = Socket(c)',
                      Socket(c)' \in open', run'[1].status = "running",
                      run'[1].lastSeq <= BufferSize
               PROVE  \A p \in 1..run'[1].lastSeq : <<1, p>> \in tab'[c].got
    BY DEF NothingMissed
  <2>1. tab'[c].phase = tab[c].phase /\ tab'[c].connects = tab[c].connects
    BY <1>4, <1>5
  <2>2. x = 1 /\ run'[1].lastSeq = q
    BY <1>9
  <2>3. Socket(c)' = Socket(c) /\ s = Socket(c)
    BY <1>6, <2>1, <2>2 DEF Socket, s
  <2>4. fed /\ s[1] = c
    <3>1. Socket(c) \in Sockets
      BY <2>1, SocketType
    <3> QED BY <2>1, <2>3, <3>1 DEF fed, Alive, Socket
  <2> QED BY <1>12, <2>2, <2>4
<1> QED BY <1>7, <1>8, <1>13, <1>14

LEMMA StartStreams ==
  ASSUME IInv, Streamed, NEW s \in Sockets, Started(s)
  PROVE  Streamed'
<1> USE DEF Streamed
<1>1. PICK r \in Runs : /\ run[r].status = "new" /\ \A x \in 1..(r - 1) : run[x].status # "new"
                        /\ run' = [run EXCEPT ![r].status = "running", ![r].socket = s]
  BY DEF Started
<1>2. /\ s \in sends /\ sends' \subseteq sends
      /\ \A x \in Runs : run[x].status # "running"
      /\ open' = open /\ tab' = tab
  BY DEF Started
<1>3. /\ run'[r].status = "running" /\ run'[r].socket = s /\ run'[r].lastSeq = run[r].lastSeq
      /\ \A x \in Runs \ {r} : run'[x] = run[x]
  BY <1>1 DEF IInv, TypeOK, RunRecord
<1>4. run[r].lastSeq = 0
  BY <1>1 DEF RunsInOrder
<1>5. r # 1 => run[1].status = "completed" /\ run'[1].status = "completed"
  <2>1. r # 1 => 1 \in 1..(r - 1)
    BY DEF Runs
  <2>2. run[1].status \in {"new", "running", "completed"}
    BY FirstRun DEF IInv, TypeOK, RunRecord
  <2> QED BY <1>1, <1>2, <1>3, <2>1, <2>2, FirstRun
<1>6. RunsInOrder'
  BY <1>1, <1>3, <1>5, FirstRun DEF RunsInOrder
<1>7. SocketsWereSubscribed'
  <2>1. \A x \in Sockets : x \in sends' \/ (\E y \in Runs : run'[y].socket = x)
                           => x \in sends \/ \E y \in Runs : run[y].socket = x
    BY <1>2, <1>3
  <2> QED BY <1>2, <2>1, SocketsStay
<1>8. CursorCovers'
  <2>1. run'[1].status # "completed" => r = 1 /\ run[1].status # "completed"
                                        /\ run'[1].lastSeq = run[1].lastSeq
    BY <1>1, <1>3, <1>5
  <2> QED BY <1>2, <2>1 DEF CursorCovers
<1>9. NothingMissed'
  <2>1. run'[1].status = "running" => run'[1].lastSeq = 0
    BY <1>3, <1>4, <1>5
  <2>2. run'[1].status = "running" => \A c \in Tabs : \A q \in 1..run'[1].lastSeq : FALSE
    BY <2>1
  <2> QED BY <2>2 DEF NothingMissed
<1> QED BY <1>6, <1>7, <1>8, <1>9

(* A subscribing tab is replayed all that lies above its cursor, while the    *)
(* buffer has kept it.                                                        *)
LEMMA SubscribeStreams ==
  ASSUME IInv, Streamed, NEW c \in Tabs, Subscribe(c)
  PROVE  Streamed'
<1> USE DEF Streamed
<1> DEFINE running == current # 0 /\ run[current].status = "running"
           replay == IF running THEN {q \in Buffered(current) : q > tab[c].lastSeq} ELSE {}
<1>1. /\ tab[c].phase = "refreshed" /\ open' = open /\ sends' = sends
      /\ run' = IF running THEN [run EXCEPT ![current].socket = Socket(c)] ELSE run
      /\ tab' = [tab EXCEPT ![c] = [Shown(@, current, replay) EXCEPT !.phase = "subscribed"]]
  BY DEF Subscribe
<1>2. /\ run \in [Runs -> RunRecord] /\ tab \in [Tabs -> TabRecord]
      /\ running => current \in Runs
  BY DEF IInv, TypeOK, Runs
<1>3. replay \in SUBSET (1..MaxEvents)
  <2>1. CASE running
    <3>1. run[current].lastSeq \in 0..MaxEvents
      BY <1>2, <2>1 DEF RunRecord
    <3> QED BY <2>1, <3>1, ConstantsAssumption DEF Buffered
  <2>2. CASE ~running
    BY <2>2
  <2> QED BY <2>1, <2>2
<1>4. \A r \in Runs : /\ run'[r].status = run[r].status /\ run'[r].lastSeq = run[r].lastSeq
                      /\ run'[r].socket = IF running /\ r = current THEN Socket(c)
                                          ELSE run[r].socket
  <2> HIDE DEF running
  <2> QED BY <1>1, <1>2 DEF RunRecord
<1>5. \A d \in Tabs \ {c} : tab'[d] = tab[d]
  BY <1>1, <1>2
<1>6. /\ tab'[c].phase = "subscribed" /\ tab'[c].connects = tab[c].connects
      /\ tab'[c].got = tab[c].got \cup ({current} \X replay)
      /\ tab'[c].lastSeq \in {tab[c].lastSeq} \cup replay
  <2> DEFINE t == Shown(tab[c], current, replay)
  <2>1. tab[c] \in TabRecord
    BY <1>2
  <2> HIDE DEF replay
  <2>2. /\ t.connects = tab[c].connects
        /\ t.got = tab[c].got \cup ({current} \X replay)
        /\ t.lastSeq \in {tab[c].lastSeq} \cup replay
    BY <1>3, <2>1, ShownKeeps
  <2>3. /\ tab'[c] = [t EXCEPT !.phase = "subscribed"]
        /\ DOMAIN t = {"phase", "connects", "lastSeq", "got"}
    BY <1>1, <1>2, <2>1 DEF Shown, TabRecord
  <2> HIDE DEF t
  <2>4. /\ tab'[c].phase = "subscribed" /\ tab'[c].connects = t.connects
        /\ tab'[c].got = t.got /\ tab'[c].lastSeq = t.lastSeq
    BY <2>3
  <2> QED BY <2>2, <2>4
<1>7. ASSUME run[1].status = "running"
      PROVE  current = 1 /\ running
  BY <1>7, FirstRun DEF IInv, RunningIsCurrent
<1>8. run[1].status = "new" => ~running
  BY <1>2, FirstRun DEF RunsInOrder
<1>9. run[1].status \in {"new", "running", "completed"} /\ run[1].lastSeq \in Nat
      /\ tab[c].lastSeq \in Nat
  BY <1>2, FirstRun DEF RunRecord, TabRecord
<1>10. ASSUME run[1].status = "running", run[1].lastSeq <= BufferSize,
              NEW q \in 1..run[1].lastSeq
       PROVE  <<1, q>> \in tab'[c].got
  <2>1. CASE q <= tab[c].lastSeq
    <3>1. q \in 1..tab[c].lastSeq
      BY <1>9, <2>1
    <3> QED BY <1>6, <1>10, <3>1 DEF CursorCovers
  <2>2. CASE q > tab[c].lastSeq
    <3>1. q \in Buffered(1)
      BY <1>9, <1>10, ConstantsAssumption DEF Buffered
    <3>2. q \in replay /\ current = 1
      BY <1>7, <1>10, <2>2, <3>1
    <3> HIDE DEF replay
    <3> QED BY <1>6, <3>2
  <2> QED BY <1>9, <2>1, <2>2
<1>11. RunsInOrder'
  BY <1>4, FirstRun DEF RunsInOrder
<1>12. SocketsWereSubscribed'
  <2> SUFFICES ASSUME NEW s \in Sockets, s \in sends' \/ \E r \in Runs : run'[r].socket = s
               PROVE  /\ s[2] <= tab'[s[1]].connects
                      /\ Alive(s)' => tab'[s[1]].phase = "subscribed"
    BY DEF SocketsWereSubscribed
  <2>1. s[1] \in Tabs
    BY DEF Sockets
  <2>2. CASE s = Socket(c)
    <3>1. s[1] = c /\ s[2] = tab[c].connects /\ tab[c].connects \in Nat
      BY <1>2, <2>2 DEF Socket, TabRecord
    <3> QED BY <1>6, <3>1
  <2>3. CASE s # Socket(c)
    <3>1. s \in sends \/ \E r \in Runs : run[r].socket = s
      BY <1>1, <1>4, <2>3
    <3>2. /\ s[2] <= tab[s[1]].connects
          /\ Alive(s) => tab[s[1]].phase = "subscribed"
      BY <3>1 DEF SocketsWereSubscribed
    <3>3. CASE s[1] = c
      BY <1>6, <3>2, <3>3
    <3>4. CASE s[1] # c
      <4>1. tab'[s[1]] = tab[s[1]]
        BY <1>5, <2>1, <3>4
      <4> QED BY <3>2, <4>1 DEF Alive, Socket
    <3> QED BY <3>3, <3>4
  <2> QED BY <2>2, <2>3
<1>13. CursorCovers'
  <2> SUFFICES ASSUME run'[1].status # "completed", run'[1].lastSeq <= BufferSize,
                      NEW d \in Tabs, NEW q \in 1..tab'[d].lastSeq
               PROVE  <<1, q>> \in tab'[d].got
    BY DEF CursorCovers
  <2>1. run[1].status # "completed" /\ run[1].lastSeq <= BufferSize
    BY <1>4, FirstRun
  <2>2. \A p \in 1..tab[d].lastSeq : <<1, p>> \in tab[d].got
    BY <2>1 DEF CursorCovers
  <2>3. CASE d # c
    BY <1>5, <2>2, <2>3
  <2>4. CASE d = c /\ tab'[c].lastSeq = tab[c].lastSeq
    BY <1>6, <2>2, <2>4
  <2>5. CASE d = c /\ tab'[c].lastSeq \in replay
    <3>1. running
      BY <2>5
    <3>2. run[1].status = "running" /\ current = 1
      BY <1>7, <1>8, <1>9, <2>1, <3>1
    <3>3. tab'[c].lastSeq \in 1..run[1].lastSeq
      BY <2>5, <3>1, <3>2 DEF Buffered
    <3>4. q \in 1..run[1].lastSeq
      BY <1>9, <2>5, <3>3
    <3> QED BY <1>10, <2>1, <2>5, <3>2, <3>4
  <2> QED BY <1>6, <2>3, <2>4, <2>5
<1>14. NothingMissed'
  <2> SUFFICES ASSUME NEW d \in Tabs, tab'[d].phase = "subscribed", run'[1].socket = Socket(d)',
                      Socket(d)' \in open', run'[1].status = "running",
                      run'[1].lastSeq <= BufferSize, NEW q \in 1..run'[1].lastSeq
               PROVE  <<1, q>> \in tab'[d].got
    BY DEF NothingMissed
  <2>1. run[1].status = "running" /\ run'[1].lastSeq = run[1].lastSeq
        /\ run'[1].socket = Socket(c)
    BY <1>4, <1>7, FirstRun
  <2>2. d = c
    BY <2>1 DEF Socket
  <2> QED BY <1>10, <2>1, <2>2
<1> QED BY <1>11, <1>12, <1>13, <1>14

(* The rest leaves the runs alone: a subscribed tab sends, tabs come and go.  *)
LEMMA SocketsStream ==
  ASSUME IInv, Streamed, run' = run,
         \/ \E c \in Tabs : SendArrives(c) \/ Connects(c) \/ Refreshes(c) \/ Drops(c)
         \/ sends' \subseteq sends /\ open' \subseteq open /\ tab' = tab
  PROVE  Streamed'
<1> USE DEF Streamed, server, registry
<1>1. RunsInOrder'
  BY DEF RunsInOrder
<1>2. tab \in [Tabs -> TabRecord] /\ \A c \in Tabs : tab[c].connects \in Nat
  BY DEF IInv, TypeOK, TabRecord
<1>3. ASSUME NEW c \in Tabs, SendArrives(c) PROVE Streamed'
  <2>1. /\ sends' = sends \cup {Socket(c)} /\ tab' = tab /\ open' = open
        /\ tab[c].phase = "subscribed"
    BY <1>3 DEF SendArrives
  <2>2. SocketsWereSubscribed'
    <3> SUFFICES ASSUME NEW s \in Sockets, s \in sends' \/ \E r \in Runs : run'[r].socket = s
                 PROVE  s[2] <= tab[s[1]].connects /\ (Alive(s) => tab[s[1]].phase = "subscribed")
      BY <2>1 DEF SocketsWereSubscribed, Alive, Socket
    <3>1. CASE s = Socket(c)
      BY <1>2, <2>1, <3>1 DEF Socket
    <3>2. CASE s # Socket(c)
      BY <2>1, <3>2 DEF SocketsWereSubscribed
    <3> QED BY <3>1, <3>2
  <2> QED BY <1>1, <2>1, <2>2 DEF CursorCovers, NothingMissed, Socket
<1>4. ASSUME NEW c \in Tabs, Connects(c) PROVE Streamed'
  <2>1. /\ tab[c].phase = "down" /\ sends' = sends
        /\ tab'[c].phase = "connected" /\ tab'[c].connects = tab[c].connects + 1
        /\ tab'[c].lastSeq = tab[c].lastSeq /\ tab'[c].got = tab[c].got
        /\ \A d \in Tabs \ {c} : tab'[d] = tab[d]
        /\ open' = open \cup {<<c, tab[c].connects + 1>>}
    BY <1>2, <1>4 DEF Connects, TabRecord
  <2>2. SocketsWereSubscribed'
    <3> SUFFICES ASSUME NEW s \in Sockets, s \in sends' \/ \E r \in Runs : run'[r].socket = s
                 PROVE  /\ s[2] <= tab'[s[1]].connects
                        /\ Alive(s)' => tab'[s[1]].phase = "subscribed"
      BY DEF SocketsWereSubscribed
    <3>1. s[1] \in Tabs /\ s[2] \in Nat /\ s = <<s[1], s[2]>>
      BY DEF Sockets
    <3>2. s[2] <= tab[s[1]].connects /\ (Alive(s) => tab[s[1]].phase = "subscribed")
      BY <2>1 DEF SocketsWereSubscribed
    <3>3. CASE s[1] = c
      <4>1. s # <<c, tab[c].connects + 1>>
        BY <1>2, <3>1, <3>2, <3>3
      <4> QED BY <1>2, <2>1, <3>1, <3>2, <3>3, <4>1 DEF Alive, Socket
    <3>4. CASE s[1] # c
      BY <2>1, <3>1, <3>2, <3>4 DEF Alive, Socket
    <3> QED BY <3>3, <3>4
  <2>3. CursorCovers'
    BY <2>1 DEF CursorCovers
  <2>4. NothingMissed'
    <3> SUFFICES ASSUME NEW d \in Tabs, tab'[d].phase = "subscribed",
                        run'[1].socket = Socket(d)', Socket(d)' \in open',
                        run'[1].status = "running", run'[1].lastSeq <= BufferSize
                 PROVE  \A q \in 1..run'[1].lastSeq : <<1, q>> \in tab'[d].got
      BY DEF NothingMissed
    <3>1. d # c /\ tab'[d] = tab[d]
      BY <2>1
    <3>2. Socket(d)' = Socket(d) /\ Socket(d) \in open
      BY <2>1, <3>1 DEF Socket
    <3> QED BY <3>1, <3>2 DEF NothingMissed
  <2> QED BY <1>1, <2>2, <2>3, <2>4
<1>5. ASSUME NEW c \in Tabs, Refreshes(c) \/ Drops(c) PROVE Streamed'
  <2>1. /\ sends' = sends /\ open' = open
        /\ tab'[c].phase \in {"refreshed", "down"} /\ tab'[c].connects = tab[c].connects
        /\ tab'[c].lastSeq = tab[c].lastSeq /\ tab[c].got \subseteq tab'[c].got
        /\ tab'[c].phase = "down" \/ tab[c].phase = "connected"
        /\ \A d \in Tabs \ {c} : tab'[d] = tab[d]
    BY <1>2, <1>5 DEF Refreshes, Drops, TabRecord
  <2>2. SocketsWereSubscribed'
    <3> SUFFICES ASSUME NEW s \in Sockets, s \in sends' \/ \E r \in Runs : run'[r].socket = s
                 PROVE  /\ s[2] <= tab'[s[1]].connects
                        /\ Alive(s)' => tab'[s[1]].phase = "subscribed"
      BY DEF SocketsWereSubscribed
    <3>1. s[1] \in Tabs
      BY DEF Sockets
    <3>2. s[2] <= tab[s[1]].connects /\ (Alive(s) => tab[s[1]].phase = "subscribed")
      BY <2>1 DEF SocketsWereSubscribed
    <3>3. CASE s[1] = c
      BY <2>1, <3>2, <3>3 DEF Alive, Socket
    <3>4. CASE s[1] # c
      BY <2>1, <3>1, <3>2, <3>4 DEF Alive, Socket
    <3> QED BY <3>3, <3>4
  <2>3. CursorCovers'
    BY <2>1 DEF CursorCovers
  <2>4. NothingMissed'
    BY <2>1 DEF NothingMissed, Socket
  <2> QED BY <1>1, <2>2, <2>3, <2>4
<1>6. CASE sends' \subseteq sends /\ open' \subseteq open /\ tab' = tab
  <2>1. SocketsWereSubscribed'
    BY <1>6, SocketsStay
  <2> QED BY <1>1, <1>6, <2>1 DEF CursorCovers, NothingMissed, Socket
<1> QED BY <1>3, <1>4, <1>5, <1>6

LEMMA StreamedStep == IInv /\ IInv' /\ Streamed /\ [Next]_vars => Streamed'
<1> SUFFICES ASSUME IInv, IInv', Streamed, [Next]_vars PROVE Streamed'
  OBVIOUS
<1> USE DEF server, registry
<1>1. ASSUME NEW r \in Runs, Writes(r) PROVE Streamed'
  <2>1. UNCHANGED <<current, sends, open>> /\ (UNCHANGED <<run, tab>> \/ \E x \in Runs : Written(x))
    BY <1>1, WritesWrite
  <2>2. CASE UNCHANGED <<run, tab>>
    BY <2>1, <2>2, SocketsStream
  <2>3. ASSUME NEW x \in Runs, Written(x) PROVE Streamed'
    BY <2>1, <2>3, WriteStreams
  <2> QED BY <2>1, <2>2, <2>3
<1>2. ASSUME NEW s \in Sockets, SendProceeds(s) PROVE Streamed'
  <2>1. CASE Started(s)
    BY <2>1, StartStreams
  <2>2. CASE sends' = sends \ {s} /\ UNCHANGED <<run, runtime, open, tab>>
    BY <2>2, SocketsStream
  <2> QED BY <1>2, <2>1, <2>2, SendsStart
<1>3. ASSUME NEW c \in Tabs, Subscribe(c) PROVE Streamed'
  BY <1>3, SubscribeStreams
<1>4. ASSUME NEW c \in Tabs, SendArrives(c) \/ Connects(c) \/ Refreshes(c) \/ Drops(c)
      PROVE  Streamed'
  <2>1. run' = run
    BY <1>4 DEF SendArrives, Connects, Refreshes, Drops
  <2> QED BY <1>4, <2>1, SocketsStream
<1>5. CASE run' = run /\ sends' \subseteq sends /\ open' \subseteq open /\ tab' = tab
  BY <1>5, SocketsStream
<1>6. \/ \E r \in Runs : Writes(r)
      \/ \E s \in Sockets : SendProceeds(s)
      \/ \E c \in Tabs : Subscribe(c) \/ SendArrives(c) \/ Connects(c) \/ Refreshes(c) \/ Drops(c)
      \/ run' = run /\ sends' \subseteq sends /\ open' \subseteq open /\ tab' = tab
  BY DEF Next, vars, Writes, Persists, Evicts, AbortArrives, SendRefused, ServerCloses
<1> QED BY <1>1, <1>2, <1>3, <1>4, <1>5, <1>6

(* A tab that has subscribed and gets the stream of the session's first run   *)
(* has every event of it, while the buffer suffices: whatever it missed when  *)
(* its socket was gone, the replay above its cursor brings.                   *)
THEOREM SubscribersMissNothing == Spec => []NothingMissed
<1>1. IInv /\ Streamed => NothingMissed
  BY DEF Streamed
<1>2. IInv /\ [Next]_vars => IInv'
  BY StepKeeps
<1> QED BY <1>1, <1>2, Invariant, StreamedInit, StreamedStep, PTL DEF Spec
=============================================================================
