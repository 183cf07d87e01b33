----------------------- MODULE CompletionOutbox_proofs -----------------------
(* What holds of the outbox for every number of users, endpoints, decisions   *)
(* and faults, every lease and every retry delay.                             *)
EXTENDS CompletionOutbox, TLAPS

(* A retry delay never exceeds the cap.                                       *)
LEMMA RetryDelayType == \A n \in 0..MaxAttempts : RetryDelay(n) \in 0..RetryCap
<1> SUFFICES ASSUME NEW n \in 0..MaxAttempts PROVE RetryDelay(n) \in 0..RetryCap
  OBVIOUS
<1> DEFINE i == Least(IF n = 0 THEN 1 ELSE n, 11)
<1>1. i \in 1..11
  BY ConstantsAssumption DEF Least
<1>2. \A j \in 1..11 : Doublings[j] \in Nat
  BY DEF Doublings
<1>3. Doublings[i] \in Nat
  BY <1>1, <1>2
<1>4. \A a, b \in Nat : a * b \in Nat
  OBVIOUS
<1>5. RetryBase * Doublings[i] \in Nat
  BY <1>3, <1>4, ConstantsAssumption
<1> QED
  BY <1>5, ConstantsAssumption DEF RetryDelay, Least

LEMMA StateNames ==
  /\ "absent" \in States /\ "pending" \in States /\ "transient_retry" \in States
  /\ "claimed" \in States /\ "paused_global" \in States /\ "acknowledged" \in States
  /\ "endpoint_removed" \in States /\ "permanent_failed" \in States
BY DEF States, Open, Claimable, Closed

(* Releasing a row, claiming it and preparing its push yield rows.            *)
LEMMA ReleasedType ==
  ASSUME NEW row \in Row, NEW s \in States PROVE Released(row, s) \in Row
BY ConstantsAssumption DEF Released, Row

LEMMA ClaimedType ==
  ASSUME delivery \in [Ids -> Row], NEW d \in Ids, FreshTokens(d) # {}
  PROVE  /\ NewToken(d) \in Tokens
         /\ Claimed(d) \in Row
         /\ Claimed(d).state = "claimed"
         /\ Claimed(d).token = NewToken(d)
<1>1. NewToken(d) \in FreshTokens(d)
  BY DEF NewToken
<1>2. NewToken(d) \in Tokens
  BY <1>1 DEF FreshTokens
<1>3. delivery[d] \in Row
  OBVIOUS
<1> QED
  BY <1>2, <1>3, StateNames, ConstantsAssumption DEF Claimed, Row

LEMMA PreparedType ==
  ASSUME NEW row \in Row, NEW u \in Users PROVE Prepared(u, row) \in Row
<1>1. Released(row, "paused_global") \in Row
  BY ReleasedType DEF States, Open
<1>2. Least(MaxAttempts, row.attempts + 1) \in 0..MaxAttempts
  BY ConstantsAssumption DEF Least, Row
<1> QED
  BY <1>1, <1>2 DEF Prepared, Row

LEMMA IdsParts ==
  \A d \in Ids : /\ User(d) \in Users /\ Endpoint(d) \in Endpoints
                 /\ Decision(d) \in Users \X Occurrences
BY DEF Ids, User, Endpoint, Decision

-----------------------------------------------------------------------------
(* The effect of one answered request, and of one drain, on the types.        *)

LEMMA FinishType ==
  ASSUME TypeOK, NEW s \in sends, NEW row \in Row, Finish(s, row)
  PROVE  delivery' \in [Ids -> Row]
BY DEF TypeOK, Finish, Send

LEMMA LeaveType ==
  ASSUME TypeOK, NEW s \in sends, Leave(s)
  PROVE  sends' \subseteq Send /\ batch' \subseteq sends'
BY DEF TypeOK, Leave

LEMMA ClosedForType ==
  ASSUME delivery \in [Ids -> Row], NEW u \in Users, NEW es \in SUBSET Endpoints
  PROVE  ClosedFor(u, es) \in [Ids -> Row]
<1>1. \A d \in Ids : Released(delivery[d], "endpoint_removed") \in Row
  BY ReleasedType, StateNames
<1> QED
  BY <1>1 DEF ClosedFor, TypeOK

LEMMA DrainType ==
  ASSUME TypeOK, Drain
  PROVE  /\ delivery' \in [Ids -> Row]
         /\ sends' \subseteq Send /\ batch' \subseteq sends'
         /\ full' \in BOOLEAN /\ draining' = TRUE /\ faults' \in Nat
         /\ UNCHANGED <<outbox, enabled, subscriber, process, pushes>>
<1>0. PICK S \in Batches : \E F \in SUBSET S : ClaimAndDispatch(S, F) /\ faults' \in Nat
  BY DEF Drain, TypeOK
<1>1. PICK F \in SUBSET S : ClaimAndDispatch(S, F) /\ faults' \in Nat
  BY <1>0
<1>2. S \subseteq Ids
  BY <1>1 DEF Batches, Due
<1>3. \A d \in S : NewToken(d) \in Tokens /\ Claimed(d) \in Row /\ Prepared(User(d), Claimed(d)) \in Row
  BY <1>1, <1>2, ClaimedType, PreparedType, IdsParts DEF ClaimAndDispatch, TypeOK
<1>4. Started(S) \subseteq Send /\ Started(S \ F) \subseteq Send
  BY <1>2, <1>3 DEF Started, Send
<1>5. delivery' \in [Ids -> Row]
  BY <1>1, <1>3 DEF ClaimAndDispatch, TypeOK
<1>6. sends' \subseteq Send /\ batch' \subseteq sends'
  <2>1. CASE F = {}
    BY <1>1, <1>4, <2>1 DEF ClaimAndDispatch, TypeOK
  <2>2. CASE F # {}
    BY <1>1, <1>4, <2>2 DEF ClaimAndDispatch, TypeOK
  <2> QED BY <2>1, <2>2
<1> QED
  BY <1>1, <1>5, <1>6 DEF ClaimAndDispatch

-----------------------------------------------------------------------------
(* Type correctness: in every reachable state the tables and the dispatcher   *)
(* hold values of their types; the drain only awaits requests that exist.     *)

LEMMA InitType == Init => TypeOK
<1> SUFFICES ASSUME Init PROVE TypeOK
  OBVIOUS
<1>1. NoRow \in Row
  BY ConstantsAssumption, StateNames DEF NoRow, Row
<1>2. /\ outbox \subseteq Users \X Occurrences
      /\ delivery \in [Ids -> Row]
      /\ enabled \in [Users -> BOOLEAN]
      /\ subscriber \in [Endpoints -> Users \cup {NoUser}]
      /\ faults \in Nat
      /\ pushes \in [Ids -> 0..2]
  BY <1>1 DEF Init
<1>3. draining \in BOOLEAN /\ wakeRequested \in BOOLEAN /\ full \in BOOLEAN
  BY Zenon DEF Init
<1>4. process \in {"running", "stopping", "down"} /\ sends = {} /\ batch = {}
  BY DEF Init
<1> QED
  BY <1>2, <1>3, <1>4 DEF TypeOK

LEMMA OwnerType ==
  ASSUME TypeOK,
         \/ \E u \in Users, k \in Occurrences : CreateApplicationDecision(u, k)
         \/ \E W \in SUBSET Users, k \in Occurrences : RecordTerminalDecision(W, k)
         \/ \E u \in Users : Resume(u) \/ Pause(u)
         \/ \E u \in Users, e \in Endpoints : Subscribe(u, e)
         \/ \E u \in Users, es \in SUBSET Endpoints : Unsubscribe(u, es)
  PROVE  TypeOK'
<1> USE DEF dispatcher, history
<1>1. NoRow \in Row
  BY ConstantsAssumption, StateNames DEF NoRow, Row
<1>2. \A D : Inserted(D) \in [Ids -> Row]
  BY <1>1, ReleasedType, StateNames DEF Inserted, TypeOK
<1>3. ASSUME NEW D \in SUBSET (Users \X Occurrences), InsertDecisions(D) PROVE TypeOK'
  BY <1>2, <1>3 DEF InsertDecisions, TypeOK
<1>4. ASSUME NEW u \in Users, NEW k \in Occurrences, CreateApplicationDecision(u, k)
      PROVE  TypeOK'
  BY <1>3, <1>4 DEF CreateApplicationDecision
<1>5. ASSUME NEW W \in SUBSET Users, NEW k \in Occurrences, RecordTerminalDecision(W, k)
      PROVE  TypeOK'
  BY <1>3, <1>5 DEF RecordTerminalDecision
<1>6. ASSUME NEW u \in Users, Resume(u) \/ Pause(u) PROVE TypeOK'
  <2>1. delivery' \in [Ids -> Row]
    BY <1>6, ReleasedType, StateNames DEF Resume, Pause, TypeOK
  <2> QED
    BY <1>6, <2>1 DEF Resume, Pause, TypeOK
<1>7. ASSUME NEW u \in Users, NEW e \in Endpoints, Subscribe(u, e) PROVE TypeOK'
  BY <1>7 DEF Subscribe, TypeOK
<1>8. ASSUME NEW u \in Users, NEW es \in SUBSET Endpoints, Unsubscribe(u, es)
      PROVE  TypeOK'
  BY <1>8, ClosedForType DEF Unsubscribe, Unregistered, TypeOK
<1> QED
  BY <1>4, <1>5, <1>6, <1>7, <1>8

LEMMA DispatcherType ==
  ASSUME TypeOK, Wake \/ WakeDuringDrain \/ DrainAgain \/ DrainEnds PROVE TypeOK'
<1>1. CASE Wake
  BY <1>1, DrainType DEF Wake, TypeOK
<1>2. CASE WakeDuringDrain
  BY <1>2 DEF WakeDuringDrain, TypeOK, database, history
<1>3. CASE DrainAgain
  BY <1>3, DrainType DEF DrainAgain, TypeOK
<1>4. CASE DrainEnds
  BY <1>4 DEF DrainEnds, TypeOK, database, history
<1> QED
  BY <1>1, <1>2, <1>3, <1>4

LEMMA RequestType ==
  ASSUME TypeOK, NEW s \in sends, ProviderAccepts(s) \/ Answered(s) \/ OutcomeNotStored(s)
  PROVE  TypeOK'
<1> USE DEF history, database
<1>1. s \in Send /\ s.id \in Ids /\ delivery[s.id] \in Row
  BY DEF TypeOK, Send
<1>2. CASE ProviderAccepts(s)
  <2> DEFINE t == [s EXCEPT !.phase = "accepted"]
  <2>1. t \in Send
    BY <1>1 DEF Send
  <2>2. sends' = (sends \ {s}) \cup {t} /\ batch' \subseteq (batch \ {s}) \cup {t}
    BY <1>2 DEF ProviderAccepts, TypeOK
  <2>3. s \in batch \/ batch' = batch
    BY <1>2 DEF ProviderAccepts
  <2>4. sends' \subseteq Send /\ batch' \subseteq sends'
    BY <2>1, <2>2, <2>3 DEF TypeOK
  <2>5. Least(2, pushes[s.id] + 1) \in 0..2
    BY <1>1 DEF TypeOK, Least
  <2> QED
    BY <1>1, <1>2, <2>4, <2>5 DEF ProviderAccepts, TypeOK
<1>3. CASE SendSucceeds(s)
  <2>1. \A x \in States : Released(delivery[s.id], x) \in Row
    BY <1>1, ReleasedType
  <2>2. delivery' \in [Ids -> Row]
    BY <1>3, <2>1, FinishType, StateNames DEF SendSucceeds
  <2> QED
    BY <1>1, <1>3, <2>2, LeaveType DEF SendSucceeds, TypeOK
<1>4. CASE EndpointGone(s)
  BY <1>1, <1>4, LeaveType, ClosedForType, IdsParts
     DEF EndpointGone, Fails, Unregistered, TypeOK
<1>5. CASE PermanentFailure(s)
  <2>1. Released(delivery[s.id], "permanent_failed") \in Row
    BY <1>1, ReleasedType, StateNames
  <2> QED
    BY <1>5, <2>1, LeaveType, FinishType DEF PermanentFailure, Fails, TypeOK
<1>6. CASE Retry(s)
  <2> DEFINE r == [Released(delivery[s.id], "transient_retry")
                     EXCEPT !.due = RetryDelay(delivery[s.id].attempts)]
  <2>1. RetryDelay(delivery[s.id].attempts) \in 0..RetryCap
    BY <1>1, RetryDelayType DEF Row
  <2>2. Released(delivery[s.id], "transient_retry") \in Row
    BY <1>1, ReleasedType, StateNames
  <2>3. r \in Row
    BY <2>1, <2>2 DEF Row
  <2>4. Finish(s, r)
    BY <1>6 DEF Retry
  <2> HIDE DEF r
  <2> QED
    BY <1>6, <2>3, <2>4, LeaveType, FinishType DEF Retry, Fails, TypeOK
<1>7. CASE OutcomeNotStored(s)
  <2>1. full' \in BOOLEAN
    BY <1>7, Zenon DEF OutcomeNotStored, TypeOK
  <2>2. batch' = {} \/ (s \notin batch /\ batch' = batch)
    BY <1>7 DEF OutcomeNotStored
  <2>3. faults' \in Nat /\ sends' = sends \ {s}
    BY <1>7 DEF OutcomeNotStored, TypeOK
  <2>4. UNCHANGED <<database, process, draining, wakeRequested, pushes>>
    BY <1>7 DEF OutcomeNotStored
  <2> QED
    BY <2>1, <2>2, <2>3, <2>4 DEF TypeOK
<1> QED
  BY <1>2, <1>3, <1>4, <1>5, <1>6, <1>7 DEF Answered

LEMMA ProcessType ==
  ASSUME TypeOK, Stop \/ Exit \/ Crash \/ Restart \/ Tick PROVE TypeOK'
<1> USE DEF database, dispatcher, history
<1>1. CASE Stop
  BY <1>1 DEF Stop, TypeOK
<1>2. CASE Exit
  BY <1>2 DEF Exit, Dies, TypeOK
<1>3. CASE Crash
  <2>1. faults' \in Nat
    BY <1>3 DEF Crash, TypeOK
  <2>2. Dies
    BY <1>3 DEF Crash
  <2> QED
    BY <2>1, <2>2 DEF Dies, TypeOK
<1>4. CASE Restart
  BY <1>4 DEF Restart, TypeOK
<1>5. CASE Tick
  <2>1. ASSUME NEW d \in Ids PROVE delivery'[d] \in Row
    <3> DEFINE l == Older(delivery[d].lease)
               w == Older(delivery[d].due)
    <3>1. delivery[d] \in Row
      BY DEF TypeOK
    <3>2. l \in 0..Lease /\ w \in 0..RetryCap
      BY <3>1, ConstantsAssumption DEF Row, Older
    <3>3. delivery'[d] = [delivery[d] EXCEPT !.lease = l, !.due = w]
      BY <1>5 DEF Tick
    <3> HIDE DEF l, w
    <3>4. [delivery[d] EXCEPT !.lease = l] \in Row
      BY <3>1, <3>2 DEF Row
    <3> QED
      BY <3>2, <3>3, <3>4 DEF Row
  <2> QED
    BY <1>5, <2>1 DEF Tick, TypeOK
<1> QED
  BY <1>1, <1>2, <1>3, <1>4, <1>5

(* Every reachable state of the outbox is well typed.                         *)
THEOREM TypeCorrect == Spec => []TypeOK
<1>1. TypeOK /\ [Next]_vars => TypeOK'
  <2> SUFFICES ASSUME TypeOK, [Next]_vars PROVE TypeOK'
    OBVIOUS
  <2>1. CASE UNCHANGED vars
    BY <2>1 DEF vars, database, dispatcher, history, TypeOK
  <2> QED
    BY <2>1, OwnerType, DispatcherType, RequestType, ProcessType DEF Next
<1> QED
  BY <1>1, InitType, PTL DEF Spec

-----------------------------------------------------------------------------
(* The switch, the subscriptions and the claims agree with the deliveries.    *)
(* The three invariants are inductive together with the types: a claim needs  *)
(* the policy and the subscription, every other move out of "claimed" clears  *)
(* the token, and each of the owner's actions moves its deliveries with it.   *)

Agreement == PauseMatchesPolicy /\ OpenHasSubscription /\ TokenIffClaimed

LEMMA ReleasedFields ==
  \A row, s : /\ Released(row, s).state = s
              /\ Released(row, s).token = NoToken
BY DEF Released

LEMMA OwnerAgreement ==
  ASSUME TypeOK, Agreement,
         \/ \E u \in Users, k \in Occurrences : CreateApplicationDecision(u, k)
         \/ \E W \in SUBSET Users, k \in Occurrences : RecordTerminalDecision(W, k)
         \/ \E u \in Users : Resume(u) \/ Pause(u)
         \/ \E u \in Users, e \in Endpoints : Subscribe(u, e)
         \/ \E u \in Users, es \in SUBSET Endpoints : Unsubscribe(u, es)
  PROVE  Agreement'
<1> USE ReleasedFields, IdsParts
    DEF Agreement, PauseMatchesPolicy, OpenHasSubscription, TokenIffClaimed, TypeOK, Open, Claimable
<1> HIDE DEF Agreement
<1>1. ASSUME NEW D, InsertDecisions(D), \A d \in Ids : Decision(d) \in D => enabled[User(d)]
      PROVE  Agreement'
  BY <1>1 DEF Agreement, InsertDecisions, Inserted
<1>2. ASSUME NEW u \in Users, NEW k \in Occurrences, CreateApplicationDecision(u, k)
      PROVE  Agreement'
  <2>1. \A d \in Ids : Decision(d) \in {<<u, k>>} => enabled[User(d)]
    BY <1>2 DEF CreateApplicationDecision, Decision, User
  <2> QED
    BY <1>1, <1>2, <2>1 DEF CreateApplicationDecision
<1>3. ASSUME NEW W \in SUBSET Users, NEW k \in Occurrences, RecordTerminalDecision(W, k)
      PROVE  Agreement'
  <2> DEFINE D == {<<u, k>> : u \in {v \in W : enabled[v]}}
  <2>1. \A d \in Ids : Decision(d) \in D => enabled[User(d)]
    BY DEF Decision, User
  <2>2. InsertDecisions(D)
    BY <1>3 DEF RecordTerminalDecision
  <2> HIDE DEF D
  <2> QED
    BY <1>1, <2>1, <2>2
<1>4. ASSUME NEW u \in Users, Resume(u) PROVE Agreement'
  BY <1>4 DEF Agreement, Resume
<1>5. ASSUME NEW u \in Users, Pause(u) PROVE Agreement'
  BY <1>5 DEF Agreement, Pause
<1>6. ASSUME NEW u \in Users, NEW e \in Endpoints, Subscribe(u, e) PROVE Agreement'
  BY <1>6, ConstantsAssumption DEF Agreement, Subscribe
<1>7. ASSUME NEW u \in Users, NEW es \in SUBSET Endpoints, Unsubscribe(u, es)
      PROVE  Agreement'
  BY <1>7 DEF Agreement, Unsubscribe, ClosedFor, Unregistered
<1> QED
  BY <1>2, <1>3, <1>4, <1>5, <1>6, <1>7

LEMMA DrainAgreement ==
  ASSUME TypeOK, Agreement, Drain PROVE Agreement'
<1>1. PICK S \in Batches : \E F \in SUBSET S : ClaimAndDispatch(S, F)
  BY DEF Drain
<1>2. PICK F \in SUBSET S : ClaimAndDispatch(S, F)
  BY <1>1
<1>3. \A d \in S : /\ d \in Ids
                   /\ subscriber[Endpoint(d)] = User(d)
                   /\ enabled[User(d)]
  BY <1>1 DEF Batches, Due
<1>4. \A d \in S : Claimed(d).state = "claimed" /\ Claimed(d).token \in Tokens
  BY <1>2, <1>3, ClaimedType DEF ClaimAndDispatch, TypeOK
<1>5. \A d \in S : /\ Prepared(User(d), Claimed(d)).state = "claimed"
                   /\ Prepared(User(d), Claimed(d)).token \in Tokens
  <2> SUFFICES ASSUME NEW d \in S
               PROVE  /\ Prepared(User(d), Claimed(d)).state = "claimed"
                      /\ Prepared(User(d), Claimed(d)).token \in Tokens
    OBVIOUS
  <2>1. Claimed(d) \in Row
    BY <1>2, <1>3, ClaimedType DEF ClaimAndDispatch, TypeOK
  <2> QED
    BY <1>3, <1>4, <2>1 DEF Prepared, Row
<1>6. \A d \in Ids : \/ /\ d \in S
                        /\ delivery'[d].state = "claimed"
                        /\ delivery'[d].token \in Tokens
                     \/ delivery'[d] = delivery[d]
  BY <1>2, <1>4, <1>5 DEF ClaimAndDispatch
<1>7. UNCHANGED <<enabled, subscriber>>
  BY <1>2 DEF ClaimAndDispatch
<1> QED
  BY <1>3, <1>6, <1>7, ConstantsAssumption
     DEF Agreement, PauseMatchesPolicy, OpenHasSubscription, TokenIffClaimed

LEMMA RequestAgreement ==
  ASSUME TypeOK, Agreement, NEW s \in sends,
         ProviderAccepts(s) \/ Answered(s) \/ OutcomeNotStored(s)
  PROVE  Agreement'
<1>1. s.id \in Ids
  BY DEF TypeOK, Send
<1>2. ASSUME NEW row, Finish(s, row), UNCHANGED <<enabled, subscriber>>,
             row.token = NoToken,
             row.state \in Closed \cup {"transient_retry"}
      PROVE  Agreement'
  BY <1>1, <1>2 DEF Finish, Holds, Agreement, PauseMatchesPolicy, OpenHasSubscription,
                    TokenIffClaimed, TypeOK, Open, Closed, Claimable
<1>3. CASE ProviderAccepts(s) \/ OutcomeNotStored(s)
  BY <1>3 DEF ProviderAccepts, OutcomeNotStored, database, Agreement, PauseMatchesPolicy,
              OpenHasSubscription, TokenIffClaimed
<1>4. CASE SendSucceeds(s)
  BY <1>2, <1>4, ReleasedFields DEF SendSucceeds, Closed
<1>5. CASE EndpointGone(s)
  <2>1. UNCHANGED enabled
    BY <1>5 DEF EndpointGone, Fails
  <2>2. CASE UNCHANGED <<delivery, subscriber>>
    BY <2>1, <2>2 DEF Agreement, PauseMatchesPolicy, OpenHasSubscription, TokenIffClaimed
  <2>3. CASE /\ delivery' = ClosedFor(User(s.id), {Endpoint(s.id)})
             /\ subscriber' = Unregistered(User(s.id), {Endpoint(s.id)})
    BY <2>1, <2>3, IdsParts, ReleasedFields
       DEF ClosedFor, Unregistered, Agreement, PauseMatchesPolicy, OpenHasSubscription,
           TokenIffClaimed, TypeOK, Open, Claimable
  <2> QED
    BY <1>5, <2>2, <2>3 DEF EndpointGone
<1>6. CASE PermanentFailure(s)
  BY <1>2, <1>6, ReleasedFields DEF PermanentFailure, Fails, Closed
<1>7. CASE Retry(s)
  <2> DEFINE r == [Released(delivery[s.id], "transient_retry")
                     EXCEPT !.due = RetryDelay(delivery[s.id].attempts)]
  <2>1. r.state = "transient_retry" /\ r.token = NoToken
    BY DEF Released
  <2>2. Finish(s, r) /\ UNCHANGED <<enabled, subscriber>>
    BY <1>7 DEF Retry, Fails
  <2> HIDE DEF r
  <2> QED
    BY <1>2, <2>1, <2>2
<1> QED
  BY <1>3, <1>4, <1>5, <1>6, <1>7 DEF Answered

LEMMA ProcessAgreement ==
  ASSUME TypeOK, Agreement, Stop \/ Exit \/ Crash \/ Restart \/ Tick PROVE Agreement'
<1>1. CASE Tick
  <2>1. \A d \in Ids : /\ delivery'[d].state = delivery[d].state
                       /\ delivery'[d].token = delivery[d].token
    BY <1>1 DEF Tick, TypeOK, Row
  <2> QED
    BY <1>1, <2>1 DEF Tick, Agreement, PauseMatchesPolicy, OpenHasSubscription, TokenIffClaimed
<1>2. CASE Stop \/ Exit \/ Crash \/ Restart
  BY <1>2 DEF Stop, Exit, Crash, Dies, Restart, database, Agreement, PauseMatchesPolicy,
              OpenHasSubscription, TokenIffClaimed
<1> QED
  BY <1>1, <1>2

(* The policy switch, the subscriptions and the claim tokens agree with every *)
(* delivery, in every reachable state.                                        *)
THEOREM OutboxSafe == Spec => [](PauseMatchesPolicy /\ OpenHasSubscription /\ TokenIffClaimed)
<1>1. Init => Agreement
  BY DEF Init, NoRow, Agreement, PauseMatchesPolicy, OpenHasSubscription, TokenIffClaimed,
         Open, Claimable
<1>2. TypeOK /\ Agreement /\ [Next]_vars => Agreement'
  <2> SUFFICES ASSUME TypeOK, Agreement, [Next]_vars PROVE Agreement'
    OBVIOUS
  <2>1. CASE UNCHANGED vars
    BY <2>1 DEF vars, database, Agreement, PauseMatchesPolicy, OpenHasSubscription, TokenIffClaimed
  <2>2. CASE Wake \/ WakeDuringDrain \/ DrainAgain \/ DrainEnds
    <3>1. CASE Drain
      BY <3>1, DrainAgreement
    <3>2. CASE UNCHANGED database
      BY <3>2 DEF database, Agreement, PauseMatchesPolicy, OpenHasSubscription, TokenIffClaimed
    <3> QED
      BY <2>2, <3>1, <3>2 DEF Wake, WakeDuringDrain, DrainAgain, DrainEnds
  <2> QED
    BY <2>1, <2>2, OwnerAgreement, RequestAgreement, ProcessAgreement DEF Next
<1> QED
  BY <1>1, <1>2, TypeCorrect, PTL DEF Spec, Agreement

-----------------------------------------------------------------------------
(* A delivery has its decision, a push the provider took is counted, and a    *)
(* closed delivery keeps its state: inserts meet no row, claims take due rows  *)
(* only, and a stored outcome needs a claim.                                  *)

AcceptedWasPushed == \A s \in sends : s.phase = "accepted" => pushes[s.id] > 0

Evidence == AcknowledgedWasPushed /\ AcceptedWasPushed

ClosedKept == \A d \in Ids : delivery[d].state \in Closed => delivery'[d].state = delivery[d].state

LEMMA OwnerEvidence ==
  ASSUME TypeOK, Evidence,
         \/ \E u \in Users, k \in Occurrences : CreateApplicationDecision(u, k)
         \/ \E W \in SUBSET Users, k \in Occurrences : RecordTerminalDecision(W, k)
         \/ \E u \in Users : Resume(u) \/ Pause(u)
         \/ \E u \in Users, e \in Endpoints : Subscribe(u, e)
         \/ \E u \in Users, es \in SUBSET Endpoints : Unsubscribe(u, es)
  PROVE  Evidence' /\ ClosedKept
<1> USE ReleasedFields
    DEF AcknowledgedWasPushed, AcceptedWasPushed, ClosedKept, Closed, Open, Claimable, TypeOK
<1>1. ASSUME NEW D, InsertDecisions(D), D \cap outbox = {}
      PROVE  Evidence' /\ ClosedKept
  <2>1. \A d \in Ids : Decision(d) \in D => delivery[d].state = "absent"
    BY <1>1 DEF Evidence
  <2>2. \A d \in Ids : \/ delivery'[d] = delivery[d]
                       \/ Decision(d) \in D /\ delivery'[d].state = "pending"
    BY <1>1 DEF InsertDecisions, Inserted
  <2> QED
    BY <1>1, <2>1, <2>2 DEF Evidence, InsertDecisions, dispatcher, history
<1>2. ASSUME NEW u \in Users, NEW k \in Occurrences, CreateApplicationDecision(u, k)
      PROVE  Evidence' /\ ClosedKept
  BY <1>1, <1>2 DEF CreateApplicationDecision
<1>3. ASSUME NEW W \in SUBSET Users, NEW k \in Occurrences, RecordTerminalDecision(W, k)
      PROVE  Evidence' /\ ClosedKept
  BY <1>1, <1>3 DEF RecordTerminalDecision
<1>4. ASSUME delivery' \in [Ids -> Row], UNCHANGED <<outbox, dispatcher, history>>,
             \A d \in Ids : \/ delivery'[d] = delivery[d]
                            \/ /\ delivery[d].state \in Open
                               /\ delivery'[d].state \in {"pending", "paused_global", "endpoint_removed"}
      PROVE  Evidence' /\ ClosedKept
  BY <1>4 DEF Evidence, dispatcher, history
<1>5. ASSUME NEW u \in Users, Resume(u) PROVE Evidence' /\ ClosedKept
  BY <1>4, <1>5, OwnerType DEF Resume
<1>6. ASSUME NEW u \in Users, Pause(u) PROVE Evidence' /\ ClosedKept
  BY <1>4, <1>6, OwnerType DEF Pause
<1>7. ASSUME NEW u \in Users, NEW e \in Endpoints, Subscribe(u, e) PROVE Evidence' /\ ClosedKept
  BY <1>4, <1>7 DEF Subscribe
<1>8. ASSUME NEW u \in Users, NEW es \in SUBSET Endpoints, Unsubscribe(u, es)
      PROVE  Evidence' /\ ClosedKept
  BY <1>4, <1>8, ClosedForType DEF Unsubscribe, ClosedFor
<1> QED
  BY <1>2, <1>3, <1>5, <1>6, <1>7, <1>8

LEMMA DrainEvidence ==
  ASSUME TypeOK, Evidence, Drain PROVE Evidence' /\ ClosedKept
<1>1. PICK S \in Batches : \E F \in SUBSET S : ClaimAndDispatch(S, F)
  BY DEF Drain
<1>2. PICK F \in SUBSET S : ClaimAndDispatch(S, F)
  BY <1>1
<1>3. \A d \in S : d \in Ids /\ enabled[User(d)] /\ delivery[d].state \in Claimable \cup {"claimed"}
  BY <1>1 DEF Batches, Due, IsDue
<1>4. \A d \in S : /\ Claimed(d).state = "claimed"
                   /\ Prepared(User(d), Claimed(d)).state = "claimed"
  <2> SUFFICES ASSUME NEW d \in S
               PROVE  /\ Claimed(d).state = "claimed"
                      /\ Prepared(User(d), Claimed(d)).state = "claimed"
    OBVIOUS
  <2>1. Claimed(d) \in Row /\ Claimed(d).state = "claimed"
    BY <1>2, <1>3, ClaimedType DEF ClaimAndDispatch, TypeOK
  <2> QED
    BY <1>3, <2>1 DEF Prepared, Row
<1>5. \A d \in Ids : \/ /\ delivery[d].state \in Claimable \cup {"claimed"}
                        /\ delivery'[d].state = "claimed"
                     \/ delivery'[d] = delivery[d]
  BY <1>2, <1>3, <1>4 DEF ClaimAndDispatch
<1>6. \A s \in sends' : s \in sends \/ s.phase = "sending"
  BY <1>2 DEF ClaimAndDispatch, Started
<1>7. UNCHANGED <<outbox, pushes>>
  BY <1>2 DEF ClaimAndDispatch
<1> QED
  BY <1>5, <1>6, <1>7
     DEF Evidence, AcknowledgedWasPushed, AcceptedWasPushed, ClosedKept, Closed, Claimable

LEMMA RequestEvidence ==
  ASSUME TypeOK, Evidence, NEW s \in sends,
         ProviderAccepts(s) \/ Answered(s) \/ OutcomeNotStored(s)
  PROVE  Evidence' /\ ClosedKept
<1>1. s.id \in Ids /\ s \in Send
  BY DEF TypeOK, Send
<1>2. ASSUME NEW row, Finish(s, row), UNCHANGED <<outbox, pushes>>, sends' \subseteq sends,
             row.state # "acknowledged" \/ s.phase = "accepted"
      PROVE  Evidence' /\ ClosedKept
  BY <1>1, <1>2 DEF Finish, Holds, Evidence, AcknowledgedWasPushed, AcceptedWasPushed,
                    ClosedKept, Closed, TypeOK
<1>3. CASE ProviderAccepts(s)
  <2>1. /\ pushes' = [pushes EXCEPT ![s.id] = Least(2, pushes[s.id] + 1)]
        /\ UNCHANGED <<outbox, delivery>>
    BY <1>3 DEF ProviderAccepts, database
  <2>2. Least(2, pushes[s.id] + 1) > 0
    BY <1>1 DEF Least, TypeOK
  <2>3. \A d \in Ids : pushes[d] > 0 => pushes'[d] > 0
    BY <2>1, <2>2 DEF TypeOK
  <2>4. pushes'[s.id] > 0
    BY <1>1, <2>1, <2>2 DEF TypeOK
  <2>5. \A t \in sends' : t \in sends \/ t.id = s.id
    BY <1>1, <1>3 DEF ProviderAccepts, Send
  <2>6. \A t \in sends : t.id \in Ids
    BY DEF TypeOK, Send
  <2>7. AcceptedWasPushed'
    BY <2>3, <2>4, <2>5, <2>6 DEF Evidence, AcceptedWasPushed
  <2> QED
    BY <2>1, <2>3, <2>7 DEF Evidence, AcknowledgedWasPushed, ClosedKept
<1>4. CASE OutcomeNotStored(s)
  BY <1>4 DEF OutcomeNotStored, database, Evidence, AcknowledgedWasPushed, AcceptedWasPushed,
              ClosedKept
<1>5. CASE SendSucceeds(s)
  <2>1. UNCHANGED <<outbox, pushes>> /\ sends' \subseteq sends /\ s.phase = "accepted"
    BY <1>5 DEF SendSucceeds, Leave
  <2> QED
    BY <1>2, <1>5, <2>1 DEF SendSucceeds
<1>6. ASSUME Fails(s) PROVE UNCHANGED <<outbox, pushes>> /\ sends' \subseteq sends
  BY <1>6 DEF Fails, Leave
<1>7. CASE EndpointGone(s)
  <2>1. UNCHANGED <<outbox, pushes>> /\ sends' \subseteq sends
    BY <1>6, <1>7 DEF EndpointGone
  <2>2. delivery' = delivery \/ delivery' = ClosedFor(User(s.id), {Endpoint(s.id)})
    BY <1>7 DEF EndpointGone
  <2>3. \A d \in Ids : \/ delivery'[d] = delivery[d]
                       \/ delivery[d].state \in Open /\ delivery'[d].state = "endpoint_removed"
    BY <2>2, ReleasedFields DEF ClosedFor
  <2> QED
    BY <2>1, <2>3 DEF Evidence, AcknowledgedWasPushed, AcceptedWasPushed, ClosedKept, Closed,
                      Open, Claimable
<1>8. CASE PermanentFailure(s)
  BY <1>2, <1>6, <1>8, ReleasedFields DEF PermanentFailure
<1>9. CASE Retry(s)
  <2> DEFINE r == [Released(delivery[s.id], "transient_retry")
                     EXCEPT !.due = RetryDelay(delivery[s.id].attempts)]
  <2>1. r.state = "transient_retry"
    BY DEF Released
  <2>2. Finish(s, r) /\ UNCHANGED <<outbox, pushes>> /\ sends' \subseteq sends
    BY <1>6, <1>9 DEF Retry
  <2> HIDE DEF r
  <2> QED
    BY <1>2, <2>1, <2>2
<1> QED
  BY <1>3, <1>4, <1>5, <1>7, <1>8, <1>9 DEF Answered

LEMMA ProcessEvidence ==
  ASSUME TypeOK, Evidence,
         Stop \/ Exit \/ Crash \/ Restart \/ Tick \/ WakeDuringDrain \/ DrainEnds \/ UNCHANGED vars
  PROVE  Evidence' /\ ClosedKept
<1>1. \A d \in Ids : delivery'[d].state = delivery[d].state
  <2>1. CASE Tick
    BY <2>1 DEF Tick, TypeOK, Row
  <2>2. CASE Stop \/ Exit \/ Crash \/ Restart \/ WakeDuringDrain \/ DrainEnds \/ UNCHANGED vars
    BY <2>2 DEF Stop, Exit, Crash, Dies, Restart, WakeDuringDrain, DrainEnds, vars, database
  <2> QED
    BY <2>1, <2>2
<1>2. UNCHANGED <<outbox, pushes>> /\ sends' \subseteq sends
  BY DEF Tick, Stop, Exit, Crash, Dies, Restart, WakeDuringDrain, DrainEnds, vars, database,
         dispatcher, history
<1> QED
  BY <1>1, <1>2 DEF Evidence, AcknowledgedWasPushed, AcceptedWasPushed, ClosedKept

LEMMA StepEvidence ==
  ASSUME TypeOK, Evidence, [Next]_vars PROVE Evidence' /\ ClosedKept
<1>1. CASE Wake \/ DrainAgain
  BY <1>1, DrainEvidence DEF Wake, DrainAgain
<1> QED
  BY <1>1, OwnerEvidence, RequestEvidence, ProcessEvidence DEF Next

(* Every delivery belongs to a stored decision, and an acknowledged one was   *)
(* taken by the push provider: the dispatcher never closes as sent what it    *)
(* did not send.                                                              *)
THEOREM AcknowledgedPushed == Spec => []AcknowledgedWasPushed
<1>1. Init => Evidence
  BY DEF Init, NoRow, Evidence, AcknowledgedWasPushed, AcceptedWasPushed
<1> QED
  BY <1>1, StepEvidence, TypeCorrect, PTL DEF Spec, Evidence

(* What is acknowledged, refused or removed is never opened again, whatever   *)
(* late answers, pauses, lease expiries and restarts follow.                  *)
THEOREM ClosedStaysClosed == Spec => ClosedForGood
<1>1. Init => Evidence
  BY DEF Init, NoRow, Evidence, AcknowledgedWasPushed, AcceptedWasPushed
<1>2. TypeOK /\ Evidence /\ [Next]_vars => [ClosedKept]_vars
  BY StepEvidence
<1>3. ClosedForGood <=> [][ClosedKept]_vars
  BY PTL DEF ClosedForGood, ClosedKept
<1> QED
  BY <1>1, <1>2, <1>3, StepEvidence, TypeCorrect, PTL DEF Spec

(* Every open delivery has the subscription it was created for, so that a     *)
(* claim finds it and no other user's endpoint receives it.                   *)
THEOREM OpenStaysSubscribed == Spec => []OpenHasSubscription
BY OutboxSafe, PTL

-----------------------------------------------------------------------------
(* At most one push, before the first fault and where nobody pauses: every    *)
(* request is one the drain waits for, there is one of a delivery, and its    *)
(* row stays claimed under its token or is closed for good; so a row that is   *)
(* claimed anew was never pushed.                                             *)

Awaited ==
  /\ process = "running" /\ sends = batch /\ (~draining => batch = {})
  /\ \A s, t \in sends : s.id = t.id => s = t

Pushed ==
  /\ \A s \in sends : Holds(s) \/ delivery[s.id].state \in Closed
  /\ \A s \in sends : s.phase = "sending" => pushes[s.id] = 0
  /\ \A d \in Ids : pushes[d] > 0 => \/ delivery[d].state \in Closed
                                     \/ \E s \in sends : s.id = d /\ s.phase = "accepted"
  /\ \A d \in Ids : pushes[d] <= 1

SingleFlight == faults = 0 => Awaited /\ Pushed

\* A step keeps that is quiet about the requests, and closes or creates rows at most.
LEMMA QuietFlight ==
  ASSUME TypeOK, SingleFlight, UNCHANGED <<process, draining, sends, batch, faults, pushes>>,
         \A d \in Ids : \/ /\ delivery'[d].state = delivery[d].state
                           /\ delivery'[d].token = delivery[d].token
                        \/ delivery'[d].state \in Closed
                        \/ delivery[d].state \in {"absent", "paused_global"}
  PROVE  SingleFlight'
<1> SUFFICES ASSUME faults = 0 PROVE Awaited' /\ Pushed'
  BY DEF SingleFlight
<1>1. Awaited /\ Pushed
  BY DEF SingleFlight
<1>2. Awaited'
  BY <1>1 DEF Awaited
<1>3. \A s \in sends : s.id \in Ids
  BY DEF TypeOK, Send
<1>4. Pushed'
  BY <1>1, <1>3 DEF Pushed, Holds, Closed
<1> QED BY <1>2, <1>4

LEMMA OwnerFlight ==
  ASSUME "pause" \notin Disturbances, TypeOK, Evidence, SingleFlight,
         \/ \E u \in Users, k \in Occurrences : CreateApplicationDecision(u, k)
         \/ \E W \in SUBSET Users, k \in Occurrences : RecordTerminalDecision(W, k)
         \/ \E u \in Users : Resume(u) \/ Pause(u)
         \/ \E u \in Users, e \in Endpoints : Subscribe(u, e)
         \/ \E u \in Users, es \in SUBSET Endpoints : Unsubscribe(u, es)
  PROVE  SingleFlight'
<1> USE DEF dispatcher, history
<1>1. ASSUME NEW D, InsertDecisions(D), D \cap outbox = {} PROVE SingleFlight'
  <2>1. \A d \in Ids : Decision(d) \in D => delivery[d].state = "absent"
    BY <1>1 DEF Evidence, AcknowledgedWasPushed
  <2>2. \A d \in Ids : delivery'[d] = delivery[d] \/ delivery[d].state = "absent"
    BY <1>1, <2>1 DEF InsertDecisions, Inserted
  <2> QED BY <1>1, <2>2, QuietFlight DEF InsertDecisions
<1>2. ASSUME NEW u \in Users, NEW k \in Occurrences, CreateApplicationDecision(u, k)
      PROVE  SingleFlight'
  BY <1>1, <1>2 DEF CreateApplicationDecision
<1>3. ASSUME NEW W \in SUBSET Users, NEW k \in Occurrences, RecordTerminalDecision(W, k)
      PROVE  SingleFlight'
  BY <1>1, <1>3 DEF RecordTerminalDecision
<1>4. ASSUME NEW u \in Users, Resume(u) PROVE SingleFlight'
  <2>1. \A d \in Ids : delivery'[d] = delivery[d] \/ delivery[d].state = "paused_global"
    BY <1>4 DEF Resume
  <2> QED BY <1>4, <2>1, QuietFlight DEF Resume
<1>5. ASSUME NEW u \in Users, Pause(u) PROVE SingleFlight'
  BY <1>5 DEF Pause
<1>6. ASSUME NEW u \in Users, NEW e \in Endpoints, Subscribe(u, e) PROVE SingleFlight'
  BY <1>6, QuietFlight DEF Subscribe
<1>7. ASSUME NEW u \in Users, NEW es \in SUBSET Endpoints, Unsubscribe(u, es)
      PROVE  SingleFlight'
  <2>1. \A d \in Ids : delivery'[d] = delivery[d] \/ delivery'[d].state = "endpoint_removed"
    BY <1>7, ReleasedFields DEF Unsubscribe, ClosedFor
  <2> QED BY <1>7, <2>1, QuietFlight DEF Unsubscribe, Closed
<1> QED BY <1>2, <1>3, <1>4, <1>5, <1>6, <1>7

LEMMA DrainFlight ==
  ASSUME TypeOK, SingleFlight, Drain, faults = 0 => batch = {}
  PROVE  SingleFlight'
<1> SUFFICES ASSUME faults' = 0 PROVE Awaited' /\ Pushed'
  BY DEF SingleFlight
<1>1. PICK S \in Batches : ClaimAndDispatch(S, {}) /\ UNCHANGED faults
  BY DEF Drain, TypeOK
<1>2. Awaited /\ Pushed /\ sends = {}
  BY <1>1 DEF SingleFlight, Awaited
<1>3. \A d \in S : d \in Ids /\ enabled[User(d)] /\ delivery[d].state \in Claimable \cup {"claimed"}
  BY <1>1 DEF Batches, Due, IsDue
<1>4. ASSUME NEW d \in S
      PROVE  /\ Prepared(User(d), Claimed(d)).state = "claimed"
             /\ Prepared(User(d), Claimed(d)).token = NewToken(d)
             /\ pushes[d] = 0
  <2>1. Claimed(d) \in Row /\ Claimed(d).state = "claimed" /\ Claimed(d).token = NewToken(d)
    BY <1>1, <1>3, ClaimedType DEF ClaimAndDispatch, TypeOK
  <2>2. pushes[d] = 0
    BY <1>2, <1>3 DEF Pushed, TypeOK, Claimable, Closed
  <2> QED BY <1>3, <2>1, <2>2 DEF Prepared, Row
<1>5. /\ delivery' = [d \in Ids |-> IF d \in S THEN Prepared(User(d), Claimed(d)) ELSE delivery[d]]
      /\ sends' = Started(S) /\ batch' = Started(S) /\ draining' = TRUE
      /\ UNCHANGED <<process, pushes>>
  BY <1>1, <1>2 DEF ClaimAndDispatch
<1>6. \A s \in sends' : /\ s.id \in S /\ s.token = NewToken(s.id) /\ s.phase = "sending"
                        /\ s = [id |-> s.id, token |-> NewToken(s.id), phase |-> "sending"]
  BY <1>5 DEF Started
<1>7. Awaited'
  BY <1>2, <1>5, <1>6 DEF Awaited
<1>8. Pushed'
  BY <1>2, <1>3, <1>4, <1>5, <1>6 DEF Pushed, Holds, Claimable, Closed
<1> QED BY <1>7, <1>8

LEMMA RequestFlight ==
  ASSUME TypeOK, SingleFlight, NEW s \in sends,
         ProviderAccepts(s) \/ Answered(s) \/ OutcomeNotStored(s)
  PROVE  SingleFlight'
<1> SUFFICES ASSUME faults' = 0 PROVE Awaited' /\ Pushed'
  BY DEF SingleFlight
<1>1. /\ s.id \in Ids /\ s \in Send /\ faults \in Nat /\ delivery \in [Ids -> Row]
      /\ pushes \in [Ids -> 0..2] /\ \A t \in sends : t.id \in Ids /\ t \in Send
  BY DEF TypeOK, Send
<1>2. faults = 0 /\ UNCHANGED faults /\ ~OutcomeNotStored(s)
  BY <1>1 DEF ProviderAccepts, Answered, SendSucceeds, EndpointGone, PermanentFailure, Retry, OutcomeNotStored
<1>3. Awaited /\ Pushed
  BY <1>2 DEF SingleFlight
<1>4. CASE ProviderAccepts(s)
  <2> DEFINE t == [s EXCEPT !.phase = "accepted"]
  <2>1. t.id = s.id /\ t.token = s.token /\ t.phase = "accepted"
    BY <1>1 DEF Send
  <2>2. /\ sends' = (sends \ {s}) \cup {t} /\ s.phase = "sending"
        /\ pushes' = [pushes EXCEPT ![s.id] = Least(2, pushes[s.id] + 1)]
        /\ UNCHANGED <<delivery, process, draining>>
        /\ batch' = sends'
    BY <1>3, <1>4 DEF ProviderAccepts, database, Awaited
  <2> HIDE DEF t
  <2>3. pushes[s.id] = 0 /\ pushes' = [pushes EXCEPT ![s.id] = 1]
    <3>1. pushes[s.id] = 0
      BY <1>3, <2>2 DEF Pushed
    <3>2. Least(2, 0 + 1) = 1
      BY DEF Least
    <3> QED BY <2>2, <3>1, <3>2
  <2>4. \A r \in sends : r.id = s.id => r = s
    BY <1>3 DEF Awaited
  <2>5. Awaited'
    BY <1>3, <2>1, <2>2, <2>4 DEF Awaited
  <2>6. Pushed'
    <3>1. \A r \in sends' : Holds(r)' \/ delivery'[r.id].state \in Closed
      BY <1>3, <2>1, <2>2 DEF Pushed, Holds
    <3>2. \A r \in sends' : r.phase = "sending" => pushes'[r.id] = 0
      BY <1>1, <1>3, <2>1, <2>2, <2>3, <2>4 DEF Pushed
    <3>3. \A d \in Ids : pushes'[d] > 0 => \/ delivery'[d].state \in Closed
                                           \/ \E r \in sends' : r.id = d /\ r.phase = "accepted"
      BY <1>1, <1>3, <2>1, <2>2, <2>3 DEF Pushed
    <3>4. \A d \in Ids : pushes'[d] <= 1
      BY <1>1, <1>3, <2>3 DEF Pushed
    <3> QED BY <3>1, <3>2, <3>3, <3>4 DEF Pushed
  <2> QED BY <2>5, <2>6
\* An answer ends the request; the row it held is closed, or the push was not taken.
<1>5. ASSUME Leave(s), UNCHANGED <<process, draining, pushes>>,
             \A d \in Ids : delivery'[d] = delivery[d] \/ delivery'[d].state \in Closed \cup {"transient_retry"},
             \A d \in Ids : d # s.id => delivery'[d] = delivery[d] \/ delivery'[d].state \in Closed,
             delivery[s.id].state \in Closed => delivery'[s.id].state \in Closed,
             s.phase = "accepted" => delivery'[s.id].state \in Closed
      PROVE  Awaited' /\ Pushed'
  <2>1. sends' = sends \ {s} /\ batch' = sends'
    BY <1>3, <1>5 DEF Leave, Awaited
  <2>2. \A r \in sends' : r \in sends /\ r.id # s.id
    BY <1>3, <2>1 DEF Awaited
  <2>3. Awaited'
    BY <1>3, <1>5, <2>1 DEF Awaited
  <2>4. \A r \in sends' : Holds(r)' \/ delivery'[r.id].state \in Closed
    BY <1>1, <1>3, <1>5, <2>2 DEF Pushed, Holds
  <2>5. \A d \in Ids : pushes'[d] > 0 => \/ delivery'[d].state \in Closed
                                         \/ \E r \in sends' : r.id = d /\ r.phase = "accepted"
    <3> SUFFICES ASSUME NEW d \in Ids, pushes[d] > 0, delivery'[d].state \notin Closed
                 PROVE  \E r \in sends' : r.id = d /\ r.phase = "accepted"
      BY <1>5
    <3>1. delivery[d].state \notin Closed
      BY <1>5
    <3>2. PICK r \in sends : r.id = d /\ r.phase = "accepted"
      BY <1>3, <3>1 DEF Pushed
    <3>3. r # s
      BY <1>5, <3>2
    <3> QED BY <2>1, <3>2, <3>3
  <2>6. Pushed'
    BY <1>3, <1>5, <2>2, <2>4, <2>5 DEF Pushed
  <2> QED BY <2>3, <2>6
<1>6. ASSUME NEW row, Finish(s, row), row.state \in Closed \cup {"transient_retry"},
             s.phase = "accepted" => row.state \in Closed,
             Leave(s), UNCHANGED <<process, draining, pushes>>
      PROVE  Awaited' /\ Pushed'
  <2>1. Holds(s) \/ delivery[s.id].state \in Closed
    BY <1>3 DEF Pushed
  <2>2. \/ Holds(s) /\ delivery' = [delivery EXCEPT ![s.id] = row]
        \/ ~Holds(s) /\ delivery' = delivery
    BY <1>6 DEF Finish
  <2>3. Holds(s) => delivery[s.id].state \notin Closed
    BY DEF Holds, Closed
  <2> QED BY <1>1, <1>5, <1>6, <2>1, <2>2, <2>3
<1>7. CASE SendSucceeds(s)
  BY <1>6, <1>7, ReleasedFields DEF SendSucceeds, Closed
<1>8. CASE EndpointGone(s)
  <2>1. s.phase = "sending" /\ Leave(s) /\ UNCHANGED <<process, draining, pushes>>
    BY <1>8 DEF EndpointGone, Fails
  <2>2. \A d \in Ids : delivery'[d] = delivery[d] \/ delivery'[d].state \in Closed
    BY <1>8, ReleasedFields DEF EndpointGone, ClosedFor, Closed
  <2>3. delivery[s.id].state \in Closed => delivery'[s.id].state \in Closed
    BY <1>1, <2>2
  <2> QED BY <1>5, <2>1, <2>2, <2>3
<1>9. CASE PermanentFailure(s)
  BY <1>6, <1>9, ReleasedFields DEF PermanentFailure, Fails, Closed
<1>10. CASE Retry(s)
  <2> DEFINE r == [Released(delivery[s.id], "transient_retry")
                     EXCEPT !.due = RetryDelay(delivery[s.id].attempts)]
  <2>1. r.state = "transient_retry"
    BY DEF Released
  <2>2. s.phase = "sending"
    BY <1>1, <1>2, <1>10 DEF Retry
  <2>3. Finish(s, r) /\ Leave(s) /\ UNCHANGED <<process, draining, pushes>>
    BY <1>10 DEF Retry, Fails
  <2> HIDE DEF r
  <2> QED BY <1>6, <2>1, <2>2, <2>3
<1> QED BY <1>2, <1>4, <1>7, <1>8, <1>9, <1>10 DEF Answered

LEMMA ProcessFlight ==
  ASSUME TypeOK, SingleFlight,
         Stop \/ Exit \/ Crash \/ Restart \/ Tick \/ WakeDuringDrain \/ DrainEnds \/ UNCHANGED vars
  PROVE  SingleFlight'
<1>1. CASE Tick
  <2>1. \A d \in Ids : /\ delivery'[d].state = delivery[d].state
                       /\ delivery'[d].token = delivery[d].token
    BY <1>1 DEF Tick, TypeOK, Row
  <2> QED BY <1>1, <2>1, QuietFlight DEF Tick, dispatcher, history
<1>2. CASE Stop \/ Exit \/ Crash \/ Restart
  BY <1>2 DEF Stop, Exit, Crash, Restart, Dies, SingleFlight, Awaited, TypeOK, history
<1>3. CASE WakeDuringDrain \/ UNCHANGED vars
  BY <1>3, QuietFlight DEF WakeDuringDrain, vars, database, dispatcher, history
<1>4. CASE DrainEnds
  BY <1>4 DEF DrainEnds, SingleFlight, Awaited, Pushed, Holds, database, history
<1> QED BY <1>1, <1>2, <1>3, <1>4

(* With no pause and before the first fault, the provider takes at most one   *)
(* push of a delivery, however slow the request and however short the lease.  *)
THEOREM PushedAtMostOnce == Spec => []AtMostOnePush
<1>1. CASE "pause" \in Disturbances
  <2>1. AtMostOnePush
    BY <1>1 DEF AtMostOnePush
  <2> QED BY <2>1, PTL
<1>2. CASE "pause" \notin Disturbances
  <2>1. Init => SingleFlight
    BY DEF Init, SingleFlight, Awaited, Pushed
  <2>2. TypeOK /\ Evidence /\ SingleFlight /\ [Next]_vars => SingleFlight'
    <3> SUFFICES ASSUME TypeOK, Evidence, SingleFlight, [Next]_vars PROVE SingleFlight'
      OBVIOUS
    <3>1. CASE Wake
      BY <3>1, DrainFlight DEF Wake, SingleFlight, Awaited
    <3>2. CASE DrainAgain
      BY <3>2, DrainFlight DEF DrainAgain
    <3> QED BY <1>2, <3>1, <3>2, OwnerFlight, RequestFlight, ProcessFlight DEF Next
  <2>3. Init => Evidence
    BY DEF Init, NoRow, Evidence, AcknowledgedWasPushed, AcceptedWasPushed
  <2>4. SingleFlight => AtMostOnePush
    BY DEF SingleFlight, Pushed, AtMostOnePush
  <2> QED BY <2>1, <2>2, <2>3, <2>4, StepEvidence, TypeCorrect, PTL DEF Spec
<1> QED BY <1>1, <1>2
=============================================================================
