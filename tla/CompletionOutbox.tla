-------------------------- MODULE CompletionOutbox --------------------------
(***************************************************************************)
(* The durable outbox of completion notifications and the dispatcher that  *)
(* drains it: a decision inserts one delivery per push subscription of its  *)
(* owner; the dispatcher claims due deliveries under a lease, pushes them   *)
(* outside the database, and stores the outcome by compare-and-swap on the  *)
(* claim token, while the owner pauses, resumes, subscribes and             *)
(* unsubscribes and the process may stop or crash.                          *)
(*                                                                          *)
(* Times are remaining times: the clock is the action Tick, which lowers    *)
(* every lease and every retry delay, so that it can run for ever.          *)
(***************************************************************************)
EXTENDS Integers, FiniteSets

CONSTANTS
  Users,         \* rows of "users"
  Endpoints,     \* push endpoints, each registered to one user at most
  Occurrences,   \* what a decision key names: a conversation and its evidence
  NoUser,        \* an endpoint with no subscription
  Tokens,        \* claim tokens (UUIDs), compared only together with an id
  NoToken,
  MaxClaims,     \* claims of one claimDue (100 in the code)
  Lease,         \* claim lease, in ticks (30 s in the code)
  RetryBase,     \* first retry delay, in ticks (5 s in the code)
  RetryCap,      \* largest retry delay, in ticks (1 h in the code)
  MaxAttempts,   \* bound: attempt_count saturates here
  MaxFaults,     \* bound: crashes and store errors in one behaviour
  Disturbances   \* what this instance lets happen, a subset of the list below

AllDisturbances == {"pause", "unsubscribe", "crash", "storeError", "ackError", "lostReply"}

ASSUME ConstantsAssumption ==
  /\ NoUser \notin Users
  /\ NoToken \notin Tokens
  /\ MaxClaims \in Nat \ {0}
  /\ Lease \in Nat \ {0}
  /\ RetryBase \in Nat \ {0}
  /\ RetryCap \in Nat
  /\ RetryBase <= RetryCap
  /\ MaxAttempts \in Nat \ {0}
  /\ MaxFaults \in Nat
  /\ Disturbances \subseteq AllDisturbances

VARIABLES
  outbox,        \* rows of completion_notification_outbox: (user, occurrence)
  delivery,      \* rows of completion_notification_deliveries
  enabled,       \* completion_notification_policy and channels.webPush, per user
  subscriber,    \* push_subscriptions: the user an endpoint is registered to
  process,       \* the server process that runs the dispatcher
  draining,      \* the dispatcher's "draining" promise is set
  wakeRequested, \* a wake arrived during the drain
  full,          \* the drain's last claim returned MaxClaims deliveries
  sends,         \* push requests of this process whose promise has not settled
  batch,         \* the ones the drain's Promise.all still waits for
  faults,        \* crashes, stops, store errors and lost replies so far
  pushes         \* history: pushes the provider took for a delivery, up to 2

database == <<outbox, delivery, enabled, subscriber>>
dispatcher == <<process, draining, wakeRequested, full, sends, batch>>
history == <<faults, pushes>>
vars == <<database, dispatcher, history>>

(* A delivery is identified by its decision and by the endpoint at creation. *)
Ids == Users \X Occurrences \X Endpoints
User(d) == d[1]
Decision(d) == <<d[1], d[2]>>
Endpoint(d) == d[3]

Claimable == {"pending", "transient_retry"}
Open == Claimable \cup {"claimed", "paused_global"}
Closed == {"acknowledged", "endpoint_removed", "permanent_failed"}
States == Open \cup Closed \cup {"absent"}

Row == [state : States, token : Tokens \cup {NoToken}, lease : 0..Lease,
        due : 0..RetryCap, attempts : 0..MaxAttempts]
Send == [id : Ids, token : Tokens, phase : {"sending", "accepted"}]

NoRow == [state |-> "absent", token |-> NoToken, lease |-> 0, due |-> 0, attempts |-> 0]

Released(row, s) ==
  [state |-> s, token |-> NoToken, lease |-> 0, due |-> 0, attempts |-> row.attempts]

Least(a, b) == IF a <= b THEN a ELSE b

(* The first attempt waits RetryBase, each further one twice as long, ten     *)
(* doublings at most.                                                        *)
Doublings == <<1, 2, 4, 8, 16, 32, 64, 128, 256, 512, 1024>>
RetryDelay(n) == Least(RetryCap, RetryBase * Doublings[Least(IF n = 0 THEN 1 ELSE n, 11)])

Init ==
  /\ outbox = {}
  /\ delivery = [d \in Ids |-> NoRow]
  /\ enabled = [u \in Users |-> FALSE]
  /\ subscriber = [e \in Endpoints |-> NoUser]
  /\ process = "running"
  /\ draining = FALSE /\ wakeRequested = FALSE /\ full = FALSE
  /\ sends = {} /\ batch = {}
  /\ faults = 0
  /\ pushes = [d \in Ids |-> 0]

Up == process # "down"

-----------------------------------------------------------------------------
(* Decisions: each inserts its outbox row and one pending delivery per       *)
(* subscription of the owner, in one transaction.                            *)

Inserted(decisions) ==
  [d \in Ids |-> IF Decision(d) \in decisions /\ subscriber[Endpoint(d)] = User(d)
                 THEN Released(NoRow, "pending")
                 ELSE delivery[d]]

InsertDecisions(decisions) ==
  /\ outbox' = outbox \cup decisions
  /\ delivery' = Inserted(decisions)
  /\ UNCHANGED <<enabled, subscriber, dispatcher, history>>

\* The watch and the active session are gates outside this module: when one
\* is closed nothing is written.
CreateApplicationDecision(u, k) ==
  /\ Up
  /\ <<u, k>> \notin outbox
  /\ enabled[u]
  /\ InsertDecisions({<<u, k>>})

RecordTerminalDecision(watchers, k) ==
  /\ Up
  /\ \A u \in Users : <<u, k>> \notin outbox
  /\ InsertDecisions({<<u, k>> : u \in {v \in watchers : enabled[v]}})

-----------------------------------------------------------------------------
(* What the owner does.                                                      *)

\* Faulty variant: the policy is switched on, the paused deliveries stay paused.
ResumePolicyOnly(u) ==
  /\ Up
  /\ enabled' = [enabled EXCEPT ![u] = TRUE]
  /\ UNCHANGED <<outbox, delivery, subscriber, dispatcher, history>>

Resume(u) ==
  /\ Up
  /\ enabled' = [enabled EXCEPT ![u] = TRUE]
  /\ delivery' = [d \in Ids |->
       IF User(d) = u /\ delivery[d].state = "paused_global"
       THEN Released(delivery[d], "pending") ELSE delivery[d]]
  /\ UNCHANGED <<outbox, subscriber, dispatcher, history>>

Pause(u) ==
  /\ Up
  /\ "pause" \in Disturbances
  /\ enabled' = [enabled EXCEPT ![u] = FALSE]
  /\ delivery' = [d \in Ids |->
       IF User(d) = u /\ delivery[d].state \in Claimable \cup {"claimed"}
       THEN Released(delivery[d], "paused_global") ELSE delivery[d]]
  /\ UNCHANGED <<outbox, subscriber, dispatcher, history>>

Subscribe(u, e) ==
  /\ Up
  /\ subscriber[e] = NoUser  \* a refresh changes only the keys; another owner's is refused
  /\ subscriber' = [subscriber EXCEPT ![e] = u]
  /\ UNCHANGED <<outbox, delivery, enabled, dispatcher, history>>

\* Faulty variant: only the deliveries that wait for a claim are closed.
ClosedForWaiting(u, es) ==
  [d \in Ids |-> IF User(d) = u /\ Endpoint(d) \in es /\ delivery[d].state \in Claimable
                 THEN Released(delivery[d], "endpoint_removed") ELSE delivery[d]]

ClosedFor(u, es) ==
  [d \in Ids |-> IF User(d) = u /\ Endpoint(d) \in es /\ delivery[d].state \in Open
                 THEN Released(delivery[d], "endpoint_removed") ELSE delivery[d]]

Unregistered(u, es) ==
  [e \in Endpoints |-> IF e \in es /\ subscriber[e] = u THEN NoUser ELSE subscriber[e]]

Unsubscribe(u, es) ==
  /\ Up
  /\ "unsubscribe" \in Disturbances
  /\ delivery' = ClosedFor(u, es)
  /\ subscriber' = Unregistered(u, es)
  /\ UNCHANGED <<outbox, enabled, dispatcher, history>>

-----------------------------------------------------------------------------
(* The dispatcher: claimDue and the prepareSend of every claim run in one    *)
(* turn of the event loop; each push then resolves on its own.               *)

\* Faulty variant: an expired claim is not due.
IsDueUnclaimed(row) == row.state \in Claimable /\ row.due = 0

IsDue(row) == \/ row.state \in Claimable /\ row.due = 0
              \/ row.state = "claimed" /\ row.lease = 0

Due == {d \in Ids : /\ subscriber[Endpoint(d)] = User(d)
                    /\ enabled[User(d)]
                    /\ IsDue(delivery[d])}

\* The code takes the oldest first; here any selection of that size.
Batches == IF Cardinality(Due) <= MaxClaims THEN {Due}
           ELSE {S \in SUBSET Due : Cardinality(S) = MaxClaims}

FreshTokens(d) == {t \in Tokens : /\ t # delivery[d].token
                                  /\ \A s \in sends : s.id = d => s.token # t}
NewToken(d) == CHOOSE t \in FreshTokens(d) : TRUE

Claimed(d) == [state |-> "claimed", token |-> NewToken(d), lease |-> Lease, due |-> 0,
               attempts |-> delivery[d].attempts]

Prepared(u, row) ==
  IF enabled[u] THEN [row EXCEPT !.attempts = Least(MaxAttempts, @ + 1)]
  ELSE Released(row, "paused_global")

Started(S) == {[id |-> d, token |-> NewToken(d), phase |-> "sending"] :
                 d \in {c \in S : enabled[User(c)]}}

(* S is claimed; the prepareSend of the deliveries in F throws, which rejects *)
(* the Promise.all at once and leaves their rows claimed.                     *)
ClaimAndDispatch(S, F) ==
  /\ \A d \in S : FreshTokens(d) # {}   \* bound: as many tokens as TLC needs
  /\ delivery' = [d \in Ids |-> IF d \in S \ F THEN Prepared(User(d), Claimed(d))
                                ELSE IF d \in F THEN Claimed(d) ELSE delivery[d]]
  /\ sends' = sends \cup Started(S \ F)
  /\ batch' = IF F = {} THEN Started(S) ELSE {}
  /\ full' = (F = {} /\ Cardinality(S) = MaxClaims)
  /\ draining' = TRUE
  /\ UNCHANGED <<outbox, enabled, subscriber, process, pushes>>

Drain ==
  \/ \E S \in Batches : ClaimAndDispatch(S, {}) /\ UNCHANGED faults
  \/ /\ "storeError" \in Disturbances /\ faults < MaxFaults
     /\ faults' = faults + 1
     /\ \E S \in Batches : \E F \in SUBSET S \ {{}} : ClaimAndDispatch(S, F)

\* Faulty variant: the poll timer starts a drain during another one.
WakeUnchecked ==
  /\ process = "running"
  /\ Drain
  /\ UNCHANGED wakeRequested

\* The poll timer, a wake, or the wake of startCompletionOutboxDispatcher.
Wake ==
  /\ process = "running"
  /\ ~draining
  /\ Drain
  /\ UNCHANGED wakeRequested

WakeDuringDrain ==
  /\ process = "running"
  /\ draining
  /\ ~wakeRequested
  /\ wakeRequested' = TRUE
  /\ UNCHANGED <<database, process, draining, full, sends, batch, history>>

(* The drain's Promise.all settled: claim again after a full claim, otherwise *)
(* run the "finally", which drains once more when a wake arrived meanwhile.   *)
DrainAgain ==
  /\ draining /\ batch = {}
  /\ process = "running" /\ (full \/ wakeRequested)
  /\ wakeRequested' = (wakeRequested /\ full)
  /\ Drain

DrainEnds ==
  /\ draining /\ batch = {}
  /\ ~(process = "running" /\ (full \/ wakeRequested))
  /\ draining' = FALSE
  /\ full' = FALSE
  /\ UNCHANGED <<database, process, wakeRequested, sends, batch, history>>

-----------------------------------------------------------------------------
(* One push request. Its promise settles after the provider took the push or *)
(* not, whatever happened to the row meanwhile.                              *)

Holds(s) == /\ delivery[s.id].state = "claimed"
            /\ delivery[s.id].token = s.token

\* Faulty variant: the outcome is stored without comparing the claim.
FinishUnchecked(s, row) == delivery' = [delivery EXCEPT ![s.id] = row]

Finish(s, row) ==
  delivery' = IF Holds(s) THEN [delivery EXCEPT ![s.id] = row] ELSE delivery

Leave(s) ==
  /\ sends' = sends \ {s}
  /\ batch' = batch \ {s}

ProviderAccepts(s) ==
  /\ s.phase = "sending"
  /\ LET t == [s EXCEPT !.phase = "accepted"]
     IN /\ sends' = (sends \ {s}) \cup {t}
        /\ batch' = IF s \in batch THEN (batch \ {s}) \cup {t} ELSE batch
  /\ pushes' = [pushes EXCEPT ![s.id] = Least(2, @ + 1)]
  /\ UNCHANGED <<database, process, draining, wakeRequested, full, faults>>

\* acknowledge, or sentUnacknowledged when it threw three times.
SendSucceeds(s) ==
  /\ s.phase = "accepted"
  /\ \/ Finish(s, Released(delivery[s.id], "acknowledged"))
     \/ /\ "ackError" \in Disturbances
        /\ Finish(s, Released(delivery[s.id], "permanent_failed"))
  /\ Leave(s)
  /\ UNCHANGED <<outbox, enabled, subscriber, process, draining, wakeRequested, full,
                 faults, pushes>>

Fails(s) ==
  /\ Leave(s)
  /\ UNCHANGED <<outbox, enabled, process, draining, wakeRequested, full, pushes>>

\* 404 or 410.
EndpointGone(s) ==
  /\ s.phase = "sending"
  /\ IF Holds(s)
     THEN /\ delivery' = ClosedFor(User(s.id), {Endpoint(s.id)})
          /\ subscriber' = Unregistered(User(s.id), {Endpoint(s.id)})
     ELSE UNCHANGED <<delivery, subscriber>>
  /\ Fails(s) /\ UNCHANGED faults

\* Another 4xx than 408, 425 and 429.
PermanentFailure(s) ==
  /\ s.phase = "sending"
  /\ Finish(s, Released(delivery[s.id], "permanent_failed"))
  /\ Fails(s) /\ UNCHANGED <<subscriber, faults>>

\* Any other failure, also one after the provider took the push (lostReply).
Retry(s) ==
  /\ \/ s.phase = "sending" /\ UNCHANGED faults
     \/ /\ s.phase = "accepted" /\ "lostReply" \in Disturbances
        /\ faults < MaxFaults /\ faults' = faults + 1
  /\ Finish(s, [Released(delivery[s.id], "transient_retry")
                  EXCEPT !.due = RetryDelay(delivery[s.id].attempts)])
  /\ Fails(s) /\ UNCHANGED subscriber

\* The statement that stores the outcome throws: the drain rejects, the row
\* stays as it is, and the other requests of the batch go on unawaited.
OutcomeNotStored(s) ==
  /\ "storeError" \in Disturbances /\ faults < MaxFaults
  /\ faults' = faults + 1
  /\ sends' = sends \ {s}
  /\ IF s \in batch THEN batch' = {} /\ full' = FALSE ELSE UNCHANGED <<batch, full>>
  /\ UNCHANGED <<database, process, draining, wakeRequested, pushes>>

Answered(s) == \/ SendSucceeds(s) \/ EndpointGone(s) \/ PermanentFailure(s) \/ Retry(s)

-----------------------------------------------------------------------------
(* The process and the clock.                                                *)

\* stop() waits for the drain only so long; later answers are still handled.
Stop ==
  /\ "crash" \in Disturbances /\ faults < MaxFaults
  /\ process = "running"
  /\ process' = "stopping"
  /\ faults' = faults + 1
  /\ UNCHANGED <<database, draining, wakeRequested, full, sends, batch, pushes>>

Dies ==
  /\ process' = "down"
  /\ draining' = FALSE /\ wakeRequested' = FALSE /\ full' = FALSE
  /\ sends' = {} /\ batch' = {}
  /\ UNCHANGED <<database, pushes>>

Exit ==
  /\ process = "stopping"
  /\ Dies
  /\ UNCHANGED faults

Crash ==
  /\ "crash" \in Disturbances /\ faults < MaxFaults
  /\ process = "running"
  /\ Dies
  /\ faults' = faults + 1

Restart ==
  /\ process = "down"
  /\ process' = "running"
  /\ UNCHANGED <<database, draining, wakeRequested, full, sends, batch, history>>

Older(n) == IF n = 0 THEN 0 ELSE n - 1

Tick ==
  /\ \E d \in Ids : delivery[d].lease > 0 \/ delivery[d].due > 0
  /\ delivery' = [d \in Ids |->
       [delivery[d] EXCEPT !.lease = Older(@), !.due = Older(@)]]
  /\ UNCHANGED <<outbox, enabled, subscriber, dispatcher, history>>

Next ==
  \/ \E u \in Users, k \in Occurrences : CreateApplicationDecision(u, k)
  \/ \E W \in SUBSET Users, k \in Occurrences : RecordTerminalDecision(W, k)
  \/ \E u \in Users : Resume(u) \/ Pause(u)
  \/ \E u \in Users, e \in Endpoints : Subscribe(u, e)
  \/ \E u \in Users, es \in SUBSET Endpoints : Unsubscribe(u, es)
  \/ Wake \/ WakeDuringDrain \/ DrainAgain \/ DrainEnds
  \/ \E s \in sends : ProviderAccepts(s) \/ Answered(s) \/ OutcomeNotStored(s)
  \/ Stop \/ Exit \/ Crash \/ Restart \/ Tick

Spec == Init /\ [][Next]_vars

(* The poll timer fires, a settled promise resumes its continuation, the      *)
(* clock advances, a stopping process exits and the service manager restarts  *)
(* it. A push request settles: its socket answers or fails.                   *)
Fairness ==
  /\ WF_vars(Wake) /\ WF_vars(DrainAgain) /\ WF_vars(DrainEnds)
  /\ WF_vars(Exit) /\ WF_vars(Restart) /\ WF_vars(Tick)
  /\ \A d \in Ids, t \in Tokens, p \in {"sending", "accepted"} :
       LET s == [id |-> d, token |-> t, phase |-> p]
       IN WF_vars(s \in sends /\ Answered(s))

FairSpec == Spec /\ Fairness

-----------------------------------------------------------------------------
(* Properties.                                                               *)

(* Type invariant. *)
TypeOK ==
  /\ outbox \subseteq Users \X Occurrences
  /\ delivery \in [Ids -> Row]
  /\ enabled \in [Users -> BOOLEAN]
  /\ subscriber \in [Endpoints -> Users \cup {NoUser}]
  /\ process \in {"running", "stopping", "down"}
  /\ draining \in BOOLEAN /\ wakeRequested \in BOOLEAN /\ full \in BOOLEAN
  /\ sends \subseteq Send
  /\ batch \subseteq sends
  /\ faults \in Nat
  /\ pushes \in [Ids -> 0..2]

(* While a user has Web Push disabled every open delivery of that user is     *)
(* paused, and while it is enabled none is: neither a claim, a late answer    *)
(* nor a decision leaves a delivery on the wrong side of the switch, where it *)
(* would be pushed without consent or never pushed at all.                    *)
PauseMatchesPolicy ==
  \A d \in Ids : delivery[d].state \in Open =>
    (delivery[d].state = "paused_global" <=> ~enabled[User(d)])

(* Every open delivery still has the subscription it was created for, owned   *)
(* by the same user: otherwise claimDue's join would skip it for ever, or an  *)
(* endpoint taken over by another user would receive the first user's pushes. *)
OpenHasSubscription ==
  \A d \in Ids : delivery[d].state \in Open => subscriber[Endpoint(d)] = User(d)

(* A row carries a claim token exactly while it is claimed, so that every     *)
(* compare-and-swap of an outcome that lost its claim fails.                  *)
TokenIffClaimed ==
  \A d \in Ids : (delivery[d].token # NoToken) <=> (delivery[d].state = "claimed")

(* A delivery exists only under its decision, and an acknowledged one was     *)
(* really taken by the push provider.                                         *)
AcknowledgedWasPushed ==
  \A d \in Ids : /\ delivery[d].state # "absent" => Decision(d) \in outbox
                 /\ delivery[d].state = "acknowledged" => pushes[d] > 0

(* A closed delivery stays closed, whatever pauses, resumes, late answers,    *)
(* lease expiries and restarts follow.                                        *)
ClosedForGood ==
  [][\A d \in Ids : delivery[d].state \in Closed => delivery'[d].state = delivery[d].state]_vars

(* With no pause, and before any crash, lost reply or failing statement, the  *)
(* provider takes at most one push of a delivery: the lease may expire during *)
(* a slow request, the single drain still does not claim the row again.       *)
AtMostOnePush == "pause" \notin Disturbances /\ faults = 0 => \A d \in Ids : pushes[d] <= 1

(* A delivery that is open and not paused is eventually pushed, closed or     *)
(* paused, also when the process crashed with the row claimed: no state       *)
(* keeps a delivery out of every later claimDue.                              *)
OpenIsAttempted ==
  \A d \in Ids :
    delivery[d].state \in Claimable \cup {"claimed"}
      ~> \/ delivery[d].state \in Closed \cup {"paused_global"}
         \/ \E s \in sends : s.id = d
=============================================================================
