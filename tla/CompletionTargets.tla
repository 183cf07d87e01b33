-------------------------- MODULE CompletionTargets --------------------------
(***************************************************************************)
(* What a completion notification is about. A target is either a process   *)
(* generation seen in tmux or an application session; a generation whose   *)
(* conversation is a known session is promoted to it by a redirect, two     *)
(* sessions of one conversation are merged, and aliases, watches and        *)
(* revisions follow. The turn monitor reads transcripts, arms a generation  *)
(* while its turn runs and decides once when the reply is ready, while the  *)
(* browser resolves the same targets and the user sets watches.             *)
(*                                                                          *)
(* The database is one record; a repository method is an operator from a    *)
(* database to the next one, so that a step may call several in turn.       *)
(***************************************************************************)
EXTENDS Integers, FiniteSets, FiniteSetsExt

CONSTANTS
  Generations,    \* process generations, by identity
  Apps,           \* application sessions, by identity
  Conversations,  \* provider conversations, each with a transcript
  Users,
  MutationIds,    \* mutation ids of setWatch
  None,
  Known,          \* initial sessions: a function from Apps to a conversation or None
  MaxPosition,    \* bound: transcript positions
  MaxRevision,    \* bound: revisions
  BrowserScans,   \* whether the browser asks for statuses in this instance
  Assigning,      \* whether sessions are assigned their conversation in this instance
  Watched         \* initial watches of sessions: a set of <<user, app>>

Targets == Generations \cup Apps

ASSUME ConstantsAssumption ==
  /\ Generations \cap Apps = {}
  /\ None \notin Targets \cup Conversations
  /\ Known \in [Apps -> Conversations \cup {None}]
  /\ MaxPosition \in Nat /\ MaxRevision \in Nat
  /\ BrowserScans \in BOOLEAN /\ Assigning \in BOOLEAN
  /\ Watched \subseteq Users \X Apps /\ IsFiniteSet(Targets)

VARIABLES
  db,         \* the tables, see Database
  mutations,  \* (user, mutation id) already recorded
  decisions,  \* (user, canonical identity, evidence) already in the outbox
  session,    \* conversation of each application session; None: not in the table
  live,       \* generations whose process exists
  binding,    \* the conversation each live process is in
  transcript, \* position of each transcript: odd while its turn runs
  tick,       \* the monitor: "idle", "scanned", "reading"
  scan,       \* the discovery result the tick works on
  todo,       \* resolved generations the tick still has to read
  read        \* the evidence just read, or None

environment == <<session, live, binding, transcript>>
monitor == <<tick, scan, todo, read>>
vars == <<db, mutations, decisions, environment, monitor>>

Cursors == Conversations \X (0..MaxPosition)
StateRow == [state : {"absent", "unobserved", "running", "terminal"},
             high : Nat, armed : Nat, cursor : Cursors \cup {None}]
NoState == [state |-> "absent", high |-> 0, armed |-> 0, cursor |-> None]

(* revision 0 means that there is no such row; armed 0 stands for NULL.       *)
Database == [revision : [Targets -> Nat], redirect : [Targets -> Apps \cup {None}],
             alias : [Targets -> Targets \cup {None}], watch : SUBSET (Users \X Targets),
             generation : [Generations -> StateRow]]

Exists(d, t) == d.revision[t] > 0

\* resolveCanonicalCompletionTarget
Canonical(d, t) == IF d.redirect[t] = None THEN t ELSE d.redirect[t]

-----------------------------------------------------------------------------
(* The repository.                                                           *)

(* createTarget with the target's own alias; an alias of another target       *)
(* refuses it.                                                                *)
Created(d, t) ==
  LET new == IF Exists(d, t) THEN d ELSE [d EXCEPT !.revision[t] = 1]
  IN CASE new.alias[t] = None -> [new EXCEPT !.alias[t] = Canonical(new, t)]
       [] new.alias[t] # None /\ Canonical(new, new.alias[t]) = Canonical(new, t) -> new
       [] OTHER -> d

\* Faulty variant: the revision of the former binding is not taken into account.
PromotedForgettingRevision(d, g, a) ==
  LET old == Canonical(d, g)
  IN IF old = a \/ d.alias[g] = None THEN d
     ELSE [d EXCEPT !.redirect[g] = a,
                    !.alias = [t \in Targets |-> IF @[t] = g \/ t = g THEN a ELSE @[t]],
                    !.watch = {<<w[1], IF w[2] = g THEN a ELSE w[2]>> : w \in @},
                    !.revision[a] = @ + 1,
                    !.generation[g] = IF old = g THEN @ ELSE NoState]

(* promoteGenerationToApp, for an app that is canonical: the generation's     *)
(* alias, and on the first promotion everything that hangs on it, moves to    *)
(* the app; a rebound generation starts from a fresh activity baseline.       *)
Promoted(d, g, a) ==
  LET old == Canonical(d, g)
      owner == IF d.alias[g] = None THEN a ELSE Canonical(d, d.alias[g])
  IN IF owner \notin {old, a} THEN d
     ELSE IF old = a THEN [d EXCEPT !.alias[g] = a]
     ELSE [d EXCEPT !.redirect[g] = a,
                    !.alias = [t \in Targets |-> IF @[t] = g \/ t = g THEN a ELSE @[t]],
                    !.watch = {<<w[1], IF w[2] = g THEN a ELSE w[2]>> : w \in @},
                    !.revision[a] = Max({d.revision[x] : x \in {a, old, g}}) + 1,
                    !.generation[g] = IF old = g THEN @ ELSE NoState]

\* Faulty variant: the generations redirected to a loser are forgotten.
MergedShallow(d, losers, s) ==
  [d EXCEPT !.alias = [t \in Targets |-> IF @[t] \in losers THEN s ELSE @[t]],
            !.watch = {<<w[1], IF w[2] \in losers THEN s ELSE w[2]>> : w \in @},
            !.redirect = [t \in Targets |-> IF t \in losers THEN s ELSE @[t]],
            !.revision[s] = @ + 1]

\* Faulty variant: the watches of the losers are left behind.
MergedLosingWatches(d, losers, s) ==
  [d EXCEPT !.alias = [t \in Targets |-> IF @[t] \in losers THEN s ELSE @[t]],
            !.watch = {w \in @ : w[2] \notin losers},
            !.redirect = [t \in Targets |-> IF t \in losers \/ @[t] \in losers THEN s ELSE @[t]],
            !.revision[s] = @ + 1]

(* mergeEquivalentApps: aliases and watches of the losers, and of the         *)
(* generations redirected to them, go to the survivor.                        *)
Merged(d, losers, s) ==
  LET moved == losers \cup {g \in Generations : d.redirect[g] \in losers}
  IN [d EXCEPT !.alias = [t \in Targets |-> IF @[t] \in moved THEN s ELSE @[t]],
               !.watch = {<<w[1], IF w[2] \in moved THEN s ELSE w[2]>> : w \in @},
               !.redirect = [t \in Targets |->
                               IF t \in losers \/ @[t] \in losers THEN s ELSE @[t]],
               !.revision[s] = @ + 1]

(* pruneStaleGenerationCandidates of one generation, with the cascades.       *)
Pruned(d, g) ==
  [d EXCEPT !.revision[g] = 0, !.redirect[g] = None,
            !.alias = [t \in Targets |-> IF @[t] = g THEN None ELSE @[t]],
            !.watch = {w \in @ : w[2] # g},
            !.generation[g] = NoState]

\* touchObservedGenerations: the row's evidence of life, here only its existence.
Touched(d, g) ==
  IF Exists(d, g) /\ d.generation[g].state = "absent"
  THEN [d EXCEPT !.generation[g].state = "unobserved"] ELSE d

(* observeGeneration; "running" arms, everything else disarms.                *)
Observed(d, g, cursor, observation) ==
  LET row == d.generation[g]
      seq == IF row.armed > 0 THEN row.armed ELSE row.high + 1
      next == IF observation = "running"
              THEN [state |-> "running", high |-> IF row.armed > 0 THEN row.high ELSE seq,
                    armed |-> seq, cursor |-> cursor]
              ELSE [state |-> "terminal", high |-> row.high, armed |-> 0, cursor |-> cursor]
  IN IF ~Exists(d, g) \/ row.cursor = cursor THEN d
     ELSE [d EXCEPT !.generation[g] = next]

\* recordTerminalDecision decides only for a running, armed row and new evidence.
Armed(row, cursor) == /\ row.state = "running" /\ row.armed > 0
                      /\ row.cursor # cursor

\* Faulty variant: the decision does not end the state.
EndedRunning(d, g, cursor) ==
  IF ~Exists(d, g) THEN d
  ELSE [d EXCEPT !.generation[g].armed = 0, !.generation[g].cursor = cursor]

Ended(d, g, cursor) ==
  IF ~Exists(d, g) THEN d
  ELSE [d EXCEPT !.generation[g] =
          [state |-> "terminal", high |-> @.high, armed |-> 0, cursor |-> cursor]]

-----------------------------------------------------------------------------
(* Resolution of one discovery result (resolveExternalCompletionTarget).      *)

AppsOf(c) == {a \in Apps : session[a] = c}

(* A generation is read only when its conversation has no session, or one     *)
(* whose target is not merged away; otherwise the scan leaves it out.         *)
Resolvable(d, g, c) ==
  IF AppsOf(c) = {} THEN Canonical(d, g) = g
  ELSE \E a \in Apps : AppsOf(c) = {a} /\ Canonical(d, a) = a

\* Faulty variant: only a generation that has no app yet is promoted.
ResolvedOnce(d, g, c) ==
  LET with == Created(d, g)
  IN IF Canonical(d, g) = g /\ \E a \in Apps : AppsOf(c) = {a}
     THEN LET a == CHOOSE a \in Apps : AppsOf(c) = {a}
          IN Promoted(Created(with, a), g, a)
     ELSE with

Resolved(d, g, c) ==
  LET with == Created(d, g)
  IN IF \E a \in Apps : AppsOf(c) = {a}
     THEN LET a == CHOOSE a \in Apps : AppsOf(c) = {a}
              both == Created(with, a)
          IN IF Canonical(both, a) = a THEN Promoted(both, g, a) ELSE both
     ELSE with

Bounded(d) == \A t \in Targets : d.revision[t] <= MaxRevision

(* Nothing seen yet; the watches of an earlier run of the server are kept.    *)
Init ==
  /\ db = LET known == {w[2] : w \in Watched}
          IN [revision |-> [t \in Targets |-> IF t \in known THEN 2 ELSE 0],
              redirect |-> [t \in Targets |-> None],
              alias |-> [t \in Targets |-> IF t \in known THEN t ELSE None],
              watch |-> Watched, generation |-> [g \in Generations |-> NoState]]
  /\ mutations = {} /\ decisions = {}
  /\ session = Known
  /\ live = Generations
  /\ binding \in [Generations -> Conversations]
  /\ transcript = [c \in Conversations |-> 0]
  /\ tick = "idle" /\ scan = [g \in {} |-> None] /\ todo = {} /\ read = None

-----------------------------------------------------------------------------
(* The processes and their transcripts.                                       *)

Environment == UNCHANGED <<db, mutations, decisions, monitor>>

TurnStarts(c) ==
  /\ transcript[c] % 2 = 0 /\ transcript[c] + 1 < MaxPosition
  /\ transcript' = [transcript EXCEPT ![c] = @ + 1]
  /\ UNCHANGED <<session, live, binding>> /\ Environment

TurnEnds(c) ==
  /\ transcript[c] % 2 = 1
  /\ transcript' = [transcript EXCEPT ![c] = @ + 1]
  /\ UNCHANGED <<session, live, binding>> /\ Environment

\* "/resume" or "/new" in the terminal.
SwitchConversation(g, c) ==
  /\ g \in live /\ binding[g] # c
  /\ \A t \in Targets : db.revision[t] < MaxRevision
  /\ binding' = [binding EXCEPT ![g] = c]
  /\ UNCHANGED <<session, live, transcript>> /\ Environment

ProcessExits(g) ==
  /\ g \in live
  /\ live' = live \ {g}
  /\ UNCHANGED <<session, binding, transcript>> /\ Environment

(* assignProviderSessionId: an app session learns its conversation; other     *)
(* sessions of that conversation are merged into it and leave the table.      *)
AssignConversation(a, c) ==
  LET duplicates == AppsOf(c)
      created == FoldSet(LAMBDA b, d : Created(d, b), db, duplicates \cup {a})
      losers == {Canonical(created, b) : b \in duplicates} \ {a}
  IN /\ Assigning
     /\ session[a] = None /\ db.redirect[a] = None
     /\ session' = [b \in Apps |-> IF b = a THEN c
                                   ELSE IF b \in duplicates THEN None ELSE session[b]]
     /\ db' = IF losers = {} THEN created ELSE Merged(created, losers, a)
     /\ Bounded(db')
     /\ UNCHANGED <<mutations, decisions, live, binding, transcript, monitor>>

-----------------------------------------------------------------------------
(* The browser.                                                               *)

Browser == UNCHANGED <<decisions, environment, monitor>>

(* The status of an app's bell (resolveCompletionAppDescriptor).              *)
BrowserSeesApp(a) ==
  /\ session[a] # None \/ (Assigning /\ db.redirect[a] = None)
  /\ db' = Created(db, a)
  /\ UNCHANGED mutations /\ Browser

(* The status of a generation's bell, from a discovery result that may be     *)
(* the one the monitor works on.                                              *)
BrowserSeesGeneration(g) ==
  /\ BrowserScans
  /\ g \in live
  /\ \E c \in {binding[g]} \cup (IF g \in DOMAIN scan THEN {scan[g]} ELSE {}) :
       db' = Resolved(db, g, c)
  /\ Bounded(db')
  /\ UNCHANGED mutations /\ Browser

(* setWatch with the revision the target has now; any other revision and a    *)
(* mutation id seen before change nothing.                                    *)
SetWatch(u, m, t, watched) ==
  LET target == Canonical(db, db.alias[t])
      was == <<u, target>> \in db.watch
  IN /\ <<u, m>> \notin mutations
     /\ db.alias[t] # None
     /\ db' = [db EXCEPT
                 !.revision[target] = IF was = watched THEN @ ELSE @ + 1,
                 !.watch = IF watched THEN @ \cup {<<u, target>>} ELSE @ \ {<<u, target>>}]
     /\ Bounded(db')
     /\ mutations' = mutations \cup {<<u, m>>}
     /\ Browser

-----------------------------------------------------------------------------
(* The external turn monitor: one tick at a time.                             *)

MonitorScans ==
  /\ tick = "idle"
  /\ tick' = "scanned"
  /\ scan' = [g \in live |-> binding[g]]
  /\ UNCHANGED <<db, mutations, decisions, environment, todo, read>>

(* resolveTargets and touchObservedGenerations, without an await between.     *)
MonitorResolves ==
  LET resolved == FoldSet(LAMBDA g, d : Resolved(d, g, scan[g]), db, DOMAIN scan)
  IN /\ tick = "scanned"
     /\ db' = FoldSet(LAMBDA g, d : Touched(d, g), resolved, DOMAIN scan)
     /\ tick' = "reading"
     /\ todo' = {g \in DOMAIN scan : Resolvable(resolved, g, scan[g])}
     /\ UNCHANGED <<mutations, decisions, environment, scan, read>>

MonitorReads(g) ==
  /\ tick = "reading" /\ g \in todo /\ read = None
  /\ read' = [id |-> g, cursor |-> <<scan[g], transcript[scan[g]]>>]
  /\ UNCHANGED <<db, mutations, decisions, environment, tick, scan, todo>>

\* The transcript cannot be read: the generation waits for a later tick.
MonitorSkips(g) ==
  /\ tick = "reading" /\ g \in todo /\ read = None
  /\ todo' = todo \ {g}
  /\ UNCHANGED <<db, mutations, decisions, environment, tick, scan, read>>

Recorded(g) ==
  /\ todo' = todo \ {g}
  /\ read' = None
  /\ UNCHANGED <<mutations, environment, tick, scan>>

RecordObservation(g, observation) ==
  /\ db' = Observed(db, g, read.cursor, observation)
  /\ UNCHANGED decisions
  /\ Recorded(g)

(* recordTerminalDecision: the owners are the watchers whose policy is on.    *)
RecordReplyReady(g) ==
  LET row == db.generation[g]
      key == Canonical(db, g)
      watchers == {u \in Users : <<u, key>> \in db.watch}
      known == \E u \in Users : <<u, key, read.cursor>> \in decisions
  IN /\ IF Armed(row, read.cursor) /\ ~known
        THEN \E owners \in SUBSET watchers :
               decisions' = decisions \cup {<<u, key, read.cursor>> : u \in owners}
        ELSE UNCHANGED decisions
     /\ db' = Ended(db, g, read.cursor)
     /\ Recorded(g)

MonitorRecords(g) ==
  /\ tick = "reading" /\ read # None /\ read.id = g
  /\ IF read.cursor[2] % 2 = 1
     THEN RecordObservation(g, "running")
     ELSE \/ RecordReplyReady(g)
          \/ RecordObservation(g, "other")   \* failed, asking, or ended

(* The end of a tick; generations gone for the retention time are pruned.     *)
MonitorEnds ==
  /\ tick = "reading" /\ todo = {} /\ read = None
  /\ tick' = "idle"
  /\ \E stale \in SUBSET {g \in Generations \ (live \cup DOMAIN scan) :
                           Exists(db, g) /\ db.generation[g].state # "absent"} :
       db' = FoldSet(LAMBDA g, d : Pruned(d, g), db, stale)
  /\ scan' = [g \in {} |-> None]
  /\ UNCHANGED <<mutations, decisions, environment, todo, read>>

Next ==
  \/ \E c \in Conversations : TurnStarts(c) \/ TurnEnds(c)
  \/ \E g \in Generations, c \in Conversations : SwitchConversation(g, c)
  \/ \E g \in Generations : ProcessExits(g) \/ BrowserSeesGeneration(g)
  \/ \E a \in Apps, c \in Conversations : AssignConversation(a, c)
  \/ \E a \in Apps : BrowserSeesApp(a)
  \/ \E u \in Users, m \in MutationIds, t \in Targets, w \in BOOLEAN : SetWatch(u, m, t, w)
  \/ MonitorScans \/ MonitorResolves \/ MonitorEnds
  \/ \E g \in Generations : MonitorReads(g) \/ MonitorSkips(g) \/ MonitorRecords(g)

Spec == Init /\ [][Next]_vars

(* The monitor loop ticks for ever (one of its steps is always enabled, so    *)
(* this is their weak fairness), a transcript that can be read again and      *)
(* again is read at last, and a turn ends.                                    *)
Fairness ==
  /\ []<><<\/ MonitorScans \/ MonitorResolves \/ MonitorEnds
           \/ \E g \in Generations : MonitorSkips(g) \/ MonitorRecords(g)>>_vars
  /\ \A g \in Generations : SF_vars(MonitorReads(g))
  /\ WF_vars(\E c \in Conversations : TurnEnds(c))

FairSpec == Spec /\ Fairness

-----------------------------------------------------------------------------
(* Properties.                                                               *)

(* Type invariant. *)
TypeOK ==
  /\ db \in Database
  /\ mutations \subseteq Users \X MutationIds
  /\ decisions \subseteq Users \X Targets \X Cursors
  /\ session \in [Apps -> Conversations \cup {None}]
  /\ live \subseteq Generations
  /\ binding \in [Generations -> Conversations]
  /\ transcript \in [Conversations -> 0..MaxPosition]
  /\ tick \in {"idle", "scanned", "reading"}
  /\ todo \subseteq DOMAIN scan /\ DOMAIN scan \subseteq Generations
  /\ read # None => read.id \in todo /\ read.cursor \in Cursors

(* A redirect leads in one step to an existing app that is not redirected,    *)
(* as resolveCanonicalCompletionTarget demands, and no watch hangs on a       *)
(* redirected or deleted target, where no decision would find it.             *)
RedirectsAreFlat ==
  /\ \A t \in Targets : db.redirect[t] # None =>
       Exists(db, t) /\ Exists(db, db.redirect[t]) /\ db.redirect[db.redirect[t]] = None
  /\ \A w \in db.watch : Exists(db, w[2]) /\ db.redirect[w[2]] = None

(* The alias of a target resolves to that target's canonical one through      *)
(* every promotion, rebinding and merge; otherwise createTarget would refuse  *)
(* the identity on every later scan and its bell would be dropped.            *)
AliasFollowsTarget ==
  \A t \in Targets : Exists(db, t) /\ db.alias[t] # None =>
    Canonical(db, db.alias[t]) = Canonical(db, t)

(* A generation is armed exactly while it was last seen running, never        *)
(* beyond its high water mark.                                                *)
ArmedWhileRunning ==
  \A g \in Generations : LET row == db.generation[g]
                         IN /\ row.armed <= row.high
                            /\ row.armed > 0 <=> row.state = "running"

(* The store after any sequence of resolutions, promotions, rebindings,       *)
(* merges, observations and pruning.                                          *)
StoreConsistent == TypeOK /\ RedirectsAreFlat /\ AliasFollowsTarget /\ ArmedWhileRunning

Watches(u, t) == db.alias[t] # None /\ <<u, Canonical(db, db.alias[t])>> \in db.watch

(* A conversation's bell changes only when its user sets it: promotions,      *)
(* rebindings and merges may ring for more conversations, never for fewer.    *)
WatchKept ==
  [][\A u \in Users, a \in Apps : Watches(u, a) /\ ~Watches(u, a)' => mutations' # mutations]_vars

Revision(t) == db.revision[Canonical(db, db.alias[t])]

(* While no sessions are merged: whenever what a bell shows changes (the      *)
(* target its alias names, or whether the user watches it), its revision      *)
(* grows, and a mutation sent with an older view is refused: "stale alias     *)
(* revisions cannot mutate the rebound target".                               *)
ViewChangeRaisesRevision ==
  [][\A u \in Users, t \in Targets :
       /\ db.alias[t] # None /\ db'.alias[t] # None
       /\ \/ Canonical(db, db.alias[t]) # Canonical(db', db'.alias[t])
          \/ Watches(u, t) # Watches(u, t)'
       => Revision(t)' > Revision(t)]_vars

(* One user gets at most one decision for one ready reply of a session, even  *)
(* when several panes show the conversation and each of them was armed. It is *)
(* said of the monitor alone: a browser that promotes two generations between *)
(* their reading and their recording has the reply of a conversation without  *)
(* a session announced under each one's session.                              *)
OneDecisionPerReply ==
  \A x, y \in decisions : x[1] = y[1] /\ x[3] = y[3] /\ {x[2], y[2]} \subseteq Apps => x = y

(* A decision follows evidence of the same conversation: "an old running arm  *)
(* cannot notify for a resumed transcript".                                   *)
OldArmNeverNotifies ==
  [][\A x \in decisions' \ decisions :
       \E g \in Generations : /\ db.generation[g].cursor # None
                              /\ db.generation[g].cursor[1] = x[3][1]
                              /\ db.generation[g].state = "running"]_vars

(* A running arm does not stay for ever: its process ends, or its turn does   *)
(* and the monitor notices.                                                   *)
ArmIsConsumed ==
  \A g \in Generations :
    db.generation[g].state = "running" ~> db.generation[g].state # "running" \/ g \notin live
=============================================================================
