----------------------------- MODULE CatalogSync -----------------------------
(***************************************************************************)
(* The catalog of one peer machine and the hub's copy of it. On the peer, a  *)
(* publisher reads the machine's rows whenever discovery ticks or somebody   *)
(* asks, numbers what changed and sends it to the connected hub. On the hub, *)
(* the connection authenticates, beats and drops, and the aggregator applies *)
(* snapshots and deltas or asks for a resnapshot. A catalog is the sequence  *)
(* of its rows: the hub compares snapshots of one revision row by row, in    *)
(* order. A frame in one socket neither overtakes nor repeats another.       *)
(***************************************************************************)
EXTENDS Integers, Sequences, FiniteSets, Functions

CONSTANTS
  Ids,          \* rows of the catalog, by local id
  MaxChanges,   \* bound: changes of the machine's rows
  MaxEpoch,     \* bound: processes of the peer
  MaxConnects,  \* bound: connections
  MaxFaults,    \* bound: deltas the wire cannot carry and reads that fail
  None

Epochs == 1..MaxEpoch
Revisions == 1..(MaxChanges + 1)
Catalogs == {s \in UNION {[1..n -> Ids] : n \in 0..Cardinality(Ids)} :
               \A i, j \in DOMAIN s : s[i] = s[j] => i = j}

ASSUME ConstantsAssumption ==
  /\ IsFiniteSet(Ids) /\ MaxChanges \in Nat /\ MaxEpoch \in Nat \ {0}
  /\ MaxConnects \in Nat /\ MaxFaults \in Nat /\ None \notin Catalogs

VARIABLES
  source,     \* the rows of the machine, in the order a read returns them
  pub,        \* the publisher of the peer process
  conn,       \* the peer's end of the connection
  toHub,      \* frames on the way to the hub
  toPeer,     \* requests for a snapshot on the way to the peer
  link,       \* the hub's end of the connection
  entry,      \* the aggregator's entry of the host, or None
  resyncing,  \* whether the host is in the aggregator's pending set
  counts,     \* the environment's steps so far, for the bounds
  published,  \* history: the versions published, rows as a set
  deadEnd     \* history: the hub's request was answered on this connection, but with
              \* a failure, or with rows it holds in another order and so refuses

peerVars == <<source, pub, conn>>
hubVars == <<link, entry, resyncing>>
vars == <<peerVars, hubVars, toHub, toPeer, counts, published, deadEnd>>

Publisher == [epoch : Epochs, revision : Revisions \cup {0}, rows : Catalogs \cup {None},
              running : BOOLEAN, pending : BOOLEAN, subscribed : BOOLEAN]

\* open: authenticated; accepting: accept awaits its refresh; waiting: requests that do
PeerEnd == [open : BOOLEAN, accepting : BOOLEAN, sink : BOOLEAN, waiting : Nat]

\* hello: the epoch of the peer's hello; accepted: that of the last heartbeat accepted
HubEnd == [state : {"offline", "connecting", "syncing", "online", "degraded"},
           generation : 0..MaxConnects, hello : Epochs \cup {None}, accepted : Epochs \cup {None}]

\* The rows are of the process snapEpoch; epoch is the one the hub is connected to.
Entry == [generation : 1..MaxConnects, epoch : Epochs, state : {"syncing", "online", "offline"},
          revision : Revisions, rows : Catalogs, snapEpoch : Epochs]

Closed == [open |-> FALSE, accepting |-> FALSE, sink |-> FALSE, waiting |-> 0]
NewProcess(e) == [epoch |-> e, revision |-> 0, rows |-> None,
                  running |-> FALSE, pending |-> FALSE, subscribed |-> FALSE]

Heartbeat(g) == [kind |-> "heartbeat", generation |-> g]
FullSnapshot(kind, p) ==
  [kind |-> kind, epoch |-> p.epoch, revision |-> p.revision, rows |-> p.rows]

MayFail == counts.lost + counts.failures < MaxFaults
Count(what) == counts' = [counts EXCEPT ![what] = @ + 1]

Init ==
  /\ source = <<>>
  /\ pub = NewProcess(1)
  /\ conn = Closed
  /\ toHub = <<>> /\ toPeer = 0
  /\ link = [state |-> "offline", generation |-> 0, hello |-> None, accepted |-> None]
  /\ entry = None /\ resyncing = FALSE
  /\ counts = [changes |-> 0, connects |-> 0, lost |-> 0, failures |-> 0]
  /\ published = {} /\ deadEnd = FALSE

-----------------------------------------------------------------------------
(* The peer: source and publisher.                                           *)

SourceChanges ==
  /\ counts.changes < MaxChanges
  /\ source' \in Catalogs \ {source}
  /\ Count("changes")
  /\ UNCHANGED <<pub, conn, hubVars, toHub, toPeer, published, deadEnd>>

(* refresh and the start of drain: a refresh during a read asks for another.  *)
Refreshed(p) ==
  IF p.running THEN [p EXCEPT !.pending = TRUE]
  ELSE [p EXCEPT !.running = TRUE, !.pending = FALSE]

(* Every tick of discovery, with or without news, reaches the publisher.      *)
Ticks ==
  /\ pub.subscribed
  /\ pub' = Refreshed(pub)
  /\ UNCHANGED <<source, conn, hubVars, toHub, toPeer, counts, published, deadEnd>>

(* update: rows in another order are no change, and leave the old order.      *)
Changed == pub.rows = None \/ Range(pub.rows) # Range(source)

Updated ==
  IF Changed THEN [pub EXCEPT !.revision = @ + 1, !.rows = source] ELSE pub

\* The rows of s that are not in S, in their order.
Without(s, S) ==
  LET kept[i \in 0..Len(s)] ==
        IF i = 0 THEN <<>>
        ELSE IF s[i] \in S THEN kept[i - 1] ELSE Append(kept[i - 1], s[i])
  IN kept[Len(s)]

Delta ==
  [kind |-> "delta", epoch |-> pub.epoch, prev |-> pub.revision, revision |-> pub.revision + 1,
   upserts |-> Without(source, Range(pub.rows)),
   removes |-> Range(pub.rows) \ Range(source)]

(* What update puts on the wire: the delta, a snapshot instead of a delta     *)
(* over the budget, or nothing when the frame is dropped.                     *)
\* Faulty variant: only the last read of a drain is published.
PublishesLast == Changed /\ pub.rows # None /\ conn.sink /\ ~pub.pending

Publishes == Changed /\ pub.rows # None /\ conn.sink
Frames == IF Publishes THEN {<<Delta>>, <<FullSnapshot("snapshot", Updated)>>, <<>>} ELSE {<<>>}
Carried(frames) ==
  IF Publishes /\ frames = <<>> THEN MayFail /\ Count("lost")
  ELSE UNCHANGED counts

\* What those that waited for the refresh send: accept its snapshot, a request the answer.
Answers ==
  (IF conn.accepting THEN <<FullSnapshot("snapshot", Updated)>> ELSE <<>>)
    \o [i \in 1..conn.waiting |-> FullSnapshot("response", Updated)]

(* A read returns the rows of that moment and update follows without an       *)
(* await; then drain reads again or everybody who waits for it goes on.       *)
ReadReturns(frames) ==
  /\ pub.running
  /\ Carried(frames)
  /\ published' = published \cup
       {[epoch |-> Updated.epoch, revision |-> Updated.revision, rows |-> Range(Updated.rows)]}
  /\ UNCHANGED <<source, hubVars, toPeer, deadEnd>>

ReadsAgain ==
  \E frames \in Frames :
    /\ pub.pending
    /\ ReadReturns(frames)
    /\ pub' = [Updated EXCEPT !.pending = FALSE]
    /\ toHub' = toHub \o frames
    /\ UNCHANGED conn

DrainEnds ==
  \E frames \in Frames :
    /\ ~pub.pending
    /\ ReadReturns(frames)
    /\ pub' = [Updated EXCEPT !.running = FALSE]
    /\ toHub' = toHub \o frames \o Answers
    /\ conn' = [conn EXCEPT !.accepting = FALSE, !.sink = @ \/ conn.accepting, !.waiting = 0]

-----------------------------------------------------------------------------
(* The connection.                                                           *)

\* Faulty variant: the aggregator is not told.
DisconnectedSilently ==
  /\ link' = [link EXCEPT !.state = "offline"]
  /\ toHub' = <<>> /\ toPeer' = 0
  /\ conn' = Closed
  /\ deadEnd' = FALSE
  /\ UNCHANGED entry

\* Both ends see the socket close: closed on the hub, the close listener on the peer.
Disconnected ==
  /\ link' = [link EXCEPT !.state = "offline"]
  /\ entry' = IF entry = None THEN None ELSE [entry EXCEPT !.state = "offline"]
  /\ toHub' = <<>> /\ toPeer' = 0
  /\ conn' = Closed
  /\ deadEnd' = FALSE

(* A failed read fails everybody who waits for the drain: a request is        *)
(* answered with a failure, which the hub ignores, an accept closes.          *)
ReadFails ==
  /\ pub.running /\ MayFail
  /\ Count("failures")
  /\ pub' = [pub EXCEPT !.running = FALSE]
  /\ \/ /\ conn.accepting /\ counts.connects < MaxConnects
        /\ Disconnected
     \/ /\ ~conn.accepting
        /\ conn' = [conn EXCEPT !.waiting = 0]
        /\ deadEnd' = (deadEnd \/ conn.waiting > 0)
        /\ UNCHANGED <<toHub, toPeer, link, entry>>
  /\ UNCHANGED <<source, resyncing, published>>

Dials ==
  /\ link.state = "offline" /\ counts.connects < MaxConnects
  /\ link' = [link EXCEPT !.state = "connecting"]
  /\ Count("connects")
  /\ UNCHANGED <<peerVars, entry, resyncing, toHub, toPeer, published, deadEnd>>

\* acceptProof of the hub
HubVerifies ==
  /\ link.state = "connecting"
  /\ link' = [link EXCEPT !.state = "syncing", !.generation = 0, !.hello = pub.epoch]
  /\ UNCHANGED <<peerVars, entry, resyncing, toHub, toPeer, counts, published, deadEnd>>

(* acceptProof of the peer: the next generation, a heartbeat, and accept of   *)
(* the publisher, which subscribes once per process. The generation is        *)
(* persisted; only this hub claims it, once per connection.                   *)
PeerAccepts ==
  /\ link.state = "syncing" /\ link.generation = 0 /\ ~conn.open
  /\ toHub' = <<Heartbeat(counts.connects)>>
  /\ conn' = [conn EXCEPT !.open = TRUE, !.accepting = TRUE]
  /\ pub' = [Refreshed(pub) EXCEPT !.subscribed = TRUE]
  /\ UNCHANGED <<source, hubVars, toPeer, counts, published, deadEnd>>

\* The lease tick; one heartbeat at a time stands for the interval.
PeerBeats ==
  /\ conn.open
  /\ \A i \in DOMAIN toHub : toHub[i].kind # "heartbeat"
  /\ toHub' = Append(toHub, Heartbeat(counts.connects))
  /\ UNCHANGED <<peerVars, hubVars, toPeer, counts, published, deadEnd>>

\* Twenty seconds without a heartbeat.
Degrades ==
  /\ link.state = "online"
  /\ link' = [link EXCEPT !.state = "degraded"]
  /\ UNCHANGED <<peerVars, entry, resyncing, toHub, toPeer, counts, published, deadEnd>>

\* The network, the expired lease or a rejected frame ends the connection.
Drops ==
  /\ link.state # "offline" /\ counts.connects < MaxConnects
  /\ Disconnected
  /\ UNCHANGED <<source, pub, resyncing, counts, published>>

PeerRestarts ==
  /\ pub.epoch < MaxEpoch /\ counts.connects < MaxConnects
  /\ Disconnected
  /\ pub' = NewProcess(pub.epoch + 1)
  /\ UNCHANGED <<source, resyncing, counts, published>>

\* The hub keeps connection and catalog in memory.
HubRestarts ==
  /\ counts.connects > 0 /\ counts.connects < MaxConnects
  /\ link' = [state |-> "offline", generation |-> 0, hello |-> None, accepted |-> None]
  /\ entry' = None /\ resyncing' = FALSE
  /\ toHub' = <<>> /\ toPeer' = 0 /\ conn' = Closed /\ deadEnd' = FALSE
  /\ UNCHANGED <<source, pub, counts, published>>

\* catalog.snapshot, dispatched: the handler awaits a refresh of the publisher.
PeerTakesRequest ==
  /\ toPeer > 0 /\ conn.open
  /\ toPeer' = toPeer - 1
  /\ conn' = [conn EXCEPT !.waiting = @ + 1]
  /\ pub' = Refreshed(pub)
  /\ UNCHANGED <<source, hubVars, toHub, counts, published, deadEnd>>

-----------------------------------------------------------------------------
(* The hub: heartbeats, and the aggregator. A frame is handled in one piece.  *)

(* acceptHeartbeat and the status listener's connected. Only the first        *)
(* heartbeat of a new process leaves the link syncing.                        *)
TakesHeartbeat(f) ==
  /\ link' = [link EXCEPT
       !.state = IF link.accepted \notin {None, link.hello} THEN "syncing" ELSE "online",
       !.generation = f.generation, !.accepted = link.hello]
  /\ entry' = IF entry = None \/ entry.generation = f.generation THEN entry
              ELSE [entry EXCEPT !.generation = f.generation, !.epoch = link.hello,
                                 !.state = "syncing"]
  /\ UNCHANGED <<resyncing, toPeer, deadEnd>>

\* resync: the pending set keeps a second request back.
Resync ==
  /\ entry' = IF entry = None THEN None ELSE [entry EXCEPT !.state = "syncing"]
  /\ resyncing' = TRUE
  /\ IF resyncing THEN UNCHANGED <<link, toPeer>>
     ELSE /\ link' = [link EXCEPT !.state = IF @ \in {"online", "degraded"} THEN "syncing" ELSE @]
          /\ toPeer' = toPeer + 1

Current == entry # None /\ entry.generation = link.generation /\ entry.epoch = link.hello

\* Faulty variant: the link is not told that the copy is in step.
AppliesUnmarked(e) ==
  /\ entry' = e
  /\ resyncing' = FALSE
  /\ UNCHANGED <<link, toPeer>>

\* An applied snapshot: markSynchronized follows.
Applies(e) ==
  /\ entry' = e
  /\ resyncing' = FALSE
  /\ link' = [link EXCEPT !.state = IF @ = "syncing" THEN "online" ELSE @]
  /\ UNCHANGED toPeer

SameRevision(f) ==
  entry # None /\ entry.snapEpoch = link.hello /\ f.revision = entry.revision
Refused(f) ==
  \/ f.epoch # link.hello
  \/ entry # None /\ entry.snapEpoch = link.hello /\ f.revision < entry.revision
  \/ SameRevision(f) /\ f.rows # entry.rows

\* Faulty variant: the snapshot the hub already has is nothing new, syncing or not.
TakesSnapshotOnce(f) ==
  /\ IF entry # None /\ ~Current THEN UNCHANGED <<hubVars, toPeer>>
     ELSE IF Refused(f) THEN Resync
     ELSE IF SameRevision(f) THEN UNCHANGED <<hubVars, toPeer>>
     ELSE Applies([generation |-> link.generation, epoch |-> link.hello, state |-> "online",
                   revision |-> f.revision, rows |-> f.rows, snapEpoch |-> link.hello])
  /\ UNCHANGED deadEnd

TakesSnapshot(f) ==
  /\ IF entry # None /\ ~Current THEN UNCHANGED <<hubVars, toPeer>>
     ELSE IF Refused(f) THEN Resync
     ELSE IF SameRevision(f)
          THEN IF entry.state = "syncing" THEN Applies([entry EXCEPT !.state = "online"])
               ELSE UNCHANGED <<hubVars, toPeer>>
     ELSE Applies([generation |-> link.generation, epoch |-> link.hello, state |-> "online",
                   revision |-> f.revision, rows |-> f.rows, snapEpoch |-> link.hello])
  /\ deadEnd' = \/ deadEnd
                \/ /\ resyncing /\ SameRevision(f)
                   /\ f.rows # entry.rows /\ Range(f.rows) = Range(entry.rows)

\* apply: a changed row keeps its place, a new one comes last.
Patched(rows, f) ==
  Without(rows, f.removes) \o Without(f.upserts, Range(rows))

\* Faulty variant: a gap goes unnoticed.
FollowsAnything(f) ==
  /\ f.epoch = link.hello /\ entry.state # "syncing"
  /\ f.revision > entry.revision
  /\ f.removes \subseteq Range(entry.rows)

Follows(f) ==
  /\ f.epoch = link.hello /\ entry.state # "syncing"
  /\ f.prev = entry.revision /\ f.revision = entry.revision + 1
  /\ f.removes \subseteq Range(entry.rows)

TakesDelta(f) ==
  /\ IF entry = None \/ entry.generation # link.generation THEN UNCHANGED <<hubVars, toPeer>>
     ELSE IF entry.epoch = link.hello /\ Follows(f)
          THEN /\ entry' = [entry EXCEPT !.revision = f.revision, !.rows = Patched(@, f)]
               /\ UNCHANGED <<link, resyncing, toPeer>>
     ELSE Resync
  /\ UNCHANGED deadEnd

HubReceives ==
  /\ toHub # <<>>
  /\ toHub' = Tail(toHub)
  /\ LET f == Head(toHub) IN
       \/ f.kind = "heartbeat" /\ TakesHeartbeat(f)
       \/ f.kind \in {"snapshot", "response"} /\ TakesSnapshot(f)
       \/ f.kind = "delta" /\ TakesDelta(f)
  /\ UNCHANGED <<peerVars, counts, published>>

-----------------------------------------------------------------------------
Next ==
  \/ SourceChanges \/ Ticks \/ ReadsAgain \/ DrainEnds \/ ReadFails
  \/ Dials \/ HubVerifies \/ PeerAccepts \/ PeerBeats \/ Degrades
  \/ Drops \/ PeerRestarts \/ HubRestarts \/ PeerTakesRequest \/ HubReceives

Spec == Init /\ [][Next]_vars

(* The collector ticks for ever and reads return. A tick comes a second after *)
(* the last and a read of fresh rows takes less, so that the drain is not     *)
(* overtaken each time: strong fairness. The hub redials after a backoff.     *)
FairSpec ==
  /\ Spec
  /\ WF_vars(Ticks) /\ WF_vars(ReadsAgain) /\ SF_vars(DrainEnds)
  /\ WF_vars(Dials) /\ WF_vars(HubVerifies) /\ WF_vars(PeerAccepts)
  /\ WF_vars(PeerTakesRequest) /\ WF_vars(HubReceives)

-----------------------------------------------------------------------------
(* Properties.                                                               *)

(* The state is made of the values above, and the hub has at most one         *)
(* heartbeat on the way.                                                      *)
TypeOK ==
  /\ source \in Catalogs /\ pub \in Publisher /\ conn \in PeerEnd
  /\ link \in HubEnd /\ entry \in Entry \cup {None}
  /\ resyncing \in BOOLEAN /\ deadEnd \in BOOLEAN /\ toPeer \in Nat
  /\ Cardinality({i \in DOMAIN toHub : toHub[i].kind = "heartbeat"}) <= 1

(* The hub's copy is always a version the peer published, whole, and it never *)
(* goes back: not by a delta after a lost one, a snapshot that crosses        *)
(* another, or a new process of the peer (delta, snapshot).                   *)
Replica == INSTANCE CatalogReplica WITH
  replica <- IF entry = None THEN None
             ELSE [epoch |-> entry.snapEpoch, revision |-> entry.revision,
                   rows |-> Range(entry.rows)]
ImplementsReplica == Replica!Spec

(* The hub shows rows as live only when they come from the connection and the *)
(* process it talks to (connected, offline).                                  *)
LiveRowsAreCurrent ==
  entry # None /\ entry.state = "online" =>
    /\ entry.generation = link.generation /\ entry.epoch = link.hello
    /\ entry.snapEpoch = pub.epoch /\ link.state \in {"online", "degraded"}

(* Without dropped frames nothing falls between the snapshot of accept and    *)
(* the sink it adds: what is on its way leads a live copy to the publisher's  *)
(* own revision, step by step (accept).                                       *)
OnTheWay == {i \in DOMAIN toHub : toHub[i].kind \in {"snapshot", "delta"}}
NothingSlipsThrough ==
  entry # None /\ entry.state = "online" /\ counts.lost = 0 =>
    pub.revision = entry.revision + Cardinality(OnTheWay)

(* A copy that is syncing stops being so, also after a gap, a restart of      *)
(* either side or a failed read, except where the request ended in a dead end *)
(* (resync, markSynchronized).                                                *)
Syncing == entry # None /\ entry.state = "syncing"
SyncingEnds == Syncing ~> (~Syncing \/ deadEnd)

(* Once the machine is left alone, the hub shows its rows and the link takes  *)
(* writes, unless a delta was lost with no later one, or a dead end.          *)
CaughtUp ==
  /\ entry # None /\ entry.state = "online" /\ Range(entry.rows) = Range(source)
  /\ link.state \in {"online", "degraded"}
CatchesUp == <>[](CaughtUp \/ deadEnd \/ counts.lost > 0)

(* As the tests say, the resnapshot recovers: a copy that is syncing stops    *)
(* being so (resync).                                                         *)
ResnapshotRecovers == Syncing ~> ~Syncing
=============================================================================
