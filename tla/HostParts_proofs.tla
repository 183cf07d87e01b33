---------------------------- MODULE HostParts_proofs ----------------------------
(***************************************************************************)
(* The parts of a host that know nothing of each other, each for any values *)
(* of its constants: the discovery collector and the stream that tells      *)
(* browsers of it, the self-update, and the shell sessions with the screens *)
(* of their tabs.                                                           *)
(***************************************************************************)
EXTENDS DiscoveryCollector, DiscoveryStream, ReleaseUpdate, ShellSessions,
        FiniteSetTheorems, SequenceTheorems, TLAPS

-----------------------------------------------------------------------------
(* The discovery collector.                                                   *)

(* The invariant: the rows and the panes a scan has read are what they seem,  *)
(* and a scan has panes of the lanes it could read only.                      *)

CInv ==
  /\ rows \in Partial(Keys, Rows) /\ world \in Partial(Keys, Contents)
  /\ health \in Healths /\ tick \in Ticks
  /\ \A k \in DOMAIN tick.panes : tick.ok[LaneOf[k]]

LEMMA PartialFunction ==
  ASSUME NEW S, NEW T, NEW f
  PROVE  f \in Partial(S, T) <=> DOMAIN f \subseteq S /\ f \in [DOMAIN f -> T]
BY DEF Partial

LEMMA NoPanes == ASSUME NEW S, NEW T PROVE << >> \in Partial(S, T) /\ DOMAIN << >> = {}
<1>1. << >> = [k \in {} |-> 0] /\ DOMAIN << >> = {}
  OBVIOUS
<1> QED BY <1>1 DEF Partial

LEMMA TickFields ==
  ASSUME NEW t \in Ticks
  PROVE  /\ t.phase \in {"idle", "probe", "scan", "apply"} /\ t.full \in BOOLEAN /\ t.again \in BOOLEAN
         /\ t.required \in BOOLEAN /\ t.print \in Prints /\ t.last \in Prints
         /\ t.ok \in [Lanes -> BOOLEAN] /\ t.panes \in Partial(Keys, Contents)
BY DEF Ticks

\* The end of a tick forgets what it has read.
LEMMA EndedTick ==
  ASSUME NEW t \in Ticks
  PROVE  Ended(t) \in Ticks /\ Ended(t).panes = << >>
<1>1. << >> \in Partial(Keys, Contents) /\ None \in Prints
  BY NoPanes DEF Prints
<1>2. [l \in Lanes |-> TRUE] \in [Lanes -> BOOLEAN]
  OBVIOUS
<1> QED BY <1>1, <1>2 DEF Ended, Ticks

LEMMA FingerprintIsPrint ==
  ASSUME world \in Partial(Keys, Contents)
  PROVE  Fingerprint \in Prints
<1>1. DOMAIN world \subseteq Keys /\ \A k \in DOMAIN world : world[k] \in Contents
  BY PartialFunction
<1>2. Fingerprint \in [DOMAIN world -> Processes]
  BY <1>1 DEF Fingerprint, Contents
<1> QED BY <1>1, <1>2 DEF Prints, Partial

LEMMA InitCInv == CollectorInit => CInv
<1> SUFFICES ASSUME CollectorInit PROVE CInv
  OBVIOUS
<1>1. rows = << >> /\ world = << >> /\ health = [l \in Lanes |-> "unknown"] /\ tick = Unscanned
  BY DEF CollectorInit, FeedInit
<1>2. << >> \in Partial(Keys, Rows) /\ << >> \in Partial(Keys, Contents) /\ None \in Prints
      /\ DOMAIN << >> = {}
  BY NoPanes DEF Prints
<1>3. Unscanned \in Ticks /\ Unscanned.panes = << >>
  BY <1>2 DEF Unscanned, Ticks
<1> QED BY <1>1, <1>2, <1>3 DEF CInv, Healths

-----------------------------------------------------------------------------
(* A tick up to the scan, and the host, leave the snapshot alone.            *)

LEMMA WorldKeeps == ASSUME CInv, HostChanges PROVE CInv'
<1>1. /\ rows' = rows /\ health' = health /\ tick' = tick
      /\ DOMAIN world \subseteq Keys /\ \A k \in DOMAIN world : world[k] \in Contents
  BY PartialFunction DEF HostChanges, collector, observed, feed, CInv
<1>2. PICK k \in Keys : \/ k \in DOMAIN world /\ world' = Without(world, k)
                        \/ \E c \in Contents : world' = With(world, k, c)
  BY DEF HostChanges
<1>3. CASE world' = Without(world, k)
  <2>1. world' \in [DOMAIN world \ {k} -> Contents]
    BY <1>1, <1>3 DEF Without
  <2> QED BY <1>1, <2>1 DEF CInv, Partial
<1>4. ASSUME NEW c \in Contents, world' = With(world, k, c) PROVE CInv'
  <2>1. world' \in [DOMAIN world \cup {k} -> Contents]
    BY <1>1, <1>4 DEF With
  <2>2. DOMAIN world \cup {k} \in SUBSET Keys
    BY <1>1
  <2> QED BY <1>1, <2>1, <2>2 DEF CInv, Partial
<1> QED BY <1>2, <1>3, <1>4

\* A tick moves on with what it has read.
LEMMA TickKeeps ==
  ASSUME CInv, UNCHANGED <<world, observed>>, tick' \in Ticks,
         \A k \in DOMAIN tick'.panes : tick'.ok[LaneOf[k]]
  PROVE  CInv'
BY DEF CInv, observed, feed

LEMMA StartKeeps == ASSUME CInv, NEW forced \in BOOLEAN, RunTick(forced) PROVE CInv'
<1>1. tick \in Ticks /\ None \in Prints /\ NeedsFull(forced) \in BOOLEAN
  BY DEF CInv, Prints, NeedsFull
<1>2. \/ tick' = [tick EXCEPT !.phase = IF NeedsFull(forced) THEN "scan" ELSE "probe",
                              !.full = NeedsFull(forced), !.print = None]
      \/ tick' = [tick EXCEPT !.again = TRUE]
  BY DEF RunTick
<1>3. tick' \in Ticks /\ tick'.panes = tick.panes /\ tick'.ok = tick.ok
  BY <1>1, <1>2 DEF Ticks
<1> QED BY <1>3, TickKeeps DEF RunTick, CInv

LEMMA ProbeKeeps ==
  ASSUME CInv, ProbeFails \/ ProbeFindsChange \/ ProbeSkips
  PROVE  CInv'
<1>1. tick \in Ticks /\ Fingerprint \in Prints
  BY FingerprintIsPrint DEF CInv
<1>2. CASE ProbeSkips
  <2>1. tick' \in Ticks /\ tick'.panes = << >>
    BY <1>1, <1>2, EndedTick DEF ProbeSkips
  <2>2. \A k \in DOMAIN tick'.panes : tick'.ok[LaneOf[k]]
    BY <2>1, NoPanes
  <2> QED BY <1>2, <2>1, <2>2, TickKeeps DEF ProbeSkips
<1>3. CASE ProbeFails \/ ProbeFindsChange
  <2>1. \/ tick' = [tick EXCEPT !.phase = "scan"]
        \/ tick' = [tick EXCEPT !.phase = "scan", !.full = TRUE, !.print = Fingerprint]
    BY <1>3 DEF ProbeFails, ProbeFindsChange
  <2>2. tick' \in Ticks /\ tick'.panes = tick.panes /\ tick'.ok = tick.ok
    BY <1>1, <2>1 DEF Ticks
  <2> QED BY <1>3, <2>2, TickKeeps DEF ProbeFails, ProbeFindsChange, CInv
<1> QED BY <1>2, <1>3

\* The lanes that could not be read have no panes.
LEMMA ScanKeeps == ASSUME CInv, Scan PROVE CInv'
<1>1. PICK unread \in SUBSET Lanes :
        tick' = [tick EXCEPT !.phase = "apply",
                             !.ok = [l \in Lanes |-> l \notin unread],
                             !.panes = [k \in {j \in DOMAIN world : LaneOf[j] \notin unread} |-> world[k]]]
  BY DEF Scan
<1> DEFINE ok == [l \in Lanes |-> l \notin unread]
           read == {j \in DOMAIN world : LaneOf[j] \notin unread}
           panes == [k \in read |-> world[k]]
<1>2. DOMAIN world \subseteq Keys /\ \A k \in DOMAIN world : world[k] \in Contents
  BY PartialFunction DEF CInv
<1>3. ok \in [Lanes -> BOOLEAN] /\ \A k \in read : ok[LaneOf[k]]
  BY <1>2, FeedAssumption
<1>4. panes \in Partial(Keys, Contents) /\ DOMAIN panes = read
  <2>1. panes \in [read -> Contents] /\ read \in SUBSET Keys
    BY <1>2
  <2> QED BY <2>1 DEF Partial
<1> HIDE DEF ok, panes
<1>5. tick' = [tick EXCEPT !.phase = "apply", !.ok = ok, !.panes = panes]
  BY <1>1 DEF ok, panes
<1>6. tick' \in Ticks /\ tick'.ok = ok /\ tick'.panes = panes
  BY <1>3, <1>4, <1>5 DEF CInv, Ticks
<1> QED BY <1>3, <1>4, <1>6, TickKeeps DEF Scan

-----------------------------------------------------------------------------
(* The snapshot after a scan.                                                *)

LEMMA ApplyTyped ==
  ASSUME CInv, ApplyAvailable, ApplyHealth
  PROVE  /\ rows' \in Partial(Keys, Rows) /\ health' \in Healths
         /\ DOMAIN rows' = {j \in Keys : (Tracked(j) /\ ~Gone(j)) \/ Found(j)}
         /\ \A k \in DOMAIN rows' : rows'[k] = RowAfter(k)
<1> DEFINE left == {j \in Keys : (Tracked(j) /\ ~Gone(j)) \/ Found(j)}
<1>1. rows' = [k \in left |-> RowAfter(k)]
  BY DEF ApplyAvailable
<1>2. /\ DOMAIN rows \subseteq Keys /\ \A k \in DOMAIN rows : rows[k] \in Rows
      /\ \A k \in DOMAIN tick.panes : tick.panes[k] \in Contents
  BY PartialFunction, TickFields DEF CInv
<1>3. ASSUME NEW k \in left PROVE RowAfter(k) \in Rows
  <2>1. Tracked(k) => rows[k] \in Rows
    BY <1>2 DEF Tracked
  <2>2. Found(k) => tick.panes[k] \in Contents /\ tick.ok[LaneOf[k]]
    BY <1>2 DEF Found, CInv
  <2>3. CASE Found(k)
    <3>1. CASE Held(k)
      <4>1. Tracked(k) /\ RowAfter(k) = [rows[k] EXCEPT !.presence = "present"]
        BY <2>2, <2>3, <3>1 DEF RowAfter, Held, TemporarilyUnbound
      <4> QED BY <2>1, <4>1 DEF Rows
    <3>2. CASE ~Held(k)
      <4>1. RowAfter(k) = [process |-> tick.panes[k].process,
                           conversation |-> tick.panes[k].conversation, presence |-> "present"]
        BY <2>2, <2>3, <3>2 DEF RowAfter
      <4> QED BY <2>2, <2>3, <4>1 DEF Rows, Contents
    <3> QED BY <3>1, <3>2
  <2>4. CASE ~Found(k)
    <3>1. RowAfter(k) \in {rows[k], [rows[k] EXCEPT !.presence = "stale"]} /\ Tracked(k)
      BY <2>4 DEF RowAfter
    <3> QED BY <2>1, <3>1 DEF Rows
  <2> QED BY <2>3, <2>4
<1> HIDE DEF left
<1>4. rows' \in [left -> Rows] /\ left \in SUBSET Keys
  BY <1>1, <1>3 DEF left
<1>5. health' \in Healths
  BY DEF ApplyHealth, CInv, Healths
<1>6. rows' \in Partial(Keys, Rows) /\ DOMAIN rows' = left
  BY <1>4 DEF Partial
<1> QED BY <1>1, <1>5, <1>6 DEF left

(* It is one that may follow: a row is missing only if it was stale or another *)
(* session has its name, and a stale row is the one there was.                 *)
LEMMA ApplyFollows ==
  ASSUME CInv, ApplyAvailable, ApplyHealth
  PROVE  MayFollow(rows, rows')
<1>1. /\ DOMAIN rows' = {j \in Keys : (Tracked(j) /\ ~Gone(j)) \/ Found(j)}
      /\ \A k \in DOMAIN rows' : rows'[k] = RowAfter(k)
  BY ApplyTyped
<1>2. /\ DOMAIN rows \subseteq Keys /\ \A k \in DOMAIN rows : rows[k] \in Rows
      /\ DOMAIN tick.panes \subseteq Keys /\ \A k \in DOMAIN tick.panes : tick.panes[k] \in Contents
  BY PartialFunction, TickFields DEF CInv
<1>3. ASSUME NEW j \in DOMAIN tick.panes PROVE j \in DOMAIN rows' /\ RowAfter(j).presence = "present"
  <2>1. j \in DOMAIN rows' /\ Found(j) /\ tick.ok[LaneOf[j]]
    BY <1>1, <1>2 DEF Found, CInv
  <2>2. CASE Held(j)
    <3>1. RowAfter(j) = [rows[j] EXCEPT !.presence = "present"] /\ rows[j] \in Rows
      BY <1>2, <2>1, <2>2 DEF RowAfter, Held, TemporarilyUnbound, Tracked
    <3> QED BY <2>1, <3>1 DEF Rows
  <2>3. CASE ~Held(j)
    BY <2>1, <2>3 DEF RowAfter
  <2> QED BY <2>1, <2>2, <2>3
<1>4. ASSUME NEW k \in DOMAIN rows \ DOMAIN rows'
      PROVE  rows[k].presence = "stale" \/ Succeeded(k, rows')
  <2>1. Gone(k) /\ ~Found(k)
    BY <1>1, <1>2 DEF Tracked
  <2>2. CASE NameTaken(k)
    <3>1. PICK j \in DOMAIN tick.panes : LaneOf[j] = LaneOf[k] /\ NameOf[j] = NameOf[k]
      BY <2>2 DEF NameTaken
    <3>2. j # k /\ j \in DOMAIN rows' /\ rows'[j].presence = "present"
      BY <1>1, <1>3, <2>1, <3>1 DEF Found
    <3> QED BY <3>1, <3>2 DEF Succeeded
  <2>3. CASE ~NameTaken(k)
    BY <2>1, <2>3 DEF Gone
  <2> QED BY <2>2, <2>3
<1>5. ASSUME NEW k \in DOMAIN rows', rows'[k].presence = "stale"
      PROVE  k \in DOMAIN rows /\ rows'[k] = [rows[k] EXCEPT !.presence = "stale"]
  <2>1. ~Found(k) /\ rows'[k] = RowAfter(k)
    BY <1>1, <1>3, <1>5 DEF Found
  <2>2. k \in DOMAIN rows /\ rows[k] \in Rows
    BY <1>1, <1>2, <2>1 DEF Tracked
  <2>3. RowAfter(k) = rows[k] \/ RowAfter(k) = [rows[k] EXCEPT !.presence = "stale"]
    BY <2>1 DEF RowAfter
  <2>4. rows[k].presence = "stale" => rows[k] = [rows[k] EXCEPT !.presence = "stale"]
    BY <2>2 DEF Rows
  <2> QED BY <1>5, <2>1, <2>2, <2>3, <2>4
<1> QED BY <1>4, <1>5 DEF MayFollow

LEMMA ApplyKeeps ==
  ASSUME CInv, Apply
  PROVE  CInv' /\ [FeedNext]_feed
<1>1. ApplyAvailable /\ ApplyHealth /\ world' = world
  BY DEF Apply
<1>2. rows' \in Partial(Keys, Rows) /\ health' \in Healths /\ MayFollow(rows, rows')
  BY <1>1, ApplyTyped, ApplyFollows
<1>3. tick' \in Ticks /\ tick'.panes = << >>
  <2>1. PICK all \in BOOLEAN :
          tick' = Ended([tick EXCEPT !.required = ~all,
                                     !.last = IF all /\ tick.print # None THEN tick.print ELSE @])
    BY DEF Apply
  <2>2. [tick EXCEPT !.required = ~all,
                     !.last = IF all /\ tick.print # None THEN tick.print ELSE @] \in Ticks
    BY DEF CInv, Ticks
  <2> QED BY <2>1, <2>2, EndedTick
<1>4. \A k \in DOMAIN tick'.panes : tick'.ok[LaneOf[k]]
  BY <1>3, NoPanes
<1>5. CInv'
  BY <1>1, <1>2, <1>3, <1>4 DEF CInv
<1>6. revision' = IF rows' # rows \/ health' # health THEN revision + 1 ELSE revision
  BY DEF Apply
<1>7. CASE rows' = rows /\ health' = health
  BY <1>5, <1>6, <1>7 DEF feed
<1>8. CASE rows' # rows \/ health' # health
  <2>1. \A l \in Lanes : health'[l] = "unknown" => health[l] = "unknown"
    BY <1>1 DEF ApplyHealth
  <2>2. Publish(rows', health')
    BY <1>2, <1>8, <2>1 DEF Publish
  <2> QED BY <1>2, <1>5, <1>6, <1>8, <2>2 DEF FeedNext
<1> QED BY <1>7, <1>8

LEMMA StepKeepsCInv ==
  ASSUME CInv, [CollectorStep]_cvars
  PROVE  CInv' /\ [FeedNext]_feed
<1>1. CASE Apply
  BY <1>1, ApplyKeeps
<1>2. CASE HostChanges
  BY <1>2, WorldKeeps DEF HostChanges, collector, observed, feed
<1>3. CASE TimerTick \/ ForcedTick
  BY <1>3, StartKeeps DEF TimerTick, ForcedTick, RunTick, observed, feed
<1>4. CASE ProbeFails \/ ProbeFindsChange \/ ProbeSkips
  BY <1>4, ProbeKeeps DEF ProbeFails, ProbeFindsChange, ProbeSkips, observed, feed
<1>5. CASE Scan
  BY <1>5, ScanKeeps DEF Scan, observed, feed
<1>6. CASE FullScanAges \/ UNCHANGED cvars
  BY <1>6 DEF FullScanAges, cvars, collector, observed, feed, CInv
<1> QED BY <1>1, <1>2, <1>3, <1>4, <1>5, <1>6 DEF CollectorStep

(* The collector implements the feed (runTick, applyAvailable, publish): every *)
(* step of it is a snapshot that may follow the one before and has the next    *)
(* number, or changes nothing that listeners see.                              *)
THEOREM CollectorIsFeed == CollectorSpec => ImplementsFeed
<1>1. CollectorInit => FeedInit
  BY DEF CollectorInit
<1>2. CInv /\ [CollectorStep]_cvars => CInv' /\ [FeedNext]_feed
  BY StepKeepsCInv
<1> QED BY <1>1, <1>2, InitCInv, PTL DEF CollectorSpec, ImplementsFeed, FeedSpec

-----------------------------------------------------------------------------
(* The discovery stream. A frame tells a part of the history of the feed: a   *)
(* function from the numbers of the snapshots to their rows.                  *)

Histories == {h \in [0..revision -> Partial(Keys, Rows)] :
                h[revision] = rows /\ \A r \in 1..revision : MayFollow(h[r - 1], h[r])}

\* What a server process of epoch e with the history h may say.
Snapshots(h, e) ==
  {[kind |-> "snapshot", epoch |-> e, revision |-> r, rows |-> h[r], health |-> d] :
     r \in DOMAIN h, d \in Healths}
Deltas(h, e) ==
  {[kind |-> "delta", epoch |-> e, revision |-> r, prev |-> r - 1,
    changes |-> Diff(h[r - 1], h[r]), health |-> d] : r \in DOMAIN h \ {0}, d \in Healths}
Heartbeats(h, e) == {[kind |-> "heartbeat", epoch |-> e, revision |-> r] : r \in DOMAIN h}

Sayings(h, e) ==
  Snapshots(h, e) \cup Deltas(h, e) \cup Heartbeats(h, e)
    \cup {[kind |-> "resync_required", epoch |-> e]}

\* A socket's subscriber whose queue holds frames of F only.
Subscribers(F) == [on : BOOLEAN, queue : Seq(F), awaiting : BOOLEAN]

\* All that is on its way to the browser.
Path == wire \o sub.queue

\* The browser shows a moment of the history, or waits for a snapshot.
Shown(h) ==
  \/ browser.awaiting
  \/ browser.epoch = epoch /\ browser.revision \in DOMAIN h /\ browser.rows = h[browser.revision]

Carries(F) == wire \in Seq(F) /\ sub \in Subscribers(F)
Remembered == \E h \in Histories : Carries(Sayings(h, epoch)) /\ Shown(h)

\* Behind the last demand, or the browser that heeds it, comes no snapshot.
Demands(p, heeded) ==
  \/ \E i \in DOMAIN p : /\ p[i].kind = "resync_required"
                         /\ \A j \in DOMAIN p : j > i => p[j].kind # "snapshot"
  \/ heeded /\ \A j \in DOMAIN p : p[j].kind # "snapshot"

Demanded == sub.awaiting => Demands(Path, browser.awaiting)

StreamTyped ==
  /\ rows \in Partial(Keys, Rows) /\ revision \in Nat /\ health \in Healths
  /\ epoch \in Nat \ {0} /\ epoch <= faults + 1 /\ faults \in 0..MaxFaults
  /\ browser \in Browsers /\ requests \in Seq({"subscribe", "resync"})
  /\ Len(sub.queue) <= MaxQueued

StreamInv == StreamTyped /\ Remembered /\ Demanded

-----------------------------------------------------------------------------
(* Frames that follow each other.                                            *)

LEMMA Associative ==
  ASSUME NEW F PROVE \A a, b, c \in Seq(F) : (a \o b) \o c = a \o (b \o c)
BY ConcatAssociative

LEMMA FirstFrame ==
  ASSUME NEW F, NEW s \in Seq(F), NEW t \in Seq(F), s # << >>
  PROVE  /\ Head(s) \in F /\ Head(s) = (s \o t)[1] /\ s \o t \in Seq(F) /\ s \o t # << >>
         /\ Tail(s) \in Seq(F) /\ Tail(s) \o t = Tail(s \o t)
<1> DEFINE u == s \o t
           v == Tail(s) \o t
<1>1. /\ u \in Seq(F) /\ Len(u) = Len(s) + Len(t) /\ Len(s) \in Nat \ {0} /\ Len(t) \in Nat
      /\ \A i \in 1 .. Len(s) + Len(t) : u[i] = IF i <= Len(s) THEN s[i] ELSE t[i - Len(s)]
  BY ConcatProperties, LenProperties, EmptySeq
<1>2. /\ Head(s) \in F /\ Head(s) = s[1] /\ Tail(s) \in Seq(F) /\ Len(Tail(s)) = Len(s) - 1
      /\ \A i \in 1 .. Len(Tail(s)) : Tail(s)[i] = s[i + 1]
  BY HeadTailProperties
<1>3. /\ v \in Seq(F) /\ Len(v) = Len(Tail(s)) + Len(t)
      /\ \A i \in 1 .. Len(Tail(s)) + Len(t) :
           v[i] = IF i <= Len(Tail(s)) THEN Tail(s)[i] ELSE t[i - Len(Tail(s))]
  BY <1>2, ConcatProperties
<1>4. u # << >>
  BY <1>1, EmptySeq
<1>5. /\ Tail(u) \in Seq(F) /\ Len(Tail(u)) = Len(u) - 1
      /\ \A i \in 1 .. Len(Tail(u)) : Tail(u)[i] = u[i + 1]
  BY <1>1, <1>4, HeadTailProperties
<1>6. u[1] = s[1]
  BY <1>1
<1> HIDE DEF u, v
<1>7. Len(v) = Len(Tail(u)) /\ \A i \in 1 .. Len(v) : v[i] = Tail(u)[i]
  <2>1. Len(v) = Len(Tail(u)) /\ Len(v) = Len(s) - 1 + Len(t)
    BY <1>1, <1>2, <1>3, <1>5
  <2>2. ASSUME NEW i \in 1 .. Len(v) PROVE v[i] = Tail(u)[i]
    <3>1. CASE i <= Len(s) - 1
      <4>1. v[i] = s[i + 1]
        BY <1>1, <1>2, <1>3, <2>1, <3>1
      <4>2. Tail(u)[i] = s[i + 1]
        BY <1>1, <1>5, <2>1, <3>1
      <4> QED BY <4>1, <4>2
    <3>2. CASE ~(i <= Len(s) - 1)
      <4>1. v[i] = t[i - (Len(s) - 1)]
        BY <1>1, <1>2, <1>3, <2>1, <3>2
      <4>2. Tail(u)[i] = t[i + 1 - Len(s)]
        BY <1>1, <1>5, <2>1, <3>2
      <4>3. i - (Len(s) - 1) = i + 1 - Len(s)
        BY <1>1, <2>1
      <4> QED BY <4>1, <4>2, <4>3
    <3> QED BY <3>1, <3>2
  <2> QED BY <2>1, <2>2
<1>8. v = Tail(u)
  BY <1>3, <1>5, <1>7, SeqEqual
<1> QED BY <1>1, <1>2, <1>4, <1>6, <1>8 DEF u, v

\* What is queued behind a demand is no snapshot when the demand is the last frame.
LEMMA DemandLast ==
  ASSUME NEW F, NEW p \in Seq(F), NEW f \in F, f.kind = "resync_required", NEW heeded
  PROVE  Demands(Append(p, f), heeded)
<1> DEFINE q == Append(p, f)
           n == Len(p)
<1>1. n \in Nat /\ q \in Seq(F) /\ Len(q) = n + 1 /\ DOMAIN q = 1 .. Len(q) /\ q[n + 1] = f
  BY AppendProperties, LenProperties
<1> HIDE DEF q, n
<1>2. n + 1 \in DOMAIN q /\ \A j \in DOMAIN q : ~(j > n + 1)
  BY <1>1
<1> QED BY <1>1, <1>2 DEF Demands, q

LEMMA DemandMoves ==
  ASSUME NEW F, NEW p \in Seq(F), p # << >>, NEW before \in BOOLEAN, NEW after \in BOOLEAN,
         Demands(p, before),
         Head(p).kind = "resync_required" => after,
         before => after \/ Head(p).kind = "snapshot"
  PROVE  Demands(Tail(p), after)
<1> DEFINE t == Tail(p)
<1>1. /\ DOMAIN p = 1 .. Len(p) /\ Len(p) \in Nat \ {0} /\ Head(p) = p[1]
      /\ t \in Seq(F) /\ Len(t) = Len(p) - 1 /\ DOMAIN t = 1 .. Len(t)
      /\ \A i \in 1 .. Len(t) : t[i] = p[i + 1]
  BY HeadTailProperties, LenProperties, EmptySeq
<1> HIDE DEF t
<1>2. \A j \in DOMAIN t : j \in Nat \ {0} /\ j + 1 \in DOMAIN p /\ t[j] = p[j + 1]
  BY <1>1
<1>3. ASSUME NEW i \in DOMAIN p, p[i].kind = "resync_required",
             \A j \in DOMAIN p : j > i => p[j].kind # "snapshot"
      PROVE  Demands(t, after)
  <2>1. CASE i = 1
    <3>1. \A j \in DOMAIN t : t[j].kind # "snapshot"
      BY <1>2, <1>3, <2>1
    <3> QED BY <1>1, <1>3, <2>1, <3>1 DEF Demands
  <2>2. CASE i # 1
    <3>1. i - 1 \in DOMAIN t /\ t[i - 1] = p[i]
      BY <1>1, <2>2
    <3>2. \A j \in DOMAIN t : j > i - 1 => t[j].kind # "snapshot"
      BY <1>1, <1>2, <1>3
    <3> QED BY <1>3, <3>1, <3>2 DEF Demands
  <2> QED BY <2>1, <2>2
<1>4. ASSUME before, \A j \in DOMAIN p : p[j].kind # "snapshot" PROVE Demands(t, after)
  <2>1. \A j \in DOMAIN t : t[j].kind # "snapshot"
    BY <1>2, <1>4
  <2>2. Head(p).kind # "snapshot"
    BY <1>1, <1>4
  <2> QED BY <1>4, <2>1, <2>2 DEF Demands
<1>5. \/ \E i \in DOMAIN p : /\ p[i].kind = "resync_required"
                            /\ \A j \in DOMAIN p : j > i => p[j].kind # "snapshot"
      \/ before /\ \A j \in DOMAIN p : p[j].kind # "snapshot"
  BY DEF Demands
<1>6. Demands(t, after)
  BY <1>3, <1>4, <1>5
<1> QED BY <1>6 DEF t

-----------------------------------------------------------------------------
(* The queue of the socket: what is put into it is the end of what is on its  *)
(* way, or the demand is.                                                    *)

\* The conclusion: all that is on its way is p, and the subscriber's flags are these.
Queued(F, p, on, awaiting) ==
  /\ wire' \in Seq(F) /\ sub' \in Subscribers(F) /\ Len(sub'.queue) <= MaxQueued
  /\ Path' = p /\ sub'.on = on /\ sub'.awaiting = awaiting

LEMMA FlushQueues ==
  ASSUME NEW F, wire \in Seq(F), NEW s \in Subscribers(F), Len(s.queue) <= MaxQueued, Flush(s)
  PROVE  Queued(F, wire \o s.queue, s.on, s.awaiting)
<1>1. s.queue \in Seq(F) /\ s.on \in BOOLEAN /\ s.awaiting \in BOOLEAN
  BY DEF Subscribers
<1>2. CASE Len(wire) > MaxBuffered
  BY <1>1, <1>2 DEF Flush, Queued, Path
<1>3. CASE ~(Len(wire) > MaxBuffered)
  <2>1. sub' = [s EXCEPT !.queue = << >>] /\ wire' = wire \o s.queue
    BY <1>3 DEF Flush
  <2>2. << >> \in Seq(F) /\ Len(<< >>) = 0 /\ wire \o s.queue \in Seq(F)
    BY <1>1, EmptySeq, ConcatProperties
  <2>3. /\ sub' \in Subscribers(F) /\ sub'.queue = << >> /\ sub'.on = s.on
        /\ sub'.awaiting = s.awaiting
    BY <1>1, <2>1, <2>2 DEF Subscribers
  <2>4. (wire \o s.queue) \o << >> = wire \o s.queue
    BY <2>2, ConcatEmptySeq
  <2>5. Path' = wire \o s.queue
    BY <2>1, <2>3, <2>4 DEF Path
  <2> QED BY <2>1, <2>2, <2>3, <2>5, StreamAssumption DEF Queued
<1> QED BY <1>2, <1>3

\* The queue holds the frame, or the demand and nothing else.
LEMMA EnqueueQueues ==
  ASSUME NEW F, wire \in Seq(F), NEW s \in Subscribers(F), Len(s.queue) <= MaxQueued,
         NEW frame \in F, ResyncRequired \in F, Enqueue(s, frame)
  PROVE  \/ Queued(F, Append(wire \o s.queue, frame), s.on, s.awaiting)
         \/ Queued(F, Append(wire, ResyncRequired), s.on, TRUE)
<1>1. s.queue \in Seq(F) /\ Len(s.queue) \in Nat /\ s.on \in BOOLEAN /\ s.awaiting \in BOOLEAN
  BY LenProperties DEF Subscribers
<1>2. CASE Len(s.queue) >= MaxQueued
  <2> DEFINE t == Overflows(s, frame)
  <2>1. <<ResyncRequired>> \in Seq(F) /\ Len(<<ResyncRequired>>) = 1
    OBVIOUS
  <2>2. /\ t \in Subscribers(F) /\ t.queue = <<ResyncRequired>> /\ t.on = s.on /\ t.awaiting = TRUE
    BY <1>1, <2>1 DEF Overflows, Subscribers
  <2>3. Flush(t) /\ 1 <= MaxQueued
    BY <1>2, StreamAssumption DEF Enqueue
  <2> HIDE DEF t
  <2>4. Queued(F, wire \o t.queue, t.on, t.awaiting)
    BY <2>1, <2>2, <2>3, FlushQueues
  <2>5. wire \o <<ResyncRequired>> = Append(wire, ResyncRequired)
    BY AppendIsConcat
  <2> QED BY <2>2, <2>4, <2>5
<1>3. CASE ~(Len(s.queue) >= MaxQueued)
  <2> DEFINE t == [s EXCEPT !.queue = Append(@, frame)]
  <2>1. Append(s.queue, frame) \in Seq(F) /\ Len(Append(s.queue, frame)) = Len(s.queue) + 1
    BY <1>1, AppendProperties
  <2>2. t \in Subscribers(F) /\ t.queue = Append(s.queue, frame) /\ t.on = s.on /\ t.awaiting = s.awaiting
    BY <1>1, <2>1 DEF Subscribers
  <2>3. Flush(t) /\ Len(s.queue) + 1 <= MaxQueued
    BY <1>1, <1>3, StreamAssumption DEF Enqueue
  <2> HIDE DEF t
  <2>4. Queued(F, wire \o t.queue, t.on, t.awaiting)
    BY <2>1, <2>2, <2>3, FlushQueues
  <2>5. wire \o Append(s.queue, frame) = Append(wire \o s.queue, frame)
    <3> DEFINE last == <<frame>>
    <3>1. /\ Append(s.queue, frame) = s.queue \o last /\ last \in Seq(F)
          /\ wire \o s.queue \in Seq(F)
      BY <1>1, AppendIsConcat, ConcatProperties
    <3>2. Append(wire \o s.queue, frame) = (wire \o s.queue) \o last
      BY <3>1, AppendIsConcat
    <3> HIDE DEF last
    <3>3. (wire \o s.queue) \o last = wire \o (s.queue \o last)
      <4>1. \A a, b, c \in Seq(F) : (a \o b) \o c = a \o (b \o c)
        BY Associative
      <4> QED BY <1>1, <3>1, <4>1, Zenon
    <3> QED BY <3>1, <3>2, <3>3
  <2> QED BY <2>2, <2>4, <2>5
<1> QED BY <1>2, <1>3

-----------------------------------------------------------------------------
(* The history of a server process.                                          *)

LEMMA PatchIsNext ==
  ASSUME NEW a \in Partial(Keys, Rows), NEW b \in Partial(Keys, Rows), MayFollow(a, b)
  PROVE  Patched(a, Diff(a, b)) = b
<1> DEFINE d == Diff(a, b)
           touched == {k \in DOMAIN d : d[k].op = "added" \/ k \in DOMAIN a}
           kept == (DOMAIN a \cup touched) \ {k \in DOMAIN d : d[k].op = "removed"}
<1>1. /\ DOMAIN a \subseteq Keys /\ a \in [DOMAIN a -> Rows] /\ DOMAIN b \subseteq Keys
      /\ b \in [DOMAIN b -> Rows]
  BY PartialFunction
<1>2. /\ DOMAIN d = Changed(a, b)
      /\ \A k \in Changed(a, b) :
           d[k] = IF k \notin DOMAIN b THEN [op |-> "removed"]
                  ELSE IF k \notin DOMAIN a THEN [op |-> "added", row |-> b[k]]
                  ELSE IF a[k].presence # "stale" /\ b[k].presence = "stale" THEN [op |-> "stale"]
                  ELSE [op |-> "updated", row |-> b[k]]
  BY DEF Diff
<1>3. Patched(a, d) = [k \in kept |-> IF k \notin touched THEN a[k]
                                      ELSE IF d[k].op = "stale" THEN [a[k] EXCEPT !.presence = "stale"]
                                      ELSE d[k].row]
  BY DEF Patched
<1> HIDE DEF d
<1>4. \A k \in Changed(a, b) : /\ k \notin DOMAIN b <=> d[k].op = "removed"
                               /\ k \notin DOMAIN a => d[k].op = "added"
  <2> SUFFICES ASSUME NEW k \in Changed(a, b)
               PROVE  /\ k \notin DOMAIN b <=> d[k].op = "removed"
                      /\ k \notin DOMAIN a => d[k].op = "added"
    OBVIOUS
  <2>1. k \in DOMAIN a \/ k \in DOMAIN b
    BY DEF Changed
  <2> DEFINE e == d[k]
  <2>2. e = IF k \notin DOMAIN b THEN [op |-> "removed"]
            ELSE IF k \notin DOMAIN a THEN [op |-> "added", row |-> b[k]]
            ELSE IF a[k].presence # "stale" /\ b[k].presence = "stale" THEN [op |-> "stale"]
            ELSE [op |-> "updated", row |-> b[k]]
    BY <1>2
  <2> HIDE DEF e
  <2>3. /\ k \notin DOMAIN b <=> e.op = "removed"
        /\ k \notin DOMAIN a => e.op = "added"
    BY <2>1, <2>2
  <2> QED BY <2>3 DEF e
<1>5. touched = Changed(a, b)
  BY <1>2, <1>4
<1>6. kept = DOMAIN b
  BY <1>2, <1>4, <1>5 DEF Changed
<1>7. ASSUME NEW k \in DOMAIN b, k \notin touched PROVE a[k] = b[k]
  BY <1>5, <1>7 DEF Changed
<1>8. ASSUME NEW k \in DOMAIN b, k \in touched, d[k].op = "stale"
      PROVE  [a[k] EXCEPT !.presence = "stale"] = b[k]
  <2>1. k \in DOMAIN a /\ b[k].presence = "stale"
    BY <1>2, <1>5, <1>8
  <2> QED BY <2>1 DEF MayFollow
<1>9. ASSUME NEW k \in DOMAIN b, k \in touched, d[k].op # "stale" PROVE d[k].row = b[k]
  BY <1>2, <1>5, <1>9
<1>10. Patched(a, d) = [k \in DOMAIN b |-> b[k]]
  <2> HIDE DEF touched, kept
  <2> QED BY <1>3, <1>6, <1>7, <1>8, <1>9
<1> QED BY <1>1, <1>10 DEF d

\* What a process may say in the four kinds of frames.
LEMMA SayingCases ==
  ASSUME NEW h, NEW e, NEW f \in Sayings(h, e)
  PROVE  /\ f.kind \in Frames /\ f.epoch = e
         /\ f.kind = "snapshot" =>
              f.revision \in DOMAIN h /\ f.rows = h[f.revision] /\ f.health \in Healths
         /\ f.kind = "delta" =>
              /\ f.revision \in DOMAIN h \ {0} /\ f.prev = f.revision - 1 /\ f.health \in Healths
              /\ f.changes = Diff(h[f.revision - 1], h[f.revision])
BY DEF Sayings, Snapshots, Deltas, Heartbeats, Frames

\* The history goes on with the next snapshot, and the delta tells it.
LEMMA HistoryGrows ==
  ASSUME revision \in Nat, health \in Healths, NEW h \in Histories, FeedNext, epoch' = epoch
  PROVE  \E g \in Histories' :
           /\ DOMAIN h \subseteq DOMAIN g /\ \A r \in DOMAIN h : g[r] = h[r]
           /\ Sayings(h, epoch) \subseteq Sayings(g, epoch) /\ Delta \in Sayings(g, epoch)
<1> DEFINE n == revision
           g == [r \in 0 .. n + 1 |-> IF r <= n THEN h[r] ELSE rows']
<1>1. /\ revision' = n + 1 /\ rows' \in Partial(Keys, Rows) /\ health' \in Healths
      /\ MayFollow(rows, rows')
  BY DEF FeedNext, Publish
<1>2. /\ n \in Nat /\ h \in [0..n -> Partial(Keys, Rows)] /\ h[n] = rows
      /\ \A r \in 1..n : MayFollow(h[r - 1], h[r])
  BY DEF Histories
<1>3. /\ g \in [0 .. n + 1 -> Partial(Keys, Rows)] /\ g[n + 1] = rows' /\ DOMAIN g = 0 .. n + 1
      /\ \A r \in 0..n : g[r] = h[r]
  BY <1>1, <1>2
<1> HIDE DEF g
<1>4. ASSUME NEW r \in 1 .. n + 1 PROVE MayFollow(g[r - 1], g[r])
  <2>1. CASE r = n + 1
    <3>1. g[r] = rows' /\ g[r - 1] = rows
      BY <1>2, <1>3, <2>1
    <3> QED BY <1>1, <3>1
  <2>2. CASE r # n + 1
    <3>1. r \in 1..n /\ g[r] = h[r] /\ g[r - 1] = h[r - 1]
      BY <1>2, <1>3, <2>2
    <3> QED BY <1>2, <3>1
  <2> QED BY <2>1, <2>2
<1>5. g \in Histories'
  BY <1>1, <1>3, <1>4 DEF Histories
<1>6. DOMAIN h = 0..n /\ 0..n \subseteq 0 .. n + 1 /\ \A r \in 0..n \ {0} : r - 1 \in 0..n
  BY <1>2
<1>7. \A r \in DOMAIN h \ {0} : Diff(h[r - 1], h[r]) = Diff(g[r - 1], g[r])
  BY <1>3, <1>6
<1>8. Sayings(h, epoch) \subseteq Sayings(g, epoch)
  BY <1>3, <1>6, <1>7 DEF Sayings, Snapshots, Deltas, Heartbeats
<1>9. Delta \in Sayings(g, epoch)
  <2>1. /\ n + 1 \in DOMAIN g \ {0} /\ n + 1 - 1 = n /\ g[n] = rows /\ g[n + 1] = rows'
    BY <1>2, <1>3
  <2> DEFINE m == n + 1
  <2>2. Delta = [kind |-> "delta", epoch |-> epoch, revision |-> m, prev |-> m - 1,
                 changes |-> Diff(g[m - 1], g[m]), health |-> health']
    BY <1>1, <2>1 DEF Delta
  <2>3. m \in DOMAIN g \ {0}
    BY <2>1
  <2> HIDE DEF m
  <2>4. \E r \in DOMAIN g \ {0}, d \in Healths :
          Delta = [kind |-> "delta", epoch |-> epoch, revision |-> r, prev |-> r - 1,
                   changes |-> Diff(g[r - 1], g[r]), health |-> d]
    BY <1>1, <2>2, <2>3, Zenon
  <2>5. Delta \in Deltas(g, epoch)
    BY <2>4 DEF Deltas
  <2> QED BY <2>5 DEF Sayings
<1> QED BY <1>3, <1>5, <1>6, <1>8, <1>9

LEMMA SpokenNow ==
  ASSUME revision \in Nat, health \in Healths, NEW h \in Histories
  PROVE  {Snapshot, Heartbeat, ResyncRequired} \subseteq Sayings(h, epoch)
<1>1. revision \in DOMAIN h /\ h[revision] = rows
  BY DEF Histories
<1>2. Snapshot \in Sayings(h, epoch)
  BY <1>1 DEF Sayings, Snapshots, Snapshot
<1>3. Heartbeat \in Sayings(h, epoch) /\ ResyncRequired \in Sayings(h, epoch)
  BY <1>1 DEF Sayings, Heartbeats, Heartbeat, ResyncRequired
<1> QED BY <1>2, <1>3

-----------------------------------------------------------------------------
(* What the server does keeps the invariant.                                 *)

Delivered(F) ==
  /\ wire' \in Seq(F) /\ sub' \in Subscribers(F) /\ Len(sub'.queue) <= MaxQueued
  /\ sub'.awaiting => Demands(Path', browser.awaiting)

LEMMA FlushDelivers ==
  ASSUME NEW F, Carries(F), Len(sub.queue) <= MaxQueued, Demanded, Flush(sub)
  PROVE  Delivered(F)
<1>1. wire \in Seq(F) /\ sub \in Subscribers(F)
  BY DEF Carries
<1>2. Queued(F, wire \o sub.queue, sub.on, sub.awaiting)
  BY <1>1, FlushQueues
<1> QED BY <1>2 DEF Queued, Delivered, Demanded, Path

LEMMA EnqueueDelivers ==
  ASSUME NEW F, wire \in Seq(F), NEW s \in Subscribers(F), Len(s.queue) <= MaxQueued, ~s.awaiting,
         NEW frame \in F, ResyncRequired \in F, Enqueue(s, frame)
  PROVE  Delivered(F)
<1>1. CASE Queued(F, Append(wire \o s.queue, frame), s.on, s.awaiting)
  BY <1>1 DEF Queued, Delivered
<1>2. CASE Queued(F, Append(wire, ResyncRequired), s.on, TRUE)
  <2>1. Demands(Append(wire, ResyncRequired), browser.awaiting)
    <3>1. ResyncRequired.kind = "resync_required"
      BY DEF ResyncRequired
    <3> QED BY <3>1, DemandLast
  <2> QED BY <1>2, <2>1 DEF Queued, Delivered
<1> QED BY <1>1, <1>2, EnqueueQueues

LEMMA NotifyDelivers ==
  ASSUME NEW F, Carries(F), Len(sub.queue) <= MaxQueued, Demanded, Notify,
         {ResyncRequired, Heartbeat} \subseteq F, revision' # revision => Delta \in F
  PROVE  Delivered(F)
<1>1. wire \in Seq(F) /\ sub \in Subscribers(F) /\ sub.awaiting \in BOOLEAN
  BY DEF Carries, Subscribers
<1>2. CASE UNCHANGED <<sub, wire>>
  BY <1>1, <1>2 DEF Delivered, Demanded, Path
<1>3. CASE ~sub.awaiting /\ Enqueue(sub, Heartbeat)
  BY <1>1, <1>3, EnqueueDelivers
<1>4. CASE revision' # revision /\ ~sub.awaiting /\ Enqueue(sub, Delta)
  BY <1>1, <1>4, EnqueueDelivers
<1>5. CASE Flush(sub)
  BY <1>5, FlushDelivers
<1> QED BY <1>1, <1>2, <1>3, <1>4, <1>5, Zenon DEF Notify

\* A step of the server and of the feed leaves the browser as it is.
LEMMA ServerStep ==
  ASSUME StreamInv, NEW g \in Histories', Delivered(Sayings(g, epoch)), UNCHANGED <<epoch, browser, faults>>,
         NEW h \in Histories, Shown(h), DOMAIN h \subseteq DOMAIN g, \A r \in DOMAIN h : g[r] = h[r],
         rows' \in Partial(Keys, Rows), revision' \in Nat, health' \in Healths,
         requests' \in Seq({"subscribe", "resync"})
  PROVE  StreamInv'
<1>1. StreamTyped'
  BY DEF StreamInv, StreamTyped, Delivered
<1>2. Shown(g)'
  BY DEF Shown
<1>3. Carries(Sayings(g, epoch))'
  <2>1. Carries(Sayings(g, epoch))' <=> wire' \in Seq(Sayings(g, epoch)') /\ sub' \in Subscribers(Sayings(g, epoch)')
    BY DEF Carries
  <2> QED BY <2>1 DEF Delivered, Sayings, Snapshots, Deltas, Heartbeats
<1>4. Demanded'
  BY DEF Delivered, Demanded
<1> QED BY <1>1, <1>2, <1>3, <1>4 DEF StreamInv, Remembered

LEMMA FeedTickKeeps == ASSUME StreamInv, TickEnds PROVE StreamInv'
<1>1. PICK h \in Histories : Carries(Sayings(h, epoch)) /\ Shown(h)
  BY DEF StreamInv, Remembered
<1>2. /\ rows \in Partial(Keys, Rows) /\ revision \in Nat /\ health \in Healths /\ Demanded
      /\ Len(sub.queue) <= MaxQueued /\ requests \in Seq({"subscribe", "resync"})
  BY DEF StreamInv, StreamTyped
<1>3. Notify /\ UNCHANGED <<epoch, requests, browser, faults>>
  BY DEF TickEnds
<1>4. {ResyncRequired, Heartbeat} \subseteq Sayings(h, epoch)
  BY <1>2, SpokenNow
<1>5. CASE FeedNext
  <2>1. PICK g \in Histories' :
          /\ DOMAIN h \subseteq DOMAIN g /\ \A r \in DOMAIN h : g[r] = h[r]
          /\ Sayings(h, epoch) \subseteq Sayings(g, epoch) /\ Delta \in Sayings(g, epoch)
    BY <1>2, <1>3, <1>5, HistoryGrows
  <2>2. Carries(Sayings(g, epoch))
    <3>1. /\ wire \in Seq(Sayings(h, epoch)) /\ sub.queue \in Seq(Sayings(h, epoch))
          /\ sub \in [on : BOOLEAN, queue : Seq(Sayings(h, epoch)), awaiting : BOOLEAN]
      BY <1>1 DEF Carries, Subscribers
    <3>2. wire \in Seq(Sayings(g, epoch)) /\ sub.queue \in Seq(Sayings(g, epoch))
      BY <2>1, <3>1, SeqMonotonic
    <3> QED BY <3>1, <3>2 DEF Carries, Subscribers
  <2>3. {ResyncRequired, Heartbeat} \subseteq Sayings(g, epoch)
    BY <1>4, <2>1
  <2>4. Delivered(Sayings(g, epoch))
    BY <1>2, <1>3, <2>1, <2>2, <2>3, NotifyDelivers
  <2>5. rows' \in Partial(Keys, Rows) /\ revision' \in Nat /\ health' \in Healths
    BY <1>2, <1>5 DEF FeedNext, Publish
  <2> QED BY <1>1, <1>2, <1>3, <2>1, <2>4, <2>5, ServerStep
<1>6. CASE UNCHANGED feed
  <2>1. h \in Histories' /\ UNCHANGED <<rows, revision, health>>
    BY <1>6 DEF Histories, feed
  <2>2. Delivered(Sayings(h, epoch))
    BY <1>1, <1>2, <1>3, <1>4, <2>1, NotifyDelivers
  <2> QED BY <1>1, <1>2, <1>3, <2>1, <2>2, ServerStep
<1> QED BY <1>5, <1>6 DEF TickEnds

LEMMA SnapshotKeeps ==
  ASSUME StreamInv, requests # << >>, requests' = Tail(requests), UNCHANGED <<feed, faults, epoch, browser>>,
         NEW s, SendsSnapshot(s), Len(s.queue) <= MaxQueued,
         \A F : Carries(F) => s \in Subscribers(F)
  PROVE  StreamInv'
<1>1. PICK h \in Histories : Carries(Sayings(h, epoch)) /\ Shown(h)
  BY DEF StreamInv, Remembered
<1>2. /\ rows \in Partial(Keys, Rows) /\ revision \in Nat /\ health \in Healths
      /\ requests \in Seq({"subscribe", "resync"})
  BY DEF StreamInv, StreamTyped
<1>3. {Snapshot, ResyncRequired} \subseteq Sayings(h, epoch)
  BY <1>2, SpokenNow
<1> DEFINE t == [s EXCEPT !.awaiting = FALSE]
<1>4. wire \in Seq(Sayings(h, epoch)) /\ s \in Subscribers(Sayings(h, epoch))
  BY <1>1 DEF Carries
<1>5. t \in Subscribers(Sayings(h, epoch)) /\ t.queue = s.queue /\ ~t.awaiting /\ Enqueue(t, Snapshot)
  BY <1>4 DEF Subscribers, SendsSnapshot
<1> HIDE DEF t
<1>6. Delivered(Sayings(h, epoch))
  BY <1>3, <1>4, <1>5, EnqueueDelivers
<1>7. h \in Histories' /\ UNCHANGED <<rows, revision, health>>
  BY DEF Histories, feed
<1>8. Tail(requests) \in Seq({"subscribe", "resync"})
  BY <1>2, HeadTailProperties
<1> QED BY <1>1, <1>2, <1>6, <1>7, <1>8, ServerStep

LEMMA SwitchedOn ==
  /\ \A F : \A s \in Subscribers(F) : [s EXCEPT !.on = TRUE] \in Subscribers(F)
  /\ [Nobody EXCEPT !.on = TRUE].queue = Nobody.queue
<1>1. ASSUME NEW F, NEW s \in Subscribers(F), NEW yes \in BOOLEAN
      PROVE  [s EXCEPT !.on = yes] \in Subscribers(F)
  BY DEF Subscribers
<1>2. ASSUME NEW yes \in BOOLEAN PROVE [Nobody EXCEPT !.on = yes].queue = Nobody.queue
  BY DEF Nobody
<1> QED BY <1>1, <1>2

LEMMA SubscribeKeeps == ASSUME StreamInv, HandlesSubscribe PROVE StreamInv'
<1> DEFINE s == [Nobody EXCEPT !.on = TRUE]
<1>1. \A F : Nobody \in Subscribers(F)
  BY EmptySeq DEF Nobody, Subscribers
<1>2. Nobody.queue = << >> /\ Len(<< >>) = 0
  BY DEF Nobody
<1>3. Len(s.queue) <= MaxQueued /\ \A F : s \in Subscribers(F)
  BY <1>1, <1>2, SwitchedOn, StreamAssumption
<1>4. /\ requests # << >> /\ requests' = Tail(requests) /\ UNCHANGED <<feed, faults, epoch, browser>>
      /\ SendsSnapshot(s)
  BY DEF HandlesSubscribe
<1> HIDE DEF s
<1> QED BY <1>3, <1>4, SnapshotKeeps

LEMMA ResyncKeeps == ASSUME StreamInv, HandlesResync PROVE StreamInv'
<1>1. Len(sub.queue) <= MaxQueued /\ \A F : Carries(F) => sub \in Subscribers(F)
  BY DEF StreamInv, StreamTyped, Carries
<1>2. /\ requests # << >> /\ requests' = Tail(requests) /\ UNCHANGED <<feed, faults, epoch, browser>>
      /\ SendsSnapshot(sub)
  BY DEF HandlesResync
<1> QED BY <1>1, <1>2, SnapshotKeeps

-----------------------------------------------------------------------------
(* The browser: whatever it is told, it waits for a snapshot afterwards or    *)
(* shows a moment of the history.                                            *)

LEMMA BrowserFields ==
  ASSUME NEW b \in Browsers
  PROVE  /\ b.connected \in BOOLEAN /\ b.epoch \in Epochs \cup {Nothing} /\ b.revision \in Nat
         /\ b.rows \in Partial(Keys, Rows) /\ b.awaiting \in BOOLEAN
         /\ b.read \in {"none", "fresh", "expired"} /\ b.window \in 0..BrowserResyncs
         /\ b.recovery \in {"none", "open", "armed", "attempted"}
         /\ b.frame \in {"none", "fresh", "old"} /\ b.auth \in [Lanes -> {"stream", "rest"}]
BY DEF Browsers

\* What a browser shows.
Seen(b) == <<b.awaiting, b.epoch, b.revision, b.rows>>

LEMMA DistrustingKeeps ==
  ASSUME NEW b \in Browsers
  PROVE  Distrusting(b) \in Browsers /\ Seen(Distrusting(b)) = Seen(b)
BY DEF Browsers, Distrusting, Seen

LEMMA ResetWaits == ASSUME NEW b \in Browsers PROVE Reset(b) \in Browsers /\ Reset(b).awaiting
<1> DEFINE c == [b EXCEPT !.epoch = Nothing, !.revision = 0, !.rows = << >>, !.awaiting = TRUE,
                          !.frame = "none"]
<1>1. c \in Browsers /\ c.awaiting
  BY NoPanes DEF Browsers
<1>2. Reset(b) = Distrusting(c)
  BY DEF Reset
<1> HIDE DEF c
<1> QED BY <1>1, <1>2, DistrustingKeeps DEF Browsers, Distrusting

LEMMA AskingKeeps ==
  ASSUME NEW b \in Browsers
  PROVE  /\ Deferred(b) \in Browsers /\ Seen(Deferred(b)) = Seen(b)
         /\ \A reason : Opened(b, reason) \in Browsers /\ Seen(Opened(b, reason)) = Seen(b)
         /\ b.window < BrowserResyncs => Admitted(b) \in Browsers /\ Seen(Admitted(b)) = Seen(b)
<1>1. Deferred(b) \in Browsers /\ Seen(Deferred(b)) = Seen(b)
  BY DEF Browsers, Deferred, Seen
<1>2. \A reason : Opened(b, reason) \in Browsers /\ Seen(Opened(b, reason)) = Seen(b)
  BY DEF Browsers, Opened, Seen
<1>3. ASSUME b.window < BrowserResyncs
      PROVE  Admitted(b) \in Browsers /\ Seen(Admitted(b)) = Seen(b)
  <2>1. b.window + 1 \in 0..BrowserResyncs
    BY <1>3, BrowserFields, StreamAssumption
  <2> QED BY <2>1 DEF Browsers, Admitted, Seen
<1> QED BY <1>1, <1>2, <1>3

LEMMA ResyncAsks ==
  ASSUME browser \in Browsers, requests \in Seq({"subscribe", "resync"}), NEW reason, NEW retry,
         ResetAndResync(browser, reason, retry)
  PROVE  /\ browser' \in Browsers /\ requests' \in Seq({"subscribe", "resync"})
         /\ \/ browser'.awaiting
            \/ reason = "client_error" /\ Seen(browser') = Seen(browser)
<1> DEFINE how == Disposition(browser, retry)
           opened == Opened(browser, reason)
           asked == Deferred(IF how = "sent" THEN Admitted(opened) ELSE opened)
<1>1. opened \in Browsers /\ Seen(opened) = Seen(browser) /\ opened.window = browser.window
  <2>1. opened.window = browser.window
    BY DEF Opened, Browsers
  <2> QED BY <2>1, AskingKeeps
<1>2. how = "sent" => browser.window < BrowserResyncs
  BY BrowserFields, StreamAssumption DEF Disposition
<1>3. requests' = IF how = "sent" THEN Append(requests, "resync") ELSE requests
  BY DEF ResetAndResync
<1>4. browser' = IF how = "limited" /\ reason = "client_error" THEN asked ELSE Reset(asked)
  BY DEF ResetAndResync
<1>5. requests' \in Seq({"subscribe", "resync"})
  BY <1>3, AppendProperties
<1> HIDE DEF how, opened
<1>6. asked \in Browsers /\ Seen(asked) = Seen(browser)
  <2>1. CASE how = "sent"
    <3>1. Admitted(opened) \in Browsers /\ Seen(Admitted(opened)) = Seen(browser)
      BY <1>1, <1>2, <2>1, AskingKeeps
    <3> QED BY <2>1, <3>1, AskingKeeps
  <2>2. CASE how # "sent"
    BY <1>1, <2>2, AskingKeeps
  <2> QED BY <2>1, <2>2
<1> HIDE DEF asked
<1>7. Reset(asked) \in Browsers /\ Reset(asked).awaiting
  BY <1>6, ResetWaits
<1> QED BY <1>4, <1>5, <1>6, <1>7

LEMMA BrowserStep ==
  ASSUME StreamInv, BrowserOnly, browser' \in Browsers, requests' \in Seq({"subscribe", "resync"}),
         browser'.awaiting \/ Seen(browser') = Seen(browser)
  PROVE  StreamInv'
<1>1. UNCHANGED <<rows, revision, health, faults, epoch, sub, wire>> /\ Path' = Path
  BY DEF BrowserOnly, feed, Path
<1>2. StreamTyped'
  BY <1>1 DEF StreamInv, StreamTyped
<1>3. PICK h \in Histories : Carries(Sayings(h, epoch)) /\ Shown(h)
  BY DEF StreamInv, Remembered
<1>4. h \in Histories' /\ Carries(Sayings(h, epoch))'
  BY <1>1, <1>3 DEF Histories, Carries, Sayings, Snapshots, Deltas, Heartbeats
<1>5. Shown(h)'
  BY <1>1, <1>3 DEF Shown, Seen
<1>6. Demanded'
  BY <1>1 DEF StreamInv, Demanded, Demands, Seen
<1> QED BY <1>2, <1>4, <1>5, <1>6 DEF StreamInv, Remembered

\* A frame is taken from the wire.
LEMMA ReceiveStep ==
  ASSUME StreamInv, wire # << >>, wire' = Tail(wire), UNCHANGED <<feed, faults, epoch, sub>>,
         NEW h \in Histories, Carries(Sayings(h, epoch)), Shown(h)',
         browser' \in Browsers, requests' \in Seq({"subscribe", "resync"}),
         Head(wire).kind = "resync_required" => browser'.awaiting,
         browser.awaiting => browser'.awaiting \/ Head(wire).kind = "snapshot"
  PROVE  StreamInv'
<1> DEFINE F == Sayings(h, epoch)
<1>1. UNCHANGED <<rows, revision, health, faults, epoch, sub>>
  BY DEF feed
<1>2. StreamTyped'
  BY <1>1 DEF StreamInv, StreamTyped
<1>3. h \in Histories'
  BY <1>1 DEF Histories
<1>4. wire \in Seq(F) /\ sub \in Subscribers(F) /\ sub.queue \in Seq(F) /\ sub.awaiting \in BOOLEAN
  BY DEF Carries, Subscribers
<1>5. F' = F
  BY <1>1 DEF Sayings, Snapshots, Deltas, Heartbeats
<1> HIDE DEF F
<1>6. /\ Head(wire) = Head(Path) /\ Path \in Seq(F) /\ Path # << >>
      /\ Tail(wire) \in Seq(F) /\ Path' = Tail(Path)
  <2>1. /\ Head(wire) = Path[1] /\ Path \in Seq(F) /\ Path # << >> /\ Tail(wire) \in Seq(F)
        /\ Tail(wire) \o sub.queue = Tail(Path)
    BY <1>4, FirstFrame DEF Path
  <2>2. Path' = Tail(wire) \o sub.queue
    BY <1>1 DEF Path
  <2>3. Head(Path) = Path[1]
    OBVIOUS
  <2> QED BY <2>1, <2>2, <2>3
<1>7. Carries(F)'
  BY <1>1, <1>4, <1>5, <1>6 DEF Carries
<1>8. Demanded'
  <2>1. CASE sub.awaiting
    <3>1. Demands(Path, browser.awaiting) /\ browser.awaiting \in BOOLEAN /\ browser'.awaiting \in BOOLEAN
      BY <2>1, BrowserFields DEF StreamInv, StreamTyped, Demanded
    <3>2. Demands(Tail(Path), browser'.awaiting)
      <4> DEFINE before == browser.awaiting
                 after == browser'.awaiting
                 p == Path
      <4>1. /\ before \in BOOLEAN /\ after \in BOOLEAN /\ Demands(p, before) /\ p \in Seq(F) /\ p # << >>
            /\ Head(p).kind = "resync_required" => after
            /\ before => after \/ Head(p).kind = "snapshot"
        BY <1>6, <3>1
      <4> HIDE DEF before, after, p
      <4>2. Demands(Tail(p), after)
        BY <4>1, DemandMoves
      <4> QED BY <4>2 DEF p, after
    <3> QED BY <1>1, <1>6, <3>2 DEF Demanded
  <2>2. CASE ~sub.awaiting
    BY <1>1, <2>2 DEF Demanded
  <2> QED BY <2>1, <2>2
<1> QED BY <1>2, <1>3, <1>5, <1>7, <1>8 DEF StreamInv, Remembered, F

LEMMA AuthorisedKeeps ==
  ASSUME NEW b \in Browsers, NEW f
  PROVE  Authorised(b, f) \in Browsers /\ Seen(Authorised(b, f)) = Seen(b)
<1> DEFINE a == [l \in Lanes |-> IF f.health[l] = "ok" THEN "stream" ELSE "rest"]
<1>1. a \in [Lanes -> {"stream", "rest"}] /\ Authorised(b, f) = [b EXCEPT !.auth = a]
  BY DEF Authorised
<1> HIDE DEF a
<1> QED BY <1>1 DEF Browsers, Seen

\* What a frame makes of the browser.
Received(h) ==
  /\ Shown(h)' /\ browser' \in Browsers /\ requests' \in Seq({"subscribe", "resync"})
  /\ Head(wire).kind = "resync_required" => browser'.awaiting
  /\ browser.awaiting => browser'.awaiting \/ Head(wire).kind = "snapshot"

LEMMA FrameReceived ==
  ASSUME StreamTyped, NEW h \in Histories, NEW f \in Sayings(h, epoch), f = Head(wire), Shown(h),
         epoch' = epoch,
         \/ f.kind = "snapshot" /\ TakesSnapshot(f)
         \/ f.kind = "heartbeat" /\ TakesHeartbeat(f)
         \/ f.kind = "delta" /\ TakesDelta(f)
         \/ f.kind = "resync_required" /\ ResetAndResync(browser, "gap", FALSE)
  PROVE  Received(h)
<1>1. /\ browser \in Browsers /\ requests \in Seq({"subscribe", "resync"}) /\ f.epoch = epoch
      /\ epoch \in Epochs /\ h \in [0..revision -> Partial(Keys, Rows)] /\ revision \in Nat
  BY SayingCases, StreamAssumption DEF StreamTyped, Histories, Epochs
<1>2. ASSUME NEW reason, NEW retry \in BOOLEAN, reason # "client_error", ResetAndResync(browser, reason, retry)
      PROVE  Received(h)
  <2>1. browser' \in Browsers /\ requests' \in Seq({"subscribe", "resync"}) /\ browser'.awaiting
    BY <1>1, <1>2, ResyncAsks
  <2> QED BY <2>1 DEF Received, Shown
<1>3. ASSUME Keeps(browser), f.kind # "resync_required" PROVE Received(h)
  BY <1>1, <1>3 DEF Keeps, Received, Shown
<1>4. CASE f.kind = "snapshot" /\ TakesSnapshot(f)
  <2>1. f.revision \in DOMAIN h /\ f.rows = h[f.revision]
    BY <1>4, SayingCases
  <2> DEFINE c == [browser EXCEPT !.epoch = f.epoch, !.revision = f.revision,
                           !.rows = f.rows, !.awaiting = FALSE, !.frame = "fresh",
                           !.read = "none", !.recovery = "none"]
  <2>2. CASE Keeps(Authorised(c, f))
    <3>1. f.revision \in Nat /\ f.rows \in Partial(Keys, Rows)
      BY <1>1, <2>1
    <3>2. c \in Browsers /\ Seen(c) = <<FALSE, epoch, f.revision, f.rows>>
      BY <1>1, <3>1 DEF Browsers, Seen
    <3> HIDE DEF c
    <3>3. browser' \in Browsers /\ Seen(browser') = <<FALSE, epoch, f.revision, f.rows>> /\ requests' = requests
      BY <2>2, <3>2, AuthorisedKeeps DEF Keeps
    <3>4. /\ browser'.epoch = epoch /\ browser'.revision = f.revision /\ browser'.rows = f.rows
          /\ browser'.awaiting = FALSE
      BY <3>3 DEF Seen
    <3> QED BY <1>1, <1>4, <2>1, <3>3, <3>4 DEF Received, Shown
  <2>3. CASE Keeps(browser)
    BY <1>3, <1>4, <2>3
  <2> QED BY <1>4, <2>2, <2>3 DEF TakesSnapshot
<1>5. CASE f.kind = "heartbeat" /\ TakesHeartbeat(f)
  <2>1. CASE Keeps(browser)
    BY <1>3, <1>5, <2>1
  <2>2. CASE Keeps(Distrusting(browser))
    <3>1. browser' \in Browsers /\ Seen(browser') = Seen(browser) /\ requests' = requests
      BY <1>1, <2>2, DistrustingKeeps DEF Keeps
    <3> QED BY <1>1, <1>5, <3>1 DEF Received, Shown, Seen
  <2>3. CASE ResetAndResync(browser, "epoch_mismatch", FALSE) \/ ResetAndResync(browser, "gap", FALSE)
    BY <1>2, <2>3
  <2> QED BY <1>5, <2>1, <2>2, <2>3 DEF TakesHeartbeat
<1>6. CASE f.kind = "delta" /\ TakesDelta(f)
  <2>1. CASE ResyncReason(f) # "none"
    <3>1. ResyncReason(f) # "client_error" /\ ResetAndResync(browser, ResyncReason(f), FALSE)
      BY <1>6, <2>1 DEF TakesDelta, ResyncReason
    <3> QED BY <1>2, <3>1
  <2>2. CASE Keeps(browser)
    BY <1>3, <1>6, <2>2
  <2>3. CASE ResyncReason(f) = "none" /\ ~(browser.awaiting \/ f.revision <= browser.revision)
    <3> DEFINE r == f.revision
               c == [browser EXCEPT !.revision = f.revision, !.frame = "fresh",
                                    !.rows = Patched(@, f.changes)]
    <3>1. /\ r \in DOMAIN h \ {0} /\ f.changes = Diff(h[r - 1], h[r]) /\ f.prev = r - 1
      BY <1>6, SayingCases
    <3>2. f.prev = browser.revision /\ ~browser.awaiting
      BY <2>3 DEF ResyncReason
    <3>3. browser.epoch = epoch /\ browser.rows = h[r - 1] /\ r \in 1..revision
      BY <1>1, <3>1, <3>2 DEF Shown
    <3>4. MayFollow(h[r - 1], h[r]) /\ h[r - 1] \in Partial(Keys, Rows) /\ h[r] \in Partial(Keys, Rows)
      BY <1>1, <3>3 DEF Histories
    <3>5. Patched(browser.rows, f.changes) = h[r]
      BY <3>1, <3>3, <3>4, PatchIsNext
    <3>6. Keeps(Authorised(c, f))
      BY <1>6, <2>3 DEF TakesDelta
    <3>7. c = [browser EXCEPT !.revision = r, !.frame = "fresh", !.rows = h[r]]
      BY <3>5, Zenon
    <3>r. r \in Nat
      BY <1>1, <3>3
    <3> HIDE DEF c, r
    <3>8. c \in Browsers /\ Seen(c) = <<browser.awaiting, browser.epoch, r, h[r]>>
      BY <1>1, <3>4, <3>7, <3>r DEF Browsers, Seen
    <3>9. browser' \in Browsers /\ Seen(browser') = Seen(c) /\ requests' = requests
      BY <3>6, <3>8, AuthorisedKeeps DEF Keeps
    <3>10. /\ browser'.epoch = epoch /\ browser'.revision = r /\ browser'.rows = h[r]
           /\ browser'.awaiting = browser.awaiting
      BY <3>3, <3>8, <3>9 DEF Seen
    <3> QED BY <1>1, <1>6, <3>1, <3>9, <3>10 DEF Received, Shown
  <2> QED BY <1>6, <2>1, <2>2, <2>3 DEF TakesDelta
<1>7. CASE f.kind = "resync_required" /\ ResetAndResync(browser, "gap", FALSE)
  BY <1>2, <1>7
<1> QED BY <1>4, <1>5, <1>6, <1>7

LEMMA ReceivesKeeps == ASSUME StreamInv, Receives PROVE StreamInv'
<1>1. PICK h \in Histories : Carries(Sayings(h, epoch)) /\ Shown(h)
  BY DEF StreamInv, Remembered
<1>2. wire # << >> /\ wire' = Tail(wire) /\ UNCHANGED <<feed, faults, epoch, sub>> /\ StreamTyped
  BY DEF Receives, StreamInv
<1>3. Head(wire) \in Sayings(h, epoch)
  BY <1>1, <1>2, HeadTailProperties DEF Carries
<1>4. Received(h)
  <2> DEFINE f == Head(wire)
  <2>1. \/ f.kind = "snapshot" /\ TakesSnapshot(f)
        \/ f.kind = "heartbeat" /\ TakesHeartbeat(f)
        \/ f.kind = "delta" /\ TakesDelta(f)
        \/ f.kind = "resync_required" /\ ResetAndResync(browser, "gap", FALSE)
    BY DEF Receives
  <2>2. f \in Sayings(h, epoch) /\ epoch' = epoch
    BY <1>2, <1>3
  <2> QED BY <1>1, <1>2, <2>1, <2>2, FrameReceived
<1> QED BY <1>1, <1>2, <1>4, ReceiveStep DEF Received

LEMMA TimersKeep ==
  ASSUME StreamInv, ReadExpires \/ FrameAges \/ WindowPasses \/ RecoveryFires \/ ChecksFrames
  PROVE  StreamInv'
<1>1. browser \in Browsers /\ requests \in Seq({"subscribe", "resync"})
  BY DEF StreamInv, StreamTyped
<1>2. CASE ReadExpires
  <2>1. browser' \in Browsers /\ Seen(browser') = Seen(browser) /\ requests' = requests
    BY <1>1, <1>2 DEF ReadExpires, Browsers, Seen
  <2> QED BY <1>1, <1>2, <2>1, BrowserStep DEF ReadExpires
<1>3. CASE FrameAges
  <2>1. browser' \in Browsers /\ Seen(browser') = Seen(browser) /\ requests' = requests
    BY <1>1, <1>3 DEF FrameAges, Browsers, Seen
  <2> QED BY <1>1, <1>3, <2>1, BrowserStep DEF FrameAges
<1>4. CASE WindowPasses
  <2>1. browser' \in Browsers /\ Seen(browser') = Seen(browser) /\ requests' = requests
    BY <1>1, <1>4, StreamAssumption DEF WindowPasses, Browsers, Seen
  <2> QED BY <1>1, <1>4, <2>1, BrowserStep DEF WindowPasses
<1>5. CASE RecoveryFires
  <2> DEFINE b == [browser EXCEPT !.recovery = "attempted"]
  <2>1. b \in Browsers /\ Seen(b) = Seen(browser) /\ b.window = browser.window
    BY <1>1 DEF Browsers, Seen
  <2>2. b.window < BrowserResyncs /\ browser' = Admitted(b) /\ requests' = Append(requests, "resync")
    BY <1>5, <2>1 DEF RecoveryFires
  <2> HIDE DEF b
  <2>3. browser' \in Browsers /\ Seen(browser') = Seen(browser)
    BY <2>1, <2>2, AskingKeeps
  <2>4. requests' \in Seq({"subscribe", "resync"})
    BY <1>1, <2>2, AppendProperties
  <2> QED BY <1>5, <2>3, <2>4, BrowserStep DEF RecoveryFires
<1>6. CASE ChecksFrames
  <2>1. browser' \in Browsers /\ Seen(browser') = Seen(browser) /\ requests' = requests
    BY <1>1, <1>6, DistrustingKeeps DEF ChecksFrames, Doubts
  <2> QED BY <1>1, <1>6, <2>1, BrowserStep DEF ChecksFrames
<1> QED BY <1>2, <1>3, <1>4, <1>5, <1>6

LEMMA RefreshKeeps == ASSUME StreamInv, Refreshes PROVE StreamInv'
<1>1. browser \in Browsers /\ requests \in Seq({"subscribe", "resync"})
  BY DEF StreamInv, StreamTyped
<1>2. ResetAndResync(browser, "client_error", TRUE) /\ BrowserOnly
  BY DEF Refreshes
<1> QED BY <1>1, <1>2, ResyncAsks, BrowserStep

LEMMA ConnectKeeps == ASSUME StreamInv, Connects PROVE StreamInv'
<1> DEFINE b == [browser EXCEPT !.connected = TRUE]
<1>1. b \in Browsers
  <2>1. ASSUME NEW yes \in BOOLEAN PROVE [browser EXCEPT !.connected = yes] \in Browsers
    BY DEF StreamInv, StreamTyped, Browsers
  <2> QED BY <2>1
<1>2. browser' = [Reset(b) EXCEPT !.read = "fresh"] /\ requests' = <<"subscribe">> /\ BrowserOnly
  BY DEF Connects
<1> HIDE DEF b
<1>3. Reset(b) \in Browsers /\ Reset(b).awaiting
  BY <1>1, ResetWaits
<1>4. browser' \in Browsers /\ browser'.awaiting
  BY <1>2, <1>3 DEF Browsers
<1>5. requests' \in Seq({"subscribe", "resync"})
  BY <1>2
<1> QED BY <1>2, <1>4, <1>5, BrowserStep

\* A connection is lost, and with it all that was on its way.
LEMMA DroppedKeeps ==
  ASSUME StreamInv, Dropped, faults < MaxFaults, faults' = faults + 1,
         epoch' \in Nat \ {0}, epoch' <= epoch + 1, NEW h \in Histories',
         rows' \in Partial(Keys, Rows), revision' \in Nat, health' \in Healths
  PROVE  StreamInv'
<1> DEFINE b == [browser EXCEPT !.connected = FALSE, !.read = "none", !.window = 0, !.recovery = "none"]
           F == Sayings(h, epoch')
<1>1. b \in Browsers
  <2>1. ASSUME NEW no \in BOOLEAN
        PROVE  [browser EXCEPT !.connected = no, !.read = "none", !.window = 0, !.recovery = "none"] \in Browsers
    <3>1. browser \in Browsers /\ 0 \in 0..BrowserResyncs
      BY StreamAssumption DEF StreamInv, StreamTyped
    <3> QED BY <3>1 DEF Browsers
  <2> QED BY <2>1
<1>2. browser' = Reset(b) /\ sub' = Nobody /\ wire' = << >> /\ requests' = << >>
  BY DEF Dropped, Offline
<1> HIDE DEF b
<1>3. browser' \in Browsers /\ browser'.awaiting
  BY <1>1, <1>2, ResetWaits
<1>4. /\ wire' \in Seq(F) /\ sub' \in Subscribers(F) /\ Len(sub'.queue) <= MaxQueued
      /\ requests' \in Seq({"subscribe", "resync"}) /\ sub'.awaiting = FALSE
  <2>1. Nobody.queue = << >> /\ Nobody.awaiting = FALSE /\ Nobody \in Subscribers(F) /\ << >> \in Seq(F)
    BY EmptySeq DEF Nobody, Subscribers
  <2>2. Len(<< >>) = 0 /\ << >> \in Seq({"subscribe", "resync"})
    BY EmptySeq
  <2> HIDE DEF F
  <2> QED BY <1>2, <2>1, <2>2, StreamAssumption
<1>5. StreamTyped'
  BY <1>3, <1>4, StreamAssumption DEF StreamInv, StreamTyped
<1>6. Carries(Sayings(h, epoch))'
  <2>1. Carries(Sayings(h, epoch))' <=> wire' \in Seq(Sayings(h, epoch)') /\ sub' \in Subscribers(Sayings(h, epoch)')
    BY DEF Carries
  <2> QED BY <1>4, <2>1 DEF Sayings, Snapshots, Deltas, Heartbeats
<1>7. Shown(h)' /\ Demanded'
  BY <1>3, <1>4 DEF Shown, Demanded
<1> QED BY <1>5, <1>6, <1>7 DEF StreamInv, Remembered

LEMMA DropKeeps == ASSUME StreamInv, Drops PROVE StreamInv'
<1>1. PICK h \in Histories : TRUE
  BY DEF StreamInv, Remembered
<1>2. /\ Dropped /\ faults < MaxFaults /\ faults' = faults + 1
      /\ UNCHANGED <<rows, revision, health, epoch>>
  BY DEF Drops, feed
<1>3. h \in Histories'
  BY <1>2 DEF Histories
<1>4. /\ rows \in Partial(Keys, Rows) /\ revision \in Nat /\ health \in Healths /\ epoch \in Nat \ {0}
  BY DEF StreamInv, StreamTyped
<1> QED BY <1>2, <1>3, <1>4, DroppedKeeps

LEMMA NewHistory ==
  ASSUME rows = << >>, revision = 0 PROVE \E h \in Histories : h = [r \in {0} |-> << >>]
<1> DEFINE h == [r \in {0} |-> << >>]
<1>1. h \in [0..0 -> Partial(Keys, Rows)] /\ h[0] = << >>
  BY NoPanes
<1> HIDE DEF h
<1>2. h \in Histories
  BY <1>1 DEF Histories
<1> QED BY <1>2 DEF h

LEMMA RestartKeeps == ASSUME StreamInv, ServerRestarts PROVE StreamInv'
<1>1. /\ Dropped /\ faults < MaxFaults /\ faults' = faults + 1 /\ epoch' = epoch + 1
      /\ rows' = << >> /\ revision' = 0 /\ health' = [l \in Lanes |-> "unknown"]
  BY DEF ServerRestarts
<1>2. PICK h \in Histories' : TRUE
  <2> DEFINE h == [r \in {0} |-> << >>]
  <2>1. h \in [0..0 -> Partial(Keys, Rows)] /\ h[0] = << >>
    BY NoPanes
  <2> HIDE DEF h
  <2>2. h \in Histories'
    BY <1>1, <2>1 DEF Histories
  <2> QED BY <2>2
<1>3. epoch \in Nat \ {0}
  BY DEF StreamInv, StreamTyped
<1>4. health' \in Healths /\ rows' \in Partial(Keys, Rows)
  BY <1>1, NoPanes DEF Healths
<1> QED BY <1>1, <1>2, <1>3, <1>4, DroppedKeeps

LEMMA InitStreamInv == StreamInit => StreamInv
<1> SUFFICES ASSUME StreamInit PROVE StreamInv
  OBVIOUS
<1>1. /\ rows = << >> /\ revision = 0 /\ health = [l \in Lanes |-> "unknown"]
      /\ epoch = 1 /\ sub = Nobody /\ wire = << >> /\ requests = << >> /\ faults = 0
  BY DEF StreamInit, FeedInit
<1>2. browser \in Browsers /\ browser.awaiting
  <2> DEFINE a == [l \in Lanes |-> "rest"]
  <2>1. a \in [Lanes -> {"stream", "rest"}]
    OBVIOUS
  <2>2. /\ browser = [connected |-> FALSE, epoch |-> Nothing, revision |-> 0, rows |-> << >>,
                      awaiting |-> TRUE, read |-> "none", window |-> 0, recovery |-> "none",
                      frame |-> "none", auth |-> a]
    BY DEF StreamInit
  <2> HIDE DEF a
  <2> QED BY <2>1, <2>2, NoPanes, StreamAssumption DEF Browsers
<1>3. \A F : Nobody \in Subscribers(F) /\ << >> \in Seq(F)
  BY EmptySeq DEF Nobody, Subscribers
<1>4. Nobody.queue = << >> /\ Nobody.awaiting = FALSE /\ Len(<< >>) = 0
  BY DEF Nobody
<1>5. StreamTyped
  BY <1>1, <1>2, <1>3, <1>4, NoPanes, StreamAssumption DEF StreamTyped, Healths
<1>6. Remembered
  <2>1. PICK h \in Histories : TRUE
    BY <1>1, NewHistory
  <2>2. Carries(Sayings(h, epoch))
    <3> DEFINE F == Sayings(h, epoch)
    <3> HIDE DEF F
    <3>1. Carries(F)
      BY <1>1, <1>3 DEF Carries
    <3> QED BY <3>1 DEF F
  <2> QED BY <1>2, <2>2 DEF Remembered, Shown
<1>7. Demanded
  BY <1>1, <1>4 DEF Demanded
<1> QED BY <1>5, <1>6, <1>7 DEF StreamInv

LEMMA StepKeepsStreamInv == StreamInv /\ [StreamStep]_svars => StreamInv'
<1> SUFFICES ASSUME StreamInv, [StreamStep]_svars PROVE StreamInv'
  OBVIOUS
<1>1. CASE TickEnds \/ HandlesSubscribe \/ HandlesResync
  BY <1>1, FeedTickKeeps, SubscribeKeeps, ResyncKeeps
<1>2. CASE Receives \/ Refreshes \/ Connects
  BY <1>2, ReceivesKeeps, RefreshKeeps, ConnectKeeps
<1>3. CASE ReadExpires \/ FrameAges \/ WindowPasses \/ RecoveryFires \/ ChecksFrames
  BY <1>3, TimersKeep
<1>4. CASE Drops \/ ServerRestarts
  BY <1>4, DropKeeps, RestartKeeps
<1>5. CASE UNCHANGED svars
  <2>1. BrowserOnly /\ browser' = browser /\ requests' = requests
    BY <1>5 DEF svars, stream, BrowserOnly
  <2> QED BY <2>1, BrowserStep DEF StreamInv, StreamTyped
<1> QED BY <1>1, <1>2, <1>3, <1>4, <1>5 DEF StreamStep

LEMMA PathParts ==
  ASSUME NEW F, Carries(F), NEW i \in DOMAIN Path
  PROVE  \/ i \in DOMAIN wire /\ Path[i] = wire[i]
         \/ \E j \in DOMAIN sub.queue : Path[i] = sub.queue[j]
<1>1. wire \in Seq(F) /\ sub.queue \in Seq(F)
  BY DEF Carries, Subscribers
<1>2. /\ Path \in Seq(F) /\ Len(Path) = Len(wire) + Len(sub.queue)
      /\ \A k \in 1 .. Len(wire) + Len(sub.queue) :
           Path[k] = IF k <= Len(wire) THEN wire[k] ELSE sub.queue[k - Len(wire)]
  BY <1>1, ConcatProperties DEF Path
<1>3. /\ DOMAIN Path = 1 .. Len(Path) /\ DOMAIN wire = 1 .. Len(wire) /\ Len(wire) \in Nat
      /\ DOMAIN sub.queue = 1 .. Len(sub.queue) /\ Len(sub.queue) \in Nat
  BY <1>1, <1>2, LenProperties
<1>4. CASE i <= Len(wire)
  BY <1>2, <1>3, <1>4
<1>5. CASE ~(i <= Len(wire))
  <2>1. i - Len(wire) \in DOMAIN sub.queue /\ Path[i] = sub.queue[i - Len(wire)]
    BY <1>2, <1>3, <1>5
  <2> QED BY <2>1
<1> QED BY <1>4, <1>5

(* Snapshot and deltas add up in the reducer of the browser                   *)
(* (agentDiscoveryReducer): at the number of the collector's snapshot it has  *)
(* the collector's rows, whatever overflowed, was asked for twice or came     *)
(* late in between.                                                          *)
THEOREM StreamAddsUp == StreamSpec => []StreamConsistent
<1>1. StreamInv => StreamConsistent
  <2> SUFFICES ASSUME StreamInv PROVE StreamConsistent
    OBVIOUS
  <2>1. PICK h \in Histories : Carries(Sayings(h, epoch)) /\ Shown(h)
    BY DEF StreamInv, Remembered
  <2>2. CaughtUpIsEqual
    BY <2>1 DEF CaughtUpIsEqual, Shown, Histories
  <2>3. \A i \in DOMAIN wire : wire[i].kind \in Frames
    <3>1. wire \in Seq(Sayings(h, epoch))
      BY <2>1 DEF Carries
    <3>2. \A i \in DOMAIN wire : wire[i] \in Sayings(h, epoch)
      BY <3>1, LenProperties, ElementOfSeq
    <3> QED BY <3>2, SayingCases
  <2>4. \A i \in DOMAIN requests : requests[i] \in {"subscribe", "resync"}
    BY LenProperties, ElementOfSeq DEF StreamInv, StreamTyped
  <2>5. sub.on \in BOOLEAN /\ sub.awaiting \in BOOLEAN
    BY <2>1 DEF Carries, Subscribers
  <2>6. epoch \in Epochs
    BY StreamAssumption DEF StreamInv, StreamTyped, Epochs
  <2> QED BY <2>2, <2>3, <2>4, <2>5, <2>6 DEF StreamInv, StreamTyped, StreamConsistent, StreamTypeOK
<1> QED BY <1>1, InitStreamInv, StepKeepsStreamInv, PTL DEF StreamSpec

(* Deltas are withheld from a browser only while the demand to resync is on   *)
(* its way or heeded (agent-discovery-stream.service.ts, the overflow of the  *)
(* queue).                                                                   *)
THEOREM DemandArrives == StreamSpec => []WithheldIsTold
<1>1. StreamInv => WithheldIsTold
  <2> SUFFICES ASSUME StreamInv, sub.awaiting, ~browser.awaiting
               PROVE  \/ \E i \in DOMAIN sub.queue : sub.queue[i].kind = "resync_required"
                      \/ \E i \in DOMAIN wire : wire[i].kind = "resync_required"
    BY DEF WithheldIsTold
  <2>1. PICK h \in Histories : Carries(Sayings(h, epoch))
    BY DEF StreamInv, Remembered
  <2>2. PICK i \in DOMAIN Path : Path[i].kind = "resync_required"
    BY DEF StreamInv, Demanded, Demands
  <2>3. \/ i \in DOMAIN wire /\ Path[i] = wire[i]
        \/ \E j \in DOMAIN sub.queue : Path[i] = sub.queue[j]
    BY <2>1, PathParts
  <2> QED BY <2>2, <2>3
<1> QED BY <1>1, InitStreamInv, StepKeepsStreamInv, PTL DEF StreamSpec

-----------------------------------------------------------------------------
(* The self-update.                                                           *)

(* Steps of a worker: before its job's link is moved, while the link points to *)
(* the target, after it points to the prior release again, and the rest.       *)
Early == {"none", "launched", "queued", "downloading", "verifying", "staging", "staged",
          "prepared", "cutting_over", "failing"}
Swapped == {"swapped", "recorded", "restarting", "restarted", "verifying_health", "healthy",
            "unwinding", "rolling_back"}
Prior == {"restored", "restarting_prior", "restarted_prior", "healthy_prior"}
Removed == {"removed", "completed"}
Ending == {"broken", "given_up", "gone"}
Steps == Early \cup Swapped \cup {"in_progress"} \cup Prior \cup Removed \cup Ending

\* Steps at which the store may already have ended the job.
Loose == {"none", "launched", "failing", "unwinding"} \cup Ending

ActivePhases == Preparing \cup PostCutover
Phases == {"none"} \cup ActivePhases \cup Terminal

Typed ==
  /\ job \in [Jobs -> [phase : Phases, recovery : Recovery]] /\ at \in [Jobs -> Steps]
  /\ current \in 0..MaxJobs /\ installed \in BOOLEAN /\ good \in BOOLEAN
  /\ server \in {"prior", "target", "down"} /\ launching \subseteq Jobs
  /\ mishaps \in 0..MaxMishaps

(* What is known of the link c and the directory i when a job j has the record *)
(* phase p, cutover k, rollback b, and its worker is at step a.                *)
Fits(j, p, k, b, a, c, i) ==
  \* the record tells whoever looks at it
  /\ p \in PostCutover \/ c = j => k # "none"
  /\ b # "not_started" => p \in {"rolling_back"} \cup Terminal /\ k = "live_link_swapped"
  /\ p \in Preparing \cup {"none"} => c # j
  /\ p \in ActivePhases /\ k = "live_link_swapped" /\ b = "not_started" => c = j
  /\ p \in ActivePhases /\ b = "completed" => c = 0 /\ ~i
  \* a worker that changes anything works on an active job
  /\ a \notin Loose => p \in ActivePhases
  /\ p = "none" => a = "none" /\ k = "none"
  \* the worker knows
  /\ a \in Early => c # j
  /\ a \in Swapped /\ p \in ActivePhases => c = j
  /\ a \in Early \cup Swapped => b = "not_started"
  /\ a \in {"in_progress", "broken", "given_up"} \cup Prior \cup Removed => b # "not_started"
  /\ a \in Swapped \cup {"prepared", "cutting_over"} => k # "none"
  /\ a \in {"staged", "prepared", "cutting_over"} => i
  /\ a \in {"cutting_over", "rolling_back"} => p = a
  /\ a \in Prior \cup Removed => c = 0
  /\ a \in Removed => ~i

FitsAt(j) == Fits(j, job[j].phase, job[j].recovery.cutover, job[j].recovery.rollback, at[j],
                  current, installed)

OneActive == \A i, j \in Jobs : Active(job[i]) /\ Active(job[j]) => i = j

IInv ==
  /\ Typed /\ OneActive
  /\ \A j \in launching : at[j] = "none" /\ job[j].phase # "none"
  /\ current # 0 => installed
  /\ \A j \in Jobs : FitsAt(j)

-----------------------------------------------------------------------------
(* Steps of one worker.                                                      *)

\* What is recorded of the end of an active job is true.
Honest(j, p, c, i) ==
  /\ p = "succeeded" => c = j
  /\ p = "failed" => c # j
  /\ p = "failed_rolled_back" => c # j /\ ~i

(* The worker of j goes to step a with a record of phase p and recovery q; it  *)
(* touches link and directory only at a step at which its job is active.       *)
Moves(j, p, q, a) ==
  /\ at[j] # "none"
  /\ at' = [at EXCEPT ![j] = a]
  /\ job' = [job EXCEPT ![j] = [phase |-> p, recovery |-> q]]
  /\ \/ current' = current /\ installed' = installed
     \/ at[j] \notin Loose /\ current' \in {current, 0, j} /\ installed' \in BOOLEAN
  /\ current' # 0 => installed'
  /\ Fits(j, p, q.cutover, q.rollback, a, current', installed')
  /\ p \in ActivePhases => job[j].phase \in ActivePhases
  /\ job[j].phase \in ActivePhases => Honest(j, p, current', installed')
  /\ server' \in {"prior", "target", "down"} /\ good' = good
  /\ launching' \subseteq launching /\ mishaps' \in 0..MaxMishaps

LEMMA MovesKeep ==
  ASSUME IInv, NEW j \in Jobs, NEW p \in Phases, NEW q \in Recovery, NEW a \in Steps,
         Moves(j, p, q, a)
  PROVE  IInv'
<1> DEFINE r == [phase |-> p, recovery |-> q]
<1>1. /\ job'[j] = r /\ at'[j] = a
      /\ \A i \in Jobs \ {j} : job'[i] = job[i] /\ at'[i] = at[i]
  BY DEF Moves, IInv, Typed
<1>2. Typed'
  <2>1. job' \in [Jobs -> [phase : Phases, recovery : Recovery]]
    BY DEF Moves, IInv, Typed
  <2>2. at' \in [Jobs -> Steps]
    BY DEF Moves, IInv, Typed
  <2>3. current' \in 0..MaxJobs /\ installed' \in BOOLEAN
    <3>1. current' \in {current, 0, j} /\ installed' \in {installed, TRUE, FALSE}
      BY DEF Moves
    <3>2. current \in 0..MaxJobs /\ installed \in BOOLEAN
      BY DEF IInv, Typed
    <3>3. j \in 0..MaxJobs /\ 0 \in 0..MaxJobs
      BY UpdateAssumption DEF Jobs
    <3>4. current' \in 0..MaxJobs
      BY <3>1, <3>2, <3>3
    <3>5. installed' \in BOOLEAN
      BY <3>1, <3>2
    <3> QED BY <3>4, <3>5
  <2>4. good' \in BOOLEAN
    BY DEF Moves, IInv, Typed
  <2>5. server' \in {"prior", "target", "down"} /\ launching' \subseteq Jobs
      /\ mishaps' \in 0..MaxMishaps
    BY DEF Moves, IInv, Typed
  <2> QED BY <2>1, <2>2, <2>3, <2>4, <2>5 DEF Typed
<1>3. OneActive'
  <2>1. \A i \in Jobs : Active(job'[i]) => Active(job[i])
    BY <1>1 DEF Moves, Active, ActivePhases
  <2> QED BY <2>1 DEF IInv, OneActive
<1>4. \A i \in launching' : at'[i] = "none" /\ job'[i].phase # "none"
  BY <1>1 DEF Moves, IInv, Typed
<1>5. ASSUME NEW i \in Jobs PROVE FitsAt(i)'
  <2>1. CASE i = j
    BY <2>1, <1>1 DEF FitsAt, Moves
  <2>2. CASE i # j /\ current' = current /\ installed' = installed
    BY <2>2, <1>1 DEF FitsAt, IInv
  <2>3. CASE i # j /\ at[j] \notin Loose /\ current' \in {current, 0, j} /\ installed' \in BOOLEAN
    <3>1. Active(job[j])
      BY <2>3 DEF IInv, FitsAt, Fits, Active, ActivePhases
    <3>2. job[i].phase \notin ActivePhases
      BY <2>3, <3>1 DEF IInv, OneActive, Active, ActivePhases
    <3>3. at[i] \in Loose /\ FitsAt(i)
      BY <3>2 DEF IInv, FitsAt, Fits
    <3>4. i # 0 /\ j # 0
      BY DEF Jobs
    <3>5. current' = i => current = i
      BY <2>3, <3>4
    <3>6. at[i] \notin {"in_progress", "staged", "prepared", "cutting_over"} \cup Prior \cup Removed
      BY <3>3 DEF Loose, Ending, Prior, Removed
    <3> HIDE DEF r
    <3> QED BY <2>3, <3>2, <3>3, <3>5, <3>6, <1>1 DEF FitsAt, Fits, ActivePhases
  <2> QED BY <2>1, <2>2, <2>3 DEF Moves
<1> QED BY <1>2, <1>3, <1>4, <1>5 DEF IInv, Moves

LEMMA MovesHonestly ==
  ASSUME IInv, NEW j \in Jobs, NEW p \in Phases, NEW q \in Recovery, NEW a \in Steps,
         Moves(j, p, q, a), NEW i \in Jobs, Active(job[i])
  PROVE  Honest(i, job'[i].phase, current', installed')
<1>1. CASE i = j
  BY <1>1 DEF Moves, Active, ActivePhases, IInv, Typed
<1>2. CASE i # j
  <2>1. job'[i] = job[i]
    BY <1>2 DEF Moves, IInv, Typed
  <2> QED BY <2>1 DEF Honest, Active, Preparing, PostCutover
<1> QED BY <1>1, <1>2

Moved(j) == \E p \in Phases, q \in Recovery, a \in Steps : Moves(j, p, q, a)

LEMMA MovedKeeps ==
  ASSUME IInv, NEW j \in Jobs, Moved(j)
  PROVE  /\ IInv'
         /\ \A i \in Jobs : Active(job[i]) => Honest(i, job'[i].phase, current', installed')
BY MovesKeep, MovesHonestly DEF Moved

\* A record may be written with phase p and recovery q before the worker goes on to
\* next, or to error when the write is refused or fails.
MayWrite(j, p, q, next, error) ==
  /\ Fits(j, job[j].phase, job[j].recovery.cutover, job[j].recovery.rollback, error,
          current, installed)
  /\ job[j].phase \in ActivePhases =>
       /\ \A a \in {next, error} : Fits(j, p, q.cutover, q.rollback, a, current, installed)
       /\ Honest(j, p, current, installed)

LEMMA WriteMoves ==
  ASSUME IInv, NEW j \in Jobs, NEW from \in Steps \ {"none"}, NEW p \in Phases,
         NEW q \in Recovery, NEW refused, NEW next \in Steps, NEW error \in Steps,
         Writes(j, from, [phase |-> p, recovery |-> q], refused, next, error),
         MayWrite(j, p, q, next, error)
  PROVE  Moved(j)
<1>1. /\ job[j].phase \in Phases /\ job[j].recovery \in Recovery
      /\ job[j] = [phase |-> job[j].phase, recovery |-> job[j].recovery]
  BY DEF IInv, Typed
<1>2. /\ at[j] # "none" /\ current' = current /\ installed' = installed
      /\ current' # 0 => installed'
      /\ server' \in {"prior", "target", "down"} /\ good' = good /\ launching' \subseteq launching
  BY DEF Writes, IInv, Typed
<1>3. mishaps' \in 0..MaxMishaps
  BY UpdateAssumption DEF Writes, IInv, Typed
<1>4. ASSUME job' = job, at' = [at EXCEPT ![j] = error] PROVE Moved(j)
  <2>1. job' = [job EXCEPT ![j] = [phase |-> job[j].phase, recovery |-> job[j].recovery]]
    BY <1>1, <1>4 DEF IInv, Typed
  <2>2. job[j].phase \in ActivePhases => Honest(j, job[j].phase, current', installed')
    BY DEF Honest, ActivePhases, Preparing, PostCutover
  <2>3. Moves(j, job[j].phase, job[j].recovery, error)
    BY <1>2, <1>3, <1>4, <2>1, <2>2 DEF Moves, MayWrite
  <2> QED BY <1>1, <2>3 DEF Moved
<1>5. ASSUME Active(job[j]), job' = [job EXCEPT ![j] = [phase |-> p, recovery |-> q]],
             NEW a \in {next, error}, at' = [at EXCEPT ![j] = a]
      PROVE  Moved(j)
  <2>1. job[j].phase \in ActivePhases
    BY <1>5 DEF Active, ActivePhases
  <2>2. Moves(j, p, q, a)
    BY <1>2, <1>3, <1>5, <2>1 DEF Moves, MayWrite
  <2> QED BY <1>5, <2>2 DEF Moved
<1> QED BY <1>4, <1>5 DEF Writes

LEMMA EntersMoves ==
  ASSUME IInv, NEW j \in Jobs, NEW from \in Steps \ {"none"}, NEW p \in Phases,
         NEW next \in Steps, NEW error \in Steps, Enters(j, from, p, next, error),
         MayWrite(j, p, job[j].recovery, next, error)
  PROVE  Moved(j)
<1>1. job[j].recovery \in Recovery
      /\ [job[j] EXCEPT !.phase = p] = [phase |-> p, recovery |-> job[j].recovery]
  BY DEF IInv, Typed
<1>2. Writes(j, from, [phase |-> p, recovery |-> job[j].recovery], FALSE, next, error)
  BY <1>1 DEF Enters
<1> QED BY <1>1, <1>2, WriteMoves

LEMMA CheckpointsMoves ==
  ASSUME IInv, NEW j \in Jobs, NEW from \in Steps \ {"none"},
         NEW k \in {"none", "prepared", "live_link_swapped"},
         NEW b \in {"not_started", "in_progress", "completed", "failed"},
         NEW next \in Steps, NEW error \in Steps, Checkpoints(j, from, k, b, next, error),
         MayWrite(j, job[j].phase, [cutover |-> k, rollback |-> b], next, error)
  PROVE  Moved(j)
<1> DEFINE q == [cutover |-> k, rollback |-> b]
<1>1. /\ q \in Recovery /\ job[j].phase \in Phases
      /\ [job[j] EXCEPT !.recovery = q] = [phase |-> job[j].phase, recovery |-> q]
  BY DEF IInv, Typed, Recovery
<1>2. Writes(j, from, [phase |-> job[j].phase, recovery |-> q], ~Advances(job[j].recovery, q),
             next, error)
  BY <1>1 DEF Checkpoints
<1> HIDE DEF q
<1>3. MayWrite(j, job[j].phase, q, next, error)
  BY DEF q
<1> QED BY <1>1, <1>2, <1>3, WriteMoves

\* A step that writes no record.
LEMMA GoesMoves ==
  ASSUME IInv, NEW j \in Jobs, NEW from \in Steps \ {"none"}, NEW a \in Steps,
         Goes(j, from, a), job' = job,
         \/ current' = current /\ installed' = installed
         \/ from \notin Loose /\ current' \in {current, 0, j} /\ installed' \in BOOLEAN,
         current' # 0 => installed',
         Fits(j, job[j].phase, job[j].recovery.cutover, job[j].recovery.rollback, a,
              current', installed'),
         server' \in {"prior", "target", "down"}, good' = good, launching' \subseteq launching,
         mishaps' = mishaps
  PROVE  Moved(j)
<1>1. /\ job[j].phase \in Phases /\ job[j].recovery \in Recovery
      /\ job[j] = [phase |-> job[j].phase, recovery |-> job[j].recovery]
  BY DEF IInv, Typed
<1>2. job' = [job EXCEPT ![j] = [phase |-> job[j].phase, recovery |-> job[j].recovery]]
  BY <1>1 DEF IInv, Typed
<1>3. job[j].phase \in ActivePhases => Honest(j, job[j].phase, current', installed')
  BY DEF Honest, ActivePhases, Preparing, PostCutover
<1>4. /\ at[j] = from /\ at[j] # "none" /\ at' = [at EXCEPT ![j] = a]
      /\ mishaps' \in 0..MaxMishaps
  BY DEF Goes, IInv, Typed
<1>5. Moves(j, job[j].phase, job[j].recovery, a)
  BY <1>2, <1>3, <1>4 DEF Moves
<1> QED BY <1>1, <1>5 DEF Moved

-----------------------------------------------------------------------------
(* The worker's actions, one by one.                                         *)

\* The steps and phases by name, in the lemmas of this section.
USE DEF Early, Swapped, Prior, Removed, Ending, Loose, ActivePhases, Preparing, PostCutover,
        Terminal

LEMMA DownloadsMoves == ASSUME IInv, NEW j \in Jobs, Downloads(j) PROVE Moved(j)
<1>0. FitsAt(j) /\ j # 0
  BY DEF IInv, Jobs
<1>1. CASE Enters(j, "queued", "downloading", "downloading", "failing")
  <2>1. at[j] = "queued"
    BY <1>1 DEF Enters, Writes
  <2>2. MayWrite(j, "downloading", job[j].recovery, "downloading", "failing")
    BY <1>0, <2>1 DEF MayWrite, FitsAt, Fits, Honest
  <2> QED BY <1>1, <2>2, EntersMoves DEF Steps, Phases
<1>2. CASE Enters(j, "downloading", "verifying", "verifying", "failing")
  <2>1. at[j] = "downloading"
    BY <1>2 DEF Enters, Writes
  <2>2. MayWrite(j, "verifying", job[j].recovery, "verifying", "failing")
    BY <1>0, <2>1 DEF MayWrite, FitsAt, Fits, Honest
  <2> QED BY <1>2, <2>2, EntersMoves DEF Steps, Phases
<1>3. CASE Enters(j, "verifying", "staging", "staging", "failing")
  <2>1. at[j] = "verifying"
    BY <1>3 DEF Enters, Writes
  <2>2. MayWrite(j, "staging", job[j].recovery, "staging", "failing")
    BY <1>0, <2>1 DEF MayWrite, FitsAt, Fits, Honest
  <2> QED BY <1>3, <2>2, EntersMoves DEF Steps, Phases
<1> QED BY <1>1, <1>2, <1>3 DEF Downloads

LEMMA RefusesMoves == ASSUME IInv, NEW j \in Jobs, RefusesRelease(j) PROVE Moved(j)
<1>0. FitsAt(j) /\ j # 0
  BY DEF IInv, Jobs
<1>1. CASE Enters(j, "staging", "manual_required", "gone", "failing")
  <2>1. at[j] = "staging"
    BY <1>1 DEF Enters, Writes
  <2>2. MayWrite(j, "manual_required", job[j].recovery, "gone", "failing")
    BY <1>0, <2>1 DEF MayWrite, FitsAt, Fits, Honest
  <2> QED BY <1>1, <2>2, EntersMoves DEF Steps, Phases
<1> QED BY <1>1 DEF RefusesRelease

LEMMA PreparesMoves == ASSUME IInv, NEW j \in Jobs, PreparesCutover(j) PROVE Moved(j)
<1>0. FitsAt(j) /\ j # 0
  BY DEF IInv, Jobs
<1>1. CASE Checkpoints(j, "staged", "prepared", "not_started", "prepared", "failing")
  <2>1. at[j] = "staged"
    BY <1>1 DEF Checkpoints, Writes
  <2>2. MayWrite(j, job[j].phase, [cutover |-> "prepared", rollback |-> "not_started"],
               "prepared", "failing")
    BY <1>0, <2>1 DEF MayWrite, FitsAt, Fits, Honest
  <2> QED BY <1>1, <2>2, CheckpointsMoves DEF Steps
<1>2. CASE Enters(j, "prepared", "cutting_over", "cutting_over", "failing")
  <2>1. at[j] = "prepared"
    BY <1>2 DEF Enters, Writes
  <2>2. MayWrite(j, "cutting_over", job[j].recovery, "cutting_over", "failing")
    BY <1>0, <2>1 DEF MayWrite, FitsAt, Fits, Honest
  <2> QED BY <1>2, <2>2, EntersMoves DEF Steps, Phases
<1> QED BY <1>1, <1>2 DEF PreparesCutover

LEMMA EndsMoves == ASSUME IInv, NEW j \in Jobs, EndsFailed(j) PROVE Moved(j)
<1>0. FitsAt(j) /\ j # 0
  BY DEF IInv, Jobs
<1>1. CASE Enters(j, "failing", "failed", "gone", "gone")
  <2>1. at[j] = "failing"
    BY <1>1 DEF Enters, Writes
  <2>2. MayWrite(j, "failed", job[j].recovery, "gone", "gone")
    BY <1>0, <2>1 DEF MayWrite, FitsAt, Fits, Honest
  <2> QED BY <1>1, <2>2, EntersMoves DEF Steps, Phases
<1> QED BY <1>1 DEF EndsFailed

LEMMA StartsMoves == ASSUME IInv, NEW j \in Jobs, Starts(j) PROVE Moved(j)
<1>1. FitsAt(j) /\ server \in {"prior", "target", "down"}
  BY DEF IInv, Typed
<1>2. PICK a \in {"queued", "gone"} :
        Goes(j, "launched", a) /\ (a = "queued" => job[j].phase = "queued")
  BY DEF Starts
<1>3. Fits(j, job[j].phase, job[j].recovery.cutover, job[j].recovery.rollback, a,
           current, installed)
  BY <1>1, <1>2 DEF Goes, FitsAt, Fits
<1> QED BY <1>1, <1>2, <1>3, GoesMoves DEF Starts, disk, IInv, Steps

LEMMA FailsMoves == ASSUME IInv, NEW j \in Jobs, FailsBeforeCutover(j) PROVE Moved(j)
<1>1. FitsAt(j) /\ server \in {"prior", "target", "down"}
  BY DEF IInv, Typed
<1>2. PICK step \in Preparing \cup {"cutting_over"} : Goes(j, step, "failing")
  BY DEF FailsBeforeCutover
<1>3. Fits(j, job[j].phase, job[j].recovery.cutover, job[j].recovery.rollback, "failing",
           current, installed)
  BY <1>1, <1>2 DEF Goes, FitsAt, Fits
<1>4. step \in Steps \ {"none"} /\ "failing" \in Steps
  BY DEF Steps, Fits, Honest
<1> QED BY <1>1, <1>2, <1>3, <1>4, GoesMoves DEF FailsBeforeCutover, disk, IInv

LEMMA MovesIntoPlaceMoves == ASSUME IInv, NEW j \in Jobs, MovesIntoPlace(j) PROVE Moved(j)
<1>1. FitsAt(j) /\ server \in {"prior", "target", "down"}
  BY DEF IInv, Typed
<1>2. Goes(j, "staging", "staged") /\ ~installed /\ installed' = TRUE /\ current' = current
  BY DEF MovesIntoPlace
<1>3. Fits(j, job[j].phase, job[j].recovery.cutover, job[j].recovery.rollback, "staged",
           current, TRUE)
  BY <1>1, <1>2 DEF Goes, FitsAt, Fits
<1>4. Fits(j, job[j].phase, job[j].recovery.cutover, job[j].recovery.rollback, "staged",
           current', installed')
  BY <1>2, <1>3
<1> QED BY <1>1, <1>2, <1>4, GoesMoves DEF MovesIntoPlace, Steps

LEMMA SwapsMoves == ASSUME IInv, NEW j \in Jobs, SwapsLink(j) PROVE Moved(j)
<1>1. FitsAt(j) /\ server \in {"prior", "target", "down"} /\ installed \in BOOLEAN
  BY DEF IInv, Typed
<1>2. Goes(j, "cutting_over", "swapped") /\ current' = j /\ installed' = installed
  BY DEF SwapsLink
<1>3. Fits(j, job[j].phase, job[j].recovery.cutover, job[j].recovery.rollback, "swapped",
           j, installed) /\ installed
  BY <1>1, <1>2 DEF Goes, FitsAt, Fits
<1>4. Fits(j, job[j].phase, job[j].recovery.cutover, job[j].recovery.rollback, "swapped",
           current', installed')
  BY <1>2, <1>3
<1>5. "cutting_over" \in Steps \ {"none"} /\ "cutting_over" \notin Loose /\ "swapped" \in Steps
  BY DEF Steps
<1>6. UNCHANGED <<job, server, good, launching, mishaps>>
  BY DEF SwapsLink
<1> QED BY <1>1, <1>2, <1>3, <1>4, <1>5, <1>6, GoesMoves

LEMMA RestoresMoves == ASSUME IInv, NEW j \in Jobs, RestoresLink(j) PROVE Moved(j)
<1>1. FitsAt(j) /\ server \in {"prior", "target", "down"} /\ installed \in BOOLEAN /\ j # 0
  BY DEF IInv, Typed, Jobs
<1>2. CASE Goes(j, "in_progress", "restored") /\ current' = 0
  <2>1. Fits(j, job[j].phase, job[j].recovery.cutover, job[j].recovery.rollback, "restored",
             0, installed)
    BY <1>1, <1>2 DEF Goes, FitsAt, Fits
  <2>2. Fits(j, job[j].phase, job[j].recovery.cutover, job[j].recovery.rollback, "restored",
             current', installed')
    BY <1>2, <2>1 DEF RestoresLink
  <2> QED BY <1>1, <1>2, <2>2, GoesMoves DEF RestoresLink, Steps
<1>3. CASE Goes(j, "in_progress", "broken") /\ UNCHANGED current
  <2>1. Fits(j, job[j].phase, job[j].recovery.cutover, job[j].recovery.rollback, "broken",
             current, installed)
    BY <1>1, <1>3 DEF Goes, FitsAt, Fits
  <2> QED BY <1>1, <1>3, <2>1, GoesMoves DEF RestoresLink, IInv, Steps
<1> QED BY <1>2, <1>3 DEF RestoresLink

LEMMA RemovesMoves == ASSUME IInv, NEW j \in Jobs, RemovesTarget(j) PROVE Moved(j)
<1>1. FitsAt(j) /\ server \in {"prior", "target", "down"} /\ installed \in BOOLEAN /\ j # 0
  BY DEF IInv, Typed, Jobs
<1>2. CASE Goes(j, "healthy_prior", "removed") /\ installed' = FALSE
  <2>1. Fits(j, job[j].phase, job[j].recovery.cutover, job[j].recovery.rollback, "removed",
             current, FALSE) /\ current = 0
    BY <1>1, <1>2 DEF Goes, FitsAt, Fits
  <2>2. Fits(j, job[j].phase, job[j].recovery.cutover, job[j].recovery.rollback, "removed",
             current', installed') /\ current' = 0
    BY <1>2, <2>1 DEF RemovesTarget
  <2> QED BY <1>1, <1>2, <2>1, <2>2, GoesMoves DEF RemovesTarget, Steps
<1>3. CASE Goes(j, "healthy_prior", "broken") /\ UNCHANGED installed
  <2>1. Fits(j, job[j].phase, job[j].recovery.cutover, job[j].recovery.rollback, "broken",
             current, installed)
    BY <1>1, <1>3 DEF Goes, FitsAt, Fits
  <2> QED BY <1>1, <1>3, <2>1, GoesMoves DEF RemovesTarget, IInv, Steps
<1> QED BY <1>2, <1>3 DEF RemovesTarget

LEMMA CutsOverMoves == ASSUME IInv, NEW j \in Jobs, CutsOver(j) PROVE Moved(j)
<1>0. FitsAt(j) /\ j # 0
  BY DEF IInv, Jobs
<1>1. CASE SwapsLink(j)
  BY <1>1, SwapsMoves
<1>2. CASE Checkpoints(j, "swapped", "live_link_swapped", "not_started", "recorded", "unwinding")
  <2>1. at[j] = "swapped"
    BY <1>2 DEF Checkpoints, Writes
  <2>2. MayWrite(j, job[j].phase, [cutover |-> "live_link_swapped", rollback |-> "not_started"],
               "recorded", "unwinding")
    BY <1>0, <2>1 DEF MayWrite, FitsAt, Fits, Honest
  <2> QED BY <1>2, <2>2, CheckpointsMoves DEF Steps
<1>3. CASE Enters(j, "recorded", "restarting", "restarting", "unwinding")
  <2>1. at[j] = "recorded"
    BY <1>3 DEF Enters, Writes
  <2>2. MayWrite(j, "restarting", job[j].recovery, "restarting", "unwinding")
    BY <1>0, <2>1 DEF MayWrite, FitsAt, Fits, Honest
  <2> QED BY <1>3, <2>2, EntersMoves DEF Steps, Phases
<1>4. CASE RestartsServer(j, "restarting", "restarted", "unwinding")
  <2>1. PICK a \in {"restarted", "unwinding"} : Goes(j, "restarting", a)
    BY <1>4 DEF RestartsServer
  <2>2. /\ UNCHANGED <<disk, good, mishaps>> /\ launching' \subseteq launching
        /\ server' \in {"prior", "target", "down"}
    BY <1>4 DEF RestartsServer, Booted, IInv, Typed
  <2>3. Fits(j, job[j].phase, job[j].recovery.cutover, job[j].recovery.rollback, a,
             current, installed)
    BY <1>0, <2>1 DEF Goes, FitsAt, Fits
  <2> QED BY <2>1, <2>2, <2>3, GoesMoves DEF disk, IInv, Steps
<1>5. CASE Enters(j, "restarted", "verifying_health", "verifying_health", "unwinding")
  <2>1. at[j] = "restarted"
    BY <1>5 DEF Enters, Writes
  <2>2. MayWrite(j, "verifying_health", job[j].recovery, "verifying_health", "unwinding")
    BY <1>0, <2>1 DEF MayWrite, FitsAt, Fits, Honest
  <2> QED BY <1>5, <2>2, EntersMoves DEF Steps, Phases
<1>6. CASE ChecksHealth(j, "verifying_health", "target", "healthy", "unwinding")
  <2>1. PICK a \in {"healthy", "unwinding"} : Goes(j, "verifying_health", a)
    BY <1>6 DEF ChecksHealth
  <2>2. /\ UNCHANGED <<disk, server, good, launching, mishaps>>
        /\ server \in {"prior", "target", "down"}
    BY <1>6 DEF ChecksHealth, IInv, Typed
  <2>3. Fits(j, job[j].phase, job[j].recovery.cutover, job[j].recovery.rollback, a,
             current, installed)
    BY <1>0, <2>1 DEF Goes, FitsAt, Fits
  <2> QED BY <2>1, <2>2, <2>3, GoesMoves DEF disk, IInv, Steps
<1>7. CASE Enters(j, "healthy", "succeeded", "gone", "unwinding")
  <2>1. at[j] = "healthy"
    BY <1>7 DEF Enters, Writes
  <2>2. MayWrite(j, "succeeded", job[j].recovery, "gone", "unwinding")
    BY <1>0, <2>1 DEF MayWrite, FitsAt, Fits, Honest
  <2> QED BY <1>7, <2>2, EntersMoves DEF Steps, Phases
<1> QED BY <1>1, <1>2, <1>3, <1>4, <1>5, <1>6, <1>7 DEF CutsOver

LEMMA BeginsMoves == ASSUME IInv, NEW j \in Jobs, BeginsRollback(j) PROVE Moved(j)
<1>0. FitsAt(j) /\ j # 0
  BY DEF IInv, Jobs
<1>1. CASE Enters(j, "unwinding", "rolling_back", "rolling_back", "gone")
  <2>1. at[j] = "unwinding"
    BY <1>1 DEF Enters, Writes
  <2>2. MayWrite(j, "rolling_back", job[j].recovery, "rolling_back", "gone")
    BY <1>0, <2>1 DEF MayWrite, FitsAt, Fits, Honest
  <2> QED BY <1>1, <2>2, EntersMoves DEF Steps, Phases
<1>2. CASE Checkpoints(j, "rolling_back", "live_link_swapped", "in_progress", "in_progress", "gone")
  <2>1. at[j] = "rolling_back"
    BY <1>2 DEF Checkpoints, Writes
  <2>2. MayWrite(j, job[j].phase, [cutover |-> "live_link_swapped", rollback |-> "in_progress"],
               "in_progress", "gone")
    BY <1>0, <2>1 DEF MayWrite, FitsAt, Fits, Honest
  <2> QED BY <1>2, <2>2, CheckpointsMoves DEF Steps
<1> QED BY <1>1, <1>2 DEF BeginsRollback

LEMMA RollsBackMoves == ASSUME IInv, NEW j \in Jobs, RollsBack(j) PROVE Moved(j)
<1>0. FitsAt(j) /\ j # 0
  BY DEF IInv, Jobs
<1>1. CASE BeginsRollback(j)
  BY <1>1, BeginsMoves
<1>2. CASE RestoresLink(j)
  BY <1>2, RestoresMoves
<1>3. CASE Checkpoints(j, "restored", "live_link_swapped", "in_progress", "restarting_prior", "broken")
  <2>1. at[j] = "restored"
    BY <1>3 DEF Checkpoints, Writes
  <2>2. MayWrite(j, job[j].phase, [cutover |-> "live_link_swapped", rollback |-> "in_progress"],
               "restarting_prior", "broken")
    BY <1>0, <2>1 DEF MayWrite, FitsAt, Fits, Honest
  <2> QED BY <1>3, <2>2, CheckpointsMoves DEF Steps
<1>4. CASE RestartsServer(j, "restarting_prior", "restarted_prior", "broken")
  <2>1. PICK a \in {"restarted_prior", "broken"} : Goes(j, "restarting_prior", a)
    BY <1>4 DEF RestartsServer
  <2>2. /\ UNCHANGED <<disk, good, mishaps>> /\ launching' \subseteq launching
        /\ server' \in {"prior", "target", "down"}
    BY <1>4 DEF RestartsServer, Booted, IInv, Typed
  <2>3. Fits(j, job[j].phase, job[j].recovery.cutover, job[j].recovery.rollback, a,
             current, installed)
    BY <1>0, <2>1 DEF Goes, FitsAt, Fits
  <2> QED BY <2>1, <2>2, <2>3, GoesMoves DEF disk, IInv, Steps
<1>5. CASE ChecksHealth(j, "restarted_prior", "prior", "healthy_prior", "broken")
  <2>1. PICK a \in {"healthy_prior", "broken"} : Goes(j, "restarted_prior", a)
    BY <1>5 DEF ChecksHealth
  <2>2. /\ UNCHANGED <<disk, server, good, launching, mishaps>>
        /\ server \in {"prior", "target", "down"}
    BY <1>5 DEF ChecksHealth, IInv, Typed
  <2>3. Fits(j, job[j].phase, job[j].recovery.cutover, job[j].recovery.rollback, a,
             current, installed)
    BY <1>0, <2>1 DEF Goes, FitsAt, Fits
  <2> QED BY <2>1, <2>2, <2>3, GoesMoves DEF disk, IInv, Steps
<1>6. CASE RemovesTarget(j)
  BY <1>6, RemovesMoves
<1>7. CASE Checkpoints(j, "removed", "live_link_swapped", "completed", "completed", "broken")
  <2>1. at[j] = "removed"
    BY <1>7 DEF Checkpoints, Writes
  <2>2. MayWrite(j, job[j].phase, [cutover |-> "live_link_swapped", rollback |-> "completed"],
               "completed", "broken")
    BY <1>0, <2>1 DEF MayWrite, FitsAt, Fits, Honest
  <2> QED BY <1>7, <2>2, CheckpointsMoves DEF Steps
<1>8. CASE Enters(j, "completed", "failed_rolled_back", "gone", "gone")
  <2>1. at[j] = "completed"
    BY <1>8 DEF Enters, Writes
  <2>2. MayWrite(j, "failed_rolled_back", job[j].recovery, "gone", "gone")
    BY <1>0, <2>1 DEF MayWrite, FitsAt, Fits, Honest
  <2> QED BY <1>8, <2>2, EntersMoves DEF Steps, Phases
<1> QED BY <1>1, <1>2, <1>3, <1>4, <1>5, <1>6, <1>7, <1>8 DEF RollsBack

LEMMA GivesUpMoves == ASSUME IInv, NEW j \in Jobs, GivesUp(j) PROVE Moved(j)
<1>0. FitsAt(j) /\ j # 0
  BY DEF IInv, Jobs
<1>1. CASE Checkpoints(j, "broken", "live_link_swapped", "failed", "given_up", "given_up")
  <2>1. at[j] = "broken"
    BY <1>1 DEF Checkpoints, Writes
  <2>2. MayWrite(j, job[j].phase, [cutover |-> "live_link_swapped", rollback |-> "failed"],
               "given_up", "given_up")
    BY <1>0, <2>1 DEF MayWrite, FitsAt, Fits, Honest
  <2> QED BY <1>1, <2>2, CheckpointsMoves DEF Steps
<1>2. CASE Enters(j, "given_up", "failed_rollback", "gone", "gone")
  <2>1. at[j] = "given_up"
    BY <1>2 DEF Enters, Writes
  <2>2. MayWrite(j, "failed_rollback", job[j].recovery, "gone", "gone")
    BY <1>0, <2>1 DEF MayWrite, FitsAt, Fits, Honest
  <2> QED BY <1>2, <2>2, EntersMoves DEF Steps, Phases
<1> QED BY <1>1, <1>2 DEF GivesUp

LEMMA WorkerMoves == ASSUME IInv, NEW j \in Jobs, WorkerStep(j) PROVE Moved(j)
BY StartsMoves, DownloadsMoves, FailsMoves, RefusesMoves, MovesIntoPlaceMoves, PreparesMoves,
   EndsMoves, CutsOverMoves, RollsBackMoves, GivesUpMoves DEF WorkerStep

HIDE DEF Early, Swapped, Prior, Removed, Ending, Loose, ActivePhases, Preparing, PostCutover,
         Terminal

LEMMA DiesMoves == ASSUME IInv, NEW j \in Jobs, WorkerDies(j) PROVE Moved(j)
<1>1. /\ job[j].phase \in Phases /\ job[j].recovery \in Recovery
      /\ job[j] = [phase |-> job[j].phase, recovery |-> job[j].recovery]
      /\ job' = [job EXCEPT ![j] = [phase |-> job[j].phase, recovery |-> job[j].recovery]]
  BY DEF IInv, Typed, WorkerDies, disk
<1>2. Fits(j, job[j].phase, job[j].recovery.cutover, job[j].recovery.rollback, "gone",
           current, installed)
  BY DEF IInv, WorkerDies, Running, FitsAt, Fits, Honest, Early, Swapped, Prior, Removed, Ending, Loose,
         ActivePhases, Preparing, PostCutover, Terminal
<1>3. job[j].phase \in ActivePhases => Honest(j, job[j].phase, current, installed)
  BY DEF Honest, ActivePhases, Preparing, PostCutover
<1>4. mishaps' \in 0..MaxMishaps
  BY UpdateAssumption DEF WorkerDies, IInv, Typed
<1>5. /\ current' = current /\ installed' = installed /\ good' = good
      /\ current' # 0 => installed'
      /\ server' \in {"prior", "target", "down"} /\ launching' \subseteq launching
      /\ at[j] # "none" /\ at' = [at EXCEPT ![j] = "gone"]
  BY DEF WorkerDies, disk, IInv, Typed, Running
<1>6. Moves(j, job[j].phase, job[j].recovery, "gone")
  BY <1>1, <1>2, <1>3, <1>4, <1>5 DEF Moves
<1> QED BY <1>1, <1>6 DEF Moved, Steps, Ending

-----------------------------------------------------------------------------
(* The server's actions.                                                     *)

\* What is known of a record after a poll has looked at it.
Looked(j, r) ==
  /\ r \in [phase : Phases, recovery : Recovery]
  /\ Fits(j, r.phase, r.recovery.cutover, r.recovery.rollback, at[j], current, installed)
  /\ r.phase \in ActivePhases => r = job[j]
  /\ r.phase = "none" <=> job[j].phase = "none"
  /\ job[j].phase \in ActivePhases => Honest(j, r.phase, current, installed)

LEMMA SameLooked == ASSUME IInv, NEW j \in Jobs PROVE Looked(j, job[j])
BY DEF IInv, Typed, FitsAt, Looked, Honest, ActivePhases, Preparing, PostCutover

LEMMA PollLooks == ASSUME IInv, NEW j \in Jobs PROVE Looked(j, Reconciled[j])
<1>1. CASE ~Reconcilable(j)
  BY <1>1, SameLooked DEF Reconciled
<1>2. CASE Reconcilable(j)
  <2> DEFINE p == InactivePhase(job[j])
  <2>1. /\ job[j].phase \in ActivePhases /\ job[j].recovery \in Recovery
        /\ at[j] \in {"none", "gone"} /\ FitsAt(j)
    BY <1>2 DEF Reconcilable, Active, Running, ActivePhases, IInv, Typed
  <2>2. Reconciled[j] = [phase |-> p, recovery |-> job[j].recovery]
    BY <1>2 DEF Reconciled, IInv, Typed
  <2>3. p \in Terminal
    BY DEF InactivePhase, Terminal
  <2>4. Honest(j, p, current, installed)
    <3>1. p = "succeeded" => TargetIsRunning(job[j])
      BY DEF InactivePhase
    <3>2. p = "failed" => job[j].phase \in Preparing
      BY DEF InactivePhase
    <3>3. p = "failed_rolled_back" => job[j].recovery.rollback = "completed"
      BY DEF InactivePhase
    <3>4. j # 0
      BY DEF Jobs
    <3> HIDE DEF p
    <3> QED BY <2>1, <3>1, <3>2, <3>3, <3>4 DEF Honest, TargetIsRunning, FitsAt, Fits, Ending
  <2>5. Fits(j, p, job[j].recovery.cutover, job[j].recovery.rollback, at[j],
             current, installed)
    <3> HIDE DEF p
    <3> QED BY <2>1, <2>3 DEF FitsAt, Fits, Honest, Early, Swapped, Prior, Removed, Ending, Loose,
         ActivePhases, Preparing, PostCutover, Terminal
  <2>6. p \notin ActivePhases /\ p # "none" /\ p \in Phases /\ job[j].phase # "none"
    BY <2>1, <2>3 DEF ActivePhases, Preparing, PostCutover, Terminal, Phases
  <2> HIDE DEF p
  <2>7. [phase |-> p, recovery |-> job[j].recovery] \in [phase : Phases, recovery : Recovery]
    BY <2>1, <2>6
  <2> QED BY <2>2, <2>4, <2>5, <2>6, <2>7 DEF Looked
<1> QED BY <1>1, <1>2

\* Records that were only looked at keep the invariant, and tell the truth.
LEMMA LookedKeeps ==
  ASSUME IInv, NEW new \in [Jobs -> [phase : Phases, recovery : Recovery]],
         \A j \in Jobs : Looked(j, new[j]), job' = new,
         UNCHANGED <<current, installed, good, at>>, server' \in {"prior", "target", "down"},
         launching' \subseteq launching, mishaps' \in 0..MaxMishaps
  PROVE  /\ IInv'
         /\ \A j \in Jobs : Active(job[j]) => Honest(j, job'[j].phase, current', installed')
<1>1. Typed'
  BY DEF IInv, Typed
<1>2. OneActive'
  BY DEF IInv, OneActive, Looked, Active, ActivePhases
<1>3. \A j \in launching' : at'[j] = "none" /\ job'[j].phase # "none"
  BY DEF IInv, Typed, Looked
<1>4. \A j \in Jobs : FitsAt(j)'
  BY DEF FitsAt, Looked
<1>5. current' # 0 => installed'
  BY DEF IInv
<1>6. \A j \in Jobs : Active(job[j]) => Honest(j, job'[j].phase, current', installed')
  BY DEF Looked, Active, ActivePhases
<1> QED BY <1>1, <1>2, <1>3, <1>4, <1>5, <1>6 DEF IInv

LEMMA StartedIsKnown == ASSUME NEW s \in {Booted} PROVE s \in {"prior", "target", "down"}
BY DEF Booted

\* The server's steps that leave the workers alone and start no job.
ServerLooks == Polls \/ ServerDies \/ ServerStarts \/ UNCHANGED uvars

LEMMA ServerKeeps ==
  ASSUME IInv, ServerLooks
  PROVE  /\ IInv'
         /\ \A j \in Jobs : Active(job[j]) => Honest(j, job'[j].phase, current', installed')
<1> DEFINE Known == job' \in [Jobs -> [phase : Phases, recovery : Recovery]]
                    /\ \A j \in Jobs : Looked(j, job'[j])
<1>1. ASSUME job' = Reconciled PROVE Known
  <2>1. \A j \in Jobs : Looked(j, Reconciled[j])
                        /\ Reconciled[j] \in [phase : Phases, recovery : Recovery]
    BY PollLooks DEF Looked
  <2>2. Reconciled = [j \in Jobs |-> Reconciled[j]]
    BY DEF Reconciled
  <2> HIDE DEF Reconciled
  <2>3. Reconciled \in [Jobs -> [phase : Phases, recovery : Recovery]]
    BY <2>1, <2>2
  <2> QED BY <1>1, <2>1, <2>3
<1>2. ASSUME job' = job PROVE Known
  BY <1>2, SameLooked DEF IInv, Typed
<1>3. Known
  BY <1>1, <1>2 DEF ServerLooks, Polls, ServerDies, ServerStarts, uvars, disk
<1>4. UNCHANGED <<current, installed, good, at>> /\ launching' \subseteq launching
  BY DEF ServerLooks, Polls, ServerDies, ServerStarts, uvars, disk
<1>5. server' \in {"prior", "target", "down"}
  BY StartedIsKnown DEF ServerLooks, Polls, ServerDies, ServerStarts, uvars, IInv, Typed
<1>6. mishaps' \in 0..MaxMishaps
  BY UpdateAssumption DEF ServerLooks, Polls, ServerDies, ServerStarts, uvars, IInv, Typed
<1> HIDE DEF Known
<1>7. ASSUME NEW new, new = job' PROVE new \in [Jobs -> [phase : Phases, recovery : Recovery]]
                                       /\ \A j \in Jobs : Looked(j, new[j])
  BY <1>3, <1>7 DEF Known
<1> QED BY <1>4, <1>5, <1>6, <1>7, LookedKeeps

LEMMA PostsKeeps ==
  ASSUME IInv, Posts
  PROVE  /\ IInv'
         /\ \A i \in Jobs : Active(job[i]) => Honest(i, job'[i].phase, current', installed')
<1>1. PICK j \in Jobs : /\ job[j].phase = "none"
                        /\ job' = [Reconciled EXCEPT ![j].phase = "queued"]
                        /\ launching' = launching \cup {j}
  BY DEF Posts
<1>2. \A i \in Jobs : Looked(i, Reconciled[i])
                      /\ Reconciled[i] \in [phase : Phases, recovery : Recovery]
                      /\ Reconciled[i].phase \notin ActivePhases
  BY PollLooks DEF Looked, Posts, Active, ActivePhases
<1>3. Reconciled = [i \in Jobs |-> Reconciled[i]]
  BY DEF Reconciled
<1>4. Reconciled[j] = job[j]
  BY <1>1 DEF Reconciled, Reconcilable, Active, Preparing, PostCutover
<1> HIDE DEF Reconciled
<1>5. /\ job' \in [Jobs -> [phase : Phases, recovery : Recovery]]
      /\ job'[j] = [phase |-> "queued", recovery |-> job[j].recovery]
      /\ \A i \in Jobs \ {j} : job'[i] = Reconciled[i]
  <2>1. "queued" \in Phases
    BY DEF Phases, ActivePhases, Preparing
  <2>2. job[j] \in [phase : Phases, recovery : Recovery]
    BY DEF IInv, Typed
  <2>3. job' = [i \in Jobs |-> IF i = j THEN [phase |-> "queued", recovery |-> job[j].recovery]
                               ELSE Reconciled[i]]
    BY <1>1, <1>3, <1>4, <2>2
  <2> QED BY <1>2, <2>1, <2>2, <2>3
<1>6. at[j] = "none" /\ FitsAt(j)
  BY <1>1 DEF IInv, FitsAt, Fits
<1>7. UNCHANGED <<current, installed, server, good, at, mishaps>>
  BY DEF Posts
<1>8. Typed'
  BY <1>1, <1>5, <1>7 DEF IInv, Typed
<1>9. OneActive'
  BY <1>2, <1>5 DEF OneActive, Active, ActivePhases
<1>10. \A i \in launching' : at'[i] = "none" /\ job'[i].phase # "none"
  <2>1. \A i \in launching : Reconciled[i].phase # "none"
    BY <1>2 DEF IInv, Typed, Looked
  <2> QED BY <1>1, <1>5, <1>6, <1>7, <2>1 DEF IInv, Typed
<1>11. ASSUME NEW i \in Jobs PROVE FitsAt(i)'
  <2>1. CASE i # j
    BY <1>2, <1>5, <1>7, <2>1 DEF Looked, FitsAt
  <2>2. CASE i = j
    <3>1. Fits(j, "queued", job[j].recovery.cutover, job[j].recovery.rollback, at[j],
               current, installed)
      BY <1>1, <1>6 DEF FitsAt, Fits, Honest, Early, Swapped, Prior, Removed, Ending, Loose,
         ActivePhases, Preparing, PostCutover, Terminal
    <3> QED BY <1>5, <1>7, <2>2, <3>1 DEF FitsAt
  <2> QED BY <2>1, <2>2
<1>12. IInv'
  BY <1>7, <1>8, <1>9, <1>10, <1>11 DEF IInv
<1>13. \A i \in Jobs : Active(job[i]) => Honest(i, job'[i].phase, current', installed')
  BY <1>1, <1>2, <1>5, <1>7 DEF Looked, Active, ActivePhases, Preparing, PostCutover
<1> QED BY <1>12, <1>13

LEMMA LaunchesKeeps ==
  ASSUME IInv, NEW j \in Jobs, Launches(j)
  PROVE  /\ IInv'
         /\ \A i \in Jobs : Active(job[i]) => Honest(i, job'[i].phase, current', installed')
<1>1. /\ at[j] = "none" /\ job[j].phase # "none" /\ FitsAt(j)
      /\ at' = [at EXCEPT ![j] = "launched"] /\ launching' = launching \ {j}
      /\ UNCHANGED <<job, current, installed, server, good, mishaps>>
  BY DEF Launches, IInv, disk
<1>2. Typed'
  BY <1>1 DEF IInv, Typed, Steps, Early
<1>3. OneActive'
  BY <1>1 DEF IInv, OneActive
<1>4. \A i \in Jobs : at'[i] = IF i = j THEN "launched" ELSE at[i]
  BY <1>1 DEF IInv, Typed
<1>5. ASSUME NEW i \in Jobs PROVE FitsAt(i)'
  <2>1. CASE i # j
    BY <1>1, <1>4, <2>1 DEF IInv, FitsAt
  <2>2. CASE i = j
    <3>1. Fits(j, job[j].phase, job[j].recovery.cutover, job[j].recovery.rollback, "launched",
               current, installed)
      BY <1>1 DEF FitsAt, Fits, Honest, Early, Swapped, Prior, Removed, Ending, Loose,
         ActivePhases, Preparing, PostCutover, Terminal
    <3> QED BY <1>1, <1>4, <2>2, <3>1 DEF FitsAt
  <2> QED BY <2>1, <2>2
<1>6. \A i \in launching' : at'[i] = "none" /\ job'[i].phase # "none"
  BY <1>1, <1>4 DEF IInv, Typed
<1>7. IInv'
  BY <1>1, <1>2, <1>3, <1>5, <1>6 DEF IInv
<1>8. \A i \in Jobs : Active(job[i]) => Honest(i, job'[i].phase, current', installed')
  BY <1>1 DEF Honest, Active, Preparing, PostCutover
<1> QED BY <1>7, <1>8

LEMMA LaunchFailsKeeps ==
  ASSUME IInv, NEW j \in Jobs, LaunchFails(j)
  PROVE  /\ IInv'
         /\ \A i \in Jobs : Active(job[i]) => Honest(i, job'[i].phase, current', installed')
<1> DEFINE r == IF Active(job[j]) THEN [phase |-> "failed", recovery |-> job[j].recovery]
                ELSE job[j]
           new == [i \in Jobs |-> IF i = j THEN r ELSE job[i]]
<1>1. /\ at[j] = "none" /\ FitsAt(j) /\ job[j] \in [phase : Phases, recovery : Recovery]
      /\ UNCHANGED <<current, installed, server, good, at, mishaps>>
      /\ launching' \subseteq launching
  BY DEF LaunchFails, IInv, Typed
<1>2. job' = new
  <2>1. job = [i \in Jobs |-> job[i]]
    BY DEF IInv, Typed
  <2>2. CASE Active(job[j])
    <3>1. [job[j] EXCEPT !.phase = "failed"] = [phase |-> "failed", recovery |-> job[j].recovery]
      BY <1>1
    <3>2. job' = [i \in Jobs |-> IF i = j THEN [job[j] EXCEPT !.phase = "failed"] ELSE job[i]]
      BY <2>1, <2>2 DEF LaunchFails
    <3> QED BY <2>2, <3>1, <3>2
  <2>3. CASE ~Active(job[j])
    BY <2>1, <2>3 DEF LaunchFails
  <2> QED BY <2>2, <2>3
<1>3. Looked(j, r)
  <2>1. CASE ~Active(job[j])
    BY <2>1, SameLooked
  <2>2. CASE Active(job[j])
    <3>1. Fits(j, "failed", job[j].recovery.cutover, job[j].recovery.rollback, at[j],
               current, installed)
      BY <1>1, <2>2 DEF FitsAt, Active, Fits, Honest, Early, Swapped, Prior, Removed, Ending, Loose,
         ActivePhases, Preparing, PostCutover, Terminal
    <3>2. Honest(j, "failed", current, installed)
      BY <1>1 DEF FitsAt, Fits, Honest, Early
    <3>3. /\ r = [phase |-> "failed", recovery |-> job[j].recovery]
          /\ r \in [phase : Phases, recovery : Recovery]
          /\ "failed" \notin ActivePhases /\ job[j].phase # "none"
      BY <1>1, <2>2 DEF Phases, Terminal, ActivePhases, Active, Preparing, PostCutover
    <3> HIDE DEF r
    <3> QED BY <3>1, <3>2, <3>3 DEF Looked
  <2> QED BY <2>1, <2>2
<1>4. \A i \in Jobs : Looked(i, new[i])
  <2> HIDE DEF r
  <2> QED BY <1>3, SameLooked
<1>5. new \in [Jobs -> [phase : Phases, recovery : Recovery]]
  BY <1>1, <1>3 DEF IInv, Typed, Looked
<1>6. server' \in {"prior", "target", "down"} /\ mishaps' \in 0..MaxMishaps
  BY <1>1 DEF IInv, Typed
<1> HIDE DEF new
<1> QED BY <1>1, <1>2, <1>4, <1>5, <1>6, LookedKeeps

-----------------------------------------------------------------------------
(* The specification.                                                        *)

LEMMA InitFits == UpdateInit => IInv
<1> SUFFICES ASSUME UpdateInit PROVE IInv
  OBVIOUS
<1>1. NoRecovery \in Recovery /\ NoRecovery.cutover = "none" /\ NoRecovery.rollback = "not_started"
  BY DEF NoRecovery, Recovery
<1>2. \A j \in Jobs : job[j] = [phase |-> "none", recovery |-> NoRecovery] /\ at[j] = "none"
                      /\ j # current
  BY DEF UpdateInit, Jobs
<1>3. Typed
  <2>1. "none" \in Phases /\ "none" \in Steps
    BY DEF Phases, Steps, Early
  <2>2. job \in [Jobs -> [phase : Phases, recovery : Recovery]]
    BY <1>1, <2>1 DEF UpdateInit
  <2>3. at \in [Jobs -> Steps]
    BY <2>1 DEF UpdateInit
  <2>4. current \in 0..MaxJobs /\ mishaps \in 0..MaxMishaps
    BY UpdateAssumption DEF UpdateInit
  <2>5. /\ installed \in BOOLEAN /\ good \in BOOLEAN
        /\ server \in {"prior", "target", "down"} /\ launching \subseteq Jobs
    BY DEF UpdateInit
  <2> QED BY <2>2, <2>3, <2>4, <2>5 DEF Typed
<1>4. OneActive
  BY <1>2 DEF OneActive, Active, Preparing, PostCutover
<1>5. ASSUME NEW j \in Jobs PROVE FitsAt(j)
  <2>1. Fits(j, "none", "none", "not_started", "none", current, installed)
    BY <1>2 DEF Fits, Honest, Early, Swapped, Prior, Removed, Ending, Loose,
         ActivePhases, Preparing, PostCutover, Terminal
  <2>2. /\ job[j].phase = "none" /\ job[j].recovery.cutover = "none"
        /\ job[j].recovery.rollback = "not_started" /\ at[j] = "none"
    BY <1>1, <1>2
  <2> QED BY <2>1, <2>2 DEF FitsAt
<1> QED BY <1>3, <1>4, <1>5 DEF IInv, UpdateInit

LEMMA StepKeeps ==
  ASSUME IInv, [UpdateStep]_uvars
  PROVE  /\ IInv'
         /\ \A i \in Jobs : Active(job[i]) => Honest(i, job'[i].phase, current', installed')
<1>1. ASSUME NEW j \in Jobs, WorkerStep(j) \/ WorkerDies(j) PROVE Moved(j)
  BY <1>1, WorkerMoves, DiesMoves
<1>2. CASE \E j \in Jobs : WorkerStep(j) \/ WorkerDies(j)
  BY <1>1, <1>2, MovedKeeps
<1>3. CASE \E j \in Jobs : Launches(j)
  BY <1>3, LaunchesKeeps
<1>4. CASE \E j \in Jobs : LaunchFails(j)
  BY <1>4, LaunchFailsKeeps
<1>5. CASE Posts
  BY <1>5, PostsKeeps
<1>6. CASE ServerLooks
  BY <1>6, ServerKeeps
<1> QED BY <1>2, <1>3, <1>4, <1>5, <1>6 DEF UpdateStep, ServerLooks

LEMMA Invariance == UpdateSpec => []IInv
<1>1. IInv /\ [UpdateStep]_uvars => IInv'
  BY StepKeeps
<1> QED BY InitFits, <1>1, PTL DEF UpdateSpec

LEMMA FitsIsSafe == IInv => LinkIsSafe
<1> SUFFICES ASSUME IInv PROVE LinkIsSafe
  OBVIOUS
<1>1. UpdateTypeOK
  <2>1. ASSUME NEW j \in Jobs
        PROVE  /\ job[j].phase \in {"none"} \cup Preparing \cup PostCutover \cup Terminal
               /\ job[j].recovery \in Recovery
               /\ job[j].recovery.rollback # "not_started" =>
                    /\ job[j].phase \in {"rolling_back"} \cup Terminal
                    /\ job[j].recovery.cutover = "live_link_swapped"
    BY DEF IInv, Typed, Phases, ActivePhases, FitsAt, Fits
  <2> QED BY <2>1 DEF UpdateTypeOK, IInv, Typed
<1>2. AuthorityFirst
  BY DEF AuthorityFirst, IInv, FitsAt, Fits
<1> QED BY <1>1, <1>2 DEF LinkIsSafe, NeverDangling, IInv

LEMMA FitsIsAlone == IInv => OneWorkerActs
<1> SUFFICES ASSUME IInv, NEW i \in Jobs, NEW j \in Jobs, at[i] \in Acting, at[j] \in Acting
             PROVE  i = j
  BY DEF OneWorkerActs
<1>1. at[i] \notin Loose /\ at[j] \notin Loose
  BY DEF Acting, Loose, Ending
<1>2. Active(job[i]) /\ Active(job[j])
  BY <1>1 DEF IInv, FitsAt, Fits, Active, ActivePhases
<1> QED BY <1>2 DEF IInv, OneActive

(* Whoever dies or fails to write, and when: every job that has reached the   *)
(* cutover has its recovery record, and the link points to no removed release *)
(* (release-update-worker's checkpoints before and after the swap).           *)
THEOREM LinkSafe == UpdateSpec => []LinkIsSafe
BY Invariance, FitsIsSafe, PTL

(* Only the worker of the one active job is ever at a step that changes the   *)
(* releases, the link or the server.                                          *)
THEOREM OneWorker == UpdateSpec => []OneWorkerActs
BY Invariance, FitsIsAlone, PTL

(* No step records an outcome of a job that the installation contradicts,     *)
(* be it the worker's or failIfInactive's on behalf of a dead one.            *)
THEOREM OutcomesTrue == UpdateSpec => OutcomeIsTrue
<1>1. IInv /\ [UpdateStep]_uvars =>
        [\A j \in Jobs : Active(job[j]) =>
           /\ job'[j].phase = "succeeded" => current' = j
           /\ job'[j].phase = "failed" => current' # j
           /\ job'[j].phase = "failed_rolled_back" => current' # j /\ ~installed']_uvars
  BY StepKeeps DEF Honest
<1> QED BY Invariance, <1>1, PTL DEF UpdateSpec, OutcomeIsTrue

-----------------------------------------------------------------------------
(* The shell sessions and their terminals.                                    *)

\* What the map and the terminals are; sockets are numbered from 1.
SInv ==
  /\ mode \in {"plain", "local-agent", "attach-only"}
  /\ entry \in Entries \cup {NoEntry}
  /\ terminal \in [Terminals -> {"none", "running", "killed", "exited"}]
  /\ TerminalIsKept

LEMMA InitSInv == ShellInit => SInv
BY DEF ShellInit, SInv, TerminalIsKept

\* An entry of the map is told from its absence.
LEMMA EntryFields ==
  ASSUME NEW e \in Entries
  PROVE  /\ e # NoEntry /\ e.pty \in Terminals /\ e.ws \in Sockets \cup {0} /\ e.timer \in BOOLEAN
         /\ e.last \in 0..MaxChunks /\ e.kept \in 0..BufferSize
BY NoEntryAssumption DEF Entries

LEMMA SocketsArePositive == 0 \notin Sockets
BY ShellAssumption DEF Sockets

\* The same terminal is under the key, with or without a socket.
LEMMA SameTerminal ==
  ASSUME SInv, entry # NoEntry, entry' \in Entries, entry'.pty = entry.pty,
         entry'.timer <=> entry'.ws = 0, UNCHANGED <<mode, terminal>>
  PROVE  SInv'
BY EntryFields DEF SInv, TerminalIsKept

LEMMA ReattachesKeeps == ASSUME SInv, NEW s \in Sockets, Reattaches(s) PROVE SInv'
<1>1. entry # NoEntry /\ entry \in Entries /\ entry' = [entry EXCEPT !.ws = s, !.timer = FALSE]
  BY DEF Reattaches, Taken, Fresh, SInv
<1>2. entry' \in Entries /\ entry'.pty = entry.pty /\ entry'.ws = s /\ ~entry'.timer
  BY <1>1 DEF Entries
<1> QED BY <1>1, <1>2, SameTerminal, SocketsArePositive DEF Reattaches

\* The terminal that is under the key now is the one that is replaced.
LEMMA SpawnKeeps == ASSUME SInv, NEW s \in Sockets, SpawnsTerminal(s) PROVE SInv'
<1>1. PICK p \in Terminals :
        /\ terminal[p] = "none"
        /\ terminal' = [q \in Terminals |-> IF q = p THEN "running"
                                            ELSE IF q = Replaced(s) THEN "killed" ELSE terminal[q]]
        /\ entry' = [pty |-> p, ws |-> s, last |-> 0, kept |-> 0, timer |-> FALSE]
  BY DEF SpawnsTerminal
<1>2. entry' \in Entries /\ entry'.pty = p /\ entry'.ws = s /\ ~entry'.timer
  BY <1>1, ShellAssumption DEF Entries
<1>3. \A q \in Terminals : terminal[q] = "running" => q = Replaced(s)
  BY DEF SInv, TerminalIsKept, Replaced, Current
<1>4. \A q \in Terminals : terminal'[q] = "running" <=> q = p
  BY <1>1, <1>3
<1>5. terminal' \in [Terminals -> {"none", "running", "killed", "exited"}] /\ mode' = mode
  BY <1>1 DEF SInv, SpawnsTerminal
<1> QED BY <1>2, <1>4, <1>5, EntryFields, SocketsArePositive DEF SInv, TerminalIsKept

\* What a terminal says is counted under the key, whichever terminal it is.
LEMMA SpeaksKeeps == ASSUME SInv, NEW p \in Terminals, TerminalSpeaks(p) PROVE SInv'
<1>1. /\ entry # NoEntry /\ entry \in Entries /\ entry.last < MaxChunks
      /\ entry' = [entry EXCEPT !.last = @ + 1, !.kept = IF @ < BufferSize THEN @ + 1 ELSE @]
  BY DEF TerminalSpeaks, SInv
<1>2. entry.last + 1 \in 0..MaxChunks
      /\ (IF entry.kept < BufferSize THEN entry.kept + 1 ELSE entry.kept) \in 0..BufferSize
  BY <1>1, EntryFields, ShellAssumption
<1>3. /\ entry' \in Entries /\ entry'.pty = entry.pty /\ entry'.ws = entry.ws
      /\ entry'.timer = entry.timer
  BY <1>1, <1>2 DEF Entries
<1> QED BY <1>1, <1>3, SameTerminal DEF TerminalSpeaks, SInv, TerminalIsKept

LEMMA ExitKeeps == ASSUME SInv, NEW p \in Terminals, TerminalExits(p) PROVE SInv'
BY NoEntryAssumption DEF TerminalExits, Forgotten, SInv, TerminalIsKept

LEMMA ClosesKeeps == ASSUME SInv, NEW s \in Sockets, SocketCloses(s) PROVE SInv'
<1>1. CASE entry # NoEntry /\ entry.ws = s
  <2>1. entry \in Entries /\ entry' = [entry EXCEPT !.ws = 0, !.timer = TRUE]
    BY <1>1 DEF SocketCloses, SInv
  <2>2. entry' \in Entries /\ entry'.pty = entry.pty /\ entry'.ws = 0 /\ entry'.timer
    BY <2>1 DEF Entries
  <2> QED BY <1>1, <2>2, SameTerminal DEF SocketCloses
<1>2. CASE ~(entry # NoEntry /\ entry.ws = s)
  BY <1>2 DEF SocketCloses, SInv, TerminalIsKept
<1> QED BY <1>1, <1>2

LEMMA TimesOutKeeps == ASSUME SInv, TimesOut PROVE SInv'
BY EntryFields DEF TimesOut, SInv, TerminalIsKept

LEMMA StepKeepsSInv == SInv /\ [ShellStep]_shellvars => SInv'
<1> SUFFICES ASSUME SInv, [ShellStep]_shellvars PROVE SInv'
  OBVIOUS
<1>1. CASE UNCHANGED <<mode, entry, terminal>>
  BY <1>1 DEF SInv, TerminalIsKept
<1>2. CASE \E t \in Tabs : \/ ShellConnects(t) \/ LosesSocket(t) \/ ReceivesFrame(t)
                           \/ \E restarting \in BOOLEAN : Disconnects(t, restarting)
  BY <1>1, <1>2 DEF ShellConnects, LosesSocket, ReceivesFrame, Disconnects
<1>3. CASE \E s \in Sockets : \/ BeginsAsserting(s) \/ BeginsVerifying(s) \/ BeginsLeasing(s)
                              \/ Reattaches(s) \/ SpawnsTerminal(s) \/ RefusesInit(s) \/ SocketCloses(s)
  BY <1>1, <1>3, ReattachesKeeps, SpawnKeeps, ClosesKeeps
     DEF BeginsAsserting, BeginsVerifying, BeginsLeasing, RefusesInit
<1>4. CASE \E p \in Terminals : TerminalSpeaks(p) \/ TerminalExits(p)
  BY <1>4, SpeaksKeeps, ExitKeeps
<1>5. CASE TimesOut
  BY <1>5, TimesOutKeeps
<1>6. CASE UNCHANGED shellvars
  BY <1>1, <1>6 DEF shellvars
<1> QED BY <1>2, <1>3, <1>4, <1>5, <1>6 DEF ShellStep

(* No terminal is orphaned, whichever inits and restarts overlap, and a       *)
(* terminal has its timeout exactly while no socket has it (the map of        *)
(* shell-websocket.service.ts is read again when it is written).              *)
THEOREM NoOrphans == ShellSpec => []TerminalIsKept
<1>1. SInv => TerminalIsKept
  BY DEF SInv
<1> QED BY <1>1, InitSInv, StepKeepsSInv, PTL DEF ShellSpec

-----------------------------------------------------------------------------
(* What a tab shows. The frames on their way to it are a run of chunks of one  *)
(* terminal, with or without the frame that begins a replay.                  *)

Redraw == [kind |-> "redraw"]
Resume(p) == [kind |-> "resume", pty |-> p]
Output(p, i) == [kind |-> "output", chunk |-> [pty |-> p, seq |-> i]]
Chunks(p, a, b) == [i \in 1 .. (b + 1 - a) |-> Output(p, a + i - 1)]

ShellFrames == {Redraw} \cup {Resume(p) : p \in Terminals}
                 \cup {Output(p, i) : p \in Terminals, i \in 1..MaxChunks}

\* The terminal's output goes to the socket.
Serving(e, s, k) == e # NoEntry /\ e.ws = s /\ k.up

\* The chunk after the last one shown is number a of p.
Behind(v, p, a) == ~v.astray /\ v.shown # << >> => v.from = p /\ v.cursor = a - 1

\* The frame that begins a replay from chunk a on.
Begins(start, p, cursor, a) == start = Redraw \/ (start = Resume(p) /\ cursor = a - 1)

\* The chunks a to b of terminal p are on their way to the tab v of the socket s.
Coming(v, k, q, e, s, p, a, b) ==
  /\ a <= b + 1 /\ b <= MaxChunks
  /\ Serving(e, s, k) => e.pty = p /\ e.last = b
  /\ \/ q = Chunks(p, a, b) /\ Behind(v, p, a)
     \/ q = <<Redraw>> \o Chunks(p, a, b)
     \/ q = <<Resume(p)>> \o Chunks(p, a, b) /\ v.cursor = a - 1

Quiet(k, q, e, s) == q = << >> /\ ~Serving(e, s, k)

Tuned(v, k, q, e, s) ==
  /\ k.stage # "done" => Quiet(k, q, e, s) /\ v.cursor = k.cursor
  /\ \/ Quiet(k, q, e, s)
     \/ \E p \in Terminals, a \in Nat \ {0}, b \in Nat : Coming(v, k, q, e, s, p, a, b)

\* The screen of a tab: a run of chunks, the last of which the cursor names.
Contiguous(shown) ==
  \A i \in 1 .. (Len(shown) - 1) :
    shown[i + 1] = [pty |-> shown[i].pty, seq |-> shown[i].seq + 1]

Screen(v) ==
  /\ v.shown # << >> => v.shown[Len(v.shown)] = [pty |-> v.from, seq |-> v.cursor]
  /\ ~v.astray => Contiguous(v.shown)
  /\ v.restarting => v.socket = 0 /\ v.shown = << >>

ShellTyped ==
  /\ entry \in Entries \cup {NoEntry}
  /\ entry # NoEntry => entry.ws \in Accepted \cup {0} /\ entry.kept <= entry.last
  /\ socket \in Seq(SocketStates) /\ frames \in Seq(Seq(ShellFrames)) /\ Len(frames) = Len(socket)
  /\ tab \in [Tabs -> TabStates]

Attached(t) ==
  tab[t].socket # 0 =>
    /\ tab[t].socket \in Accepted /\ socket[tab[t].socket].tab = t
    /\ Tuned(tab[t], socket[tab[t].socket], frames[tab[t].socket], entry, tab[t].socket)

WInv == ShellTyped /\ \A t \in Tabs : Screen(tab[t]) /\ Attached(t)

-----------------------------------------------------------------------------
(* Runs of chunks.                                                           *)

LEMMA SomeChunks ==
  ASSUME NEW p \in Terminals, NEW a \in Nat \ {0}, NEW b \in Nat, a <= b + 1, b <= MaxChunks
  PROVE  Chunks(p, a, b) \in Seq(ShellFrames) /\ Len(Chunks(p, a, b)) = b + 1 - a
<1> DEFINE n == b + 1 - a
<1>1. n \in Nat
  OBVIOUS
<1>2. \A i \in 1..n : Output(p, a + i - 1) \in ShellFrames
  <2> SUFFICES ASSUME NEW i \in 1..n PROVE Output(p, a + i - 1) \in ShellFrames
    OBVIOUS
  <2>1. a + i - 1 \in 1..MaxChunks
    BY ShellAssumption
  <2> QED BY <2>1 DEF ShellFrames
<1> HIDE DEF n
<1>3. Chunks(p, a, b) = [i \in 1..n |-> Output(p, a + i - 1)]
  BY DEF Chunks, n
<1>4. [i \in 1..n |-> Output(p, a + i - 1)] \in [1..n -> ShellFrames]
  BY <1>2
<1> DEFINE c == Chunks(p, a, b)
<1>5. c \in [1..n -> ShellFrames]
  BY <1>3, <1>4
<1> HIDE DEF c
<1>6. c \in Seq(ShellFrames)
  BY <1>1, <1>5, SeqDef
<1>7. 1..Len(c) = 1..n /\ Len(c) \in Nat
  BY <1>5, <1>6, LenProperties
<1>8. Len(c) = n
  BY <1>1, <1>7
<1> QED BY <1>6, <1>8 DEF c, n

LEMMA NoChunks == ASSUME NEW p, NEW a \in Nat, NEW b \in Nat, a = b + 1 PROVE Chunks(p, a, b) = << >>
<1>1. b + 1 - a = 0
  OBVIOUS
<1>2. Chunks(p, a, b) = [i \in 1..0 |-> Output(p, a + i - 1)]
  BY <1>1 DEF Chunks
<1> QED BY <1>2

LEMMA OneMoreChunk ==
  ASSUME NEW p \in Terminals, NEW a \in Nat \ {0}, NEW b \in Nat, a <= b + 1, b + 1 <= MaxChunks
  PROVE  Chunks(p, a, b) \o <<Output(p, b + 1)>> = Chunks(p, a, b + 1)
<1> DEFINE s == Chunks(p, a, b)
           f == Output(p, b + 1)
           u == Append(s, f)
           v == Chunks(p, a, b + 1)
           n == b + 1 - a
<1>1. /\ s \in Seq(ShellFrames) /\ Len(s) = n /\ v \in Seq(ShellFrames) /\ Len(v) = n + 1 /\ n \in Nat
  <2>0. b <= MaxChunks
    BY ShellAssumption
  <2>1. s \in Seq(ShellFrames) /\ Len(s) = n
    BY <2>0, SomeChunks
  <2>2. b + 1 \in Nat /\ a <= b + 1 + 1
    OBVIOUS
  <2>3. v \in Seq(ShellFrames) /\ Len(v) = b + 1 + 1 - a
    BY <2>2, SomeChunks
  <2> QED BY <2>1, <2>3
<1>2. f \in ShellFrames
  BY DEF ShellFrames
<1>3. \A i \in 1..n : s[i] = Output(p, a + i - 1)
  BY DEF Chunks
<1>4. \A i \in 1 .. n + 1 : v[i] = Output(p, a + i - 1)
  BY DEF Chunks
<1>5. a + (n + 1) - 1 = b + 1
  OBVIOUS
<1> HIDE DEF s, v, n
<1>6. /\ u \in Seq(ShellFrames) /\ Len(u) = n + 1 /\ u[n + 1] = f
      /\ \A i \in 1..n : u[i] = s[i]
  BY <1>1, <1>2, AppendProperties
<1>7. v[n + 1] = f
  BY <1>1, <1>4, <1>5
<1>8. \A i \in 1..Len(u) : u[i] = v[i]
  BY <1>1, <1>3, <1>4, <1>6, <1>7
<1>9. u = v
  BY <1>1, <1>6, <1>8, SeqEqual
<1>10. Append(s, f) = s \o <<f>>
  BY <1>1, <1>2, AppendIsConcat
<1> QED BY <1>9, <1>10 DEF s, v

LEMMA FirstChunk ==
  ASSUME NEW p \in Terminals, NEW a \in Nat \ {0}, NEW b \in Nat, a <= b, b <= MaxChunks
  PROVE  /\ Chunks(p, a, b) # << >> /\ Head(Chunks(p, a, b)) = Output(p, a)
         /\ Tail(Chunks(p, a, b)) = Chunks(p, a + 1, b)
<1> DEFINE s == Chunks(p, a, b)
           v == Chunks(p, a + 1, b)
           n == b - a
<1>1. /\ s \in Seq(ShellFrames) /\ Len(s) = n + 1 /\ v \in Seq(ShellFrames) /\ Len(v) = n /\ n \in Nat
  <2>1. a <= b + 1 /\ a + 1 \in Nat \ {0} /\ a + 1 <= b + 1
    OBVIOUS
  <2>2. s \in Seq(ShellFrames) /\ Len(s) = b + 1 - a
    BY <2>1, SomeChunks
  <2>3. v \in Seq(ShellFrames) /\ Len(v) = b + 1 - (a + 1)
    BY <2>1, SomeChunks
  <2> QED BY <2>2, <2>3
<1>2. \A i \in 1 .. n + 1 : s[i] = Output(p, a + i - 1)
  BY DEF Chunks
<1>3. \A i \in 1..n : v[i] = Output(p, a + 1 + i - 1)
  BY DEF Chunks
<1> HIDE DEF s, v
<1>4. s # << >>
  BY <1>1, EmptySeq
<1>5. /\ Head(s) = s[1] /\ Tail(s) \in Seq(ShellFrames) /\ Len(Tail(s)) = n
      /\ \A i \in 1..n : Tail(s)[i] = s[i + 1]
  BY <1>1, <1>4, HeadTailProperties
<1>6. a + 1 - 1 = a /\ \A i \in 1..n : i + 1 \in 1 .. n + 1 /\ a + (i + 1) - 1 = a + 1 + i - 1
  BY <1>1
<1>7. \A i \in 1..n : Tail(s)[i] = v[i]
  BY <1>2, <1>3, <1>5, <1>6
<1>8. Tail(s) = v
  BY <1>1, <1>5, <1>7, SeqEqual
<1>9. Head(s) = Output(p, a)
  BY <1>1, <1>2, <1>5, <1>6
<1> QED BY <1>4, <1>8, <1>9 DEF s, v

LEMMA StartFrame ==
  ASSUME NEW F, NEW f \in F, NEW s \in Seq(F)
  PROVE  /\ <<f>> \o s \in Seq(F) /\ <<f>> \o s # << >> /\ Head(<<f>> \o s) = f /\ Tail(<<f>> \o s) = s
<1> DEFINE u == <<f>> \o s
<1>1. <<f>> \in Seq(F) /\ Len(<<f>>) = 1 /\ <<f>>[1] = f /\ Len(s) \in Nat
  OBVIOUS
<1>2. /\ u \in Seq(F) /\ Len(u) = 1 + Len(s)
      /\ \A i \in 1 .. 1 + Len(s) : u[i] = IF i <= 1 THEN f ELSE s[i - 1]
  BY <1>1, ConcatProperties
<1> HIDE DEF u
<1>3. u # << >>
  BY <1>1, <1>2, EmptySeq
<1>4. /\ Head(u) = u[1] /\ Tail(u) \in Seq(F) /\ Len(Tail(u)) = Len(s)
      /\ \A i \in 1..Len(s) : Tail(u)[i] = u[i + 1]
  BY <1>1, <1>2, <1>3, HeadTailProperties
<1>5. \A i \in 1..Len(s) : Tail(u)[i] = s[i]
  BY <1>1, <1>2, <1>4
<1>6. Tail(u) = s
  BY <1>4, <1>5, SeqEqual
<1>7. Head(u) = f
  BY <1>1, <1>2, <1>4
<1> QED BY <1>2, <1>3, <1>6, <1>7 DEF u

LEMMA StartedChunks ==
  ASSUME NEW p \in Terminals, NEW a \in Nat \ {0}, NEW b \in Nat, a <= b + 1, b + 1 <= MaxChunks,
         NEW f \in ShellFrames
  PROVE  (<<f>> \o Chunks(p, a, b)) \o <<Output(p, b + 1)>> = <<f>> \o Chunks(p, a, b + 1)
<1> DEFINE s == Chunks(p, a, b)
           first == <<f>>
           last == <<Output(p, b + 1)>>
<1>1. Output(p, b + 1) \in ShellFrames
  BY DEF ShellFrames
<1>2. s \in Seq(ShellFrames) /\ first \in Seq(ShellFrames) /\ last \in Seq(ShellFrames)
  <2>1. b <= MaxChunks
    BY ShellAssumption
  <2>2. s \in Seq(ShellFrames)
    BY <2>1, SomeChunks
  <2> QED BY <1>1, <2>2
<1>3. s \o last = Chunks(p, a, b + 1)
  BY OneMoreChunk
<1> HIDE DEF s, first, last
<1>4. (first \o s) \o last = first \o (s \o last)
  <2>1. \A x, y, z \in Seq(ShellFrames) : (x \o y) \o z = x \o (y \o z)
    BY Associative
  <2> QED BY <1>2, <2>1, Zenon
<1>5. (first \o s) \o last = first \o Chunks(p, a, b + 1)
  BY <1>3, <1>4
<1> QED BY <1>5 DEF s, first, last

-----------------------------------------------------------------------------
(* What a step does to a tab, its socket and the frames between them.         *)

LEMMA ViewFields ==
  ASSUME NEW v \in TabStates
  PROVE  /\ v.socket \in Sockets \cup {0} /\ v.restarting \in BOOLEAN /\ v.cursor \in 0..MaxChunks
         /\ v.from \in Terminals \cup {0} /\ v.astray \in BOOLEAN
         /\ v.shown \in Seq([pty : Terminals, seq : 1..MaxChunks])
BY DEF TabStates

\* The socket is no longer the terminal's, or never was.
LEMMA TunedIdle ==
  ASSUME NEW v, NEW k, NEW q, NEW e, NEW s, Tuned(v, k, q, e, s),
         NEW l, NEW d, ~Serving(d, s, l),
         l.stage # "done" => k.stage # "done" /\ l.cursor = k.cursor
  PROVE  Tuned(v, l, q, d, s)
<1>1. l.stage # "done" => Quiet(l, q, d, s) /\ v.cursor = l.cursor
  BY DEF Tuned, Quiet
<1>2. ASSUME NEW p \in Terminals, NEW a \in Nat \ {0}, NEW b \in Nat, Coming(v, k, q, e, s, p, a, b)
      PROVE  Coming(v, l, q, d, s, p, a, b)
  BY <1>2 DEF Coming
<1>3. Quiet(k, q, e, s) => Quiet(l, q, d, s)
  BY DEF Quiet
<1> QED BY <1>1, <1>2, <1>3, Zenon DEF Tuned

\* Nothing of it changes.
LEMMA TunedSame ==
  ASSUME NEW v, NEW k, NEW q, NEW e, NEW s, Tuned(v, k, q, e, s),
         NEW l, NEW d,
         Serving(d, s, l) => Serving(e, s, k) /\ d.pty = e.pty /\ d.last = e.last,
         l.stage # "done" => k.stage # "done" /\ l.cursor = k.cursor
  PROVE  Tuned(v, l, q, d, s)
<1>1. l.stage # "done" => Quiet(l, q, d, s) /\ v.cursor = l.cursor
  BY DEF Tuned, Quiet
<1>2. ASSUME NEW p \in Terminals, NEW a \in Nat \ {0}, NEW b \in Nat, Coming(v, k, q, e, s, p, a, b)
      PROVE  Coming(v, l, q, d, s, p, a, b)
  BY <1>2 DEF Coming
<1>3. Quiet(k, q, e, s) => Quiet(l, q, d, s)
  BY DEF Quiet
<1> QED BY <1>1, <1>2, <1>3, Zenon DEF Tuned

\* A chunk more, on its way to the socket that has the terminal.
LEMMA TunedSpoken ==
  ASSUME NEW v, NEW k, NEW q, NEW e \in Entries, NEW s, Tuned(v, k, q, e, s), e.last < MaxChunks,
         NEW d \in Entries, d.pty = e.pty, d.ws = e.ws, d.last = e.last + 1,
         NEW r, r = IF Serving(e, s, k) THEN q \o <<Output(e.pty, e.last + 1)>> ELSE q
  PROVE  Tuned(v, k, r, d, s)
<1>1. e # NoEntry /\ d # NoEntry
  BY NoEntryAssumption
<1>2. Serving(d, s, k) <=> Serving(e, s, k)
  BY <1>1 DEF Serving
<1>3. CASE ~Serving(e, s, k)
  BY <1>2, <1>3, TunedIdle
<1>4. CASE Serving(e, s, k)
  <2>1. PICK p \in Terminals, a \in Nat \ {0}, b \in Nat : Coming(v, k, q, e, s, p, a, b)
    BY <1>4 DEF Tuned, Quiet
  <2>2. /\ a <= b + 1 /\ b <= MaxChunks /\ e.pty = p /\ e.last = b
        /\ \/ q = Chunks(p, a, b) /\ Behind(v, p, a)
           \/ q = <<Redraw>> \o Chunks(p, a, b)
           \/ q = <<Resume(p)>> \o Chunks(p, a, b) /\ v.cursor = a - 1
    BY <1>4, <2>1 DEF Coming
  <2>3. b + 1 \in Nat /\ b + 1 <= MaxChunks /\ a <= b + 1 + 1
    BY <2>2, ShellAssumption
  <2>4. Redraw \in ShellFrames /\ Resume(p) \in ShellFrames
    BY DEF ShellFrames
  <2>5. r = q \o <<Output(p, b + 1)>>
    BY <1>4, <2>2
  <2>6. \/ r = Chunks(p, a, b + 1) /\ Behind(v, p, a)
        \/ r = <<Redraw>> \o Chunks(p, a, b + 1)
        \/ r = <<Resume(p)>> \o Chunks(p, a, b + 1) /\ v.cursor = a - 1
    <3>1. CASE q = Chunks(p, a, b) /\ Behind(v, p, a)
      BY <2>2, <2>3, <2>5, <3>1, OneMoreChunk
    <3>2. CASE q = <<Redraw>> \o Chunks(p, a, b)
      BY <2>2, <2>3, <2>4, <2>5, <3>2, StartedChunks
    <3>3. CASE q = <<Resume(p)>> \o Chunks(p, a, b) /\ v.cursor = a - 1
      BY <2>2, <2>3, <2>4, <2>5, <3>3, StartedChunks
    <3> QED BY <2>2, <3>1, <3>2, <3>3
  <2>7. Coming(v, k, r, d, s, p, a, b + 1)
    BY <2>2, <2>3, <2>6 DEF Coming
  <2>8. k.stage = "done"
    BY <1>4 DEF Tuned, Quiet
  <2> QED BY <2>3, <2>7, <2>8 DEF Tuned
<1> QED BY <1>3, <1>4

\* The socket has the terminal from now on: a start and what it has kept is on its way.
LEMMA TunedTaken ==
  ASSUME NEW v, NEW k, NEW e, NEW s, Tuned(v, k, << >>, e, s), k.stage # "done",
         NEW d \in Entries, NEW l, l.stage = "done", NEW a \in Nat \ {0}, a <= d.last + 1,
         NEW start, Begins(start, d.pty, k.cursor, a)
  PROVE  Tuned(v, l, <<start>> \o Chunks(d.pty, a, d.last), d, s)
<1>1. /\ d.pty \in Terminals /\ d.last \in Nat /\ d.last <= MaxChunks
  BY ShellAssumption DEF Entries
<1>2. v.cursor = k.cursor
  BY DEF Tuned
<1>3. Coming(v, l, <<start>> \o Chunks(d.pty, a, d.last), d, s, d.pty, a, d.last)
  BY <1>1, <1>2 DEF Coming, Begins
<1> QED BY <1>1, <1>3 DEF Tuned

LEMMA OneMoreShown ==
  ASSUME NEW S, NEW s \in Seq(S), NEW c \in S
  PROVE  /\ Append(s, c) \in Seq(S) /\ Append(s, c)[Len(Append(s, c))] = c /\ Append(s, c) # << >>
         /\ Contiguous(s) /\ (s # << >> => c = [pty |-> s[Len(s)].pty, seq |-> s[Len(s)].seq + 1])
              => Contiguous(Append(s, c))
<1> DEFINE u == Append(s, c)
           n == Len(s)
<1>1. /\ u \in Seq(S) /\ Len(u) = n + 1 /\ u[n + 1] = c /\ \A i \in 1..n : u[i] = s[i]
      /\ n \in Nat /\ (n # 0 => s # << >>)
  BY AppendProperties, LenProperties, EmptySeq
<1> HIDE DEF u
<1>2. u # << >>
  BY <1>1, EmptySeq
<1>3. ASSUME Contiguous(s), s # << >> => c = [pty |-> s[n].pty, seq |-> s[n].seq + 1]
      PROVE  Contiguous(u)
  <2> SUFFICES ASSUME NEW i \in 1..n PROVE u[i + 1] = [pty |-> u[i].pty, seq |-> u[i].seq + 1]
    BY <1>1 DEF Contiguous
  <2>1. CASE i = n
    BY <1>1, <1>3, <2>1
  <2>2. CASE i # n
    <3>1. i \in 1 .. (n - 1) /\ i + 1 \in 1..n
      BY <1>1, <2>2
    <3> QED BY <1>1, <1>3, <3>1 DEF Contiguous
  <2> QED BY <2>1, <2>2
<1> QED BY <1>1, <1>2, <1>3 DEF u

LEMMA NothingShown == ASSUME NEW S PROVE << >> \in Seq(S) /\ Contiguous(<< >>)
<1>1. << >> \in Seq(S) /\ Len(<< >>) = 0
  BY EmptySeq
<1>2. 1 .. (0 - 1) = {}
  OBVIOUS
<1> QED BY <1>1, <1>2 DEF Contiguous

LEMMA ShowsOutput ==
  ASSUME NEW v \in TabStates, Screen(v), v.socket # 0, NEW p \in Terminals, NEW a \in 1..MaxChunks,
         Behind(v, p, a)
  PROVE  LET w == Shows(v, Output(p, a))
         IN w \in TabStates /\ Screen(w) /\ w.socket = v.socket /\ Behind(w, p, a + 1)
<1> DEFINE S == [pty : Terminals, seq : 1..MaxChunks]
           c == [pty |-> p, seq |-> a]
           u == Append(v.shown, c)
           w == Shows(v, Output(p, a))
<1>1. v.shown \in Seq(S) /\ c \in S /\ v.astray \in BOOLEAN /\ v.socket \in Sockets \cup {0}
  BY ViewFields
<1>2. u \in Seq(S) /\ u[Len(u)] = c /\ u # << >>
  BY <1>1, OneMoreShown
<1>3. w = [v EXCEPT !.shown = u, !.cursor = a, !.from = p]
  <2>1. Output(p, a).kind = "output" /\ Output(p, a).chunk = c /\ c.seq = a /\ c.pty = p
    BY DEF Output
  <2> HIDE DEF c
  <2> QED BY <2>1 DEF Shows
<1>4. ~v.astray => Contiguous(u)
  <2>1. ASSUME ~v.astray, v.shown # << >>
        PROVE  c = [pty |-> v.shown[Len(v.shown)].pty, seq |-> v.shown[Len(v.shown)].seq + 1]
    <3>1. v.shown[Len(v.shown)] = [pty |-> p, seq |-> a - 1]
      BY <2>1 DEF Screen, Behind
    <3>2. a - 1 + 1 = a
      BY ShellAssumption
    <3> QED BY <3>1, <3>2
  <2>2. ~v.astray => Contiguous(v.shown)
    BY DEF Screen
  <2> QED BY <1>1, <2>1, <2>2, OneMoreShown
<1>5. a \in 0..MaxChunks /\ a + 1 - 1 = a /\ c = [pty |-> p, seq |-> a]
  BY ShellAssumption
<1>6. ~v.restarting
  BY DEF Screen
<1> HIDE DEF u, S, w
<1>7. /\ w \in [socket : Sockets \cup {0}, restarting : BOOLEAN, cursor : 0..MaxChunks,
                from : Terminals \cup {0}, shown : Seq(S), astray : BOOLEAN]
      /\ w.shown = u /\ w.cursor = a /\ w.from = p /\ w.astray = v.astray
      /\ w.socket = v.socket /\ w.restarting = v.restarting
  BY <1>2, <1>3, <1>5 DEF TabStates, S
<1>8. w \in TabStates
  BY <1>7 DEF TabStates, S
<1>9. Screen(w)
  BY <1>2, <1>4, <1>5, <1>6, <1>7 DEF Screen
<1>10. Behind(w, p, a + 1)
  BY <1>5, <1>7 DEF Behind
<1> QED BY <1>7, <1>8, <1>9, <1>10 DEF w

LEMMA ShowsRedraw ==
  ASSUME NEW v \in TabStates, Screen(v), v.socket # 0
  PROVE  LET w == Shows(v, Redraw)
         IN /\ w \in TabStates /\ Screen(w) /\ w.socket = v.socket
            /\ \A p, a : Behind(w, p, a)
<1> DEFINE w == Shows(v, Redraw)
<1>1. w = [v EXCEPT !.shown = << >>, !.astray = FALSE]
  <2>1. Redraw.kind = "redraw"
    BY DEF Redraw
  <2> QED BY <2>1 DEF Shows
<1>2. << >> \in Seq([pty : Terminals, seq : 1..MaxChunks]) /\ Contiguous(<< >>)
  BY NothingShown
<1>3. ASSUME NEW no \in BOOLEAN, NEW x, x = [v EXCEPT !.shown = << >>, !.astray = no]
      PROVE  /\ x \in TabStates /\ x.shown = << >> /\ x.socket = v.socket /\ x.restarting = v.restarting
             /\ x.astray = no
  BY <1>2, <1>3 DEF TabStates
<1> HIDE DEF w
<1>4. w \in TabStates /\ w.shown = << >> /\ w.socket = v.socket /\ w.restarting = v.restarting
  BY <1>1, <1>3
<1>5. Screen(w)
  BY <1>2, <1>4 DEF Screen
<1>6. \A p, a : Behind(w, p, a)
  BY <1>4 DEF Behind
<1> QED BY <1>4, <1>5, <1>6 DEF w

LEMMA ShowsResume ==
  ASSUME NEW v \in TabStates, Screen(v), NEW p \in Terminals, NEW a, v.cursor = a - 1
  PROVE  LET w == Shows(v, Resume(p))
         IN w \in TabStates /\ Screen(w) /\ w.socket = v.socket /\ Behind(w, p, a)
<1> DEFINE w == Shows(v, Resume(p))
           lost == v.astray \/ v.from # p
<1>1. w = [v EXCEPT !.astray = lost]
  <2>1. Resume(p).kind = "resume" /\ Resume(p).pty = p
    BY DEF Resume
  <2> QED BY <2>1 DEF Shows
<1>2. lost \in BOOLEAN /\ (~lost => ~v.astray /\ v.from = p)
  BY ViewFields
<1> HIDE DEF w, lost
<1>3. /\ w \in TabStates /\ w.shown = v.shown /\ w.socket = v.socket /\ w.restarting = v.restarting
      /\ w.astray = lost /\ w.from = v.from /\ w.cursor = v.cursor
  BY <1>1, <1>2 DEF TabStates
<1>4. Screen(w) /\ Behind(w, p, a)
  BY <1>2, <1>3 DEF Screen, Behind
<1> QED BY <1>3, <1>4 DEF w

LEMMA TunedShown ==
  ASSUME NEW v \in TabStates, Screen(v), v.socket # 0, NEW k, NEW q, NEW e, NEW s,
         Tuned(v, k, q, e, s), q # << >>
  PROVE  /\ Shows(v, Head(q)) \in TabStates /\ Screen(Shows(v, Head(q)))
         /\ Shows(v, Head(q)).socket = v.socket
         /\ Tuned(Shows(v, Head(q)), k, Tail(q), e, s)
<1>1. k.stage = "done"
  BY DEF Tuned, Quiet
<1>2. PICK p \in Terminals, a \in Nat \ {0}, b \in Nat : Coming(v, k, q, e, s, p, a, b)
  BY DEF Tuned, Quiet
<1>3. a <= b + 1 /\ b <= MaxChunks /\ (Serving(e, s, k) => e.pty = p /\ e.last = b)
  BY <1>2 DEF Coming
<1>4. /\ Chunks(p, a, b) \in Seq(ShellFrames) /\ Redraw \in ShellFrames /\ Resume(p) \in ShellFrames
  BY <1>3, SomeChunks DEF ShellFrames
<1>5. CASE q = Chunks(p, a, b) /\ Behind(v, p, a)
  <2>1. a <= b
    BY <1>3, <1>5, NoChunks
  <2>2. Head(q) = Output(p, a) /\ Tail(q) = Chunks(p, a + 1, b)
    BY <1>3, <1>5, <2>1, FirstChunk
  <2>3. a \in 1..MaxChunks
    BY <1>3, <2>1, ShellAssumption
  <2> DEFINE w == Shows(v, Output(p, a))
  <2>4. w \in TabStates /\ Screen(w) /\ w.socket = v.socket /\ Behind(w, p, a + 1)
    BY <1>5, <2>3, ShowsOutput
  <2> HIDE DEF w
  <2>5. Coming(w, k, Chunks(p, a + 1, b), e, s, p, a + 1, b)
    BY <1>3, <2>1, <2>4 DEF Coming
  <2>6. a + 1 \in Nat \ {0}
    OBVIOUS
  <2>7. Tuned(w, k, Chunks(p, a + 1, b), e, s)
    BY <1>1, <2>5, <2>6 DEF Tuned
  <2> QED BY <2>2, <2>4, <2>7 DEF w
<1>6. ASSUME NEW f \in ShellFrames, q = <<f>> \o Chunks(p, a, b), NEW w, w = Shows(v, f),
             w \in TabStates /\ Screen(w) /\ w.socket = v.socket /\ Behind(w, p, a)
      PROVE  /\ Shows(v, Head(q)) \in TabStates /\ Screen(Shows(v, Head(q)))
             /\ Shows(v, Head(q)).socket = v.socket
             /\ Tuned(Shows(v, Head(q)), k, Tail(q), e, s)
  <2>1. Head(q) = f /\ Tail(q) = Chunks(p, a, b)
    BY <1>4, <1>6, StartFrame
  <2>2. Coming(w, k, Chunks(p, a, b), e, s, p, a, b)
    BY <1>3, <1>6 DEF Coming
  <2>3. Tuned(w, k, Chunks(p, a, b), e, s)
    BY <1>1, <2>2 DEF Tuned
  <2> QED BY <1>6, <2>1, <2>3
<1>7. CASE q = <<Redraw>> \o Chunks(p, a, b)
  BY <1>4, <1>6, <1>7, ShowsRedraw
<1>8. CASE q = <<Resume(p)>> \o Chunks(p, a, b) /\ v.cursor = a - 1
  BY <1>4, <1>6, <1>8, ShowsResume
<1>9. \/ q = Chunks(p, a, b) /\ Behind(v, p, a)
      \/ q = <<Redraw>> \o Chunks(p, a, b)
      \/ q = <<Resume(p)>> \o Chunks(p, a, b) /\ v.cursor = a - 1
  BY <1>2 DEF Coming
<1> QED BY <1>5, <1>7, <1>8, <1>9

-----------------------------------------------------------------------------
(* The server's steps: the tabs stay as they are.                             *)

LEMMA AcceptedSockets ==
  ASSUME socket \in Seq(SocketStates)
  PROVE  /\ Accepted = 1..Len(socket) /\ Len(socket) \in Nat /\ 0 \notin Accepted
         /\ \A s \in Accepted : socket[s] \in SocketStates
BY LenProperties, ElementOfSeq DEF Accepted

LEMMA OneSocketChanges ==
  ASSUME socket \in Seq(SocketStates), NEW s \in Accepted, NEW k \in SocketStates,
         k.tab = socket[s].tab, socket' = [socket EXCEPT ![s] = k]
  PROVE  /\ socket' \in Seq(SocketStates) /\ Len(socket') = Len(socket) /\ Accepted' = Accepted
         /\ socket'[s] = k /\ \A r \in Accepted \ {s} : socket'[r] = socket[r]
         /\ \A r \in Accepted : socket'[r].tab = socket[r].tab
<1>1. Accepted = 1..Len(socket)
  BY AcceptedSockets
<1>2. /\ socket' \in Seq(SocketStates) /\ Len(socket') = Len(socket)
      /\ \A j \in 1..Len(socket) : socket'[j] = IF j = s THEN k ELSE socket[j]
  BY <1>1, ExceptSeq
<1>3. Accepted' = 1..Len(socket')
  BY <1>2, LenProperties DEF Accepted
<1> QED BY <1>1, <1>2, <1>3

LEMMA SentFrames ==
  ASSUME ShellTyped, NEW s \in Accepted, NEW q \in Seq(ShellFrames), frames' = Sent(s, q)
  PROVE  /\ frames' \in Seq(Seq(ShellFrames)) /\ Len(frames') = Len(frames)
         /\ \A r \in Accepted \ {s} : frames'[r] = frames[r]
         /\ frames'[s] = IF socket[s].up /\ tab[socket[s].tab].socket = s
                         THEN frames[s] \o q ELSE frames[s]
<1>1. /\ frames \in Seq(Seq(ShellFrames)) /\ Accepted = 1..Len(frames)
  BY AcceptedSockets DEF ShellTyped
<1>2. CASE socket[s].up /\ tab[socket[s].tab].socket = s
  <2> DEFINE f == frames[s] \o q
  <2>1. frames' = [frames EXCEPT ![s] = f]
    BY <1>2 DEF Sent
  <2>2. frames[s] \in Seq(ShellFrames)
    BY <1>1, ElementOfSeq
  <2>3. f \in Seq(ShellFrames)
    BY <2>2, ConcatProperties
  <2> HIDE DEF f
  <2>4. /\ frames' \in Seq(Seq(ShellFrames)) /\ Len(frames') = Len(frames)
        /\ \A j \in 1..Len(frames) : frames'[j] = IF j = s THEN f ELSE frames[j]
    BY <1>1, <2>1, <2>3, ExceptSeq
  <2>5. frames'[s] = f /\ \A r \in Accepted \ {s} : frames'[r] = frames[r]
    BY <1>1, <2>4
  <2> QED BY <1>2, <2>4, <2>5 DEF f
<1>3. CASE ~(socket[s].up /\ tab[socket[s].tab].socket = s)
  BY <1>1, <1>3 DEF Sent
<1> QED BY <1>2, <1>3

LEMMA ServingKeeps ==
  ASSUME WInv, tab' = tab, Accepted' = Accepted,
         entry' \in Entries \cup {NoEntry},
         entry' # NoEntry => entry'.ws \in Accepted \cup {0} /\ entry'.kept <= entry'.last,
         socket' \in Seq(SocketStates), frames' \in Seq(Seq(ShellFrames)), Len(frames') = Len(frames),
         Len(socket') = Len(socket), \A r \in Accepted : socket'[r].tab = socket[r].tab,
         \A t \in Tabs, s \in Accepted :
           tab[t].socket = s /\ socket[s].tab = t /\ Tuned(tab[t], socket[s], frames[s], entry, s)
             => Tuned(tab[t], socket'[s], frames'[s], entry', s)
  PROVE  WInv'
<1>1. ShellTyped'
  BY DEF WInv, ShellTyped
<1>2. ASSUME NEW t \in Tabs PROVE Screen(tab[t])' /\ Attached(t)'
  <2>1. Screen(tab[t]) /\ Attached(t)
    BY DEF WInv
  <2>2. Screen(tab[t])'
    BY <2>1 DEF Screen
  <2>3. Attached(t)'
    <3>1. CASE tab[t].socket = 0
      BY <3>1 DEF Attached
    <3>2. CASE tab[t].socket # 0
      <4> DEFINE s == tab[t].socket
      <4>1. /\ s \in Accepted /\ socket[s].tab = t
            /\ Tuned(tab[t], socket[s], frames[s], entry, s)
        BY <2>1, <3>2 DEF Attached
      <4>2. Tuned(tab[t], socket'[s], frames'[s], entry', s)
        BY <4>1
      <4>3. s' = s /\ tab'[t] = tab[t] /\ s \in Accepted' /\ socket'[s].tab = t
        BY <4>1
      <4> QED BY <4>2, <4>3 DEF Attached
    <3> QED BY <3>1, <3>2
  <2> QED BY <2>2, <2>3
<1> QED BY <1>1, <1>2 DEF WInv

LEMMA BeginsKeeps ==
  ASSUME WInv, NEW s \in Accepted, socket[s].stage # "done", UNCHANGED <<entry, frames, tab>>,
         NEW stage \in {"asserting", "verifying", "leasing"}, NEW seen \in Terminals \cup {0},
         socket' = [socket EXCEPT ![s] = [socket[s] EXCEPT !.stage = stage, !.seen = seen]]
  PROVE  WInv'
<1> DEFINE k == [socket[s] EXCEPT !.stage = stage, !.seen = seen]
<1>1. /\ entry \in Entries \cup {NoEntry}
      /\ entry # NoEntry => entry.ws \in Accepted \cup {0} /\ entry.kept <= entry.last
      /\ socket \in Seq(SocketStates) /\ frames \in Seq(Seq(ShellFrames))
  BY DEF WInv, ShellTyped
<1>2. socket[s] \in SocketStates
  BY <1>1, AcceptedSockets
<1>3. /\ k \in SocketStates /\ k.tab = socket[s].tab /\ k.up = socket[s].up
      /\ k.cursor = socket[s].cursor
  BY <1>2 DEF SocketStates
<1> HIDE DEF k
<1>4. /\ socket' \in Seq(SocketStates) /\ Len(socket') = Len(socket) /\ Accepted' = Accepted
      /\ socket'[s] = k /\ \A r \in Accepted \ {s} : socket'[r] = socket[r]
      /\ \A r \in Accepted : socket'[r].tab = socket[r].tab
  BY <1>1, <1>3, OneSocketChanges DEF k
<1>5. ASSUME NEW t \in Tabs, NEW r \in Accepted, Tuned(tab[t], socket[r], frames[r], entry, r)
      PROVE  Tuned(tab[t], socket'[r], frames'[r], entry', r)
  <2>1. /\ Serving(entry, r, socket'[r]) => Serving(entry, r, socket[r])
        /\ socket'[r].stage # "done" => socket[r].stage # "done" /\ socket'[r].cursor = socket[r].cursor
    BY <1>3, <1>4 DEF Serving
  <2>2. Tuned(tab[t], socket'[r], frames[r], entry, r)
    BY <1>5, <2>1, TunedSame
  <2> QED BY <2>2
<1> QED BY <1>1, <1>4, <1>5, ServingKeeps

\* The init of a socket has been handled.
LEMMA HandledSocket ==
  ASSUME WInv, NEW s \in Accepted, Handled(s)
  PROVE  /\ socket' \in Seq(SocketStates) /\ Len(socket') = Len(socket) /\ Accepted' = Accepted
         /\ socket'[s].stage = "done" /\ socket'[s].up = socket[s].up
         /\ \A r \in Accepted \ {s} : socket'[r] = socket[r]
         /\ \A r \in Accepted : socket'[r].tab = socket[r].tab
<1> DEFINE k == [socket[s] EXCEPT !.stage = "done", !.restart = FALSE, !.cursor = 0, !.seen = 0]
<1>1. socket \in Seq(SocketStates) /\ socket[s] \in SocketStates
  BY AcceptedSockets DEF WInv, ShellTyped
<1>2. ASSUME NEW no \in BOOLEAN, NEW x,
             x = [socket[s] EXCEPT !.stage = "done", !.restart = no, !.cursor = 0, !.seen = 0]
      PROVE  x \in SocketStates /\ x.tab = socket[s].tab /\ x.up = socket[s].up /\ x.stage = "done"
  <2> DEFINE k0 == socket[s]
  <2>1. 0 \in 0..MaxChunks /\ 0 \in Terminals \cup {0} /\ k0 \in SocketStates
    BY <1>1, ShellAssumption
  <2> HIDE DEF k0
  <2>2. x = [k0 EXCEPT !.stage = "done", !.restart = no, !.cursor = 0, !.seen = 0]
    BY <1>2 DEF k0
  <2>3. x \in SocketStates /\ x.tab = k0.tab /\ x.up = k0.up /\ x.stage = "done"
    BY <2>1, <2>2 DEF SocketStates
  <2> QED BY <2>3 DEF k0
<1>3. socket' = [socket EXCEPT ![s] = k]
  BY DEF Handled
<1>4. k \in SocketStates /\ k.tab = socket[s].tab /\ k.up = socket[s].up /\ k.stage = "done"
  BY <1>2
<1> HIDE DEF k
<1> QED BY <1>1, <1>3, <1>4, OneSocketChanges

LEMMA RefusesKeeps ==
  ASSUME WInv, NEW s \in Accepted, Handled(s), UNCHANGED <<entry, frames, tab>>
  PROVE  WInv'
<1>1. /\ entry \in Entries \cup {NoEntry}
      /\ entry # NoEntry => entry.ws \in Accepted \cup {0} /\ entry.kept <= entry.last
      /\ frames \in Seq(Seq(ShellFrames))
  BY DEF WInv, ShellTyped
<1>2. /\ socket' \in Seq(SocketStates) /\ Len(socket') = Len(socket) /\ Accepted' = Accepted
      /\ socket'[s].stage = "done" /\ socket'[s].up = socket[s].up
      /\ \A r \in Accepted \ {s} : socket'[r] = socket[r]
      /\ \A r \in Accepted : socket'[r].tab = socket[r].tab
  BY HandledSocket
<1>3. ASSUME NEW t \in Tabs, NEW r \in Accepted, Tuned(tab[t], socket[r], frames[r], entry, r)
      PROVE  Tuned(tab[t], socket'[r], frames'[r], entry', r)
  <2>1. /\ Serving(entry, r, socket'[r]) => Serving(entry, r, socket[r])
        /\ socket'[r].stage # "done" => socket[r].stage # "done" /\ socket'[r].cursor = socket[r].cursor
    BY <1>2 DEF Serving
  <2>2. Tuned(tab[t], socket'[r], frames[r], entry, r)
    BY <1>3, <2>1, TunedSame
  <2> QED BY <2>2
<1> QED BY <1>1, <1>2, <1>3, ServingKeeps

\* It has been handled, and the socket has the terminal.
LEMMA TakesKeeps ==
  ASSUME WInv, NEW s \in Accepted, socket[s].stage # "done", Handled(s), tab' = tab,
         entry' \in Entries, entry'.ws = s, entry'.kept <= entry'.last,
         NEW a \in Nat \ {0}, a <= entry'.last + 1, NEW start \in ShellFrames,
         Begins(start, entry'.pty, socket[s].cursor, a),
         frames' = Sent(s, <<start>> \o Chunks(entry'.pty, a, entry'.last))
  PROVE  WInv'
<1> DEFINE replay == <<start>> \o Chunks(entry'.pty, a, entry'.last)
<1>1. entry'.pty \in Terminals /\ entry'.last \in Nat /\ entry'.last <= MaxChunks
  BY ShellAssumption DEF Entries
<1>2. replay \in Seq(ShellFrames)
  BY <1>1, SomeChunks, StartFrame
<1>3. /\ socket' \in Seq(SocketStates) /\ Len(socket') = Len(socket) /\ Accepted' = Accepted
      /\ socket'[s].stage = "done" /\ socket'[s].up = socket[s].up
      /\ \A r \in Accepted \ {s} : socket'[r] = socket[r]
      /\ \A r \in Accepted : socket'[r].tab = socket[r].tab
  BY HandledSocket
<1>4. /\ frames' \in Seq(Seq(ShellFrames)) /\ Len(frames') = Len(frames)
      /\ \A r \in Accepted \ {s} : frames'[r] = frames[r]
      /\ frames'[s] = IF socket[s].up /\ tab[socket[s].tab].socket = s
                      THEN frames[s] \o replay ELSE frames[s]
  <2> HIDE DEF replay
  <2>1. frames' = Sent(s, replay)
    BY DEF replay
  <2> QED BY <1>2, <2>1, SentFrames DEF WInv
<1> HIDE DEF replay
<1>5. ASSUME NEW t \in Tabs, NEW r \in Accepted, tab[t].socket = r, socket[r].tab = t,
             Tuned(tab[t], socket[r], frames[r], entry, r)
      PROVE  Tuned(tab[t], socket'[r], frames'[r], entry', r)
  <2>1. CASE r # s
    <3>1. ~Serving(entry', r, socket'[r])
      BY <2>1 DEF Serving
    <3>2. socket'[r] = socket[r] /\ frames'[r] = frames[r]
      BY <1>3, <1>4, <2>1
    <3>3. Tuned(tab[t], socket'[r], frames[r], entry', r)
      BY <1>5, <3>1, <3>2, TunedIdle
    <3> QED BY <3>2, <3>3
  <2>2. CASE r = s /\ ~socket[s].up
    <3>1. ~Serving(entry', r, socket'[r]) /\ frames'[r] = frames[r] /\ socket'[r].stage = "done"
      BY <1>3, <1>4, <2>2 DEF Serving
    <3>2. Tuned(tab[t], socket'[r], frames[r], entry', r)
      BY <1>5, <3>1, TunedIdle
    <3> QED BY <3>1, <3>2
  <2>3. CASE r = s /\ socket[s].up
    <3>1. frames[s] = << >>
      BY <1>5, <2>3 DEF Tuned, Quiet
    <3>2. frames'[s] = replay
      <4>1. frames'[s] = << >> \o replay
        BY <1>4, <1>5, <2>3, <3>1
      <4> QED BY <1>2, <4>1, ConcatEmptySeq
    <3>3. Tuned(tab[t], socket[s], << >>, entry, s)
      BY <1>5, <2>3, <3>1
    <3>4. Tuned(tab[t], socket'[s], replay, entry', s)
      BY <1>3, <3>3, TunedTaken DEF replay
    <3> QED BY <2>3, <3>2, <3>4
  <2> QED BY <2>1, <2>2, <2>3
<1>6. entry' \in Entries \cup {NoEntry} /\ entry'.ws \in Accepted \cup {0}
  OBVIOUS
<1> QED BY <1>3, <1>4, <1>5, <1>6, ServingKeeps

\* The stages of an init that is not through.
LEMMA NotThrough ==
  ASSUME NEW s
  PROVE  /\ AtMap(s) => s \in Accepted /\ socket[s].stage # "done"
         /\ \A stage : Stands(s, stage) /\ stage # "done" => s \in Accepted /\ socket[s].stage # "done"
BY DEF AtMap, Stands

LEMMA InitBegins ==
  ASSUME WInv, NEW s \in Sockets, BeginsAsserting(s) \/ BeginsVerifying(s) \/ BeginsLeasing(s)
  PROVE  WInv'
<1> DEFINE k == socket[s]
<1>1. /\ s \in Accepted /\ k.stage # "done" /\ UNCHANGED <<entry, frames, tab>>
      /\ Current \in Terminals \cup {0}
  <2>1. entry # NoEntry => entry.pty \in Terminals
    BY DEF WInv, ShellTyped, Entries
  <2> QED BY <2>1, NotThrough DEF BeginsAsserting, BeginsVerifying, BeginsLeasing, Current
<1>2. socket \in Seq(SocketStates) /\ k \in SocketStates
  BY <1>1, AcceptedSockets DEF WInv, ShellTyped
<1>3. CASE BeginsAsserting(s)
  <2>1. k.seen \in Terminals \cup {0} /\ [k EXCEPT !.stage = "asserting"] = [k EXCEPT !.stage = "asserting", !.seen = k.seen]
    <3> HIDE DEF k
    <3> QED BY <1>2 DEF SocketStates
  <2>2. socket' = [socket EXCEPT ![s] = [k EXCEPT !.stage = "asserting"]]
    BY <1>3 DEF BeginsAsserting
  <2> QED BY <1>1, <2>1, <2>2, BeginsKeeps
<1>4. CASE BeginsVerifying(s)
  <2>1. socket' = [socket EXCEPT ![s] = [k EXCEPT !.stage = "verifying", !.seen = Current]]
    <3>1. socket' = [socket EXCEPT ![s].stage = "verifying", ![s].seen = Current]
      BY <1>4 DEF BeginsVerifying
    <3> QED BY <1>1, <3>1
  <2> QED BY <1>1, <2>1, BeginsKeeps
<1>5. CASE BeginsLeasing(s)
  <2>1. socket' = [socket EXCEPT ![s] = [k EXCEPT !.stage = "leasing", !.seen = Current]]
    <3>1. socket' = [socket EXCEPT ![s].stage = "leasing", ![s].seen = Current]
      BY <1>5 DEF BeginsLeasing
    <3> QED BY <1>1, <3>1
  <2> QED BY <1>1, <2>1, BeginsKeeps
<1> QED BY <1>3, <1>4, <1>5

\* The replay is a run of chunks that ends where the terminal does.
LEMMA ReplayIsARun ==
  ASSUME NEW s, entry \in Entries, entry.kept <= entry.last, socket[s] \in SocketStates
  PROVE  \E a \in Nat \ {0}, start \in ShellFrames :
           /\ a <= entry.last + 1
           /\ Begins(start, entry.pty, socket[s].cursor, a)
           /\ Replay(s) = <<start>> \o Chunks(entry.pty, a, entry.last)
<1> DEFINE c == socket[s].cursor
           a == IF Resumable(s) /\ c >= Oldest THEN c + 1 ELSE Oldest
           start == IF Resumable(s) THEN [kind |-> "resume", pty |-> entry.pty] ELSE [kind |-> "redraw"]
<1>1. /\ entry.last \in Nat /\ entry.kept \in Nat /\ entry.pty \in Terminals /\ c \in Nat
  BY ShellAssumption DEF Entries, SocketStates
<1>2. Oldest \in Nat \ {0} /\ Oldest <= entry.last + 1
  BY <1>1 DEF Oldest
<1>3. Resumable(s) => c <= entry.last /\ c >= Oldest - 1
  BY DEF Resumable
<1>4. a \in Nat \ {0} /\ a <= entry.last + 1 /\ (Resumable(s) => c = a - 1)
  BY <1>1, <1>2, <1>3
<1>5. start \in ShellFrames /\ Begins(start, entry.pty, c, a)
  BY <1>1, <1>4 DEF Begins, Redraw, Resume, ShellFrames
<1>6. Replay(s) = <<start>> \o [i \in 1 .. (entry.last + 1 - a) |-> Chunk(a + i - 1)]
  BY DEF Replay
<1> HIDE DEF a, start
<1>7. [i \in 1 .. (entry.last + 1 - a) |-> Chunk(a + i - 1)] = Chunks(entry.pty, a, entry.last)
  BY DEF Chunks, Chunk, Output
<1>8. Replay(s) = <<start>> \o Chunks(entry.pty, a, entry.last)
  BY <1>6, <1>7
<1> QED BY <1>4, <1>5, <1>8

LEMMA ReattachKeepsW == ASSUME WInv, NEW s \in Sockets, Reattaches(s) PROVE WInv'
<1>1. s \in Accepted /\ socket[s].stage # "done" /\ Handled(s) /\ tab' = tab
  BY NotThrough DEF Reattaches
<1>2. entry \in Entries /\ entry.kept <= entry.last
  BY DEF Reattaches, Fresh, WInv, ShellTyped
<1>3. socket[s] \in SocketStates
  BY <1>1, AcceptedSockets DEF WInv, ShellTyped
<1>4. /\ entry' \in Entries /\ entry'.ws = s /\ entry'.pty = entry.pty /\ entry'.last = entry.last
      /\ entry'.kept = entry.kept
  <2>1. entry' = [entry EXCEPT !.ws = s, !.timer = FALSE]
    BY DEF Reattaches, Taken
  <2>2. ASSUME NEW no \in BOOLEAN, NEW d, d = [entry EXCEPT !.ws = s, !.timer = no]
        PROVE  /\ d \in Entries /\ d.ws = s /\ d.pty = entry.pty /\ d.last = entry.last
               /\ d.kept = entry.kept
    BY <1>2, <2>2 DEF Entries
  <2> QED BY <2>1, <2>2
<1>5. PICK a \in Nat \ {0}, start \in ShellFrames :
        /\ a <= entry.last + 1
        /\ Begins(start, entry.pty, socket[s].cursor, a)
        /\ Replay(s) = <<start>> \o Chunks(entry.pty, a, entry.last)
  BY <1>2, <1>3, ReplayIsARun
<1>6. frames' = Sent(s, Replay(s))
  BY DEF Reattaches
<1>7. /\ entry'.kept <= entry'.last /\ a <= entry'.last + 1
      /\ Begins(start, entry'.pty, socket[s].cursor, a)
      /\ frames' = Sent(s, <<start>> \o Chunks(entry'.pty, a, entry'.last))
  BY <1>2, <1>4, <1>5, <1>6
<1> QED BY <1>1, <1>4, <1>7, TakesKeeps

LEMMA SpawnKeepsW == ASSUME WInv, NEW s \in Sockets, SpawnsTerminal(s) PROVE WInv'
<1>1. s \in Accepted /\ socket[s].stage # "done" /\ Handled(s) /\ tab' = tab
  BY NotThrough DEF SpawnsTerminal
<1>2. PICK p \in Terminals : entry' = [pty |-> p, ws |-> s, last |-> 0, kept |-> 0, timer |-> FALSE]
  BY DEF SpawnsTerminal
<1>3. /\ entry' \in Entries /\ entry'.pty = p /\ entry'.ws = s /\ entry'.last = 0 /\ entry'.kept = 0
  BY <1>2, ShellAssumption DEF Entries
<1>4. Redraw \in ShellFrames
  BY DEF ShellFrames
<1>5. <<Redraw>> \o Chunks(p, 1, 0) = <<Redraw>>
  <2>1. Chunks(p, 1, 0) = << >> /\ <<Redraw>> \in Seq(ShellFrames)
    BY <1>4, NoChunks
  <2> QED BY <2>1, ConcatEmptySeq
<1>6. frames' = Sent(s, <<Redraw>>)
  BY DEF SpawnsTerminal, Redraw
<1>7. entry'.kept <= entry'.last /\ 1 \in Nat \ {0} /\ 1 <= entry'.last + 1
  BY <1>3
<1>8. frames' = Sent(s, <<Redraw>> \o Chunks(entry'.pty, 1, entry'.last))
  BY <1>3, <1>5, <1>6, Zenon
<1>9. Begins(Redraw, entry'.pty, socket[s].cursor, 1)
  BY DEF Begins
<1> QED BY <1>1, <1>3, <1>4, <1>7, <1>8, <1>9, TakesKeeps

LEMMA RefusesInitKeeps == ASSUME WInv, NEW s \in Sockets, RefusesInit(s) PROVE WInv'
<1>1. s \in Accepted /\ Handled(s) /\ UNCHANGED <<entry, frames, tab>>
  BY NotThrough DEF RefusesInit
<1> QED BY <1>1, RefusesKeeps

LEMMA SpeaksKeepsW == ASSUME WInv, NEW p \in Terminals, TerminalSpeaks(p) PROVE WInv'
<1>1. /\ entry # NoEntry /\ entry \in Entries /\ entry.last < MaxChunks /\ entry.kept <= entry.last
      /\ entry.ws \in Accepted \cup {0} /\ UNCHANGED <<socket, tab>> /\ Accepted' = Accepted
      /\ socket \in Seq(SocketStates) /\ frames \in Seq(Seq(ShellFrames))
  BY DEF TerminalSpeaks, WInv, ShellTyped, Accepted
<1>2. /\ entry' \in Entries /\ entry'.pty = entry.pty /\ entry'.ws = entry.ws
      /\ entry'.last = entry.last + 1 /\ entry'.kept <= entry'.last
  <2> DEFINE kept == IF entry.kept < BufferSize THEN entry.kept + 1 ELSE entry.kept
  <2>1. entry' = [entry EXCEPT !.last = @ + 1, !.kept = kept]
    BY DEF TerminalSpeaks
  <2>2. /\ entry.last + 1 \in 0..MaxChunks /\ kept \in 0..BufferSize /\ kept <= entry.last + 1
    BY <1>1, ShellAssumption DEF Entries
  <2> HIDE DEF kept
  <2> QED BY <1>1, <2>1, <2>2 DEF Entries
<1> DEFINE c == <<Output(entry.pty, entry.last + 1)>>
<1>3. c \in Seq(ShellFrames)
  <2>1. entry.last + 1 \in 1..MaxChunks /\ entry.pty \in Terminals
    BY <1>1, ShellAssumption DEF Entries
  <2>2. Output(entry.pty, entry.last + 1) \in ShellFrames
    BY <2>1 DEF ShellFrames
  <2> QED BY <2>2
<1>4. frames' = IF entry.ws = 0 THEN frames ELSE Sent(entry.ws, c)
  BY DEF TerminalSpeaks, Chunk, Output
<1> HIDE DEF c
<1>5. /\ frames' \in Seq(Seq(ShellFrames)) /\ Len(frames') = Len(frames)
      /\ \A r \in Accepted : r # entry.ws => frames'[r] = frames[r]
      /\ entry.ws # 0 => frames'[entry.ws] =
           IF socket[entry.ws].up /\ tab[socket[entry.ws].tab].socket = entry.ws
           THEN frames[entry.ws] \o c ELSE frames[entry.ws]
  <2>1. CASE entry.ws = 0
    BY <1>1, <1>4, <2>1
  <2>2. CASE entry.ws # 0
    <3> DEFINE s == entry.ws
    <3>1. s \in Accepted /\ frames' = Sent(s, c) /\ ShellTyped
      BY <1>1, <1>4, <2>2 DEF WInv
    <3> HIDE DEF s
    <3>2. /\ frames' \in Seq(Seq(ShellFrames)) /\ Len(frames') = Len(frames)
          /\ \A r \in Accepted \ {s} : frames'[r] = frames[r]
          /\ frames'[s] = IF socket[s].up /\ tab[socket[s].tab].socket = s
                          THEN frames[s] \o c ELSE frames[s]
      BY <1>3, <3>1, SentFrames
    <3> QED BY <3>2 DEF s
  <2> QED BY <2>1, <2>2
<1>6. ASSUME NEW t \in Tabs, NEW r \in Accepted, tab[t].socket = r, socket[r].tab = t,
             Tuned(tab[t], socket[r], frames[r], entry, r)
      PROVE  Tuned(tab[t], socket'[r], frames'[r], entry', r)
  <2>1. frames'[r] = IF Serving(entry, r, socket[r])
                     THEN frames[r] \o <<Output(entry.pty, entry.last + 1)>> ELSE frames[r]
    <3>1. r # 0
      BY <1>1, AcceptedSockets
    <3> QED BY <1>1, <1>5, <1>6, <3>1 DEF Serving, c
  <2>2. Tuned(tab[t], socket[r], frames'[r], entry', r)
    BY <1>1, <1>2, <1>6, <2>1, TunedSpoken
  <2> QED BY <1>1, <2>2
<1> QED BY <1>1, <1>2, <1>5, <1>6, ServingKeeps

LEMMA GoneKeepsW ==
  ASSUME WInv, entry' = NoEntry \/ entry' = entry, UNCHANGED <<socket, frames, tab>>
  PROVE  WInv'
<1>1. /\ entry \in Entries \cup {NoEntry} /\ Accepted' = Accepted
      /\ entry # NoEntry => entry.ws \in Accepted \cup {0} /\ entry.kept <= entry.last
      /\ socket \in Seq(SocketStates) /\ frames \in Seq(Seq(ShellFrames))
  BY DEF WInv, ShellTyped, Accepted
<1>2. ASSUME NEW t \in Tabs, NEW r \in Accepted, Tuned(tab[t], socket[r], frames[r], entry, r)
      PROVE  Tuned(tab[t], socket'[r], frames'[r], entry', r)
  <2>1. Serving(entry', r, socket[r]) => entry' = entry
    BY DEF Serving
  <2>2. Tuned(tab[t], socket[r], frames[r], entry', r)
    BY <1>2, <2>1, TunedSame, TunedIdle
  <2> QED BY <2>2
<1> QED BY <1>1, <1>2, ServingKeeps

LEMMA ClosesKeepsW == ASSUME WInv, NEW s \in Sockets, SocketCloses(s) PROVE WInv'
<1>1. /\ s \in Accepted /\ UNCHANGED <<frames, tab>>
      /\ entry' = IF entry # NoEntry /\ entry.ws = s THEN [entry EXCEPT !.ws = 0, !.timer = TRUE] ELSE entry
  BY DEF SocketCloses
<1>2. /\ entry \in Entries \cup {NoEntry}
      /\ entry # NoEntry => entry.ws \in Accepted \cup {0} /\ entry.kept <= entry.last
      /\ socket \in Seq(SocketStates) /\ frames \in Seq(Seq(ShellFrames)) /\ socket[s] \in SocketStates
      /\ 0 \notin Accepted
  BY <1>1, AcceptedSockets DEF WInv, ShellTyped
<1> DEFINE stage == IF socket[s].stage = "sent" THEN "done" ELSE socket[s].stage
           k == [socket[s] EXCEPT !.up = FALSE, !.stage = stage]
<1>3. ASSUME NEW no \in BOOLEAN, NEW x, x = [socket[s] EXCEPT !.up = no, !.stage = stage]
      PROVE  /\ x \in SocketStates /\ x.tab = socket[s].tab /\ x.up = no /\ x.cursor = socket[s].cursor
             /\ (x.stage # "done" => socket[s].stage # "done")
  <2> DEFINE y == socket[s]
  <2>1. y \in SocketStates /\ x = [y EXCEPT !.up = no, !.stage = IF y.stage = "sent" THEN "done" ELSE y.stage]
    BY <1>2, <1>3
  <2> HIDE DEF y
  <2>2. /\ x \in SocketStates /\ x.tab = y.tab /\ x.up = no /\ x.cursor = y.cursor
        /\ x.stage # "done" => y.stage # "done"
    BY <2>1 DEF SocketStates
  <2> QED BY <2>2 DEF y
<1>4. socket' = [socket EXCEPT ![s] = k]
  BY DEF SocketCloses
<1> HIDE DEF stage
<1>5. /\ k \in SocketStates /\ k.tab = socket[s].tab /\ ~k.up /\ k.cursor = socket[s].cursor
      /\ k.stage # "done" => socket[s].stage # "done"
  <2>1. FALSE \in BOOLEAN
    OBVIOUS
  <2> QED BY <1>3, <2>1
<1> HIDE DEF k
<1>6. /\ socket' \in Seq(SocketStates) /\ Len(socket') = Len(socket) /\ Accepted' = Accepted
      /\ socket'[s] = k /\ \A r \in Accepted \ {s} : socket'[r] = socket[r]
      /\ \A r \in Accepted : socket'[r].tab = socket[r].tab
  BY <1>1, <1>2, <1>4, <1>5, OneSocketChanges
<1>7. /\ entry' \in Entries \cup {NoEntry}
      /\ entry' # NoEntry => entry'.ws \in Accepted \cup {0} /\ entry'.kept <= entry'.last
      /\ entry' = entry \/ entry'.ws = 0
  <2>1. ASSUME NEW yes \in BOOLEAN, entry \in Entries, NEW x, x = [entry EXCEPT !.ws = 0, !.timer = yes]
        PROVE  /\ x \in Entries /\ x.ws = 0 /\ x.kept = entry.kept /\ x.last = entry.last
    BY <2>1 DEF Entries
  <2>2. CASE entry # NoEntry /\ entry.ws = s
    <3>1. entry' \in Entries /\ entry'.ws = 0 /\ entry'.kept = entry.kept /\ entry'.last = entry.last
      BY <1>1, <1>2, <2>1, <2>2
    <3> QED BY <1>2, <2>2, <3>1
  <2>3. CASE ~(entry # NoEntry /\ entry.ws = s)
    BY <1>1, <1>2, <2>3
  <2> QED BY <2>2, <2>3
<1>8. ASSUME NEW t \in Tabs, NEW r \in Accepted, Tuned(tab[t], socket[r], frames[r], entry, r)
      PROVE  Tuned(tab[t], socket'[r], frames'[r], entry', r)
  <2>1. /\ Serving(entry', r, socket'[r]) => Serving(entry, r, socket[r]) /\ entry' = entry
        /\ socket'[r].stage # "done" => socket[r].stage # "done" /\ socket'[r].cursor = socket[r].cursor
    BY <1>2, <1>5, <1>6, <1>7 DEF Serving
  <2>2. Tuned(tab[t], socket'[r], frames[r], entry', r)
    BY <1>8, <2>1, TunedSame
  <2> QED BY <1>1, <2>2
<1> QED BY <1>1, <1>2, <1>6, <1>7, <1>8, ServingKeeps

-----------------------------------------------------------------------------
(* The tabs' steps: of the others' nothing changes.                           *)

LEMMA TabKeeps ==
  ASSUME WInv, NEW t \in Tabs, NEW s, s = tab[t].socket, s # 0, UNCHANGED <<entry, socket>>,
         NEW w \in TabStates, Screen(w), tab' = [tab EXCEPT ![t] = w],
         NEW q \in Seq(ShellFrames), frames' = [frames EXCEPT ![s] = q],
         w.socket = 0 \/ (w.socket = s /\ Tuned(w, socket[s], q, entry, s))
  PROVE  WInv'
<1>1. /\ tab \in [Tabs -> TabStates] /\ frames \in Seq(Seq(ShellFrames)) /\ socket \in Seq(SocketStates)
      /\ Accepted = 1..Len(frames) /\ Accepted' = Accepted
      /\ s \in Accepted /\ socket[s].tab = t
  BY AcceptedSockets DEF WInv, ShellTyped, Attached, Accepted
<1>2. /\ frames' \in Seq(Seq(ShellFrames)) /\ Len(frames') = Len(frames)
      /\ \A j \in 1..Len(frames) : frames'[j] = IF j = s THEN q ELSE frames[j]
  BY <1>1, ExceptSeq
<1>3. /\ tab' \in [Tabs -> TabStates] /\ tab'[t] = w /\ \A u \in Tabs \ {t} : tab'[u] = tab[u]
  BY <1>1
<1>4. ShellTyped'
  BY <1>1, <1>2, <1>3 DEF WInv, ShellTyped
<1>5. ASSUME NEW u \in Tabs PROVE Screen(tab[u])' /\ Attached(u)'
  <2>1. CASE u = t
    <3>1. Screen(tab'[u])
      BY <1>3, <2>1
    <3>2. CASE w.socket = 0
      BY <1>3, <2>1, <3>1, <3>2 DEF Screen, Attached
    <3>3. CASE w.socket = s /\ Tuned(w, socket[s], q, entry, s)
      <4>1. tab'[u] = w /\ tab'[u].socket = s /\ frames'[s] = q /\ socket' = socket /\ entry' = entry
        BY <1>1, <1>2, <1>3, <2>1, <3>3
      <4>2. Tuned(tab'[u], socket'[s], frames'[s], entry', s)
        BY <3>3, <4>1
      <4>3. Attached(u)'
        BY <1>1, <2>1, <4>1, <4>2 DEF Attached
      <4> QED BY <3>1, <4>3 DEF Screen
    <3> QED BY <3>2, <3>3
  <2>2. CASE u # t
    <3>1. tab'[u] = tab[u] /\ Screen(tab[u]) /\ Attached(u)
      BY <1>3, <2>2 DEF WInv
    <3>2. ASSUME tab[u].socket # 0
          PROVE  /\ tab[u].socket \in Accepted /\ socket[tab[u].socket].tab = u
                 /\ frames'[tab[u].socket] = frames[tab[u].socket]
      <4>1. tab[u].socket \in Accepted /\ socket[tab[u].socket].tab = u
        BY <3>1, <3>2 DEF Attached
      <4>2. tab[u].socket # s
        BY <1>1, <2>2, <4>1
      <4> QED BY <1>1, <1>2, <4>1, <4>2
    <3>3. Screen(tab[u])'
      BY <3>1 DEF Screen
    <3>4. Attached(u)'
      BY <1>1, <3>1, <3>2 DEF Attached
    <3> QED BY <3>3, <3>4
  <2> QED BY <2>1, <2>2
<1> QED BY <1>4, <1>5 DEF WInv

LEMMA LeavesKeep ==
  ASSUME WInv, NEW t \in Tabs, LosesSocket(t) \/ \E restarting \in BOOLEAN : Disconnects(t, restarting)
  PROVE  WInv'
<1> DEFINE v == tab[t]
<1>1. v \in TabStates /\ Screen(v) /\ tab \in [Tabs -> TabStates]
  BY DEF WInv, ShellTyped
<1>2. v.socket # 0 /\ UNCHANGED <<entry, socket>> /\ frames' = [frames EXCEPT ![v.socket] = << >>]
  BY DEF LosesSocket, Disconnects, Leaving
<1>3. << >> \in Seq(ShellFrames)
  BY EmptySeq
<1>4. CASE LosesSocket(t)
  <2> DEFINE w == [v EXCEPT !.socket = 0]
  <2>1. tab' = [tab EXCEPT ![t] = w]
    BY <1>4 DEF LosesSocket
  <2>2. /\ w \in TabStates /\ w.socket = 0 /\ w.shown = v.shown /\ w.from = v.from
        /\ w.cursor = v.cursor /\ w.astray = v.astray /\ w.restarting = v.restarting
    <3> HIDE DEF v
    <3> QED BY <1>1 DEF TabStates
  <2> HIDE DEF w
  <2>3. Screen(w)
    BY <1>1, <2>2 DEF Screen
  <2> QED BY <1>2, <1>3, <2>1, <2>2, <2>3, TabKeeps
<1>5. ASSUME NEW restarting \in BOOLEAN, Disconnects(t, restarting) PROVE WInv'
  <2> DEFINE w == [v EXCEPT !.socket = 0, !.shown = << >>, !.restarting = restarting]
  <2>1. tab' = [tab EXCEPT ![t] = w]
    <3>1. tab' = [tab EXCEPT ![t].socket = 0, ![t].shown = << >>, ![t].restarting = restarting]
      BY <1>5 DEF Disconnects
    <3> QED BY <1>1, <3>1
  <2>2. << >> \in Seq([pty : Terminals, seq : 1..MaxChunks]) /\ Contiguous(<< >>)
    BY NothingShown
  <2>3. w \in TabStates /\ w.socket = 0 /\ w.shown = << >>
    <3> HIDE DEF v
    <3> QED BY <1>1, <2>2 DEF TabStates
  <2> HIDE DEF w
  <2>4. Screen(w)
    BY <2>2, <2>3 DEF Screen
  <2> QED BY <1>2, <1>3, <2>1, <2>3, <2>4, TabKeeps
<1> QED BY <1>4, <1>5

LEMMA ReceivesKeepsW == ASSUME WInv, NEW t \in Tabs, ReceivesFrame(t) PROVE WInv'
<1> DEFINE v == tab[t]
           s == v.socket
           q == frames[s]
           w == Shows(v, Head(q))
<1>1. /\ v \in TabStates /\ Screen(v) /\ s # 0 /\ q # << >> /\ UNCHANGED <<entry, socket>>
      /\ frames' = [frames EXCEPT ![s] = Tail(q)] /\ tab' = [tab EXCEPT ![t] = w]
  BY DEF ReceivesFrame, WInv, ShellTyped
<1>2. s \in Accepted /\ Tuned(v, socket[s], q, entry, s)
  BY <1>1 DEF WInv, Attached
<1>3. Tail(q) \in Seq(ShellFrames)
  <2>1. frames \in Seq(Seq(ShellFrames)) /\ s \in 1..Len(frames)
    BY <1>2, AcceptedSockets DEF WInv, ShellTyped
  <2>2. q \in Seq(ShellFrames)
    BY <2>1, ElementOfSeq
  <2> QED BY <1>1, <2>2, HeadTailProperties
<1>4. s = tab[t].socket
  OBVIOUS
<1> HIDE DEF v, s, q
<1>5. /\ w \in TabStates /\ Screen(w) /\ w.socket = v.socket /\ Tuned(w, socket[s], Tail(q), entry, s)
  BY <1>1, <1>2, TunedShown DEF s
<1> HIDE DEF w
<1>6. w.socket = s
  BY <1>5 DEF s
<1> QED BY <1>1, <1>3, <1>4, <1>5, <1>6, TabKeeps

LEMMA ConnectsKeepW == ASSUME WInv, NEW t \in Tabs, ShellConnects(t) PROVE WInv'
<1> DEFINE n == Len(socket)
           s == n + 1
           v == tab[t]
           cursor == IF v.restarting THEN 0 ELSE v.cursor
           k == [tab |-> t, up |-> TRUE, restart |-> v.restarting, cursor |-> cursor,
                 stage |-> "sent", seen |-> 0]
           w == [v EXCEPT !.socket = s, !.restarting = FALSE, !.cursor = cursor]
<1>1. /\ v.socket = 0 /\ s \in Sockets /\ socket' = Append(socket, k) /\ frames' = Append(frames, << >>)
      /\ UNCHANGED entry
  BY DEF ShellConnects
<1>2. /\ v \in TabStates /\ Screen(v) /\ tab \in [Tabs -> TabStates] /\ entry \in Entries \cup {NoEntry}
      /\ entry # NoEntry => entry.ws \in Accepted \cup {0} /\ entry.kept <= entry.last
      /\ socket \in Seq(SocketStates) /\ frames \in Seq(Seq(ShellFrames)) /\ Len(frames) = n
  BY DEF WInv, ShellTyped
<1>3. /\ Accepted = 1..n /\ n \in Nat /\ s \notin Accepted /\ s # 0
  BY <1>2, AcceptedSockets
<1>4. cursor \in 0..MaxChunks /\ v.restarting \in BOOLEAN
  BY <1>2, ViewFields, ShellAssumption
<1>5. tab' = [tab EXCEPT ![t] = w]
  <2>1. tab' = [tab EXCEPT ![t].socket = s, ![t].restarting = FALSE, ![t].cursor = cursor]
    BY DEF ShellConnects
  <2> QED BY <1>2, <2>1
<1>6. k \in SocketStates /\ k.tab = t /\ k.cursor = cursor /\ k.stage = "sent"
  <2> DEFINE r == v.restarting
  <2>1. r \in BOOLEAN /\ k = [tab |-> t, up |-> TRUE, restart |-> r, cursor |-> cursor,
                              stage |-> "sent", seen |-> 0]
    BY <1>4
  <2> HIDE DEF r, cursor
  <2> QED BY <1>4, <2>1 DEF SocketStates
<1>7. /\ w \in TabStates /\ w.socket = s /\ w.cursor = cursor /\ w.shown = v.shown /\ w.from = v.from
      /\ w.astray = v.astray /\ ~w.restarting
  <2> DEFINE c == cursor
  <2>1. ASSUME NEW no \in BOOLEAN, NEW x, x = [v EXCEPT !.socket = s, !.restarting = no, !.cursor = c]
        PROVE  /\ x \in TabStates /\ x.socket = s /\ x.cursor = c /\ x.shown = v.shown
               /\ x.from = v.from /\ x.astray = v.astray /\ x.restarting = no
    <3> HIDE DEF v, c, s
    <3> QED BY <1>1, <1>2, <1>4, <2>1 DEF TabStates, c
  <2>2. FALSE \in BOOLEAN /\ w = [v EXCEPT !.socket = s, !.restarting = FALSE, !.cursor = c]
    OBVIOUS
  <2> HIDE DEF w, v, c, s
  <2>3. /\ w \in TabStates /\ w.socket = s /\ w.cursor = c /\ w.shown = v.shown
        /\ w.from = v.from /\ w.astray = v.astray /\ w.restarting = FALSE
    BY ONLY <2>1, <2>2
  <2> QED BY <2>3 DEF c
<1> HIDE DEF k, w
<1>8. Screen(w)
  BY <1>2, <1>7 DEF Screen
<1>9. /\ socket' \in Seq(SocketStates) /\ Len(socket') = s /\ socket'[s] = k
      /\ \A r \in 1..n : socket'[r] = socket[r]
  BY <1>1, <1>2, <1>3, <1>6, AppendProperties
<1>10. /\ frames' \in Seq(Seq(ShellFrames)) /\ Len(frames') = s /\ frames'[s] = << >>
       /\ \A r \in 1..n : frames'[r] = frames[r]
  <2>1. << >> \in Seq(ShellFrames)
    BY EmptySeq
  <2> QED BY <1>1, <1>2, <1>3, <2>1, AppendProperties
<1>11. Accepted' = 1..s
  BY <1>9, LenProperties DEF Accepted
<1>12. /\ tab' \in [Tabs -> TabStates] /\ tab'[t] = w /\ \A u \in Tabs \ {t} : tab'[u] = tab[u]
  BY <1>2, <1>5, <1>7
<1>13. ShellTyped'
  BY <1>1, <1>2, <1>3, <1>9, <1>10, <1>11, <1>12 DEF ShellTyped
<1>14. Screen(tab[t])' /\ Attached(t)'
  <2>1. Screen(tab'[t]) /\ tab'[t].socket = s /\ s \in Accepted' /\ socket'[s].tab = t
    BY <1>3, <1>6, <1>7, <1>8, <1>9, <1>11, <1>12
  <2>2. Tuned(w, k, << >>, entry, s)
    BY <1>2, <1>3, <1>6, <1>7 DEF Tuned, Quiet, Serving
  <2>3. Tuned(tab'[t], socket'[s], frames'[s], entry', s)
    BY <1>1, <1>9, <1>10, <1>12, <2>2
  <2> HIDE DEF s
  <2> QED BY <2>1, <2>3 DEF Attached, Screen
<1>15. ASSUME NEW u \in Tabs, u # t PROVE Screen(tab[u])' /\ Attached(u)'
  <2>1. tab'[u] = tab[u] /\ Screen(tab[u]) /\ Attached(u)
    BY <1>12, <1>15 DEF WInv
  <2>2. Screen(tab[u])'
    BY <2>1 DEF Screen
  <2>3. Attached(u)'
    <3>1. CASE tab[u].socket = 0
      BY <2>1, <3>1 DEF Attached
    <3>2. CASE tab[u].socket # 0
      <4> DEFINE r == tab[u].socket
      <4>1. r \in 1..n /\ r \in Accepted' /\ socket[r].tab = u /\ Tuned(tab[u], socket[r], frames[r], entry, r)
        BY <1>3, <1>11, <2>1, <3>2 DEF Attached
      <4>2. tab'[u].socket = r /\ socket'[r] = socket[r] /\ frames'[r] = frames[r] /\ entry' = entry
        BY <1>1, <1>9, <1>10, <2>1, <4>1
      <4>3. Tuned(tab'[u], socket'[r], frames'[r], entry', r)
        BY <2>1, <4>1, <4>2
      <4> HIDE DEF r
      <4> QED BY <4>1, <4>2, <4>3 DEF Attached
    <3> QED BY <3>1, <3>2
  <2> QED BY <2>2, <2>3
<1> QED BY <1>13, <1>14, <1>15 DEF WInv

-----------------------------------------------------------------------------
LEMMA InitWInv == ShellInit => WInv
<1> SUFFICES ASSUME ShellInit PROVE WInv
  OBVIOUS
<1>1. /\ entry = NoEntry /\ socket = << >> /\ frames = << >>
      /\ tab = [t \in Tabs |-> [socket |-> 0, restarting |-> FALSE, cursor |-> 0, from |-> 0,
                                shown |-> << >>, astray |-> FALSE]]
  BY DEF ShellInit
<1>2. << >> \in Seq([pty : Terminals, seq : 1..MaxChunks]) /\ Contiguous(<< >>)
  BY NothingShown
<1>3. \A t \in Tabs : tab[t] \in TabStates /\ tab[t].socket = 0 /\ tab[t].shown = << >> /\ ~tab[t].restarting
  <2>1. ASSUME NEW no \in BOOLEAN, NEW x,
               x = [socket |-> 0, restarting |-> no, cursor |-> 0, from |-> 0,
                    shown |-> << >>, astray |-> no]
        PROVE  x \in TabStates /\ x.socket = 0 /\ x.shown = << >> /\ x.restarting = no
    <3>1. 0 \in 0..MaxChunks /\ 0 \in Sockets \cup {0} /\ 0 \in Terminals \cup {0}
      BY ShellAssumption
    <3> QED BY <1>2, <2>1, <3>1 DEF TabStates
  <2>2. FALSE \in BOOLEAN
    OBVIOUS
  <2> QED BY <1>1, <2>1, <2>2
<1>4. tab \in [Tabs -> TabStates]
  BY <1>1, <1>3
<1>5. << >> \in Seq(SocketStates) /\ << >> \in Seq(Seq(ShellFrames))
  BY EmptySeq
<1>6. ShellTyped
  BY <1>1, <1>4, <1>5 DEF ShellTyped
<1>7. \A t \in Tabs : Screen(tab[t]) /\ Attached(t)
  BY <1>2, <1>3 DEF Screen, Attached
<1> QED BY <1>6, <1>7 DEF WInv

LEMMA StepKeepsWInv == WInv /\ [ShellStep]_shellvars => WInv'
<1> SUFFICES ASSUME WInv, [ShellStep]_shellvars PROVE WInv'
  OBVIOUS
<1>1. ASSUME NEW t \in Tabs,
             \/ ShellConnects(t) \/ LosesSocket(t) \/ ReceivesFrame(t)
             \/ \E restarting \in BOOLEAN : Disconnects(t, restarting)
      PROVE  WInv'
  BY <1>1, ConnectsKeepW, LeavesKeep, ReceivesKeepsW
<1>2. ASSUME NEW s \in Sockets,
             \/ BeginsAsserting(s) \/ BeginsVerifying(s) \/ BeginsLeasing(s)
             \/ Reattaches(s) \/ SpawnsTerminal(s) \/ RefusesInit(s) \/ SocketCloses(s)
      PROVE  WInv'
  BY <1>2, InitBegins, ReattachKeepsW, SpawnKeepsW, RefusesInitKeeps, ClosesKeepsW
<1>3. ASSUME NEW p \in Terminals, TerminalSpeaks(p) PROVE WInv'
  BY <1>3, SpeaksKeepsW
<1>4. CASE (\E p \in Terminals : TerminalExits(p)) \/ TimesOut \/ UNCHANGED shellvars
  BY <1>4, GoneKeepsW DEF TerminalExits, TimesOut, shellvars
<1> QED BY <1>1, <1>2, <1>3, <1>4 DEF ShellStep

(* The screen of a tab has no gap and nothing twice, whoever took the terminal *)
(* over in between (the replay and the resume of shell-websocket.service.ts   *)
(* and useShellConnection.ts).                                               *)
THEOREM ScreensAreWhole == ShellSpec => []ScreenIsWhole
<1>1. WInv => ScreenIsWhole
  <2> SUFFICES ASSUME WInv, NEW t \in Tabs, ~tab[t].astray
               PROVE  /\ Contiguous(tab[t].shown)
                      /\ /\ tab[t].shown # << >> /\ tab[t].socket # 0 /\ entry # NoEntry
                         /\ entry.ws = tab[t].socket /\ socket[tab[t].socket].up
                         /\ frames[tab[t].socket] = << >>
                         => tab[t].shown[Len(tab[t].shown)] = [pty |-> entry.pty, seq |-> entry.last]
    BY DEF ScreenIsWhole, Contiguous
  <2> DEFINE v == tab[t]
             s == v.socket
  <2>1. Screen(v) /\ Attached(t)
    BY DEF WInv
  <2>2. Contiguous(v.shown)
    BY <2>1 DEF Screen
  <2>3. ASSUME v.shown # << >>, s # 0, entry # NoEntry, entry.ws = s, socket[s].up, frames[s] = << >>
        PROVE  v.shown[Len(v.shown)] = [pty |-> entry.pty, seq |-> entry.last]
    <3>1. Serving(entry, s, socket[s]) /\ Tuned(v, socket[s], << >>, entry, s)
      BY <2>1, <2>3 DEF Serving, Attached
    <3>2. PICK p \in Terminals, a \in Nat \ {0}, b \in Nat : Coming(v, socket[s], << >>, entry, s, p, a, b)
      BY <3>1 DEF Tuned, Quiet
    <3>3. a <= b + 1 /\ b <= MaxChunks /\ entry.pty = p /\ entry.last = b
      BY <3>1, <3>2 DEF Coming
    <3>4. /\ Chunks(p, a, b) \in Seq(ShellFrames) /\ Redraw \in ShellFrames /\ Resume(p) \in ShellFrames
      BY <3>3, SomeChunks DEF ShellFrames
    <3>5. <<Redraw>> \o Chunks(p, a, b) # << >> /\ <<Resume(p)>> \o Chunks(p, a, b) # << >>
      BY <3>4, StartFrame
    <3>6. << >> = Chunks(p, a, b) /\ Behind(v, p, a)
      BY <3>2, <3>5 DEF Coming
    <3>7. ~(a <= b)
      BY <3>3, <3>6, FirstChunk
    <3>8. v.from = p /\ v.cursor = a - 1 /\ a - 1 = b
      BY <2>3, <3>3, <3>6, <3>7 DEF Behind
    <3> QED BY <2>1, <2>3, <3>3, <3>8 DEF Screen
  <2> QED BY <2>2, <2>3
<1> QED BY <1>1, InitWInv, StepKeepsWInv, PTL DEF ShellSpec

=============================================================================
