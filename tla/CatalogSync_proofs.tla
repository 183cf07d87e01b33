-------------------------- MODULE CatalogSync_proofs --------------------------
(***************************************************************************)
(* For every number of rows, changes, processes, connections and faults:    *)
(* what the hub shows as live comes from the peer it talks to, its copy is  *)
(* a version the peer published and never an older one than before, and     *)
(* what has been published since is on its way to it.                       *)
(***************************************************************************)
EXTENDS CatalogSync, TLAPS, SequenceTheorems, WellFoundedInduction, FiniteSetTheorems

-----------------------------------------------------------------------------
(* Sequences of frames, of whatever rows.                                     *)

IsSeq(s) == \E S : s \in Seq(S)
Silent(s) == \A i \in DOMAIN s : s[i].kind # "heartbeat"

LEMMA EmptyIsSeq == IsSeq(<<>>) /\ Silent(<<>>) /\ DOMAIN <<>> = {}
<1>1. <<>> \in Seq({})
  BY EmptySeq
<1>2. DOMAIN <<>> = {}
  OBVIOUS
<1> QED
  BY <1>1, <1>2 DEF IsSeq, Silent

LEMMA OneFrame ==
  ASSUME NEW f PROVE IsSeq(<<f>>) /\ <<f>> # <<>> /\ <<f>>[1] = f /\ DOMAIN <<f>> = {1}
<1>1. <<f>> \in Seq({f})
  OBVIOUS
<1>2. Len(<<f>>) = 1 /\ <<f>>[1] = f
  OBVIOUS
<1>3. DOMAIN <<f>> = 1..1 /\ <<f>> # <<>>
  BY <1>1, <1>2, LenProperties, EmptySeq
<1>4. 1..1 = {1}
  OBVIOUS
<1>5. IsSeq(<<f>>)
  BY <1>1 DEF IsSeq
<1> QED
  BY <1>2, <1>3, <1>4, <1>5

(* u is s with t behind it, as far as heartbeats and the first frame go.       *)
Joined(s, t, u) ==
  /\ IsSeq(u)
  /\ s # <<>> => u # <<>> /\ u[1] = s[1]
  /\ s = <<>> /\ t = <<>> => u = <<>>
  /\ \A i \in DOMAIN u : \/ i \in DOMAIN s /\ u[i] = s[i]
                        \/ \E j \in DOMAIN t : u[i] = t[j]

LEMMA Concatenated ==
  ASSUME NEW s, NEW t, IsSeq(s), IsSeq(t) PROVE Joined(s, t, s \o t)
<1>1. PICK S : s \in Seq(S)
  BY DEF IsSeq
<1>2. PICK T : t \in Seq(T)
  BY DEF IsSeq
<1> DEFINE U == S \cup T
<1>3. s \in Seq(U) /\ t \in Seq(U)
  BY <1>1, <1>2
<1> HIDE DEF U
<1>4. /\ s \o t \in Seq(U)
      /\ Len(s \o t) = Len(s) + Len(t)
      /\ \A i \in 1 .. Len(s) + Len(t) : (s \o t)[i] =
            IF i <= Len(s) THEN s[i] ELSE t[i - Len(s)]
  BY <1>3, ConcatProperties
<1>5. /\ Len(s) \in Nat /\ DOMAIN s = 1..Len(s)
      /\ Len(t) \in Nat /\ DOMAIN t = 1..Len(t)
      /\ DOMAIN (s \o t) = 1..(Len(s) + Len(t))
  BY <1>3, <1>4, LenProperties
<1>6. s # <<>> => Len(s) >= 1
  BY <1>3, EmptySeq
<1>7. s # <<>> => s \o t # <<>> /\ (s \o t)[1] = s[1]
  BY <1>3, <1>4, <1>5, <1>6, EmptySeq
<1>8. s = <<>> /\ t = <<>> => s \o t = <<>>
  BY <1>3, ConcatEmptySeq
<1>9. \A i \in DOMAIN (s \o t) :
        \/ i \in DOMAIN s /\ (s \o t)[i] = s[i]
        \/ \E j \in DOMAIN t : (s \o t)[i] = t[j]
  <2> SUFFICES ASSUME NEW i \in DOMAIN (s \o t), ~(i \in DOMAIN s /\ (s \o t)[i] = s[i])
               PROVE  \E j \in DOMAIN t : (s \o t)[i] = t[j]
    OBVIOUS
  <2>1. i \in 1..(Len(s) + Len(t)) /\ ~(i <= Len(s))
    BY <1>4, <1>5
  <2>2. i - Len(s) \in DOMAIN t /\ (s \o t)[i] = t[i - Len(s)]
    BY <1>4, <1>5, <2>1
  <2> QED
    BY <2>2
<1> QED
  BY <1>4, <1>7, <1>8, <1>9 DEF IsSeq, Joined

LEMMA FramesShape ==
  ASSUME NEW frames \in Frames
  PROVE  IsSeq(frames) /\ Silent(frames) /\ (~conn.sink => frames = <<>>)
<1>1. CASE frames = <<>>
  BY <1>1, EmptyIsSeq
<1>2. CASE \E f : f.kind # "heartbeat" /\ frames = <<f>> /\ conn.sink
  BY <1>2, OneFrame DEF Silent
<1>3. Delta.kind # "heartbeat" /\ FullSnapshot("snapshot", Updated).kind # "heartbeat"
  BY DEF Delta, FullSnapshot
<1>4. frames = <<>> \/ \E f : f.kind # "heartbeat" /\ frames = <<f>> /\ conn.sink
  BY <1>3 DEF Frames, Publishes
<1> QED
  BY <1>1, <1>2, <1>4

LEMMA AnswersShape ==
  ASSUME conn \in PeerEnd
  PROVE  IsSeq(Answers) /\ Silent(Answers) /\ (conn = Closed => Answers = <<>>)
<1> DEFINE first == IF conn.accepting THEN <<FullSnapshot("snapshot", Updated)>> ELSE <<>>
           rest == [i \in 1..conn.waiting |-> FullSnapshot("response", Updated)]
<1>1. /\ FullSnapshot("snapshot", Updated).kind # "heartbeat"
      /\ FullSnapshot("response", Updated).kind # "heartbeat"
  BY DEF FullSnapshot
<1>2. IsSeq(first) /\ Silent(first)
  BY <1>1, EmptyIsSeq, OneFrame DEF Silent
<1>3. conn.waiting \in Nat
  BY DEF PeerEnd
<1>4. rest \in Seq({FullSnapshot("response", Updated)})
  BY <1>3
<1>5. IsSeq(rest) /\ Silent(rest)
  BY <1>1, <1>4 DEF IsSeq, Silent
<1>6. conn = Closed => first = <<>> /\ rest = <<>>
  BY <1>4, EmptySeq DEF Closed
<1> HIDE DEF first, rest
<1>7. Joined(first, rest, first \o rest)
  BY <1>2, <1>5, Concatenated
<1>8. Silent(first \o rest)
  BY <1>2, <1>5, <1>7 DEF Silent, Joined
<1> QED
  BY <1>6, <1>7, <1>8 DEF Answers, first, rest, Joined

-----------------------------------------------------------------------------
(* The inductive invariant. A heartbeat is the first frame of a connection,   *)
(* so that no rows are applied before the hub knows the connection's number;  *)
(* without that part a copy could become live under generation 0.             *)

Verified == link.state \in {"syncing", "online", "degraded"}

Shape ==
  /\ link \in HubEnd /\ conn \in PeerEnd
  /\ counts \in [changes : Nat, connects : 0..MaxConnects, lost : Nat, failures : Nat]
  /\ pub.epoch \in Epochs
  /\ pub = [epoch |-> pub.epoch, revision |-> pub.revision, rows |-> pub.rows,
            running |-> pub.running, pending |-> pub.pending, subscribed |-> pub.subscribed]
  /\ entry # None =>
       entry = [generation |-> entry.generation, epoch |-> entry.epoch, state |-> entry.state,
                revision |-> entry.revision, rows |-> entry.rows, snapEpoch |-> entry.snapEpoch]

LinkIsCurrent ==
  /\ link.state # "offline" => counts.connects # 0
  /\ Verified => /\ link.hello = pub.epoch
                 /\ link.generation \in {0, counts.connects}
                 /\ link.generation # 0 => link.accepted = link.hello

EndsAgree ==
  /\ conn.open => Verified
  /\ ~conn.open => conn = Closed /\ toHub = <<>>

HeartbeatFirst ==
  /\ conn.open /\ link.generation = 0 => toHub # <<>> /\ toHub[1].kind = "heartbeat"
  /\ \A i \in DOMAIN toHub :
       toHub[i].kind = "heartbeat" => toHub[i].generation = counts.connects

Live == entry # None /\ entry.state = "online"

IInv ==
  /\ Shape /\ IsSeq(toHub)
  /\ LinkIsCurrent /\ EndsAgree /\ HeartbeatFirst
  /\ LiveRowsAreCurrent /\ (Live => link.generation # 0)

LEMMA TailShape ==
  ASSUME NEW s, IsSeq(s), s # <<>>
  PROVE  /\ IsSeq(Tail(s)) /\ Head(s) = s[1] /\ 1 \in DOMAIN s
         /\ \A i \in DOMAIN Tail(s) : \E j \in DOMAIN s : Tail(s)[i] = s[j]
<1>1. PICK S : s \in Seq(S)
  BY DEF IsSeq
<1>2. /\ Tail(s) \in Seq(S) /\ Len(Tail(s)) = Len(s) - 1
      /\ \A i \in 1 .. Len(Tail(s)) : Tail(s)[i] = s[i+1]
      /\ Head(s) = s[1]
  BY <1>1, HeadTailProperties
<1>3. Len(s) \in Nat /\ DOMAIN s = 1..Len(s) /\ Len(s) >= 1 /\ DOMAIN Tail(s) = 1..Len(Tail(s))
  BY <1>1, <1>2, LenProperties, EmptySeq
<1>4. \A i \in DOMAIN Tail(s) : i+1 \in DOMAIN s /\ Tail(s)[i] = s[i+1]
  BY <1>2, <1>3
<1> QED
  BY <1>2, <1>3, <1>4 DEF IsSeq

LEMMA InitHolds == Init => IInv
<1> SUFFICES ASSUME Init PROVE IInv
  OBVIOUS
<1>1. Shape
  BY ConstantsAssumption DEF Init, Shape, HubEnd, PeerEnd, Closed, NewProcess, Epochs
<1>2. ~Verified /\ ~conn.open /\ conn = Closed /\ toHub = <<>> /\ link.state = "offline"
  BY DEF Init, Closed, Verified
<1>3. entry = None
  BY DEF Init
<1> QED
  BY <1>1, <1>2, <1>3, EmptyIsSeq
     DEF IInv, LinkIsCurrent, EndsAgree, HeartbeatFirst, LiveRowsAreCurrent, Live

(* A step of the peer alone: frames other than heartbeats may go out, and only *)
(* on an open connection.                                                     *)
LEMMA PeerStep ==
  ASSUME IInv, Shape', NEW t, IsSeq(t), Silent(t), Joined(toHub, t, toHub'),
         ~conn.open => t = <<>> /\ conn' = Closed,
         conn'.open = conn.open, link' = link, entry' = entry,
         pub'.epoch = pub.epoch, counts'.connects = counts.connects
  PROVE  IInv'
<1>1. LinkIsCurrent' /\ LiveRowsAreCurrent' /\ (Live => link.generation # 0)' /\ (Verified <=> Verified')
  BY DEF IInv, LinkIsCurrent, LiveRowsAreCurrent, Live, Verified
<1>2. EndsAgree'
  BY <1>1 DEF IInv, EndsAgree, Joined
<1>3. HeartbeatFirst'
  BY DEF IInv, HeartbeatFirst, Joined, Silent
<1> QED
  BY <1>1, <1>2, <1>3 DEF IInv, Joined

LEMMA Still == ASSUME IsSeq(toHub), toHub' = toHub PROVE Joined(toHub, <<>>, toHub')
  BY EmptyIsSeq DEF Joined

LEMMA RefreshedShape ==
  ASSUME NEW p, p = [epoch |-> p.epoch, revision |-> p.revision, rows |-> p.rows,
            running |-> p.running, pending |-> p.pending, subscribed |-> p.subscribed]
  PROVE  LET q == Refreshed(p) IN q.epoch = p.epoch /\ q =
           [epoch |-> q.epoch, revision |-> q.revision, rows |-> q.rows,
            running |-> q.running, pending |-> q.pending, subscribed |-> q.subscribed]
  BY DEF Refreshed

LEMMA SourceStep == ASSUME IInv, SourceChanges PROVE IInv'
<1>1. Shape' /\ counts'.connects = counts.connects
  BY DEF IInv, Shape, SourceChanges, Count, hubVars
<1> QED
  BY <1>1, Still, EmptyIsSeq, PeerStep DEF IInv, EndsAgree, SourceChanges, hubVars

LEMMA TickStep == ASSUME IInv, Ticks PROVE IInv'
<1>1. Shape' /\ pub'.epoch = pub.epoch
  BY RefreshedShape DEF IInv, Shape, Ticks, hubVars
<1> QED
  BY <1>1, Still, EmptyIsSeq, PeerStep DEF IInv, EndsAgree, Ticks, hubVars

LEMMA UpdatedShape ==
  ASSUME Shape
  PROVE  Updated.epoch = pub.epoch /\ Updated =
           [epoch |-> Updated.epoch, revision |-> Updated.revision, rows |-> Updated.rows,
            running |-> Updated.running, pending |-> Updated.pending,
            subscribed |-> Updated.subscribed]
  BY DEF Shape, Updated

LEMMA CarriedShape ==
  ASSUME Shape, NEW frames, Carried(frames)
  PROVE  /\ counts' \in [changes : Nat, connects : 0..MaxConnects, lost : Nat, failures : Nat]
         /\ counts'.connects = counts.connects
  BY DEF Shape, Carried, Count

LEMMA ReadsAgainStep == ASSUME IInv, ReadsAgain PROVE IInv'
<1>1. PICK frames \in Frames : /\ ReadReturns(frames)
                              /\ pub' = [Updated EXCEPT !.pending = FALSE]
                              /\ toHub' = toHub \o frames
                              /\ UNCHANGED conn
  BY DEF ReadsAgain
<1>2. Shape' /\ pub'.epoch = pub.epoch /\ counts'.connects = counts.connects
  BY <1>1, UpdatedShape, CarriedShape DEF IInv, Shape, ReadReturns, hubVars
<1>3. ~conn.open => frames = <<>>
  BY FramesShape DEF IInv, EndsAgree, Closed
<1>4. Joined(toHub, frames, toHub')
  BY <1>1, FramesShape, Concatenated DEF IInv
<1> QED
  BY <1>1, <1>2, <1>3, <1>4, FramesShape, PeerStep DEF IInv, EndsAgree, ReadReturns, hubVars

LEMMA DrainEndsStep == ASSUME IInv, DrainEnds PROVE IInv'
<1>1. PICK frames \in Frames :
        /\ ReadReturns(frames)
        /\ pub' = [Updated EXCEPT !.running = FALSE]
        /\ toHub' = toHub \o frames \o Answers
        /\ conn' = [conn EXCEPT !.accepting = FALSE, !.sink = @ \/ conn.accepting, !.waiting = 0]
  BY DEF DrainEnds
<1> DEFINE t == frames \o Answers
<1>2. conn' \in PeerEnd /\ conn'.open = conn.open /\ (conn = Closed => conn' = Closed)
  <2>1. conn \in PeerEnd
    BY DEF IInv, Shape
  <2>2. conn' = [open |-> conn.open, accepting |-> FALSE,
                 sink |-> (conn.sink \/ conn.accepting), waiting |-> 0]
    BY <1>1, <2>1 DEF PeerEnd
  <2>3. conn'.open = conn.open
    BY <2>2
  <2>4. conn.open \in BOOLEAN /\ (conn.sink \/ conn.accepting) \in BOOLEAN
    BY <2>1 DEF PeerEnd
  <2>5. conn' \in PeerEnd
    BY <2>2, <2>4, Zenon DEF PeerEnd
  <2>6. CASE conn = Closed
    <3>1. conn.open = FALSE /\ ~conn.sink /\ ~conn.accepting
      BY <2>6 DEF Closed
    <3>2. (conn.sink \/ conn.accepting) = FALSE
      BY <3>1
    <3> QED
      BY <2>2, <2>3, <2>5, <3>1, <3>2 DEF Closed
  <2> QED
    BY <2>3, <2>5, <2>6
<1>3. Shape' /\ pub'.epoch = pub.epoch /\ counts'.connects = counts.connects
  BY <1>1, <1>2, UpdatedShape, CarriedShape DEF IInv, Shape, ReadReturns, hubVars
<1>4. conn \in PeerEnd /\ IsSeq(toHub) /\ (~conn.open => conn = Closed)
  BY DEF IInv, Shape, EndsAgree
<1>5. IsSeq(Answers) /\ Silent(Answers) /\ (~conn.open => Answers = <<>>)
  BY <1>4, AnswersShape
<1>6. IsSeq(frames) /\ Silent(frames) /\ (~conn.open => frames = <<>>)
  BY <1>4, FramesShape DEF Closed
<1>7. Joined(frames, Answers, t)
  BY <1>5, <1>6, Concatenated
<1>8. IsSeq(t) /\ Silent(t) /\ (~conn.open => t = <<>>)
  BY <1>5, <1>6, <1>7 DEF Joined, Silent
<1>9. toHub' = toHub \o t
  <2>1. PICK S : frames \in Seq(S)
    BY <1>6 DEF IsSeq
  <2>2. PICK T : Answers \in Seq(T)
    BY <1>5 DEF IsSeq
  <2>3. PICK R : toHub \in Seq(R)
    BY <1>4 DEF IsSeq
  <2> DEFINE U == S \cup T \cup R
  <2>4. frames \in Seq(U) /\ Answers \in Seq(U) /\ toHub \in Seq(U)
    BY <2>1, <2>2, <2>3
  <2> HIDE DEF U
  <2> QED
    BY <1>1, <2>4, ConcatAssociative
<1> HIDE DEF t
<1>10. Joined(toHub, t, toHub')
  BY <1>4, <1>8, <1>9, Concatenated
<1>11. link' = link /\ entry' = entry
  BY <1>1 DEF ReadReturns, hubVars
<1> QED
  BY <1>2, <1>3, <1>4, <1>8, <1>10, <1>11, PeerStep

(* A step that closes the connection on both ends.                            *)
LEMMA CloseStep ==
  ASSUME IInv, Shape', link'.state = "offline", conn' = Closed, toHub' = <<>>,
         entry' = None \/ entry'.state = "offline"
  PROVE  IInv'
<1>1. ~Verified' /\ ~conn'.open /\ ~Live'
  BY DEF Verified, Closed, Live
<1> QED
  BY <1>1, EmptyIsSeq DEF IInv, LinkIsCurrent, EndsAgree, HeartbeatFirst, LiveRowsAreCurrent, Live

LEMMA DisconnectedShape ==
  ASSUME Shape, Disconnected
  PROVE  /\ link' \in HubEnd /\ conn' \in PeerEnd
         /\ link'.state = "offline" /\ conn' = Closed /\ toHub' = <<>>
         /\ entry' = None \/ entry'.state = "offline"
         /\ entry' # None =>
              entry' = [generation |-> entry'.generation, epoch |-> entry'.epoch,
                        state |-> entry'.state, revision |-> entry'.revision,
                        rows |-> entry'.rows, snapEpoch |-> entry'.snapEpoch]
<1>1. link' \in HubEnd /\ link'.state = "offline"
  BY DEF Shape, Disconnected, HubEnd
<1>2. conn' = Closed /\ conn' \in PeerEnd /\ toHub' = <<>>
  BY DEF Disconnected, Closed, PeerEnd
<1>3. CASE entry = None
  BY <1>1, <1>2, <1>3 DEF Disconnected
<1>4. CASE entry # None
  BY <1>1, <1>2, <1>4 DEF Disconnected, Shape
<1> QED
  BY <1>3, <1>4

LEMMA ReadFailsStep == ASSUME IInv, ReadFails PROVE IInv'
<1>1. /\ pub' = [pub EXCEPT !.running = FALSE]
      /\ counts' = [counts EXCEPT !.failures = @ + 1]
  BY DEF ReadFails, Count
<1>2. /\ pub'.epoch = pub.epoch /\ pub'.epoch \in Epochs
      /\ pub' = [epoch |-> pub'.epoch, revision |-> pub'.revision, rows |-> pub'.rows,
                 running |-> pub'.running, pending |-> pub'.pending,
                 subscribed |-> pub'.subscribed]
      /\ counts' \in [changes : Nat, connects : 0..MaxConnects, lost : Nat, failures : Nat]
      /\ counts'.connects = counts.connects
  <2>1. counts' \in [changes : Nat, connects : 0..MaxConnects, lost : Nat, failures : Nat]
        /\ counts'.connects = counts.connects
    BY <1>1 DEF IInv, Shape
  <2> QED
    BY <1>1, <2>1 DEF IInv, Shape
<1>3. CASE Disconnected
  <2>1. Shape'
    BY <1>2, <1>3, DisconnectedShape DEF IInv, Shape
  <2> QED
    BY <1>3, <2>1, DisconnectedShape, CloseStep DEF IInv
<1>4. CASE conn' = [conn EXCEPT !.waiting = 0] /\ UNCHANGED <<toHub, toPeer, link, entry>>
  <2>1. conn' \in PeerEnd /\ conn'.open = conn.open /\ (conn = Closed => conn' = Closed)
    <3>1. conn \in PeerEnd
      BY DEF IInv, Shape
    <3>2. conn' = [open |-> conn.open, accepting |-> conn.accepting,
                   sink |-> conn.sink, waiting |-> 0]
      BY <1>4, <3>1 DEF PeerEnd
    <3>3. conn' \in PeerEnd /\ conn'.open = conn.open
      BY <3>1, <3>2 DEF PeerEnd
    <3>4. conn = Closed => conn' = Closed
      BY <3>2 DEF Closed
    <3> QED
      BY <3>3, <3>4
  <2>2. Shape'
    BY <1>2, <1>4, <2>1 DEF IInv, Shape
  <2> QED
    BY <1>2, <1>4, <2>1, <2>2, Still, EmptyIsSeq, PeerStep DEF IInv, EndsAgree
<1> QED
  BY <1>3, <1>4 DEF ReadFails

LEMMA DialsStep == ASSUME IInv, Dials PROVE IInv'
<1>1. /\ counts' = [counts EXCEPT !.connects = @ + 1] /\ counts.connects < MaxConnects
      /\ link' = [link EXCEPT !.state = "connecting"] /\ link.state = "offline"
      /\ UNCHANGED <<source, pub, conn, entry, toHub>>
  BY DEF Dials, Count, peerVars
<1>2. Shape'
  <2>1. counts' \in [changes : Nat, connects : 0..MaxConnects, lost : Nat, failures : Nat]
    BY <1>1, ConstantsAssumption DEF IInv, Shape
  <2>2. link' \in HubEnd
    BY <1>1 DEF IInv, Shape, HubEnd
  <2> QED
    BY <1>1, <2>1, <2>2 DEF IInv, Shape
<1>3. ~conn.open /\ conn = Closed /\ toHub = <<>> /\ ~Live
  BY <1>1 DEF IInv, EndsAgree, Verified, LiveRowsAreCurrent, Live
<1>4. counts'.connects # 0 /\ ~Verified'
  BY <1>1 DEF IInv, Shape, HubEnd, Verified
<1>5. ~conn'.open /\ conn' = Closed /\ toHub' = <<>> /\ ~Live'
  BY <1>1, <1>3 DEF Live
<1> QED
  BY <1>2, <1>4, <1>5, EmptyIsSeq
     DEF IInv, LinkIsCurrent, EndsAgree, HeartbeatFirst, LiveRowsAreCurrent, Live

LEMMA HubVerifiesStep == ASSUME IInv, HubVerifies PROVE IInv'
<1>1. /\ link.state = "connecting"
      /\ link' = [link EXCEPT !.state = "syncing", !.generation = 0, !.hello = pub.epoch]
      /\ UNCHANGED <<source, pub, conn, entry, toHub, counts>>
  BY DEF HubVerifies, peerVars
<1>2. Shape'
  <2>1. link' = [state |-> "syncing", generation |-> 0, hello |-> pub.epoch,
                 accepted |-> link.accepted]
    BY <1>1 DEF IInv, Shape, HubEnd
  <2>2. link' \in HubEnd
    BY <2>1, ConstantsAssumption DEF IInv, Shape, HubEnd
  <2> QED
    BY <1>1, <2>2 DEF IInv, Shape
<1>3. ~conn.open /\ conn = Closed /\ toHub = <<>> /\ ~Live /\ counts.connects # 0
  BY <1>1 DEF IInv, EndsAgree, Verified, LiveRowsAreCurrent, Live, LinkIsCurrent
<1>4. ~conn'.open /\ conn' = Closed /\ toHub' = <<>> /\ ~Live'
  BY <1>1, <1>3 DEF Live
<1>5. LinkIsCurrent'
  BY <1>1, <1>3 DEF IInv, Shape, HubEnd, LinkIsCurrent
<1> QED
  BY <1>2, <1>4, <1>5, EmptyIsSeq
     DEF IInv, EndsAgree, HeartbeatFirst, LiveRowsAreCurrent, Live

LEMMA PeerAcceptsStep == ASSUME IInv, PeerAccepts PROVE IInv'
<1>1. /\ link.state = "syncing" /\ link.generation = 0
      /\ toHub' = <<Heartbeat(counts.connects)>>
      /\ conn' = [conn EXCEPT !.open = TRUE, !.accepting = TRUE]
      /\ pub' = [Refreshed(pub) EXCEPT !.subscribed = TRUE]
      /\ UNCHANGED <<source, link, entry, counts>>
  BY DEF PeerAccepts, hubVars
<1>2. conn' \in PeerEnd /\ conn'.open
  BY <1>1 DEF IInv, Shape, PeerEnd
<1>3. Shape' /\ pub'.epoch = pub.epoch
  <2> DEFINE q == Refreshed(pub)
  <2>1. q.epoch = pub.epoch
        /\ q = [epoch |-> q.epoch, revision |-> q.revision, rows |-> q.rows,
                running |-> q.running, pending |-> q.pending, subscribed |-> q.subscribed]
    BY RefreshedShape DEF IInv, Shape
  <2>2. pub' = [q EXCEPT !.subscribed = TRUE]
    BY <1>1
  <2> HIDE DEF q
  <2>3. pub'.epoch = pub.epoch
        /\ pub' = [epoch |-> pub'.epoch, revision |-> pub'.revision, rows |-> pub'.rows,
                   running |-> pub'.running, pending |-> pub'.pending,
                   subscribed |-> pub'.subscribed]
    BY <2>1, <2>2
  <2> QED
    BY <1>1, <1>2, <2>3 DEF IInv, Shape
<1>4. LinkIsCurrent' /\ Verified' /\ ~Live'
  BY <1>1, <1>3 DEF IInv, LinkIsCurrent, Verified, Live, LiveRowsAreCurrent
<1>5. HeartbeatFirst' /\ IsSeq(toHub)'
  BY <1>1, OneFrame DEF HeartbeatFirst, Heartbeat
<1> QED
  BY <1>2, <1>3, <1>4, <1>5 DEF IInv, EndsAgree, LiveRowsAreCurrent, Live

LEMMA Appended == ASSUME NEW s, NEW f, IsSeq(s) PROVE Joined(s, <<f>>, Append(s, f))
<1>1. PICK S : s \in Seq(S)
  BY DEF IsSeq
<1> DEFINE U == S \cup {f}
<1>2. s \in Seq(U) /\ f \in U
  BY <1>1
<1> HIDE DEF U
<1>3. Append(s, f) = s \o <<f>>
  BY <1>2, AppendIsConcat
<1> QED
  BY <1>3, OneFrame, Concatenated

LEMMA PeerBeatsStep == ASSUME IInv, PeerBeats PROVE IInv'
<1> DEFINE h == Heartbeat(counts.connects)
<1>1. conn.open /\ toHub' = Append(toHub, h)
      /\ UNCHANGED <<source, pub, conn, link, entry, counts>>
  BY DEF PeerBeats, peerVars, hubVars
<1>2. h.generation = counts.connects
  BY DEF Heartbeat
<1> HIDE DEF h
<1>3. Joined(toHub, <<h>>, toHub')
  <2>1. IsSeq(toHub)
    BY DEF IInv
  <2>2. Joined(toHub, <<h>>, Append(toHub, h))
    BY <2>1, Appended
  <2> QED
    BY <1>1, <2>2
<1>4. DOMAIN <<h>> = {1} /\ <<h>>[1] = h
  BY OneFrame
<1>5. Shape' /\ LinkIsCurrent' /\ LiveRowsAreCurrent' /\ (Live => link.generation # 0)'
  BY <1>1 DEF IInv, Shape, LinkIsCurrent, Verified, LiveRowsAreCurrent, Live
<1>6. EndsAgree'
  BY <1>1 DEF IInv, EndsAgree, Verified
<1>7. HeartbeatFirst'
  <2>1. (conn.open /\ link.generation = 0 => toHub # <<>> /\ toHub[1].kind = "heartbeat")'
    BY <1>1, <1>3 DEF IInv, HeartbeatFirst, Joined
  <2>2. (\A i \in DOMAIN toHub :
           toHub[i].kind = "heartbeat" => toHub[i].generation = counts.connects)'
    BY <1>1, <1>2, <1>3, <1>4 DEF IInv, HeartbeatFirst, Joined
  <2> QED
    BY <2>1, <2>2 DEF HeartbeatFirst
<1> QED
  BY <1>3, <1>5, <1>6, <1>7 DEF IInv, Joined

LEMMA DegradesStep == ASSUME IInv, Degrades PROVE IInv'
<1>1. /\ link.state = "online" /\ link' = [link EXCEPT !.state = "degraded"]
      /\ UNCHANGED <<source, pub, conn, entry, toHub, counts>>
  BY DEF Degrades, peerVars
<1>2. /\ link' \in HubEnd /\ link'.state = "degraded" /\ link'.generation = link.generation
      /\ link'.hello = link.hello /\ link'.accepted = link.accepted
  BY <1>1 DEF IInv, Shape, HubEnd
<1>3. Shape' /\ LinkIsCurrent' /\ LiveRowsAreCurrent' /\ (Live => link.generation # 0)'
  BY <1>1, <1>2 DEF IInv, Shape, LinkIsCurrent, Verified, LiveRowsAreCurrent, Live
<1>4. EndsAgree' /\ HeartbeatFirst' /\ IsSeq(toHub)'
  BY <1>1, <1>2 DEF IInv, EndsAgree, Verified, HeartbeatFirst
<1> QED
  BY <1>3, <1>4 DEF IInv

LEMMA DropsStep == ASSUME IInv, Drops PROVE IInv'
<1>1. Disconnected /\ UNCHANGED <<source, pub, counts>>
  BY DEF Drops
<1>2. Shape'
  BY <1>1, DisconnectedShape DEF IInv, Shape
<1> QED
  BY <1>1, <1>2, DisconnectedShape, CloseStep DEF IInv

LEMMA PeerRestartsStep == ASSUME IInv, PeerRestarts PROVE IInv'
<1>1. /\ Disconnected /\ UNCHANGED <<source, counts>>
      /\ pub.epoch < MaxEpoch /\ pub' = NewProcess(pub.epoch + 1)
  BY DEF PeerRestarts
<1>2. pub.epoch + 1 \in Epochs
  BY <1>1, ConstantsAssumption DEF IInv, Shape, Epochs
<1>3. Shape'
  BY <1>1, <1>2, DisconnectedShape DEF IInv, Shape, NewProcess
<1> QED
  BY <1>1, <1>3, DisconnectedShape, CloseStep DEF IInv

LEMMA HubRestartsStep == ASSUME IInv, HubRestarts PROVE IInv'
<1>1. link'.state = "offline" /\ conn' = Closed /\ toHub' = <<>> /\ entry' = None
  BY DEF HubRestarts
<1>2. Shape'
  BY ConstantsAssumption DEF IInv, Shape, HubRestarts, HubEnd, PeerEnd, Closed
<1> QED
  BY <1>1, <1>2, CloseStep

LEMMA PeerTakesRequestStep == ASSUME IInv, PeerTakesRequest PROVE IInv'
<1>1. /\ conn.open /\ conn' = [conn EXCEPT !.waiting = @ + 1] /\ pub' = Refreshed(pub)
      /\ UNCHANGED <<source, link, entry, toHub, counts>>
  BY DEF PeerTakesRequest, hubVars
<1>2. conn' \in PeerEnd /\ conn'.open = conn.open
  <2>1. conn \in PeerEnd
    BY DEF IInv, Shape
  <2>2. conn' = [open |-> conn.open, accepting |-> conn.accepting,
                 sink |-> conn.sink, waiting |-> conn.waiting + 1]
    BY <1>1, <2>1 DEF PeerEnd
  <2>3. conn.waiting + 1 \in Nat
    BY <2>1 DEF PeerEnd
  <2> QED
    BY <2>1, <2>2, <2>3 DEF PeerEnd
<1>3. Shape' /\ pub'.epoch = pub.epoch
  BY <1>1, <1>2, RefreshedShape DEF IInv, Shape
<1> QED
  BY <1>1, <1>2, <1>3, Still, EmptyIsSeq, PeerStep DEF IInv

(* What the hub has when it takes a frame: an open connection, and its number  *)
(* unless the frame is a heartbeat.                                           *)
LEMMA Arrives ==
  ASSUME IInv, toHub # <<>>
  PROVE  /\ conn.open /\ Verified
         /\ IsSeq(Tail(toHub)) /\ Head(toHub) = toHub[1]
         /\ Head(toHub).kind = "heartbeat" => Head(toHub).generation = counts.connects
         /\ Head(toHub).kind # "heartbeat" => link.generation # 0
         /\ \A i \in DOMAIN Tail(toHub) : Tail(toHub)[i].kind = "heartbeat" =>
              Tail(toHub)[i].generation = counts.connects
<1>1. conn.open /\ Verified
  BY DEF IInv, EndsAgree
<1>2. /\ IsSeq(Tail(toHub)) /\ Head(toHub) = toHub[1] /\ 1 \in DOMAIN toHub
      /\ \A i \in DOMAIN Tail(toHub) : \E j \in DOMAIN toHub : Tail(toHub)[i] = toHub[j]
  BY TailShape DEF IInv
<1> QED
  BY <1>1, <1>2 DEF IInv, HeartbeatFirst

(* A frame taken: whatever it does to the link and the entry keeps these two. *)
LEMMA HubStep ==
  ASSUME IInv, toHub # <<>>, toHub' = Tail(toHub), UNCHANGED <<peerVars, counts>>,
         Shape', LinkIsCurrent', LiveRowsAreCurrent', Verified', link'.generation # 0
  PROVE  IInv'
<1>1. UNCHANGED <<source, pub, conn, counts>>
  BY DEF peerVars
<1>2. EndsAgree' /\ HeartbeatFirst' /\ IsSeq(toHub)'
  BY <1>1, Arrives DEF EndsAgree, HeartbeatFirst
<1> QED
  BY <1>2 DEF IInv, Live

LEMMA HeartbeatStep ==
  ASSUME IInv, toHub # <<>>, toHub' = Tail(toHub), UNCHANGED <<peerVars, counts>>,
         Head(toHub).kind = "heartbeat", TakesHeartbeat(Head(toHub))
  PROVE  IInv'
<1> DEFINE g == Head(toHub).generation
<1>1. UNCHANGED <<source, pub, conn, counts>>
  BY DEF peerVars
<1>2. g = counts.connects /\ Verified /\ g # 0 /\ g \in 0..MaxConnects
  BY Arrives DEF IInv, LinkIsCurrent, Verified, Shape
<1>3. link' = [link EXCEPT !.state = IF link.accepted \notin {None, link.hello} THEN "syncing"
                                     ELSE "online",
                           !.generation = g, !.accepted = link.hello]
  BY DEF TakesHeartbeat
<1>4. entry' = IF entry = None \/ entry.generation = g THEN entry
               ELSE [entry EXCEPT !.generation = g, !.epoch = link.hello, !.state = "syncing"]
  BY DEF TakesHeartbeat
<1> HIDE DEF g
<1>5. /\ link' \in HubEnd /\ link'.generation = g /\ link'.hello = link.hello
      /\ link'.accepted = link.hello /\ link'.state \in {"syncing", "online"}
      /\ link.accepted = link.hello => link'.state = "online"
  BY <1>2, <1>3 DEF IInv, Shape, HubEnd
<1>6. Shape'
  <2>1. entry' # None =>
           entry' = [generation |-> entry'.generation, epoch |-> entry'.epoch,
                     state |-> entry'.state, revision |-> entry'.revision,
                     rows |-> entry'.rows, snapEpoch |-> entry'.snapEpoch]
    BY <1>4 DEF IInv, Shape
  <2> QED
    BY <1>1, <1>5, <2>1 DEF IInv, Shape
<1>7. LinkIsCurrent' /\ Verified'
  BY <1>1, <1>2, <1>5 DEF IInv, LinkIsCurrent, Verified
<1>8. CASE Live
  <2>1. link.generation = g /\ link.accepted = link.hello /\ entry.generation = g
    BY <1>2, <1>8 DEF IInv, LinkIsCurrent, LiveRowsAreCurrent, Live
  <2>2. LiveRowsAreCurrent'
    BY <1>1, <1>4, <1>5, <2>1 DEF IInv, LiveRowsAreCurrent
  <2> QED
    BY <1>2, <1>5, <1>6, <1>7, <2>2, HubStep
<1>9. CASE ~Live
  <2>1. ~Live'
    BY <1>4, <1>9 DEF Live, IInv, Shape
  <2> QED
    BY <1>2, <1>5, <1>6, <1>7, <2>1, HubStep DEF LiveRowsAreCurrent, Live
<1> QED
  BY <1>8, <1>9

(* A request for a snapshot leaves a copy that is not live.                   *)
LEMMA ResyncStep ==
  ASSUME IInv, toHub # <<>>, toHub' = Tail(toHub), UNCHANGED <<peerVars, counts>>,
         Resync, link.generation # 0
  PROVE  IInv'
<1>1. UNCHANGED <<source, pub, conn, counts>>
  BY DEF peerVars
<1>2. entry' = IF entry = None THEN None ELSE [entry EXCEPT !.state = "syncing"]
  BY DEF Resync
<1>3. ~Live'
  BY <1>2 DEF IInv, Shape, Live
<1>4. \/ link' = link
      \/ link.state \in {"online", "degraded"} /\ link' = [link EXCEPT !.state = "syncing"]
  BY DEF Resync, IInv, Shape, HubEnd
<1>5. /\ link' \in HubEnd /\ link'.generation = link.generation /\ link'.hello = link.hello
      /\ link'.accepted = link.accepted
      /\ link'.state = link.state \/ link'.state = "syncing"
  BY <1>4 DEF IInv, Shape, HubEnd
<1>6. Shape'
  BY <1>1, <1>2, <1>5 DEF IInv, Shape
<1>7. Verified
  BY Arrives
<1>8. Verified' /\ LinkIsCurrent'
  BY <1>1, <1>5, <1>7 DEF IInv, LinkIsCurrent, Verified
<1> QED
  BY <1>3, <1>5, <1>6, <1>8, HubStep DEF LiveRowsAreCurrent, Live

LEMMA IgnoredStep ==
  ASSUME IInv, toHub # <<>>, toHub' = Tail(toHub), UNCHANGED <<peerVars, counts>>,
         link' = link, entry' = entry, link.generation # 0
  PROVE  IInv'
<1>1. UNCHANGED <<source, pub, conn, counts>>
  BY DEF peerVars
<1>2. Shape' /\ LinkIsCurrent' /\ LiveRowsAreCurrent' /\ Verified'
  BY <1>1, Arrives DEF IInv, Shape, LinkIsCurrent, LiveRowsAreCurrent, Verified
<1> QED
  BY <1>2, HubStep

(* A copy that becomes live is of this connection and of this process.        *)
LEMMA AppliesStep ==
  ASSUME IInv, toHub # <<>>, toHub' = Tail(toHub), UNCHANGED <<peerVars, counts>>,
         link.generation # 0, NEW e, Applies(e), e.generation = link.generation,
         e.epoch = link.hello, e.snapEpoch = link.hello,
         e = [generation |-> e.generation, epoch |-> e.epoch, state |-> e.state,
              revision |-> e.revision, rows |-> e.rows, snapEpoch |-> e.snapEpoch]
  PROVE  IInv'
<1>1. UNCHANGED <<source, pub, conn, counts>>
  BY DEF peerVars
<1>2. entry' = e /\ link' = [link EXCEPT !.state = IF @ = "syncing" THEN "online" ELSE @]
  BY DEF Applies
<1>3. Verified
  BY Arrives
<1>4. /\ link' \in HubEnd /\ link'.generation = link.generation /\ link'.hello = link.hello
      /\ link'.accepted = link.accepted /\ link'.state \in {"online", "degraded"}
  BY <1>2, <1>3 DEF IInv, Shape, HubEnd, Verified
<1>5. Shape'
  BY <1>1, <1>2, <1>4 DEF IInv, Shape
<1>6. Verified' /\ LinkIsCurrent'
  BY <1>1, <1>3, <1>4 DEF IInv, LinkIsCurrent, Verified
<1>7. LiveRowsAreCurrent'
  BY <1>1, <1>2, <1>3, <1>4 DEF LiveRowsAreCurrent, IInv, LinkIsCurrent
<1> QED
  BY <1>4, <1>5, <1>6, <1>7, HubStep

LEMMA SnapshotStep ==
  ASSUME IInv, toHub # <<>>, toHub' = Tail(toHub), UNCHANGED <<peerVars, counts>>,
         Head(toHub).kind # "heartbeat", TakesSnapshot(Head(toHub))
  PROVE  IInv'
<1> DEFINE f == Head(toHub)
           e == [generation |-> link.generation, epoch |-> link.hello, state |-> "online",
                 revision |-> f.revision, rows |-> f.rows, snapEpoch |-> link.hello]
<1>1. link.generation # 0
  BY Arrives
<1>2. \/ UNCHANGED <<hubVars, toPeer>>
      \/ Resync
      \/ Current /\ SameRevision(f) /\ Applies([entry EXCEPT !.state = "online"])
      \/ Applies(e)
  BY DEF TakesSnapshot, SameRevision
<1>3. CASE UNCHANGED <<hubVars, toPeer>>
  BY <1>1, <1>3, IgnoredStep DEF hubVars
<1>4. CASE Resync
  BY <1>1, <1>4, ResyncStep
<1>5. CASE Current /\ SameRevision(f) /\ Applies([entry EXCEPT !.state = "online"])
  <2> DEFINE x == [entry EXCEPT !.state = "online"]
  <2>1. /\ x.generation = link.generation /\ x.epoch = link.hello /\ x.snapEpoch = link.hello
        /\ x = [generation |-> x.generation, epoch |-> x.epoch, state |-> x.state,
                revision |-> x.revision, rows |-> x.rows, snapEpoch |-> x.snapEpoch]
    BY <1>5 DEF IInv, Shape, Current, SameRevision
  <2>2. Applies(x)
    BY <1>5
  <2> HIDE DEF x
  <2> QED
    BY <1>1, <2>1, <2>2, AppliesStep
<1>6. CASE Applies(e)
  <2>1. /\ e.generation = link.generation /\ e.epoch = link.hello /\ e.snapEpoch = link.hello
        /\ e = [generation |-> e.generation, epoch |-> e.epoch, state |-> e.state,
                revision |-> e.revision, rows |-> e.rows, snapEpoch |-> e.snapEpoch]
    OBVIOUS
  <2> HIDE DEF e
  <2> QED
    BY <1>1, <1>6, <2>1, AppliesStep
<1> QED
  BY <1>2, <1>3, <1>4, <1>5, <1>6

LEMMA DeltaStep ==
  ASSUME IInv, toHub # <<>>, toHub' = Tail(toHub), UNCHANGED <<peerVars, counts>>,
         Head(toHub).kind # "heartbeat", TakesDelta(Head(toHub))
  PROVE  IInv'
<1> DEFINE f == Head(toHub)
<1>1. link.generation # 0
  BY Arrives
<1>2. \/ UNCHANGED <<hubVars, toPeer>>
      \/ Resync
      \/ /\ entry # None /\ link' = link
         /\ entry' = [entry EXCEPT !.revision = f.revision, !.rows = Patched(@, f)]
  BY DEF TakesDelta
<1>3. CASE UNCHANGED <<hubVars, toPeer>>
  BY <1>1, <1>3, IgnoredStep DEF hubVars
<1>4. CASE Resync
  BY <1>1, <1>4, ResyncStep
<1>5. ASSUME entry # None, link' = link,
             entry' = [entry EXCEPT !.revision = f.revision, !.rows = Patched(@, f)]
      PROVE  IInv'
  <2>1. UNCHANGED <<source, pub, conn, counts>>
    BY DEF peerVars
  <2>2. /\ entry' = [generation |-> entry.generation, epoch |-> entry.epoch,
                     state |-> entry.state, revision |-> f.revision,
                     rows |-> Patched(entry.rows, f), snapEpoch |-> entry.snapEpoch]
    BY <1>5 DEF IInv, Shape
  <2>3. Shape'
    BY <1>5, <2>1, <2>2 DEF IInv, Shape
  <2>4. LinkIsCurrent' /\ LiveRowsAreCurrent' /\ Verified'
    BY <1>5, <2>1, <2>2, Arrives DEF IInv, LinkIsCurrent, LiveRowsAreCurrent, Verified
  <2> QED
    BY <1>1, <1>5, <2>3, <2>4, HubStep
<1> QED
  BY <1>2, <1>3, <1>4, <1>5

LEMMA HubReceivesStep == ASSUME IInv, HubReceives PROVE IInv'
<1>1. /\ toHub # <<>> /\ toHub' = Tail(toHub) /\ UNCHANGED <<peerVars, counts>>
      /\ LET f == Head(toHub) IN
           \/ f.kind = "heartbeat" /\ TakesHeartbeat(f)
           \/ f.kind # "heartbeat" /\ TakesSnapshot(f)
           \/ f.kind # "heartbeat" /\ TakesDelta(f)
  BY DEF HubReceives
<1> QED
  BY <1>1, HeartbeatStep, SnapshotStep, DeltaStep

LEMMA StutterStep == ASSUME IInv, UNCHANGED vars PROVE IInv'
<1>1. UNCHANGED <<source, pub, conn, toHub, link, entry, counts>>
  BY DEF vars, peerVars, hubVars
<1>2. Shape' /\ LinkIsCurrent' /\ EndsAgree'
  BY <1>1 DEF IInv, Shape, LinkIsCurrent, EndsAgree, Verified
<1>3. HeartbeatFirst' /\ IsSeq(toHub)' /\ LiveRowsAreCurrent' /\ (Live => link.generation # 0)'
  BY <1>1 DEF IInv, HeartbeatFirst, LiveRowsAreCurrent, Live
<1> QED
  BY <1>2, <1>3 DEF IInv

LEMMA StepHolds == IInv /\ [Next]_vars => IInv'
  BY SourceStep, TickStep, ReadsAgainStep, DrainEndsStep, ReadFailsStep, DialsStep,
     HubVerifiesStep, PeerAcceptsStep, PeerBeatsStep, DegradesStep, DropsStep,
     PeerRestartsStep, HubRestartsStep, PeerTakesRequestStep, HubReceivesStep,
     StutterStep DEF Next

(* The hub shows rows as live only when they come from the connection and the *)
(* process it talks to, whatever is dropped, restarted, lost or read while    *)
(* a frame is under way (connected, snapshot, delta, offline).                *)
THEOREM LiveRows == Spec => []LiveRowsAreCurrent
<1>1. IInv => LiveRowsAreCurrent
  BY DEF IInv
<1> QED
  BY <1>1, InitHolds, StepHolds, PTL DEF Spec

-----------------------------------------------------------------------------
(* The rows of a sequence that are not in a set: Without keeps the others. It *)
(* is defined by a recursive function, of which the proofs need that it       *)
(* exists and what it returns; both by a least counterexample.                *)
LEMMA LeastNatural ==
  ASSUME NEW B \in SUBSET Nat, B # {} PROVE \E m \in B : \A y \in B : y >= m
<1>1. PICK m \in B : \A y \in B : ~(<<y, m>> \in OpToRel(<, Nat))
  BY NatLessThanWellFounded, WFMin
<1>2. \A y \in B : ~(y < m)
  BY <1>1 DEF OpToRel
<1> QED BY <1>2

KeptBy(k, s, S, n) ==
  k = [i \in 0..n |-> IF i = 0 THEN <<>>
                      ELSE IF s[i] \in S THEN k[i - 1] ELSE Append(k[i - 1], s[i])]

LEMMA KeptExists ==
  ASSUME NEW s, NEW S, NEW n \in Nat PROVE \E k : KeptBy(k, s, S, n)
<1> DEFINE B == {m \in Nat : ~\E k : KeptBy(k, s, S, m)}
<1> SUFFICES ASSUME B # {} PROVE FALSE
  OBVIOUS
<1>1. PICK m \in B : \A y \in B : y >= m
  BY LeastNatural
<1>2. m \in Nat /\ \A k : ~KeptBy(k, s, S, m)
  BY <1>1
<1>3. CASE m = 0
  <2>1. KeptBy([i \in 0..0 |-> <<>>], s, S, 0)
    BY DEF KeptBy
  <2> QED BY <1>2, <1>3, <2>1
<1>4. CASE m # 0
  <2>1. m - 1 \in Nat /\ m - 1 \notin B
    BY <1>1, <1>2, <1>4
  <2>2. PICK k : KeptBy(k, s, S, m - 1)
    BY <2>1
  <2> DEFINE g == [i \in 0..m |-> IF i = m
                     THEN IF s[m] \in S THEN k[m - 1] ELSE Append(k[m - 1], s[m])
                     ELSE k[i]]
  <2>3. \A i \in 0..m : g[i] = IF i = 0 THEN <<>>
                               ELSE IF s[i] \in S THEN g[i - 1] ELSE Append(g[i - 1], s[i])
    <3> SUFFICES ASSUME NEW i \in 0..m
                 PROVE  g[i] = IF i = 0 THEN <<>>
                               ELSE IF s[i] \in S THEN g[i - 1] ELSE Append(g[i - 1], s[i])
      OBVIOUS
    <3>1. CASE i = m
      <4>1. g[m] = IF s[m] \in S THEN k[m - 1] ELSE Append(k[m - 1], s[m])
        BY <1>2
      <4>2. g[m - 1] = k[m - 1]
        BY <1>2, <2>1
      <4> QED BY <1>4, <3>1, <4>1, <4>2
    <3>2. CASE i # m
      <4>1. i \in 0..(m - 1) /\ g[i] = k[i]
        BY <1>2, <3>2
      <4>2. i # 0 => i - 1 \in 0..m /\ i - 1 # m /\ g[i - 1] = k[i - 1]
        BY <1>2, <4>1
      <4>3. k[i] = IF i = 0 THEN <<>>
                   ELSE IF s[i] \in S THEN k[i - 1] ELSE Append(k[i - 1], s[i])
        BY <2>2, <4>1 DEF KeptBy
      <4> QED BY <4>1, <4>2, <4>3
    <3> QED BY <3>1, <3>2
  <2>4. g = [i \in 0..m |-> g[i]]
    OBVIOUS
  <2> HIDE DEF g
  <2>5. KeptBy(g, s, S, m)
    BY <2>3, <2>4 DEF KeptBy
  <2> QED BY <1>2, <2>5
<1> QED BY <1>3, <1>4

LEMMA RangeOfAppend ==
  ASSUME NEW T, NEW s \in Seq(T), NEW x \in T
  PROVE  Append(s, x) \in Seq(T) /\ Range(Append(s, x)) = Range(s) \cup {x}
<1>1. /\ Append(s, x) \in Seq(T) /\ Len(Append(s, x)) = Len(s) + 1
      /\ \A i \in 1..Len(s) : Append(s, x)[i] = s[i]
      /\ Append(s, x)[Len(s) + 1] = x
  BY AppendProperties
<1>2. DOMAIN s = 1..Len(s) /\ DOMAIN Append(s, x) = 1..(Len(s) + 1) /\ Len(s) \in Nat
  BY <1>1, LenProperties
<1>3. \A i \in 1..(Len(s) + 1) : i \in 1..Len(s) \/ i = Len(s) + 1
  BY <1>2
<1>4. Range(Append(s, x)) \subseteq Range(s) \cup {x}
  BY <1>1, <1>2, <1>3 DEF Range
<1>5. Range(s) \cup {x} \subseteq Range(Append(s, x))
  <2>1. \A i \in 1..Len(s) : i \in 1..(Len(s) + 1)
    BY <1>2
  <2>2. Len(s) + 1 \in 1..(Len(s) + 1)
    BY <1>2
  <2> QED BY <1>1, <1>2, <2>1, <2>2 DEF Range
<1> QED BY <1>1, <1>4, <1>5

LEMMA KeptRange ==
  ASSUME NEW T, NEW s \in Seq(T), NEW S, NEW k, KeptBy(k, s, S, Len(s)), NEW n \in 0..Len(s)
  PROVE  k[n] \in Seq(T) /\ Range(k[n]) = {s[j] : j \in 1..n} \ S
<1> DEFINE Good(m) == k[m] \in Seq(T) /\ Range(k[m]) = {s[j] : j \in 1..m} \ S
           B == {m \in 0..Len(s) : ~Good(m)}
<1> SUFFICES ASSUME B # {} PROVE FALSE
  OBVIOUS
<1>1. Len(s) \in Nat /\ DOMAIN s = 1..Len(s) /\ \A i \in 1..Len(s) : s[i] \in T
  BY LenProperties, ElementOfSeq
<1>2. B \subseteq Nat
  BY <1>1
<1>3. PICK m \in B : \A y \in B : y >= m
  BY <1>2, LeastNatural
<1>4. m \in 0..Len(s) /\ ~Good(m)
  BY <1>3
<1>5. CASE m = 0
  <2>1. k[0] = <<>>
    BY <1>1 DEF KeptBy
  <2>2. <<>> \in Seq(T) /\ Range(<<>>) = {}
    BY EmptySeq DEF Range
  <2>3. 1..0 = {}
    OBVIOUS
  <2> QED BY <1>4, <1>5, <2>1, <2>2, <2>3
<1>6. CASE m # 0
  <2>1. m - 1 \in 0..Len(s) /\ m \in 1..Len(s)
    BY <1>1, <1>4, <1>6
  <2>2. Good(m - 1)
    <3>1. ~(m - 1 >= m)
      BY <1>1, <2>1
    <3>2. m - 1 \notin B
      BY <1>3, <3>1
    <3> QED BY <2>1, <3>2
  <2>3. k[m] = IF s[m] \in S THEN k[m - 1] ELSE Append(k[m - 1], s[m])
    BY <1>1, <1>4, <1>6 DEF KeptBy
  <2>4. {s[j] : j \in 1..m} = {s[j] : j \in 1..(m - 1)} \cup {s[m]}
    <3>1. 1..m = (1..(m - 1)) \cup {m}
      BY <1>1, <2>1
    <3> QED BY <3>1
  <2>5. s[m] \in T
    BY <1>1, <2>1
  <2>6. Good(m)
    <3>1. CASE s[m] \in S
      BY <2>2, <2>3, <2>4, <3>1
    <3>2. CASE s[m] \notin S
      <4>1. k[m] \in Seq(T) /\ Range(k[m]) = Range(k[m - 1]) \cup {s[m]}
        BY <2>2, <2>3, <2>5, <3>2, RangeOfAppend
      <4> QED BY <2>2, <2>4, <3>2, <4>1
    <3> QED BY <3>1, <3>2
  <2> QED BY <1>4, <2>6
<1> QED BY <1>5, <1>6

LEMMA WithoutRange ==
  ASSUME NEW T, NEW s \in Seq(T), NEW S
  PROVE  Without(s, S) \in Seq(T) /\ Range(Without(s, S)) = Range(s) \ S
<1>1. Len(s) \in Nat /\ DOMAIN s = 1..Len(s) /\ Len(s) \in 0..Len(s)
  BY LenProperties
<1> DEFINE k == CHOOSE x : KeptBy(x, s, S, Len(s))
<1>2. KeptBy(k, s, S, Len(s))
  BY <1>1, KeptExists
<1>3. Without(s, S) = k[Len(s)]
  BY DEF Without, KeptBy
<1> HIDE DEF k
<1>4. k[Len(s)] \in Seq(T) /\ Range(k[Len(s)]) = {s[j] : j \in 1..Len(s)} \ S
  BY <1>1, <1>2, KeptRange
<1> QED BY <1>1, <1>3, <1>4 DEF Range

LEMMA RangeOfConcat ==
  ASSUME NEW T, NEW s \in Seq(T), NEW t \in Seq(T)
  PROVE  s \o t \in Seq(T) /\ Range(s \o t) = Range(s) \cup Range(t)
<1>1. /\ s \o t \in Seq(T) /\ Len(s \o t) = Len(s) + Len(t)
      /\ \A i \in 1 .. Len(s) + Len(t) : (s \o t)[i] =
            IF i <= Len(s) THEN s[i] ELSE t[i - Len(s)]
  BY ConcatProperties
<1>2. /\ Len(s) \in Nat /\ DOMAIN s = 1..Len(s) /\ Len(t) \in Nat /\ DOMAIN t = 1..Len(t)
      /\ DOMAIN (s \o t) = 1..(Len(s) + Len(t))
  BY <1>1, LenProperties
<1>3. \A i \in 1..Len(s) : i \in 1..(Len(s) + Len(t)) /\ (s \o t)[i] = s[i]
  BY <1>1, <1>2
<1>4. \A i \in 1..Len(t) : i + Len(s) \in 1..(Len(s) + Len(t)) /\ (s \o t)[i + Len(s)] = t[i]
  BY <1>1, <1>2
<1>5. \A i \in 1..(Len(s) + Len(t)) : \/ i \in 1..Len(s) /\ (s \o t)[i] = s[i]
                                      \/ i - Len(s) \in 1..Len(t) /\ (s \o t)[i] = t[i - Len(s)]
  BY <1>1, <1>2
<1>6. Range(s \o t) \subseteq Range(s) \cup Range(t)
  BY <1>2, <1>5 DEF Range
<1>7. Range(s) \cup Range(t) \subseteq Range(s \o t)
  BY <1>2, <1>3, <1>4 DEF Range
<1> QED BY <1>1, <1>6, <1>7

-----------------------------------------------------------------------------
(* The history behind the replica. Every frame on its way and the hub's copy  *)
(* are versions the machine published, and a delta leads from one of them to  *)
(* the next; a machine has one version per epoch and revision, so that what a *)
(* delta makes of the copy is a version again. A revision is paid for by a    *)
(* change of the machine's rows.                                              *)
Version(e, r, rows) == [epoch |-> e, revision |-> r, rows |-> Range(rows)]

SourceOk == source \in Catalogs /\ counts.changes <= MaxChanges

PubOk ==
  /\ pub.revision \in Nat
  /\ pub.rows = None => pub.revision = 0
  /\ pub.rows # None =>
       /\ pub.rows \in Catalogs /\ pub.revision >= 1 /\ pub.revision <= counts.changes + 1
       /\ Range(pub.rows) # Range(source) => pub.revision <= counts.changes
       /\ Version(pub.epoch, pub.revision, pub.rows) \in published

PublishedOk ==
  /\ published \subseteq Replica!Versions
  /\ \A w \in published : \/ w.epoch < pub.epoch
                          \/ w.epoch = pub.epoch /\ w.revision <= pub.revision
  /\ \A v, w \in published : v.epoch = w.epoch /\ v.revision = w.revision => v = w

EntryOk ==
  entry # None =>
    /\ entry.state \in {"syncing", "online", "offline"} /\ entry.rows \in Seq(Ids)
    /\ Version(entry.snapEpoch, entry.revision, entry.rows) \in published
    /\ entry.generation \in Nat /\ entry.generation <= counts.connects
    /\ entry.state = "offline" /\ link.state # "offline" => entry.generation < counts.connects

Leads(f, v, w) ==
  /\ v.epoch = f.epoch /\ v.revision = f.prev /\ w.epoch = f.epoch /\ w.revision = f.revision
  /\ Range(f.upserts) = w.rows \ v.rows /\ f.removes = v.rows \ w.rows

Framed(f, P) ==
  /\ f.kind \in {"snapshot", "response"} =>
       f.rows \in Seq(Ids) /\ Version(f.epoch, f.revision, f.rows) \in P
  /\ f.kind = "delta" => f.upserts \in Seq(Ids) /\ \E v, w \in P : Leads(f, v, w)

FramesOk == \A i \in DOMAIN toHub : Framed(toHub[i], published)

History == SourceOk /\ PubOk /\ PublishedOk /\ EntryOk /\ FramesOk

Copy == IF entry = None THEN None
        ELSE [epoch |-> entry.snapEpoch, revision |-> entry.revision,
              rows |-> Range(entry.rows)]
Replicates == [Replica!Next]_<<published, Copy>>

LEMMA CatalogIsSeq ==
  /\ None \notin Catalogs
  /\ \A s \in Catalogs : s \in Seq(Ids) /\ Range(s) \subseteq Ids
<1>1. ASSUME NEW s \in Catalogs PROVE s \in Seq(Ids) /\ Range(s) \subseteq Ids
  <2>1. PICK n \in 0..Cardinality(Ids) : s \in [1..n -> Ids]
    BY <1>1 DEF Catalogs
  <2>2. n \in Nat
    BY FS_CardinalityType, ConstantsAssumption
  <2>3. s \in Seq(Ids)
    BY <2>1, <2>2, SeqDef
  <2> QED BY <2>1, <2>3 DEF Range
<1> QED BY <1>1, ConstantsAssumption

LEMMA EpochsAreNumbers ==
  /\ Epochs \subseteq Nat /\ Revisions \subseteq Nat
  /\ \A v \in Replica!Versions : v.epoch \in Nat /\ v.revision \in Nat
  BY ConstantsAssumption DEF Epochs, Revisions, Replica!Versions

LEMMA FramedStays ==
  ASSUME NEW f, NEW P, NEW Q, P \subseteq Q, Framed(f, P) PROVE Framed(f, Q)
  BY DEF Framed

LEMMA HistoryInit == Init => History /\ Copy = None /\ published = {}
<1> SUFFICES ASSUME Init PROVE History /\ Copy = None /\ published = {}
  OBVIOUS
<1>1. source \in Catalogs
  <2>1. <<>> \in [1..0 -> Ids] /\ 0 \in 0..Cardinality(Ids)
    <3>1. Cardinality(Ids) \in Nat
      BY FS_CardinalityType, ConstantsAssumption
    <3>2. <<>> \in Seq(Ids) /\ Len(<<>>) = 0
      BY EmptySeq
    <3>3. <<>> \in [1..0 -> Ids]
      BY <3>2, LenProperties
    <3> QED BY <3>1, <3>3
  <2>2. DOMAIN <<>> = {}
    BY EmptyIsSeq
  <2> QED BY <2>1, <2>2 DEF Init, Catalogs
<1>2. SourceOk
  BY <1>1, ConstantsAssumption DEF Init, SourceOk
<1>3. PubOk /\ PublishedOk /\ EntryOk
  BY DEF Init, PubOk, PublishedOk, EntryOk, NewProcess
<1>4. FramesOk
  BY EmptyIsSeq DEF Init, FramesOk
<1> QED BY <1>2, <1>3, <1>4 DEF Init, History, Copy

-----------------------------------------------------------------------------
(* What a read publishes, and the frames that carry it.                       *)
Now == Version(Updated.epoch, Updated.revision, Updated.rows)

LEMMA ReadVersion ==
  ASSUME IInv, History
  PROVE  /\ Updated.epoch = pub.epoch /\ Updated.rows \in Catalogs
         /\ Range(Updated.rows) = Range(source)
         /\ Updated.revision \in Nat /\ Updated.revision >= 1
         /\ Updated.revision <= counts.changes + 1 /\ pub.revision <= Updated.revision
         /\ Now \in Replica!Versions
         /\ Now \in published \/ \A w \in published : Replica!Newer(Now, w)
<1> USE DEF IInv, History
<1>1. pub.epoch \in Epochs /\ pub.epoch \in Nat /\ counts.changes \in Nat /\ pub.revision \in Nat
  BY EpochsAreNumbers DEF Shape, PubOk
<1>2. source \in Catalogs /\ Range(source) \subseteq Ids /\ counts.changes <= MaxChanges
  BY CatalogIsSeq DEF SourceOk
<1>3. CASE ~Changed
  <2>1. Updated = pub /\ pub.rows # None /\ Range(pub.rows) = Range(source)
    BY <1>3 DEF Updated, Changed
  <2>2. /\ pub.rows \in Catalogs /\ pub.revision >= 1 /\ pub.revision <= counts.changes + 1
        /\ Version(pub.epoch, pub.revision, pub.rows) \in published
    BY <2>1 DEF PubOk
  <2>3. Now \in published /\ published \subseteq Replica!Versions
    BY <2>1, <2>2 DEF Now, PublishedOk
  <2> QED BY <1>1, <2>1, <2>2, <2>3
<1>4. CASE Changed
  <2>1. Updated = [pub EXCEPT !.revision = @ + 1, !.rows = source]
    BY <1>4 DEF Updated
  <2>2. Updated.epoch = pub.epoch /\ Updated.revision = pub.revision + 1 /\ Updated.rows = source
    BY <2>1 DEF Shape
  <2>3. pub.revision <= counts.changes
    BY <1>1, <1>4 DEF PubOk, Changed
  <2>4. pub.revision + 1 \in Revisions
    BY <1>1, <1>2, <2>3, ConstantsAssumption DEF Revisions
  <2>5. Now = [epoch |-> pub.epoch, revision |-> pub.revision + 1, rows |-> Range(source)]
    BY <2>2 DEF Now, Version
  <2>6. Now \in Replica!Versions
    BY <1>1, <1>2, <2>4, <2>5 DEF Replica!Versions
  <2>7. \A w \in published : Replica!Newer(Now, w)
    <3> SUFFICES ASSUME NEW w \in published PROVE Replica!Newer(Now, w)
      OBVIOUS
    <3>1. w.epoch \in Nat /\ w.revision \in Nat
      BY EpochsAreNumbers DEF PublishedOk
    <3>2. w.epoch < pub.epoch \/ (w.epoch = pub.epoch /\ w.revision <= pub.revision)
      BY DEF PublishedOk
    <3>3. Now.epoch = pub.epoch /\ Now.revision = pub.revision + 1
      BY <2>5
    <3> QED BY <1>1, <3>1, <3>2, <3>3 DEF Replica!Newer
  <2> QED BY <1>1, <1>2, <2>2, <2>3, <2>6, <2>7
<1> QED BY <1>3, <1>4

LEMMA SnapshotFramed ==
  ASSUME IInv, History, NEW kind \in {"snapshot", "response"}
  PROVE  Framed(FullSnapshot(kind, Updated), published \cup {Now})
<1>1. Updated.rows \in Seq(Ids)
  BY ReadVersion, CatalogIsSeq
<1>2. /\ FullSnapshot(kind, Updated).rows = Updated.rows
      /\ FullSnapshot(kind, Updated).epoch = Updated.epoch
      /\ FullSnapshot(kind, Updated).revision = Updated.revision
      /\ FullSnapshot(kind, Updated).kind = kind
  BY DEF FullSnapshot
<1> QED BY <1>1, <1>2 DEF Framed, Now

LEMMA DeltaFramed ==
  ASSUME IInv, History, Publishes
  PROVE  Framed(Delta, published \cup {Now})
<1> DEFINE v == Version(pub.epoch, pub.revision, pub.rows)
<1>1. v \in published /\ Changed /\ pub.rows # None
  BY DEF Publishes, History, PubOk
<1>2. /\ Updated.epoch = pub.epoch /\ Updated.revision = pub.revision + 1
      /\ Updated.rows = source
  BY <1>1 DEF Updated, IInv, Shape
<1>3. /\ Delta.upserts \in Seq(Ids)
      /\ Range(Delta.upserts) = Range(source) \ Range(pub.rows)
  <2>1. source \in Seq(Ids)
    BY CatalogIsSeq DEF History, SourceOk
  <2> QED BY <2>1, WithoutRange DEF Delta
<1>4. /\ Delta.epoch = pub.epoch /\ Delta.prev = pub.revision /\ Delta.kind = "delta"
      /\ Delta.revision = pub.revision + 1
      /\ Delta.removes = Range(pub.rows) \ Range(source)
  BY DEF Delta
<1>5. /\ v.epoch = pub.epoch /\ v.revision = pub.revision /\ v.rows = Range(pub.rows)
      /\ Now.epoch = pub.epoch /\ Now.revision = pub.revision + 1 /\ Now.rows = Range(source)
  BY <1>2 DEF Now, Version
<1> HIDE DEF v
<1>6. Leads(Delta, v, Now)
  BY <1>3, <1>4, <1>5 DEF Leads
<1> QED BY <1>1, <1>3, <1>4, <1>6 DEF Framed

LEMMA FramesFramed ==
  ASSUME IInv, History, NEW frames \in Frames
  PROVE  \A i \in DOMAIN frames : Framed(frames[i], published \cup {Now})
<1>1. CASE frames = <<>>
  BY <1>1, EmptyIsSeq
<1>2. CASE Publishes /\ frames = <<Delta>>
  BY <1>2, DeltaFramed, OneFrame
<1>3. CASE frames = <<FullSnapshot("snapshot", Updated)>>
  BY <1>3, SnapshotFramed, OneFrame
<1> QED BY <1>1, <1>2, <1>3 DEF Frames

LEMMA AnswersFramed ==
  ASSUME IInv, History
  PROVE  \A i \in DOMAIN Answers : Framed(Answers[i], published \cup {Now})
<1> DEFINE first == IF conn.accepting THEN <<FullSnapshot("snapshot", Updated)>> ELSE <<>>
           rest == [i \in 1..conn.waiting |-> FullSnapshot("response", Updated)]
<1>1. /\ Framed(FullSnapshot("snapshot", Updated), published \cup {Now})
      /\ Framed(FullSnapshot("response", Updated), published \cup {Now})
  BY SnapshotFramed
<1>2. IsSeq(first) /\ \A i \in DOMAIN first : Framed(first[i], published \cup {Now})
  BY <1>1, EmptyIsSeq, OneFrame
<1>3. IsSeq(rest) /\ \A i \in DOMAIN rest : Framed(rest[i], published \cup {Now})
  <2>1. conn.waiting \in Nat
    BY DEF IInv, Shape, PeerEnd
  <2>2. rest \in Seq({FullSnapshot("response", Updated)})
    BY <2>1
  <2> QED BY <1>1, <2>2 DEF IsSeq
<1>4. Answers = first \o rest
  BY DEF Answers
<1> HIDE DEF first, rest
<1>5. Joined(first, rest, Answers)
  BY <1>2, <1>3, <1>4, Concatenated
<1> QED BY <1>2, <1>3, <1>5 DEF Joined

-----------------------------------------------------------------------------
(* The steps: each keeps the history, and is a step of the replica or none.   *)
LEMMA PeerHistory ==
  ASSUME History, SourceOk', PubOk', PublishedOk', published \subseteq published',
         NEW t, \A i \in DOMAIN t : Framed(t[i], published'), Joined(toHub, t, toHub'),
         entry' = entry, link' = link, counts'.connects = counts.connects
  PROVE  History'
<1>1. EntryOk'
  BY DEF History, EntryOk
<1>2. FramesOk'
  BY FramedStays DEF History, FramesOk, Joined
<1> QED BY <1>1, <1>2 DEF History

(* The publisher's flags, its rows and its revision untouched.                *)
LEMMA SamePub ==
  ASSUME History, pub'.epoch = pub.epoch, pub'.revision = pub.revision, pub'.rows = pub.rows,
         source' = source, published' = published, counts'.changes = counts.changes
  PROVE  SourceOk' /\ PubOk' /\ PublishedOk'
  BY DEF History, SourceOk, PubOk, PublishedOk

LEMMA QuietHistory ==
  ASSUME IInv, History,
         pub'.epoch = pub.epoch, pub'.revision = pub.revision, pub'.rows = pub.rows,
         UNCHANGED <<source, published, entry, link>>,
         counts'.changes = counts.changes, counts'.connects = counts.connects,
         toHub' = toHub
  PROVE  History' /\ Replicates
<1>1. SourceOk' /\ PubOk' /\ PublishedOk'
  BY SamePub
<1>2. Joined(toHub, <<>>, toHub')
  BY Still DEF IInv
<1>3. \A i \in DOMAIN <<>> : Framed(<<>>[i], published')
  BY EmptyIsSeq
<1>4. History'
  BY <1>1, <1>2, <1>3, PeerHistory
<1>5. UNCHANGED <<published, Copy>>
  BY DEF Copy
<1> QED BY <1>4, <1>5 DEF Replicates

LEMMA SourceHistory == ASSUME IInv, History, SourceChanges PROVE History' /\ Replicates
<1>1. /\ counts.changes < MaxChanges /\ source' \in Catalogs
      /\ counts' = [counts EXCEPT !.changes = @ + 1]
      /\ UNCHANGED <<pub, conn, link, entry, toHub, published>>
  BY DEF SourceChanges, Count, hubVars
<1>2. /\ counts'.changes = counts.changes + 1 /\ counts'.connects = counts.connects
      /\ counts.changes \in Nat
  BY <1>1 DEF IInv, Shape
<1>3. SourceOk' /\ PublishedOk'
  BY <1>1, <1>2, ConstantsAssumption DEF History, SourceOk, PublishedOk
<1>4. PubOk'
  BY <1>1, <1>2 DEF History, PubOk
<1>5. Joined(toHub, <<>>, toHub') /\ \A i \in DOMAIN <<>> : Framed(<<>>[i], published')
  BY <1>1, Still, EmptyIsSeq DEF IInv
<1>6. History'
  BY <1>1, <1>2, <1>3, <1>4, <1>5, PeerHistory
<1>7. UNCHANGED <<published, Copy>>
  BY <1>1 DEF Copy
<1> QED BY <1>6, <1>7 DEF Replicates

LEMMA RefreshedRows ==
  ASSUME Shape
  PROVE  /\ Refreshed(pub).epoch = pub.epoch /\ Refreshed(pub).revision = pub.revision
         /\ Refreshed(pub).rows = pub.rows
         /\ [Refreshed(pub) EXCEPT !.subscribed = TRUE].epoch = pub.epoch
         /\ [Refreshed(pub) EXCEPT !.subscribed = TRUE].revision = pub.revision
         /\ [Refreshed(pub) EXCEPT !.subscribed = TRUE].rows = pub.rows
<1>1. pub = [epoch |-> pub.epoch, revision |-> pub.revision, rows |-> pub.rows,
             running |-> pub.running, pending |-> pub.pending, subscribed |-> pub.subscribed]
  BY DEF Shape
<1> QED BY <1>1 DEF Refreshed

LEMMA TickHistory ==
  ASSUME IInv, History, Ticks \/ PeerTakesRequest PROVE History' /\ Replicates
<1>1. pub' = Refreshed(pub) /\ UNCHANGED <<source, published, entry, link, counts, toHub>>
  BY DEF Ticks, PeerTakesRequest, hubVars
<1>2. pub'.epoch = pub.epoch /\ pub'.revision = pub.revision /\ pub'.rows = pub.rows
  BY <1>1, RefreshedRows DEF IInv
<1> QED BY <1>1, <1>2, QuietHistory

(* A read: what it finds is what is published already, or the next version.   *)
LEMMA ReadHistory ==
  ASSUME IInv, History, NEW frames \in Frames, ReadReturns(frames),
         pub'.epoch = Updated.epoch, pub'.revision = Updated.revision, pub'.rows = Updated.rows
  PROVE  /\ SourceOk' /\ PubOk' /\ PublishedOk' /\ published' = published \cup {Now}
         /\ counts'.connects = counts.connects /\ entry' = entry /\ link' = link
         /\ Replicates
<1>1. /\ published' = published \cup {Now} /\ source' = source /\ entry' = entry /\ link' = link
      /\ Carried(frames)
  BY DEF ReadReturns, hubVars, Now, Version
<1>2. /\ Updated.epoch = pub.epoch /\ Updated.rows \in Catalogs
      /\ Range(Updated.rows) = Range(source)
      /\ Updated.revision \in Nat /\ Updated.revision >= 1
      /\ Updated.revision <= counts.changes + 1 /\ pub.revision <= Updated.revision
      /\ Now \in Replica!Versions
      /\ Now \in published \/ \A w \in published : Replica!Newer(Now, w)
  BY ReadVersion
<1>3. counts'.connects = counts.connects /\ counts'.changes = counts.changes
  BY <1>1 DEF Carried, Count, IInv, Shape
<1>4. SourceOk'
  BY <1>1, <1>3 DEF History, SourceOk
<1>5. PubOk'
  <2>1. Version(pub'.epoch, pub'.revision, pub'.rows) \in published'
    BY <1>1 DEF Now
  <2>2. pub'.rows # None
    BY <1>2, CatalogIsSeq
  <2> QED BY <1>1, <1>2, <1>3, <2>1, <2>2 DEF PubOk
<1>6. Now.epoch = pub.epoch /\ Now.revision = Updated.revision
  BY <1>2 DEF Now, Version
<1>7. PublishedOk'
  <2>1. published' \subseteq Replica!Versions
    BY <1>1, <1>2 DEF History, PublishedOk
  <2>2. \A w \in published' : w.epoch < pub'.epoch \/ (w.epoch = pub'.epoch /\ w.revision <= pub'.revision)
    <3>1. \A w \in published : /\ w.epoch \in Nat /\ w.revision \in Nat
                               /\ \/ w.epoch < pub.epoch
                                  \/ w.epoch = pub.epoch /\ w.revision <= pub.revision
      BY EpochsAreNumbers DEF History, PublishedOk
    <3>2. pub.revision \in Nat
      BY DEF History, PubOk
    <3> QED BY <1>1, <1>2, <1>6, <3>1, <3>2
  <2>3. \A v, w \in published' : v.epoch = w.epoch /\ v.revision = w.revision => v = w
    <3>1. CASE Now \in published
      BY <1>1, <3>1 DEF History, PublishedOk
    <3>2. CASE \A w \in published : Replica!Newer(Now, w)
      <4>1. \A w \in published : ~(w.epoch = Now.epoch /\ w.revision = Now.revision)
        <5>1. \A w \in published : /\ w.epoch \in Nat /\ w.revision \in Nat
                                   /\ Now.epoch > w.epoch
                                      \/ (Now.epoch = w.epoch /\ Now.revision > w.revision)
          BY <3>2, EpochsAreNumbers DEF History, PublishedOk, Replica!Newer
        <5>2. Now.epoch \in Nat /\ Now.revision \in Nat
          BY <1>2, EpochsAreNumbers
        <5> QED BY <5>1, <5>2
      <4> QED BY <1>1, <4>1 DEF History, PublishedOk
    <3> QED BY <1>2, <3>1, <3>2
  <2> QED BY <2>1, <2>2, <2>3 DEF PublishedOk
<1>8. Replicates
  <2>1. Copy' = Copy
    BY <1>1 DEF Copy
  <2>2. CASE Now \in published
    <3>1. published' = published
      BY <1>1, <2>2
    <3> QED BY <2>1, <3>1 DEF Replicates
  <2>3. CASE \A w \in published : Replica!Newer(Now, w)
    <3>1. Replica!Publish(Now)
      BY <1>1, <2>1, <2>3 DEF Replica!Publish, Copy
    <3>2. Replica!Next
      BY <1>2, <3>1 DEF Replica!Next
    <3> QED BY <3>2 DEF Replicates
  <2> QED BY <1>2, <2>2, <2>3
<1> QED BY <1>1, <1>3, <1>4, <1>5, <1>7, <1>8

LEMMA ReadsAgainHistory == ASSUME IInv, History, ReadsAgain PROVE History' /\ Replicates
<1>1. PICK frames \in Frames : /\ ReadReturns(frames)
                              /\ pub' = [Updated EXCEPT !.pending = FALSE]
                              /\ toHub' = toHub \o frames
  BY DEF ReadsAgain
<1>2. pub'.epoch = Updated.epoch /\ pub'.revision = Updated.revision /\ pub'.rows = Updated.rows
  <2>1. Updated = [epoch |-> Updated.epoch, revision |-> Updated.revision,
                   rows |-> Updated.rows, running |-> Updated.running,
                   pending |-> Updated.pending, subscribed |-> Updated.subscribed]
    BY UpdatedShape DEF IInv
  <2> HIDE DEF Updated
  <2> QED BY <1>1, <2>1
<1>3. Joined(toHub, frames, toHub')
  BY <1>1, FramesShape, Concatenated DEF IInv
<1>4. /\ SourceOk' /\ PubOk' /\ PublishedOk' /\ published' = published \cup {Now}
      /\ counts'.connects = counts.connects /\ entry' = entry /\ link' = link
      /\ Replicates
  BY <1>1, <1>2, ReadHistory
<1>5. \A i \in DOMAIN frames : Framed(frames[i], published')
  BY <1>4, FramesFramed
<1>6. published \subseteq published'
  BY <1>4
<1>7. History'
  BY <1>3, <1>4, <1>5, <1>6, PeerHistory
<1> QED BY <1>4, <1>7

LEMMA DrainEndsHistory == ASSUME IInv, History, DrainEnds PROVE History' /\ Replicates
<1>1. PICK frames \in Frames : /\ ReadReturns(frames)
                              /\ pub' = [Updated EXCEPT !.running = FALSE]
                              /\ toHub' = toHub \o frames \o Answers
  BY DEF DrainEnds
<1>2. pub'.epoch = Updated.epoch /\ pub'.revision = Updated.revision /\ pub'.rows = Updated.rows
  <2>1. Updated = [epoch |-> Updated.epoch, revision |-> Updated.revision,
                   rows |-> Updated.rows, running |-> Updated.running,
                   pending |-> Updated.pending, subscribed |-> Updated.subscribed]
    BY UpdatedShape DEF IInv
  <2> HIDE DEF Updated
  <2> QED BY <1>1, <2>1
<1> DEFINE u == toHub \o frames
<1>3. IsSeq(Answers)
  BY AnswersShape DEF IInv, Shape
<1>4. Joined(toHub, frames, u)
  BY FramesShape, Concatenated DEF IInv
<1>5. Joined(u, Answers, toHub')
  <2>1. toHub' = u \o Answers /\ IsSeq(u)
    BY <1>1, <1>4 DEF Joined
  <2> HIDE DEF u
  <2> QED BY <1>3, <2>1, Concatenated
<1>6. /\ SourceOk' /\ PubOk' /\ PublishedOk' /\ published' = published \cup {Now}
      /\ counts'.connects = counts.connects /\ entry' = entry /\ link' = link
      /\ Replicates
  BY <1>1, <1>2, ReadHistory
<1>7. FramesOk'
  <2>1. \A i \in DOMAIN toHub : Framed(toHub[i], published')
    BY <1>6, FramedStays DEF History, FramesOk
  <2>2. /\ \A i \in DOMAIN frames : Framed(frames[i], published')
        /\ \A i \in DOMAIN Answers : Framed(Answers[i], published')
    BY <1>6, FramesFramed, AnswersFramed
  <2> HIDE DEF u
  <2>3. \A i \in DOMAIN u : Framed(u[i], published')
    BY <1>4, <2>1, <2>2 DEF Joined
  <2> QED BY <1>5, <2>2, <2>3 DEF FramesOk, Joined
<1>8. EntryOk'
  BY <1>6 DEF History, EntryOk
<1> QED BY <1>6, <1>7, <1>8 DEF History

(* The connection closes: the copy stays, offline, or is forgotten.           *)
LEMMA CloseHistory ==
  ASSUME IInv, History, SourceOk', PubOk', PublishedOk', published' = published,
         counts'.connects = counts.connects, toHub' = <<>>, link'.state = "offline",
         entry' = IF entry = None THEN None ELSE [entry EXCEPT !.state = "offline"]
  PROVE  History' /\ Replicates
<1>1. FramesOk'
  BY EmptyIsSeq DEF FramesOk
<1>2. CASE entry = None
  BY <1>1, <1>2 DEF History, EntryOk, Replicates, Copy
<1>3. CASE entry # None
  <2>1. /\ entry' = [entry EXCEPT !.state = "offline"]
        /\ entry = [generation |-> entry.generation, epoch |-> entry.epoch,
                    state |-> entry.state, revision |-> entry.revision,
                    rows |-> entry.rows, snapEpoch |-> entry.snapEpoch]
    BY <1>3 DEF IInv, Shape
  <2>2. /\ entry'.state = "offline" /\ entry'.generation = entry.generation
        /\ entry'.revision = entry.revision /\ entry'.rows = entry.rows
        /\ entry'.snapEpoch = entry.snapEpoch
    BY <2>1
  <2>3. EntryOk'
    BY <1>3, <2>2 DEF History, EntryOk
  <2>4. entry' = None => Replica!Forget
    BY DEF Replica!Forget, Copy
  <2>5. entry' # None => Copy' = Copy
    BY <1>3, <2>2 DEF Copy
  <2> QED BY <1>1, <2>3, <2>4, <2>5 DEF History, Replicates, Replica!Next
<1> QED BY <1>2, <1>3

LEMMA ReadFailsHistory == ASSUME IInv, History, ReadFails PROVE History' /\ Replicates
<1>1. /\ pub' = [pub EXCEPT !.running = FALSE]
      /\ counts' = [counts EXCEPT !.failures = @ + 1]
      /\ source' = source /\ published' = published
  BY DEF ReadFails, Count
<1>2. /\ pub'.epoch = pub.epoch /\ pub'.revision = pub.revision /\ pub'.rows = pub.rows
      /\ counts'.changes = counts.changes /\ counts'.connects = counts.connects
  BY <1>1 DEF IInv, Shape
<1>3. CASE Disconnected
  <2>1. link'.state = "offline" /\ toHub' = <<>>
        /\ entry' = IF entry = None THEN None ELSE [entry EXCEPT !.state = "offline"]
    BY <1>3, DisconnectedShape DEF Disconnected, IInv
  <2> QED BY <1>1, <1>2, <2>1, SamePub, CloseHistory
<1>4. CASE UNCHANGED <<toHub, toPeer, link, entry>>
  BY <1>1, <1>2, <1>4, QuietHistory
<1> QED BY <1>3, <1>4 DEF ReadFails

LEMMA DropsHistory ==
  ASSUME IInv, History, Drops \/ PeerRestarts PROVE History' /\ Replicates
<1>1. link'.state = "offline" /\ toHub' = <<>> /\ source' = source /\ counts' = counts
      /\ published' = published
      /\ entry' = IF entry = None THEN None ELSE [entry EXCEPT !.state = "offline"]
  BY DisconnectedShape DEF Drops, PeerRestarts, Disconnected, IInv
<1>2. CASE Drops
  <2>1. pub' = pub
    BY <1>2 DEF Drops
  <2> QED BY <1>1, <2>1, SamePub, CloseHistory
<1>3. CASE PeerRestarts
  <2>1. /\ pub'.epoch = pub.epoch + 1 /\ pub'.revision = 0 /\ pub'.rows = None
        /\ pub.epoch \in Nat
    BY <1>3, EpochsAreNumbers DEF PeerRestarts, NewProcess, IInv, Shape
  <2>2. SourceOk' /\ PubOk'
    BY <1>1, <2>1 DEF History, SourceOk, PubOk
  <2>3. PublishedOk'
    <3>1. \A w \in published : /\ w.epoch \in Nat
                               /\ w.epoch < pub.epoch \/ w.epoch = pub.epoch
      BY EpochsAreNumbers DEF History, PublishedOk
    <3>2. \A w \in published : w.epoch < pub'.epoch
      BY <2>1, <3>1
    <3> QED BY <1>1, <3>2 DEF History, PublishedOk
  <2> QED BY <1>1, <2>2, <2>3, CloseHistory
<1> QED BY <1>2, <1>3

LEMMA HubRestartsHistory == ASSUME IInv, History, HubRestarts PROVE History' /\ Replicates
<1>1. entry' = None /\ toHub' = <<>> /\ UNCHANGED <<source, pub, counts, published>>
  BY DEF HubRestarts
<1>2. History'
  BY <1>1, SamePub, EmptyIsSeq DEF History, FramesOk, EntryOk
<1>3. Replica!Forget
  BY <1>1 DEF Replica!Forget, Copy
<1> QED BY <1>2, <1>3 DEF Replicates, Replica!Next

(* The link alone moves, or the number of connections grows while it is down. *)
LEMMA LinkHistory ==
  ASSUME IInv, History, UNCHANGED <<source, pub, entry, toHub, published>>,
         counts'.changes = counts.changes, counts'.connects \in Nat,
         \/ counts'.connects > counts.connects
         \/ counts'.connects = counts.connects /\ link.state # "offline"
  PROVE  History' /\ Replicates
<1>1. counts.connects \in Nat
  BY ConstantsAssumption DEF IInv, Shape
<1>2. EntryOk'
  BY <1>1 DEF History, EntryOk
<1>3. History'
  BY <1>2, SamePub DEF History, FramesOk
<1> QED BY <1>3 DEF Replicates, Copy

LEMMA ConnectionHistory ==
  ASSUME IInv, History, Dials \/ HubVerifies \/ Degrades PROVE History' /\ Replicates
<1>1. counts \in [changes : Nat, connects : 0..MaxConnects, lost : Nat, failures : Nat]
      /\ counts.connects \in Nat
  BY ConstantsAssumption DEF IInv, Shape
<1>2. CASE Dials
  <2>1. counts'.connects = counts.connects + 1 /\ counts'.changes = counts.changes
    BY <1>1, <1>2 DEF Dials, Count
  <2> QED BY <1>1, <1>2, <2>1, LinkHistory DEF Dials, peerVars
<1>3. CASE HubVerifies \/ Degrades
  BY <1>1, <1>3, LinkHistory DEF HubVerifies, Degrades, peerVars
<1> QED BY <1>2, <1>3

LEMMA HeartbeatsHistory ==
  ASSUME IInv, History, PeerAccepts \/ PeerBeats PROVE History' /\ Replicates
<1> DEFINE h == Heartbeat(counts.connects)
<1>1. Framed(h, published')
  BY DEF Framed, Heartbeat
<1>2. UNCHANGED <<source, entry, link, counts, published>>
  BY DEF PeerAccepts, PeerBeats, peerVars, hubVars
<1>3. pub'.epoch = pub.epoch /\ pub'.revision = pub.revision /\ pub'.rows = pub.rows
  <2>1. CASE PeerAccepts
    BY <2>1, RefreshedRows DEF PeerAccepts, IInv
  <2>2. CASE PeerBeats
    BY <2>2 DEF PeerBeats, peerVars
  <2> QED BY <2>1, <2>2
<1>4. SourceOk' /\ PubOk' /\ PublishedOk'
  BY <1>2, <1>3, SamePub
<1>5. FramesOk'
  <2>1. CASE PeerAccepts
    <3>1. toHub' = <<h>>
      BY <2>1 DEF PeerAccepts
    <3> HIDE DEF h
    <3> QED BY <1>1, <3>1, OneFrame DEF FramesOk
  <2>2. CASE PeerBeats
    <3>1. toHub' = Append(toHub, h)
      BY <2>2 DEF PeerBeats
    <3> HIDE DEF h
    <3>2. Joined(toHub, <<h>>, toHub')
      BY <3>1, Appended DEF IInv
    <3> QED BY <1>1, <1>2, <3>2, OneFrame DEF History, FramesOk, Joined
  <2> QED BY <2>1, <2>2
<1>6. EntryOk'
  BY <1>2 DEF History, EntryOk
<1> QED BY <1>2, <1>4, <1>5, <1>6 DEF History, Replicates, Copy

-----------------------------------------------------------------------------
(* A frame taken by the hub.                                                  *)
LEMMA TakenHistory ==
  ASSUME IInv, History, toHub # <<>>, toHub' = Tail(toHub),
         UNCHANGED <<peerVars, counts, published>>, EntryOk'
  PROVE  History'
<1>1. /\ IsSeq(toHub)
      /\ UNCHANGED <<source, pub>>
  BY DEF IInv, peerVars
<1>2. FramesOk'
  BY <1>1, TailShape DEF History, FramesOk
<1> QED BY <1>1, <1>2, SamePub DEF History

(* The copy kept as it is, apart from its connection and state.               *)
LEMMA CopyKept ==
  ASSUME IInv, History, UNCHANGED <<counts, published>>, link.state # "offline",
         entry' = entry
  PROVE  EntryOk' /\ Replicates
<1>1. counts.connects \in Nat
  BY ConstantsAssumption DEF IInv, Shape
<1> QED BY <1>1 DEF History, EntryOk, Replicates, Copy

LEMMA CopyMoved ==
  ASSUME IInv, History, UNCHANGED <<counts, published>>, entry # None,
         NEW g \in {entry.generation, counts.connects}, NEW e, NEW s \in {"syncing", "online"},
         entry' = [entry EXCEPT !.generation = g, !.epoch = e, !.state = s]
  PROVE  EntryOk' /\ Replicates
<1>1. counts.connects \in Nat
  BY ConstantsAssumption DEF IInv, Shape
<1>2. entry = [generation |-> entry.generation, epoch |-> entry.epoch,
               state |-> entry.state, revision |-> entry.revision,
               rows |-> entry.rows, snapEpoch |-> entry.snapEpoch]
  BY DEF IInv, Shape
<1>3. /\ entry'.generation = g /\ entry'.state = s /\ entry'.revision = entry.revision
      /\ entry'.rows = entry.rows /\ entry'.snapEpoch = entry.snapEpoch
  BY <1>2
<1>4. EntryOk'
  BY <1>1, <1>3 DEF History, EntryOk
<1>5. entry' = None => Replica!Forget
  BY DEF Replica!Forget, Copy
<1>6. entry' # None => UNCHANGED <<published, Copy>>
  BY <1>3 DEF Copy
<1> QED BY <1>4, <1>5, <1>6 DEF Replicates, Replica!Next

LEMMA HeartbeatHistory ==
  ASSUME IInv, History, toHub # <<>>, toHub' = Tail(toHub),
         UNCHANGED <<peerVars, counts, published>>,
         Head(toHub).kind = "heartbeat", TakesHeartbeat(Head(toHub))
  PROVE  History' /\ Replicates
<1> DEFINE g == Head(toHub).generation
<1>1. g = counts.connects /\ link.state # "offline"
  BY Arrives DEF Verified
<1>2. entry' = IF entry = None \/ entry.generation = g THEN entry
               ELSE [entry EXCEPT !.generation = g, !.epoch = link.hello, !.state = "syncing"]
  BY DEF TakesHeartbeat
<1> HIDE DEF g
<1>3. EntryOk' /\ Replicates
  <2>1. CASE entry' = entry
    BY <1>1, <2>1, CopyKept
  <2>2. CASE entry # None /\ entry' = [entry EXCEPT !.generation = g, !.epoch = link.hello,
                                                    !.state = "syncing"]
    BY <1>1, <2>2, CopyMoved
  <2> QED BY <1>2, <2>1, <2>2
<1> QED BY <1>3, TakenHistory

LEMMA ResyncHistory ==
  ASSUME IInv, History, toHub # <<>>, toHub' = Tail(toHub),
         UNCHANGED <<peerVars, counts, published>>, Resync
  PROVE  History' /\ Replicates
<1>1. link.state # "offline"
  BY Arrives DEF Verified
<1>2. EntryOk' /\ Replicates
  <2>1. CASE entry = None
    BY <1>1, <2>1, CopyKept DEF Resync
  <2>2. CASE entry # None
    <3>1. entry' = [entry EXCEPT !.state = "syncing"]
      BY <2>2 DEF Resync
    <3>2. entry' = [entry EXCEPT !.generation = entry.generation, !.epoch = entry.epoch,
                                 !.state = "syncing"]
      BY <2>2, <3>1 DEF IInv, Shape
    <3> QED BY <2>2, <3>2, CopyMoved
  <2> QED BY <2>1, <2>2
<1> QED BY <1>2, TakenHistory

(* A copy replaced by a snapshot: of this process, and newer than the old.    *)
LEMMA AdoptHistory ==
  ASSUME IInv, History, toHub # <<>>, toHub' = Tail(toHub),
         UNCHANGED <<peerVars, counts, published>>,
         NEW f, f = Head(toHub), f.kind \in {"snapshot", "response"},
         ~Refused(f), ~SameRevision(f),
         entry' = [generation |-> link.generation, epoch |-> link.hello, state |-> "online",
                   revision |-> f.revision, rows |-> f.rows, snapEpoch |-> link.hello]
  PROVE  History' /\ Replicates
<1> DEFINE v == Version(f.epoch, f.revision, f.rows)
<1>1. v \in published /\ f.rows \in Seq(Ids)
  <2>1. 1 \in DOMAIN toHub /\ f = toHub[1]
    BY TailShape DEF IInv
  <2>2. Framed(f, published)
    BY <2>1 DEF History, FramesOk
  <2> QED BY <2>2 DEF Framed
<1>2. /\ f.epoch = link.hello /\ link.hello = pub.epoch /\ link.generation \in Nat
      /\ link.generation <= counts.connects /\ counts.connects \in Nat
  <2>1. Verified
    BY Arrives
  <2>2. link.generation \in 0..MaxConnects /\ counts.connects \in 0..MaxConnects
    BY DEF IInv, Shape, HubEnd
  <2>3. link.generation \in {0, counts.connects} /\ link.hello = pub.epoch
    BY <2>1 DEF IInv, LinkIsCurrent
  <2> QED BY <2>2, <2>3, ConstantsAssumption DEF Refused
<1>3. /\ entry'.generation = link.generation /\ entry'.state = "online"
      /\ entry'.revision = f.revision /\ entry'.rows = f.rows /\ entry'.snapEpoch = f.epoch
  BY <1>2
<1>4. EntryOk'
  BY <1>1, <1>2, <1>3 DEF EntryOk, v
<1>5. Copy' = v \/ entry' = None
  BY <1>3 DEF Copy, Version
<1>6. Copy = None \/ Replica!Newer(v, Copy)
  <2> SUFFICES ASSUME entry # None PROVE Replica!Newer(v, Copy)
    BY DEF Copy
  <2> DEFINE w == Version(entry.snapEpoch, entry.revision, entry.rows)
  <2>1. w \in published /\ Copy = w
    BY DEF History, EntryOk, Copy, Version
  <2>2. /\ w.epoch = entry.snapEpoch /\ w.revision = entry.revision
        /\ v.epoch = pub.epoch /\ v.revision = f.revision
    BY <1>2 DEF Version
  <2>3. /\ w.epoch \in Nat /\ w.revision \in Nat /\ v.epoch \in Nat /\ v.revision \in Nat
        /\ w.epoch < pub.epoch \/ w.epoch = pub.epoch
    BY <1>1, <2>1, EpochsAreNumbers DEF History, PublishedOk
  <2> HIDE DEF v, w
  <2>4. CASE entry.snapEpoch = link.hello
    <3>1. ~(f.revision < entry.revision) /\ f.revision # entry.revision
      BY <2>4 DEF Refused, SameRevision
    <3> QED BY <1>2, <2>1, <2>2, <2>3, <2>4, <3>1 DEF Replica!Newer
  <2>5. CASE entry.snapEpoch # link.hello
    BY <1>2, <2>1, <2>2, <2>3, <2>5 DEF Replica!Newer
  <2> QED BY <2>4, <2>5
<1>7. Replicates
  <2>1. CASE entry' = None
    BY <2>1 DEF Replicates, Replica!Next, Replica!Forget, Copy
  <2>2. CASE entry' # None
    <3>1. Replica!Adopt(v)
      BY <1>5, <1>6, <2>2 DEF Replica!Adopt, Copy
    <3> HIDE DEF v
    <3> QED BY <1>1, <3>1 DEF Replicates, Replica!Next
  <2> QED BY <2>1, <2>2
<1> QED BY <1>4, <1>7, TakenHistory

LEMMA SnapshotHistory ==
  ASSUME IInv, History, toHub # <<>>, toHub' = Tail(toHub),
         UNCHANGED <<peerVars, counts, published>>,
         Head(toHub).kind \in {"snapshot", "response"}, TakesSnapshot(Head(toHub))
  PROVE  History' /\ Replicates
<1> DEFINE f == Head(toHub)
<1>1. link.state # "offline"
  BY Arrives DEF Verified
<1>2. \/ UNCHANGED <<hubVars, toPeer>>
      \/ Resync
      \/ entry # None /\ Applies([entry EXCEPT !.state = "online"])
      \/ /\ ~Refused(f) /\ ~SameRevision(f)
         /\ Applies([generation |-> link.generation, epoch |-> link.hello, state |-> "online",
                     revision |-> f.revision, rows |-> f.rows, snapEpoch |-> link.hello])
  BY DEF TakesSnapshot, SameRevision
<1>3. CASE UNCHANGED <<hubVars, toPeer>>
  BY <1>1, <1>3, CopyKept, TakenHistory DEF hubVars
<1>4. CASE Resync
  BY <1>4, ResyncHistory
<1>5. CASE entry # None /\ Applies([entry EXCEPT !.state = "online"])
  <2>1. entry' = [entry EXCEPT !.generation = entry.generation, !.epoch = entry.epoch,
                               !.state = "online"]
    BY <1>5 DEF Applies, IInv, Shape
  <2>2. EntryOk' /\ Replicates
    BY <1>5, <2>1, CopyMoved
  <2> QED BY <2>2, TakenHistory
<1>6. CASE /\ ~Refused(f) /\ ~SameRevision(f)
           /\ Applies([generation |-> link.generation, epoch |-> link.hello,
                       state |-> "online", revision |-> f.revision, rows |-> f.rows,
                       snapEpoch |-> link.hello])
  BY <1>6, AdoptHistory DEF Applies
<1> QED BY <1>2, <1>3, <1>4, <1>5, <1>6

(* What a delta that follows makes of the copy is the version it leads to.    *)
LEMMA PatchedRows ==
  ASSUME NEW rows \in Seq(Ids), NEW f, f.upserts \in Seq(Ids)
  PROVE  /\ Patched(rows, f) \in Seq(Ids)
         /\ Range(Patched(rows, f)) = (Range(rows) \ f.removes) \cup (Range(f.upserts) \ Range(rows))
<1>1. /\ Without(rows, f.removes) \in Seq(Ids)
      /\ Range(Without(rows, f.removes)) = Range(rows) \ f.removes
  BY WithoutRange
<1>2. /\ Without(f.upserts, Range(rows)) \in Seq(Ids)
      /\ Range(Without(f.upserts, Range(rows))) = Range(f.upserts) \ Range(rows)
  BY WithoutRange
<1> QED BY <1>1, <1>2, RangeOfConcat DEF Patched

LEMMA FollowHistory ==
  ASSUME IInv, History, toHub # <<>>, toHub' = Tail(toHub),
         UNCHANGED <<peerVars, counts, published>>,
         NEW f, f = Head(toHub), f.kind = "delta", entry # None,
         entry.generation = link.generation, Follows(f),
         entry' = [entry EXCEPT !.revision = f.revision, !.rows = Patched(@, f)]
  PROVE  History' /\ Replicates
<1>1. Framed(f, published)
  <2>1. 1 \in DOMAIN toHub /\ f = toHub[1]
    BY TailShape DEF IInv
  <2> QED BY <2>1 DEF History, FramesOk
<1>2. PICK v \in published, w \in published : Leads(f, v, w)
  BY <1>1 DEF Framed
<1>3. f.upserts \in Seq(Ids)
  BY <1>1 DEF Framed
<1>4. entry.state = "online"
  <2>1. Verified /\ link.generation # 0
    BY Arrives
  <2>2. link.generation = counts.connects /\ link.state # "offline" /\ counts.connects \in Nat
    BY <2>1, ConstantsAssumption DEF Verified, IInv, LinkIsCurrent, Shape
  <2>3. entry.state \in {"syncing", "online", "offline"} /\ entry.state # "syncing"
    BY DEF History, EntryOk, Follows
  <2>4. entry.state # "offline"
    BY <2>2 DEF History, EntryOk
  <2> QED BY <2>3, <2>4
<1>5. entry.snapEpoch = pub.epoch /\ f.epoch = pub.epoch
  <2>1. entry.snapEpoch = pub.epoch
    BY <1>4 DEF IInv, LiveRowsAreCurrent
  <2>2. f.epoch = link.hello /\ link.hello = pub.epoch
    BY Arrives DEF Follows, IInv, LinkIsCurrent
  <2> QED BY <2>1, <2>2
<1> DEFINE u == Version(entry.snapEpoch, entry.revision, entry.rows)
<1>6. u = v /\ entry.rows \in Seq(Ids)
  <2>1. u \in published /\ entry.rows \in Seq(Ids)
    BY DEF History, EntryOk
  <2>2. u.epoch = v.epoch /\ u.revision = v.revision
    BY <1>2, <1>5 DEF Leads, Follows, Version
  <2> HIDE DEF u
  <2> QED BY <1>2, <2>1, <2>2 DEF History, PublishedOk
<1>7. v.rows = Range(entry.rows)
  BY <1>6 DEF Version
<1>8. Range(Patched(entry.rows, f)) = w.rows /\ Patched(entry.rows, f) \in Seq(Ids)
  <2>1. Range(f.upserts) = w.rows \ v.rows /\ f.removes = v.rows \ w.rows
    BY <1>2 DEF Leads
  <2>2. Range(Patched(entry.rows, f)) = (Range(entry.rows) \ f.removes)
                                        \cup (Range(f.upserts) \ Range(entry.rows))
    BY <1>3, <1>6, PatchedRows
  <2>3. Patched(entry.rows, f) \in Seq(Ids)
    BY <1>3, <1>6, PatchedRows
  <2>4. \A V, W : (V \ (V \ W)) \cup ((W \ V) \ V) = W
    OBVIOUS
  <2>5. Range(Patched(entry.rows, f)) = (v.rows \ (v.rows \ w.rows)) \cup ((w.rows \ v.rows) \ v.rows)
    BY <1>7, <2>1, <2>2
  <2> QED BY <2>3, <2>4, <2>5
<1>9. /\ entry'.generation = entry.generation /\ entry'.state = entry.state
      /\ entry'.revision = f.revision /\ entry'.rows = Patched(entry.rows, f)
      /\ entry'.snapEpoch = pub.epoch
  <2>1. entry = [generation |-> entry.generation, epoch |-> entry.epoch,
                 state |-> entry.state, revision |-> entry.revision,
                 rows |-> entry.rows, snapEpoch |-> entry.snapEpoch]
    BY DEF IInv, Shape
  <2> QED BY <1>5, <2>1
<1>10. Version(entry'.snapEpoch, entry'.revision, entry'.rows) = w
  <2>1. w = [epoch |-> w.epoch, revision |-> w.revision, rows |-> w.rows]
    BY <1>2 DEF History, PublishedOk, Replica!Versions
  <2>2. w.epoch = pub.epoch /\ w.revision = f.revision
    BY <1>2, <1>5 DEF Leads
  <2> QED BY <1>8, <1>9, <2>1, <2>2 DEF Version
<1>11. EntryOk'
  BY <1>2, <1>4, <1>8, <1>9, <1>10 DEF History, EntryOk
<1>12. Replica!Newer(w, Copy)
  <2>1. Copy.epoch = pub.epoch /\ Copy.revision = entry.revision
    BY <1>5 DEF Copy
  <2>2. w.epoch = pub.epoch /\ w.revision = entry.revision + 1
    BY <1>2, <1>5 DEF Leads, Follows
  <2>3. entry.revision \in Nat
    <3>1. u \in published /\ u.revision = entry.revision
      BY DEF History, EntryOk, Version
    <3> HIDE DEF u
    <3> QED BY <3>1, EpochsAreNumbers DEF History, PublishedOk
  <2> QED BY <2>1, <2>2, <2>3 DEF Replica!Newer
<1>13. Replicates
  <2>1. CASE entry' = None
    BY <2>1 DEF Replicates, Replica!Next, Replica!Forget, Copy
  <2>2. CASE entry' # None
    <3>1. Copy' = w
      BY <1>10, <2>2 DEF Copy, Version
    <3>2. Replica!Adopt(w)
      BY <1>12, <3>1 DEF Replica!Adopt, Copy
    <3> QED BY <1>2, <3>2 DEF Replicates, Replica!Next
  <2> QED BY <2>1, <2>2
<1> QED BY <1>11, <1>13, TakenHistory

LEMMA DeltaHistory ==
  ASSUME IInv, History, toHub # <<>>, toHub' = Tail(toHub),
         UNCHANGED <<peerVars, counts, published>>,
         Head(toHub).kind = "delta", TakesDelta(Head(toHub))
  PROVE  History' /\ Replicates
<1> DEFINE f == Head(toHub)
<1>1. link.state # "offline"
  BY Arrives DEF Verified
<1>2. \/ UNCHANGED <<hubVars, toPeer>>
      \/ Resync
      \/ /\ entry # None /\ entry.generation = link.generation /\ Follows(f)
         /\ entry' = [entry EXCEPT !.revision = f.revision, !.rows = Patched(@, f)]
  BY DEF TakesDelta
<1>3. CASE UNCHANGED <<hubVars, toPeer>>
  BY <1>1, <1>3, CopyKept, TakenHistory DEF hubVars
<1>4. CASE Resync
  BY <1>4, ResyncHistory
<1>5. CASE /\ entry # None /\ entry.generation = link.generation /\ Follows(f)
           /\ entry' = [entry EXCEPT !.revision = f.revision, !.rows = Patched(@, f)]
  BY <1>5, FollowHistory
<1> QED BY <1>2, <1>3, <1>4, <1>5

LEMMA HubHistory == ASSUME IInv, History, HubReceives PROVE History' /\ Replicates
<1>1. /\ toHub # <<>> /\ toHub' = Tail(toHub) /\ UNCHANGED <<peerVars, counts, published>>
      /\ LET f == Head(toHub) IN
           \/ f.kind = "heartbeat" /\ TakesHeartbeat(f)
           \/ f.kind \in {"snapshot", "response"} /\ TakesSnapshot(f)
           \/ f.kind = "delta" /\ TakesDelta(f)
  BY DEF HubReceives
<1> QED BY <1>1, HeartbeatHistory, SnapshotHistory, DeltaHistory

LEMMA HistoryStep == IInv /\ History /\ [Next]_vars => History' /\ Replicates
<1> SUFFICES ASSUME IInv, History, [Next]_vars PROVE History' /\ Replicates
  OBVIOUS
<1>1. CASE UNCHANGED vars
  BY <1>1, QuietHistory DEF vars, peerVars, hubVars
<1>2. CASE Next
  BY <1>2, SourceHistory, TickHistory, ReadsAgainHistory, DrainEndsHistory, ReadFailsHistory,
     ConnectionHistory, HeartbeatsHistory, DropsHistory, HubRestartsHistory, HubHistory
     DEF Next
<1> QED BY <1>1, <1>2

(* The hub's copy is a version the machine published, whole, and moves only   *)
(* forward: deltas, snapshots and the answers to requests for one may cross,  *)
(* get lost or come after a restart of either side (delta, snapshot).         *)
THEOREM CatalogIsReplica == Spec => ImplementsReplica
<1>1. History /\ Copy = None /\ published = {} => Replica!Init
  BY DEF Replica!Init, Copy
<1>2. Replicates => [Replica!Next]_<<published, Copy>>
  BY DEF Replicates
<1> QED
  BY <1>1, <1>2, InitHolds, StepHolds, HistoryInit, HistoryStep, PTL
     DEF Spec, ImplementsReplica, Replica!Spec, Copy

-----------------------------------------------------------------------------
(* Counting the frames of a sequence that carry a revision of their own: the  *)
(* snapshots and deltas behind the i-th frame.                                *)
Ahead(s, i) == {j \in DOMAIN s : j > i /\ s[j].kind \in {"snapshot", "delta"}}
Later(s, i) == Cardinality(Ahead(s, i))

LEMMA AheadIsFinite ==
  ASSUME NEW s, IsSeq(s), NEW i
  PROVE  IsFiniteSet(Ahead(s, i)) /\ Later(s, i) \in Nat
<1>1. PICK S : s \in Seq(S)
  BY DEF IsSeq
<1>2. DOMAIN s = 1..Len(s) /\ Len(s) \in Nat
  BY <1>1, LenProperties
<1>3. IsFiniteSet(1..Len(s))
  BY <1>2, FS_Interval
<1>4. Ahead(s, i) \in SUBSET (1..Len(s))
  BY <1>2 DEF Ahead
<1>5. IsFiniteSet(Ahead(s, i))
  BY <1>3, <1>4, FS_Subset
<1> QED BY <1>5, FS_CardinalityType DEF Later

LEMMA ShiftedCount ==
  ASSUME NEW S \in SUBSET Nat, NEW T \in SUBSET Nat, NEW n \in Nat, IsFiniteSet(S),
         \A j \in S : j + n \in T, \A j \in T : j - n \in S
  PROVE  IsFiniteSet(T) /\ Cardinality(T) = Cardinality(S)
<1> DEFINE F == [j \in S |-> j + n]
<1>1. F \in [S -> T]
  OBVIOUS
<1>2. \A a, b \in S : F[a] = F[b] => a = b
  OBVIOUS
<1>3. \A t \in T : \E j \in S : F[j] = t
  <2> SUFFICES ASSUME NEW t \in T PROVE \E j \in S : F[j] = t
    OBVIOUS
  <2>1. t - n \in S /\ t \in Nat
    OBVIOUS
  <2>2. F[t - n] = (t - n) + n
    BY <2>1
  <2>3. F[t - n] = t
    BY <2>1, <2>2
  <2> QED BY <2>1, <2>3
<1> HIDE DEF F
<1>4. F \in Bijection(S, T)
  BY <1>1, <1>2, <1>3 DEF Bijection, Injection, Surjection, IsInjective
<1>5. ExistsBijection(S, T)
  BY <1>4 DEF ExistsBijection
<1> QED BY <1>5, FS_Bijection

LEMMA ConcatShape ==
  ASSUME NEW s, NEW t, IsSeq(s), IsSeq(t)
  PROVE  /\ Len(s) \in Nat /\ DOMAIN s = 1..Len(s) /\ Len(t) \in Nat /\ DOMAIN t = 1..Len(t)
         /\ DOMAIN (s \o t) = 1..(Len(s) + Len(t))
         /\ \A i \in 1..Len(s) : (s \o t)[i] = s[i]
         /\ \A i \in 1..Len(t) : (s \o t)[Len(s) + i] = t[i]
         /\ IsSeq(s \o t)
<1>1. PICK S : s \in Seq(S)
  BY DEF IsSeq
<1>2. PICK T : t \in Seq(T)
  BY DEF IsSeq
<1> DEFINE U == S \cup T
<1>3. s \in Seq(U) /\ t \in Seq(U)
  BY <1>1, <1>2
<1> HIDE DEF U
<1>4. /\ s \o t \in Seq(U)
      /\ Len(s \o t) = Len(s) + Len(t)
      /\ \A i \in 1 .. Len(s) + Len(t) : (s \o t)[i] =
            IF i <= Len(s) THEN s[i] ELSE t[i - Len(s)]
  BY <1>3, ConcatProperties
<1>5. /\ Len(s) \in Nat /\ DOMAIN s = 1..Len(s)
      /\ Len(t) \in Nat /\ DOMAIN t = 1..Len(t)
      /\ DOMAIN (s \o t) = 1..(Len(s) + Len(t))
  BY <1>3, <1>4, LenProperties
<1>6. \A i \in 1..Len(s) : (s \o t)[i] = s[i]
  BY <1>4, <1>5
<1>7. \A i \in 1..Len(t) : (s \o t)[Len(s) + i] = t[i]
  <2> SUFFICES ASSUME NEW i \in 1..Len(t) PROVE (s \o t)[Len(s) + i] = t[i]
    OBVIOUS
  <2>1. Len(s) + i \in 1..(Len(s) + Len(t)) /\ ~(Len(s) + i <= Len(s))
        /\ (Len(s) + i) - Len(s) = i
    BY <1>5
  <2> QED BY <1>4, <2>1
<1> QED BY <1>4, <1>5, <1>6, <1>7 DEF IsSeq

LEMMA LaterInConcat ==
  ASSUME NEW s, NEW t, IsSeq(s), IsSeq(t)
  PROVE  /\ \A i \in 0..Len(s) : Later(s \o t, i) = Later(s, i) + Later(t, 0)
         /\ \A i \in 0..Len(t) : Later(s \o t, Len(s) + i) = Later(t, i)
<1> DEFINE u == s \o t
           n == Len(s)
<1>1. /\ n \in Nat /\ DOMAIN s = 1..n /\ Len(t) \in Nat /\ DOMAIN t = 1..Len(t)
      /\ DOMAIN u = 1..(n + Len(t))
      /\ \A i \in 1..n : u[i] = s[i]
      /\ \A i \in 1..Len(t) : u[n + i] = t[i]
      /\ IsSeq(u)
  BY ConcatShape
<1> HIDE DEF u, n
<1>2. ASSUME NEW i \in 0..Len(t)
      PROVE  IsFiniteSet(Ahead(u, n + i)) /\ Later(u, n + i) = Later(t, i)
  <2>1. \A j \in Ahead(t, i) : j + n \in Ahead(u, n + i)
    <3> SUFFICES ASSUME NEW j \in Ahead(t, i) PROVE j + n \in Ahead(u, n + i)
      OBVIOUS
    <3>1. j \in 1..Len(t) /\ j > i /\ t[j].kind \in {"snapshot", "delta"}
      BY <1>1 DEF Ahead
    <3>2. j + n \in DOMAIN u /\ j + n > n + i /\ j + n = n + j
      BY <1>1, <1>2, <3>1
    <3> QED BY <1>1, <3>1, <3>2 DEF Ahead
  <2>2. \A j \in Ahead(u, n + i) : j - n \in Ahead(t, i)
    <3> SUFFICES ASSUME NEW j \in Ahead(u, n + i) PROVE j - n \in Ahead(t, i)
      OBVIOUS
    <3>1. j \in 1..(n + Len(t)) /\ j > n + i /\ u[j].kind \in {"snapshot", "delta"}
      BY <1>1 DEF Ahead
    <3>2. j - n \in 1..Len(t) /\ j - n > i /\ n + (j - n) = j
      BY <1>1, <1>2, <3>1
    <3>3. u[j] = t[j - n]
      BY <1>1, <3>2
    <3> QED BY <1>1, <3>1, <3>2, <3>3 DEF Ahead
  <2>3. Ahead(t, i) \in SUBSET Nat /\ Ahead(u, n + i) \in SUBSET Nat
    BY <1>1 DEF Ahead
  <2>4. IsFiniteSet(Ahead(t, i))
    BY AheadIsFinite
  <2> QED BY <1>1, <2>1, <2>2, <2>3, <2>4, ShiftedCount DEF Later
<1>3. ASSUME NEW i \in 0..n PROVE Later(u, i) = Later(s, i) + Later(t, 0)
  <2>1. Ahead(u, i) = Ahead(s, i) \cup Ahead(u, n)
    <3>1. Ahead(s, i) \subseteq Ahead(u, i)
      BY <1>1 DEF Ahead
    <3>2. Ahead(u, n) \subseteq Ahead(u, i)
      BY <1>1, <1>3 DEF Ahead
    <3>3. \A j \in Ahead(u, i) : j \in Ahead(s, i) \/ j \in Ahead(u, n)
      <4> SUFFICES ASSUME NEW j \in Ahead(u, i), ~(j > n) PROVE j \in Ahead(s, i)
        BY DEF Ahead
      <4>1. j \in 1..n
        BY <1>1 DEF Ahead
      <4> QED BY <1>1, <4>1 DEF Ahead
    <3> QED BY <3>1, <3>2, <3>3
  <2>2. Ahead(s, i) \cap Ahead(u, n) = {}
    BY <1>1 DEF Ahead
  <2>3. IsFiniteSet(Ahead(u, n)) /\ Later(u, n) = Later(t, 0)
    <3>1. 0 \in 0..Len(t) /\ n + 0 = n
      BY <1>1
    <3> QED BY <1>2, <3>1
  <2>4. IsFiniteSet(Ahead(s, i)) /\ Later(s, i) \in Nat
    BY AheadIsFinite
  <2>5. Cardinality(Ahead(u, i)) = Cardinality(Ahead(s, i)) + Cardinality(Ahead(u, n))
                                   - Cardinality({})
    BY <2>1, <2>2, <2>3, <2>4, FS_Union
  <2>6. Cardinality({}) = 0 /\ Cardinality(Ahead(u, n)) \in Nat
    BY <2>3, FS_EmptySet, FS_CardinalityType
  <2> QED BY <2>3, <2>4, <2>5, <2>6 DEF Later
<1> QED BY <1>2, <1>3 DEF u, n

LEMMA LaterInOne ==
  ASSUME NEW f
  PROVE  /\ Later(<<f>>, 1) = 0
         /\ Later(<<f>>, 0) = IF f.kind \in {"snapshot", "delta"} THEN 1 ELSE 0
         /\ Later(<<>>, 0) = 0
<1>1. DOMAIN <<f>> = {1} /\ <<f>>[1] = f /\ DOMAIN <<>> = {}
  BY OneFrame, EmptyIsSeq
<1>2. Ahead(<<f>>, 1) = {} /\ Ahead(<<>>, 0) = {}
  BY <1>1 DEF Ahead
<1>3. Ahead(<<f>>, 0) = IF f.kind \in {"snapshot", "delta"} THEN {1} ELSE {}
  BY <1>1 DEF Ahead
<1>4. Cardinality({}) = 0 /\ Cardinality({1}) = 1
  BY FS_EmptySet, FS_Singleton
<1> QED BY <1>2, <1>3, <1>4 DEF Later

(* Without a lost frame the revisions on the way count down to the newest.    *)
Chain(s, r) ==
  \A i \in DOMAIN s : s[i].kind # "heartbeat" => s[i].revision + Later(s, i) = r

LEMMA ChainConcat ==
  ASSUME NEW s, NEW t, IsSeq(s), IsSeq(t), NEW r \in Int,
         \A i \in DOMAIN s : s[i].kind # "heartbeat" => s[i].revision \in Nat,
         Chain(s, r), Chain(t, r + Later(t, 0))
  PROVE  Chain(s \o t, r + Later(t, 0))
<1> DEFINE u == s \o t
           n == Len(s)
<1>1. /\ n \in Nat /\ DOMAIN s = 1..n /\ Len(t) \in Nat /\ DOMAIN t = 1..Len(t)
      /\ DOMAIN u = 1..(n + Len(t))
      /\ \A i \in 1..n : u[i] = s[i]
      /\ \A i \in 1..Len(t) : u[n + i] = t[i]
  BY ConcatShape
<1>2. /\ \A i \in 0..n : Later(u, i) = Later(s, i) + Later(t, 0)
      /\ \A i \in 0..Len(t) : Later(u, n + i) = Later(t, i)
  BY LaterInConcat
<1> HIDE DEF u, n
<1>3. Later(t, 0) \in Nat /\ \A i : Later(s, i) \in Nat
  BY AheadIsFinite
<1>4. ASSUME NEW i \in DOMAIN u, u[i].kind # "heartbeat"
      PROVE  u[i].revision + Later(u, i) = r + Later(t, 0)
  <2>1. CASE i \in 1..n
    <3>1. u[i] = s[i] /\ Later(u, i) = Later(s, i) + Later(t, 0) /\ i \in DOMAIN s
      BY <1>1, <1>2, <2>1
    <3>2. s[i].revision + Later(s, i) = r /\ s[i].revision \in Nat
      BY <1>4, <3>1 DEF Chain
    <3> QED BY <1>3, <3>1, <3>2
  <2>2. CASE i \notin 1..n
    <3>1. i - n \in 1..Len(t) /\ n + (i - n) = i
      BY <1>1, <2>2
    <3>2. u[i] = t[i - n] /\ Later(u, i) = Later(t, i - n) /\ i - n \in DOMAIN t
      BY <1>1, <1>2, <3>1
    <3> QED BY <1>4, <3>2 DEF Chain
  <2> QED BY <2>1, <2>2
<1> QED BY <1>4 DEF Chain, u

(* Taking the first frame.                                                    *)
LEMMA HeadAndTail ==
  ASSUME NEW s, IsSeq(s), s # <<>>
  PROVE  /\ s = <<Head(s)>> \o Tail(s) /\ IsSeq(Tail(s)) /\ Head(s) = s[1] /\ 1 \in DOMAIN s
         /\ \A i \in DOMAIN Tail(s) : i + 1 \in DOMAIN s /\ Tail(s)[i] = s[i + 1]
<1>1. PICK S : s \in Seq(S)
  BY DEF IsSeq
<1>2. /\ Head(s) \in S /\ Tail(s) \in Seq(S) /\ Len(Tail(s)) = Len(s) - 1
      /\ \A i \in 1 .. Len(Tail(s)) : Tail(s)[i] = s[i+1]
      /\ Head(s) = s[1]
  BY <1>1, HeadTailProperties
<1>3. Len(s) \in Nat /\ DOMAIN s = 1..Len(s) /\ Len(s) >= 1 /\ DOMAIN Tail(s) = 1..Len(Tail(s))
  BY <1>1, <1>2, LenProperties, EmptySeq
<1>4. <<Head(s)>> \in Seq(S) /\ Len(<<Head(s)>>) = 1 /\ <<Head(s)>>[1] = Head(s)
  BY <1>2
<1>5. /\ <<Head(s)>> \o Tail(s) \in Seq(S)
      /\ Len(<<Head(s)>> \o Tail(s)) = Len(s)
      /\ \A i \in 1..Len(s) : (<<Head(s)>> \o Tail(s))[i] = s[i]
  <2>1. /\ <<Head(s)>> \o Tail(s) \in Seq(S)
        /\ Len(<<Head(s)>> \o Tail(s)) = 1 + Len(Tail(s))
        /\ \A i \in 1 .. (1 + Len(Tail(s))) : (<<Head(s)>> \o Tail(s))[i] =
             IF i <= 1 THEN <<Head(s)>>[i] ELSE Tail(s)[i - 1]
    BY <1>2, <1>4, ConcatProperties
  <2>2. \A i \in 1..Len(s) : (<<Head(s)>> \o Tail(s))[i] = s[i]
    <3> SUFFICES ASSUME NEW i \in 1..Len(s) PROVE (<<Head(s)>> \o Tail(s))[i] = s[i]
      OBVIOUS
    <3>1. i \in 1..(1 + Len(Tail(s)))
      BY <1>2, <1>3
    <3>2. CASE i = 1
      BY <1>2, <1>4, <2>1, <3>1, <3>2
    <3>3. CASE i # 1
      <4>1. i - 1 \in 1..Len(Tail(s)) /\ ~(i <= 1) /\ (i - 1) + 1 = i
        BY <1>2, <1>3, <3>3
      <4> QED BY <1>2, <2>1, <3>1, <4>1
    <3> QED BY <3>2, <3>3
  <2> QED BY <1>2, <1>3, <2>1, <2>2
<1>6. s = <<Head(s)>> \o Tail(s)
  BY <1>1, <1>5, SeqEqual
<1>7. \A i \in DOMAIN Tail(s) : i + 1 \in DOMAIN s /\ Tail(s)[i] = s[i + 1]
  BY <1>2, <1>3
<1> QED BY <1>2, <1>3, <1>6, <1>7 DEF IsSeq

LEMMA ChainTail ==
  ASSUME NEW s, IsSeq(s), s # <<>>, NEW r, Chain(s, r)
  PROVE  /\ Chain(Tail(s), r)
         /\ Head(s).kind # "heartbeat" => Head(s).revision + Later(Tail(s), 0) = r
         /\ Later(s, 0) = Later(Tail(s), 0)
                          + IF Head(s).kind \in {"snapshot", "delta"} THEN 1 ELSE 0
<1> DEFINE h == Head(s)
           t == Tail(s)
<1>1. /\ s = <<h>> \o t /\ IsSeq(t) /\ h = s[1] /\ 1 \in DOMAIN s
      /\ \A i \in DOMAIN t : i + 1 \in DOMAIN s /\ t[i] = s[i + 1]
  BY HeadAndTail
<1> HIDE DEF h, t
<1>2. IsSeq(<<h>>) /\ Len(<<h>>) = 1
  BY OneFrame
<1>3. /\ \A i \in 0..1 : Later(s, i) = Later(<<h>>, i) + Later(t, 0)
      /\ \A i \in 0..Len(t) : Later(s, 1 + i) = Later(t, i)
  <2> DEFINE one == <<h>>
             n == Len(one)
  <2>1. IsSeq(one) /\ n = 1 /\ s = one \o t
    BY <1>1, <1>2
  <2> HIDE DEF one
  <2>2. /\ \A i \in 0..n : Later(one \o t, i) = Later(one, i) + Later(t, 0)
        /\ \A i \in 0..Len(t) : Later(one \o t, n + i) = Later(t, i)
    BY <1>1, <2>1, LaterInConcat
  <2>3. /\ \A i \in 0..1 : Later(s, i) = Later(one, i) + Later(t, 0)
        /\ \A i \in 0..Len(t) : Later(s, 1 + i) = Later(t, i)
    <3> HIDE DEF n
    <3> QED BY <2>1, <2>2
  <2> QED BY <2>3 DEF one
<1>4. /\ Later(<<h>>, 1) = 0 /\ Later(t, 0) \in Nat
      /\ Later(<<h>>, 0) = IF h.kind \in {"snapshot", "delta"} THEN 1 ELSE 0
  BY <1>1, LaterInOne, AheadIsFinite
<1>5. Later(s, 1) = Later(t, 0) /\ Later(s, 0) = Later(<<h>>, 0) + Later(t, 0)
  BY <1>3, <1>4
<1>6. Chain(t, r)
  <2> SUFFICES ASSUME NEW i \in DOMAIN t, t[i].kind # "heartbeat"
               PROVE  t[i].revision + Later(t, i) = r
    BY DEF Chain
  <2>1. DOMAIN t = 1..Len(t) /\ Len(t) \in Nat
    BY <1>1, <1>2, ConcatShape
  <2>2. Later(s, 1 + i) = Later(t, i) /\ 1 + i = i + 1
    BY <1>3, <2>1
  <2> QED BY <1>1, <2>2 DEF Chain
<1>7. h.kind # "heartbeat" => h.revision + Later(t, 0) = r
  BY <1>1, <1>5 DEF Chain
<1>8. Later(s, 0) = Later(t, 0) + IF h.kind \in {"snapshot", "delta"} THEN 1 ELSE 0
  BY <1>4, <1>5
<1> QED BY <1>6, <1>7, <1>8 DEF h, t

(* Nothing but heartbeats counts for nothing, and answers only for their own.  *)
LEMMA ChainOfHeartbeats ==
  ASSUME NEW s, IsSeq(s), \A i \in DOMAIN s : s[i].kind = "heartbeat"
  PROVE  Later(s, 0) = 0 /\ \A r : Chain(s, r)
<1>1. Ahead(s, 0) = {}
  BY DEF Ahead
<1> QED BY <1>1, FS_EmptySet DEF Later, Chain

LEMMA Associated ==
  ASSUME NEW s, NEW t, NEW u, IsSeq(s), IsSeq(t), IsSeq(u)
  PROVE  s \o t \o u = s \o (t \o u)
<1>1. PICK S : s \in Seq(S)
  BY DEF IsSeq
<1>2. PICK T : t \in Seq(T)
  BY DEF IsSeq
<1>3. PICK U : u \in Seq(U)
  BY DEF IsSeq
<1> DEFINE V == S \cup T \cup U
<1>4. s \in Seq(V) /\ t \in Seq(V) /\ u \in Seq(V)
  BY <1>1, <1>2, <1>3
<1> HIDE DEF V
<1> QED BY <1>4, ConcatAssociative

-----------------------------------------------------------------------------
(* The invariant behind the count. Rows travel only to a sink, and a live copy *)
(* has one; and as long as no frame was lost the revisions on the way, one by  *)
(* one, lead up to the publisher's own.                                       *)
SinkOk ==
  /\ Live => conn.sink
  /\ conn.sink => pub.rows # None /\ ~conn.accepting
  /\ conn.open => conn.sink \/ conn.accepting
  /\ \A i \in DOMAIN toHub : toHub[i].kind # "heartbeat" => conn.sink /\ toHub[i].revision \in Nat

NothingLost ==
  counts.lost = 0 =>
    /\ Chain(toHub, pub.revision)
    /\ Live => pub.revision = entry.revision + Later(toHub, 0)

Unlost == SinkOk /\ NothingLost

LEMMA UnlostInit == Init => Unlost
<1> SUFFICES ASSUME Init PROVE Unlost
  OBVIOUS
<1>1. toHub = <<>> /\ conn = Closed /\ entry = None
  BY DEF Init
<1>2. ~conn.open /\ ~conn.sink /\ ~Live /\ DOMAIN toHub = {}
  BY <1>1, EmptyIsSeq DEF Closed, Live
<1>3. SinkOk
  BY <1>2 DEF SinkOk
<1>4. NothingLost
  BY <1>2 DEF NothingLost, Chain
<1> QED BY <1>3, <1>4 DEF Unlost

LEMMA Numbers ==
  ASSUME IInv, History
  PROVE  /\ pub.revision \in Nat /\ counts.lost \in Nat
         /\ entry # None => entry.revision \in Nat
<1>1. pub.revision \in Nat /\ counts.lost \in Nat
  BY DEF IInv, Shape, History, PubOk
<1>2. ASSUME entry # None PROVE entry.revision \in Nat
  <2> DEFINE u == Version(entry.snapEpoch, entry.revision, entry.rows)
  <2>1. u \in published /\ u.revision = entry.revision
    BY <1>2 DEF History, EntryOk, Version
  <2> HIDE DEF u
  <2> QED BY <2>1, EpochsAreNumbers DEF History, PublishedOk
<1> QED BY <1>1, <1>2

(* Steps that leave the rows, the copy, the frames and the sink alone.        *)
LEMMA QuietUnlost ==
  ASSUME Unlost, pub'.revision = pub.revision, pub'.rows = pub.rows, toHub' = toHub,
         entry' = entry, counts'.lost = counts.lost,
         conn'.open = conn.open, conn'.sink = conn.sink, conn'.accepting = conn.accepting
  PROVE  Unlost'
<1>1. SinkOk'
  BY DEF Unlost, SinkOk, Live
<1>2. NothingLost'
  BY DEF Unlost, NothingLost, Live
<1> QED BY <1>1, <1>2 DEF Unlost

LEMMA ClosedUnlost ==
  ASSUME conn' = Closed, toHub' = <<>>, entry' = None \/ entry'.state = "offline"
  PROVE  Unlost'
<1>1. ~conn'.open /\ ~conn'.sink /\ ~Live' /\ DOMAIN toHub' = {}
  BY EmptyIsSeq DEF Closed, Live
<1>2. SinkOk'
  BY <1>1 DEF SinkOk
<1>3. NothingLost'
  BY <1>1 DEF NothingLost, Chain
<1> QED BY <1>2, <1>3 DEF Unlost

(* A step of the peer that sends t.                                           *)
LEMMA SendsUnlost ==
  ASSUME IInv, History, Unlost, NEW t, IsSeq(t), toHub' = toHub \o t, entry' = entry,
         pub'.revision \in Nat,
         \A i \in DOMAIN t : t[i].kind # "heartbeat" => conn'.sink /\ t[i].revision \in Nat,
         conn.sink => conn'.sink,
         conn'.sink => pub'.rows # None /\ ~conn'.accepting,
         conn'.open => conn'.sink \/ conn'.accepting,
         counts'.lost = 0 => /\ counts.lost = 0 /\ Chain(t, pub'.revision)
                             /\ conn.sink => pub'.revision = pub.revision + Later(t, 0)
  PROVE  Unlost'
<1>1. IsSeq(toHub) /\ Joined(toHub, t, toHub')
  BY Concatenated DEF IInv
<1>2. SinkOk'
  <2>1. Live' => conn'.sink
    BY DEF Unlost, SinkOk, Live
  <2>2. \A i \in DOMAIN toHub' :
          toHub'[i].kind # "heartbeat" => conn'.sink /\ toHub'[i].revision \in Nat
    BY <1>1 DEF Joined, Unlost, SinkOk
  <2> QED BY <2>1, <2>2 DEF SinkOk
<1>3. ASSUME counts'.lost = 0
      PROVE  Chain(toHub', pub'.revision) /\ (Live' => pub'.revision = entry'.revision + Later(toHub', 0))
  <2> DEFINE r == pub'.revision - Later(t, 0)
  <2>1. Later(t, 0) \in Nat /\ Later(toHub, 0) \in Nat /\ pub.revision \in Nat
    BY <1>1, AheadIsFinite, Numbers
  <2>2. r \in Int /\ r + Later(t, 0) = pub'.revision /\ (conn.sink => r = pub.revision)
    BY <1>3, <2>1
  <2>3. Chain(toHub, r)
    <3>1. CASE conn.sink
      BY <1>3, <2>2, <3>1 DEF Unlost, NothingLost
    <3>2. CASE ~conn.sink
      BY <1>1, <3>2, ChainOfHeartbeats DEF Unlost, SinkOk
    <3> QED BY <3>1, <3>2
  <2> HIDE DEF r
  <2>4. Chain(toHub \o t, r + Later(t, 0))
    <3>1. \A i \in DOMAIN toHub : toHub[i].kind # "heartbeat" => toHub[i].revision \in Nat
      BY DEF Unlost, SinkOk
    <3>2. Chain(t, r + Later(t, 0))
      BY <1>3, <2>2
    <3> QED BY <1>1, <2>2, <2>3, <3>1, <3>2, ChainConcat
  <2>5. ASSUME Live' PROVE pub'.revision = entry'.revision + Later(toHub', 0)
    <3>1. Live /\ entry # None
      BY <2>5 DEF Live
    <3>2. conn.sink /\ entry.revision \in Nat
      BY <3>1, Numbers DEF Unlost, SinkOk
    <3>3. pub.revision = entry.revision + Later(toHub, 0)
      BY <1>3, <3>1 DEF Unlost, NothingLost
    <3>4. Later(toHub', 0) = Later(toHub, 0) + Later(t, 0)
      <4>1. Len(toHub) \in Nat
        BY <1>1, ConcatShape
      <4>2. 0 \in 0..Len(toHub)
        BY <4>1
      <4> QED BY <1>1, <4>2, LaterInConcat
    <3> QED BY <1>3, <2>1, <3>2, <3>3, <3>4
  <2> QED BY <2>2, <2>4, <2>5
<1> QED BY <1>2, <1>3 DEF Unlost, NothingLost

(* What a read sends: one frame for a change, none for none, unless the wire   *)
(* cannot carry it; a snapshot for accept, which has no sink yet.             *)
LEMMA FramesChain ==
  ASSUME IInv, History, Unlost, NEW frames \in Frames, Carried(frames)
  PROVE  /\ \A i \in DOMAIN frames : conn.sink /\ frames[i].revision \in Nat
         /\ counts'.lost = 0 =>
              /\ counts.lost = 0
              /\ \A r : ~conn.sink => Chain(frames, r) /\ Later(frames, 0) = 0
              /\ conn.sink => /\ Chain(frames, Updated.revision)
                              /\ Updated.revision = pub.revision + Later(frames, 0)
<1>1. pub.revision \in Nat /\ counts.lost \in Nat /\ Updated.revision \in Nat
  BY Numbers, ReadVersion
<1>2. CASE frames = <<>>
  <2>1. IsSeq(frames) /\ DOMAIN frames = {} /\ Later(frames, 0) = 0 /\ \A r : Chain(frames, r)
    BY <1>2, EmptyIsSeq, ChainOfHeartbeats
  <2>2. CASE Publishes
    <3>1. counts' = [counts EXCEPT !.lost = @ + 1]
      BY <1>2, <2>2 DEF Carried, Count
    <3>2. counts'.lost = counts.lost + 1
      BY <3>1 DEF IInv, Shape
    <3> QED BY <1>1, <2>1, <3>2
  <2>3. CASE ~Publishes
    <3>1. counts' = counts
      BY <1>2, <2>3 DEF Carried
    <3>2. ASSUME conn.sink PROVE Updated = pub
      <4>1. pub.rows # None
        BY <3>2 DEF Unlost, SinkOk
      <4> QED BY <2>3, <3>2, <4>1 DEF Publishes, Updated
    <3> QED BY <1>1, <2>1, <3>1, <3>2
  <2> QED BY <2>2, <2>3
<1>3. CASE /\ Publishes
           /\ \E f : /\ frames = <<f>> /\ f.kind \in {"snapshot", "delta"}
                     /\ f.revision = pub.revision + 1
  <2>1. PICK f : /\ frames = <<f>> /\ f.kind \in {"snapshot", "delta"}
                 /\ f.revision = pub.revision + 1
    BY <1>3
  <2>2. DOMAIN frames = {1} /\ frames[1] = f
    BY <2>1, OneFrame
  <2>3. Later(frames, 1) = 0 /\ Later(frames, 0) = 1
    BY <2>1, LaterInOne
  <2>4. Updated.revision = pub.revision + 1
    BY <1>3 DEF Publishes, Updated, IInv, Shape
  <2>5. counts' = counts
    BY <1>2, <1>3, <2>1, OneFrame DEF Carried
  <2>6. conn.sink
    BY <1>3 DEF Publishes
  <2>7. Chain(frames, Updated.revision)
    BY <1>1, <2>1, <2>2, <2>3, <2>4 DEF Chain
  <2> QED BY <1>1, <2>1, <2>2, <2>3, <2>4, <2>5, <2>6, <2>7
<1>4. \/ frames = <<>>
      \/ Publishes /\ (frames = <<Delta>> \/ frames = <<FullSnapshot("snapshot", Updated)>>)
  BY DEF Frames
<1>5. Delta.kind = "delta" /\ Delta.revision = pub.revision + 1
  BY DEF Delta
<1>6. /\ FullSnapshot("snapshot", Updated).kind = "snapshot"
      /\ FullSnapshot("snapshot", Updated).revision = Updated.revision
  BY DEF FullSnapshot
<1>7. Publishes => Updated.revision = pub.revision + 1
  BY DEF Publishes, Updated, IInv, Shape
<1> QED BY <1>2, <1>3, <1>4, <1>5, <1>6, <1>7

LEMMA AnswersChain ==
  ASSUME IInv, History
  PROVE  /\ Chain(Answers, Updated.revision)
         /\ Later(Answers, 0) = IF conn.accepting THEN 1 ELSE 0
         /\ \A i \in DOMAIN Answers : Answers[i].revision \in Nat
<1> DEFINE f == FullSnapshot("snapshot", Updated)
           g == FullSnapshot("response", Updated)
           first == IF conn.accepting THEN <<f>> ELSE <<>>
           rest == [i \in 1..conn.waiting |-> g]
           R == Updated.revision
<1>1. R \in Nat
  BY ReadVersion
<1>2. f.kind = "snapshot" /\ f.revision = R /\ g.kind = "response" /\ g.revision = R
  BY DEF FullSnapshot
<1>3. Answers = first \o rest
  BY DEF Answers
<1>4. conn.waiting \in Nat
  BY DEF IInv, Shape, PeerEnd
<1>5. rest \in Seq({g}) /\ DOMAIN rest = 1..conn.waiting /\ \A i \in DOMAIN rest : rest[i] = g
  BY <1>4
<1> HIDE DEF f, g, R, rest
<1>6. IsSeq(rest) /\ \A i : Ahead(rest, i) = {}
  BY <1>2, <1>5 DEF IsSeq, Ahead
<1>7. \A i : Later(rest, i) = 0
  BY <1>6, FS_EmptySet DEF Later
<1>8. Chain(rest, R)
  BY <1>1, <1>2, <1>5, <1>7 DEF Chain
<1>9. /\ IsSeq(first) /\ \A i \in DOMAIN first : first[i] = f
      /\ Later(first, 0) = IF conn.accepting THEN 1 ELSE 0
      /\ Chain(first, R)
  <2>1. CASE conn.accepting
    <3>1. first = <<f>>
      BY <2>1
    <3>2. IsSeq(first) /\ DOMAIN first = {1} /\ first[1] = f
      BY <3>1, OneFrame
    <3>3. Later(first, 0) = 1 /\ Later(first, 1) = 0
      BY <1>2, <3>1, LaterInOne
    <3>4. Chain(first, R)
      BY <1>1, <1>2, <3>2, <3>3 DEF Chain
    <3> QED BY <2>1, <3>2, <3>3, <3>4
  <2>2. CASE ~conn.accepting
    <3>1. first = <<>>
      BY <2>2
    <3>2. IsSeq(first) /\ DOMAIN first = {} /\ Later(first, 0) = 0 /\ Chain(first, R)
      BY <3>1, EmptyIsSeq, ChainOfHeartbeats
    <3> QED BY <2>2, <3>2
  <2> QED BY <2>1, <2>2
<1> HIDE DEF first
<1>10. /\ Later(rest, 0) = 0 /\ R + 0 = R /\ R \in Int
       /\ \A i \in DOMAIN first : first[i].kind # "heartbeat" => first[i].revision \in Nat
  BY <1>1, <1>2, <1>7, <1>9
<1>11. Chain(first \o rest, R)
  <2>1. Chain(rest, R + Later(rest, 0))
    BY <1>8, <1>10
  <2>2. Chain(first \o rest, R + Later(rest, 0))
    BY <1>6, <1>9, <1>10, <2>1, ChainConcat
  <2> QED BY <1>10, <2>2
<1>12. Later(first \o rest, 0) = IF conn.accepting THEN 1 ELSE 0
  <2>1. Len(first) \in Nat
    BY <1>6, <1>9, ConcatShape
  <2>2. 0 \in 0..Len(first)
    BY <2>1
  <2>3. Later(first \o rest, 0) = Later(first, 0) + Later(rest, 0)
    BY <1>6, <1>9, <2>2, LaterInConcat
  <2> QED BY <1>9, <1>10, <2>3
<1>13. \A i \in DOMAIN Answers : Answers[i].revision \in Nat
  <2>1. Joined(first, rest, Answers)
    BY <1>3, <1>6, <1>9, Concatenated
  <2> QED BY <1>1, <1>2, <1>5, <1>9, <2>1 DEF Joined
<1> QED BY <1>3, <1>11, <1>12, <1>13 DEF R

LEMMA ReadsAgainUnlost == ASSUME IInv, History, Unlost, ReadsAgain PROVE Unlost'
<1>1. PICK frames \in Frames : /\ ReadReturns(frames)
                              /\ pub' = [Updated EXCEPT !.pending = FALSE]
                              /\ toHub' = toHub \o frames
                              /\ UNCHANGED conn
  BY DEF ReadsAgain
<1>2. pub'.revision = Updated.revision /\ pub'.rows = Updated.rows
  <2>1. Updated = [epoch |-> Updated.epoch, revision |-> Updated.revision,
                   rows |-> Updated.rows, running |-> Updated.running,
                   pending |-> Updated.pending, subscribed |-> Updated.subscribed]
    BY UpdatedShape DEF IInv
  <2> HIDE DEF Updated
  <2> QED BY <1>1, <2>1
<1>3. Carried(frames) /\ entry' = entry
  BY <1>1 DEF ReadReturns, hubVars
<1>4. Updated.revision \in Nat /\ Updated.rows # None
  BY ReadVersion, CatalogIsSeq
<1>5. IsSeq(frames) /\ (~conn.sink => frames = <<>>)
  BY FramesShape
<1>6. /\ \A i \in DOMAIN frames : conn.sink /\ frames[i].revision \in Nat
      /\ counts'.lost = 0 =>
           /\ counts.lost = 0 /\ Chain(frames, Updated.revision)
           /\ conn.sink => Updated.revision = pub.revision + Later(frames, 0)
  BY <1>3, FramesChain
<1> QED BY <1>1, <1>2, <1>3, <1>4, <1>5, <1>6, SendsUnlost DEF Unlost, SinkOk

LEMMA DrainEndsUnlost == ASSUME IInv, History, Unlost, DrainEnds PROVE Unlost'
<1>1. PICK frames \in Frames :
        /\ ReadReturns(frames)
        /\ pub' = [Updated EXCEPT !.running = FALSE]
        /\ toHub' = toHub \o frames \o Answers
        /\ conn' = [conn EXCEPT !.accepting = FALSE, !.sink = @ \/ conn.accepting, !.waiting = 0]
  BY DEF DrainEnds
<1> DEFINE t == frames \o Answers
           R == Updated.revision
<1>2. pub'.revision = R /\ pub'.rows = Updated.rows
  <2>1. Updated = [epoch |-> Updated.epoch, revision |-> Updated.revision,
                   rows |-> Updated.rows, running |-> Updated.running,
                   pending |-> Updated.pending, subscribed |-> Updated.subscribed]
    BY UpdatedShape DEF IInv
  <2> HIDE DEF Updated
  <2> QED BY <1>1, <2>1
<1>3. Carried(frames) /\ entry' = entry
  BY <1>1 DEF ReadReturns, hubVars
<1>4. R \in Nat /\ Updated.rows # None
  BY ReadVersion, CatalogIsSeq
<1>5. IsSeq(toHub) /\ IsSeq(frames) /\ IsSeq(Answers) /\ (~conn.sink => frames = <<>>)
  BY FramesShape, AnswersShape DEF IInv, Shape
<1>6. IsSeq(t) /\ Joined(frames, Answers, t) /\ toHub' = toHub \o t
  BY <1>1, <1>5, Associated, Concatenated DEF Joined
<1>7. /\ conn'.open = conn.open /\ conn'.accepting = FALSE
      /\ conn'.sink = (conn.sink \/ conn.accepting)
  BY <1>1 DEF IInv, Shape, PeerEnd
<1>8. /\ \A i \in DOMAIN frames : conn.sink /\ frames[i].revision \in Nat
      /\ counts'.lost = 0 =>
           /\ counts.lost = 0
           /\ \A r : ~conn.sink => Chain(frames, r) /\ Later(frames, 0) = 0
           /\ conn.sink => Chain(frames, R) /\ R = pub.revision + Later(frames, 0)
  BY <1>3, FramesChain
<1>9. /\ Chain(Answers, R) /\ Later(Answers, 0) = IF conn.accepting THEN 1 ELSE 0
      /\ \A i \in DOMAIN Answers : Answers[i].revision \in Nat
  BY AnswersChain
<1>10. DOMAIN Answers # {} => conn.open
  <2>1. ~conn.open => conn = Closed
    BY DEF IInv, EndsAgree
  <2>2. ~conn.open => Answers = <<>>
    BY <2>1, AnswersShape DEF IInv, Shape
  <2> QED BY <2>2, EmptyIsSeq
<1> HIDE DEF t, R
<1>11. \A i \in DOMAIN t : t[i].kind # "heartbeat" => conn'.sink /\ t[i].revision \in Nat
  <2> SUFFICES ASSUME NEW i \in DOMAIN t PROVE conn'.sink /\ t[i].revision \in Nat
    OBVIOUS
  <2>1. CASE i \in DOMAIN frames /\ t[i] = frames[i]
    BY <1>7, <1>8, <2>1
  <2>2. CASE \E j \in DOMAIN Answers : t[i] = Answers[j]
    BY <1>7, <1>9, <1>10, <2>2 DEF Unlost, SinkOk
  <2> QED BY <1>6, <2>1, <2>2 DEF Joined
<1>12. ASSUME counts'.lost = 0
       PROVE  /\ counts.lost = 0 /\ Chain(t, R)
              /\ conn.sink => R = pub.revision + Later(t, 0)
  <2>1. Later(frames, 0) \in Nat /\ Later(Answers, 0) \in Nat
    BY <1>5, AheadIsFinite
  <2>2. conn.sink => ~conn.accepting
    BY DEF Unlost, SinkOk
  <2>3. Later(t, 0) = Later(frames, 0) + Later(Answers, 0)
    <3>1. Len(frames) \in Nat
      BY <1>5, ConcatShape
    <3>2. 0 \in 0..Len(frames)
      BY <3>1
    <3> QED BY <1>5, <3>2, LaterInConcat DEF t
  <2> DEFINE r == R - Later(Answers, 0)
  <2>4. r \in Int /\ r + Later(Answers, 0) = R /\ (conn.sink => r = R)
    BY <1>4, <1>9, <2>1, <2>2
  <2> HIDE DEF r
  <2>5. Chain(frames, r)
    BY <1>8, <1>12, <2>4
  <2>6. Chain(t, R)
    <3>1. Chain(Answers, r + Later(Answers, 0))
      BY <1>9, <2>4
    <3>2. \A i \in DOMAIN frames : frames[i].kind # "heartbeat" => frames[i].revision \in Nat
      BY <1>8
    <3>3. Chain(frames \o Answers, r + Later(Answers, 0))
      BY <1>5, <2>4, <2>5, <3>1, <3>2, ChainConcat
    <3> QED BY <2>4, <3>3 DEF t
  <2>7. conn.sink => R = pub.revision + Later(t, 0)
    BY <1>8, <1>9, <1>12, <2>1, <2>2, <2>3
  <2> QED BY <1>8, <1>12, <2>6, <2>7
<1>13. /\ conn.sink => conn'.sink
       /\ conn'.sink => pub'.rows # None /\ ~conn'.accepting
       /\ conn'.open => conn'.sink \/ conn'.accepting
  BY <1>2, <1>4, <1>7 DEF Unlost, SinkOk
<1> QED BY <1>2, <1>3, <1>4, <1>6, <1>11, <1>12, <1>13, SendsUnlost

LEMMA HeartbeatsUnlost ==
  ASSUME IInv, History, Unlost, PeerAccepts \/ PeerBeats PROVE Unlost'
<1> DEFINE h == Heartbeat(counts.connects)
           t == <<h>>
<1>1. h.kind = "heartbeat"
  BY DEF Heartbeat
<1> HIDE DEF h
<1>2. IsSeq(t) /\ DOMAIN t = {1} /\ t[1] = h
  BY OneFrame
<1>3. Later(t, 0) = 0 /\ \A r : Chain(t, r)
  BY <1>1, <1>2, ChainOfHeartbeats
<1>4. UNCHANGED <<entry, counts>>
  BY DEF PeerAccepts, PeerBeats, hubVars
<1>5. CASE PeerBeats
  <2>1. UNCHANGED <<pub, conn>> /\ toHub' = Append(toHub, h)
    BY <1>5 DEF PeerBeats, peerVars, h
  <2>2. Append(toHub, h) = toHub \o t
    <3>1. PICK S : toHub \in Seq(S)
      BY DEF IInv, IsSeq
    <3> DEFINE V == S \cup {h}
    <3>2. toHub \in Seq(V) /\ h \in V
      BY <3>1
    <3> HIDE DEF V
    <3> QED BY <3>2, AppendIsConcat
  <2>3. pub.revision \in Nat /\ pub.revision + 0 = pub.revision
    BY Numbers
  <2>4. \A i \in DOMAIN t : t[i].kind = "heartbeat"
    BY <1>1, <1>2
  <2> HIDE DEF t
  <2> QED BY <1>2, <1>3, <1>4, <2>1, <2>2, <2>3, <2>4, SendsUnlost DEF Unlost, SinkOk
<1>6. CASE PeerAccepts
  <2>1. conn = Closed /\ toHub' = t
    BY <1>6 DEF PeerAccepts, IInv, EndsAgree, h
  <2>2. ~conn.sink
    BY <2>1 DEF Closed
  <2>3. conn'.accepting /\ ~conn'.sink
    <3>1. conn' = [conn EXCEPT !.open = TRUE, !.accepting = TRUE]
      BY <1>6 DEF PeerAccepts
    <3> QED BY <2>1, <3>1 DEF Closed
  <2>4. ~Live /\ ~Live'
    BY <1>4, <2>2 DEF Unlost, SinkOk, Live
  <2>5. \A i \in DOMAIN toHub' : toHub'[i].kind = "heartbeat"
    BY <1>1, <1>2, <2>1
  <2>6. Chain(toHub', pub'.revision)
    BY <1>3, <2>1
  <2>7. SinkOk'
    BY <2>3, <2>4, <2>5 DEF SinkOk
  <2>8. NothingLost'
    BY <2>4, <2>6 DEF NothingLost
  <2> QED BY <2>7, <2>8 DEF Unlost
<1> QED BY <1>5, <1>6

LEMMA TicksUnlost == ASSUME IInv, Unlost, Ticks \/ PeerTakesRequest PROVE Unlost'
<1>1. pub' = Refreshed(pub) /\ UNCHANGED <<entry, counts, toHub>>
  BY DEF Ticks, PeerTakesRequest, hubVars
<1>2. pub'.revision = pub.revision /\ pub'.rows = pub.rows
  BY <1>1, RefreshedRows DEF IInv
<1>3. conn'.open = conn.open /\ conn'.sink = conn.sink /\ conn'.accepting = conn.accepting
  BY DEF Ticks, PeerTakesRequest, IInv, Shape, PeerEnd
<1> QED BY <1>1, <1>2, <1>3, QuietUnlost

LEMMA OtherUnlost ==
  ASSUME IInv, Unlost, SourceChanges \/ Dials \/ HubVerifies \/ Degrades PROVE Unlost'
<1>1. UNCHANGED <<pub, conn, entry, toHub>>
  BY DEF SourceChanges, Dials, HubVerifies, Degrades, hubVars, peerVars
<1>2. counts'.lost = counts.lost
  BY DEF SourceChanges, Dials, HubVerifies, Degrades, Count, IInv, Shape
<1> QED BY <1>1, <1>2, QuietUnlost

LEMMA ReadFailsUnlost == ASSUME IInv, Unlost, ReadFails PROVE Unlost'
<1>1. pub' = [pub EXCEPT !.running = FALSE] /\ counts' = [counts EXCEPT !.failures = @ + 1]
  BY DEF ReadFails, Count
<1>2. pub'.revision = pub.revision /\ pub'.rows = pub.rows /\ counts'.lost = counts.lost
  BY <1>1 DEF IInv, Shape
<1>3. CASE Disconnected
  BY <1>3, DisconnectedShape, ClosedUnlost DEF IInv
<1>4. CASE conn' = [conn EXCEPT !.waiting = 0] /\ UNCHANGED <<toHub, entry>>
  <2>1. conn'.open = conn.open /\ conn'.sink = conn.sink /\ conn'.accepting = conn.accepting
    BY <1>4 DEF IInv, Shape, PeerEnd
  <2> QED BY <1>2, <1>4, <2>1, QuietUnlost
<1> QED BY <1>3, <1>4 DEF ReadFails

LEMMA ClosesUnlost == ASSUME IInv, Drops \/ PeerRestarts \/ HubRestarts PROVE Unlost'
<1>1. CASE Drops \/ PeerRestarts
  <2>1. Disconnected
    BY <1>1 DEF Drops, PeerRestarts
  <2> QED BY <2>1, DisconnectedShape, ClosedUnlost DEF IInv
<1>2. CASE HubRestarts
  BY <1>2, ClosedUnlost DEF HubRestarts
<1> QED BY <1>1, <1>2

(* A frame taken by the hub: a live copy either stays as it was, and the frame *)
(* was none that counts, or has the revision the frame carries.               *)
LEMMA TakenUnlost ==
  ASSUME IInv, History, Unlost, toHub # <<>>, toHub' = Tail(toHub),
         UNCHANGED <<peerVars, counts>>,
         Live' => \/ Live /\ entry' = entry /\ Head(toHub).kind \notin {"snapshot", "delta"}
                  \/ Head(toHub).kind # "heartbeat" /\ entry'.revision = Head(toHub).revision
  PROVE  Unlost'
<1> DEFINE f == Head(toHub)
           t == Tail(toHub)
<1>1. IsSeq(toHub) /\ UNCHANGED <<pub, conn, counts>>
  BY DEF IInv, peerVars
<1>2. /\ f = toHub[1] /\ 1 \in DOMAIN toHub /\ IsSeq(t)
      /\ \A i \in DOMAIN t : i + 1 \in DOMAIN toHub /\ t[i] = toHub[i + 1]
  BY <1>1, HeadAndTail
<1>3. SinkOk'
  <2>1. Live' => conn'.sink
    BY <1>1, <1>2 DEF Unlost, SinkOk
  <2>2. \A i \in DOMAIN t : t[i].kind # "heartbeat" => conn'.sink /\ t[i].revision \in Nat
    BY <1>1, <1>2 DEF Unlost, SinkOk
  <2> QED BY <1>1, <2>1, <2>2 DEF Unlost, SinkOk
<1>4. ASSUME counts'.lost = 0
      PROVE  /\ Chain(t, pub'.revision)
             /\ Live' => pub'.revision = entry'.revision + Later(t, 0)
  <2>1. Chain(toHub, pub.revision) /\ (Live => pub.revision = entry.revision + Later(toHub, 0))
    BY <1>1, <1>4 DEF Unlost, NothingLost
  <2>2. /\ Chain(t, pub.revision)
        /\ f.kind # "heartbeat" => f.revision + Later(t, 0) = pub.revision
        /\ Later(toHub, 0) = Later(t, 0) + IF f.kind \in {"snapshot", "delta"} THEN 1 ELSE 0
    BY <1>1, <2>1, ChainTail
  <2>3. Later(t, 0) \in Nat
    BY <1>2, AheadIsFinite
  <2> HIDE DEF f, t
  <2>4. ASSUME Live' PROVE pub'.revision = entry'.revision + Later(t, 0)
    <3>1. CASE Live /\ entry' = entry /\ f.kind \notin {"snapshot", "delta"}
      BY <1>1, <2>1, <2>2, <2>3, <3>1
    <3>2. CASE f.kind # "heartbeat" /\ entry'.revision = f.revision
      BY <1>1, <2>2, <3>2
    <3> QED BY <2>4, <3>1, <3>2 DEF f
  <2> QED BY <1>1, <2>2, <2>4
<1> QED BY <1>3, <1>4 DEF Unlost, NothingLost

LEMMA HeartbeatUnlost ==
  ASSUME IInv, History, Unlost, toHub # <<>>, toHub' = Tail(toHub),
         UNCHANGED <<peerVars, counts>>,
         Head(toHub).kind = "heartbeat", TakesHeartbeat(Head(toHub))
  PROVE  Unlost'
<1>1. \/ entry' = entry
      \/ /\ entry' = [entry EXCEPT !.generation = Head(toHub).generation,
                                   !.epoch = link.hello, !.state = "syncing"]
         /\ entry # None
  BY DEF TakesHeartbeat
<1>2. Live' => entry' = entry
  BY <1>1 DEF Live, IInv, Shape
<1>3. Live' => Live
  BY <1>2 DEF Live
<1> QED BY <1>2, <1>3, TakenUnlost

LEMMA NotLiveAfterResync == ASSUME IInv, Resync PROVE ~Live'
<1>1. CASE entry = None
  BY <1>1 DEF Resync, Live
<1>2. CASE entry # None
  BY <1>2 DEF Resync, Live, IInv, Shape
<1> QED BY <1>1, <1>2

(* A live copy that a snapshot leaves alone has the snapshot's revision; then  *)
(* the snapshot was an answer, as nothing else repeats a revision.            *)
LEMMA SnapshotUnlost ==
  ASSUME IInv, History, Unlost, toHub # <<>>, toHub' = Tail(toHub),
         UNCHANGED <<peerVars, counts>>,
         Head(toHub).kind \in {"snapshot", "response"}, TakesSnapshot(Head(toHub))
  PROVE  Unlost'
<1> DEFINE f == Head(toHub)
<1>1. CASE Resync
  BY <1>1, NotLiveAfterResync, TakenUnlost
<1>2. CASE entry # None /\ SameRevision(f) /\ Applies([entry EXCEPT !.state = "online"])
  <2>1. entry'.revision = f.revision
    BY <1>2 DEF Applies, SameRevision, IInv, Shape
  <2> QED BY <2>1, TakenUnlost
<1>3. CASE Applies([generation |-> link.generation, epoch |-> link.hello, state |-> "online",
                    revision |-> f.revision, rows |-> f.rows, snapEpoch |-> link.hello])
  <2>1. entry'.revision = f.revision
    BY <1>3 DEF Applies
  <2> QED BY <2>1, TakenUnlost
<1>4. CASE entry' = entry /\ SameRevision(f)
  <2>1. entry'.revision = f.revision
    BY <1>4 DEF SameRevision
  <2> QED BY <2>1, TakenUnlost
<1>5. CASE entry' = entry /\ entry # None /\ ~Current
  <2>1. ~Live'
    BY <1>5 DEF Live, Current, IInv, LiveRowsAreCurrent
  <2> QED BY <2>1, TakenUnlost
<1>6. \/ Resync
      \/ entry # None /\ SameRevision(f) /\ Applies([entry EXCEPT !.state = "online"])
      \/ Applies([generation |-> link.generation, epoch |-> link.hello, state |-> "online",
                  revision |-> f.revision, rows |-> f.rows, snapEpoch |-> link.hello])
      \/ entry' = entry /\ SameRevision(f)
      \/ entry' = entry /\ entry # None /\ ~Current
  BY DEF TakesSnapshot, SameRevision, hubVars
<1> QED BY <1>1, <1>2, <1>3, <1>4, <1>5, <1>6

LEMMA DeltaUnlost ==
  ASSUME IInv, History, Unlost, toHub # <<>>, toHub' = Tail(toHub),
         UNCHANGED <<peerVars, counts>>,
         Head(toHub).kind = "delta", TakesDelta(Head(toHub))
  PROVE  Unlost'
<1> DEFINE f == Head(toHub)
<1>1. CASE Resync
  BY <1>1, NotLiveAfterResync, TakenUnlost
<1>2. CASE entry # None /\ entry' = [entry EXCEPT !.revision = f.revision, !.rows = Patched(@, f)]
  <2>1. entry'.revision = f.revision
    BY <1>2 DEF IInv, Shape
  <2> QED BY <2>1, TakenUnlost
<1>3. CASE entry' = entry /\ (entry = None \/ entry.generation # link.generation)
  <2>1. ~Live'
    BY <1>3 DEF Live, IInv, LiveRowsAreCurrent
  <2> QED BY <2>1, TakenUnlost
<1>4. \/ Resync
      \/ entry # None /\ entry' = [entry EXCEPT !.revision = f.revision, !.rows = Patched(@, f)]
      \/ entry' = entry /\ (entry = None \/ entry.generation # link.generation)
  BY DEF TakesDelta, hubVars
<1> QED BY <1>1, <1>2, <1>3, <1>4

LEMMA HubUnlost == ASSUME IInv, History, Unlost, HubReceives PROVE Unlost'
<1>1. /\ toHub # <<>> /\ toHub' = Tail(toHub) /\ UNCHANGED <<peerVars, counts>>
      /\ LET f == Head(toHub) IN
           \/ f.kind = "heartbeat" /\ TakesHeartbeat(f)
           \/ f.kind \in {"snapshot", "response"} /\ TakesSnapshot(f)
           \/ f.kind = "delta" /\ TakesDelta(f)
  BY DEF HubReceives
<1> QED BY <1>1, HeartbeatUnlost, SnapshotUnlost, DeltaUnlost

LEMMA UnlostStep == IInv /\ History /\ Unlost /\ [Next]_vars => Unlost'
<1> SUFFICES ASSUME IInv, History, Unlost, [Next]_vars PROVE Unlost'
  OBVIOUS
<1>1. CASE UNCHANGED vars
  BY <1>1, QuietUnlost DEF vars, peerVars, hubVars
<1>2. CASE Next
  BY <1>2, TicksUnlost, OtherUnlost, ReadsAgainUnlost, DrainEndsUnlost, ReadFailsUnlost,
     HeartbeatsUnlost, ClosesUnlost, HubUnlost DEF Next
<1> QED BY <1>1, <1>2

(* As long as no frame is lost, what is on its way leads a live copy to the   *)
(* publisher's own revision: nothing falls between the snapshot of accept and *)
(* the sink it adds, or between a snapshot and the deltas around it (accept). *)
THEOREM NothingIsLostOnTheWay == Spec => []NothingSlipsThrough
<1>1. IInv /\ Unlost => NothingSlipsThrough
  <2> SUFFICES ASSUME IInv, Unlost PROVE NothingSlipsThrough
    OBVIOUS
  <2>1. \A i \in DOMAIN toHub : i > 0
    BY ConcatShape DEF IInv
  <2>2. OnTheWay = Ahead(toHub, 0)
    BY <2>1 DEF OnTheWay, Ahead
  <2> QED BY <2>2 DEF Unlost, NothingLost, NothingSlipsThrough, Live, Later
<1> QED
  BY <1>1, InitHolds, StepHolds, HistoryInit, HistoryStep, UnlostInit, UnlostStep, PTL DEF Spec
=============================================================================
