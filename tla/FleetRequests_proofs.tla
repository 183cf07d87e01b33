------------------------- MODULE FleetRequests_proofs -------------------------
(***************************************************************************)
(* For any number of calls, connections and faults and any size of the      *)
(* ledger: a mutation acts at most once, what its caller is told is true,   *)
(* and a newer connection fences off the handlers of the older ones.        *)
(***************************************************************************)
EXTENDS FleetRequests, FiniteSetTheorems, SequenceTheorems, TLAPS

-----------------------------------------------------------------------------
(* What is on the way for a call.                                            *)

\* Where a copy of its request is on the way to the peer.
Places(c) == {i \in DOMAIN toPeer : toPeer[i] = c}

\* The answers that are on their way to the hub.
Told(c) == {a \in Answers : \E i \in DOMAIN toHub :
                              toHub[i] = [kind |-> "response", call |-> c, answer |-> a]}

\* Its entry in every ledger.
Entries(c) == [g \in Generations |-> jobs[g][c]]

(* What is known of a mutation whose promise is call, with the entries e, the  *)
(* places p and the answers t on the way, and the effects f, when the active   *)
(* connection is n and m connections have been accepted.                       *)

NoEntry(e) == \A g \in Generations : e[g].state = "absent"
HasEnded(e) == \E g \in Generations : e[g].state = "complete"
HasBegun(e) == \E g \in Generations : e[g].state \in {"half", "complete"}
Keeps(e, a) == \E g \in Generations : e[g].state = "complete" /\ e[g].response = a

\* No request with its id will be admitted any more.
NoMore(op, call, e, p, n) ==
  NoEntry(e) /\ p = {} /\ (op # "retained" \/ n # call.generation)

\* Nothing has been done, and nothing will be, unless the caller asks again.
Nothing(op, call, e, p, f, n) ==
  /\ f.begun = 0
  /\ \/ HasEnded(e)
     \/ NoEntry(e) /\ p = {} /\ (op # "retained" \/ n # call.generation \/ f.refused)

Excused(call, f) == f.torn \/ (f.refused /\ call.retried)

Known(op, call, e, p, t, f, n, m) ==
  \* requests belong to one connection
  /\ call.generation <= m
  /\ call.state = "idle" =>
       NoEntry(e) /\ p = {} /\ t = {} /\ f.begun = 0 /\ ~call.retried
  /\ \A g \in Generations : e[g].state # "absent" => g = call.generation
  /\ p # {} => n = call.generation /\ n # 0
  /\ t # {} \/ f.begun > 0 => call.generation # 0
  \* a call that was not repeated has one request
  /\ op # "retained" => ~call.retried
  /\ ~call.retried => /\ \A i, j \in p : i = j
                      /\ ~NoEntry(e) \/ f.begun > 0 => p = {}
  \* it acts once
  /\ f.begun > 0 => f.begun = 1 /\ (HasBegun(e) \/ NoMore(op, call, e, p, n))
  \* the answers are true
  /\ "none" \in t \/ Keeps(e, "none") => Excused(call, f) \/ Nothing(op, call, e, p, f, n)
  /\ ~Keeps(e, "read")
  /\ "applied" \in t \/ Keeps(e, "applied") => f.finished
  \* and so is what the caller has been told
  /\ call.state = "done" /\ call.outcome = "none" =>
       Excused(call, f) \/ (f.begun = 0 /\ (HasEnded(e) \/ (NoEntry(e) /\ p = {})))
  /\ call.state = "done" /\ call.outcome = "applied" => f.finished

KnownOf(c) ==
  Known(OpOf[c], calls[c], Entries(c), Places(c), Told(c), effects[c], peer.active, peer.accepted)

\* A read has no effects.
ReadsOnly ==
  \A c \in Calls \ Mutations : /\ effects[c].begun = 0
                               /\ \A g \in Generations : jobs[g][c].state \in {"absent", "verifying"}

Linked ==
  /\ peer.active \in {0, peer.accepted} /\ peer.epoch <= peer.faults + 1
  /\ toPeer # <<>> => peer.active # 0
  /\ link.dialled <= peer.accepted /\ link.generation \in {0, link.dialled}
  /\ link.state = "online" => link.generation # 0
  /\ toHub # <<>> => link.dialled # 0

IInv == TypeOK /\ Linked /\ ReadsOnly /\ \A c \in Mutations : KnownOf(c)

CallType == [state : {"idle", "waiting", "done"}, generation : 0 .. MaxGeneration,
             outcome : Answers, lost : BOOLEAN, retried : BOOLEAN]
PeerType == [accepted : 0 .. MaxGeneration, active : 0 .. MaxGeneration, granted : BOOLEAN,
             faults : 0 .. MaxFaults, epoch : 1 .. MaxFaults + 1]
LinkType == [state : {"offline", "syncing", "online"}, generation : 0 .. MaxGeneration,
             dialled : 0 .. MaxGeneration, epoch : 0 .. MaxFaults + 1]
EffectType == [begun : Nat, finished : BOOLEAN, torn : BOOLEAN, refused : BOOLEAN]

-----------------------------------------------------------------------------
(* What is known of a mutation, and the steps that change it.                *)

LEMMA SettledFields ==
  ASSUME NEW call \in CallType, NEW o \in Answers
  PROVE  /\ Settled(call, o) \in CallType
         /\ Settled(call, o).state = "done" /\ Settled(call, o).outcome = o
         /\ Settled(call, o).generation = call.generation
         /\ Settled(call, o).retried = call.retried
BY DEF CallType, Settled

\* Fewer requests are on the way.
Fewer(p2, p) == /\ p = {} => p2 = {}
                /\ (\A i, j \in p : i = j) => \A i, j \in p2 : i = j

\* The connection stays, is lost, or is replaced.
Relinked(p2, n, m, n2, m2) ==
  \/ n2 = n /\ m2 = m
  \/ p2 = {} /\ n2 = 0 /\ m2 = m
  \/ p2 = {} /\ n2 = m + 1 /\ m2 = m + 1

(* Frames are lost or taken, the connection is replaced, the promise settled.  *)
LEMMA QuietKnown ==
  ASSUME NEW op, NEW call \in CallType, NEW e \in [Generations -> Jobs], NEW p,
         NEW t \in SUBSET Answers,
         NEW f \in EffectType, NEW n \in Nat, NEW m \in Nat,
         Known(op, call, e, p, t, f, n, m),
         NEW call2, NEW p2, NEW t2, NEW n2 \in Nat, NEW m2 \in Nat,
         Fewer(p2, p), t2 \subseteq t, Relinked(p2, n, m, n2, m2),
         \/ call2 = call
         \/ call.state = "waiting" /\ \E o \in {"possible"} \cup t : call2 = Settled(call, o)
  PROVE  Known(op, call2, e, p2, t2, f, n2, m2)
<1>0. call2 = call \/ \E o \in {"possible"} \cup t :
                        /\ call2.state = "done" /\ call2.outcome = o
                        /\ call2.generation = call.generation /\ call2.retried = call.retried
  <2>1. {"possible"} \cup t \subseteq Answers
    BY DEF Answers
  <2> QED BY <2>1, SettledFields
<1>1. /\ call2.generation = call.generation /\ call2.retried = call.retried
      /\ call.generation \in Nat /\ f.begun \in Nat
  BY <1>0 DEF CallType, EffectType
<1>2. /\ call2.generation <= m2
      /\ \A g \in Generations : e[g].state # "absent" => g = call2.generation
      /\ p2 # {} => n2 = call2.generation /\ n2 # 0
      /\ t2 # {} \/ f.begun > 0 => call2.generation # 0
  BY <1>1 DEF Known, Fewer, Relinked
<1>3. call2.state = "idle" => NoEntry(e) /\ p2 = {} /\ t2 = {} /\ f.begun = 0 /\ ~call2.retried
  BY <1>0 DEF Known, Fewer
<1>4. /\ op # "retained" => ~call2.retried
      /\ ~call2.retried => /\ \A i, j \in p2 : i = j
                           /\ ~NoEntry(e) \/ f.begun > 0 => p2 = {}
  BY <1>1 DEF Known, Fewer
<1>5. f.begun > 0 => f.begun = 1 /\ (HasBegun(e) \/ NoMore(op, call2, e, p2, n2))
  BY <1>1 DEF Known, Fewer, Relinked, NoMore
<1>6. "none" \in t \/ Keeps(e, "none") => Excused(call2, f) \/ Nothing(op, call2, e, p2, f, n2)
  <2>1. Keeps(e, "none") => call.generation # 0
    BY DEF Keeps, Known, Generations
  <2> QED BY <1>1, <2>1 DEF Known, Fewer, Relinked, Nothing, Excused
<1>7. /\ ~Keeps(e, "read")
      /\ "applied" \in t \/ Keeps(e, "applied") => f.finished
  BY DEF Known
<1>8. call2.state = "done" /\ call2.outcome = "none" =>
        Excused(call2, f) \/ (f.begun = 0 /\ (HasEnded(e) \/ (NoEntry(e) /\ p2 = {})))
  <2>1. CASE call2 = call
    BY <2>1 DEF Known, Fewer
  <2>2. CASE call2.outcome = "none" /\ "none" \in t
    BY <1>6, <2>2 DEF Nothing
  <2>3. CASE call2.outcome = "possible"
    BY <2>3
  <2> QED BY <1>0, <2>1, <2>2, <2>3
<1>9. call2.state = "done" /\ call2.outcome = "applied" => f.finished
  BY <1>0, <1>7 DEF Known
<1> QED BY <1>2, <1>3, <1>4, <1>5, <1>6, <1>7, <1>8, <1>9 DEF Known

(* The peer crashes: a handler between two commands leaves its effects torn.  *)
LEMMA CrashedKnown ==
  ASSUME NEW op, NEW call \in CallType, NEW e \in [Generations -> Jobs], NEW p,
         NEW t \in SUBSET Answers, NEW f \in EffectType, NEW n \in Nat, NEW m \in Nat,
         Known(op, call, e, p, t, f, n, m),
         NEW e2, NoEntry(e2), NEW f2, f2 \in {f, [f EXCEPT !.torn = TRUE]}
  PROVE  Known(op, call, e2, {}, t, f2, 0, m)
<1>1. /\ f2.begun = f.begun /\ f2.finished = f.finished /\ f2.refused = f.refused
      /\ Excused(call, f) => Excused(call, f2)
      /\ f.begun \in Nat /\ call.generation \in Nat
  BY DEF EffectType, CallType, Excused
<1>2. \A a : ~Keeps(e2, a)
  BY DEF NoEntry, Keeps
<1>3. f.begun > 0 => f.begun = 1 /\ NoMore(op, call, e2, {}, 0)
  BY <1>1 DEF Known, NoMore
<1>4. "none" \in t => Excused(call, f2) \/ Nothing(op, call, e2, {}, f2, 0)
  BY <1>1 DEF Known, Nothing
<1>5. call.state = "done" /\ call.outcome = "none" => Excused(call, f2) \/ f2.begun = 0
  BY <1>1 DEF Known
<1>6. /\ call.generation <= m
      /\ call.state = "idle" => t = {} /\ f2.begun = 0 /\ ~call.retried
      /\ t # {} \/ f2.begun > 0 => call.generation # 0
      /\ op # "retained" => ~call.retried
      /\ "applied" \in t => f2.finished
      /\ call.state = "done" /\ call.outcome = "applied" => f2.finished
  BY <1>1 DEF Known
<1>7. \A g \in Generations : e2[g].state # "absent" => g = call.generation
  BY DEF NoEntry
<1> QED BY <1>1, <1>2, <1>3, <1>4, <1>5, <1>6, <1>7 DEF Known

(* The call is made, and its request sent if the connection is still there.   *)
LEMMA MadeKnown ==
  ASSUME NEW op, NEW call \in CallType, NEW e \in [Generations -> Jobs], NEW p,
         NEW t \in SUBSET Answers, NEW f \in EffectType, NEW n \in Nat, NEW m \in Nat,
         Known(op, call, e, p, t, f, n, m), call.state = "idle",
         NEW call2, ~call2.retried,
         NEW p2, \A i, j \in p2 : i = j, call2.generation <= m,
         \/ call2.state = "waiting" /\ (p2 # {} => n = call2.generation /\ n # 0)
         \/ call2.state = "done" /\ call2.outcome = "none" /\ p2 = {}
  PROVE  Known(op, call2, e, p2, t, f, n, m)
<1>1. NoEntry(e) /\ t = {} /\ f.begun = 0
  BY DEF Known
<1>2. ~HasBegun(e) /\ \A a : ~Keeps(e, a)
  BY <1>1 DEF NoEntry, HasBegun, Keeps
<1>3. \A g \in Generations : e[g].state # "absent" => g = call2.generation
  BY <1>1 DEF NoEntry
<1> QED BY <1>1, <1>2, <1>3 DEF Known

(* The hub asks again, with the same request id on the same connection.       *)
LEMMA AskedKnown ==
  ASSUME NEW call \in CallType, NEW e \in [Generations -> Jobs], NEW p,
         NEW t \in SUBSET Answers, NEW f \in EffectType, NEW n \in Nat, NEW m \in Nat,
         Known("retained", call, e, p, t, f, n, m),
         call.state = "done", call.outcome = "possible",
         NEW call2, call2.retried, call2.state = "waiting", call2.generation = call.generation,
         NEW p2, p2 = p \/ (n = call.generation /\ n # 0)
  PROVE  Known("retained", call2, e, p2, t, f, n, m)
<1>1. f.begun > 0 => f.begun = 1 /\ (HasBegun(e) \/ NoMore("retained", call2, e, p2, n))
  BY DEF Known, NoMore
<1>2. "none" \in t \/ Keeps(e, "none") =>
        Excused(call2, f) \/ Nothing("retained", call2, e, p2, f, n)
  BY DEF Known, Nothing, Excused
<1> QED BY <1>1, <1>2 DEF Known

(* The ledger admits a request it does not know.                              *)
LEMMA AdmittedKnown ==
  ASSUME NEW op, NEW call \in CallType, NEW e \in [Generations -> Jobs], NEW p,
         NEW t \in SUBSET Answers, NEW f \in EffectType, NEW n \in Generations, NEW m \in Nat,
         Known(op, call, e, p, t, f, n, m), p # {}, e[n].state = "absent",
         NEW r \in Jobs, r.state = "verifying",
         NEW p2, (\A i, j \in p : i = j) => p2 = {}
  PROVE  Known(op, call, [e EXCEPT ![n] = r], p2, t, f, n, m)
<1> DEFINE e2 == [e EXCEPT ![n] = r]
<1>1. n = call.generation /\ n # 0 /\ f.begun \in Nat
  BY DEF Known, EffectType
<1>2. NoEntry(e) /\ ~HasBegun(e) /\ ~HasEnded(e) /\ \A a : ~Keeps(e, a)
  BY <1>1 DEF Known, NoEntry, HasBegun, HasEnded, Keeps
<1>3. e2[n] = r /\ \A g \in Generations \ {n} : e2[g].state = "absent"
  BY <1>2 DEF NoEntry
<1> HIDE DEF e2
<1>4. ~NoEntry(e2) /\ ~HasEnded(e2) /\ \A a : ~Keeps(e2, a)
  BY <1>3 DEF NoEntry, HasEnded, Keeps
<1>5. f.begun = 0
  BY <1>1, <1>2 DEF Known, NoMore
<1>6. "none" \in t => Excused(call, f)
  BY <1>2 DEF Known, Nothing
<1>7. call.state # "idle"
  BY DEF Known
<1>8. call.state = "done" /\ call.outcome = "none" => Excused(call, f)
  BY <1>2 DEF Known
<1>9. \A g \in Generations : e2[g].state # "absent" => g = call.generation
  BY <1>1, <1>3
<1>10. /\ ~call.retried => \A i, j \in p2 : i = j
       /\ ~call.retried => p2 = {}
  BY DEF Known
<1>11. /\ call.generation <= m /\ f.begun = 0 /\ call.generation # 0
       /\ op # "retained" => ~call.retried
       /\ "applied" \in t => f.finished
       /\ call.state = "done" /\ call.outcome = "applied" => f.finished
  BY <1>1, <1>5 DEF Known
<1>12. Known(op, call, e2, p2, t, f, n, m)
  BY <1>1, <1>4, <1>6, <1>7, <1>8, <1>9, <1>10, <1>11 DEF Known
<1> QED BY <1>12 DEF e2

(* A full ledger refuses it.                                                  *)
LEMMA RefusedKnown ==
  ASSUME NEW op, NEW call \in CallType, NEW e \in [Generations -> Jobs], NEW p,
         NEW t \in SUBSET Answers, NEW f \in EffectType, NEW n \in Generations, NEW m \in Nat,
         Known(op, call, e, p, t, f, n, m), p # {}, e[n].state = "absent",
         NEW t2, t2 \subseteq t \cup {"none"},
         NEW p2, (\A i, j \in p : i = j) => p2 = {}
  PROVE  Known(op, call, e, p2, t2, [f EXCEPT !.refused = TRUE], n, m)
<1> DEFINE f2 == [f EXCEPT !.refused = TRUE]
<1>1. /\ n = call.generation /\ n # 0 /\ f.begun \in Nat
      /\ f2.begun = f.begun /\ f2.refused /\ f2.finished = f.finished /\ f2.torn = f.torn
  BY DEF Known, EffectType
<1> HIDE DEF f2
<1>2. NoEntry(e) /\ ~HasBegun(e) /\ ~HasEnded(e) /\ \A a : ~Keeps(e, a)
  BY <1>1 DEF Known, NoEntry, HasBegun, HasEnded, Keeps
<1>3. f.begun = 0
  BY <1>1, <1>2 DEF Known, NoMore
<1>4. ~call.retried => p2 = {}
  BY DEF Known
<1>5. Excused(call, f2) \/ Nothing(op, call, e, p2, f2, n)
  BY <1>1, <1>2, <1>3, <1>4 DEF Excused, Nothing
<1>6. call.state # "idle"
  BY DEF Known
<1>7. call.state = "done" /\ call.outcome = "none" => Excused(call, f2)
  BY <1>1, <1>2 DEF Known, Excused
<1>8. "applied" \in t2 => f2.finished
  BY <1>1 DEF Known
<1>9. /\ call.generation <= m
      /\ \A g \in Generations : e[g].state # "absent" => g = call.generation
      /\ op # "retained" => ~call.retried
      /\ call.state = "done" /\ call.outcome = "applied" => f2.finished
  BY <1>1 DEF Known
<1> QED BY <1>1, <1>2, <1>3, <1>4, <1>5, <1>6, <1>7, <1>8, <1>9 DEF Known, f2

(* A request that is running already is answered once more when it ends.      *)
LEMMA SameEntryKnown ==
  ASSUME NEW op, NEW call \in CallType, NEW e \in [Generations -> Jobs], NEW p,
         NEW t \in SUBSET Answers, NEW f \in EffectType, NEW n \in Nat, NEW m \in Nat,
         Known(op, call, e, p, t, f, n, m),
         NEW e2,
         \A g \in Generations :
           /\ (e2[g].state = "absent") <=> (e[g].state = "absent")
           /\ e[g].state = "half" => e2[g].state = "half"
           /\ e2[g].state = "complete" \/ e[g].state = "complete" => e2[g] = e[g],
         NEW p2, Fewer(p2, p),
         NEW t2,
         t2 \subseteq t \cup {a \in Answers : /\ a # "read"
                                          /\ \E b \in Answers : Keeps(e, b) /\ a \in Fitting(b)}
  PROVE  Known(op, call, e2, p2, t2, f, n, m)
<1>1. /\ NoEntry(e2) <=> NoEntry(e)
      /\ HasEnded(e2) <=> HasEnded(e)
      /\ HasBegun(e) => HasBegun(e2)
      /\ \A a : Keeps(e2, a) <=> Keeps(e, a)
  BY DEF NoEntry, HasEnded, HasBegun, Keeps
<1>2. \A g \in Generations : e2[g].state # "absent" => g = call.generation
  BY DEF Known
<1>3. /\ "none" \in t2 => "none" \in t \/ Keeps(e, "none")
      /\ "applied" \in t2 => "applied" \in t \/ Keeps(e, "applied")
  BY DEF Fitting, Known, Answers
<1>4. t2 # {} => t # {} \/ ~NoEntry(e)
  BY DEF Keeps, NoEntry
<1>5. ~NoEntry(e) => call.generation # 0 /\ call.state # "idle"
  BY DEF NoEntry, Known, Generations
<1>6. f.begun > 0 => f.begun = 1 /\ (HasBegun(e2) \/ NoMore(op, call, e2, p2, n))
  BY <1>1 DEF Known, NoMore, Fewer
<1>7. "none" \in t2 \/ Keeps(e2, "none") => Excused(call, f) \/ Nothing(op, call, e2, p2, f, n)
  BY <1>1, <1>3 DEF Known, Nothing, Fewer
<1>8. call.state = "done" /\ call.outcome = "none" =>
        Excused(call, f) \/ (f.begun = 0 /\ (HasEnded(e2) \/ (NoEntry(e2) /\ p2 = {})))
  BY <1>1 DEF Known, Fewer
<1>9. /\ call.generation <= m
      /\ call.state = "idle" => NoEntry(e2) /\ p2 = {} /\ t2 = {} /\ f.begun = 0 /\ ~call.retried
      /\ p2 # {} => n = call.generation /\ n # 0
      /\ t2 # {} \/ f.begun > 0 => call.generation # 0
      /\ op # "retained" => ~call.retried
      /\ ~call.retried => /\ \A i, j \in p2 : i = j
                          /\ ~NoEntry(e2) \/ f.begun > 0 => p2 = {}
  BY <1>1, <1>4, <1>5 DEF Known, Fewer
<1>10. /\ ~Keeps(e2, "read") /\ ("applied" \in t2 \/ Keeps(e2, "applied") => f.finished)
       /\ call.state = "done" /\ call.outcome = "applied" => f.finished
  BY <1>1, <1>3 DEF Known
<1> QED BY <1>2, <1>6, <1>7, <1>8, <1>9, <1>10 DEF Known

\* A handler that has not begun: nothing was done so far.
LEMMA NotBegun ==
  ASSUME NEW op, NEW call \in CallType, NEW e \in [Generations -> Jobs], NEW p,
         NEW t \in SUBSET Answers, NEW f \in EffectType, NEW n \in Nat, NEW m \in Nat,
         Known(op, call, e, p, t, f, n, m),
         NEW g \in Generations, e[g].state \in Running
  PROVE  /\ g = call.generation /\ ~NoEntry(e) /\ ~HasEnded(e) /\ \A a : ~Keeps(e, a)
         /\ \A h \in Generations \ {g} : e[h].state = "absent"
         /\ e[g].state # "half" => f.begun = 0
         /\ call.state # "idle" /\ (~call.retried => p = {})
         /\ "none" \in t => Excused(call, f)
         /\ call.state = "done" /\ call.outcome = "none" => Excused(call, f)
<1>1. /\ e[g].state # "absent" /\ e[g].state # "complete"
      /\ g = call.generation /\ \A h \in Generations \ {g} : e[h].state = "absent"
  BY DEF Known, Running
<1>2. ~NoEntry(e) /\ ~HasEnded(e) /\ \A a : ~Keeps(e, a)
  BY <1>1 DEF NoEntry, HasEnded, Keeps
<1>3. e[g].state # "half" => ~HasBegun(e)
  BY <1>1 DEF HasBegun
<1>4. e[g].state # "half" => f.begun = 0
  BY <1>2, <1>3 DEF Known, NoMore, EffectType
<1> QED BY <1>1, <1>2, <1>4 DEF Known, Nothing

(* The first command is given. *)
LEMMA BegunKnown ==
  ASSUME NEW op, NEW call \in CallType, NEW e \in [Generations -> Jobs], NEW p,
         NEW t \in SUBSET Answers, NEW f \in EffectType, NEW n \in Nat, NEW m \in Nat,
         Known(op, call, e, p, t, f, n, m),
         NEW g \in Generations, e[g].state = "acting", NEW r \in Jobs, r.state = "half"
  PROVE  Known(op, call, [e EXCEPT ![g] = r], p, t, [f EXCEPT !.begun = @ + 1], n, m)
<1> DEFINE e2 == [e EXCEPT ![g] = r]
           f2 == [f EXCEPT !.begun = @ + 1]
<1>1. /\ g = call.generation /\ ~NoEntry(e) /\ ~HasEnded(e) /\ \A a : ~Keeps(e, a)
      /\ \A h \in Generations \ {g} : e[h].state = "absent"
      /\ f.begun = 0 /\ call.state # "idle" /\ (~call.retried => p = {})
      /\ "none" \in t => Excused(call, f)
      /\ call.state = "done" /\ call.outcome = "none" => Excused(call, f)
  BY NotBegun DEF Running
<1>2. /\ f2.begun = 1 /\ f2.finished = f.finished /\ f2.torn = f.torn /\ f2.refused = f.refused
      /\ Excused(call, f) => Excused(call, f2)
  BY <1>1 DEF EffectType, Excused
<1>3. e2[g] = r /\ \A h \in Generations \ {g} : e2[h].state = "absent"
  BY <1>1
<1> HIDE DEF e2, f2
<1>4. HasBegun(e2) /\ ~NoEntry(e2) /\ \A a : ~Keeps(e2, a)
  BY <1>3 DEF HasBegun, NoEntry, Keeps
<1>5. \A h \in Generations : e2[h].state # "absent" => h = call.generation
  BY <1>1, <1>3
<1>6. /\ call.generation <= m /\ call.generation # 0
      /\ p # {} => n = call.generation /\ n # 0
      /\ op # "retained" => ~call.retried
      /\ "applied" \in t => f.finished
      /\ call.state = "done" /\ call.outcome = "applied" => f.finished
      /\ ~call.retried => \A i, j \in p : i = j
  BY <1>1 DEF Known, Generations
<1>7. Known(op, call, e2, p, t, f2, n, m)
  BY <1>1, <1>2, <1>4, <1>5, <1>6 DEF Known
<1> QED BY <1>7 DEF e2, f2

\* The history of a call that has ended, where it was f.
EndsLike(f2, f) == /\ f2.begun = f.begun /\ f2.refused = f.refused
                   /\ f.torn => f2.torn
                   /\ f.finished => f2.finished

(* A handler ends with an answer that is true.                                *)
LEMMA EndedKnown ==
  ASSUME NEW op, NEW call \in CallType, NEW e \in [Generations -> Jobs], NEW p,
         NEW t \in SUBSET Answers, NEW f \in EffectType, NEW n \in Nat, NEW m \in Nat,
         Known(op, call, e, p, t, f, n, m),
         NEW g \in Generations, e[g].state \in Running, NEW a \in Answers, a # "read",
         NEW r, op = "retained" => r.state = "complete" /\ r.response = a,
         op # "retained" => r.state = "absent",
         NEW t2, t2 \subseteq t \cup Fitting(a),
         NEW f2, EndsLike(f2, f),
         a = "applied" => f2.finished,
         a = "none" => f2.torn \/ e[g].state # "half"
  PROVE  Known(op, call, [e EXCEPT ![g] = r], p, t2, f2, n, m)
<1> DEFINE e2 == [e EXCEPT ![g] = r]
<1>1. /\ g = call.generation /\ ~NoEntry(e) /\ ~HasEnded(e) /\ \A b : ~Keeps(e, b)
      /\ \A h \in Generations \ {g} : e[h].state = "absent"
      /\ e[g].state # "half" => f.begun = 0
      /\ call.state # "idle" /\ (~call.retried => p = {})
      /\ "none" \in t => Excused(call, f)
      /\ call.state = "done" /\ call.outcome = "none" => Excused(call, f)
  BY NotBegun
<1>2. /\ f2.begun = f.begun /\ f2.refused = f.refused /\ f.begun \in Nat
      /\ Excused(call, f) => Excused(call, f2)
      /\ f.finished => f2.finished
  BY DEF EffectType, Excused, EndsLike
<1>3. e2[g] = r /\ \A h \in Generations \ {g} : e2[h].state = "absent"
  BY <1>1
<1>4. \A h \in Generations : e2[h].state # "absent" => h = call.generation
  BY <1>1, <1>3
<1>5. /\ "none" \in t2 => "none" \in t \/ a = "none"
      /\ "applied" \in t2 => "applied" \in t \/ a = "applied"
  BY DEF Fitting, Answers
<1>6. CASE op = "retained"
  <2>1. r.state = "complete" /\ r.response = a
    BY <1>6
  <2> HIDE DEF e2
  <2>2. HasEnded(e2) /\ HasBegun(e2) /\ ~NoEntry(e2) /\ \A b : Keeps(e2, b) <=> b = a
    BY <1>3, <2>1 DEF HasEnded, HasBegun, NoEntry, Keeps
  <2>3. "none" \in t2 \/ a = "none" => Excused(call, f2) \/ Nothing(op, call, e2, p, f2, n)
    BY <1>1, <1>2, <1>5, <2>2 DEF Excused, Nothing
  <2>4. "applied" \in t2 \/ a = "applied" => f2.finished
    BY <1>2, <1>5 DEF Known
  <2>5. /\ call.generation <= m /\ call.generation # 0
        /\ p # {} => n = call.generation /\ n # 0
        /\ f2.begun > 0 => f2.begun = 1
        /\ call.state = "done" /\ call.outcome = "applied" => f2.finished
        /\ ~call.retried => \A i, j \in p : i = j
    BY <1>1, <1>2 DEF Known, Generations
  <2>6. Known(op, call, e2, p, t2, f2, n, m)
    BY <1>1, <1>2, <1>4, <1>6, <2>2, <2>3, <2>4, <2>5 DEF Known
  <2> QED BY <2>6 DEF e2
<1>7. CASE op # "retained"
  <2>1. r.state = "absent"
    BY <1>7 DEF Absent
  <2> HIDE DEF e2
  <2>2. NoEntry(e2) /\ \A b : ~Keeps(e2, b)
    BY <1>3, <2>1 DEF NoEntry, Keeps
  <2>3. ~call.retried /\ p = {}
    BY <1>1, <1>7 DEF Known
  <2>4. NoMore(op, call, e2, p, n)
    BY <1>7, <2>2, <2>3 DEF NoMore
  <2>5. "none" \in t2 => Excused(call, f2) \/ Nothing(op, call, e2, p, f2, n)
    BY <1>1, <1>2, <1>5, <1>7, <2>2, <2>3 DEF Excused, Nothing
  <2>6. "applied" \in t2 => f2.finished
    BY <1>2, <1>5 DEF Known
  <2>7. /\ call.generation <= m /\ call.generation # 0
        /\ f2.begun > 0 => f2.begun = 1
        /\ call.state = "done" /\ call.outcome = "applied" => f2.finished
    BY <1>1, <1>2 DEF Known, Generations
  <2>8. Known(op, call, e2, p, t2, f2, n, m)
    BY <1>1, <1>2, <1>4, <2>2, <2>3, <2>4, <2>5, <2>6, <2>7 DEF Known
  <2> QED BY <2>8 DEF e2
<1> QED BY <1>6, <1>7

-----------------------------------------------------------------------------
(* Frames on the way.                                                        *)

Frames == [kind : {"heartbeat"}, epoch : 1 .. MaxFaults + 1]
            \cup [kind : {"response"}, call : Calls, answer : Answers]

LEMMA PlacesAppend ==
  ASSUME toPeer \in Seq(Calls), NEW c \in Calls, toPeer' = Append(toPeer, c)
  PROVE  /\ toPeer' \in Seq(Calls) /\ toPeer' # <<>>
         /\ Places(c)' = Places(c) \cup {Len(toPeer) + 1}
         /\ \A d \in Calls \ {c} : Places(d)' = Places(d)
<1>1. /\ toPeer' \in Seq(Calls) /\ Len(toPeer') = Len(toPeer) + 1 /\ Len(toPeer) \in Nat
      /\ \A i \in 1 .. Len(toPeer) : toPeer'[i] = toPeer[i]
      /\ toPeer'[Len(toPeer) + 1] = c
      /\ DOMAIN toPeer = 1 .. Len(toPeer) /\ DOMAIN toPeer' = 1 .. Len(toPeer) + 1
  OBVIOUS
<1>2. DOMAIN toPeer' = DOMAIN toPeer \cup {Len(toPeer) + 1} /\ Len(toPeer) + 1 \notin DOMAIN toPeer
  BY <1>1
<1> QED BY <1>1, <1>2 DEF Places

LEMMA PlacesTail ==
  ASSUME toPeer \in Seq(Calls), toPeer # <<>>, toPeer' = Tail(toPeer)
  PROVE  /\ toPeer' \in Seq(Calls) /\ Head(toPeer) \in Calls
         /\ Places(Head(toPeer)) # {}
         /\ \A d \in Calls : Fewer(Places(d)', Places(d))
         /\ \A d \in Calls : d = Head(toPeer) /\ (\A i, j \in Places(d) : i = j)
                              => Places(d)' = {}
<1>1. /\ toPeer' \in Seq(Calls) /\ Len(toPeer') = Len(toPeer) - 1 /\ Len(toPeer) \in Nat \ {0}
      /\ \A i \in 1 .. Len(toPeer) - 1 : toPeer'[i] = toPeer[i + 1]
      /\ DOMAIN toPeer = 1 .. Len(toPeer) /\ DOMAIN toPeer' = 1 .. Len(toPeer) - 1
      /\ Head(toPeer) = toPeer[1] /\ Head(toPeer) \in Calls
  BY HeadTailProperties, EmptySeq
<1>2. \A i \in DOMAIN toPeer' : i \in Int /\ i + 1 \in DOMAIN toPeer /\ i + 1 # 1
  BY <1>1
<1>3. \A d : \A i \in Places(d)' : i \in Int /\ i + 1 \in Places(d) /\ i + 1 # 1
  BY <1>1, <1>2 DEF Places
<1>4. 1 \in Places(Head(toPeer))
  BY <1>1 DEF Places
<1>5. ASSUME NEW d PROVE Fewer(Places(d)', Places(d))
  BY <1>3 DEF Fewer
<1>6. ASSUME NEW d \in Calls, d = Head(toPeer), \A i, j \in Places(d) : i = j
      PROVE  Places(d)' = {}
  BY <1>3, <1>4, <1>6
<1> QED BY <1>1, <1>4, <1>5, <1>6

LEMMA PlacesConcat ==
  ASSUME toPeer \in Seq(Calls), NEW S \in SUBSET Calls, NEW s \in Seq(S), toPeer' = toPeer \o s
  PROVE  /\ toPeer' \in Seq(Calls)
         /\ toPeer' # <<>> => toPeer # <<>> \/ S # {}
         /\ \A d \in Calls \ S : Places(d)' = Places(d)
<1>1. s \in Seq(Calls)
  BY SeqMonotonic
<1>2. /\ toPeer' \in Seq(Calls) /\ Len(toPeer) \in Nat /\ Len(s) \in Nat
      /\ Len(toPeer') = Len(toPeer) + Len(s)
      /\ \A i \in 1 .. Len(toPeer) + Len(s) :
           toPeer'[i] = IF i <= Len(toPeer) THEN toPeer[i] ELSE s[i - Len(toPeer)]
      /\ DOMAIN toPeer = 1 .. Len(toPeer) /\ DOMAIN toPeer' = 1 .. Len(toPeer) + Len(s)
  BY <1>1, ConcatProperties, LenProperties
<1>3. \A i \in 1 .. Len(s) : s[i] \in S
  BY ElementOfSeq
<1>4. ASSUME NEW i \in DOMAIN toPeer' PROVE i \in DOMAIN toPeer \/ toPeer'[i] \in S
  <2>1. CASE i <= Len(toPeer)
    BY <1>2, <2>1
  <2>2. CASE ~(i <= Len(toPeer))
    <3>1. i - Len(toPeer) \in 1 .. Len(s) /\ toPeer'[i] = s[i - Len(toPeer)]
      BY <1>2, <2>2
    <3> QED BY <1>3, <3>1
  <2> QED BY <2>1, <2>2
<1>5. \A i \in DOMAIN toPeer : i \in DOMAIN toPeer' /\ toPeer'[i] = toPeer[i]
  BY <1>2
<1>6. \A d \in Calls \ S : Places(d)' = Places(d)
  BY <1>4, <1>5 DEF Places
<1>7. ASSUME S = {}, toPeer = <<>> PROVE toPeer' = <<>>
  <2>1. Len(s) = 0
    BY <1>2, <1>3, <1>7
  <2>2. s = <<>>
    BY <2>1, EmptySeq, <1>1
  <2> QED BY <1>7, <2>2
<1> QED BY <1>2, <1>6, <1>7

LEMMA ToldTail ==
  ASSUME toHub \in Seq(Frames), toHub # <<>>, toHub' = Tail(toHub)
  PROVE  /\ toHub' \in Seq(Frames) /\ Head(toHub) \in Frames
         /\ \A d \in Calls : Told(d)' \subseteq Told(d)
         /\ Head(toHub).kind = "response" =>
              /\ Head(toHub).call \in Calls /\ Head(toHub).answer \in Answers
              /\ Head(toHub).answer \in Told(Head(toHub).call)
<1>1. /\ toHub' \in Seq(Frames) /\ Len(toHub) \in Nat \ {0}
      /\ \A i \in 1 .. Len(toHub) - 1 : toHub'[i] = toHub[i + 1]
      /\ DOMAIN toHub = 1 .. Len(toHub) /\ DOMAIN toHub' = 1 .. Len(toHub) - 1
      /\ Head(toHub) = toHub[1] /\ Head(toHub) \in Frames
  BY HeadTailProperties, EmptySeq
<1>2. \A i \in DOMAIN toHub' : i + 1 \in DOMAIN toHub /\ toHub'[i] = toHub[i + 1]
  BY <1>1
<1>3. \A d \in Calls : Told(d)' \subseteq Told(d)
  BY <1>2 DEF Told
<1>4. ASSUME Head(toHub).kind = "response"
      PROVE  /\ Head(toHub).call \in Calls /\ Head(toHub).answer \in Answers
             /\ Head(toHub) = [kind |-> "response", call |-> Head(toHub).call,
                               answer |-> Head(toHub).answer]
  BY <1>1, <1>4 DEF Frames
<1> QED BY <1>1, <1>3, <1>4 DEF Told

LEMMA ToldReplies ==
  ASSUME toHub \in Seq(Frames), NEW g \in Generations, NEW c \in Calls, NEW a \in Answers,
         NEW k \in Nat, Replies(g, c, a, k)
  PROVE  /\ toHub' \in Seq(Frames)
         /\ toHub' # <<>> => toHub # <<>> \/ link.dialled = g
         /\ Told(c)' \subseteq Told(c) \cup Fitting(a)
         /\ \A d \in Calls \ {c} : Told(d)' \subseteq Told(d)
<1>1. Fitting(a) \subseteq Answers
  BY DEF Fitting, Answers
<1>2. PICK b \in Fitting(a) :
        toHub' = IF peer.active = g /\ link.dialled = g
                 THEN toHub \o [i \in 1 .. k |-> [kind |-> "response", call |-> c, answer |-> b]]
                 ELSE toHub
  BY DEF Replies
<1> DEFINE f == [kind |-> "response", call |-> c, answer |-> b]
           s == [i \in 1 .. k |-> f]
<1>3. CASE toHub' = toHub
  BY <1>3 DEF Told
<1>4. CASE toHub' = toHub \o s /\ link.dialled = g
  <2>1. f \in Frames
    BY <1>1, <1>2 DEF Frames
  <2>2. s \in Seq(Frames) /\ Len(s) = k /\ \A i \in 1 .. k : s[i] = f
    BY <2>1
  <2> HIDE DEF s
  <2>3. /\ toHub' \in Seq(Frames) /\ Len(toHub) \in Nat
        /\ Len(toHub') = Len(toHub) + k
        /\ \A i \in 1 .. Len(toHub) + k :
             toHub'[i] = IF i <= Len(toHub) THEN toHub[i] ELSE s[i - Len(toHub)]
        /\ DOMAIN toHub = 1 .. Len(toHub) /\ DOMAIN toHub' = 1 .. Len(toHub) + k
    <3>1. toHub' = toHub \o s
      BY <1>4
    <3>2. /\ toHub \o s \in Seq(Frames) /\ Len(toHub \o s) = Len(toHub) + k
          /\ \A i \in 1 .. Len(toHub) + k :
               (toHub \o s)[i] = IF i <= Len(toHub) THEN toHub[i] ELSE s[i - Len(toHub)]
      BY <2>2, ConcatProperties
    <3>3. DOMAIN toHub = 1 .. Len(toHub) /\ Len(toHub) \in Nat
      BY LenProperties
    <3>4. DOMAIN toHub' = 1 .. Len(toHub')
      BY <3>1, <3>2, LenProperties
    <3> QED BY <3>1, <3>2, <3>3, <3>4
  <2>4. ASSUME NEW i \in DOMAIN toHub'
        PROVE  (i \in DOMAIN toHub /\ toHub'[i] = toHub[i]) \/ toHub'[i] = f
    <3>1. CASE i <= Len(toHub)
      BY <2>3, <3>1
    <3>2. CASE ~(i <= Len(toHub))
      <4>1. i - Len(toHub) \in 1 .. k /\ toHub'[i] = s[i - Len(toHub)]
        BY <2>3, <3>2
      <4> QED BY <2>2, <4>1
    <3> QED BY <3>1, <3>2
  <2>5. ASSUME NEW d \in Calls, NEW x \in Told(d)', x \notin Told(d) PROVE d = c /\ x = b
    <3>1. PICK i \in DOMAIN toHub' : toHub'[i] = [kind |-> "response", call |-> d, answer |-> x]
      BY <2>5 DEF Told
    <3>2. x \in Answers
      BY <2>5 DEF Told
    <3>3. toHub'[i] = f
      BY <2>4, <2>5, <3>1, <3>2 DEF Told
    <3> QED BY <3>1, <3>3
  <2> QED BY <1>2, <1>4, <2>3, <2>5
<1> QED BY <1>2, <1>3, <1>4

-----------------------------------------------------------------------------
(* Steps that leave a mutation alone.                                        *)

LEMMA ValuesTyped ==
  ASSUME TypeOK, NEW c \in Calls
  PROVE  /\ calls[c] \in CallType /\ Entries(c) \in [Generations -> Jobs]
         /\ effects[c] \in EffectType /\ Told(c) \in SUBSET Answers
         /\ peer.active \in Nat /\ peer.accepted \in Nat /\ OpOf[c] \in {"retained", "streamed", "read"}
         /\ \A g \in Generations : Entries(c)[g] = jobs[g][c] /\ jobs[g][c] \in Jobs
BY FleetRequestsAssumption DEF TypeOK, CallType, EffectType, Entries, Told

LEMMA QuietKeeps ==
  ASSUME TypeOK, TypeOK', NEW c \in Mutations, KnownOf(c),
         Entries(c)' = Entries(c), effects'[c] = effects[c],
         Fewer(Places(c)', Places(c)), Told(c)' \subseteq Told(c),
         Relinked(Places(c)', peer.active, peer.accepted, peer'.active, peer'.accepted),
         \/ calls'[c] = calls[c]
         \/ calls[c].state = "waiting"
            /\ \E o \in {"possible"} \cup Told(c) : calls'[c] = Settled(calls[c], o)
  PROVE  KnownOf(c)'
<1>1. c \in Calls
  BY DEF Mutations
<1>2. peer'.active \in Nat /\ peer'.accepted \in Nat
  BY FleetRequestsAssumption DEF TypeOK
<1>3. Known(OpOf[c], calls[c], Entries(c), Places(c), Told(c), effects[c], peer.active, peer.accepted)
  BY DEF KnownOf
<1>4. Known(OpOf[c], calls'[c], Entries(c), Places(c)', Told(c)', effects[c],
            peer'.active, peer'.accepted)
  BY <1>1, <1>2, <1>3, ValuesTyped, QuietKnown
<1> QED BY <1>4 DEF KnownOf

LEMMA SameFrames ==
  ASSUME NEW c
  PROVE  /\ toPeer' = toPeer => Places(c)' = Places(c)
         /\ toHub' = toHub => Told(c)' = Told(c)
         /\ jobs' = jobs => Entries(c)' = Entries(c)
         /\ Fewer(Places(c), Places(c)) /\ Fewer({}, Places(c))
         /\ toPeer' = <<>> => Places(c)' = {}
         /\ toHub' = <<>> => Told(c)' = {}
BY DEF Places, Told, Entries, Fewer

\* A step of the hub or of the link, for all mutations at once.
LEMMA LinkStep ==
  ASSUME IInv, TypeOK', Linked', UNCHANGED <<jobs, effects>>,
         \A c \in Mutations :
           /\ Fewer(Places(c)', Places(c)) /\ Told(c)' \subseteq Told(c)
           /\ Relinked(Places(c)', peer.active, peer.accepted, peer'.active, peer'.accepted)
           /\ \/ calls'[c] = calls[c]
              \/ calls[c].state = "waiting"
                 /\ \E o \in {"possible"} \cup Told(c) : calls'[c] = Settled(calls[c], o)
  PROVE  IInv'
<1>1. ASSUME NEW c \in Mutations PROVE KnownOf(c)'
  <2>1. Entries(c)' = Entries(c) /\ effects'[c] = effects[c]
    BY SameFrames
  <2> QED BY <2>1, QuietKeeps DEF IInv
<1>2. ReadsOnly'
  BY DEF IInv, ReadsOnly
<1> QED BY <1>1, <1>2 DEF IInv

LEMMA CallsTyped ==
  ASSUME TypeOK, calls' \in [Calls -> CallType], toPeer' \in Seq(Calls), toHub' \in Seq(Frames),
         UNCHANGED <<peer, jobs, link, effects>>, late' \in SUBSET Calls
  PROVE  TypeOK'
BY DEF TypeOK, CallType, Frames

LEMMA HubFrames == ASSUME TypeOK PROVE toHub \in Seq(Frames)
BY DEF TypeOK, Frames

LEMMA TimesOutKeeps == ASSUME IInv, NEW c \in Calls, TimesOut(c) PROVE IInv'
<1> DEFINE o == IF c \in Mutations THEN "possible" ELSE "none"
<1>1. /\ calls[c] \in CallType /\ calls[c].state = "waiting" /\ c \in late
      /\ calls' = [calls EXCEPT ![c] = Settled(calls[c], o)]
      /\ UNCHANGED <<peer, jobs, link, toPeer, toHub, late, effects>>
  BY ValuesTyped DEF TimesOut, IInv
<1>2. Settled(calls[c], o) \in CallType
  BY <1>1, SettledFields DEF Answers
<1>3. calls \in [Calls -> CallType]
  BY DEF IInv, TypeOK, CallType
<1>4. TypeOK'
  <2>1. calls' \in [Calls -> CallType]
    BY <1>1, <1>2, <1>3
  <2> QED BY <1>1, <2>1, CallsTyped, HubFrames DEF IInv, TypeOK
<1>5. Linked'
  BY <1>1 DEF IInv, Linked
<1>6. ASSUME NEW d \in Mutations
      PROVE  /\ Fewer(Places(d)', Places(d)) /\ Told(d)' \subseteq Told(d)
             /\ Relinked(Places(d)', peer.active, peer.accepted, peer'.active, peer'.accepted)
             /\ \/ calls'[d] = calls[d]
                \/ calls[d].state = "waiting"
                   /\ \E x \in {"possible"} \cup Told(d) : calls'[d] = Settled(calls[d], x)
  BY <1>1, <1>3, SameFrames DEF Relinked, Mutations
<1> QED BY <1>1, <1>4, <1>5, <1>6, LinkStep

LEMMA DeadlineKeeps == ASSUME IInv, NEW c \in Calls, DeadlinePasses(c) PROVE IInv'
<1>1. TypeOK'
  BY DEF DeadlinePasses, IInv, TypeOK
<1>2. Linked'
  BY DEF DeadlinePasses, IInv, Linked
<1>3. ASSUME NEW d \in Mutations
      PROVE  /\ Fewer(Places(d)', Places(d)) /\ Told(d)' \subseteq Told(d)
             /\ Relinked(Places(d)', peer.active, peer.accepted, peer'.active, peer'.accepted)
             /\ calls'[d] = calls[d]
  BY SameFrames DEF Relinked, DeadlinePasses
<1> QED BY <1>1, <1>2, <1>3, LinkStep DEF DeadlinePasses

LEMMA ResponseKeeps == ASSUME IInv, TakesResponse PROVE IInv'
<1> DEFINE c == Head(toHub).call
           a == Head(toHub).answer
<1>1. /\ toHub # <<>> /\ Head(toHub).kind = "response" /\ toHub' = Tail(toHub)
      /\ UNCHANGED <<peer, jobs, link, toPeer, late, effects>>
      /\ calls' = IF calls[c].state = "waiting" /\ calls[c].generation = link.dialled
                  THEN [calls EXCEPT ![c] = Settled(calls[c], a)] ELSE calls
  BY DEF TakesResponse
<1>2. toHub \in Seq(Frames)
  BY HubFrames DEF IInv
<1>3. /\ toHub' \in Seq(Frames) /\ c \in Calls /\ a \in Answers /\ a \in Told(c)
      /\ \A d \in Calls : Told(d)' \subseteq Told(d)
  BY <1>1, <1>2, ToldTail
<1>4. calls \in [Calls -> CallType]
  BY DEF IInv, TypeOK, CallType
<1>5. Settled(calls[c], a) \in CallType
  BY <1>3, <1>4, SettledFields
<1> HIDE DEF c, a
<1>6. calls' \in [Calls -> CallType]
  BY <1>1, <1>3, <1>4, <1>5
<1>7. TypeOK'
  BY <1>1, <1>3, <1>6, CallsTyped DEF IInv, TypeOK
<1>8. Linked'
  BY <1>1 DEF IInv, Linked
<1>9. ASSUME NEW d \in Mutations
      PROVE  /\ Fewer(Places(d)', Places(d)) /\ Told(d)' \subseteq Told(d)
             /\ Relinked(Places(d)', peer.active, peer.accepted, peer'.active, peer'.accepted)
             /\ \/ calls'[d] = calls[d]
                \/ calls[d].state = "waiting"
                   /\ \E x \in {"possible"} \cup Told(d) : calls'[d] = Settled(calls[d], x)
  <2>1. d \in Calls
    BY DEF Mutations
  <2>2. \/ calls'[d] = calls[d]
        \/ d = c /\ calls[c].state = "waiting" /\ calls'[c] = Settled(calls[c], a)
    BY <1>1, <1>3, <1>4, <2>1
  <2> QED BY <1>1, <1>3, <2>1, <2>2, SameFrames DEF Relinked
<1> QED BY <1>1, <1>7, <1>8, <1>9, LinkStep

LEMMA OrderIsSeq ==
  ASSUME NEW S \in SUBSET Calls, NEW s \in Orders(S)
  PROVE  s \in Seq(S)
<1>1. IsFiniteSet(S)
  BY FleetRequestsAssumption, FS_Subset
<1>2. Cardinality(S) \in Nat
  BY <1>1, FS_CardinalityType
<1>3. s \in [1 .. Cardinality(S) -> S]
  BY DEF Orders
<1> QED BY <1>2, <1>3, SeqDef

LEMMA HearsTyped ==
  ASSUME NEW call \in CallType, NEW c \in Calls, NEW state, NEW generation \in 0 .. MaxGeneration
  PROVE  /\ MutationHears(call, state, generation) \in CallType
         /\ ReadHears(c, call, state, generation) \in CallType
         /\ \/ MutationHears(call, state, generation) = call
            \/ /\ call.state = "waiting"
               /\ MutationHears(call, state, generation) = Settled(call, "possible")
<1>1. Settled(call, "possible") \in CallType /\ Settled(call, "none") \in CallType
  BY SettledFields DEF Answers
<1>2. [call EXCEPT !.retried = TRUE, !.generation = generation] \in CallType
  BY DEF CallType
<1>3. [call EXCEPT !.lost = TRUE] \in CallType
  BY DEF CallType
<1> QED BY <1>1, <1>2, <1>3 DEF MutationHears, ReadHears

\* A change of the link's status.
LEMMA TransitionKeeps ==
  ASSUME IInv, NEW state \in {"offline", "syncing", "online"}, NEW generation \in 0 .. MaxGeneration,
         NEW dialled \in 0 .. MaxGeneration, NEW epoch \in 0 .. MaxFaults + 1,
         Transition(state, generation, dialled, epoch),
         dialled <= peer.accepted, generation \in {0, dialled},
         state = "online" => generation # 0,
         toHub' = toHub \/ toHub' = <<>> \/ (toHub # <<>> /\ toHub' = Tail(toHub)),
         toHub' # <<>> => dialled # 0,
         UNCHANGED <<peer, jobs, late, effects>>
  PROVE  IInv'
<1> DEFINE resent == {c \in Calls \ Mutations : /\ Resent(calls[c], state, generation)
                                                /\ c \notin late}
<1>1. PICK order \in Orders(resent) :
        toPeer' = IF peer.active = dialled THEN toPeer \o order ELSE toPeer
  BY DEF Transition
<1>2. order \in Seq(resent) /\ resent \in SUBSET Calls
  BY <1>1, OrderIsSeq
<1>3. state # "online" => resent = {}
  BY DEF Resent
<1>4. resent \cap Mutations = {}
  OBVIOUS
<1> HIDE DEF resent
<1>5. /\ toPeer' \in Seq(Calls) /\ (toPeer' # <<>> => peer.active # 0)
      /\ \A c \in Mutations : Places(c)' = Places(c)
  <2>1. toPeer \in Seq(Calls) /\ (toPeer # <<>> => peer.active # 0)
    BY DEF IInv, TypeOK, Linked
  <2>2. CASE toPeer' = toPeer
    BY <2>1, <2>2, SameFrames
  <2>3. CASE toPeer' = toPeer \o order /\ peer.active = dialled
    <3>1. /\ toPeer' \in Seq(Calls) /\ (toPeer' # <<>> => toPeer # <<>> \/ resent # {})
          /\ \A d \in Calls \ resent : Places(d)' = Places(d)
      BY <1>2, <2>1, <2>3, PlacesConcat
    <3>2. \A d \in Mutations : d \in Calls \ resent
      BY <1>4 DEF Mutations
    <3> QED BY <1>3, <2>1, <2>3, <3>1, <3>2
  <2> QED BY <1>1, <2>2, <2>3
<1>6. toHub' \in Seq(Frames) /\ \A c \in Calls : Told(c)' \subseteq Told(c)
  BY HubFrames, ToldTail, SameFrames, EmptySeq DEF IInv
<1>7. calls \in [Calls -> CallType]
  BY DEF IInv, TypeOK, CallType
<1>8. calls' = [c \in Calls |-> IF c \in Mutations THEN MutationHears(calls[c], state, generation)
                                ELSE ReadHears(c, calls[c], state, generation)]
  BY DEF Transition
<1>9. calls' \in [Calls -> CallType]
  BY <1>7, <1>8, HearsTyped
<1>10. link' \in LinkType
       /\ link'.state = state /\ link'.generation = generation /\ link'.dialled = dialled
  BY DEF Transition, IInv, TypeOK, LinkType
<1>11. TypeOK'
  BY <1>5, <1>6, <1>9, <1>10 DEF IInv, TypeOK, CallType, LinkType, Frames
<1>12. Linked'
  BY <1>5, <1>10 DEF IInv, Linked
<1>13. ASSUME NEW d \in Mutations
       PROVE  /\ Fewer(Places(d)', Places(d)) /\ Told(d)' \subseteq Told(d)
              /\ Relinked(Places(d)', peer.active, peer.accepted, peer'.active, peer'.accepted)
              /\ \/ calls'[d] = calls[d]
                 \/ calls[d].state = "waiting"
                    /\ \E x \in {"possible"} \cup Told(d) : calls'[d] = Settled(calls[d], x)
  <2>1. d \in Calls
    BY DEF Mutations
  <2>2. \/ calls'[d] = calls[d]
        \/ calls[d].state = "waiting" /\ calls'[d] = Settled(calls[d], "possible")
    BY <1>7, <1>8, <2>1, HearsTyped
  <2> QED BY <1>5, <1>6, <2>1, <2>2, SameFrames DEF Relinked
<1> QED BY <1>11, <1>12, <1>13, LinkStep

LEMMA LinkValues ==
  ASSUME IInv
  PROVE  /\ link.generation \in 0 .. MaxGeneration /\ link.dialled \in 0 .. MaxGeneration
         /\ link.epoch \in 0 .. MaxFaults + 1
         /\ link.dialled <= peer.accepted /\ link.generation \in {0, link.dialled}
         /\ 0 \in 0 .. MaxGeneration /\ 0 <= peer.accepted
         /\ link.state = "online" => link.generation # 0
         /\ toHub # <<>> => link.dialled # 0
BY FleetRequestsAssumption DEF IInv, TypeOK, Linked

LEMMA StatusKeeps ==
  ASSUME IInv, TakesHeartbeat \/ MarksSyncing \/ MarksOnline \/ HubDisconnects
  PROVE  IInv'
<1>1. CASE TakesHeartbeat
  <2>1. /\ toHub # <<>> /\ toHub' = Tail(toHub) /\ Head(toHub).kind = "heartbeat"
        /\ UNCHANGED <<peer, jobs, late, effects>>
    BY <1>1 DEF TakesHeartbeat
  <2>2. Head(toHub).epoch \in 0 .. MaxFaults + 1
    <3>1. Head(toHub) \in Frames
      BY <2>1, HubFrames, ToldTail DEF IInv
    <3> QED BY <2>1, <3>1, FleetRequestsAssumption DEF Frames
  <2>3. PICK state \in {"online", "syncing"} :
          Transition(state, link.dialled, link.dialled, Head(toHub).epoch)
    BY <1>1 DEF TakesHeartbeat
  <2> QED BY <2>1, <2>2, <2>3, LinkValues, TransitionKeeps
<1>2. CASE MarksSyncing
  BY <1>2, LinkValues, TransitionKeeps DEF MarksSyncing
<1>3. CASE MarksOnline
  BY <1>3, LinkValues, TransitionKeeps DEF MarksOnline
<1>4. CASE HubDisconnects
  BY <1>4, LinkValues, TransitionKeeps DEF HubDisconnects
<1> QED BY <1>1, <1>2, <1>3, <1>4

\* The peer's end changes, and what was on its way to it is lost.
LEMMA ConnectionKeeps ==
  ASSUME IInv, Connects \/ PeerDisconnects \/ Revokes
  PROVE  IInv'
<1>1. UNCHANGED <<jobs, calls, late, effects>>
  BY DEF Connects, PeerDisconnects, Revokes
<1>2. CASE Connects
  <2>1. /\ peer.accepted \in 0 .. MaxGeneration /\ peer.accepted < MaxGeneration
        /\ toPeer' = <<>> /\ toHub' = <<[kind |-> "heartbeat", epoch |-> peer.epoch]>>
        /\ peer.epoch \in 1 .. MaxFaults + 1
    BY <1>2 DEF Connects, IInv, TypeOK
  <2>2. peer.accepted + 1 \in 0 .. MaxGeneration /\ peer.accepted + 1 # 0
    BY <2>1, FleetRequestsAssumption
  <2>3. peer' \in PeerType
        /\ peer'.accepted = peer.accepted + 1 /\ peer'.active = peer.accepted + 1
        /\ peer'.epoch = peer.epoch /\ peer'.faults = peer.faults
    BY <1>2, <2>2 DEF Connects, IInv, TypeOK, PeerType
  <2>4. link' \in LinkType
        /\ link'.state = "syncing" /\ link'.generation = 0 /\ link'.dialled = peer.accepted + 1
    BY <1>2, <2>2, FleetRequestsAssumption DEF Connects, IInv, TypeOK, LinkType
  <2>5. [kind |-> "heartbeat", epoch |-> peer.epoch] \in Frames
    BY <2>1 DEF Frames
  <2>6. toHub' \in Seq(Frames) /\ toPeer' \in Seq(Calls)
    BY <2>1, <2>5
  <2>7. TypeOK'
    BY <1>1, <2>3, <2>4, <2>6 DEF IInv, TypeOK, PeerType, LinkType, Frames
  <2>8. Linked'
    BY <2>1, <2>2, <2>3, <2>4 DEF IInv, Linked
  <2>9. ASSUME NEW d \in Mutations
        PROVE  /\ Places(d)' = {} /\ Told(d)' = {}
               /\ Relinked(Places(d)', peer.active, peer.accepted, peer'.active, peer'.accepted)
    <3>1. Told(d)' = {}
      BY <2>1 DEF Told
    <3> QED BY <2>1, <2>3, <3>1, SameFrames DEF Relinked
  <2> QED BY <1>1, <2>7, <2>8, <2>9, SameFrames, LinkStep
<1>3. CASE PeerDisconnects
  <2>1. /\ peer' \in PeerType
        /\ peer' = [peer EXCEPT !.active = 0] /\ peer'.active = 0
        /\ peer'.accepted = peer.accepted /\ peer'.epoch = peer.epoch /\ peer'.faults = peer.faults
        /\ toPeer' = <<>> /\ UNCHANGED <<link, toHub>>
    <3>1. /\ peer' = [peer EXCEPT !.active = 0] /\ toPeer' = <<>> /\ UNCHANGED <<link, toHub>>
          /\ 0 \in 0 .. MaxGeneration
      BY <1>3, FleetRequestsAssumption DEF PeerDisconnects
    <3>2. peer \in PeerType
      BY DEF IInv, TypeOK, PeerType
    <3> QED BY <3>1, <3>2 DEF PeerType
  <2>2. TypeOK'
    BY <1>1, <2>1 DEF IInv, TypeOK, PeerType
  <2>3. Linked'
    BY <2>1 DEF IInv, Linked
  <2> QED BY <1>1, <2>1, <2>2, <2>3, SameFrames, LinkStep DEF Relinked
<1>4. CASE Revokes
  <2>1. /\ peer' \in PeerType
        /\ peer'.accepted = peer.accepted /\ peer'.active = peer.active
        /\ peer'.epoch = peer.epoch /\ peer'.faults = peer.faults + 1
        /\ UNCHANGED <<link, toPeer, toHub>>
        /\ peer.epoch \in Nat /\ peer.faults \in Nat
    <3>1. /\ peer' = [peer EXCEPT !.granted = FALSE, !.faults = @ + 1] /\ peer.faults < MaxFaults
          /\ UNCHANGED <<link, toPeer, toHub>>
      BY <1>4 DEF Revokes
    <3>2. peer \in PeerType
      BY DEF IInv, TypeOK, PeerType
    <3>3. peer.faults + 1 \in 0 .. MaxFaults /\ peer.epoch \in Nat /\ peer.faults \in Nat
      BY <3>1, <3>2, FleetRequestsAssumption DEF PeerType
    <3> QED BY <3>1, <3>2, <3>3 DEF PeerType
  <2>2. TypeOK'
    BY <1>1, <2>1 DEF IInv, TypeOK, PeerType
  <2>3. Linked'
    BY <2>1 DEF IInv, Linked
  <2> QED BY <1>1, <2>1, <2>2, <2>3, SameFrames, LinkStep DEF Relinked
<1> QED BY <1>2, <1>3, <1>4

-----------------------------------------------------------------------------
(* Calls and repetitions.                                                    *)

LEMMA SentPlaces ==
  ASSUME IInv, NEW c \in Calls, toPeer' \in {toPeer, Sent(c)}, link.state = "online"
  PROVE  /\ toPeer' \in Seq(Calls) /\ (toPeer' # <<>> => peer.active # 0)
         /\ \A d \in Calls \ {c} : Places(d)' = Places(d)
         /\ \/ Places(c)' = Places(c)
            \/ /\ \E i : Places(c)' = Places(c) \cup {i}
               /\ toPeer' # toPeer /\ peer.active = link.generation /\ peer.active # 0
<1>1. toPeer \in Seq(Calls) /\ (toPeer # <<>> => peer.active # 0)
  BY DEF IInv, TypeOK, Linked
<1>2. link.generation = link.dialled /\ link.dialled # 0
  BY DEF IInv, Linked
<1>3. CASE toPeer' = toPeer
  BY <1>1, <1>3, SameFrames
<1>4. CASE toPeer' = Append(toPeer, c) /\ peer.active = link.dialled /\ toPeer' # toPeer
  BY <1>1, <1>2, <1>4, PlacesAppend
<1> QED BY <1>3, <1>4 DEF Sent

LEMMA CallKeeps == ASSUME IInv, NEW c \in Calls, Call(c) PROVE IInv'
<1>1. calls \in [Calls -> CallType] /\ toPeer \in Seq(Calls) /\ calls[c].state = "idle"
  BY DEF IInv, TypeOK, CallType, Call
<1>2. UNCHANGED <<peer, jobs, link, toHub, late, effects>>
  BY DEF Call
<1> DEFINE asked == [calls[c] EXCEPT !.state = "waiting", !.generation = link.generation]
           lost == [calls[c] EXCEPT !.state = "waiting", !.generation = link.generation, !.lost = TRUE]
           unsent == Settled(calls[c], "none")
<1>3. /\ asked \in CallType /\ asked.state = "waiting" /\ asked.generation = link.generation
      /\ asked.retried = calls[c].retried /\ lost \in CallType
  BY <1>1, LinkValues DEF CallType
<1>4. /\ unsent \in CallType /\ unsent.state = "done" /\ unsent.outcome = "none"
      /\ unsent.generation = calls[c].generation /\ unsent.retried = calls[c].retried
  BY <1>1, SettledFields DEF Answers
<1>5. \/ /\ calls' = [calls EXCEPT ![c] = unsent] /\ toPeer' = toPeer
      \/ /\ calls' = [calls EXCEPT ![c] = asked] /\ toPeer' = Sent(c) /\ link.state = "online"
      \/ /\ calls' = [calls EXCEPT ![c] = lost] /\ toPeer' = toPeer /\ c \notin Mutations
  BY DEF Call
<1> HIDE DEF asked, lost, unsent
<1>6. calls'[c] \in {asked, lost, unsent} /\ \A d \in Calls \ {c} : calls'[d] = calls[d]
  BY <1>1, <1>5
<1>7. calls' \in [Calls -> CallType]
  BY <1>1, <1>3, <1>4, <1>5
<1>8. /\ toPeer' \in Seq(Calls) /\ (toPeer' # <<>> => peer.active # 0)
      /\ \A d \in Calls \ {c} : Places(d)' = Places(d)
  <2>1. CASE toPeer' = toPeer
    BY <1>1, <2>1, SameFrames DEF IInv, Linked
  <2>2. CASE toPeer' = Sent(c) /\ link.state = "online"
    BY <2>2, SentPlaces
  <2> QED BY <1>5, <2>1, <2>2
<1>9. TypeOK'
  BY <1>2, <1>7, <1>8, CallsTyped, HubFrames DEF IInv, TypeOK
<1>10. Linked'
  BY <1>2, <1>8 DEF IInv, Linked
<1>11. ASSUME NEW d \in Mutations, d # c PROVE KnownOf(d)'
  <2>1. d \in Calls
    BY DEF Mutations
  <2> QED BY <1>2, <1>6, <1>8, <1>9, <1>11, <2>1, SameFrames, QuietKeeps DEF IInv, Relinked
<1>12. ASSUME c \in Mutations PROVE KnownOf(c)'
  <2>1. /\ KnownOf(c) /\ Places(c) = {} /\ ~calls[c].retried /\ calls[c].generation <= peer.accepted
    BY <1>1, <1>12 DEF IInv, KnownOf, Known
  <2>2. Entries(c)' = Entries(c) /\ Told(c)' = Told(c) /\ effects'[c] = effects[c]
    BY <1>2, SameFrames
  <2>3. CASE calls'[c] = unsent /\ toPeer' = toPeer
    <3>1. Places(c)' = {}
      BY <2>1, <2>3, SameFrames
    <3>2. Known(OpOf[c], unsent, Entries(c), {}, Told(c), effects[c], peer.active, peer.accepted)
      BY <1>1, <1>4, <2>1, ValuesTyped, MadeKnown DEF IInv, KnownOf
    <3> QED BY <1>2, <2>2, <2>3, <3>1, <3>2 DEF KnownOf
  <2>4. CASE calls'[c] = asked /\ toPeer' = Sent(c) /\ link.state = "online"
    <3>1. /\ \A i, j \in Places(c)' : i = j
          /\ Places(c)' # {} => peer.active = link.generation /\ peer.active # 0
      BY <2>1, <2>4, SentPlaces
    <3>2. link.generation <= peer.accepted
      BY LinkValues
    <3>3. Known(OpOf[c], asked, Entries(c), Places(c)', Told(c), effects[c], peer.active, peer.accepted)
      BY <1>1, <1>3, <2>1, <3>1, <3>2, ValuesTyped, MadeKnown DEF IInv, KnownOf
    <3> QED BY <1>2, <2>2, <2>4, <3>3 DEF KnownOf
  <2> QED BY <1>1, <1>5, <1>12, <2>3, <2>4
<1>13. ReadsOnly'
  BY <1>2 DEF IInv, ReadsOnly
<1> QED BY <1>9, <1>10, <1>11, <1>12, <1>13 DEF IInv

LEMMA RetryKeeps == ASSUME IInv, NEW c \in Calls, Retry(c) PROVE IInv'
<1>1. /\ calls \in [Calls -> CallType] /\ calls[c].state = "done" /\ calls[c].outcome = "possible"
      /\ OpOf[c] = "retained" /\ c \in Mutations
      /\ link.state = "online" /\ link.generation = calls[c].generation
      /\ toPeer' = Sent(c) /\ UNCHANGED <<peer, jobs, link, toHub, late, effects>>
  BY DEF IInv, TypeOK, CallType, Retry, Mutations
<1> DEFINE asked == [calls[c] EXCEPT !.state = "waiting", !.retried = TRUE]
<1>2. /\ asked \in CallType /\ asked.state = "waiting" /\ asked.retried
      /\ asked.generation = calls[c].generation
  BY <1>1 DEF CallType
<1>3. calls' = [calls EXCEPT ![c] = asked]
  BY DEF Retry
<1> HIDE DEF asked
<1>4. calls' \in [Calls -> CallType] /\ calls'[c] = asked /\ \A d \in Calls \ {c} : calls'[d] = calls[d]
  BY <1>1, <1>2, <1>3
<1>5. /\ toPeer' \in Seq(Calls) /\ (toPeer' # <<>> => peer.active # 0)
      /\ \A d \in Calls \ {c} : Places(d)' = Places(d)
      /\ Places(c)' = Places(c) \/ (peer.active = calls[c].generation /\ peer.active # 0)
  BY <1>1, SentPlaces
<1>6. TypeOK'
  BY <1>1, <1>4, <1>5, CallsTyped, HubFrames DEF IInv, TypeOK
<1>7. Linked'
  BY <1>1, <1>5 DEF IInv, Linked
<1>8. ASSUME NEW d \in Mutations, d # c PROVE KnownOf(d)'
  <2>1. d \in Calls
    BY DEF Mutations
  <2> QED BY <1>1, <1>4, <1>5, <1>6, <1>8, <2>1, SameFrames, QuietKeeps DEF IInv, Relinked
<1>9. KnownOf(c)'
  <2>1. Known("retained", calls[c], Entries(c), Places(c), Told(c), effects[c],
              peer.active, peer.accepted)
    BY <1>1 DEF IInv, KnownOf
  <2>2. Entries(c)' = Entries(c) /\ Told(c)' = Told(c) /\ effects'[c] = effects[c]
    BY <1>1, SameFrames
  <2>3. Known("retained", asked, Entries(c), Places(c)', Told(c), effects[c],
              peer.active, peer.accepted)
    BY <1>1, <1>2, <1>5, <2>1, ValuesTyped, AskedKnown DEF IInv
  <2> QED BY <1>1, <1>4, <2>2, <2>3 DEF KnownOf
<1>10. ReadsOnly'
  BY <1>1 DEF IInv, ReadsOnly
<1> QED BY <1>6, <1>7, <1>8, <1>9, <1>10 DEF IInv

LEMMA CrashKeeps == ASSUME IInv, PeerCrashes PROVE IInv'
<1>1. /\ peer \in PeerType /\ peer.faults < MaxFaults /\ peer.epoch <= peer.faults + 1
      /\ peer' = [peer EXCEPT !.active = 0, !.faults = @ + 1, !.epoch = @ + 1]
      /\ jobs' = [g \in Generations |-> [c \in Calls |-> Absent]]
      /\ effects' = [c \in Calls |->
           IF \E g \in Generations : jobs[g][c].state = "half"
           THEN [effects[c] EXCEPT !.torn = TRUE] ELSE effects[c]]
      /\ toPeer' = <<>> /\ UNCHANGED <<link, toHub, calls, late>>
  BY DEF PeerCrashes, IInv, TypeOK, Linked, PeerType
<1>2. /\ peer.faults + 1 \in 0 .. MaxFaults /\ peer.epoch + 1 \in 1 .. MaxFaults + 1
      /\ 0 \in 0 .. MaxGeneration /\ peer.epoch \in Nat /\ peer.faults \in Nat
  BY <1>1, FleetRequestsAssumption DEF PeerType
<1>3. /\ peer' \in PeerType /\ peer'.active = 0 /\ peer'.accepted = peer.accepted
      /\ peer'.faults = peer.faults + 1 /\ peer'.epoch = peer.epoch + 1
  BY <1>1, <1>2 DEF PeerType
<1>4. Absent \in Jobs /\ Absent.state = "absent"
  BY DEF Absent, Jobs, Answers
<1>5. jobs' \in [Generations -> [Calls -> Jobs]]
      /\ \A g \in Generations, c \in Calls : jobs'[g][c] = Absent
  BY <1>1, <1>4
<1>6. effects \in [Calls -> EffectType]
  BY DEF IInv, TypeOK, EffectType
<1>7. \A c \in Calls : /\ effects'[c] \in {effects[c], [effects[c] EXCEPT !.torn = TRUE]}
                       /\ [effects[c] EXCEPT !.torn = TRUE] \in EffectType
                       /\ [effects[c] EXCEPT !.torn = TRUE].begun = effects[c].begun
  BY <1>1, <1>6 DEF EffectType
<1>8. effects' \in [Calls -> EffectType]
  <2>1. DOMAIN effects' = Calls /\ effects' = [c \in Calls |-> effects'[c]]
    BY <1>1
  <2> QED BY <1>6, <1>7, <2>1
<1>9. TypeOK'
  BY <1>1, <1>3, <1>5, <1>8 DEF IInv, TypeOK, PeerType, EffectType
<1>10. Linked'
  BY <1>1, <1>2, <1>3 DEF IInv, Linked
<1>11. ReadsOnly'
  BY <1>4, <1>5, <1>7 DEF IInv, ReadsOnly
<1>12. ASSUME NEW c \in Mutations PROVE KnownOf(c)'
  <2>1. c \in Calls
    BY DEF Mutations
  <2>2. NoEntry(Entries(c)') /\ Places(c)' = {} /\ Told(c)' = Told(c)
    <3>1. \A g \in Generations : Entries(c)'[g] = Absent
      BY <1>5, <2>1 DEF Entries
    <3> QED BY <1>1, <1>4, <3>1, SameFrames DEF NoEntry
  <2>3. Known(OpOf[c], calls[c], Entries(c), Places(c), Told(c), effects[c],
              peer.active, peer.accepted)
    BY DEF IInv, KnownOf
  <2>4. Known(OpOf[c], calls[c], Entries(c)', {}, Told(c), effects'[c], 0, peer.accepted)
    <3>1. /\ calls[c] \in CallType /\ Entries(c) \in [Generations -> Jobs]
          /\ effects[c] \in EffectType /\ Told(c) \in SUBSET Answers
          /\ peer.active \in Nat /\ peer.accepted \in Nat
      BY <2>1, ValuesTyped DEF IInv
    <3> DEFINE f2 == effects'[c]
               e2 == Entries(c)'
    <3>2. f2 \in {effects[c], [effects[c] EXCEPT !.torn = TRUE]}
      BY <1>7, <2>1
    <3>3. NoEntry(e2)
      BY <2>2
    <3> HIDE DEF f2, e2
    <3>4. Known(OpOf[c], calls[c], e2, {}, Told(c), f2, 0, peer.accepted)
      BY <2>3, <3>1, <3>2, <3>3, CrashedKnown
    <3> QED BY <3>4 DEF f2, e2
  <2> QED BY <1>1, <1>3, <2>2, <2>4 DEF KnownOf
<1> QED BY <1>9, <1>10, <1>11, <1>12 DEF IInv

-----------------------------------------------------------------------------
(* The ledger and the handlers.                                              *)

\* The entry of one request changes.
Sets(g, c, r) == jobs' = [jobs EXCEPT ![g] = [jobs[g] EXCEPT ![c] = r]]

LEMMA SetsEntries ==
  ASSUME TypeOK, NEW g \in Generations, NEW c \in Calls, NEW r \in Jobs, Sets(g, c, r)
  PROVE  /\ jobs' \in [Generations -> [Calls -> Jobs]]
         /\ \A h \in Generations, d \in Calls :
              jobs'[h][d] = IF h = g /\ d = c THEN r ELSE jobs[h][d]
         /\ Entries(c)' = [Entries(c) EXCEPT ![g] = r]
         /\ \A d \in Calls \ {c} : Entries(d)' = Entries(d)
<1>1. jobs \in [Generations -> [Calls -> Jobs]]
  BY DEF TypeOK
<1>2. jobs' \in [Generations -> [Calls -> Jobs]]
  BY <1>1 DEF Sets
<1>3. \A h \in Generations, d \in Calls : jobs'[h][d] = IF h = g /\ d = c THEN r ELSE jobs[h][d]
  BY <1>1 DEF Sets
<1> QED BY <1>2, <1>3 DEF Entries

LEMMA PeerTyped ==
  ASSUME TypeOK, jobs' \in [Generations -> [Calls -> Jobs]], effects' \in [Calls -> EffectType],
         toPeer' \in Seq(Calls), toHub' \in Seq(Frames), UNCHANGED <<peer, link, calls, late>>
  PROVE  TypeOK'
BY DEF TypeOK, EffectType, Frames

\* A step of the ledger or of a handler for request c on connection g.
LEMMA PeerStep ==
  ASSUME IInv, NEW g \in Generations, NEW c \in Calls,
         jobs' \in [Generations -> [Calls -> Jobs]], effects' \in [Calls -> EffectType],
         \A d \in Calls \ {c} : effects'[d] = effects[d] /\ Entries(d)' = Entries(d),
         toPeer' \in Seq(Calls), toPeer' # <<>> => toPeer # <<>>,
         \A d \in Calls \ {c} : Fewer(Places(d)', Places(d)),
         toHub' \in Seq(Frames), toHub' # <<>> => toHub # <<>> \/ link.dialled = g,
         \A d \in Calls \ {c} : Told(d)' \subseteq Told(d),
         UNCHANGED <<peer, link, calls, late>>,
         c \in Mutations => KnownOf(c)',
         c \notin Mutations => effects'[c].begun = 0
           /\ \A h \in Generations : jobs'[h][c].state \in {"absent", "verifying"}
  PROVE  IInv'
<1>1. TypeOK'
  BY PeerTyped DEF IInv
<1>2. Linked'
  BY DEF IInv, Linked, Generations
<1>3. ASSUME NEW d \in Mutations, d # c PROVE KnownOf(d)'
  <2>1. d \in Calls
    BY DEF Mutations
  <2> QED BY <1>1, <1>3, <2>1, QuietKeeps DEF IInv, Relinked
<1>4. ReadsOnly'
  <2>1. ASSUME NEW d \in Calls \ Mutations, d # c, NEW h \in Generations
        PROVE  jobs'[h][d] = jobs[h][d]
    <3>1. Entries(d)'[h] = Entries(d)[h]
      BY <2>1
    <3> QED BY <3>1 DEF Entries
  <2> QED BY <2>1 DEF IInv, ReadsOnly
<1> QED BY <1>1, <1>2, <1>3, <1>4 DEF IInv

LEMMA NowKnown ==
  ASSUME IInv, NEW c \in Mutations
  PROVE  /\ Known(OpOf[c], calls[c], Entries(c), Places(c), Told(c), effects[c],
                  peer.active, peer.accepted)
         /\ c \in Calls /\ calls[c] \in CallType /\ Entries(c) \in [Generations -> Jobs]
         /\ effects[c] \in EffectType /\ Told(c) \in SUBSET Answers
         /\ peer.active \in Nat /\ peer.accepted \in Nat
         /\ \A g \in Generations : Entries(c)[g] = jobs[g][c]
BY ValuesTyped DEF IInv, KnownOf, Mutations

LEMMA EffectsTyped ==
  ASSUME TypeOK
  PROVE  /\ effects \in [Calls -> EffectType]
         /\ \A c \in Calls : /\ [effects[c] EXCEPT !.refused = TRUE] \in EffectType
                             /\ [effects[c] EXCEPT !.finished = TRUE] \in EffectType
                             /\ [effects[c] EXCEPT !.torn = TRUE] \in EffectType
                             /\ [effects[c] EXCEPT !.begun = @ + 1] \in EffectType
                             /\ [effects[c] EXCEPT !.refused = TRUE].begun = effects[c].begun
<1>1. effects \in [Calls -> EffectType]
  BY DEF TypeOK, EffectType
<1>2. ASSUME NEW f \in EffectType
      PROVE  /\ [f EXCEPT !.refused = TRUE] \in EffectType
             /\ [f EXCEPT !.finished = TRUE] \in EffectType
             /\ [f EXCEPT !.torn = TRUE] \in EffectType
             /\ [f EXCEPT !.begun = @ + 1] \in EffectType
             /\ [f EXCEPT !.refused = TRUE].begun = f.begun
  <2>1. f.begun \in Nat /\ f.begun + 1 \in Nat
    BY DEF EffectType
  <2>2. [f EXCEPT !.begun = @ + 1] \in EffectType
    BY <2>1 DEF EffectType
  <2>3. /\ [f EXCEPT !.refused = TRUE] \in EffectType
        /\ [f EXCEPT !.refused = TRUE].begun = f.begun
    BY DEF EffectType
  <2>4. [f EXCEPT !.finished = TRUE] \in EffectType
    BY DEF EffectType
  <2>5. [f EXCEPT !.torn = TRUE] \in EffectType
    BY DEF EffectType
  <2> QED BY <2>2, <2>3, <2>4, <2>5
<1> QED BY <1>1, <1>2

LEMMA AdmitsKeeps == ASSUME IInv, Admits PROVE IInv'
<1> DEFINE g == peer.active
           c == Head(toPeer)
<1>1. /\ g # 0 /\ toPeer # <<>> /\ toPeer' = Tail(toPeer)
      /\ UNCHANGED <<peer, link, calls, late>>
      /\ g \in Generations /\ toPeer \in Seq(Calls) /\ toHub \in Seq(Frames)
      /\ jobs \in [Generations -> [Calls -> Jobs]]
  BY FleetRequestsAssumption DEF Admits, IInv, TypeOK, Generations, Frames
<1>2. /\ toPeer' \in Seq(Calls) /\ c \in Calls /\ Places(c) # {}
      /\ \A d \in Calls : Fewer(Places(d)', Places(d))
      /\ \A d \in Calls : d = c /\ (\A i, j \in Places(d) : i = j) => Places(d)' = {}
  BY <1>1, PlacesTail
<1>3. jobs[g][c] \in Jobs
  BY <1>1, <1>2
<1>4. \/ /\ jobs[g][c].state = "absent"
         /\ Sets(g, c, [Absent EXCEPT !.state = "verifying", !.answers = 1])
         /\ UNCHANGED <<toHub, effects>>
      \/ /\ jobs[g][c].state = "absent" /\ Replies(g, c, "none", 1)
         /\ effects' = [effects EXCEPT ![c].refused = TRUE]
         /\ jobs' = jobs
      \/ /\ jobs[g][c].state \in Running
         /\ Sets(g, c, [jobs[g][c] EXCEPT !.answers = @ + 1])
         /\ UNCHANGED <<toHub, effects>>
      \/ /\ jobs[g][c].state = "complete"
         /\ Replies(g, c, jobs[g][c].response, 1)
         /\ UNCHANGED <<jobs, effects>>
  BY DEF Admits, Sets
<1> HIDE DEF g, c
<1>5. PICK k \in Calls : k = c
  BY <1>2
<1>6. /\ Places(k) # {} /\ jobs[g][k] \in Jobs /\ Fewer(Places(k)', Places(k))
      /\ (\A i, j \in Places(k) : i = j) => Places(k)' = {}
      /\ k \in Mutations => g = peer.active /\ Entries(k)[g] = jobs[g][k]
  BY <1>1, <1>2, <1>3, <1>5, NowKnown DEF g
<1>7. PICK h \in Generations : h = g
  BY <1>1
<1>8. CASE /\ jobs[h][k].state = "absent"
           /\ Sets(h, k, [Absent EXCEPT !.state = "verifying", !.answers = 1])
           /\ UNCHANGED <<toHub, effects>>
  <2> DEFINE r == [Absent EXCEPT !.state = "verifying", !.answers = 1]
  <2>1. r \in Jobs /\ r.state = "verifying"
    BY DEF Absent, Jobs, Running, Answers
  <2> HIDE DEF r
  <2>2. /\ jobs' \in [Generations -> [Calls -> Jobs]]
        /\ Entries(k)' = [Entries(k) EXCEPT ![h] = r]
        /\ \A d \in Calls \ {k} : Entries(d)' = Entries(d)
        /\ \A i \in Generations : jobs'[i][k] = IF i = h THEN r ELSE jobs[i][k]
    BY <1>8, <2>1, SetsEntries DEF r, IInv
  <2>3. ASSUME k \in Mutations PROVE KnownOf(k)'
    <3>1. Known(OpOf[k], calls[k], [Entries(k) EXCEPT ![h] = r], Places(k)', Told(k), effects[k],
                peer.active, peer.accepted)
      BY <1>6, <1>7, <1>8, <2>1, <2>3, NowKnown, AdmittedKnown
    <3> QED BY <1>1, <1>8, <2>2, <3>1, SameFrames DEF KnownOf
  <2>4. k \notin Mutations => effects'[k].begun = 0
          /\ \A i \in Generations : jobs'[i][k].state \in {"absent", "verifying"}
    BY <1>8, <2>1, <2>2 DEF IInv, ReadsOnly
  <2> QED BY <1>1, <1>2, <1>5, <1>8, <2>2, <2>3, <2>4, EffectsTyped, SameFrames, PeerStep DEF IInv
<1>9. CASE /\ jobs[h][k].state = "absent" /\ Replies(h, k, "none", 1)
           /\ effects' = [effects EXCEPT ![k].refused = TRUE]
           /\ jobs' = jobs
  <2>1. /\ toHub' \in Seq(Frames) /\ (toHub' # <<>> => toHub # <<>> \/ link.dialled = h)
        /\ Told(k)' \subseteq Told(k) \cup {"none"}
        /\ \A d \in Calls \ {k} : Told(d)' \subseteq Told(d)
    <3>1. Fitting("none") = {"none"} /\ "none" \in Answers /\ 1 \in Nat
      BY DEF Fitting, Answers
    <3> QED BY <1>1, <1>9, <3>1, ToldReplies
  <2>2. /\ effects' \in [Calls -> EffectType] /\ effects'[k] = [effects[k] EXCEPT !.refused = TRUE]
        /\ \A d \in Calls \ {k} : effects'[d] = effects[d]
        /\ effects'[k].begun = effects[k].begun
    BY <1>9, EffectsTyped DEF IInv
  <2>3. ASSUME k \in Mutations PROVE KnownOf(k)'
    <3>1. Known(OpOf[k], calls[k], Entries(k), Places(k)', Told(k)',
                [effects[k] EXCEPT !.refused = TRUE], peer.active, peer.accepted)
      BY <1>6, <1>7, <1>9, <2>1, <2>3, NowKnown, RefusedKnown
    <3> QED BY <1>1, <1>9, <2>2, <3>1, SameFrames DEF KnownOf
  <2>4. k \notin Mutations => effects'[k].begun = 0
          /\ \A i \in Generations : jobs'[i][k].state \in {"absent", "verifying"}
    BY <1>9, <2>2 DEF IInv, ReadsOnly
  <2> QED BY <1>1, <1>2, <1>5, <1>9, <2>1, <2>2, <2>3, <2>4, SameFrames, PeerStep
<1>10. CASE /\ jobs[h][k].state \in Running
            /\ Sets(h, k, [jobs[h][k] EXCEPT !.answers = @ + 1])
            /\ UNCHANGED <<toHub, effects>>
  <2> DEFINE r == [jobs[h][k] EXCEPT !.answers = @ + 1]
  <2>1. r \in Jobs /\ r.state = jobs[h][k].state
    BY <1>6, <1>7 DEF Jobs
  <2> HIDE DEF r
  <2>2. /\ jobs' \in [Generations -> [Calls -> Jobs]]
        /\ \A d \in Calls \ {k} : Entries(d)' = Entries(d)
        /\ \A i \in Generations : jobs'[i][k] = IF i = h THEN r ELSE jobs[i][k]
    BY <1>10, <2>1, SetsEntries DEF r, IInv
  <2>3. ASSUME k \in Mutations PROVE KnownOf(k)'
    <3>1. \A i \in Generations :
            /\ Entries(k)[i] = jobs[i][k] /\ Entries(k)'[i] = jobs'[i][k]
            /\ jobs'[i][k].state = jobs[i][k].state
            /\ jobs[i][k].state = "complete" => jobs'[i][k] = jobs[i][k]
      BY <1>10, <2>1, <2>2 DEF Entries, Running
    <3> DEFINE e2 == Entries(k)'
               p2 == Places(k)'
    <3>2. /\ Fewer(p2, Places(k))
          /\ \A i \in Generations :
               /\ (e2[i].state = "absent") <=> (Entries(k)[i].state = "absent")
               /\ Entries(k)[i].state = "half" => e2[i].state = "half"
               /\ e2[i].state = "complete" \/ Entries(k)[i].state = "complete"
                    => e2[i] = Entries(k)[i]
      BY <1>6, <3>1
    <3> HIDE DEF e2, p2
    <3>3. Known(OpOf[k], calls[k], e2, p2, Told(k), effects[k], peer.active, peer.accepted)
      BY <2>3, <3>2, NowKnown, SameEntryKnown
    <3> QED BY <1>1, <1>10, <3>3, SameFrames DEF KnownOf, e2, p2
  <2>4. k \notin Mutations => effects'[k].begun = 0
          /\ \A i \in Generations : jobs'[i][k].state \in {"absent", "verifying"}
    BY <1>10, <2>1, <2>2 DEF IInv, ReadsOnly
  <2> QED BY <1>1, <1>2, <1>5, <1>10, <2>2, <2>3, <2>4, EffectsTyped, SameFrames, PeerStep DEF IInv
<1>11. CASE /\ jobs[h][k].state = "complete"
            /\ Replies(h, k, jobs[h][k].response, 1)
            /\ UNCHANGED <<jobs, effects>>
  <2> DEFINE a == jobs[h][k].response
  <2>1. a \in Answers /\ 1 \in Nat
    BY <1>6, <1>7 DEF Jobs
  <2>2. /\ toHub' \in Seq(Frames) /\ (toHub' # <<>> => toHub # <<>> \/ link.dialled = h)
        /\ Told(k)' \subseteq Told(k) \cup Fitting(a)
        /\ \A d \in Calls \ {k} : Told(d)' \subseteq Told(d)
    BY <1>1, <1>11, <2>1, ToldReplies
  <2>3. ASSUME k \in Mutations PROVE KnownOf(k)'
    <3>1. Keeps(Entries(k), a)
      BY <1>11, <2>3, NowKnown DEF Keeps
    <3>2. a # "read"
      BY <2>3, <3>1, NowKnown DEF Known
    <3>3. Fitting(a) \subseteq {x \in Answers :
                                /\ x # "read"
                                /\ \E b \in Answers : Keeps(Entries(k), b) /\ x \in Fitting(b)}
      BY <2>1, <3>1, <3>2 DEF Fitting, Answers
    <3>4. Known(OpOf[k], calls[k], Entries(k), Places(k)', Told(k)', effects[k],
                peer.active, peer.accepted)
      BY <1>6, <2>2, <2>3, <3>3, NowKnown, SameEntryKnown
    <3> QED BY <1>1, <1>11, <3>4, SameFrames DEF KnownOf
  <2>4. k \notin Mutations => effects'[k].begun = 0
          /\ \A i \in Generations : jobs'[i][k].state \in {"absent", "verifying"}
    BY <1>11 DEF IInv, ReadsOnly
  <2> QED BY <1>1, <1>2, <1>5, <1>11, <2>2, <2>3, <2>4, EffectsTyped, SameFrames, PeerStep DEF IInv
<1> QED BY <1>4, <1>5, <1>7, <1>8, <1>9, <1>10, <1>11

\* A handler of a mutation goes on to its next check.
LEMMA MovesKeeps ==
  ASSUME IInv, NEW g \in Generations, NEW c \in Mutations, NEW r \in Jobs,
         jobs[g][c].state \in {"verifying", "checking"}, r.state \in {"checking", "acting"},
         Sets(g, c, r), UNCHANGED <<peer, link, toPeer, toHub, calls, late, effects>>
  PROVE  IInv'
<1>1. c \in Calls
  BY DEF Mutations
<1>2. /\ jobs' \in [Generations -> [Calls -> Jobs]]
      /\ Entries(c)' = [Entries(c) EXCEPT ![g] = r]
      /\ \A d \in Calls \ {c} : Entries(d)' = Entries(d)
  BY <1>1, SetsEntries DEF IInv
<1> DEFINE e == Entries(c)
           e2 == [e EXCEPT ![g] = r]
<1>3. e \in [Generations -> Jobs] /\ e[g].state \in {"verifying", "checking"}
  BY NowKnown
<1>4. \A h \in Generations :
        /\ (e2[h].state = "absent") <=> (e[h].state = "absent")
        /\ e[h].state = "half" => e2[h].state = "half"
        /\ e2[h].state = "complete" \/ e[h].state = "complete" => e2[h] = e[h]
  BY <1>3
<1> HIDE DEF e2
<1>5. Known(OpOf[c], calls[c], e2, Places(c), Told(c), effects[c], peer.active, peer.accepted)
  BY <1>4, NowKnown, SameEntryKnown, SameFrames
<1>6. KnownOf(c)'
  BY <1>2, <1>5, SameFrames DEF KnownOf, e2
<1>7. toPeer \in Seq(Calls) /\ toHub \in Seq(Frames)
  BY HubFrames DEF IInv, TypeOK
<1> QED BY <1>1, <1>2, <1>6, <1>7, EffectsTyped, SameFrames, PeerStep DEF IInv

\* A handler of a mutation ends.
LEMMA CompletesKeeps ==
  ASSUME IInv, NEW g \in Generations, NEW c \in Mutations, NEW a \in Answers, a # "read",
         jobs[g][c].state \in Running, Completes(g, c, a),
         NEW f \in EffectType, EndsLike(f, effects[c]),
         effects' = [effects EXCEPT ![c] = f],
         a = "applied" => f.finished, a = "none" => f.torn \/ jobs[g][c].state # "half",
         UNCHANGED <<peer, link, toPeer, calls, late>>
  PROVE  IInv'
<1> DEFINE r == IF OpOf[c] = "retained" THEN [state |-> "complete", answers |-> 0, response |-> a]
                ELSE Absent
<1>1. c \in Calls /\ jobs[g][c].answers \in Nat /\ jobs[g][c] \in Jobs
  BY ValuesTyped DEF Mutations, IInv, Jobs
<1>2. r \in Jobs
  BY DEF Jobs, Absent, Answers, Running
<1>3. Sets(g, c, r) /\ Replies(g, c, a, jobs[g][c].answers)
  BY DEF Completes, Sets
<1> HIDE DEF r
<1>4. /\ jobs' \in [Generations -> [Calls -> Jobs]]
      /\ Entries(c)' = [Entries(c) EXCEPT ![g] = r]
      /\ \A d \in Calls \ {c} : Entries(d)' = Entries(d)
  BY <1>1, <1>2, <1>3, SetsEntries DEF IInv
<1>5. /\ toHub' \in Seq(Frames) /\ (toHub' # <<>> => toHub # <<>> \/ link.dialled = g)
      /\ Told(c)' \subseteq Told(c) \cup Fitting(a)
      /\ \A d \in Calls \ {c} : Told(d)' \subseteq Told(d)
  BY <1>1, <1>3, ToldReplies, HubFrames DEF IInv
<1>6. /\ effects' \in [Calls -> EffectType] /\ effects'[c] = f
      /\ \A d \in Calls \ {c} : effects'[d] = effects[d]
  BY <1>1, EffectsTyped DEF IInv
<1>7. Known(OpOf[c], calls[c], [Entries(c) EXCEPT ![g] = r], Places(c), Told(c)', f,
            peer.active, peer.accepted)
  <2> DEFINE t2 == Told(c)'
             e == Entries(c)
  <2>1. t2 \subseteq Told(c) \cup Fitting(a)
    BY <1>5
  <2>2. e[g].state \in Running /\ (a = "none" => f.torn \/ e[g].state # "half")
    BY NowKnown
  <2>3. Known(OpOf[c], calls[c], e, Places(c), Told(c), effects[c], peer.active, peer.accepted)
        /\ calls[c] \in CallType /\ e \in [Generations -> Jobs]
        /\ effects[c] \in EffectType /\ Told(c) \in SUBSET Answers
        /\ peer.active \in Nat /\ peer.accepted \in Nat
    BY NowKnown
  <2>4. /\ OpOf[c] = "retained" => r.state = "complete" /\ r.response = a
        /\ OpOf[c] # "retained" => r.state = "absent"
    BY DEF r, Absent
  <2> HIDE DEF t2, e
  <2>5. Known(OpOf[c], calls[c], [e EXCEPT ![g] = r], Places(c), t2, f, peer.active, peer.accepted)
    BY <2>1, <2>2, <2>3, <2>4, EndedKnown
  <2> QED BY <2>5 DEF t2, e
<1>8. KnownOf(c)'
  BY <1>4, <1>6, <1>7, SameFrames DEF KnownOf
<1>9. /\ toPeer' \in Seq(Calls) /\ (toPeer' # <<>> => toPeer # <<>>)
      /\ \A d \in Calls \ {c} : Fewer(Places(d)', Places(d))
  BY SameFrames DEF IInv, TypeOK
<1>10. \A d \in Calls \ {c} : effects'[d] = effects[d] /\ Entries(d)' = Entries(d)
  BY <1>4, <1>6
<1> QED BY <1>1, <1>4, <1>5, <1>6, <1>8, <1>9, <1>10, PeerStep

LEMMA ReadsKeep == ASSUME IInv, NEW g \in Generations, NEW c \in Calls, Reads(g, c) PROVE IInv'
<1>1. /\ OpOf[c] = "read" /\ c \notin Mutations /\ UNCHANGED <<peer, link, toPeer, calls, late, effects>>
      /\ jobs[g][c] \in Jobs /\ jobs[g][c].answers \in Nat
  BY ValuesTyped DEF Reads, Mutations, IInv, Jobs
<1>2. PICK a \in {"read", "none"} : Completes(g, c, a)
  BY DEF Reads
<1>3. Absent \in Jobs /\ Absent.state = "absent" /\ a \in Answers
  BY DEF Absent, Jobs, Answers
<1>4. Sets(g, c, Absent) /\ Replies(g, c, a, jobs[g][c].answers)
  BY <1>1, <1>2 DEF Completes, Sets
<1>5. /\ jobs' \in [Generations -> [Calls -> Jobs]]
      /\ \A h \in Generations : jobs'[h][c] = IF h = g THEN Absent ELSE jobs[h][c]
      /\ \A d \in Calls \ {c} : Entries(d)' = Entries(d)
  BY <1>3, <1>4, SetsEntries DEF IInv
<1>6. /\ toHub' \in Seq(Frames) /\ (toHub' # <<>> => toHub # <<>> \/ link.dialled = g)
      /\ \A d \in Calls \ {c} : Told(d)' \subseteq Told(d)
  BY <1>1, <1>3, <1>4, ToldReplies, HubFrames DEF IInv
<1>7. /\ effects'[c].begun = 0
      /\ \A h \in Generations : jobs'[h][c].state \in {"absent", "verifying"}
  BY <1>1, <1>3, <1>5 DEF IInv, ReadsOnly
<1>8. toPeer \in Seq(Calls)
  BY DEF IInv, TypeOK
<1> QED BY <1>1, <1>5, <1>6, <1>7, <1>8, EffectsTyped, SameFrames, PeerStep DEF IInv

\* A read has no other step.
LEMMA OnlyMutationsAct ==
  ASSUME IInv, NEW g \in Generations, NEW c \in Calls,
         jobs[g][c].state \in {"checking", "acting", "half"}
  PROVE  c \in Mutations
BY DEF IInv, ReadsOnly

\* The history of a call that ends as it is, done or torn.
LEMMA EndsAs ==
  ASSUME IInv, NEW c \in Calls
  PROVE  /\ effects' = effects => effects' = [effects EXCEPT ![c] = effects[c]]
         /\ effects[c] \in EffectType /\ EndsLike(effects[c], effects[c])
         /\ \E f \in EffectType : /\ f = [effects[c] EXCEPT !.finished = TRUE]
                                 /\ EndsLike(f, effects[c]) /\ f.finished
         /\ \E f \in EffectType : /\ f = [effects[c] EXCEPT !.torn = TRUE]
                                 /\ EndsLike(f, effects[c]) /\ f.torn
<1>1. effects \in [Calls -> EffectType] /\ effects[c] \in EffectType
  BY EffectsTyped DEF IInv
<1>2. ASSUME NEW f \in EffectType
      PROVE  /\ [f EXCEPT !.finished = TRUE] \in EffectType
             /\ EndsLike([f EXCEPT !.finished = TRUE], f) /\ [f EXCEPT !.finished = TRUE].finished
             /\ [f EXCEPT !.torn = TRUE] \in EffectType
             /\ EndsLike([f EXCEPT !.torn = TRUE], f) /\ [f EXCEPT !.torn = TRUE].torn
  BY DEF EffectType, EndsLike
<1>3. EndsLike(effects[c], effects[c])
  BY DEF EndsLike
<1> QED BY <1>1, <1>2, <1>3

LEMMA ChecksKeep ==
  ASSUME IInv, NEW g \in Generations, NEW c \in Calls, Verifies(g, c) \/ Checks(g, c)
  PROVE  IInv'
<1>1. /\ jobs[g][c] \in Jobs /\ jobs[g][c].state \in {"verifying", "checking"}
      /\ c \in Mutations /\ UNCHANGED <<peer, link, toPeer, calls, late, effects>>
  BY ValuesTyped, OnlyMutationsAct DEF Verifies, Checks, IInv
<1>2. CASE Completes(g, c, "none")
  <2>1. "none" \in Answers /\ jobs[g][c].state \in Running
    BY <1>1 DEF Answers, Running
  <2>2. /\ effects' = [effects EXCEPT ![c] = effects[c]]
        /\ effects[c] \in EffectType /\ EndsLike(effects[c], effects[c])
    BY <1>1, EndsAs
  <2> QED BY <1>1, <1>2, <2>1, <2>2, CompletesKeeps
<1>3. ASSUME NEW s \in {"checking", "acting"}, jobs' = [jobs EXCEPT ![g][c].state = s], UNCHANGED toHub
      PROVE  IInv'
  <2> DEFINE r == [jobs[g][c] EXCEPT !.state = s]
  <2>1. r \in Jobs /\ r.state = s /\ Sets(g, c, r)
    BY <1>1, <1>3 DEF Jobs, Running, Sets
  <2> QED BY <1>1, <1>3, <2>1, MovesKeeps
<1> QED BY <1>2, <1>3 DEF Verifies, Checks

LEMMA BeginsKeeps == ASSUME IInv, NEW g \in Generations, NEW c \in Calls, Begins(g, c) PROVE IInv'
<1>1. /\ jobs[g][c] \in Jobs /\ jobs[g][c].state = "acting" /\ jobs[g][c].state \in Running
      /\ c \in Mutations /\ UNCHANGED <<peer, link, toPeer, calls, late>>
  BY ValuesTyped, OnlyMutationsAct DEF Begins, IInv, Running
<1>2. ASSUME NEW a \in {"none", "possible"}, Completes(g, c, a), UNCHANGED effects PROVE IInv'
  <2>1. a \in Answers
    BY DEF Answers
  <2>2. /\ effects' = [effects EXCEPT ![c] = effects[c]]
        /\ effects[c] \in EffectType /\ EndsLike(effects[c], effects[c])
    BY <1>2, EndsAs
  <2> QED BY <1>1, <1>2, <2>1, <2>2, CompletesKeeps
<1>3. CASE /\ jobs' = [jobs EXCEPT ![g][c].state = "half"]
           /\ effects' = [effects EXCEPT ![c].begun = @ + 1]
           /\ UNCHANGED toHub
  <2> DEFINE r == [jobs[g][c] EXCEPT !.state = "half"]
  <2>1. r \in Jobs /\ r.state = "half" /\ Sets(g, c, r)
    BY <1>1, <1>3 DEF Jobs, Running, Sets
  <2> HIDE DEF r
  <2>2. /\ jobs' \in [Generations -> [Calls -> Jobs]]
        /\ Entries(c)' = [Entries(c) EXCEPT ![g] = r]
        /\ \A d \in Calls \ {c} : Entries(d)' = Entries(d)
    BY <2>1, SetsEntries DEF IInv
  <2>3. /\ effects' \in [Calls -> EffectType]
        /\ effects'[c] = [effects[c] EXCEPT !.begun = @ + 1]
        /\ \A d \in Calls \ {c} : effects'[d] = effects[d]
    BY <1>3, EffectsTyped DEF IInv
  <2>4. Known(OpOf[c], calls[c], [Entries(c) EXCEPT ![g] = r], Places(c), Told(c),
              [effects[c] EXCEPT !.begun = @ + 1], peer.active, peer.accepted)
    BY <1>1, <2>1, NowKnown, BegunKnown
  <2>5. KnownOf(c)'
    BY <1>1, <1>3, <2>2, <2>3, <2>4, SameFrames DEF KnownOf
  <2>6. /\ toPeer' \in Seq(Calls) /\ (toPeer' # <<>> => toPeer # <<>>)
        /\ toHub' \in Seq(Frames) /\ (toHub' # <<>> => toHub # <<>>)
        /\ \A d \in Calls \ {c} : Fewer(Places(d)', Places(d)) /\ Told(d)' \subseteq Told(d)
    BY <1>1, <1>3, HubFrames, SameFrames DEF IInv, TypeOK
  <2>7. \A d \in Calls \ {c} : effects'[d] = effects[d] /\ Entries(d)' = Entries(d)
    BY <2>2, <2>3
  <2> QED BY <1>1, <2>2, <2>3, <2>5, <2>6, <2>7, PeerStep
<1> QED BY <1>2, <1>3 DEF Begins

LEMMA EndsKeep ==
  ASSUME IInv, NEW g \in Generations, NEW c \in Calls, Finishes(g, c) \/ Tears(g, c)
  PROVE  IInv'
<1>1. /\ jobs[g][c].state = "half" /\ jobs[g][c].state \in Running
      /\ c \in Mutations /\ UNCHANGED <<peer, link, toPeer, calls, late>>
  BY OnlyMutationsAct DEF Finishes, Tears, Running
<1>2. CASE Finishes(g, c)
  <2>1. PICK f \in EffectType : /\ f = [effects[c] EXCEPT !.finished = TRUE]
                                /\ EndsLike(f, effects[c]) /\ f.finished
    BY EndsAs
  <2>2. "applied" \in Answers /\ Completes(g, c, "applied") /\ effects' = [effects EXCEPT ![c] = f]
    BY <1>2, <2>1 DEF Answers, Finishes
  <2> QED BY <1>1, <2>1, <2>2, CompletesKeeps
<1>3. CASE Tears(g, c)
  <2>1. PICK f \in EffectType : /\ f = [effects[c] EXCEPT !.torn = TRUE]
                                /\ EndsLike(f, effects[c]) /\ f.torn
    BY EndsAs
  <2>2. PICK a \in {"none", "possible"} : Completes(g, c, a)
    BY <1>3 DEF Tears
  <2>3. a \in Answers /\ effects' = [effects EXCEPT ![c] = f]
    BY <1>3, <2>1 DEF Answers, Tears
  <2> QED BY <1>1, <2>1, <2>2, <2>3, CompletesKeeps
<1> QED BY <1>2, <1>3

-----------------------------------------------------------------------------
(* The theorems.                                                             *)

LEMMA InitIInv == Init => IInv
<1> SUFFICES ASSUME Init PROVE IInv
  OBVIOUS
<1>1. TypeOK
  BY FleetRequestsAssumption DEF Init, TypeOK, Jobs, Absent, Answers, Running
<1>2. Linked
  BY DEF Init, Linked
<1>3. \A g \in Generations, c \in Calls : jobs[g][c] = Absent /\ jobs[g][c].state = "absent"
  BY DEF Init, Absent
<1>4. \A c \in Calls : /\ effects[c].begun = 0 /\ calls[c].state = "idle" /\ ~calls[c].retried
                       /\ calls[c].generation = 0
  BY DEF Init
<1>5. peer.active = 0 /\ peer.accepted = 0
  BY DEF Init
<1>6. ReadsOnly
  BY <1>3, <1>4 DEF ReadsOnly
<1>7. ASSUME NEW c \in Mutations PROVE KnownOf(c)
  <2>1. c \in Calls
    BY DEF Mutations
  <2>2. Places(c) = {} /\ Told(c) = {}
    BY DEF Places, Told, Init
  <2>3. NoEntry(Entries(c)) /\ ~HasBegun(Entries(c)) /\ \A a : ~Keeps(Entries(c), a)
    BY <1>3, <2>1 DEF NoEntry, HasBegun, Keeps, Entries
  <2>4. \A g \in Generations : Entries(c)[g].state = "absent"
    BY <2>3 DEF NoEntry
  <2> QED BY <1>4, <1>5, <2>1, <2>2, <2>3, <2>4 DEF KnownOf, Known
<1> QED BY <1>1, <1>2, <1>6, <1>7 DEF IInv

LEMMA StutterKeeps == ASSUME IInv, UNCHANGED vars PROVE IInv'
<1>1. TypeOK' /\ Linked'
  BY DEF vars, IInv, TypeOK, Linked
<1>2. ASSUME NEW d \in Mutations
      PROVE  /\ Fewer(Places(d)', Places(d)) /\ Told(d)' \subseteq Told(d)
             /\ Relinked(Places(d)', peer.active, peer.accepted, peer'.active, peer'.accepted)
             /\ calls'[d] = calls[d]
  BY SameFrames DEF Relinked, vars
<1> QED BY <1>1, <1>2, LinkStep DEF vars

LEMMA StepKeeps == IInv /\ [Next]_vars => IInv'
<1> SUFFICES ASSUME IInv, [Next]_vars PROVE IInv'
  OBVIOUS
<1>1. CASE \E c \in Calls : Call(c) \/ Retry(c) \/ TimesOut(c) \/ DeadlinePasses(c)
  BY <1>1, CallKeeps, RetryKeeps, TimesOutKeeps, DeadlineKeeps
<1>2. CASE TakesResponse
  BY <1>2, ResponseKeeps
<1>3. CASE TakesHeartbeat \/ MarksSyncing \/ MarksOnline \/ HubDisconnects
  BY <1>3, StatusKeeps
<1>4. CASE Connects \/ PeerDisconnects \/ Revokes
  BY <1>4, ConnectionKeeps
<1>5. CASE PeerCrashes
  BY <1>5, CrashKeeps
<1>6. CASE Admits
  BY <1>6, AdmitsKeeps
<1>7. CASE \E g \in Generations, c \in Calls : Handles(g, c)
  BY <1>7, ReadsKeep, ChecksKeep, BeginsKeeps, EndsKeep DEF Handles
<1>8. CASE UNCHANGED vars
  BY <1>8, StutterKeeps
<1> QED BY <1>1, <1>2, <1>3, <1>4, <1>5, <1>6, <1>7, <1>8 DEF Next

LEMMA Inductive == Spec => []IInv
<1> QED BY InitIInv, StepKeeps, PTL DEF Spec

(* However its request is repeated, dropped or overtaken by a new connection, *)
(* and wherever the peer crashes, a mutation acts at most once (request-      *)
(* ledger.ts, finalCheck and the clients): a begun one has left its entry in  *)
(* the ledger, or no copy of its request will be admitted any more.           *)
THEOREM ActsOnce == Spec => []AtMostOnce
<1>1. IInv => AtMostOnce
  <2> SUFFICES ASSUME IInv, NEW c \in Calls PROVE effects[c].begun <= 1
    BY DEF AtMostOnce
  <2>1. CASE c \in Mutations
    <3>1. effects[c] \in EffectType /\ (effects[c].begun > 0 => effects[c].begun = 1)
      BY <2>1, NowKnown DEF Known
    <3>2. effects[c].begun \in Nat
      BY <3>1 DEF EffectType
    <3> QED BY <3>1, <3>2
  <2>2. CASE c \notin Mutations
    BY <2>2 DEF IInv, ReadsOnly
  <2> QED BY <2>1, <2>2
<1> QED BY <1>1, Inductive, PTL

(* What the caller of a mutation has been told is true and stays true: the    *)
(* answers on their way and those the ledger keeps are true when they are     *)
(* given, and nothing that happens later makes them false (mutation-client.ts,*)
(* request-ledger.ts and the handlers' mapping of errors).                    *)
THEOREM ToldTruth == Spec => []Truthful
<1>1. IInv => Truthful
  <2> SUFFICES ASSUME IInv, NEW c \in Mutations, calls[c].state = "done"
               PROVE  /\ calls[c].outcome = "applied" => effects[c].finished
                      /\ calls[c].outcome = "none" =>
                           \/ effects[c].begun = 0 \/ effects[c].torn
                           \/ effects[c].refused /\ calls[c].retried
    BY DEF Truthful
  <2> QED BY NowKnown DEF Known, Excused
<1> QED BY <1>1, Inductive, PTL

\* Only the final check lets a handler act, and it asks for the last connection.
LEMMA OnlyNewestActs ==
  ASSUME IInv, [Next]_vars, NEW g \in Generations, NEW c \in Calls,
         g < peer.accepted, jobs[g][c].state \in {"absent", "verifying", "checking"}
  PROVE  jobs'[g][c].state \in {"absent", "verifying", "checking", "complete"}
<1>1. jobs \in [Generations -> [Calls -> Jobs]] /\ g # peer.accepted /\ g # peer.active
  <2>1. peer.accepted \in 0 .. MaxGeneration /\ peer.active \in {0, peer.accepted}
    BY DEF IInv, TypeOK, Linked
  <2>2. g \in Nat \ {0}
    BY FleetRequestsAssumption DEF Generations
  <2>3. jobs \in [Generations -> [Calls -> Jobs]]
    BY DEF IInv, TypeOK
  <2> QED BY <2>1, <2>2, <2>3, FleetRequestsAssumption
<1>2. CASE jobs'[g][c] = jobs[g][c]
  BY <1>2
<1>3. ASSUME NEW h \in Generations, NEW d \in Calls, NEW a, Completes(h, d, a) PROVE
        jobs'[g][c] = jobs[g][c] \/ jobs'[g][c].state \in {"absent", "complete"}
  BY <1>1, <1>3 DEF Completes, Absent
<1>4. CASE PeerCrashes
  BY <1>4 DEF PeerCrashes, Absent
<1>5. CASE Admits
  <2>1. jobs'[g] = jobs[g]
    BY <1>1, <1>5 DEF Admits
  <2> QED BY <1>2, <2>1
<1>6. ASSUME NEW h \in Generations, NEW d \in Calls, Handles(h, d)
      PROVE  jobs'[g][c].state \in {"absent", "verifying", "checking", "complete"}
  <2>1. CASE h = g /\ d = c
    <3>1. jobs[g][c].state \in {"absent", "verifying", "checking"} /\ jobs[g][c] \in Jobs
      BY <1>1
    <3>2. ~Authorised(g)
      BY <1>1 DEF Authorised
    <3>3. jobs' = [jobs EXCEPT ![g][c].state = "checking"] \/ \E a : Completes(g, c, a)
      BY <1>6, <2>1, <3>1, <3>2 DEF Handles, Reads, Verifies, Checks, Begins, Finishes, Tears
    <3>4. CASE jobs' = [jobs EXCEPT ![g][c].state = "checking"]
      BY <1>1, <3>4 DEF Jobs
    <3> QED BY <1>2, <1>3, <3>3, <3>4
  <2>2. CASE ~(h = g /\ d = c)
    <3>1. jobs'[g][c] = jobs[g][c]
      BY <1>1, <1>6, <2>2
         DEF Handles, Reads, Verifies, Checks, Begins, Finishes, Tears, Completes
    <3> QED BY <1>2, <3>1
  <2> QED BY <2>1, <2>2
<1>7. CASE UNCHANGED jobs
  BY <1>7
<1> QED BY <1>4, <1>5, <1>6, <1>7 DEF Next, Call, Retry, TimesOut, DeadlinePasses, TakesResponse,
             TakesHeartbeat, Connects, MarksSyncing, MarksOnline, HubDisconnects,
             PeerDisconnects, Revokes, vars

(* The generation is a fence: a handler of an older connection that is not    *)
(* past its final check will never act (accepted-connections.ts, finalCheck). *)
THEOREM OldLinkFenced == Spec => OldLinkIsFenced
<1>1. IInv /\ [Next]_vars =>
        [\A g \in Generations, c \in Calls :
           g < peer.accepted /\ jobs[g][c].state \in {"absent", "verifying", "checking"}
             => jobs'[g][c].state \in {"absent", "verifying", "checking", "complete"}]_vars
  BY OnlyNewestActs
<1> QED BY <1>1, Inductive, PTL DEF Spec, OldLinkIsFenced
=============================================================================
