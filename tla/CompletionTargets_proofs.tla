------------------------ MODULE CompletionTargets_proofs ------------------------
(***************************************************************************)
(* For any sets of processes, sessions, conversations and users: redirects  *)
(* stay flat, aliases follow their targets, watches hang on canonical       *)
(* targets and only running generations are armed, after any sequence of    *)
(* resolutions, promotions, rebindings, merges, observations and pruning.   *)
(***************************************************************************)
EXTENDS CompletionTargets, FiniteSetTheorems, TLAPS

-----------------------------------------------------------------------------
(* What is known of the tables. The conjuncts are the properties, said of any *)
(* database, and what they rest on.                                           *)

\* RedirectsAreFlat.
Flat(d) ==
  /\ \A t \in Targets : d.redirect[t] # None =>
       Exists(d, t) /\ Exists(d, d.redirect[t]) /\ d.redirect[d.redirect[t]] = None
  /\ \A w \in d.watch : Exists(d, w[2]) /\ d.redirect[w[2]] = None

\* AliasFollowsTarget.
Following(d) ==
  \A t \in Targets : Exists(d, t) /\ d.alias[t] # None => Canonical(d, d.alias[t]) = Canonical(d, t)

\* ArmedWhileRunning.
Arms(d) ==
  \A g \in Generations : /\ d.generation[g].armed <= d.generation[g].high
                         /\ d.generation[g].armed > 0 <=> d.generation[g].state = "running"

(* An alias names a target that exists, and a generation is named by its own  *)
(* alias only. The alias of a session appears with the session.               *)
Aliases(d) ==
  /\ \A t \in Targets : d.alias[t] # None => Exists(d, d.alias[t])
  /\ \A t \in Targets : d.alias[t] \in Generations => d.alias[t] = t
  /\ \A a \in Apps : d.alias[a] # None => Exists(d, a)

Store(d) == d \in Database /\ Flat(d) /\ Following(d) /\ Arms(d) /\ Aliases(d)

\* Those of G were not pruned: their aliases are their own.
Unpruned(d, G) == \A g \in G : d.alias[g] # None => Exists(d, g)

\* What the monitor and the browser may still resolve is not pruned.
Resolving == live \cup DOMAIN scan

IInv ==
  /\ TypeOK
  /\ Store(db) /\ Unpruned(db, Resolving)
  /\ \A g \in DOMAIN scan : scan[g] \in Conversations
  /\ \A c \in Conversations : transcript[c] % 2 = 1 => transcript[c] < MaxPosition
  /\ tick # "reading" => todo = {} /\ read = None

-----------------------------------------------------------------------------
(* The tables' columns, and the repository's operators.                       *)

LEMMA Columns ==
  ASSUME NEW d \in Database
  PROVE  /\ d.revision \in [Targets -> Nat] /\ d.redirect \in [Targets -> Apps \cup {None}]
         /\ d.alias \in [Targets -> Targets \cup {None}] /\ d.watch \subseteq Users \X Targets
         /\ d.generation \in [Generations -> StateRow]
BY DEF Database

LEMMA Sorts ==
  /\ None \notin Targets /\ None \notin Conversations /\ Apps \subseteq Targets /\ Generations \subseteq Targets
  /\ \A t \in Targets : t \in Apps <=> t \notin Generations
BY ConstantsAssumption DEF Targets

LEMMA CanonicalType ==
  ASSUME NEW d \in Database, NEW t \in Targets
  PROVE  Canonical(d, t) \in Targets /\ (Canonical(d, t) \in Generations => Canonical(d, t) = t)
BY Columns, Sorts DEF Canonical

LEMMA CanonicalExists ==
  ASSUME NEW d, Store(d), NEW t \in Targets, Exists(d, t)
  PROVE  /\ Exists(d, Canonical(d, t)) /\ d.redirect[Canonical(d, t)] = None
         /\ Canonical(d, Canonical(d, t)) = Canonical(d, t)
BY DEF Store, Flat, Canonical

\* Created adds a row, and its alias if there is none.
LEMMA CreatedColumns ==
  ASSUME NEW d, Store(d), NEW t \in Targets
  PROVE  LET e == Created(d, t)
         IN /\ e \in Database /\ e.redirect = d.redirect /\ e.watch = d.watch /\ e.generation = d.generation
            /\ \A x \in Targets : x # t => e.revision[x] = d.revision[x] /\ e.alias[x] = d.alias[x]
            /\ \A x \in Targets : e.revision[x] >= d.revision[x]
            /\ e.alias[t] = IF d.alias[t] = None THEN Canonical(d, t) ELSE d.alias[t]
            /\ d.alias[t] = None \/ Exists(d, t) => Exists(e, t)
            /\ Exists(e, t) => Canonical(d, e.alias[t]) = Canonical(d, t)
            /\ Exists(d, t) => e.revision = d.revision
<1> DEFINE new == IF Exists(d, t) THEN d ELSE [d EXCEPT !.revision[t] = 1]
           e == Created(d, t)
<1>1. /\ d \in Database /\ Flat(d) /\ Following(d)
  BY DEF Store
<1>2. /\ new \in Database /\ new.redirect = d.redirect /\ new.watch = d.watch
      /\ new.generation = d.generation /\ new.alias = d.alias
      /\ \A x \in Targets : x # t => new.revision[x] = d.revision[x]
      /\ \A x \in Targets : new.revision[x] >= d.revision[x]
      /\ Exists(new, t)
      /\ Exists(d, t) => new = d
  BY <1>1 DEF Database, Exists
<1>3. \A x : Canonical(new, x) = Canonical(d, x)
  BY <1>2 DEF Canonical
<1>4. Canonical(d, t) \in Targets
  BY <1>1, CanonicalType
<1>5. \/ d.alias[t] = None /\ e = [new EXCEPT !.alias[t] = Canonical(d, t)]
      \/ d.alias[t] # None /\ Canonical(d, d.alias[t]) = Canonical(d, t) /\ e = new
      \/ d.alias[t] # None /\ Canonical(d, d.alias[t]) # Canonical(d, t) /\ e = d
  BY <1>2, <1>3 DEF Created
<1>6. Canonical(d, Canonical(d, t)) = Canonical(d, t)
  BY <1>1, Sorts DEF Flat, Canonical
<1> HIDE DEF new, e
<1>7. CASE d.alias[t] = None /\ e = [new EXCEPT !.alias[t] = Canonical(d, t)]
  <2>1. /\ e \in Database /\ e.redirect = new.redirect /\ e.watch = new.watch
        /\ e.generation = new.generation /\ e.revision = new.revision
        /\ e.alias[t] = Canonical(d, t) /\ \A x \in Targets : x # t => e.alias[x] = new.alias[x]
    BY <1>2, <1>4, <1>7 DEF Database
  <2> QED BY <1>2, <1>6, <1>7, <2>1 DEF e, Exists
<1>8. CASE d.alias[t] # None /\ Canonical(d, d.alias[t]) = Canonical(d, t) /\ e = new
  BY <1>2, <1>8 DEF e, Exists
<1>9. CASE d.alias[t] # None /\ Canonical(d, d.alias[t]) # Canonical(d, t) /\ e = d
  <2>1. ~Exists(d, t)
    BY <1>1, <1>9 DEF Following
  <2> QED BY <1>1, <1>9, <2>1, Columns DEF e
<1> QED BY <1>5, <1>7, <1>8, <1>9

LEMMA CreatedKeeps ==
  ASSUME NEW d, Store(d), NEW t \in Targets
  PROVE  Store(Created(d, t))
<1> DEFINE e == Created(d, t)
<1>1. /\ e \in Database /\ e.redirect = d.redirect /\ e.watch = d.watch /\ e.generation = d.generation
      /\ \A x \in Targets : x # t => e.revision[x] = d.revision[x] /\ e.alias[x] = d.alias[x]
      /\ \A x \in Targets : e.revision[x] >= d.revision[x]
      /\ e.alias[t] = IF d.alias[t] = None THEN Canonical(d, t) ELSE d.alias[t]
      /\ d.alias[t] = None \/ Exists(d, t) => Exists(e, t)
      /\ Exists(e, t) => Canonical(d, e.alias[t]) = Canonical(d, t)
  BY CreatedColumns
<1> HIDE DEF e
<1>2. \A x : Canonical(e, x) = Canonical(d, x)
  BY <1>1 DEF Canonical
<1>3. \A x \in Targets : Exists(d, x) => Exists(e, x)
  BY <1>1, Columns DEF Exists, Store
<1>4. Flat(e)
  BY <1>1, <1>3, Columns, Sorts DEF Flat, Store
<1>5. Following(e)
  BY <1>1, <1>2 DEF Following, Store, Exists
<1>6. Arms(e)
  BY <1>1 DEF Arms, Store
<1>7. Aliases(e)
  <2>1. d.alias[t] = None => Exists(e, Canonical(d, t)) /\ (Canonical(d, t) \in Generations => Canonical(d, t) = t)
    BY <1>1, <1>3, CanonicalType, Columns, Sorts DEF Store, Flat, Canonical
  <2>2. \A x \in Targets : e.alias[x] # None => Exists(e, e.alias[x])
    BY <1>1, <1>3, <2>1, Columns DEF Aliases, Store
  <2>3. \A x \in Targets : e.alias[x] \in Generations => e.alias[x] = x
    BY <1>1, <2>1 DEF Aliases, Store
  <2>4. \A a \in Apps : e.alias[a] # None => Exists(e, a)
    BY <1>1, <1>3, Sorts DEF Aliases, Store
  <2> QED BY <2>2, <2>3, <2>4 DEF Aliases
<1> QED BY <1>1, <1>4, <1>5, <1>6, <1>7 DEF Store, e

LEMMA MaxOfThree ==
  ASSUME NEW i \in Nat, NEW j \in Nat, NEW k \in Nat
  PROVE  /\ Max({i, j, k}) \in Nat
         /\ Max({i, j, k}) >= i /\ Max({i, j, k}) >= j /\ Max({i, j, k}) >= k
<1>1. \E x \in {i, j, k} : \A y \in {i, j, k} : x >= y
  <2>1. CASE i >= j /\ i >= k
    BY <2>1
  <2>2. CASE j >= i /\ j >= k
    BY <2>2
  <2>3. CASE k >= i /\ k >= j
    BY <2>3
  <2> QED BY <2>1, <2>2, <2>3
<1>2. Max({i, j, k}) \in {i, j, k} /\ \A y \in {i, j, k} : Max({i, j, k}) >= y
  BY <1>1 DEF Max
<1> QED BY <1>2

\* A promotion to a session that is not merged away: nothing, the alias, or everything.
Promotion(d, e, g, a) ==
  /\ e \in Database
  /\ e.alias[g] = a
  /\ \A x \in Targets : x # g => e.alias[x] = d.alias[x] /\ e.redirect[x] = d.redirect[x]
  /\ \A x \in Targets : x # a => e.revision[x] = d.revision[x]
  /\ e.revision[a] >= d.revision[a]
  /\ \/ /\ Canonical(d, g) = a
        /\ e.redirect = d.redirect /\ e.watch = d.watch
        /\ e.generation = d.generation /\ e.revision = d.revision
     \/ /\ Canonical(d, g) # a /\ e.redirect[g] = a
        /\ e.watch = {<<w[1], IF w[2] = g THEN a ELSE w[2]>> : w \in d.watch}
        /\ e.generation = [d.generation EXCEPT ![g] = IF Canonical(d, g) = g THEN @ ELSE NoState]
        /\ e.revision[a] > d.revision[a] /\ e.revision[a] > d.revision[Canonical(d, g)]
        /\ e.revision[a] > d.revision[g]

LEMMA PromotedColumns ==
  ASSUME NEW d, Store(d), NEW g \in Generations, NEW a \in Apps,
         Exists(d, a), d.redirect[a] = None, Exists(d, g)
  PROVE  Promotion(d, Promoted(d, g, a), g, a)
<1> DEFINE e == Promoted(d, g, a)
           old == Canonical(d, g)
           m == Max({d.revision[x] : x \in {a, old, g}})
           aliases == [t \in Targets |-> IF d.alias[t] = g \/ t = g THEN a ELSE d.alias[t]]
           watches == {<<w[1], IF w[2] = g THEN a ELSE w[2]>> : w \in d.watch}
           row == IF old = g THEN d.generation[g] ELSE NoState
<1>1. /\ d \in Database /\ g \in Targets /\ a \in Targets /\ g # a /\ a # None /\ old \in Targets
      /\ Canonical(d, a) = a
  BY Sorts, CanonicalType DEF Store, Canonical
<1>2. d.alias[g] # None => Canonical(d, d.alias[g]) = old
  BY <1>1 DEF Store, Following
<1>3. \/ old = a /\ e = [d EXCEPT !.alias[g] = a]
      \/ /\ old # a
         /\ e = [d EXCEPT !.redirect[g] = a, !.alias = aliases, !.watch = watches,
                          !.revision[a] = m + 1, !.generation[g] = row]
  BY <1>1, <1>2 DEF Promoted
<1>4. m \in Nat /\ m >= d.revision[a] /\ m >= d.revision[old] /\ m >= d.revision[g]
  <2>1. {d.revision[x] : x \in {a, old, g}} = {d.revision[a], d.revision[old], d.revision[g]}
    OBVIOUS
  <2>2. d.revision[a] \in Nat /\ d.revision[old] \in Nat /\ d.revision[g] \in Nat
    BY <1>1, Columns
  <2> QED BY <2>1, <2>2, MaxOfThree
<1>5. /\ aliases \in [Targets -> Targets \cup {None}] /\ watches \subseteq Users \X Targets
      /\ row \in StateRow
      /\ \A x \in Targets : x # g => aliases[x] = d.alias[x]
  <2>1. \A x \in Targets : x # g => d.alias[x] # g
    BY <1>1 DEF Store, Aliases
  <2>2. NoState \in StateRow
    BY DEF NoState, StateRow
  <2>3. watches \subseteq Users \X Targets
    BY <1>1, Columns
  <2> QED BY <1>1, <2>1, <2>2, <2>3, Columns
<1> HIDE DEF m, aliases, watches, row, e, old
<1>6. CASE old = a /\ e = [d EXCEPT !.alias[g] = a]
  BY <1>1, <1>6, Columns DEF Database, Promotion, e, old
<1>7. CASE /\ old # a
           /\ e = [d EXCEPT !.redirect[g] = a, !.alias = aliases, !.watch = watches,
                            !.revision[a] = m + 1, !.generation[g] = row]
  <2>1. /\ e \in Database /\ e.redirect = [d.redirect EXCEPT ![g] = a] /\ e.alias = aliases
        /\ e.watch = watches /\ e.revision = [d.revision EXCEPT ![a] = m + 1]
        /\ e.generation = [d.generation EXCEPT ![g] = row]
    <3>1. /\ [d.redirect EXCEPT ![g] = a] \in [Targets -> Apps \cup {None}]
          /\ [d.revision EXCEPT ![a] = m + 1] \in [Targets -> Nat]
          /\ [d.generation EXCEPT ![g] = row] \in [Generations -> StateRow]
      BY <1>1, <1>4, <1>5, Columns
    <3>2. e = [revision |-> [d.revision EXCEPT ![a] = m + 1], redirect |-> [d.redirect EXCEPT ![g] = a],
               alias |-> aliases, watch |-> watches, generation |-> [d.generation EXCEPT ![g] = row]]
      BY <1>1, <1>7 DEF Database
    <3> QED BY <1>5, <3>1, <3>2 DEF Database
  <2>2. e.alias[g] = a
    BY <1>1, <2>1 DEF aliases
  <2>3. /\ e.revision[a] > d.revision[a] /\ e.revision[a] > d.revision[old] /\ e.revision[a] > d.revision[g]
        /\ e.revision[a] >= d.revision[a]
        /\ \A x \in Targets : x # a => e.revision[x] = d.revision[x]
    BY <1>1, <1>4, <2>1, Columns
  <2>4. /\ \A x \in Targets : x # g => e.alias[x] = d.alias[x] /\ e.redirect[x] = d.redirect[x]
        /\ e.redirect[g] = a
    BY <1>1, <1>5, <2>1, Columns
  <2>5. e.generation = [d.generation EXCEPT ![g] = IF old = g THEN @ ELSE NoState]
    BY <1>1, <2>1, Columns DEF row
  <2> QED BY <1>7, <2>1, <2>2, <2>3, <2>4, <2>5 DEF Promotion, e, old, watches
<1> QED BY <1>3, <1>6, <1>7

LEMMA PromotedKeeps ==
  ASSUME NEW d, Store(d), NEW g \in Generations, NEW a \in Apps,
         Exists(d, a), d.redirect[a] = None, Exists(d, g)
  PROVE  /\ Store(Promoted(d, g, a))
         /\ \A G : G \subseteq Targets /\ Unpruned(d, G) => Unpruned(Promoted(d, g, a), G)
<1> DEFINE e == Promoted(d, g, a)
           old == Canonical(d, g)
<1>1. /\ e \in Database
      /\ e.alias[g] = a
      /\ \A x \in Targets : x # g => e.alias[x] = d.alias[x] /\ e.redirect[x] = d.redirect[x]
      /\ \A x \in Targets : x # a => e.revision[x] = d.revision[x]
      /\ e.revision[a] >= d.revision[a]
      /\ \/ /\ old = a /\ e.redirect = d.redirect /\ e.watch = d.watch
            /\ e.generation = d.generation /\ e.revision = d.revision
         \/ /\ old # a /\ e.redirect[g] = a /\ e.alias[g] = a
            /\ e.watch = {<<w[1], IF w[2] = g THEN a ELSE w[2]>> : w \in d.watch}
            /\ e.generation = [d.generation EXCEPT ![g] = IF old = g THEN @ ELSE NoState]
  BY PromotedColumns DEF Promotion
<1>2. /\ d \in Database /\ Flat(d) /\ Following(d) /\ Arms(d) /\ Aliases(d)
      /\ g \in Targets /\ a \in Targets /\ g # a /\ a # None
  BY Sorts DEF Store
<1> HIDE DEF e
<1>3. \A x \in Targets : Exists(d, x) => Exists(e, x)
  BY <1>1, <1>2, Columns DEF Exists
<1>4. e.redirect[a] = None /\ \A x \in Targets : x # g => Canonical(e, x) = Canonical(d, x)
  BY <1>1, <1>2 DEF Canonical
<1>5. Canonical(e, a) = a /\ Canonical(e, g) = a
  BY <1>1, <1>2, <1>4 DEF Canonical
<1>6. Flat(e)
  <2>1. \A t \in Targets : e.redirect[t] # None =>
          Exists(e, t) /\ Exists(e, e.redirect[t]) /\ e.redirect[e.redirect[t]] = None
    <3> SUFFICES ASSUME NEW t \in Targets, e.redirect[t] # None
                 PROVE  Exists(e, t) /\ Exists(e, e.redirect[t]) /\ e.redirect[e.redirect[t]] = None
      OBVIOUS
    <3>1. CASE e.redirect = d.redirect
      BY <1>2, <1>3, <3>1, Columns, Sorts DEF Flat
    <3>2. CASE e.redirect[g] = a /\ t = g
      BY <1>2, <1>3, <1>4, <3>2
    <3>3. CASE t # g
      <4>1. e.redirect[t] = d.redirect[t] /\ d.redirect[t] \in Apps
        BY <1>1, <1>2, <3>3, Columns
      <4>2. d.redirect[t] # g /\ d.redirect[t] \in Targets
        BY <4>1, Sorts
      <4> QED BY <1>1, <1>2, <1>3, <4>1, <4>2 DEF Flat
    <3> QED BY <1>1, <3>1, <3>2, <3>3
  <2>2. \A w \in e.watch : Exists(e, w[2]) /\ e.redirect[w[2]] = None
    <3>1. CASE e.redirect = d.redirect /\ e.watch = d.watch
      BY <1>2, <1>3, <3>1, Columns DEF Flat
    <3>2. CASE e.watch = {<<w[1], IF w[2] = g THEN a ELSE w[2]>> : w \in d.watch}
      <4> SUFFICES ASSUME NEW w \in d.watch, w[2] # g
                   PROVE  Exists(e, w[2]) /\ e.redirect[w[2]] = None
        BY <1>2, <1>3, <1>4, <3>2
      <4>1. w[2] \in Targets
        BY <1>2, Columns
      <4> QED BY <1>1, <1>2, <1>3, <4>1 DEF Flat
    <3> QED BY <1>1, <3>1, <3>2
  <2> QED BY <2>1, <2>2 DEF Flat
<1>7. Following(e)
  <2> SUFFICES ASSUME NEW t \in Targets, Exists(e, t), e.alias[t] # None
               PROVE  Canonical(e, e.alias[t]) = Canonical(e, t)
    BY DEF Following
  <2>1. CASE t = g
    BY <1>1, <1>5, <2>1
  <2>2. CASE t # g
    <3>1. Exists(d, t) /\ e.alias[t] = d.alias[t] /\ d.alias[t] \in Targets /\ d.alias[t] # g
      BY <1>1, <1>2, <2>2, Columns DEF Exists, Aliases
    <3> QED BY <1>2, <1>4, <2>2, <3>1 DEF Following
  <2> QED BY <2>1, <2>2
<1>8. Arms(e)
  BY <1>1, <1>2, Columns DEF Arms, NoState
<1>9. Aliases(e)
  <2>1. \A x \in Targets : e.alias[x] = IF x = g THEN a ELSE d.alias[x]
    BY <1>1
  <2>2. Exists(e, a) /\ a \notin Generations
    BY <1>2, <1>3, Sorts
  <2> QED BY <1>2, <1>3, <2>1, <2>2, Columns, Sorts DEF Aliases
<1>10. \A G : G \subseteq Targets /\ Unpruned(d, G) => Unpruned(e, G)
  BY <1>1, <1>3 DEF Unpruned
<1> QED BY <1>1, <1>6, <1>7, <1>8, <1>9, <1>10 DEF Store, e

\* What a merge moves away from: the losers and the generations redirected to them.
Moved(d, losers) == losers \cup {g \in Generations : d.redirect[g] \in losers}

\* After a merge the survivor stands for every loser.
LEMMA MergedColumns ==
  ASSUME NEW d, Store(d), NEW losers, losers \subseteq Apps, NEW s \in Apps \ losers,
         Exists(d, s), d.redirect[s] = None,
         \A x \in losers : Exists(d, x) /\ d.redirect[x] = None
  PROVE  LET e == Merged(d, losers, s)
         IN /\ e \in Database /\ e.generation = d.generation
            /\ \A t \in Targets : e.alias[t] = IF d.alias[t] \in Moved(d, losers) THEN s ELSE d.alias[t]
            /\ \A t \in Targets :
                 e.redirect[t] = IF t \in losers \/ d.redirect[t] \in losers THEN s ELSE d.redirect[t]
            /\ e.watch = {<<w[1], IF w[2] \in Moved(d, losers) THEN s ELSE w[2]>> : w \in d.watch}
            /\ \A t \in Targets : e.revision[t] = IF t = s THEN d.revision[t] + 1 ELSE d.revision[t]
<1> DEFINE e == Merged(d, losers, s)
           aliases == [t \in Targets |-> IF d.alias[t] \in Moved(d, losers) THEN s ELSE d.alias[t]]
           watches == {<<w[1], IF w[2] \in Moved(d, losers) THEN s ELSE w[2]>> : w \in d.watch}
           redirects == [t \in Targets |-> IF t \in losers \/ d.redirect[t] \in losers THEN s ELSE d.redirect[t]]
           revisions == [d.revision EXCEPT ![s] = d.revision[s] + 1]
<1>1. d \in Database /\ s \in Targets
  BY Sorts DEF Store
<1>2. /\ aliases \in [Targets -> Targets \cup {None}] /\ redirects \in [Targets -> Apps \cup {None}]
      /\ revisions \in [Targets -> Nat]
  BY <1>1, Columns
<1>3. watches \subseteq Users \X Targets
  BY <1>1, Columns
<1>4. e = [d EXCEPT !.alias = aliases, !.watch = watches, !.redirect = redirects,
                    !.revision[s] = d.revision[s] + 1]
  BY DEF Merged, Moved
<1> HIDE DEF e, aliases, watches, redirects
<1>5. e = [revision |-> revisions, redirect |-> redirects, alias |-> aliases, watch |-> watches,
           generation |-> d.generation]
  BY <1>1, <1>4 DEF Database
<1>6. e \in Database
  BY <1>1, <1>2, <1>3, <1>5, Columns DEF Database
<1>7. \A t \in Targets : revisions[t] = IF t = s THEN d.revision[t] + 1 ELSE d.revision[t]
  BY <1>1, Columns
<1> QED BY <1>5, <1>6, <1>7 DEF e, aliases, watches, redirects

LEMMA MergedKeeps ==
  ASSUME NEW d, Store(d), NEW losers, losers \subseteq Apps, NEW s \in Apps \ losers,
         Exists(d, s), d.redirect[s] = None,
         \A x \in losers : Exists(d, x) /\ d.redirect[x] = None
  PROVE  Store(Merged(d, losers, s))
<1> DEFINE e == Merged(d, losers, s)
<1>1. /\ e \in Database /\ e.generation = d.generation
      /\ \A t \in Targets : e.alias[t] = IF d.alias[t] \in Moved(d, losers) THEN s ELSE d.alias[t]
      /\ \A t \in Targets :
           e.redirect[t] = IF t \in losers \/ d.redirect[t] \in losers THEN s ELSE d.redirect[t]
      /\ e.watch = {<<w[1], IF w[2] \in Moved(d, losers) THEN s ELSE w[2]>> : w \in d.watch}
      /\ \A t \in Targets : e.revision[t] = IF t = s THEN d.revision[t] + 1 ELSE d.revision[t]
  BY MergedColumns
<1>2. /\ d \in Database /\ Flat(d) /\ Following(d) /\ Arms(d) /\ Aliases(d)
      /\ s \in Targets /\ s # None /\ None \notin Moved(d, losers) /\ losers \subseteq Targets
      /\ losers \subseteq Moved(d, losers)
  BY Sorts DEF Store, Moved
<1> HIDE DEF e
<1>3. \A x \in Targets : Exists(d, x) => Exists(e, x)
  BY <1>1, <1>2, Columns DEF Exists
<1>4. e.redirect[s] = None
  BY <1>1, <1>2
<1>5. \A x \in Targets : Canonical(e, x) = IF Canonical(d, x) \in losers THEN s ELSE Canonical(d, x)
  BY <1>1, <1>2 DEF Canonical
<1>6. \A x \in Targets : x \in Moved(d, losers) => Canonical(d, x) \in losers
  BY <1>2 DEF Canonical, Moved
<1>7. Flat(e)
  <2>1. ASSUME NEW t \in Targets, e.redirect[t] # None
        PROVE  Exists(e, t) /\ Exists(e, e.redirect[t]) /\ e.redirect[e.redirect[t]] = None
    <3>1. CASE t \in losers \/ d.redirect[t] \in losers
      BY <1>1, <1>2, <1>3, <1>4, <3>1, <2>1 DEF Flat
    <3>2. CASE ~(t \in losers \/ d.redirect[t] \in losers)
      <4>1. e.redirect[t] = d.redirect[t] /\ d.redirect[t] \in Targets
        BY <1>1, <1>2, <2>1, <3>2, Columns, Sorts
      <4>2. d.redirect[d.redirect[t]] = None /\ Exists(d, t) /\ Exists(d, d.redirect[t])
        BY <1>2, <2>1, <4>1 DEF Flat
      <4> QED BY <1>1, <1>2, <1>3, <3>2, <4>1, <4>2
    <3> QED BY <3>1, <3>2
  <2>2. ASSUME NEW w \in d.watch, w[2] \notin Moved(d, losers)
        PROVE  Exists(e, w[2]) /\ e.redirect[w[2]] = None
    <3>1. w[2] \in Targets /\ w[2] \notin losers /\ d.redirect[w[2]] = None /\ Exists(d, w[2])
      BY <1>2, <2>2, Columns DEF Flat, Moved
    <3> QED BY <1>1, <1>2, <1>3, <3>1
  <2>3. \A w \in e.watch : Exists(e, w[2]) /\ e.redirect[w[2]] = None
    BY <1>1, <1>2, <1>3, <1>4, <2>2
  <2> QED BY <2>1, <2>3 DEF Flat
<1>8. Following(e)
  <2> SUFFICES ASSUME NEW t \in Targets, Exists(e, t), e.alias[t] # None
               PROVE  Canonical(e, e.alias[t]) = Canonical(e, t)
    BY DEF Following
  <2>1. d.alias[t] \in Targets
    BY <1>1, <1>2, Columns, Sorts
  <2>2. Exists(d, t)
    BY <1>1, <1>2 DEF Exists
  <2>3. Canonical(d, d.alias[t]) = Canonical(d, t)
    BY <1>2, <2>1, <2>2, Sorts DEF Following
  <2>4. Canonical(d, s) = s
    BY DEF Canonical
  <2> QED BY <1>1, <1>2, <1>5, <1>6, <2>1, <2>3, <2>4
<1>9. Arms(e)
  BY <1>1, <1>2 DEF Arms
<1>10. Aliases(e)
  <2>1. \A t \in Targets : e.alias[t] # None => Exists(e, e.alias[t])
    <3> SUFFICES ASSUME NEW t \in Targets, e.alias[t] # None
                 PROVE  Exists(e, e.alias[t])
      OBVIOUS
    <3>1. CASE d.alias[t] \in Moved(d, losers)
      BY <1>1, <1>2, <1>3, <3>1
    <3>2. CASE d.alias[t] \notin Moved(d, losers)
      <4>1. d.alias[t] \in Targets /\ Exists(d, d.alias[t]) /\ e.alias[t] = d.alias[t]
        BY <1>1, <1>2, <3>2, Columns DEF Aliases
      <4> QED BY <1>3, <4>1
    <3> QED BY <3>1, <3>2
  <2>2. \A t \in Targets : e.alias[t] \in Generations => e.alias[t] = t
    BY <1>1, <1>2, Sorts DEF Aliases
  <2>3. \A a \in Apps : e.alias[a] # None => Exists(e, a)
    BY <1>1, <1>2, <1>3, Sorts DEF Aliases
  <2> QED BY <2>1, <2>2, <2>3 DEF Aliases
<1> QED BY <1>1, <1>7, <1>8, <1>9, <1>10 DEF Store, e

\* A pruned generation leaves no trace but the sessions it was promoted to.
LEMMA PrunedKeeps ==
  ASSUME NEW d, Store(d), NEW g \in Generations
  PROVE  Store(Pruned(d, g)) /\ \A G : g \notin G /\ G \subseteq Targets /\ Unpruned(d, G) => Unpruned(Pruned(d, g), G)
<1> DEFINE e == Pruned(d, g)
           aliases == [t \in Targets |-> IF d.alias[t] = g THEN None ELSE d.alias[t]]
           watches == {w \in d.watch : w[2] # g}
<1>1. /\ d \in Database /\ Flat(d) /\ Following(d) /\ Arms(d) /\ Aliases(d) /\ g \in Targets
      /\ g \notin Apps /\ g # None
  BY Sorts DEF Store
<1>2. NoState \in StateRow
  BY DEF NoState, StateRow
<1>3. e = [revision |-> [d.revision EXCEPT ![g] = 0], redirect |-> [d.redirect EXCEPT ![g] = None],
           alias |-> aliases, watch |-> watches, generation |-> [d.generation EXCEPT ![g] = NoState]]
  <2>1. e = [d EXCEPT !.revision[g] = 0, !.redirect[g] = None, !.alias = aliases,
                      !.watch = watches, !.generation[g] = NoState]
    BY DEF Pruned
  <2> HIDE DEF e, aliases, watches
  <2> QED BY <1>1, <2>1 DEF Database
<1>4. /\ [d.revision EXCEPT ![g] = 0] \in [Targets -> Nat]
      /\ [d.redirect EXCEPT ![g] = None] \in [Targets -> Apps \cup {None}]
      /\ aliases \in [Targets -> Targets \cup {None}] /\ watches \subseteq Users \X Targets
      /\ [d.generation EXCEPT ![g] = NoState] \in [Generations -> StateRow]
  BY <1>1, <1>2, Columns
<1>5. e \in Database
  BY <1>3, <1>4 DEF Database
<1>6. /\ \A x \in Targets : x # g => e.revision[x] = d.revision[x] /\ e.redirect[x] = d.redirect[x]
      /\ e.revision[g] = 0 /\ e.redirect[g] = None
      /\ \A x \in Targets : x # g => e.alias[x] = d.alias[x] /\ d.alias[x] # g
      /\ d.alias[g] = g => e.alias[g] = None
      /\ d.alias[g] # g => e.alias[g] = d.alias[g]
      /\ e.watch = watches
      /\ e.generation = [d.generation EXCEPT ![g] = NoState]
  BY <1>1, <1>3, Columns DEF Aliases
<1>7. d.alias[g] = None \/ d.alias[g] = g \/ d.alias[g] \in Apps
  BY <1>1, Columns DEF Aliases, Targets
<1> HIDE DEF e, aliases
<1>8. \A x \in Targets : x # g => (Exists(e, x) <=> Exists(d, x))
  BY <1>6 DEF Exists
<1>9. ~Exists(e, g)
  BY <1>6 DEF Exists
<1>10. \A x \in Targets : x # g => Canonical(e, x) = Canonical(d, x)
  BY <1>6 DEF Canonical
<1>11. Flat(e)
  <2>1. ASSUME NEW t \in Targets, e.redirect[t] # None
        PROVE  Exists(e, t) /\ Exists(e, e.redirect[t]) /\ e.redirect[e.redirect[t]] = None
    <3>1. t # g /\ e.redirect[t] = d.redirect[t] /\ d.redirect[t] \in Apps
      BY <1>1, <1>6, <2>1, Columns
    <3>2. d.redirect[t] \in Targets /\ d.redirect[t] # g
      BY <1>1, <3>1, Sorts
    <3> QED BY <1>1, <1>6, <1>8, <2>1, <3>1, <3>2 DEF Flat
  <2>2. ASSUME NEW w \in d.watch, w[2] # g
        PROVE  Exists(e, w[2]) /\ e.redirect[w[2]] = None
    BY <1>1, <1>6, <1>8, <2>2, Columns DEF Flat
  <2> QED BY <1>6, <2>1, <2>2 DEF Flat
<1>12. Following(e)
  <2> SUFFICES ASSUME NEW t \in Targets, Exists(e, t), e.alias[t] # None
               PROVE  Canonical(e, e.alias[t]) = Canonical(e, t)
    BY DEF Following
  <2>1. t # g /\ Exists(d, t) /\ e.alias[t] = d.alias[t] /\ d.alias[t] # g /\ d.alias[t] \in Targets
    BY <1>1, <1>6, <1>8, <1>9, Columns
  <2> QED BY <1>1, <1>10, <2>1 DEF Following
<1>13. Arms(e)
  BY <1>1, <1>6, Columns DEF Arms, NoState
<1>14. Aliases(e)
  <2>1. \A t \in Targets : e.alias[t] # None => Exists(e, e.alias[t])
    <3> SUFFICES ASSUME NEW t \in Targets, e.alias[t] # None
                 PROVE  Exists(e, e.alias[t])
      OBVIOUS
    <3>1. e.alias[t] = d.alias[t] /\ d.alias[t] # g /\ d.alias[t] \in Targets
      BY <1>1, <1>6, <1>7, Columns, Sorts
    <3> QED BY <1>1, <1>8, <3>1 DEF Aliases
  <2>2. \A t \in Targets : e.alias[t] \in Generations => e.alias[t] = t
    BY <1>1, <1>6, <1>7, Sorts DEF Aliases
  <2>3. \A a \in Apps : e.alias[a] # None => Exists(e, a)
    BY <1>1, <1>6, <1>8, Sorts DEF Aliases
  <2> QED BY <2>1, <2>2, <2>3 DEF Aliases
<1>15. \A G : g \notin G /\ G \subseteq Targets /\ Unpruned(d, G) => Unpruned(e, G)
  BY <1>6, <1>8 DEF Unpruned
<1> QED BY <1>5, <1>11, <1>12, <1>13, <1>14, <1>15 DEF Store, e

\* A generation's activity row is all that observations and decisions touch.
LEMMA RowKeeps ==
  ASSUME NEW d, Store(d), NEW g \in Generations, NEW row \in StateRow,
         row.armed <= row.high, row.armed > 0 <=> row.state = "running"
  PROVE  LET e == [d EXCEPT !.generation[g] = row]
         IN /\ Store(e) /\ e.alias = d.alias /\ e.revision = d.revision
            /\ e.redirect = d.redirect /\ e.watch = d.watch
<1> DEFINE e == [d EXCEPT !.generation[g] = row]
<1>1. d \in Database
  BY DEF Store
<1>2. /\ e \in Database /\ e.alias = d.alias /\ e.revision = d.revision /\ e.redirect = d.redirect
      /\ e.watch = d.watch /\ e.generation = [d.generation EXCEPT ![g] = row]
  BY <1>1 DEF Database
<1> HIDE DEF e
<1>3. Flat(e) /\ Following(e) /\ Aliases(e)
  BY <1>2 DEF Store, Flat, Following, Aliases, Exists, Canonical
<1>4. Arms(e)
  BY <1>1, <1>2, Columns DEF Store, Arms
<1> QED BY <1>2, <1>3, <1>4 DEF Store, e

LEMMA ActivityKeeps ==
  ASSUME NEW d, Store(d), NEW g \in Generations
  PROVE  /\ Store(Touched(d, g)) /\ \A G : Unpruned(d, G) => Unpruned(Touched(d, g), G)
         /\ \A c \in Cursors : \A o \in {"running", "other"} :
              Store(Observed(d, g, c, o)) /\ \A G : Unpruned(d, G) => Unpruned(Observed(d, g, c, o), G)
         /\ \A c \in Cursors :
              Store(Ended(d, g, c)) /\ \A G : Unpruned(d, G) => Unpruned(Ended(d, g, c), G)
<1> DEFINE With(row) == [d EXCEPT !.generation[g] = row]
           r == d.generation[g]
<1>1. /\ d \in Database /\ r \in StateRow /\ r.armed <= r.high
      /\ r.armed > 0 <=> r.state = "running"
  BY Columns DEF Store, Arms
<1>2. ASSUME NEW row \in StateRow, row.armed <= row.high, row.armed > 0 <=> row.state = "running"
      PROVE  Store(With(row)) /\ \A G : Unpruned(d, G) => Unpruned(With(row), G)
  BY <1>2, RowKeeps DEF Unpruned, Exists
<1>3. \/ Touched(d, g) = d
      \/ r.state = "absent" /\ Touched(d, g) = With([r EXCEPT !.state = "unobserved"])
  BY <1>1 DEF Touched, Database
<1>4. ASSUME NEW c \in Cursors, NEW o \in {"running", "other"}
      PROVE  Store(Observed(d, g, c, o)) /\ \A G : Unpruned(d, G) => Unpruned(Observed(d, g, c, o), G)
  <2> DEFINE seq == IF r.armed > 0 THEN r.armed ELSE r.high + 1
             next == IF o = "running"
                     THEN [state |-> "running", high |-> IF r.armed > 0 THEN r.high ELSE seq,
                           armed |-> seq, cursor |-> c]
                     ELSE [state |-> "terminal", high |-> r.high, armed |-> 0, cursor |-> c]
  <2>1. Observed(d, g, c, o) = d \/ Observed(d, g, c, o) = With(next)
    BY DEF Observed
  <2>2. next \in StateRow /\ next.armed <= next.high /\ (next.armed > 0 <=> next.state = "running")
    <3>1. r.armed \in Nat /\ r.high \in Nat
      BY <1>1 DEF StateRow
    <3>2. CASE o = "running"
      BY <1>1, <3>1, <3>2 DEF StateRow
    <3>3. CASE o # "running"
      BY <3>1, <3>3 DEF StateRow
    <3> QED BY <3>2, <3>3
  <2> HIDE DEF next, With
  <2> QED BY <1>2, <2>1, <2>2
<1>5. ASSUME NEW c \in Cursors
      PROVE  Store(Ended(d, g, c)) /\ \A G : Unpruned(d, G) => Unpruned(Ended(d, g, c), G)
  <2> DEFINE next == [state |-> "terminal", high |-> r.high, armed |-> 0, cursor |-> c]
  <2>1. Ended(d, g, c) = d \/ Ended(d, g, c) = With(next)
    BY <1>1 DEF Ended, Database
  <2>2. next \in StateRow /\ next.armed <= next.high /\ (next.armed > 0 <=> next.state = "running")
    BY <1>1 DEF StateRow
  <2> HIDE DEF next, With
  <2> QED BY <1>2, <2>1, <2>2
<1>6. Store(Touched(d, g)) /\ \A G : Unpruned(d, G) => Unpruned(Touched(d, g), G)
  <2> DEFINE next == [r EXCEPT !.state = "unobserved"]
  <2>1. r.state = "absent" =>
          next \in StateRow /\ next.armed <= next.high /\ (next.armed > 0 <=> next.state = "running")
    BY <1>1 DEF StateRow
  <2> HIDE DEF next, With
  <2> QED BY <1>2, <1>3, <2>1 DEF next
<1> QED BY <1>4, <1>5, <1>6

LEMMA CreatedUnpruned ==
  ASSUME NEW d, Store(d), NEW t \in Targets, NEW G, G \subseteq Targets, Unpruned(d, G)
  PROVE  Unpruned(Created(d, t), G) /\ (t \in G \cup Apps => Exists(Created(d, t), t))
<1> DEFINE e == Created(d, t)
<1>1. /\ \A x \in Targets : x # t => e.revision[x] = d.revision[x] /\ e.alias[x] = d.alias[x]
      /\ d.alias[t] = None \/ Exists(d, t) => Exists(e, t)
  BY CreatedColumns
<1>2. t \in G \cup Apps => Exists(e, t)
  BY <1>1 DEF Unpruned, Store, Aliases
<1> HIDE DEF e
<1> QED BY <1>1, <1>2 DEF Unpruned, Exists, e

LEMMA MergedUnpruned ==
  ASSUME NEW d, Store(d), NEW losers, losers \subseteq Apps, NEW s \in Apps \ losers,
         Exists(d, s), d.redirect[s] = None,
         \A x \in losers : Exists(d, x) /\ d.redirect[x] = None,
         NEW G, G \subseteq Targets, Unpruned(d, G)
  PROVE  Unpruned(Merged(d, losers, s), G)
<1> DEFINE e == Merged(d, losers, s)
<1>1. /\ \A t \in Targets : e.alias[t] = IF d.alias[t] \in Moved(d, losers) THEN s ELSE d.alias[t]
      /\ \A t \in Targets : e.revision[t] = IF t = s THEN d.revision[t] + 1 ELSE d.revision[t]
  BY MergedColumns
<1>2. d \in Database /\ None \notin Moved(d, losers)
  BY Sorts DEF Store, Moved
<1> HIDE DEF e
<1> QED BY <1>1, <1>2, Columns DEF Unpruned, Exists, e

\* A generation that is still resolved was not pruned, so that it exists when it is promoted.
LEMMA ResolvedKeeps ==
  ASSUME NEW d, Store(d), NEW G, G \subseteq Targets, Unpruned(d, G),
         NEW g \in Generations \cap G, NEW c
  PROVE  Store(Resolved(d, g, c)) /\ Unpruned(Resolved(d, g, c), G)
<1> DEFINE with == Created(d, g)
           a == CHOOSE a \in Apps : AppsOf(c) = {a}
           both == Created(with, a)
<1>1. g \in Targets
  BY Sorts
<1>2. Store(with) /\ Unpruned(with, G) /\ Exists(with, g)
  BY <1>1, CreatedKeeps, CreatedUnpruned
<1> SUFFICES ASSUME \E x \in Apps : AppsOf(c) = {x}
             PROVE  Store(Resolved(d, g, c)) /\ Unpruned(Resolved(d, g, c), G)
  BY <1>2 DEF Resolved
<1>3. a \in Apps /\ a \in Targets /\ g # a
  BY Sorts
<1> HIDE DEF with, a
<1>4. Store(both) /\ Unpruned(both, G) /\ Exists(both, a)
  BY <1>2, <1>3, CreatedKeeps, CreatedUnpruned
<1>5. Exists(both, g)
  BY <1>1, <1>2, <1>3, CreatedColumns DEF Exists
<1> HIDE DEF both
<1>6. Resolved(d, g, c) = IF Canonical(both, a) = a THEN Promoted(both, g, a) ELSE both
  BY DEF Resolved, with, a, both
<1>7. Canonical(both, a) = a => both.redirect[a] = None
  <2>1. both.redirect[a] # a
    BY <1>3, <1>4, Sorts DEF Store, Flat
  <2> QED BY <2>1 DEF Canonical
<1> QED BY <1>3, <1>4, <1>5, <1>6, <1>7, PromotedKeeps

-----------------------------------------------------------------------------
(* The folds over what a scan found, over the sessions of a conversation and  *)
(* over what is pruned.                                                       *)

CreatedOver(b, d) == Created(d, b)
ResolvedOver(g, d) == Resolved(d, g, scan[g])
TouchedOver(g, d) == Touched(d, g)
PrunedOver(g, d) == Pruned(d, g)

Creating == INSTANCE FoldFacts WITH Op <- CreatedOver
Scanning == INSTANCE FoldFacts WITH Op <- ResolvedOver
Touching == INSTANCE FoldFacts WITH Op <- TouchedOver
Pruning == INSTANCE FoldFacts WITH Op <- PrunedOver

LEMMA Folding ==
  ASSUME NEW base, NEW S
  PROVE  /\ FoldSet(LAMBDA b, d : Created(d, b), base, S) = Creating!Folded(base, S)
         /\ FoldSet(LAMBDA g, d : Resolved(d, g, scan[g]), base, S) = Scanning!Folded(base, S)
         /\ FoldSet(LAMBDA g, d : Touched(d, g), base, S) = Touching!Folded(base, S)
         /\ FoldSet(LAMBDA g, d : Pruned(d, g), base, S) = Pruning!Folded(base, S)
<1>1. FoldSet(LAMBDA b, d : Created(d, b), base, S) = Creating!Folded(base, S)
  BY DEF FoldSet, MapThenFoldSet, Creating!Folded, Creating!Folds, Creating!Chosen,
         Creating!Before, CreatedOver
<1>2. FoldSet(LAMBDA g, d : Resolved(d, g, scan[g]), base, S) = Scanning!Folded(base, S)
  BY DEF FoldSet, MapThenFoldSet, Scanning!Folded, Scanning!Folds, Scanning!Chosen,
         Scanning!Before, ResolvedOver
<1>3. FoldSet(LAMBDA g, d : Touched(d, g), base, S) = Touching!Folded(base, S)
  BY DEF FoldSet, MapThenFoldSet, Touching!Folded, Touching!Folds, Touching!Chosen,
         Touching!Before, TouchedOver
<1>4. FoldSet(LAMBDA g, d : Pruned(d, g), base, S) = Pruning!Folded(base, S)
  BY DEF FoldSet, MapThenFoldSet, Pruning!Folded, Pruning!Folds, Pruning!Chosen,
         Pruning!Before, PrunedOver
<1> QED BY <1>1, <1>2, <1>3, <1>4

\* The sets that are folded over are finite, as each instance says it.
LEMMA SubsetsFinite ==
  ASSUME NEW S, S \subseteq Targets
  PROVE  /\ Creating!IsFiniteSet(S) /\ Scanning!IsFiniteSet(S)
         /\ Touching!IsFiniteSet(S) /\ Pruning!IsFiniteSet(S)
<1>1. IsFiniteSet(S)
  BY ConstantsAssumption, FS_Subset
<1> QED BY <1>1 DEF IsFiniteSet, Creating!IsFiniteSet, Scanning!IsFiniteSet,
                    Touching!IsFiniteSet, Pruning!IsFiniteSet

\* Resolving and touching what a scan found.
LEMMA ScanKeeps ==
  ASSUME NEW d, Store(d), NEW G, G \subseteq Generations, Unpruned(d, G), DOMAIN scan \subseteq G
  PROVE  LET resolved == FoldSet(LAMBDA g, e : Resolved(e, g, scan[g]), d, DOMAIN scan)
             touched == FoldSet(LAMBDA g, e : Touched(e, g), resolved, DOMAIN scan)
         IN Store(touched) /\ Unpruned(touched, G)
<1> DEFINE I == {e \in Database : Store(e) /\ Unpruned(e, G)}
           resolved == FoldSet(LAMBDA g, e : Resolved(e, g, scan[g]), d, DOMAIN scan)
           touched == FoldSet(LAMBDA g, e : Touched(e, g), resolved, DOMAIN scan)
<1>1. /\ Scanning!IsFiniteSet(DOMAIN scan) /\ Touching!IsFiniteSet(DOMAIN scan)
      /\ G \subseteq Targets
  BY SubsetsFinite, Sorts
<1>2. d \in I
  BY DEF Store
<1>3. \A g \in DOMAIN scan : \A e \in I : ResolvedOver(g, e) \in I
  BY <1>1, ResolvedKeeps DEF Store, ResolvedOver
<1>4. \A g \in DOMAIN scan : \A e \in I : TouchedOver(g, e) \in I
  BY <1>1, ActivityKeeps DEF Store, TouchedOver
<1> HIDE DEF I
<1>5. Scanning!Folded(d, DOMAIN scan) \in I
  BY <1>1, <1>2, <1>3, Scanning!FoldStays
<1>6. resolved \in I
  BY <1>5, Folding
<1> HIDE DEF resolved
<1>7. Touching!Folded(resolved, DOMAIN scan) \in I
  BY <1>1, <1>4, <1>6, Touching!FoldStays
<1>8. touched \in I
  BY <1>7, Folding
<1> QED BY <1>8 DEF I, resolved

LEMMA PruneKeeps ==
  ASSUME NEW d, Store(d), NEW G, G \subseteq Generations, Unpruned(d, G),
         NEW stale, stale \subseteq Generations \ G
  PROVE  LET e == FoldSet(LAMBDA g, x : Pruned(x, g), d, stale)
         IN Store(e) /\ Unpruned(e, G)
<1> DEFINE I == {e \in Database : Store(e) /\ Unpruned(e, G)}
<1>1. Pruning!IsFiniteSet(stale) /\ G \subseteq Targets
  BY SubsetsFinite, Sorts
<1>2. d \in I
  BY DEF Store
<1>3. \A g \in stale : \A e \in I : PrunedOver(g, e) \in I
  BY <1>1, PrunedKeeps DEF Store, PrunedOver
<1> HIDE DEF I
<1>4. Pruning!Folded(d, stale) \in I
  BY <1>1, <1>2, <1>3, Pruning!FoldStays
<1> QED BY <1>4, Folding DEF I

\* Creating the targets of some sessions: they all exist then.
LEMMA CreateKeeps ==
  ASSUME NEW d, Store(d), NEW G, G \subseteq Targets, Unpruned(d, G), NEW S, S \subseteq Apps
  PROVE  LET e == FoldSet(LAMBDA x, y : Created(y, x), d, S)
         IN /\ Store(e) /\ Unpruned(e, G) /\ e.redirect = d.redirect
            /\ \A b \in S : Exists(e, b)
<1> DEFINE J == [s \in SUBSET S |-> {e \in Database : /\ Store(e) /\ Unpruned(e, G) /\ e.redirect = d.redirect
                                                      /\ \A b \in s : Exists(e, b)}]
<1>1. Creating!IsFiniteSet(S) /\ S \subseteq Targets
  BY SubsetsFinite, Sorts
<1>2. d \in J[{}]
  BY DEF Store
<1>3. ASSUME NEW s \in SUBSET S, NEW b \in s, NEW e \in J[s \ {b}]
      PROVE  CreatedOver(b, e) \in J[s]
  <2>1. /\ Store(e) /\ Unpruned(e, G) /\ e.redirect = d.redirect /\ \A x \in s \ {b} : Exists(e, x)
        /\ b \in Targets /\ b \in Apps
    BY <1>1, <1>3
  <2> DEFINE f == Created(e, b)
  <2>2. /\ Store(f) /\ Unpruned(f, G) /\ f \in Database /\ f.redirect = d.redirect /\ Exists(f, b)
        /\ \A x \in Targets : x # b => f.revision[x] = e.revision[x]
    BY <1>1, <2>1, CreatedKeeps, CreatedColumns, CreatedUnpruned
  <2>3. \A x \in s : Exists(f, x)
    BY <1>1, <2>1, <2>2 DEF Exists
  <2> HIDE DEF f
  <2> QED BY <2>2, <2>3 DEF CreatedOver, f
<1>4. J[S] = {e \in Database : /\ Store(e) /\ Unpruned(e, G) /\ e.redirect = d.redirect
                               /\ \A b \in S : Exists(e, b)}
  OBVIOUS
<1> HIDE DEF J
<1>5. Creating!Folded(d, S) \in J[S]
  BY <1>1, <1>2, <1>3, Creating!FoldReaches
<1> QED BY <1>4, <1>5, Folding

-----------------------------------------------------------------------------
(* The invariant.                                                            *)

LEMMA InitIInv == Init => IInv
<1> SUFFICES ASSUME Init PROVE IInv
  OBVIOUS
<1> DEFINE known == {w[2] : w \in Watched}
<1>1. /\ db.revision = [t \in Targets |-> IF t \in known THEN 2 ELSE 0]
      /\ db.redirect = [t \in Targets |-> None]
      /\ db.alias = [t \in Targets |-> IF t \in known THEN t ELSE None]
      /\ db.watch = Watched /\ db.generation = [g \in Generations |-> NoState]
      /\ db = [revision |-> db.revision, redirect |-> db.redirect, alias |-> db.alias,
               watch |-> db.watch, generation |-> db.generation]
  BY DEF Init
<1>2. known \subseteq Apps /\ Watched \subseteq Users \X Targets /\ \A w \in Watched : w[2] \in known
  BY ConstantsAssumption, Sorts
<1>3. NoState \in StateRow
  BY DEF NoState, StateRow
<1> HIDE DEF known
<1>4. db \in Database
  <2>1. /\ db.revision \in [Targets -> Nat] /\ db.redirect \in [Targets -> Apps \cup {None}]
        /\ db.alias \in [Targets -> Targets \cup {None}] /\ db.watch \subseteq Users \X Targets
        /\ db.generation \in [Generations -> StateRow]
    BY <1>1, <1>2, <1>3
  <2> QED BY <1>1, <2>1 DEF Database
<1>5. Flat(db)
  BY <1>1, <1>2, Sorts DEF Flat, Exists
<1>6. Following(db)
  BY <1>1, <1>2, Sorts DEF Following, Exists, Canonical
<1>7. Arms(db)
  BY <1>1 DEF Arms, NoState
<1>8. Aliases(db) /\ Unpruned(db, Resolving)
  <2>1. Resolving \subseteq Targets
    BY Sorts DEF Init, Resolving
  <2> QED BY <1>1, <1>2, <2>1, Sorts DEF Aliases, Unpruned, Exists
<1>9. TypeOK
  <2>1. transcript \in [Conversations -> 0..MaxPosition]
    BY ConstantsAssumption DEF Init
  <2>2. DOMAIN scan = {}
    BY DEF Init
  <2> QED BY <1>4, <2>1, <2>2, ConstantsAssumption DEF Init, TypeOK
<1> QED BY <1>4, <1>5, <1>6, <1>7, <1>8, <1>9 DEF IInv, Store, Init

\* Setting a bell adds a watch of a canonical target, or takes one away.
LEMMA SetKeeps ==
  ASSUME NEW d, Store(d), NEW t \in Targets, d.alias[t] # None, NEW u \in Users, NEW watched \in BOOLEAN,
         NEW G, Unpruned(d, G), G \subseteq Targets
  PROVE  LET target == Canonical(d, d.alias[t])
             was == <<u, target>> \in d.watch
             e == [d EXCEPT
                 !.revision[target] = IF was = watched THEN @ ELSE @ + 1,
                 !.watch = IF watched THEN @ \cup {<<u, target>>} ELSE @ \ {<<u, target>>}]
         IN Store(e) /\ Unpruned(e, G)
<1> DEFINE target == Canonical(d, d.alias[t])
           was == <<u, target>> \in d.watch
           revision == [d.revision EXCEPT ![target] = IF was = watched THEN @ ELSE @ + 1]
           watch == IF watched THEN d.watch \cup {<<u, target>>} ELSE d.watch \ {<<u, target>>}
           e == [d EXCEPT !.revision[target] = IF was = watched THEN @ ELSE @ + 1,
                          !.watch = IF watched THEN @ \cup {<<u, target>>} ELSE @ \ {<<u, target>>}]
<1>1. /\ d \in Database /\ d.alias[t] \in Targets /\ Exists(d, d.alias[t])
      /\ Flat(d) /\ Following(d) /\ Arms(d) /\ Aliases(d)
  BY Columns DEF Store, Aliases
<1>2. target \in Targets /\ Exists(d, target) /\ d.redirect[target] = None
  BY <1>1, CanonicalType, CanonicalExists
<1> HIDE DEF target
<1>3. /\ e = [d EXCEPT !.revision = revision, !.watch = watch]
  BY <1>1 DEF Database
<1>4. /\ revision \in [Targets -> Nat] /\ watch \subseteq Users \X Targets
      /\ \A x \in Targets : d.revision[x] > 0 => revision[x] > 0
      /\ \A x \in Targets : x # target => revision[x] = d.revision[x]
  BY <1>1, <1>2, Columns
<1>5. \A w \in watch : w \in d.watch \/ w = <<u, target>>
  OBVIOUS
<1> HIDE DEF revision, watch, e
<1>6. /\ e \in Database /\ e.revision = revision /\ e.watch = watch /\ e.redirect = d.redirect
      /\ e.alias = d.alias /\ e.generation = d.generation
  BY <1>1, <1>3, <1>4 DEF Database
<1>7. \A x \in Targets : Exists(d, x) <=> Exists(e, x)
  BY <1>1, <1>2, <1>4, <1>6, Columns DEF Exists
<1>8. \A x : Canonical(e, x) = Canonical(d, x)
  BY <1>6 DEF Canonical
<1>9. Flat(e)
  <2>1. \A x \in Targets : e.redirect[x] # None => e.redirect[x] \in Targets
    BY <1>1, <1>6, Columns, Sorts
  <2>2. \A w \in d.watch : w[2] \in Targets
    BY <1>1, Columns
  <2> QED BY <1>1, <1>2, <1>5, <1>6, <1>7, <2>1, <2>2 DEF Flat
<1>10. Following(e)
  BY <1>1, <1>6, <1>7, <1>8 DEF Following
<1>11. Arms(e)
  BY <1>1, <1>6 DEF Arms
<1>12. Aliases(e) /\ Unpruned(e, G)
  BY <1>1, <1>6, <1>7, Columns, Sorts DEF Aliases, Unpruned
<1> QED BY <1>6, <1>9, <1>10, <1>11, <1>12 DEF Store, e, target

LEMMA SetWatchStep ==
  ASSUME IInv, NEW u \in Users, NEW m \in MutationIds, NEW t \in Targets, NEW w \in BOOLEAN,
         SetWatch(u, m, t, w)
  PROVE  IInv'
<1>1. Resolving \subseteq Targets
  BY Sorts DEF IInv, TypeOK, Resolving
<1>2. Store(db') /\ Unpruned(db', Resolving)
  BY <1>1, SetKeeps DEF IInv, SetWatch
<1>3. UNCHANGED <<decisions, session, live, binding, transcript, tick, scan, todo, read>>
  BY DEF SetWatch, Browser, environment, monitor
<1>4. mutations' \subseteq Users \X MutationIds
  BY DEF SetWatch, IInv, TypeOK
<1>5. TypeOK'
  BY <1>2, <1>3, <1>4 DEF IInv, TypeOK, Store
<1> QED BY <1>2, <1>3, <1>5 DEF IInv, Resolving

\* An assignment creates the targets of the sessions it joins and merges the others into the one.
LEMMA AssignMerges ==
  ASSUME IInv, NEW a \in Apps, NEW c \in Conversations, AssignConversation(a, c)
  PROVE  \E d, losers :
           /\ d = FoldSet(LAMBDA x, y : Created(y, x), db, AppsOf(c) \cup {a})
           /\ Store(d) /\ Unpruned(d, Resolving)
           /\ losers \subseteq Apps /\ a \notin losers /\ Exists(d, a) /\ d.redirect[a] = None
           /\ \A x \in losers : Exists(d, x) /\ d.redirect[x] = None
           /\ db' = IF losers = {} THEN d ELSE Merged(d, losers, a)
<1> DEFINE duplicates == AppsOf(c)
           created == FoldSet(LAMBDA x, y : Created(y, x), db, duplicates \cup {a})
           losers == {Canonical(created, b) : b \in duplicates} \ {a}
<1>1. /\ Resolving \subseteq Targets /\ Store(db) /\ Unpruned(db, Resolving)
      /\ duplicates \cup {a} \subseteq Apps /\ a \in Targets
  BY Sorts DEF IInv, TypeOK, Resolving, AppsOf
<1> HIDE DEF duplicates
<1>2. /\ Store(created) /\ Unpruned(created, Resolving) /\ created.redirect = db.redirect
      /\ \A b \in duplicates \cup {a} : Exists(created, b)
  BY <1>1, CreateKeeps
<1>3. db.redirect[a] = None /\ db' = IF losers = {} THEN created ELSE Merged(created, losers, a)
  BY DEF AssignConversation, duplicates
<1>4. created = FoldSet(LAMBDA x, y : Created(y, x), db, AppsOf(c) \cup {a})
  BY DEF duplicates
<1> HIDE DEF created
<1>5. /\ losers \subseteq Apps /\ a \notin losers
      /\ \A x \in losers : Exists(created, x) /\ created.redirect[x] = None
  <2>1. ASSUME NEW b \in duplicates
        PROVE  /\ Canonical(created, b) \in Apps /\ Exists(created, Canonical(created, b))
               /\ created.redirect[Canonical(created, b)] = None
    <3>1. b \in Apps /\ b \in Targets
      BY <1>1, Sorts
    <3>2. Canonical(created, b) \in Apps
      BY <1>2, <3>1, Columns DEF Canonical, Store
    <3> QED BY <1>2, <3>1, <3>2, CanonicalExists
  <2> QED BY <2>1
<1> HIDE DEF losers
<1>6. Exists(created, a) /\ created.redirect[a] = None
  BY <1>2, <1>3
<1> QED BY <1>2, <1>3, <1>4, <1>5, <1>6

LEMMA AssignStep ==
  ASSUME IInv, NEW a \in Apps, NEW c \in Conversations, AssignConversation(a, c)
  PROVE  IInv'
<1>1. Resolving \subseteq Targets
  BY Sorts DEF IInv, TypeOK, Resolving
<1>2. Store(db') /\ Unpruned(db', Resolving)
  <2>1. PICK d, losers :
           /\ Store(d) /\ Unpruned(d, Resolving)
           /\ losers \subseteq Apps /\ a \notin losers /\ Exists(d, a) /\ d.redirect[a] = None
           /\ \A x \in losers : Exists(d, x) /\ d.redirect[x] = None
           /\ db' = IF losers = {} THEN d ELSE Merged(d, losers, a)
    BY AssignMerges
  <2> QED BY <1>1, <2>1, MergedKeeps, MergedUnpruned
<1>3. /\ session' = [b \in Apps |-> IF b = a THEN c ELSE IF b \in AppsOf(c) THEN None ELSE session[b]]
      /\ UNCHANGED <<mutations, decisions, live, binding, transcript, tick, scan, todo, read>>
  BY DEF AssignConversation, monitor
<1>4. session' \in [Apps -> Conversations \cup {None}]
  BY <1>3 DEF IInv, TypeOK
<1>5. TypeOK'
  BY <1>2, <1>3, <1>4 DEF IInv, TypeOK, Store
<1> QED BY <1>2, <1>3, <1>5 DEF IInv, Resolving

LEMMA BrowserStep ==
  ASSUME IInv,
         \/ \E a \in Apps : BrowserSeesApp(a)
         \/ \E g \in Generations : BrowserSeesGeneration(g)
  PROVE  IInv'
<1>1. /\ Resolving \subseteq Targets /\ Store(db) /\ Unpruned(db, Resolving)
      /\ Apps \subseteq Targets
  BY Sorts DEF IInv, TypeOK, Resolving
<1>2. UNCHANGED <<mutations, decisions, session, live, binding, transcript, tick, scan, todo, read>>
  BY DEF BrowserSeesApp, BrowserSeesGeneration, Browser, environment, monitor
<1>3. Store(db') /\ Unpruned(db', Resolving)
  <2>1. ASSUME NEW a \in Apps, BrowserSeesApp(a) PROVE Store(db') /\ Unpruned(db', Resolving)
    BY <1>1, <2>1, CreatedKeeps, CreatedUnpruned DEF BrowserSeesApp
  <2>2. ASSUME NEW g \in Generations, BrowserSeesGeneration(g) PROVE Store(db') /\ Unpruned(db', Resolving)
    <3>1. g \in Resolving /\ \E c : db' = Resolved(db, g, c)
      BY <2>2 DEF BrowserSeesGeneration, Resolving
    <3> QED BY <1>1, <3>1, ResolvedKeeps
  <2> QED BY <2>1, <2>2
<1>4. TypeOK'
  BY <1>2, <1>3 DEF IInv, TypeOK, Store
<1> QED BY <1>2, <1>3, <1>4 DEF IInv, Resolving

LEMMA EnvironmentStep ==
  ASSUME IInv,
         \/ \E c \in Conversations : TurnStarts(c) \/ TurnEnds(c)
         \/ \E g \in Generations, c \in Conversations : SwitchConversation(g, c)
         \/ \E g \in Generations : ProcessExits(g)
  PROVE  IInv'
<1>1. UNCHANGED <<db, mutations, decisions, session, tick, scan, todo, read>>
  BY DEF TurnStarts, TurnEnds, SwitchConversation, ProcessExits, Environment, monitor
<1>2. live' \subseteq live
  BY DEF TurnStarts, TurnEnds, SwitchConversation, ProcessExits
<1>3. binding' \in [Generations -> Conversations]
  BY DEF TurnStarts, TurnEnds, SwitchConversation, ProcessExits, IInv, TypeOK
<1>4. /\ transcript' \in [Conversations -> 0..MaxPosition]
      /\ \A c \in Conversations : transcript'[c] % 2 = 1 => transcript'[c] < MaxPosition
  <2>1. ASSUME NEW c \in Conversations, TurnStarts(c) \/ TurnEnds(c),
               NEW x \in Conversations
        PROVE  transcript'[x] \in 0..MaxPosition /\ (transcript'[x] % 2 = 1 => transcript'[x] < MaxPosition)
    <3>1. transcript' = [transcript EXCEPT ![c] = transcript[c] + 1]
      BY <2>1 DEF TurnStarts, TurnEnds
    <3>2. transcript[c] \in 0..MaxPosition /\ MaxPosition \in Nat
      BY ConstantsAssumption DEF IInv, TypeOK
    <3>3. transcript[c] + 1 <= MaxPosition /\ ((transcript[c] + 1) % 2 = 1 => transcript[c] + 1 < MaxPosition)
      BY <2>1, <3>2 DEF TurnStarts, TurnEnds, IInv
    <3> QED BY <3>1, <3>2, <3>3 DEF IInv, TypeOK
  <2>2. ASSUME NEW c \in Conversations, TurnStarts(c) \/ TurnEnds(c)
        PROVE  transcript' \in [Conversations -> 0..MaxPosition]
    BY <2>1, <2>2 DEF TurnStarts, TurnEnds, IInv, TypeOK
  <2>3. CASE UNCHANGED transcript
    BY <2>3 DEF IInv, TypeOK
  <2> QED BY <2>1, <2>2, <2>3 DEF SwitchConversation, ProcessExits
<1>5. Unpruned(db', Resolving')
  BY <1>1, <1>2 DEF IInv, Unpruned, Resolving
<1>6. TypeOK'
  BY <1>1, <1>2, <1>3, <1>4 DEF IInv, TypeOK
<1> QED BY <1>1, <1>4, <1>5, <1>6 DEF IInv

LEMMA MonitorTickStep ==
  ASSUME IInv, MonitorScans \/ MonitorResolves \/ MonitorEnds
  PROVE  IInv'
<1>1. /\ Resolving \subseteq Generations /\ Store(db) /\ Unpruned(db, Resolving)
      /\ DOMAIN scan \subseteq Resolving
  BY DEF IInv, TypeOK, Resolving
<1>2. UNCHANGED <<mutations, decisions, session, live, binding, transcript>>
  BY DEF MonitorScans, MonitorResolves, MonitorEnds, environment
<1>3. CASE MonitorScans
  <2>1. /\ UNCHANGED <<db, todo, read>> /\ tick' = "scanned" /\ DOMAIN scan' = live
        /\ \A g \in DOMAIN scan' : scan'[g] \in Conversations
    BY <1>3 DEF MonitorScans, IInv, TypeOK
  <2>2. todo = {} /\ read = None
    BY <1>3 DEF MonitorScans, IInv
  <2> QED BY <1>1, <1>2, <2>1, <2>2 DEF IInv, TypeOK, Resolving, Unpruned
<1>4. CASE MonitorResolves
  <2>1. Store(db') /\ Unpruned(db', Resolving)
    BY <1>1, <1>4, ScanKeeps DEF MonitorResolves
  <2>2. UNCHANGED scan /\ read' = None /\ tick' = "reading" /\ todo' \subseteq DOMAIN scan
    BY <1>4 DEF MonitorResolves, IInv
  <2> QED BY <1>1, <1>2, <2>1, <2>2 DEF IInv, TypeOK, Resolving, Store
<1>5. CASE MonitorEnds
  <2>1. PICK stale \in SUBSET (Generations \ Resolving) :
               db' = FoldSet(LAMBDA g, d : Pruned(d, g), db, stale)
    BY <1>5 DEF MonitorEnds, Resolving
  <2>2. Store(db') /\ Unpruned(db', Resolving)
    BY <1>1, <2>1, PruneKeeps
  <2>3. DOMAIN scan' = {} /\ todo' = {} /\ read' = None /\ tick' = "idle"
    BY <1>5 DEF MonitorEnds
  <2> QED BY <1>1, <1>2, <2>2, <2>3 DEF IInv, TypeOK, Resolving, Unpruned, Store
<1> QED BY <1>3, <1>4, <1>5

\* What a recorded decision may add to the outbox.
LEMMA RecordReplyType ==
  ASSUME IInv, NEW g \in Generations, RecordReplyReady(g), read.cursor \in Cursors
  PROVE  decisions' \subseteq Users \X Targets \X Cursors
<1> DEFINE key == Canonical(db, g)
           watchers == {u \in Users : <<u, key>> \in db.watch}
<1>1. key \in Targets
  BY CanonicalType, Sorts DEF IInv, TypeOK
<1>2. \/ UNCHANGED decisions
      \/ \E owners \in SUBSET watchers : decisions' = decisions \cup {<<u, key, read.cursor>> : u \in owners}
  BY DEF RecordReplyReady
<1> HIDE DEF key
<1>3. watchers \subseteq Users
  OBVIOUS
<1> HIDE DEF watchers
<1> QED BY <1>1, <1>2, <1>3 DEF IInv, TypeOK

LEMMA MonitorReadStep ==
  ASSUME IInv, NEW g \in Generations, MonitorReads(g) \/ MonitorSkips(g) \/ MonitorRecords(g)
  PROVE  IInv'
<1>1. UNCHANGED <<mutations, session, live, binding, transcript, tick, scan>>
  BY DEF MonitorReads, MonitorSkips, MonitorRecords, RecordObservation, RecordReplyReady, Recorded, environment
<1>2. tick = "reading" /\ Store(db) /\ Unpruned(db, Resolving)
  BY DEF IInv, MonitorReads, MonitorSkips, MonitorRecords
<1>3. CASE MonitorReads(g)
  <2>1. g \in todo /\ scan[g] \in Conversations /\ transcript[scan[g]] \in 0..MaxPosition
    BY <1>3 DEF MonitorReads, IInv, TypeOK
  <2>2. /\ UNCHANGED <<db, decisions, todo>> /\ read'.id \in todo' /\ read'.cursor \in Cursors
    BY <1>3, <2>1 DEF MonitorReads, Cursors
  <2> QED BY <1>1, <1>2, <2>2 DEF IInv, TypeOK, Resolving
<1>4. CASE MonitorSkips(g)
  <2>1. UNCHANGED <<db, decisions, read>> /\ todo' \subseteq todo /\ read = None
    BY <1>4 DEF MonitorSkips
  <2> QED BY <1>1, <1>2, <2>1 DEF IInv, TypeOK, Resolving
<1>5. CASE MonitorRecords(g)
  <2>1. read.cursor \in Cursors
    BY <1>5 DEF MonitorRecords, IInv, TypeOK
  <2>2. \/ \E o \in {"running", "other"} : RecordObservation(g, o)
        \/ RecordReplyReady(g)
    BY <1>5 DEF MonitorRecords
  <2>3. todo' \subseteq todo /\ read' = None
    BY <2>2 DEF RecordObservation, RecordReplyReady, Recorded
  <2>4. Store(db') /\ Unpruned(db', Resolving)
    BY <1>2, <2>1, <2>2, ActivityKeeps DEF RecordObservation, RecordReplyReady
  <2>5. decisions' \subseteq Users \X Targets \X Cursors
    BY <2>1, <2>2, RecordReplyType DEF RecordObservation, IInv, TypeOK
  <2> QED BY <1>1, <1>2, <2>3, <2>4, <2>5 DEF IInv, TypeOK, Resolving, Store
<1> QED BY <1>3, <1>4, <1>5

LEMMA NextIInv == IInv /\ [Next]_vars => IInv'
<1> SUFFICES ASSUME IInv, [Next]_vars PROVE IInv'
  OBVIOUS
<1>1. CASE UNCHANGED vars
  BY <1>1 DEF vars, environment, monitor, IInv, TypeOK, Resolving
<1>2. CASE Next
  BY <1>2, EnvironmentStep, AssignStep, BrowserStep, SetWatchStep, MonitorTickStep, MonitorReadStep
     DEF Next
<1> QED BY <1>1, <1>2

LEMMA Invariant == Spec => []IInv
BY InitIInv, NextIInv, PTL DEF Spec

(* Whatever is resolved, promoted, rebound, merged, observed or pruned, and   *)
(* in whatever order: redirects lead in one step to a session that exists, no *)
(* watch hangs where no decision looks, no alias is refused for ever, and a   *)
(* generation is armed exactly while it was last seen running.                *)
THEOREM StoreStaysConsistent == Spec => []StoreConsistent
<1>1. IInv => StoreConsistent
  BY DEF IInv, Store, StoreConsistent, Flat, Following, Arms, RedirectsAreFlat,
         AliasFollowsTarget, ArmedWhileRunning
<1> QED BY <1>1, Invariant, PTL

-----------------------------------------------------------------------------
(* What a bell shows: the canonical target its alias names, the users who     *)
(* watch that, and its revision. The actions are related to these by two      *)
(* relations between databases that compose, over folds too.                  *)

View(d, t) == Canonical(d, d.alias[t])
Rings(d, u, t) == d.alias[t] # None /\ <<u, View(d, t)>> \in d.watch

\* No session's bell is lost.
KeepsBells(d, e) == \A u \in Users, a \in Apps : Rings(d, u, a) => Rings(e, u, a)

\* Every bell that was there is there, and shows the same or has a greater revision.
RaisesViews(d, e) ==
  \A t \in Targets : d.alias[t] # None =>
    /\ e.alias[t] # None
    /\ \/ e.revision[View(e, t)] > d.revision[View(d, t)]
       \/ /\ View(e, t) = View(d, t) /\ e.revision[View(e, t)] >= d.revision[View(d, t)]
          /\ \A u \in Users : Rings(e, u, t) <=> Rings(d, u, t)

Relates(d, e) == KeepsBells(d, e) /\ RaisesViews(d, e)

LEMMA ViewType ==
  ASSUME NEW d, Store(d), NEW t \in Targets, d.alias[t] # None
  PROVE  /\ View(d, t) \in Targets /\ Exists(d, View(d, t)) /\ d.revision[View(d, t)] \in Nat
         /\ View(d, t) \in Generations => t = View(d, t) /\ d.alias[t] = t
<1>1. d \in Database /\ d.alias[t] \in Targets /\ Exists(d, d.alias[t])
  BY Columns DEF Store, Aliases
<1>2. View(d, t) \in Targets /\ (View(d, t) \in Generations => View(d, t) = d.alias[t])
  BY <1>1, CanonicalType DEF View
<1>3. Exists(d, View(d, t))
  BY <1>1, CanonicalExists DEF View
<1> QED BY <1>1, <1>2, <1>3, Columns DEF Store, Aliases

LEMMA RelatesReflexive ==
  ASSUME NEW d, Store(d), NEW e, e.alias = d.alias, e.redirect = d.redirect,
         e.watch = d.watch, e.revision = d.revision
  PROVE  Relates(d, e)
<1>1. \A t \in Targets : View(e, t) = View(d, t)
  BY DEF View, Canonical
<1>2. \A t \in Targets : d.alias[t] # None => d.revision[View(d, t)] \in Nat
  BY ViewType
<1>3. KeepsBells(d, e)
  BY <1>1, Sorts DEF KeepsBells, Rings
<1>4. RaisesViews(d, e)
  BY <1>1, <1>2 DEF RaisesViews, Rings
<1> QED BY <1>3, <1>4 DEF Relates

LEMMA RelatesTransitive ==
  ASSUME NEW d, NEW e, NEW f, Store(d), Store(e), Store(f), Relates(d, e), Relates(e, f)
  PROVE  Relates(d, f)
<1>1. KeepsBells(d, f)
  BY DEF Relates, KeepsBells
<1>2. RaisesViews(d, f)
  <2> SUFFICES ASSUME NEW t \in Targets, d.alias[t] # None
               PROVE  /\ f.alias[t] # None
                      /\ \/ f.revision[View(f, t)] > d.revision[View(d, t)]
                         \/ /\ View(f, t) = View(d, t) /\ f.revision[View(f, t)] >= d.revision[View(d, t)]
                            /\ \A u \in Users : Rings(f, u, t) <=> Rings(d, u, t)
    BY DEF RaisesViews
  <2>1. e.alias[t] # None /\ f.alias[t] # None
    BY DEF Relates, RaisesViews
  <2>2. /\ d.revision[View(d, t)] \in Nat /\ e.revision[View(e, t)] \in Nat
        /\ f.revision[View(f, t)] \in Nat
    BY <2>1, ViewType
  <2> QED BY <2>1, <2>2 DEF Relates, RaisesViews
<1> QED BY <1>1, <1>2 DEF Relates

LEMMA CreatedRelates ==
  ASSUME NEW d, Store(d), NEW t \in Targets
  PROVE  Relates(d, Created(d, t))
<1> DEFINE e == Created(d, t)
<1>1. /\ e \in Database /\ e.redirect = d.redirect /\ e.watch = d.watch
      /\ \A x \in Targets : x # t => e.alias[x] = d.alias[x]
      /\ \A x \in Targets : e.revision[x] >= d.revision[x]
      /\ d.alias[t] # None => e.alias[t] = d.alias[t]
  BY CreatedColumns
<1> HIDE DEF e
<1>2. \A x \in Targets : d.alias[x] # None => e.alias[x] = d.alias[x]
  BY <1>1
<1>3. \A x \in Targets : d.alias[x] # None => View(e, x) = View(d, x)
  BY <1>1, <1>2 DEF View, Canonical
<1>4. \A x \in Targets : d.alias[x] # None => View(d, x) \in Targets
  BY ViewType
<1>5. \A x \in Targets, u \in Users : d.alias[x] # None => (Rings(e, u, x) <=> Rings(d, u, x))
  BY <1>1, <1>2, <1>3 DEF Rings
<1>6. KeepsBells(d, e)
  BY <1>5, Sorts DEF KeepsBells, Rings
<1>7. RaisesViews(d, e)
  BY <1>1, <1>2, <1>3, <1>4, <1>5 DEF RaisesViews
<1> QED BY <1>6, <1>7 DEF Relates, e

\* The generation's bell becomes the session's; its revision passes all that it replaces.
LEMMA PromotedRelates ==
  ASSUME NEW d, Store(d), NEW g \in Generations, NEW a \in Apps,
         Exists(d, a), d.redirect[a] = None, Exists(d, g)
  PROVE  Relates(d, Promoted(d, g, a))
<1> DEFINE e == Promoted(d, g, a)
           old == Canonical(d, g)
<1>1. /\ e \in Database
      /\ e.alias[g] = a
      /\ \A x \in Targets : x # g => e.alias[x] = d.alias[x] /\ e.redirect[x] = d.redirect[x]
      /\ \A x \in Targets : x # a => e.revision[x] = d.revision[x]
      /\ e.revision[a] >= d.revision[a]
      /\ \/ /\ old = a /\ e.redirect = d.redirect /\ e.watch = d.watch
            /\ e.generation = d.generation /\ e.revision = d.revision
         \/ /\ old # a /\ e.redirect[g] = a /\ e.alias[g] = a
            /\ e.watch = {<<w[1], IF w[2] = g THEN a ELSE w[2]>> : w \in d.watch}
            /\ e.generation = [d.generation EXCEPT ![g] = IF old = g THEN @ ELSE NoState]
            /\ e.revision[a] > d.revision[a] /\ e.revision[a] > d.revision[old]
            /\ e.revision[a] > d.revision[g]
  BY PromotedColumns DEF Promotion
<1>2. /\ d \in Database /\ g \in Targets /\ a \in Targets /\ g # a /\ a # None
      /\ d.alias[g] # None => View(d, g) = old
  BY Sorts DEF Store, Following, View
<1> HIDE DEF e, old
<1>3. \A x \in Targets : d.alias[x] # None =>
        /\ View(d, x) \in Targets /\ d.revision[View(d, x)] \in Nat
        /\ View(d, x) = g => x = g
        /\ x # g => d.alias[x] # g
  BY ViewType DEF Store, Aliases
<1>4. \A x \in Targets : x # g /\ d.alias[x] # None => e.alias[x] = d.alias[x] /\ View(e, x) = View(d, x)
  <2> SUFFICES ASSUME NEW x \in Targets, x # g, d.alias[x] # None
               PROVE  e.alias[x] = d.alias[x] /\ View(e, x) = View(d, x)
    OBVIOUS
  <2>1. e.alias[x] = d.alias[x] /\ d.alias[x] \in Targets /\ d.alias[x] # g
    BY <1>1, <1>2, <1>3, Columns
  <2> QED BY <1>1, <2>1 DEF View, Canonical
<1>5. View(e, g) = a
  <2>1. e.redirect[a] = None
    BY <1>1, <1>2
  <2> QED BY <1>1, <2>1 DEF View, Canonical
<1>6. CASE old = a /\ e.redirect = d.redirect /\ e.watch = d.watch /\ e.revision = d.revision
  <2>1. \A x \in Targets : d.alias[x] # None => e.alias[x] # None /\ View(e, x) = View(d, x)
    BY <1>1, <1>2, <1>4, <1>5, <1>6
  <2>2. KeepsBells(d, e)
    BY <1>6, <2>1, Sorts DEF KeepsBells, Rings
  <2>3. RaisesViews(d, e)
    BY <1>3, <1>6, <2>1 DEF RaisesViews, Rings
  <2> QED BY <2>2, <2>3 DEF Relates, e
<1>7. CASE /\ old # a
           /\ e.watch = {<<w[1], IF w[2] = g THEN a ELSE w[2]>> : w \in d.watch}
           /\ e.revision[a] > d.revision[a] /\ e.revision[a] > d.revision[old]
  <2>1. \A u \in Users, x \in Targets : x # g /\ <<u, x>> \in d.watch => <<u, x>> \in e.watch
    BY <1>7
  <2>2. \A u \in Users, x \in Targets : x # g /\ x # a /\ <<u, x>> \in e.watch => <<u, x>> \in d.watch
    BY <1>7, <1>2, Columns
  <2>3. KeepsBells(d, e)
    BY <1>3, <1>4, <2>1, Sorts DEF KeepsBells, Rings
  <2>4. RaisesViews(d, e)
    <3> SUFFICES ASSUME NEW t \in Targets, d.alias[t] # None
                 PROVE  /\ e.alias[t] # None
                        /\ \/ e.revision[View(e, t)] > d.revision[View(d, t)]
                           \/ /\ View(e, t) = View(d, t)
                              /\ e.revision[View(e, t)] >= d.revision[View(d, t)]
                              /\ \A u \in Users : Rings(e, u, t) <=> Rings(d, u, t)
      BY DEF RaisesViews
    <3>1. CASE t = g
      BY <1>1, <1>2, <1>5, <1>7, <3>1
    <3>2. CASE t # g /\ View(d, t) = a
      BY <1>2, <1>4, <1>7, <3>2
    <3>3. CASE t # g /\ View(d, t) # a
      BY <1>1, <1>3, <1>4, <2>1, <2>2, <3>3 DEF Rings
    <3> QED BY <3>1, <3>2, <3>3
  <2> QED BY <2>3, <2>4 DEF Relates, e
<1> QED BY <1>1, <1>6, <1>7 DEF e

LEMMA ResolvedRelates ==
  ASSUME NEW d, Store(d), NEW G, G \subseteq Targets, Unpruned(d, G),
         NEW g \in Generations \cap G, NEW c
  PROVE  Relates(d, Resolved(d, g, c))
<1> DEFINE with == Created(d, g)
           a == CHOOSE a \in Apps : AppsOf(c) = {a}
           both == Created(with, a)
<1>1. g \in Targets
  BY Sorts
<1>2. Store(with) /\ Unpruned(with, G) /\ Exists(with, g) /\ Relates(d, with)
  BY <1>1, CreatedKeeps, CreatedUnpruned, CreatedRelates
<1> SUFFICES ASSUME \E x \in Apps : AppsOf(c) = {x}
             PROVE  Relates(d, Resolved(d, g, c))
  BY <1>2 DEF Resolved
<1>3. a \in Apps /\ a \in Targets /\ g # a
  BY Sorts
<1> HIDE DEF with, a
<1>4. Store(both) /\ Unpruned(both, G) /\ Exists(both, a) /\ Relates(with, both)
  BY <1>2, <1>3, CreatedKeeps, CreatedUnpruned, CreatedRelates
<1>5. Exists(both, g)
  BY <1>1, <1>2, <1>3, CreatedColumns DEF Exists
<1> HIDE DEF both
<1>6. Resolved(d, g, c) = IF Canonical(both, a) = a THEN Promoted(both, g, a) ELSE both
  BY DEF Resolved, with, a, both
<1>7. Canonical(both, a) = a => both.redirect[a] = None
  <2>1. both.redirect[a] # a
    BY <1>3, <1>4, Sorts DEF Store, Flat
  <2> QED BY <2>1 DEF Canonical
<1>8. Relates(d, both)
  BY <1>2, <1>4, RelatesTransitive
<1>9. both.redirect[a] = None => Store(Promoted(both, g, a)) /\ Relates(both, Promoted(both, g, a))
  BY <1>3, <1>4, <1>5, PromotedKeeps, PromotedRelates
<1> QED BY <1>4, <1>6, <1>7, <1>8, <1>9, RelatesTransitive

LEMMA ActivityRelates ==
  ASSUME NEW d, Store(d), NEW g \in Generations
  PROVE  /\ Relates(d, Touched(d, g))
         /\ \A c, o : Relates(d, Observed(d, g, c, o))
         /\ \A c : Relates(d, Ended(d, g, c))
<1>1. ASSUME NEW row PROVE Relates(d, [d EXCEPT !.generation[g] = row])
  BY RelatesReflexive DEF Store, Database
<1>2. Relates(d, d)
  BY RelatesReflexive
<1>3. Touched(d, g) = d \/ \E row : Touched(d, g) = [d EXCEPT !.generation[g] = row]
  BY DEF Touched, Store, Database
<1>4. \A c, o : Observed(d, g, c, o) = d \/ \E row : Observed(d, g, c, o) = [d EXCEPT !.generation[g] = row]
  BY DEF Observed
<1>5. \A c : Ended(d, g, c) = d \/ \E row : Ended(d, g, c) = [d EXCEPT !.generation[g] = row]
  BY DEF Ended, Store, Database
<1> QED BY <1>1, <1>2, <1>3, <1>4, <1>5

\* The bells of the losers and of their generations are the survivor's afterwards.
LEMMA MergedKeepsBells ==
  ASSUME NEW d, Store(d), NEW losers, losers \subseteq Apps, NEW s \in Apps \ losers,
         Exists(d, s), d.redirect[s] = None,
         \A x \in losers : Exists(d, x) /\ d.redirect[x] = None
  PROVE  KeepsBells(d, Merged(d, losers, s))
<1> DEFINE e == Merged(d, losers, s)
<1>1. /\ \A t \in Targets : e.alias[t] = IF d.alias[t] \in Moved(d, losers) THEN s ELSE d.alias[t]
      /\ \A t \in Targets :
           e.redirect[t] = IF t \in losers \/ d.redirect[t] \in losers THEN s ELSE d.redirect[t]
      /\ e.watch = {<<w[1], IF w[2] \in Moved(d, losers) THEN s ELSE w[2]>> : w \in d.watch}
  BY MergedColumns
<1>2. /\ d \in Database /\ s \in Targets /\ s # None /\ losers \subseteq Targets
      /\ None \notin losers /\ None \notin Moved(d, losers)
  BY Sorts DEF Store, Moved
<1> HIDE DEF e
<1>3. \A x \in Targets : Canonical(e, x) = IF Canonical(d, x) \in losers THEN s ELSE Canonical(d, x)
  BY <1>1, <1>2 DEF Canonical
<1>4. \A x \in Targets : x \in Moved(d, losers) => Canonical(d, x) \in losers
  BY <1>2 DEF Canonical, Moved
<1> SUFFICES ASSUME NEW u \in Users, NEW a \in Apps, Rings(d, u, a)
             PROVE  Rings(e, u, a)
  BY DEF KeepsBells, e
<1>5. a \in Targets /\ d.alias[a] \in Targets /\ View(d, a) \in Targets /\ <<u, View(d, a)>> \in d.watch
  BY <1>2, Sorts, Columns, ViewType DEF Rings
<1>6. e.alias[a] # None /\ e.alias[a] \in Targets
  BY <1>1, <1>2, <1>5, Sorts
<1>7. View(e, a) = IF View(d, a) \in losers THEN s ELSE View(d, a)
  <2>1. Canonical(d, s) = s
    BY DEF Canonical
  <2> QED BY <1>1, <1>2, <1>3, <1>4, <1>5, <2>1 DEF View
<1>8. View(d, a) \in Moved(d, losers) => View(d, a) \in losers
  BY <1>5, Sorts, ViewType DEF Moved, Rings
<1>9. <<u, IF View(d, a) \in Moved(d, losers) THEN s ELSE View(d, a)>> \in e.watch
  BY <1>1, <1>5
<1>10. losers \subseteq Moved(d, losers)
  BY DEF Moved
<1> QED BY <1>6, <1>7, <1>8, <1>9, <1>10 DEF Rings

\* What stays of the bells when generations are pruned.
Remains(d, e) ==
  /\ KeepsBells(d, e)
  /\ \A t \in Targets : e.alias[t] # None =>
       /\ e.alias[t] = d.alias[t] /\ View(e, t) = View(d, t)
       /\ e.revision[View(e, t)] = d.revision[View(d, t)]
       /\ \A u \in Users : Rings(e, u, t) <=> Rings(d, u, t)

LEMMA PrunedRemains ==
  ASSUME NEW d, Store(d), NEW g \in Generations
  PROVE  Remains(d, Pruned(d, g))
<1> DEFINE e == Pruned(d, g)
<1>1. d \in Database /\ g \in Targets /\ g \notin Apps
  BY Sorts DEF Store
<1>2. /\ \A x \in Targets : x # g => e.revision[x] = d.revision[x] /\ e.redirect[x] = d.redirect[x]
      /\ \A x \in Targets : e.alias[x] = IF d.alias[x] = g THEN None ELSE d.alias[x]
      /\ e.watch = {w \in d.watch : w[2] # g}
  BY <1>1, Columns DEF Pruned, Database
<1> HIDE DEF e
<1>3. \A x \in Targets : d.alias[x] # None /\ d.alias[x] # g =>
        /\ View(d, x) \in Targets /\ View(d, x) # g
  BY ViewType DEF Store, Aliases
<1>4. \A x \in Targets : d.alias[x] # None /\ d.alias[x] # g =>
        e.alias[x] = d.alias[x] /\ View(e, x) = View(d, x)
  BY <1>1, <1>2, Columns, Sorts DEF View, Canonical
<1>5. \A x \in Targets, u \in Users : d.alias[x] # None /\ d.alias[x] # g => (Rings(e, u, x) <=> Rings(d, u, x))
  BY <1>2, <1>3, <1>4 DEF Rings
<1>6. \A a \in Apps : d.alias[a] # g /\ a \in Targets
  BY <1>1, Sorts DEF Store, Aliases
<1>7. KeepsBells(d, e)
  BY <1>5, <1>6 DEF KeepsBells, Rings
<1>8. ASSUME NEW t \in Targets, e.alias[t] # None
      PROVE  /\ e.alias[t] = d.alias[t] /\ View(e, t) = View(d, t)
             /\ e.revision[View(e, t)] = d.revision[View(d, t)]
             /\ \A u \in Users : Rings(e, u, t) <=> Rings(d, u, t)
  <2>1. d.alias[t] # None /\ d.alias[t] # g
    BY <1>2, <1>8
  <2> QED BY <1>2, <1>3, <1>4, <1>5, <2>1
<1> QED BY <1>7, <1>8 DEF Remains, e

LEMMA RemainsComposes ==
  ASSUME NEW d, NEW e, NEW f, Remains(d, e), Remains(e, f)
  PROVE  Remains(d, f)
<1>1. KeepsBells(d, f)
  BY DEF Remains, KeepsBells
<1>2. ASSUME NEW t \in Targets, f.alias[t] # None
      PROVE  /\ f.alias[t] = d.alias[t] /\ View(f, t) = View(d, t)
             /\ f.revision[View(f, t)] = d.revision[View(d, t)]
             /\ \A u \in Users : Rings(f, u, t) <=> Rings(d, u, t)
  <2>1. e.alias[t] # None
    BY <1>2 DEF Remains
  <2> QED BY <1>2, <2>1 DEF Remains
<1> QED BY <1>1, <1>2 DEF Remains

LEMMA PruneRemains ==
  ASSUME NEW d, Store(d), NEW stale, stale \subseteq Generations
  PROVE  Remains(d, FoldSet(LAMBDA g, x : Pruned(x, g), d, stale))
<1> DEFINE I == {e \in Database : Store(e) /\ Remains(d, e)}
<1>1. Pruning!IsFiniteSet(stale)
  BY SubsetsFinite, Sorts
<1>2. d \in I
  BY DEF Store, Remains, KeepsBells
<1>3. \A g \in stale : \A e \in I : PrunedOver(g, e) \in I
  BY PrunedKeeps, PrunedRemains, RemainsComposes DEF Store, PrunedOver
<1> HIDE DEF I
<1>4. Pruning!Folded(d, stale) \in I
  BY <1>1, <1>2, <1>3, Pruning!FoldStays
<1> QED BY <1>4, Folding DEF I

LEMMA ScanRelates ==
  ASSUME NEW d, Store(d), NEW G, G \subseteq Generations, Unpruned(d, G), DOMAIN scan \subseteq G
  PROVE  LET resolved == FoldSet(LAMBDA g, e : Resolved(e, g, scan[g]), d, DOMAIN scan)
         IN Relates(d, FoldSet(LAMBDA g, e : Touched(e, g), resolved, DOMAIN scan))
<1> DEFINE I == {e \in Database : Store(e) /\ Unpruned(e, G) /\ Relates(d, e)}
           resolved == FoldSet(LAMBDA g, e : Resolved(e, g, scan[g]), d, DOMAIN scan)
           touched == FoldSet(LAMBDA g, e : Touched(e, g), resolved, DOMAIN scan)
<1>1. /\ Scanning!IsFiniteSet(DOMAIN scan) /\ Touching!IsFiniteSet(DOMAIN scan)
      /\ G \subseteq Targets
  BY SubsetsFinite, Sorts
<1>2. d \in I
  BY RelatesReflexive DEF Store
<1>3. ASSUME NEW g \in DOMAIN scan, NEW e \in I PROVE ResolvedOver(g, e) \in I
  <2>1. Store(Resolved(e, g, scan[g])) /\ Unpruned(Resolved(e, g, scan[g]), G) /\ Relates(e, Resolved(e, g, scan[g]))
    BY <1>1, ResolvedKeeps, ResolvedRelates
  <2>2. Relates(d, Resolved(e, g, scan[g]))
    BY <2>1, RelatesTransitive
  <2> QED BY <2>1, <2>2 DEF Store, ResolvedOver
<1>4. ASSUME NEW g \in DOMAIN scan, NEW e \in I PROVE TouchedOver(g, e) \in I
  <2>1. Store(Touched(e, g)) /\ Unpruned(Touched(e, g), G) /\ Relates(e, Touched(e, g))
    BY ActivityKeeps, ActivityRelates
  <2>2. Relates(d, Touched(e, g))
    BY <2>1, RelatesTransitive
  <2> QED BY <2>1, <2>2 DEF Store, TouchedOver
<1> HIDE DEF I
<1>5. Scanning!Folded(d, DOMAIN scan) \in I
  BY <1>1, <1>2, <1>3, Scanning!FoldStays
<1>6. resolved \in I
  BY <1>5, Folding
<1> HIDE DEF resolved
<1>7. Touching!Folded(resolved, DOMAIN scan) \in I
  BY <1>1, <1>4, <1>6, Touching!FoldStays
<1>8. touched \in I
  BY <1>7, Folding
<1> QED BY <1>8 DEF I, resolved

LEMMA CreateRelates ==
  ASSUME NEW d, Store(d), NEW S, S \subseteq Apps
  PROVE  Relates(d, FoldSet(LAMBDA x, y : Created(y, x), d, S))
<1> DEFINE I == {e \in Database : Store(e) /\ Relates(d, e)}
<1>1. Creating!IsFiniteSet(S) /\ S \subseteq Targets
  BY SubsetsFinite, Sorts
<1>2. d \in I
  BY RelatesReflexive DEF Store
<1>3. ASSUME NEW x \in S, NEW e \in I PROVE CreatedOver(x, e) \in I
  <2>1. Store(Created(e, x)) /\ Relates(e, Created(e, x))
    BY <1>1, CreatedKeeps, CreatedRelates
  <2>2. Relates(d, Created(e, x))
    BY <2>1, RelatesTransitive
  <2> QED BY <2>1, <2>2 DEF Store, CreatedOver
<1> HIDE DEF I
<1>4. Creating!Folded(d, S) \in I
  BY <1>1, <1>2, <1>3, Creating!FoldStays
<1> QED BY <1>4, Folding DEF I

-----------------------------------------------------------------------------
(* The two action properties.                                                *)

\* All steps but the user's and a merge relate the databases; pruning leaves what remains.
LEMMA StepRelates ==
  ASSUME IInv, [Next]_vars
  PROVE  \/ \E u \in Users, m \in MutationIds, t \in Targets, w \in BOOLEAN : SetWatch(u, m, t, w)
         \/ \E a \in Apps, c \in Conversations : AssignConversation(a, c)
         \/ Relates(db, db') \/ Remains(db, db')
<1>1. /\ Resolving \subseteq Generations /\ Store(db) /\ Unpruned(db, Resolving)
      /\ DOMAIN scan \subseteq Resolving /\ Resolving \subseteq Targets /\ Apps \subseteq Targets
  BY Sorts DEF IInv, TypeOK, Resolving
<1>2. CASE UNCHANGED db
  BY <1>1, <1>2, RelatesReflexive
<1>3. ASSUME NEW a \in Apps, BrowserSeesApp(a) PROVE Relates(db, db')
  BY <1>1, <1>3, CreatedRelates DEF BrowserSeesApp
<1>4. ASSUME NEW g \in Generations, BrowserSeesGeneration(g) PROVE Relates(db, db')
  <2>1. g \in Resolving /\ \E c : db' = Resolved(db, g, c)
    BY <1>4 DEF BrowserSeesGeneration, Resolving
  <2> QED BY <1>1, <2>1, ResolvedRelates
<1>5. CASE MonitorResolves
  BY <1>1, <1>5, ScanRelates DEF MonitorResolves
<1>6. ASSUME NEW g \in Generations, MonitorRecords(g) PROVE Relates(db, db')
  <2>1. \/ \E c, o : db' = Observed(db, g, c, o)
        \/ \E c : db' = Ended(db, g, c)
    BY <1>6 DEF MonitorRecords, RecordObservation, RecordReplyReady
  <2> QED BY <1>1, <2>1, ActivityRelates
<1>7. CASE MonitorEnds
  <2>1. PICK stale \in SUBSET Generations : db' = FoldSet(LAMBDA g, d : Pruned(d, g), db, stale)
    BY <1>7 DEF MonitorEnds
  <2> QED BY <1>1, <2>1, PruneRemains
<1>8. ASSUME \/ \E c \in Conversations : TurnStarts(c) \/ TurnEnds(c)
             \/ \E g \in Generations, c \in Conversations : SwitchConversation(g, c)
             \/ \E g \in Generations : ProcessExits(g) \/ MonitorReads(g) \/ MonitorSkips(g)
             \/ MonitorScans \/ UNCHANGED vars
      PROVE  UNCHANGED db
  BY <1>8 DEF TurnStarts, TurnEnds, SwitchConversation, ProcessExits, Environment, MonitorReads,
              MonitorSkips, MonitorScans, vars
<1> QED BY <1>2, <1>3, <1>4, <1>5, <1>6, <1>7, <1>8 DEF Next

\* A merge keeps every session's bell.
LEMMA AssignKeepsBells ==
  ASSUME IInv, NEW a \in Apps, NEW c \in Conversations, AssignConversation(a, c)
  PROVE  KeepsBells(db, db')
<1>1. PICK d, losers :
           /\ d = FoldSet(LAMBDA x, y : Created(y, x), db, AppsOf(c) \cup {a})
           /\ Store(d) /\ losers \subseteq Apps /\ a \notin losers /\ Exists(d, a) /\ d.redirect[a] = None
           /\ \A x \in losers : Exists(d, x) /\ d.redirect[x] = None
           /\ db' = IF losers = {} THEN d ELSE Merged(d, losers, a)
  BY AssignMerges
<1>2. KeepsBells(db, d)
  BY <1>1, CreateRelates DEF IInv, Relates, AppsOf
<1>3. KeepsBells(d, Merged(d, losers, a))
  BY <1>1, MergedKeepsBells
<1> QED BY <1>1, <1>2, <1>3 DEF KeepsBells

(* Only the user takes a session's bell away, and the request that does is    *)
(* recorded: no promotion, rebinding, merge, or pruning of generations does.  *)
THEOREM WatchIsKept == Spec => WatchKept
<1>1. ASSUME IInv, [Next]_vars, NEW u \in Users, NEW a \in Apps, Watches(u, a), ~Watches(u, a)'
      PROVE  mutations' # mutations
  <2>1. ~KeepsBells(db, db')
    BY <1>1 DEF KeepsBells, Rings, Watches, View
  <2>2. PICK v \in Users, m \in MutationIds, t \in Targets, w \in BOOLEAN : SetWatch(v, m, t, w)
    BY <1>1, <2>1, StepRelates, AssignKeepsBells DEF Relates, Remains
  <2> QED BY <2>2 DEF SetWatch
<1>2. IInv /\ [Next]_vars =>
        \A u \in Users, a \in Apps : Watches(u, a) /\ ~Watches(u, a)' => mutations' # mutations
  BY <1>1
<1>3. Spec => [][\A u \in Users, a \in Apps : Watches(u, a) /\ ~Watches(u, a)' => mutations' # mutations]_vars
  BY <1>2, Invariant, PTL DEF Spec
<1> QED BY <1>3 DEF WatchKept

\* A watch that is set or taken away raises the revision of its target.
LEMMA SetRaises ==
  ASSUME IInv, NEW v \in Users, NEW m \in MutationIds, NEW x \in Targets, NEW w \in BOOLEAN,
         SetWatch(v, m, x, w),
         NEW u \in Users, NEW t \in Targets, db.alias[t] # None,
         \/ View(db, t) # View(db', t)
         \/ Rings(db, u, t) # Rings(db', u, t)
  PROVE  db'.revision[View(db', t)] > db.revision[View(db, t)]
<1> DEFINE target == View(db, x)
           was == <<v, target>> \in db.watch
<1>1. db \in Database /\ Store(db) /\ db.alias[x] # None
  BY DEF IInv, Store, SetWatch
<1>2. /\ target \in Targets /\ View(db, t) \in Targets /\ db.revision[View(db, t)] \in Nat
  BY <1>1, ViewType
<1>3. db' = [db EXCEPT !.revision[target] = IF was = w THEN @ ELSE @ + 1,
                       !.watch = IF w THEN @ \cup {<<v, target>>} ELSE @ \ {<<v, target>>}]
  BY DEF SetWatch, View
<1>4. was \in BOOLEAN
  OBVIOUS
<1> HIDE DEF target, was
<1>5. /\ db'.alias = db.alias /\ db'.redirect = db.redirect
      /\ db'.revision = [db.revision EXCEPT ![target] = IF was = w THEN @ ELSE @ + 1]
      /\ db'.watch = IF w THEN db.watch \cup {<<v, target>>} ELSE db.watch \ {<<v, target>>}
  BY <1>1, <1>3 DEF Database
<1>6. View(db', t) = View(db, t)
  BY <1>5 DEF View, Canonical
<1>7. (<<u, View(db, t)>> \in db.watch) # (<<u, View(db, t)>> \in db'.watch)
  BY <1>5, <1>6 DEF Rings
<1>8. View(db, t) = target /\ was # w
  <2>1. u = v /\ View(db, t) = target
    BY <1>5, <1>7
  <2>2. CASE w = TRUE
    BY <1>5, <1>7, <2>1, <2>2 DEF was
  <2>3. CASE w = FALSE
    BY <1>5, <1>7, <2>1, <2>3 DEF was
  <2> QED BY <2>1, <2>2, <2>3
<1>9. db'.revision[target] = db.revision[target] + 1
  BY <1>1, <1>2, <1>5, <1>8, Columns
<1> QED BY <1>2, <1>6, <1>8, <1>9

(* Where no session is assigned a conversation: a bell that shows something   *)
(* else has a greater revision, so that a request made from the older view is *)
(* refused. (A merge raises the survivor's revision only.)                    *)
THEOREM ViewChangesRaiseRevisions ==
  ASSUME ~Assigning
  PROVE  Spec => ViewChangeRaisesRevision
<1>1. ASSUME IInv, [Next]_vars, NEW u \in Users, NEW t \in Targets,
             db.alias[t] # None, db'.alias[t] # None,
             \/ View(db, t) # View(db', t)
             \/ Rings(db, u, t) # Rings(db', u, t)
      PROVE  db'.revision[View(db', t)] > db.revision[View(db, t)]
  <2>1. \A a \in Apps, c \in Conversations : ~AssignConversation(a, c)
    BY DEF AssignConversation
  <2>2. CASE Relates(db, db')
    BY <1>1, <2>2 DEF Relates, RaisesViews, Rings
  <2>3. CASE Remains(db, db')
    BY <1>1, <2>3 DEF Remains, Rings
  <2>4. ASSUME NEW v \in Users, NEW m \in MutationIds, NEW x \in Targets, NEW w \in BOOLEAN,
               SetWatch(v, m, x, w)
        PROVE  db'.revision[View(db', t)] > db.revision[View(db, t)]
    BY <1>1, <2>4, SetRaises
  <2> QED BY <1>1, <2>1, <2>2, <2>3, <2>4, StepRelates
<1>2. IInv /\ [Next]_vars =>
        \A u \in Users, t \in Targets :
          /\ db.alias[t] # None /\ db'.alias[t] # None
          /\ \/ Canonical(db, db.alias[t]) # Canonical(db', db'.alias[t])
             \/ Watches(u, t) # Watches(u, t)'
          => Revision(t)' > Revision(t)
  BY <1>1 DEF View, Rings, Watches, Revision
<1>3. Spec => [][\A u \in Users, t \in Targets :
                   /\ db.alias[t] # None /\ db'.alias[t] # None
                   /\ \/ Canonical(db, db.alias[t]) # Canonical(db', db'.alias[t])
                      \/ Watches(u, t) # Watches(u, t)'
                   => Revision(t)' > Revision(t)]_vars
  BY <1>2, Invariant, PTL DEF Spec
<1> QED BY <1>3 DEF ViewChangeRaisesRevision

-----------------------------------------------------------------------------
(* One decision for one reply, under the monitor alone.                       *)

(* What is read, decided and resolved agree on whose conversation it is: a     *)
(* generation that is to be read stands for the session of its conversation.  *)
OwnEvidence ==
  /\ IInv
  /\ \A g \in todo : Canonical(db, g) \in Apps => AppsOf(scan[g]) = {Canonical(db, g)}
  /\ read # None => read.cursor[1] = scan[read.id]
  /\ \A x \in decisions : x[2] \in Apps => AppsOf(x[3][1]) = {x[2]}

LEMMA ResolvedRedirects ==
  ASSUME NEW d, Store(d), NEW G, G \subseteq Targets, Unpruned(d, G),
         NEW g \in Generations \cap G, NEW c
  PROVE  /\ \A x \in Targets : x # g => Resolved(d, g, c).redirect[x] = d.redirect[x]
         /\ \A a \in Apps : AppsOf(c) = {a} /\ d.redirect[a] = None => Resolved(d, g, c).redirect[g] = a
<1> DEFINE with == Created(d, g)
           a == CHOOSE a \in Apps : AppsOf(c) = {a}
           both == Created(with, a)
<1>1. g \in Targets
  BY Sorts
<1>2. Store(with) /\ Unpruned(with, G) /\ Exists(with, g) /\ with.redirect = d.redirect
  BY <1>1, CreatedKeeps, CreatedUnpruned, CreatedColumns
<1>3. CASE ~ \E x \in Apps : AppsOf(c) = {x}
  BY <1>2, <1>3 DEF Resolved
<1>4. CASE \E x \in Apps : AppsOf(c) = {x}
  <2>1. a \in Apps /\ AppsOf(c) = {a} /\ a \in Targets /\ g # a
    BY <1>4, Sorts
  <2> HIDE DEF with, a
  <2>2. Store(both) /\ Unpruned(both, G) /\ Exists(both, a) /\ both.redirect = d.redirect
    BY <1>2, <2>1, CreatedKeeps, CreatedUnpruned, CreatedColumns
  <2>3. Exists(both, g)
    BY <1>1, <1>2, <2>1, CreatedColumns DEF Exists
  <2> HIDE DEF both
  <2>4. Resolved(d, g, c) = IF Canonical(both, a) = a THEN Promoted(both, g, a) ELSE both
    BY <1>4 DEF Resolved, with, a, both
  <2>5. Canonical(both, a) = a <=> both.redirect[a] = None
    <3>1. both.redirect[a] # a
      BY <2>1, <2>2, Sorts DEF Store, Flat
    <3> QED BY <3>1 DEF Canonical
  <2>6. ASSUME both.redirect[a] = None
        PROVE  /\ \A x \in Targets : x # g => Promoted(both, g, a).redirect[x] = both.redirect[x]
               /\ Promoted(both, g, a).redirect[g] = a
    <3> DEFINE e == Promoted(both, g, a)
    <3>1. /\ \A x \in Targets : x # g => e.redirect[x] = both.redirect[x]
          /\ \/ Canonical(both, g) = a /\ e.redirect = both.redirect
             \/ e.redirect[g] = a
      <4>1. Promotion(both, e, g, a)
        BY <2>1, <2>2, <2>3, <2>6, PromotedColumns
      <4> HIDE DEF e
      <4> QED BY <4>1 DEF Promotion
    <3>2. Canonical(both, g) = a => both.redirect[g] = a
      BY <2>1 DEF Canonical
    <3> QED BY <3>1, <3>2
  <2>7. \A x \in Apps : AppsOf(c) = {x} => x = a
    BY <2>1
  <2> QED BY <2>2, <2>4, <2>5, <2>6, <2>7
<1> QED BY <1>3, <1>4

\* Touching leaves the redirects as they are.
LEMMA TouchedRedirects ==
  ASSUME NEW d, Store(d), NEW S, S \subseteq Generations
  PROVE  FoldSet(LAMBDA g, e : Touched(e, g), d, S).redirect = d.redirect
<1> DEFINE I == {e \in Database : Store(e) /\ e.redirect = d.redirect}
<1>1. Touching!IsFiniteSet(S)
  BY SubsetsFinite, Sorts
<1>2. d \in I
  BY DEF Store
<1>3. ASSUME NEW g \in S, NEW e \in I PROVE TouchedOver(g, e) \in I
  <2>1. Store(Touched(e, g)) /\ Touched(e, g).redirect = e.redirect
    BY ActivityKeeps DEF Touched, Store, Database
  <2> QED BY <2>1 DEF Store, TouchedOver
<1> HIDE DEF I
<1>4. Touching!Folded(d, S) \in I
  BY <1>1, <1>2, <1>3, Touching!FoldStays
<1> QED BY <1>4, Folding DEF I

\* A generation that the scan may read stands for the session of its conversation.
LEMMA ScanRedirects ==
  ASSUME NEW d, Store(d), NEW G, G \subseteq Generations, Unpruned(d, G), DOMAIN scan \subseteq G
  PROVE  LET resolved == FoldSet(LAMBDA g, e : Resolved(e, g, scan[g]), d, DOMAIN scan)
         IN /\ Store(resolved)
            /\ \A g \in DOMAIN scan :
                 /\ Resolvable(resolved, g, scan[g]) /\ Canonical(resolved, g) \in Apps
                 => AppsOf(scan[g]) = {Canonical(resolved, g)}
<1> DEFINE Stands(s, e) == \A g \in s, a \in Apps : AppsOf(scan[g]) = {a} /\ d.redirect[a] = None => e.redirect[g] = a
           J == [s \in SUBSET DOMAIN scan |->
                   {e \in Database : /\ Store(e) /\ Unpruned(e, G)
                                     /\ \A a \in Apps : e.redirect[a] = d.redirect[a]
                                     /\ Stands(s, e)}]
           resolved == FoldSet(LAMBDA g, e : Resolved(e, g, scan[g]), d, DOMAIN scan)
<1>1. /\ Scanning!IsFiniteSet(DOMAIN scan) /\ G \subseteq Targets
      /\ \A g \in DOMAIN scan : g \in Targets /\ g \notin Apps /\ g \in Generations
  BY SubsetsFinite, Sorts
<1>2. d \in J[{}]
  BY DEF Store
<1>3. ASSUME NEW s \in SUBSET DOMAIN scan, NEW g \in s, NEW e \in J[s \ {g}]
      PROVE  ResolvedOver(g, e) \in J[s]
  <2> DEFINE f == Resolved(e, g, scan[g])
  <2>1. /\ Store(e) /\ Unpruned(e, G) /\ \A a \in Apps : e.redirect[a] = d.redirect[a]
        /\ Stands(s \ {g}, e)
    BY <1>3
  <2>2. /\ Store(f) /\ Unpruned(f, G)
        /\ \A x \in Targets : x # g => f.redirect[x] = e.redirect[x]
        /\ \A a \in Apps : AppsOf(scan[g]) = {a} /\ e.redirect[a] = None => f.redirect[g] = a
    BY <1>1, <2>1, ResolvedKeeps, ResolvedRedirects
  <2> HIDE DEF f
  <2>3. \A a \in Apps : f.redirect[a] = d.redirect[a]
    BY <1>1, <2>1, <2>2, Sorts
  <2>4. Stands(s, f)
    BY <1>1, <2>1, <2>2
  <2> QED BY <2>2, <2>3, <2>4 DEF Store, ResolvedOver, f
<1>4. J[DOMAIN scan] = {e \in Database : /\ Store(e) /\ Unpruned(e, G)
                                         /\ \A a \in Apps : e.redirect[a] = d.redirect[a]
                                         /\ Stands(DOMAIN scan, e)}
  OBVIOUS
<1> HIDE DEF J
<1>5. Scanning!Folded(d, DOMAIN scan) \in J[DOMAIN scan]
  BY <1>1, <1>2, <1>3, Scanning!FoldReaches
<1>6. /\ Store(resolved) /\ \A a \in Apps : resolved.redirect[a] = d.redirect[a]
      /\ Stands(DOMAIN scan, resolved)
  <2>1. resolved \in J[DOMAIN scan]
    BY <1>5, Folding
  <2> HIDE DEF resolved, Stands
  <2> QED BY <1>4, <2>1
<1> HIDE DEF resolved
<1>7. ASSUME NEW g \in DOMAIN scan, Resolvable(resolved, g, scan[g]), Canonical(resolved, g) \in Apps
      PROVE  AppsOf(scan[g]) = {Canonical(resolved, g)}
  <2>1. PICK a \in Apps : AppsOf(scan[g]) = {a} /\ Canonical(resolved, a) = a
    BY <1>1, <1>7 DEF Resolvable
  <2>2. resolved.redirect[a] # a
    BY <1>6, <2>1, Sorts DEF Store, Flat
  <2>3. resolved.redirect[a] = None
    BY <2>1, <2>2 DEF Canonical
  <2>4. Canonical(resolved, g) = a
    BY <1>6, <2>1, <2>3, Sorts DEF Canonical
  <2> QED BY <2>1, <2>4
<1> QED BY <1>6, <1>7 DEF resolved

\* Steps that move no redirect, decide nothing and read nothing.
LEMMA QuietKeepsEvidence ==
  ASSUME OwnEvidence, IInv', UNCHANGED <<session, scan, decisions>>, todo' \subseteq todo,
         db'.redirect = db.redirect, read' = None \/ read' = read
  PROVE  OwnEvidence'
BY DEF OwnEvidence, Canonical, AppsOf

LEMMA EvidenceIsOwn ==
  ASSUME ~Assigning, ~BrowserScans
  PROVE  Spec => []OwnEvidence
<1>1. Init => OwnEvidence
  BY InitIInv DEF Init, OwnEvidence
<1>2. OwnEvidence /\ [Next]_vars => OwnEvidence'
  <2> SUFFICES ASSUME OwnEvidence, [Next]_vars PROVE OwnEvidence'
    OBVIOUS
  <2>1. IInv /\ IInv' /\ db \in Database
    BY NextIInv DEF OwnEvidence, IInv, TypeOK
  <2>2. CASE \/ UNCHANGED vars
             \/ \E c \in Conversations : TurnStarts(c) \/ TurnEnds(c)
             \/ \E g \in Generations, c \in Conversations : SwitchConversation(g, c)
             \/ \E g \in Generations : ProcessExits(g) \/ MonitorSkips(g)
    <3>1. UNCHANGED <<session, scan, decisions, db, read>> /\ todo' \subseteq todo
      BY <2>2 DEF vars, environment, monitor, TurnStarts, TurnEnds, SwitchConversation, ProcessExits,
                  Environment, MonitorSkips
    <3> QED BY <2>1, <3>1, QuietKeepsEvidence
  <2>3. ASSUME NEW a \in Apps, BrowserSeesApp(a) PROVE OwnEvidence'
    <3>1. UNCHANGED <<session, scan, decisions, todo, read>> /\ db'.redirect = db.redirect
      BY <2>1, <2>3, CreatedColumns, Sorts DEF BrowserSeesApp, Browser, environment, monitor, IInv
    <3> QED BY <2>1, <3>1, QuietKeepsEvidence
  <2>4. ASSUME NEW u \in Users, NEW m \in MutationIds, NEW t \in Targets, NEW w \in BOOLEAN,
               SetWatch(u, m, t, w)
        PROVE  OwnEvidence'
    <3>1. UNCHANGED <<session, scan, decisions, todo, read>> /\ db'.redirect = db.redirect
      BY <2>1, <2>4 DEF SetWatch, Browser, environment, monitor, Database
    <3> QED BY <2>1, <3>1, QuietKeepsEvidence
  <2>5. CASE MonitorScans \/ MonitorEnds
    <3>1. todo' = {} /\ read' = None /\ UNCHANGED <<session, decisions>>
      BY <2>1, <2>5 DEF MonitorScans, MonitorEnds, environment, IInv
    <3> QED BY <2>1, <3>1 DEF OwnEvidence, AppsOf
  <2>6. CASE MonitorResolves
    <3> DEFINE resolved == FoldSet(LAMBDA g, d : Resolved(d, g, scan[g]), db, DOMAIN scan)
    <3>1. /\ db' = FoldSet(LAMBDA g, d : Touched(d, g), resolved, DOMAIN scan)
          /\ todo' = {g \in DOMAIN scan : Resolvable(resolved, g, scan[g])}
          /\ UNCHANGED <<session, decisions, scan>> /\ read' = None
      BY <2>1, <2>6 DEF MonitorResolves, environment, IInv
    <3>2. /\ Store(db) /\ Unpruned(db, Resolving) /\ Resolving \subseteq Generations
          /\ DOMAIN scan \subseteq Resolving
      BY <2>1 DEF IInv, TypeOK, Resolving
    <3>3. /\ Store(resolved)
          /\ \A g \in DOMAIN scan :
               /\ Resolvable(resolved, g, scan[g]) /\ Canonical(resolved, g) \in Apps
               => AppsOf(scan[g]) = {Canonical(resolved, g)}
      BY <3>2, ScanRedirects
    <3> HIDE DEF resolved
    <3>4. db'.redirect = resolved.redirect
      BY <3>1, <3>2, <3>3, TouchedRedirects
    <3>5. \A g \in todo' : Canonical(db', g) \in Apps => AppsOf(scan[g]) = {Canonical(db', g)}
      BY <3>1, <3>3, <3>4 DEF Canonical
    <3>6. (\A g \in todo : Canonical(db, g) \in Apps => AppsOf(scan[g]) = {Canonical(db, g)})'
      BY <3>1, <3>5 DEF AppsOf
    <3>7. (\A x \in decisions : x[2] \in Apps => AppsOf(x[3][1]) = {x[2]})'
      BY <3>1 DEF OwnEvidence, AppsOf
    <3> QED BY <2>1, <3>1, <3>6, <3>7 DEF OwnEvidence
  <2>7. ASSUME NEW g \in Generations, MonitorReads(g) PROVE OwnEvidence'
    BY <2>1, <2>7 DEF MonitorReads, OwnEvidence, Canonical, AppsOf, environment
  <2>8. ASSUME NEW g \in Generations, MonitorRecords(g) PROVE OwnEvidence'
    <3>1. /\ UNCHANGED <<session, scan>> /\ todo' \subseteq todo /\ read' = None
          /\ read # None /\ read.id = g /\ g \in todo
      BY <2>1, <2>8 DEF MonitorRecords, RecordObservation, RecordReplyReady, Recorded, environment,
                        IInv, TypeOK
    <3>2. db'.redirect = db.redirect
      BY <2>1, <2>8 DEF MonitorRecords, RecordObservation, RecordReplyReady, Observed, Ended, Database
    <3>3. \A x \in decisions' : x \in decisions \/ (x[2] = Canonical(db, g) /\ x[3] = read.cursor)
      BY <2>8 DEF MonitorRecords, RecordObservation, RecordReplyReady
    <3>4. \A x \in decisions' : x[2] \in Apps => AppsOf(x[3][1]) = {x[2]}
      BY <3>1, <3>3 DEF OwnEvidence
    <3> QED BY <2>1, <3>1, <3>2, <3>4 DEF OwnEvidence, Canonical, AppsOf
  <2>9. /\ \A a \in Apps, c \in Conversations : ~AssignConversation(a, c)
        /\ \A g \in Generations : ~BrowserSeesGeneration(g)
    BY DEF AssignConversation, BrowserSeesGeneration
  <2> QED BY <2>2, <2>3, <2>4, <2>5, <2>6, <2>7, <2>8, <2>9 DEF Next
<1> QED BY <1>1, <1>2, PTL DEF Spec

(* Where no session is assigned a conversation and the browser asks for no    *)
(* generation: however many panes show a conversation, a user gets one        *)
(* decision for a reply of its session.                                       *)
THEOREM OneDecisionForAReply ==
  ASSUME ~Assigning, ~BrowserScans
  PROVE  Spec => []OneDecisionPerReply
<1>1. OwnEvidence => OneDecisionPerReply
  <2> SUFFICES ASSUME OwnEvidence, NEW x \in decisions, NEW y \in decisions,
                      x[1] = y[1], x[3] = y[3], x[2] \in Apps, y[2] \in Apps
               PROVE  x = y
    BY DEF OneDecisionPerReply
  <2>1. x[2] = y[2]
    BY DEF OwnEvidence
  <2> QED BY <2>1 DEF OwnEvidence, IInv, TypeOK
<1> QED BY <1>1, EvidenceIsOwn, PTL
=============================================================================
