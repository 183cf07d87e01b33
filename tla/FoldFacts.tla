------------------------------- MODULE FoldFacts -------------------------------
(***************************************************************************)
(* What FoldSet returns for a finite set: the recursive function it chooses *)
(* exists, and every set that holds the base and is closed under the step   *)
(* holds the result. A module that folds some operator instantiates this    *)
(* one with it. There is no induction theorem to cite for an operator, but  *)
(* none is needed: strict inclusion of finite sets is well founded, so that *)
(* a set of counterexamples has a minimal element.                          *)
(***************************************************************************)
EXTENDS FiniteSets, FiniteSetTheorems, TLAPS

CONSTANT Op(_, _)

Chosen(s) == CHOOSE x \in s : TRUE
Before(s) == s \ {Chosen(s)}

\* The function f, on the subsets of n, folds Op over each of them.
Folds(f, base, n) ==
  f = [s \in SUBSET n |-> IF s = {} THEN base ELSE Op(Chosen(s), f[Before(s)])]

\* FoldSet(Op, base, S) with its definitions expanded.
Folded(base, S) == (CHOOSE f : Folds(f, base, S))[S]

LEMMA BeforeIsSmaller ==
  ASSUME NEW s, s # {}
  PROVE  Chosen(s) \in s /\ Before(s) \subseteq s /\ Before(s) # s
BY DEF Chosen, Before

LEMMA FoldsApply ==
  ASSUME NEW f, NEW base, NEW n, Folds(f, base, n), NEW s \in SUBSET n
  PROVE  f[s] = IF s = {} THEN base ELSE Op(Chosen(s), f[Before(s)])
BY DEF Folds

\* Strict inclusion is well founded: every set of subsets has a minimal one.
LEMMA MinimalSubset ==
  ASSUME NEW S, IsFiniteSet(S), NEW T, T \subseteq SUBSET S, T # {}
  PROVE  \E s \in T : \A t \in SUBSET s : t # s => t \notin T
<1>1. IsWellFoundedOn(StrictSubsetOrdering(S), SUBSET S)
  BY FS_StrictSubsetOrderingWellFounded, FS_FiniteSubsetsOfFinite
<1>2. PICK s \in T : \A t \in T : ~(<<t, s>> \in StrictSubsetOrdering(S))
  BY <1>1, WFMin
<1>3. ASSUME NEW t \in SUBSET s, t # s PROVE t \notin T
  BY <1>2, <1>3 DEF StrictSubsetOrdering
<1> QED BY <1>2, <1>3

\* Two such functions agree where both are defined.
LEMMA FoldsAgree ==
  ASSUME NEW S, IsFiniteSet(S), NEW base, NEW n \in SUBSET S, NEW m \in SUBSET S,
         NEW g, NEW h, Folds(g, base, n), Folds(h, base, m)
  PROVE  \A s \in SUBSET (n \cap m) : g[s] = h[s]
<1> DEFINE T == {s \in SUBSET (n \cap m) : g[s] # h[s]}
<1> SUFFICES ASSUME T # {} PROVE FALSE
  OBVIOUS
<1>1. PICK s \in T : \A t \in SUBSET s : t # s => t \notin T
  <2>1. T \subseteq SUBSET S
    OBVIOUS
  <2> HIDE DEF T
  <2> QED BY <2>1, MinimalSubset
<1>2. s \in SUBSET n /\ s \in SUBSET m /\ g[s] # h[s]
  OBVIOUS
<1>3. s # {}
  BY <1>2, FoldsApply
<1>4. g[Before(s)] = h[Before(s)]
  BY <1>1, <1>2, <1>3, BeforeIsSmaller
<1> QED BY <1>2, <1>3, <1>4, FoldsApply

LEMMA FoldsExist ==
  ASSUME NEW S, IsFiniteSet(S), NEW base
  PROVE  \E f : Folds(f, base, S)
<1> DEFINE T == {n \in SUBSET S : ~ \E f : Folds(f, base, n)}
<1> SUFFICES ASSUME T # {} PROVE FALSE
  OBVIOUS
<1>1. PICK n \in T : \A t \in SUBSET n : t # n => t \notin T
  <2>1. T \subseteq SUBSET S
    OBVIOUS
  <2> HIDE DEF T
  <2> QED BY <2>1, MinimalSubset
<1> DEFINE On(s) == CHOOSE f : Folds(f, base, s)
           F == [s \in SUBSET n |->
                   IF s = {} THEN base ELSE Op(Chosen(s), On(Before(s))[Before(s)])]
<1>2. ASSUME NEW s \in SUBSET n, s # n PROVE Folds(On(s), base, s)
  BY <1>1, <1>2
<1>3. ASSUME NEW s \in SUBSET n, s # n PROVE F[s] = On(s)[s]
  <2>1. Folds(On(s), base, s) /\ s \in SUBSET s
    BY <1>2, <1>3
  <2>2. On(s)[s] = IF s = {} THEN base ELSE Op(Chosen(s), On(s)[Before(s)])
    BY <2>1, FoldsApply
  <2>3. ASSUME s # {} PROVE On(s)[Before(s)] = On(Before(s))[Before(s)]
    <3>1. /\ Before(s) \in SUBSET n /\ Before(s) # n
          /\ Before(s) \in SUBSET (s \cap Before(s))
          /\ s \in SUBSET S /\ Before(s) \in SUBSET S
      BY <2>3, <1>3, BeforeIsSmaller
    <3>2. Folds(On(Before(s)), base, Before(s))
      BY <3>1, <1>2
    <3> HIDE DEF On
    <3> QED BY <2>1, <3>1, <3>2, FoldsAgree
  <2> QED BY <2>2, <2>3
<1>4. ASSUME NEW s \in SUBSET n, s # {} PROVE F[Before(s)] = On(Before(s))[Before(s)]
  <2>1. Before(s) \in SUBSET n /\ Before(s) # n
    BY <1>4, BeforeIsSmaller
  <2> HIDE DEF F, On
  <2> QED BY <1>3, <2>1
<1>5. ASSUME NEW s \in SUBSET n
      PROVE  F[s] = IF s = {} THEN base ELSE Op(Chosen(s), F[Before(s)])
  <2>1. F[s] = IF s = {} THEN base ELSE Op(Chosen(s), On(Before(s))[Before(s)])
    OBVIOUS
  <2> HIDE DEF F, On
  <2> QED BY <1>4, <2>1
<1>6. F = [s \in SUBSET n |-> F[s]]
  OBVIOUS
<1>7. Folds(F, base, n)
  <2> HIDE DEF F
  <2> QED BY <1>5, <1>6 DEF Folds
<1> QED BY <1>7

(* What a fold has done with all elements: J[s] is what is known when those of *)
(* s have been folded, and the step leads from what is known without one of    *)
(* them to what is known with it.                                              *)
THEOREM FoldReaches ==
  ASSUME NEW S, IsFiniteSet(S), NEW J, NEW base \in J[{}],
         \A s \in SUBSET S : \A x \in s : \A v \in J[s \ {x}] : Op(x, v) \in J[s]
  PROVE  Folded(base, S) \in J[S]
<1> DEFINE f == CHOOSE g : Folds(g, base, S)
           T == {s \in SUBSET S : f[s] \notin J[s]}
<1>1. Folds(f, base, S)
  BY FoldsExist
<1>2. SUFFICES T = {}
  BY DEF Folded
<1> SUFFICES ASSUME T # {} PROVE FALSE
  BY <1>2
<1> HIDE DEF f
<1>3. PICK s \in T : \A t \in SUBSET s : t # s => t \notin T
  <2>1. T \subseteq SUBSET S
    OBVIOUS
  <2> HIDE DEF T
  <2> QED BY <2>1, MinimalSubset
<1>4. s # {}
  BY <1>1, FoldsApply
<1>5. f[Before(s)] \in J[Before(s)] /\ Chosen(s) \in s
  BY <1>3, <1>4, BeforeIsSmaller
<1>6. f[s] = Op(Chosen(s), f[Before(s)])
  BY <1>1, <1>4, FoldsApply
<1> QED BY <1>5, <1>6 DEF Before

(* Folding keeps what its step keeps: a set that holds the base, and with     *)
(* every value also the step's from it, holds the result.                     *)
COROLLARY FoldStays ==
  ASSUME NEW S, IsFiniteSet(S), NEW I, NEW base \in I,
         \A x \in S : \A v \in I : Op(x, v) \in I
  PROVE  Folded(base, S) \in I
<1> DEFINE J == [s \in SUBSET S |-> I]
<1>1. base \in J[{}] /\ \A s \in SUBSET S : \A x \in s : \A v \in J[s \ {x}] : Op(x, v) \in J[s]
  OBVIOUS
<1>2. J[S] = I
  OBVIOUS
<1> HIDE DEF J
<1> QED BY <1>1, <1>2, FoldReaches
=============================================================================
