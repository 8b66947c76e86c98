---------------------------- MODULE InductionLemmas ----------------------------
(***************************************************************************)
(* Induction over numbers and finite sets, in terms of a set instead of a    *)
(* predicate, and what follows from it about sums over finite sets, as       *)
(* MapThenSumSet of FiniteSetsExt forms them, and about folds, as FoldLeft    *)
(* of SequencesExt makes them.                                             *)
(***************************************************************************)
EXTENDS Naturals, FiniteSets, FiniteSetsExt, FiniteSetTheorems, WellFoundedInduction, TLAPS

\* A set of numbers has a least element.
LEMMA LeastNatural ==
  ASSUME NEW T, T \subseteq Nat, T # {}
  PROVE  \E m \in T : \A k \in T : m <= k
<1> DEFINE R == {ss \in Nat \X Nat : ss[1] < ss[2]}
<1>1. IsWellFoundedOn(R, Nat)
  BY NatLessThanWellFounded DEF OpToRel
<1>2. \E m \in T : \A k \in T : ~ (<<k, m>> \in R)
  <2> HIDE DEF R
  <2> QED
    BY <1>1, WFMin
<1>3. PICK m \in T : \A k \in T : ~ (<<k, m>> \in R)
  BY <1>2
<1>4. ASSUME NEW k \in T PROVE m <= k
  <2> SUFFICES ASSUME k < m PROVE FALSE
    OBVIOUS
  <2>1. <<k, m>> \in Nat \X Nat /\ <<k, m>>[1] < <<k, m>>[2]
    OBVIOUS
  <2> QED
    BY <1>3, <2>1
<1> QED
  BY <1>4

\* Induction over the natural numbers.
LEMMA NumberInduction ==
  ASSUME NEW T, 0 \in T, \A n \in Nat : n \in T => n + 1 \in T
  PROVE  Nat \subseteq T
<1> SUFFICES ASSUME ~(Nat \subseteq T) PROVE FALSE
  OBVIOUS
<1> DEFINE C == {n \in Nat : n \notin T}
<1>1. PICK m \in C : \A k \in C : m <= k
  <2>1. C # {} /\ C \subseteq Nat
    OBVIOUS
  <2> HIDE DEF C
  <2> QED
    BY <2>1, LeastNatural
<1>2. m # 0 /\ m - 1 \in Nat
  OBVIOUS
<1>3. m - 1 \in T
  BY <1>1, <1>2
<1> QED
  BY <1>2, <1>3

\* Induction over the subsets of a finite set.
LEMMA SubsetInduction ==
  ASSUME NEW S, IsFiniteSet(S), NEW T,
         \A s \in SUBSET S : (\A x \in s : s \ {x} \in T) => s \in T
  PROVE  SUBSET S \subseteq T
<1> SUFFICES ASSUME ~(SUBSET S \subseteq T) PROVE FALSE
  OBVIOUS
<1> DEFINE C == {s \in SUBSET S : s \notin T}
<1>1. PICK m \in C : \A k \in C : <<k, m>> \notin StrictSubsetOrdering(S)
  <2>1. C # {} /\ C \subseteq SUBSET S
    OBVIOUS
  <2> HIDE DEF C
  <2> QED
    BY <2>1, WFMin, FS_StrictSubsetOrderingWellFounded, FS_FiniteSubsetsOfFinite
<1>2. ASSUME NEW x \in m PROVE m \ {x} \in T
  <2>1. <<m \ {x}, m>> \in StrictSubsetOrdering(S)
    BY DEF StrictSubsetOrdering
  <2> QED
    BY <1>1, <2>1
<1> QED
  BY <1>2

-----------------------------------------------------------------------------
(***************************************************************************)
(* Sums.  g sums c over the subsets of S when it obeys the recursion that    *)
(* MapThenSumSet is defined by.                                             *)
(***************************************************************************)
chosen(s) == CHOOSE x \in s : TRUE
Sums(g, c, S) == g = [s \in SUBSET S |-> IF s = {} THEN 0 ELSE c[chosen(s)] + g[s \ {chosen(s)}]]

LEMMA SumsUnfold ==
  ASSUME NEW g, NEW c, NEW S, Sums(g, c, S), NEW s \in SUBSET S
  PROVE  /\ s = {} => g[s] = 0
         /\ s # {} => chosen(s) \in s /\ g[s] = c[chosen(s)] + g[s \ {chosen(s)}]
<1>1. g[s] = IF s = {} THEN 0 ELSE c[chosen(s)] + g[s \ {chosen(s)}]
  BY DEF Sums
<1>2. s # {} => chosen(s) \in s
  BY DEF chosen
<1> QED
  BY <1>1, <1>2

\* A sum depends on the summands only, not on the set they are taken from.
LEMMA SumsAgree ==
  ASSUME NEW g, NEW c, NEW A, Sums(g, c, A), NEW h, NEW d, NEW B, Sums(h, d, B),
         NEW S, IsFiniteSet(S), S \subseteq A, S \subseteq B, \A x \in S : c[x] = d[x]
  PROVE  g[S] = h[S]
<1> DEFINE T == {s \in SUBSET S : g[s] = h[s]}
<1>1. ASSUME NEW s \in SUBSET S, \A x \in s : s \ {x} \in T
      PROVE  s \in T
  <2>1. s \in SUBSET A /\ s \in SUBSET B
    OBVIOUS
  <2>2. CASE s = {}
    BY <2>1, <2>2, SumsUnfold
  <2>3. CASE s # {}
    <3>1. /\ chosen(s) \in s
          /\ g[s] = c[chosen(s)] + g[s \ {chosen(s)}]
          /\ h[s] = d[chosen(s)] + h[s \ {chosen(s)}]
      BY <2>1, <2>3, SumsUnfold
    <3> QED
      BY <1>1, <3>1
  <2> QED
    BY <2>2, <2>3
<1> HIDE DEF T
<1>2. SUBSET S \subseteq T
  BY <1>1, SubsetInduction
<1> QED
  BY <1>2 DEF T

\* There is such a function.
LEMMA SumsExist ==
  ASSUME NEW S, IsFiniteSet(S), NEW c
  PROVE  \E g : Sums(g, c, S)
<1> DEFINE T == {s \in SUBSET S : \E g : Sums(g, c, s)}
<1>1. ASSUME NEW s \in SUBSET S, \A x \in s : s \ {x} \in T
      PROVE  s \in T
  <2> DEFINE F(x) == CHOOSE g : Sums(g, c, s \ {x})
             G(t) == F(chosen(s \ t))[t]
             e == chosen(s)
             g == [t \in SUBSET s |-> IF t = {} THEN 0 ELSE IF t = s THEN c[e] + G(s \ {e}) ELSE G(t)]
  <2>1. \A x \in s : Sums(F(x), c, s \ {x})
    BY <1>1
  <2>2. ASSUME NEW t \in SUBSET s, NEW x \in s \ t PROVE G(t) = F(x)[t]
    <3> DEFINE z == chosen(s \ t)
    <3>1. z \in s /\ z \notin t
      BY DEF chosen
    <3>2. t \subseteq s \ {z} /\ t \subseteq s \ {x} /\ IsFiniteSet(t)
      BY <3>1, FS_Subset
    <3>3. Sums(F(x), c, s \ {x}) /\ Sums(F(z), c, s \ {z})
      BY <2>1, <3>1
    <3> HIDE DEF z, F
    <3>4. F(z)[t] = F(x)[t]
      BY <3>2, <3>3, SumsAgree
    <3> QED
      BY <3>4 DEF z
  <2>3. ASSUME NEW t \in SUBSET s, t # {}, t # s PROVE G(t) = c[chosen(t)] + G(t \ {chosen(t)})
    <3>1. PICK x \in s : x \notin t
      BY <2>3
    <3>2. Sums(F(x), c, s \ {x}) /\ t \in SUBSET (s \ {x}) /\ x \in s \ t /\ x \in s \ (t \ {chosen(t)})
      BY <2>1, <3>1
    <3> HIDE DEF F, G
    <3>3. F(x)[t] = c[chosen(t)] + F(x)[t \ {chosen(t)}]
      BY <2>3, <3>2, SumsUnfold
    <3>4. G(t) = F(x)[t] /\ G(t \ {chosen(t)}) = F(x)[t \ {chosen(t)}]
      BY <2>2, <3>2
    <3> QED
      BY <3>3, <3>4
  <2>4. ASSUME s # {} PROVE G({}) = 0
    <3>1. PICK x \in s : TRUE
      BY <2>4
    <3>2. Sums(F(x), c, s \ {x}) /\ x \in s \ {}
      BY <2>1
    <3> HIDE DEF F, G
    <3>3. F(x)[{}] = 0
      BY <3>2, SumsUnfold
    <3> QED
      BY <2>2, <3>2, <3>3
  <2> HIDE DEF G
  <2>5. ASSUME NEW t \in SUBSET s, t # {}
        PROVE  g[t] = c[chosen(t)] + g[t \ {chosen(t)}]
    <3>1. chosen(t) \in t
      BY <2>5 DEF chosen
    <3>2. t \ {chosen(t)} # s /\ t \ {chosen(t)} \in SUBSET s
      BY <3>1
    <3>3. g[t \ {chosen(t)}] = G(t \ {chosen(t)})
      BY <2>4, <2>5, <3>2
    <3>4. g[t] = c[chosen(t)] + G(t \ {chosen(t)})
      BY <2>3, <2>5
    <3> QED
      BY <3>3, <3>4
  <2>6. g[{}] = 0
    OBVIOUS
  <2>7. Sums(g, c, s)
    <3>1. \A t \in SUBSET s : g[t] = IF t = {} THEN 0 ELSE c[chosen(t)] + g[t \ {chosen(t)}]
      BY <2>5, <2>6
    <3>2. g = [t \in SUBSET s |-> g[t]]
      OBVIOUS
    <3> HIDE DEF g
    <3> QED
      BY <3>1, <3>2 DEF Sums
  <2> QED
    BY <2>7
<1> HIDE DEF T
<1>2. SUBSET S \subseteq T
  BY <1>1, SubsetInduction
<1> QED
  BY <1>2 DEF T

\* Sums of numbers are numbers.
LEMMA SumsAreNumbers ==
  ASSUME NEW S, IsFiniteSet(S), NEW g, NEW c, Sums(g, c, S), \A x \in S : c[x] \in Nat
  PROVE  \A s \in SUBSET S : g[s] \in Nat
<1> DEFINE T == {s \in SUBSET S : g[s] \in Nat}
<1>1. ASSUME NEW s \in SUBSET S, \A x \in s : s \ {x} \in T
      PROVE  s \in T
  <2>1. CASE s = {}
    <3>1. g[s] = 0
      BY <2>1, SumsUnfold
    <3> QED
      BY <3>1
  <2>2. CASE s # {}
    <3>1. chosen(s) \in s /\ g[s] = c[chosen(s)] + g[s \ {chosen(s)}]
      BY <2>2, SumsUnfold
    <3>2. g[s \ {chosen(s)}] \in Nat /\ c[chosen(s)] \in Nat
      BY <1>1, <3>1
    <3> QED
      BY <3>1, <3>2
  <2> QED
    BY <2>1, <2>2
<1> HIDE DEF T
<1>2. SUBSET S \subseteq T
  BY <1>1, SubsetInduction
<1> QED
  BY <1>2 DEF T

\* A sum of zeros is zero.
LEMMA SumsOfZeros ==
  ASSUME NEW S, IsFiniteSet(S), NEW g, NEW c, Sums(g, c, S), \A x \in S : c[x] = 0
  PROVE  g[S] = 0
<1> DEFINE T == {s \in SUBSET S : g[s] = 0}
<1>1. ASSUME NEW s \in SUBSET S, \A x \in s : s \ {x} \in T
      PROVE  s \in T
  <2>1. CASE s = {}
    BY <2>1, SumsUnfold
  <2>2. CASE s # {}
    <3>1. chosen(s) \in s /\ g[s] = c[chosen(s)] + g[s \ {chosen(s)}]
      BY <2>2, SumsUnfold
    <3>2. g[s \ {chosen(s)}] = 0 /\ c[chosen(s)] = 0
      BY <1>1, <3>1
    <3> QED
      BY <3>1, <3>2
  <2> QED
    BY <2>1, <2>2
<1> HIDE DEF T
<1>2. SUBSET S \subseteq T
  BY <1>1, SubsetInduction
<1> QED
  BY <1>2 DEF T

\* Any summand can be taken out.
LEMMA SumsTakeOut ==
  ASSUME NEW S, IsFiniteSet(S), NEW g, NEW c, Sums(g, c, S), \A x \in S : c[x] \in Nat,
         NEW y \in S
  PROVE  g[S] = c[y] + g[S \ {y}]
<1>0. \A s \in SUBSET S : g[s] \in Nat
  BY SumsAreNumbers
<1> DEFINE T == {s \in SUBSET S : \A x \in s : g[s] = c[x] + g[s \ {x}]}
<1>1. ASSUME NEW s \in SUBSET S, \A x \in s : s \ {x} \in T
      PROVE  s \in T
  <2> DEFINE e == chosen(s)
  <2>1. ASSUME NEW x \in s PROVE g[s] = c[x] + g[s \ {x}]
    <3>1. e \in s /\ g[s] = c[e] + g[s \ {e}]
      BY <2>1, SumsUnfold
    <3> HIDE DEF e
    <3>2. CASE x = e
      BY <3>1, <3>2
    <3>3. CASE x # e
      <4>1. g[s \ {e}] = c[x] + g[(s \ {e}) \ {x}]
        BY <1>1, <2>1, <3>1, <3>3
      <4>2. g[s \ {x}] = c[e] + g[(s \ {x}) \ {e}]
        BY <1>1, <2>1, <3>1, <3>3
      <4>3. (s \ {x}) \ {e} = (s \ {e}) \ {x}
        OBVIOUS
      <4>4. g[(s \ {e}) \ {x}] \in Nat /\ c[x] \in Nat /\ c[e] \in Nat
        BY <1>0, <2>1, <3>1
      <4>5. ASSUME NEW a \in Nat, NEW b \in Nat, NEW r \in Nat PROVE a + (b + r) = b + (a + r)
        OBVIOUS
      <4>6. c[e] + (c[x] + g[(s \ {e}) \ {x}]) = c[x] + (c[e] + g[(s \ {e}) \ {x}])
        BY <4>4, <4>5
      <4> QED
        BY <3>1, <4>1, <4>2, <4>3, <4>6, Zenon
    <3> QED
      BY <3>2, <3>3
  <2> QED
    BY <2>1
<1> HIDE DEF T
<1>2. SUBSET S \subseteq T
  BY <1>1, SubsetInduction
<1> QED
  BY <1>2 DEF T

\* One summand grows by k, and so does the sum.
LEMMA SumsGrow ==
  ASSUME NEW S, IsFiniteSet(S), NEW g, NEW c, Sums(g, c, S), NEW h, NEW d, Sums(h, d, S),
         \A x \in S : c[x] \in Nat, NEW z \in S, NEW k \in Nat,
         \A x \in S : d[x] = IF x = z THEN c[x] + k ELSE c[x]
  PROVE  h[S] = g[S] + k
<1>1. \A x \in S : d[x] \in Nat
  OBVIOUS
<1>2. g[S] = c[z] + g[S \ {z}] /\ h[S] = d[z] + h[S \ {z}]
  <2>1. g[S] = c[z] + g[S \ {z}]
    BY SumsTakeOut
  <2>2. h[S] = d[z] + h[S \ {z}]
    BY <1>1, SumsTakeOut
  <2> QED
    BY <2>1, <2>2
<1>3. g[S \ {z}] = h[S \ {z}]
  <2>1. IsFiniteSet(S \ {z}) /\ S \ {z} \subseteq S /\ \A x \in S \ {z} : c[x] = d[x]
    BY FS_Subset
  <2> QED
    BY <2>1, SumsAgree
<1>4. g[S \ {z}] \in Nat
  BY SumsAreNumbers
<1> QED
  BY <1>2, <1>3, <1>4

\* The sum itself.
total(c, S) == (CHOOSE g : Sums(g, c, S))[S]

LEMMA TotalIsASum ==
  ASSUME NEW S, IsFiniteSet(S), NEW c
  PROVE  \E g : Sums(g, c, S) /\ total(c, S) = g[S]
BY SumsExist DEF total

LEMMA TotalOfNone ==
  ASSUME NEW c
  PROVE  total(c, {}) = 0
<1>1. IsFiniteSet({})
  BY FS_EmptySet
<1>2. PICK g : Sums(g, c, {}) /\ total(c, {}) = g[{}]
  BY <1>1, TotalIsASum
<1> QED
  BY <1>2, SumsUnfold

LEMMA TotalIsANumber ==
  ASSUME NEW S, IsFiniteSet(S), NEW c, \A x \in S : c[x] \in Nat
  PROVE  total(c, S) \in Nat
<1>1. PICK g : Sums(g, c, S) /\ total(c, S) = g[S]
  BY TotalIsASum
<1> QED
  BY <1>1, SumsAreNumbers

LEMMA TotalAgrees ==
  ASSUME NEW S, IsFiniteSet(S), NEW c, NEW d, \A x \in S : c[x] = d[x]
  PROVE  total(c, S) = total(d, S)
<1>1. PICK g : Sums(g, c, S) /\ total(c, S) = g[S]
  BY TotalIsASum
<1>2. PICK h : Sums(h, d, S) /\ total(d, S) = h[S]
  BY TotalIsASum
<1> QED
  BY <1>1, <1>2, SumsAgree

LEMMA TotalTakesOut ==
  ASSUME NEW S, IsFiniteSet(S), NEW c, \A x \in S : c[x] \in Nat, NEW y \in S
  PROVE  total(c, S) = c[y] + total(c, S \ {y})
<1>1. PICK g : Sums(g, c, S) /\ total(c, S) = g[S]
  BY TotalIsASum
<1>2. IsFiniteSet(S \ {y})
  BY FS_Subset
<1>3. PICK h : Sums(h, c, S \ {y}) /\ total(c, S \ {y}) = h[S \ {y}]
  BY <1>2, TotalIsASum
<1>4. g[S] = c[y] + g[S \ {y}]
  BY <1>1, SumsTakeOut
<1>5. g[S \ {y}] = h[S \ {y}]
  <2>1. S \ {y} \subseteq S /\ S \ {y} \subseteq S \ {y} /\ \A x \in S \ {y} : c[x] = c[x]
    OBVIOUS
  <2> HIDE <1>4
  <2> QED
    BY <1>1, <1>2, <1>3, <2>1, SumsAgree
<1> QED
  BY <1>1, <1>3, <1>4, <1>5

\* What holds of every summand holds of the sums.
LEMMA TotalIsCovered ==
  ASSUME NEW S, IsFiniteSet(S), NEW m \in Nat, NEW a, NEW b, NEW d,
         \A x \in S : a[x] \in Nat /\ b[x] \in Nat /\ d[x] \in Nat /\ d[x] <= a[x] + m * b[x]
  PROVE  total(d, S) <= total(a, S) + m * total(b, S)
<1> DEFINE T == {s \in SUBSET S : total(d, s) <= total(a, s) + m * total(b, s)}
<1>1. ASSUME NEW s \in SUBSET S, \A x \in s : s \ {x} \in T
      PROVE  s \in T
  <2>1. CASE s = {}
    <3>1. total(a, s) = 0 /\ total(b, s) = 0 /\ total(d, s) = 0
      BY <2>1, TotalOfNone
    <3> QED
      BY <3>1
  <2>2. CASE s # {}
    <3>1. PICK x \in s : TRUE
      BY <2>2
    <3>2. IsFiniteSet(s) /\ IsFiniteSet(s \ {x})
      BY FS_Subset
    <3>3. total(a, s) = a[x] + total(a, s \ {x})
      BY <3>2, TotalTakesOut
    <3>4. total(b, s) = b[x] + total(b, s \ {x})
      BY <3>2, TotalTakesOut
    <3>5. total(d, s) = d[x] + total(d, s \ {x})
      BY <3>2, TotalTakesOut
    <3>6. total(a, s \ {x}) \in Nat /\ total(b, s \ {x}) \in Nat /\ total(d, s \ {x}) \in Nat
      <4>1. \A y \in s \ {x} : a[y] \in Nat /\ b[y] \in Nat /\ d[y] \in Nat
        OBVIOUS
      <4> QED
        BY <3>2, <4>1, TotalIsANumber
    <3>7. total(d, s \ {x}) <= total(a, s \ {x}) + m * total(b, s \ {x})
      BY <1>1, <3>1
    <3>8. ASSUME NEW p \in Nat, NEW q \in Nat, NEW r \in Nat, NEW u \in Nat, NEW v \in Nat, NEW w \in Nat,
                 r <= p + m * q, w <= u + m * v
          PROVE  r + w <= (p + u) + m * (q + v)
      <4>1. m * (q + v) = m * q + m * v /\ m * q \in Nat /\ m * v \in Nat
        OBVIOUS
      <4> QED
        BY <3>8, <4>1
    <3>9. d[x] + total(d, s \ {x}) <= (a[x] + total(a, s \ {x})) + m * (b[x] + total(b, s \ {x}))
      <4>1. a[x] \in Nat /\ b[x] \in Nat /\ d[x] \in Nat /\ d[x] <= a[x] + m * b[x]
        BY <3>1
      <4> HIDE <3>3, <3>4, <3>5
      <4> QED
        BY <3>6, <3>7, <3>8, <4>1
    <3> QED
      BY <3>3, <3>4, <3>5, <3>9
  <2> QED
    BY <2>1, <2>2
<1> HIDE DEF T
<1>2. SUBSET S \subseteq T
  BY <1>1, SubsetInduction
<1> QED
  BY <1>2 DEF T

-----------------------------------------------------------------------------
(***************************************************************************)
(* Folds.  g folds step over the subsets of S, beginning with base and taking *)
(* out pick[s] last, when it obeys the recursion that MapThenFoldSet is       *)
(* defined by.                                                             *)
(***************************************************************************)
Folds(g, pick, step, base, S) ==
  g = [s \in SUBSET S |-> IF s = {} THEN base ELSE step[<<pick[s], g[s \ {pick[s]}]>>]]

Picks(pick, S) == \A s \in SUBSET S : s # {} => pick[s] \in s

LEMMA FoldsUnfold ==
  ASSUME NEW g, NEW pick, NEW step, NEW base, NEW S, Folds(g, pick, step, base, S), NEW s \in SUBSET S
  PROVE  g[s] = IF s = {} THEN base ELSE step[<<pick[s], g[s \ {pick[s]}]>>]
BY DEF Folds

LEMMA FoldsAgree ==
  ASSUME NEW pick, NEW step, NEW base,
         NEW g, NEW A, Folds(g, pick, step, base, A), NEW h, NEW B, Folds(h, pick, step, base, B),
         NEW S, IsFiniteSet(S), S \subseteq A, S \subseteq B, Picks(pick, S)
  PROVE  g[S] = h[S]
<1> DEFINE T == {s \in SUBSET S : g[s] = h[s]}
<1>1. ASSUME NEW s \in SUBSET S, \A x \in s : s \ {x} \in T
      PROVE  s \in T
  <2>1. s \in SUBSET A /\ s \in SUBSET B
    OBVIOUS
  <2>2. /\ g[s] = IF s = {} THEN base ELSE step[<<pick[s], g[s \ {pick[s]}]>>]
        /\ h[s] = IF s = {} THEN base ELSE step[<<pick[s], h[s \ {pick[s]}]>>]
    BY <2>1, FoldsUnfold
  <2>3. s # {} => g[s \ {pick[s]}] = h[s \ {pick[s]}]
    BY <1>1 DEF Picks
  <2> QED
    BY <2>2, <2>3
<1> HIDE DEF T
<1>2. SUBSET S \subseteq T
  BY <1>1, SubsetInduction
<1> QED
  BY <1>2 DEF T

\* There is such a function.
LEMMA FoldsExist ==
  ASSUME NEW S, IsFiniteSet(S), NEW pick, Picks(pick, S), NEW step, NEW base
  PROVE  \E g : Folds(g, pick, step, base, S)
<1> DEFINE T == {s \in SUBSET S : \E g : Folds(g, pick, step, base, s)}
<1>1. ASSUME NEW s \in SUBSET S, \A x \in s : s \ {x} \in T
      PROVE  s \in T
  <2> DEFINE F(x) == CHOOSE g : Folds(g, pick, step, base, s \ {x})
             G(t) == F(chosen(s \ t))[t]
             e == pick[s]
             g == [t \in SUBSET s |-> IF t = {} THEN base ELSE IF t = s THEN step[<<e, G(s \ {e})>>] ELSE G(t)]
  <2>1. \A x \in s : Folds(F(x), pick, step, base, s \ {x})
    BY <1>1
  <2>2. ASSUME NEW t \in SUBSET s, NEW x \in s \ t PROVE G(t) = F(x)[t]
    <3> DEFINE z == chosen(s \ t)
    <3>1. z \in s /\ z \notin t
      BY DEF chosen
    <3>2. t \subseteq s \ {z} /\ t \subseteq s \ {x} /\ IsFiniteSet(t) /\ Picks(pick, t)
      BY <3>1, FS_Subset DEF Picks
    <3>3. Folds(F(x), pick, step, base, s \ {x}) /\ Folds(F(z), pick, step, base, s \ {z})
      BY <2>1, <3>1
    <3> HIDE DEF z, F
    <3>4. F(z)[t] = F(x)[t]
      BY <3>2, <3>3, FoldsAgree
    <3> QED
      BY <3>4 DEF z
  <2>3. ASSUME NEW t \in SUBSET s, t # {}, t # s PROVE G(t) = step[<<pick[t], G(t \ {pick[t]})>>]
    <3>1. PICK x \in s : x \notin t
      BY <2>3
    <3>2. Folds(F(x), pick, step, base, s \ {x}) /\ t \in SUBSET (s \ {x}) /\ x \in s \ t /\ x \in s \ (t \ {pick[t]})
      BY <2>1, <3>1
    <3> HIDE DEF F, G
    <3>3. F(x)[t] = step[<<pick[t], F(x)[t \ {pick[t]}]>>]
      BY <2>3, <3>2, FoldsUnfold
    <3>4. G(t) = F(x)[t] /\ G(t \ {pick[t]}) = F(x)[t \ {pick[t]}]
      BY <2>2, <3>2
    <3> QED
      BY <3>3, <3>4
  <2>4. ASSUME s # {} PROVE G({}) = base
    <3>1. PICK x \in s : TRUE
      BY <2>4
    <3>2. Folds(F(x), pick, step, base, s \ {x}) /\ x \in s \ {}
      BY <2>1
    <3> HIDE DEF F, G
    <3>3. F(x)[{}] = base
      BY <3>2, FoldsUnfold
    <3> QED
      BY <2>2, <3>2, <3>3
  <2> HIDE DEF G
  <2>5. ASSUME NEW t \in SUBSET s, t # {}
        PROVE  g[t] = step[<<pick[t], g[t \ {pick[t]}]>>]
    <3>1. pick[t] \in t
      BY <2>5 DEF Picks
    <3>2. t \ {pick[t]} # s /\ t \ {pick[t]} \in SUBSET s
      BY <3>1
    <3>3. g[t \ {pick[t]}] = G(t \ {pick[t]})
      BY <2>4, <2>5, <3>2
    <3>4. g[t] = step[<<pick[t], G(t \ {pick[t]})>>]
      BY <2>3, <2>5
    <3> QED
      BY <3>3, <3>4
  <2>6. g[{}] = base
    OBVIOUS
  <2>7. Folds(g, pick, step, base, s)
    <3>1. \A t \in SUBSET s : g[t] = IF t = {} THEN base ELSE step[<<pick[t], g[t \ {pick[t]}]>>]
      BY <2>5, <2>6
    <3>2. g = [t \in SUBSET s |-> g[t]]
      OBVIOUS
    <3> HIDE DEF g
    <3> QED
      BY <3>1, <3>2 DEF Folds
  <2> QED
    BY <2>7
<1> HIDE DEF T
<1>2. SUBSET S \subseteq T
  BY <1>1, SubsetInduction
<1> QED
  BY <1>2 DEF T

\* A fold of typed steps stays in its type.
LEMMA FoldsStay ==
  ASSUME NEW S, IsFiniteSet(S), NEW pick, Picks(pick, S), NEW A, NEW step \in [S \X A -> A], NEW base \in A,
         NEW g, Folds(g, pick, step, base, S)
  PROVE  \A s \in SUBSET S : g[s] \in A
<1> DEFINE T == {s \in SUBSET S : g[s] \in A}
<1>1. ASSUME NEW s \in SUBSET S, \A x \in s : s \ {x} \in T
      PROVE  s \in T
  <2>1. g[s] = IF s = {} THEN base ELSE step[<<pick[s], g[s \ {pick[s]}]>>]
    BY FoldsUnfold
  <2>2. s # {} => g[s \ {pick[s]}] \in A /\ pick[s] \in S
    BY <1>1 DEF Picks
  <2> QED
    BY <2>1, <2>2
<1> HIDE DEF T
<1>2. SUBSET S \subseteq T
  BY <1>1, SubsetInduction
<1> QED
  BY <1>2 DEF T

-----------------------------------------------------------------------------
(***************************************************************************)
(* FoldLeft: the greatest position is folded last.                          *)
(***************************************************************************)
LEMMA MaxIsGreatest ==
  ASSUME NEW n \in Nat, NEW s \in SUBSET (1 .. n), s # {}
  PROVE  Max(s) \in s /\ \A x \in s : x <= Max(s)
<1> DEFINE T == {n - x : x \in s}
<1>0. \A x \in s : x \in Nat /\ x <= n /\ n - x \in Nat
  OBVIOUS
<1>1. T \subseteq Nat /\ T # {}
  BY <1>0
<1>2. PICK m \in T : \A k \in T : m <= k
  <2> HIDE DEF T
  <2> QED
    BY <1>1, LeastNatural
<1>3. PICK y \in s : m = n - y
  BY <1>2
<1>4. \A x \in s : y >= x
  <2> SUFFICES ASSUME NEW x \in s PROVE y >= x
    OBVIOUS
  <2>1. n - x \in T
    OBVIOUS
  <2>2. n - y <= n - x
    BY <1>2, <1>3, <2>1
  <2> QED
    BY <1>0, <2>2
<1>5. Max(s) \in s /\ \A x \in s : Max(s) >= x
  BY <1>3, <1>4 DEF Max
<1> QED
  BY <1>5

LEMMA MaxOfInterval ==
  ASSUME NEW k \in Nat
  PROVE  Max(1 .. k + 1) = k + 1 /\ (1 .. k + 1) \ {k + 1} = 1 .. k
<1> DEFINE n == k + 1
<1>1. n \in Nat /\ n \in 1 .. n /\ 1 .. n \in SUBSET (1 .. n)
  OBVIOUS
<1> HIDE DEF n
<1>2. Max(1 .. n) \in 1 .. n /\ \A x \in 1 .. n : x <= Max(1 .. n)
  BY <1>1, MaxIsGreatest
<1>3. Max(1 .. n) = n
  BY <1>1, <1>2
<1> QED
  BY <1>3 DEF n

maxOf(n) == [s \in SUBSET (1 .. n) |-> Max(s)]

LEMMA MaxPicks ==
  ASSUME NEW n \in Nat
  PROVE  Picks(maxOf(n), 1 .. n)
BY MaxIsGreatest DEF Picks, maxOf

\* A fold over the positions 1 .. n in their order, with its type.
PrefixFold(g, A, step, base, n) ==
  /\ g = [s \in SUBSET (1 .. n) |-> g[s]]
  /\ \A s \in SUBSET (1 .. n) :
       /\ g[s] \in A
       /\ g[s] = IF s = {} THEN base ELSE step[<<Max(s), g[s \ {Max(s)}]>>]
       /\ s # {} => Max(s) \in 1 .. n /\ s \ {Max(s)} \in SUBSET (1 .. n)

LEMMA PrefixFoldExists ==
  ASSUME NEW n \in Nat, NEW A, NEW step \in [(1 .. n) \X A -> A], NEW base \in A
  PROVE  \E g : PrefixFold(g, A, step, base, n)
<1> DEFINE pick == maxOf(n)
<1>1. IsFiniteSet(1 .. n) /\ Picks(pick, 1 .. n)
  BY FS_Interval, MaxPicks
<1>2. \A s \in SUBSET (1 .. n) : pick[s] = Max(s)
  BY DEF maxOf
<1> HIDE DEF pick
<1>3. PICK g : Folds(g, pick, step, base, 1 .. n)
  BY <1>1, FoldsExist
<1>4. \A s \in SUBSET (1 .. n) : g[s] \in A
  BY <1>1, <1>3, FoldsStay
<1>5. ASSUME NEW s \in SUBSET (1 .. n)
      PROVE  /\ g[s] = IF s = {} THEN base ELSE step[<<Max(s), g[s \ {Max(s)}]>>]
             /\ s # {} => Max(s) \in 1 .. n /\ s \ {Max(s)} \in SUBSET (1 .. n)
  <2>1. g[s] = IF s = {} THEN base ELSE step[<<pick[s], g[s \ {pick[s]}]>>]
    BY <1>3 DEF Folds
  <2> QED
    BY <1>2, <2>1, MaxIsGreatest
<1>6. g = [s \in SUBSET (1 .. n) |-> g[s]]
  BY <1>3 DEF Folds
<1>7. PrefixFold(g, A, step, base, n)
  BY <1>4, <1>5, <1>6 DEF PrefixFold
<1> QED
  BY <1>7

\* The prefixes of 1 .. n, one position longer each.
LEMMA PrefixStep ==
  ASSUME NEW n \in Nat, NEW k \in 1 .. n
  PROVE  /\ k - 1 \in Nat /\ 1 .. k \in SUBSET (1 .. n) /\ 1 .. k # {}
         /\ Max(1 .. k) = k /\ (1 .. k) \ {Max(1 .. k)} = 1 .. k - 1
<1>1. k - 1 \in Nat /\ (k - 1) + 1 = k /\ k \in 1 .. k
  OBVIOUS
<1>2. Max(1 .. k) = k /\ (1 .. k) \ {k} = 1 .. k - 1
  BY <1>1, MaxOfInterval
<1> QED
  BY <1>1, <1>2
=============================================================================
