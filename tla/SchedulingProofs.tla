-------------------------- MODULE SchedulingProofs --------------------------
(***************************************************************************)
(* Facts about the operators of Scheduling, for every value of the         *)
(* constants: what Total adds up to, and that a greedy plan stays within   *)
(* the budget.  Total is a fold over a set, so the facts about it rest on  *)
(* induction over finite sets, in the form of a minimal counterexample.    *)
(***************************************************************************)
EXTENDS Scheduling, FiniteSetTheorems, TLAPS

-----------------------------------------------------------------------------
(***************************************************************************)
(* Induction.                                                              *)
(***************************************************************************)

\* If a subset of a finite S is in G whenever all its proper subsets are, then
\* all subsets of S are: strict inclusion is well-founded on them.
LEMMA SubsetInduction ==
    ASSUME NEW S, IsFiniteSet(S), NEW G,
           \A T \in SUBSET S : (\A U \in (SUBSET T) \ {T} : U \in G) => T \in G
    PROVE  \A T \in SUBSET S : T \in G
<1> SUFFICES ASSUME (SUBSET S) \ G # {}
             PROVE  FALSE
  OBVIOUS
<1> DEFINE R == StrictSubsetOrdering(S)
           Bad == (SUBSET S) \ G
<1>1. FiniteSubsetsOf(S) = SUBSET S
  BY FS_FiniteSubsetsOfFinite
<1>2. IsWellFoundedOn(R, SUBSET S)
  <2>1. IsWellFoundedOn(StrictSubsetOrdering(S), FiniteSubsetsOf(S))
    BY FS_StrictSubsetOrderingWellFounded, Zenon
  <2>2. QED
    BY <1>1, <2>1, Zenon
<1>3. PICK T \in Bad : \A U \in Bad : ~(<<U, T>> \in R)
  <2> HIDE DEF R
  <2>1. Bad \subseteq SUBSET S /\ Bad # {}
    OBVIOUS
  <2> HIDE DEF Bad
  <2>2. QED
    BY <1>2, <2>1, WFMin
<1>4. \A U \in (SUBSET T) \ {T} : U \in G
  <2> TAKE U \in (SUBSET T) \ {T}
  <2>1. U \in SUBSET S /\ T \in SUBSET S
    OBVIOUS
  <2>2. <<U, T>> \in R
    BY <2>1 DEF StrictSubsetOrdering
  <2>3. QED
    BY <1>3, <2>1, <2>2
<1>5. QED
  BY <1>3, <1>4

\* A nonempty set of naturals has a least element.
LEMMA LeastNatural ==
    ASSUME NEW T \in SUBSET Nat, T # {}
    PROVE  \E n \in T : \A i \in T : n <= i
<1> DEFINE R == OpToRel(<, Nat)
<1>1. IsWellFoundedOn(R, Nat)
  BY NatLessThanWellFounded, Zenon
<1>2. PICK n \in T : \A i \in T : ~(<<i, n>> \in R)
  <2> HIDE DEF R
  <2>1. QED
    BY <1>1, WFMin
<1>3. \A i \in T : ~(i < n)
  <2> TAKE i \in T
  <2>1. <<i, n>> \notin R /\ <<i, n>> \in Nat \X Nat
    BY <1>2
  <2>2. QED
    BY <2>1 DEF OpToRel
<1>4. QED
  BY <1>3

\* A nonempty set of naturals with a bound has a greatest element.
LEMMA GreatestNatural ==
    ASSUME NEW T \in SUBSET Nat, T # {}, NEW b \in Nat, \A i \in T : i <= b
    PROVE  \E n \in T : \A i \in T : i <= n
<1> DEFINE D == {b - i : i \in T}
<1>1. D \in SUBSET Nat /\ D # {}
  <2>1. \A i \in T : b - i \in Nat
    OBVIOUS
  <2>2. QED
    BY <2>1
<1>2. PICK d \in D : \A e \in D : d <= e
  <2> HIDE DEF D
  <2>1. QED
    BY <1>1, LeastNatural
<1>3. PICK n \in T : d = b - n
  OBVIOUS
<1>4. \A i \in T : b - n <= b - i
  BY <1>2, <1>3
<1>5. QED
  BY <1>4
-----------------------------------------------------------------------------
(***************************************************************************)
(* Sums.  Sum(v, S) adds up v[x] for x in S.                               *)
(***************************************************************************)

\* f adds up v over every subset of S, taking out the element CHOOSE answers.
IsSum(f, v, S) ==
    f = [s \in SUBSET S |->
           IF s = {} THEN 0 ELSE v[CHOOSE x \in s : TRUE] + f[s \ {CHOOSE x \in s : TRUE}]]

Sum(v, S) == (CHOOSE f : IsSum(f, v, S))[S]

\* The recursion determines f.
LEMMA SumUnique ==
    ASSUME NEW T, NEW U, IsFiniteSet(T), NEW v, NEW w, NEW f, NEW g,
           IsSum(f, v, T), IsSum(g, w, U), \A x \in T \cap U : v[x] = w[x]
    PROVE  \A s \in SUBSET (T \cap U) : f[s] = g[s]
<1> DEFINE I == T \cap U
           G == {s \in SUBSET I : f[s] = g[s]}
<1>1. IsFiniteSet(I)
  BY FS_Subset
<1>2. ASSUME NEW s \in SUBSET I, \A u \in (SUBSET s) \ {s} : u \in G
      PROVE  s \in G
  <2>1. CASE s = {}
    BY <2>1 DEF IsSum
  <2>2. CASE s # {}
    <3> DEFINE x == CHOOSE y \in s : TRUE
    <3>1. x \in s
      BY <2>2
    <3>2. s \ {x} \in G
      BY <1>2, <3>1
    <3>3. f[s] = v[x] + f[s \ {x}]
      BY <2>2 DEF IsSum
    <3>4. g[s] = w[x] + g[s \ {x}]
      BY <2>2 DEF IsSum
    <3>5. v[x] = w[x]
      BY <3>1
    <3>6. QED
      BY <3>2, <3>3, <3>4, <3>5
  <2>3. QED
    BY <2>1, <2>2
<1>3. \A s \in SUBSET I : s \in G
  <2> HIDE DEF I, G
  <2>1. QED
    BY <1>1, <1>2, SubsetInduction
<1>4. QED
  BY <1>3

\* Such an f exists: joined from those of the subsets without one element.
LEMMA SumExists ==
    ASSUME NEW S, IsFiniteSet(S), NEW v
    PROVE  \A T \in SUBSET S : \E f : IsSum(f, v, T)
<1> DEFINE G == {T \in SUBSET S : \E f : IsSum(f, v, T)}
<1>1. ASSUME NEW T \in SUBSET S, \A U \in (SUBSET T) \ {T} : U \in G
      PROVE  T \in G
  <2> DEFINE F(U) == CHOOSE g : IsSum(g, v, U)
             At(s) == IF s = {} THEN 0
                      ELSE v[CHOOSE x \in s : TRUE] + F(s \ {CHOOSE x \in s : TRUE})[s \ {CHOOSE x \in s : TRUE}]
             f == [s \in SUBSET T |-> At(s)]
  <2>1. \A U \in (SUBSET T) \ {T} : IsSum(F(U), v, U)
    BY <1>1
  <2>2. ASSUME NEW U \in (SUBSET T) \ {T}
        PROVE  F(U)[U] = f[U]
    <3>1. IsSum(F(U), v, U)
      BY <2>1
    <3>2. CASE U = {}
      BY <3>1, <3>2 DEF IsSum
    <3>3. CASE U # {}
      <4> DEFINE x == CHOOSE y \in U : TRUE
                 V == U \ {x}
      <4>1. x \in U
        BY <3>3
      <4>2. V \in (SUBSET T) \ {T} /\ V \in SUBSET U /\ V \in SUBSET (U \cap V)
        BY <4>1
      <4>3. IsSum(F(V), v, V)
        BY <2>1, <4>2
      <4>4. F(U)[U] = v[x] + F(U)[V]
        BY <3>1, <3>3 DEF IsSum
      <4>5. f[U] = v[x] + F(V)[V]
        BY <3>3
      <4>6. F(U)[V] = F(V)[V]
        <5>1. IsFiniteSet(U)
          BY FS_Subset
        <5> HIDE DEF F, V
        <5>2. QED
          BY <3>1, <4>2, <4>3, <5>1, SumUnique
      <4>7. QED
        BY <4>4, <4>5, <4>6
    <3>4. QED
      BY <3>2, <3>3
  <2>3. IsSum(f, v, T)
    <3>1. ASSUME NEW s \in SUBSET T
          PROVE  f[s] = IF s = {} THEN 0
                        ELSE v[CHOOSE x \in s : TRUE] + f[s \ {CHOOSE x \in s : TRUE}]
      <4>1. CASE s = {}
        BY <4>1
      <4>2. CASE s # {}
        <5> DEFINE x == CHOOSE y \in s : TRUE
        <5>1. x \in s
          BY <4>2
        <5>2. s \ {x} \in (SUBSET T) \ {T}
          BY <5>1
        <5>3. F(s \ {x})[s \ {x}] = f[s \ {x}]
          BY <2>2, <5>2
        <5>4. f[s] = v[x] + F(s \ {x})[s \ {x}]
          BY <4>2
        <5>5. QED
          BY <4>2, <5>3, <5>4
      <4>3. QED
        BY <4>1, <4>2
    <3>2. f = [s \in SUBSET T |-> f[s]]
      OBVIOUS
    <3> HIDE DEF f
    <3>3. QED
      BY <3>1, <3>2 DEF IsSum
  <2>4. QED
    BY <2>3
<1>2. \A T \in SUBSET S : T \in G
  <2> HIDE DEF G
  <2>1. QED
    BY <1>1, SubsetInduction
<1>3. QED
  BY <1>2

\* The function behind a sum, seen from any of its subsets.
LEMMA SumOfSubset ==
    ASSUME NEW S, IsFiniteSet(S), NEW v, NEW f, IsSum(f, v, S), NEW T \in SUBSET S
    PROVE  f[T] = Sum(v, T)
<1> DEFINE g == CHOOSE h : IsSum(h, v, T)
<1>1. IsFiniteSet(T)
  BY FS_Subset
<1>2. IsSum(g, v, T)
  BY SumExists
<1>3. T \in SUBSET (S \cap T)
  OBVIOUS
<1>4. f[T] = g[T]
  <2> HIDE DEF g
  <2>1. QED
    BY <1>2, <1>3, SumUnique
<1>5. QED
  BY <1>4 DEF Sum

\* The sum over nothing is zero.
LEMMA SumEmpty ==
    ASSUME NEW v
    PROVE  Sum(v, {}) = 0
<1>1. IsFiniteSet({})
  BY FS_EmptySet
<1>2. PICK f : IsSum(f, v, {})
  BY <1>1, SumExists
<1>3. f[{}] = 0
  BY <1>2 DEF IsSum
<1>4. QED
  BY <1>1, <1>2, <1>3, SumOfSubset

\* The sum over a nonempty set: some element, and the sum over the rest.
LEMMA SumChoose ==
    ASSUME NEW S, IsFiniteSet(S), S # {}, NEW v
    PROVE  \E x \in S : Sum(v, S) = v[x] + Sum(v, S \ {x})
<1> DEFINE x == CHOOSE y \in S : TRUE
<1>1. PICK f : IsSum(f, v, S)
  BY SumExists
<1>2. x \in S
  OBVIOUS
<1>3. f[S] = v[x] + f[S \ {x}]
  BY <1>1 DEF IsSum
<1>4. f[S] = Sum(v, S)
  BY <1>1, SumOfSubset
<1>5. f[S \ {x}] = Sum(v, S \ {x})
  BY <1>1, SumOfSubset
<1>6. QED
  BY <1>2, <1>3, <1>4, <1>5

\* A sum of naturals is a natural.
LEMMA SumType ==
    ASSUME NEW S, IsFiniteSet(S), NEW v, \A x \in S : v[x] \in Nat
    PROVE  \A T \in SUBSET S : Sum(v, T) \in Nat
<1> DEFINE G == {T \in SUBSET S : Sum(v, T) \in Nat}
<1>1. ASSUME NEW T \in SUBSET S, \A U \in (SUBSET T) \ {T} : U \in G
      PROVE  T \in G
  <2>1. CASE T = {}
    BY <2>1, SumEmpty
  <2>2. CASE T # {}
    <3>1. IsFiniteSet(T)
      BY FS_Subset
    <3>2. PICK x \in T : Sum(v, T) = v[x] + Sum(v, T \ {x})
      BY <2>2, <3>1, SumChoose
    <3>3. T \ {x} \in G
      BY <1>1
    <3>4. QED
      BY <3>2, <3>3
  <2>3. QED
    BY <2>1, <2>2
<1>2. \A T \in SUBSET S : T \in G
  <2> HIDE DEF G
  <2>1. QED
    BY <1>1, SubsetInduction
<1>3. QED
  BY <1>2

\* Any element may be taken out: the order of the summands does not matter.
LEMMA SumRemove ==
    ASSUME NEW S, IsFiniteSet(S), NEW v, \A x \in S : v[x] \in Nat
    PROVE  \A T \in SUBSET S : \A x \in T : Sum(v, T) = v[x] + Sum(v, T \ {x})
<1> DEFINE G == {T \in SUBSET S : \A x \in T : Sum(v, T) = v[x] + Sum(v, T \ {x})}
<1>1. ASSUME NEW T \in SUBSET S, \A U \in (SUBSET T) \ {T} : U \in G
      PROVE  T \in G
  <2> SUFFICES ASSUME NEW x \in T
               PROVE  Sum(v, T) = v[x] + Sum(v, T \ {x})
    OBVIOUS
  <2>1. IsFiniteSet(T)
    BY FS_Subset
  <2>2. PICK y \in T : Sum(v, T) = v[y] + Sum(v, T \ {y})
    BY <2>1, SumChoose
  <2>3. CASE x = y
    BY <2>2, <2>3
  <2>4. CASE x # y
    <3> DEFINE Rest == (T \ {x}) \ {y}
    <3>1. Sum(v, T \ {y}) = v[x] + Sum(v, (T \ {y}) \ {x})
      <4>1. T \ {y} \in G /\ x \in T \ {y}
        BY <1>1, <2>4
      <4>2. QED
        BY <4>1
    <3>2. Sum(v, T \ {x}) = v[y] + Sum(v, Rest)
      <4>1. T \ {x} \in G /\ y \in T \ {x}
        BY <1>1, <2>4
      <4>2. QED
        BY <4>1
    <3>3. (T \ {y}) \ {x} = Rest
      OBVIOUS
    <3>4. Sum(v, Rest) \in Nat /\ v[x] \in Nat /\ v[y] \in Nat
      <4>1. Rest \in SUBSET S
        OBVIOUS
      <4>2. QED
        BY <4>1, SumType
    <3> HIDE DEF Rest
    <3>5. Sum(v, T) = v[y] + (v[x] + Sum(v, Rest))
      BY <2>2, <3>1, <3>3
    <3>6. v[y] + (v[x] + Sum(v, Rest)) = v[x] + (v[y] + Sum(v, Rest))
      BY <3>4
    <3>7. QED
      BY <3>2, <3>5, <3>6
  <2>5. QED
    BY <2>3, <2>4
<1>2. \A T \in SUBSET S : T \in G
  <2> HIDE DEF G
  <2>1. QED
    BY <1>1, SubsetInduction
<1>3. QED
  BY <1>2

\* The sum depends on the summands only.
LEMMA SumSame ==
    ASSUME NEW S, IsFiniteSet(S), NEW v, NEW w, \A x \in S : v[x] = w[x]
    PROVE  Sum(v, S) = Sum(w, S)
<1>1. PICK f : IsSum(f, v, S)
  BY SumExists
<1>2. PICK g : IsSum(g, w, S)
  BY SumExists
<1>3. f[S] = g[S]
  <2>1. S \in SUBSET (S \cap S) /\ \A x \in S \cap S : v[x] = w[x]
    OBVIOUS
  <2>2. \A s \in SUBSET (S \cap S) : f[s] = g[s]
    BY <1>1, <1>2, <2>1, SumUnique
  <2>3. QED
    BY <2>1, <2>2
<1>4. QED
  BY <1>1, <1>2, <1>3, SumOfSubset

\* Total is that sum, for CPU and for memory.
LEMMA TotalIsSum ==
    ASSUME NEW S, IsFiniteSet(S), NEW res
    PROVE  Total(res, S) = [cpu |-> Sum([x \in S |-> res[x].cpu], S),
                            mem |-> Sum([x \in S |-> res[x].mem], S)]
<1> DEFINE c == [x \in S |-> res[x].cpu]
           m == [x \in S |-> res[x].mem]
           EqC(f) == f = [s \in SUBSET S |-> IF s = {} THEN 0
                            ELSE res[CHOOSE x \in s : TRUE].cpu + f[s \ {CHOOSE x \in s : TRUE}]]
           EqM(f) == f = [s \in SUBSET S |-> IF s = {} THEN 0
                            ELSE res[CHOOSE x \in s : TRUE].mem + f[s \ {CHOOSE x \in s : TRUE}]]
<1>1. Total(res, S) = [cpu |-> (CHOOSE f : EqC(f))[S], mem |-> (CHOOSE f : EqM(f))[S]]
  BY DEF Total, MapThenSumSet, MapThenFoldSet
<1>2. \A s \in SUBSET S : s # {} => /\ c[CHOOSE x \in s : TRUE] = res[CHOOSE x \in s : TRUE].cpu
                                    /\ m[CHOOSE x \in s : TRUE] = res[CHOOSE x \in s : TRUE].mem
  OBVIOUS
<1>3. ASSUME NEW f
      PROVE  (EqC(f) <=> IsSum(f, c, S)) /\ (EqM(f) <=> IsSum(f, m, S))
  <2> HIDE DEF c, m
  <2>1. EqC(f) <=> IsSum(f, c, S)
    BY <1>2 DEF IsSum
  <2>2. EqM(f) <=> IsSum(f, m, S)
    BY <1>2 DEF IsSum
  <2>3. QED
    BY <2>1, <2>2
<1>4. (CHOOSE f : EqC(f))[S] = Sum(c, S)
  <2> HIDE DEF EqC, c
  <2>1. PICK g : IsSum(g, c, S)
    BY SumExists
  <2>2. EqC(g)
    BY <1>3, <2>1
  <2>3. EqC(CHOOSE f : EqC(f))
    BY <2>2
  <2>4. IsSum(CHOOSE f : EqC(f), c, S)
    BY <1>3, <2>3
  <2>5. QED
    BY <2>4, SumOfSubset
<1>5. (CHOOSE f : EqM(f))[S] = Sum(m, S)
  <2> HIDE DEF EqM, m
  <2>1. PICK g : IsSum(g, m, S)
    BY SumExists
  <2>2. EqM(g)
    BY <1>3, <2>1
  <2>3. EqM(CHOOSE f : EqM(f))
    BY <2>2
  <2>4. IsSum(CHOOSE f : EqM(f), m, S)
    BY <1>3, <2>3
  <2>5. QED
    BY <2>4, SumOfSubset
<1>6. QED
  BY <1>1, <1>4, <1>5

-----------------------------------------------------------------------------
(***************************************************************************)
(* Totals of resources.                                                    *)
(***************************************************************************)

\* Every summand is a pair of naturals.
AllResources(res, S) == \A x \in S : res[x] \in Resource

\* No more CPU and no more memory.
AtMost(a, b) == a.cpu <= b.cpu /\ a.mem <= b.mem

\* The total of nothing is zero.
LEMMA TotalEmpty ==
    ASSUME NEW res
    PROVE  Total(res, {}) = NoResource
<1>1. IsFiniteSet({})
  BY FS_EmptySet
<1>2. Total(res, {}) = [cpu |-> Sum([x \in {} |-> res[x].cpu], {}),
                        mem |-> Sum([x \in {} |-> res[x].mem], {})]
  BY <1>1, TotalIsSum
<1>3. QED
  BY <1>2, SumEmpty DEF NoResource

\* The total of resources is one.
LEMMA TotalType ==
    ASSUME NEW S, IsFiniteSet(S), NEW res, AllResources(res, S)
    PROVE  Total(res, S) \in Resource
<1> DEFINE c == [x \in S |-> res[x].cpu]
           m == [x \in S |-> res[x].mem]
<1>1. \A x \in S : c[x] \in Nat /\ m[x] \in Nat
  BY DEF AllResources, Resource
<1>2. Total(res, S) = [cpu |-> Sum(c, S), mem |-> Sum(m, S)]
  BY TotalIsSum
<1> HIDE DEF c, m
<1>3. Sum(c, S) \in Nat /\ Sum(m, S) \in Nat
  BY <1>1, SumType
<1>4. QED
  BY <1>2, <1>3 DEF Resource

\* Equal summands, equal totals.
LEMMA TotalSame ==
    ASSUME NEW S, IsFiniteSet(S), NEW res, NEW q, \A x \in S : res[x] = q[x]
    PROVE  Total(res, S) = Total(q, S)
<1> DEFINE c(r) == [x \in S |-> r[x].cpu]
           m(r) == [x \in S |-> r[x].mem]
<1>1. c(res) = c(q) /\ m(res) = m(q)
  OBVIOUS
<1>2. Total(res, S) = [cpu |-> Sum(c(res), S), mem |-> Sum(m(res), S)]
  BY TotalIsSum
<1>3. Total(q, S) = [cpu |-> Sum(c(q), S), mem |-> Sum(m(q), S)]
  BY TotalIsSum
<1>4. QED
  BY <1>1, <1>2, <1>3

\* Any summand may be taken out.
LEMMA TotalRemove ==
    ASSUME NEW S, IsFiniteSet(S), NEW res, AllResources(res, S), NEW x \in S
    PROVE  Total(res, S) = Plus(res[x], Total(res, S \ {x}))
<1> DEFINE R == S \ {x}
           c(T) == [y \in T |-> res[y].cpu]
           m(T) == [y \in T |-> res[y].mem]
<1>1. /\ \A y \in S : c(S)[y] \in Nat /\ m(S)[y] \in Nat
      /\ \A y \in R : c(S)[y] = c(R)[y] /\ m(S)[y] = m(R)[y]
      /\ c(S)[x] = res[x].cpu /\ m(S)[x] = res[x].mem
  BY DEF AllResources, Resource
<1>2. IsFiniteSet(R) /\ R \in SUBSET S /\ S \in SUBSET S
  BY FS_Subset
<1>3. Total(res, S) = [cpu |-> Sum(c(S), S), mem |-> Sum(m(S), S)]
  BY TotalIsSum
<1>4. Total(res, R) = [cpu |-> Sum(c(R), R), mem |-> Sum(m(R), R)]
  BY <1>2, TotalIsSum
<1> HIDE DEF c, m
<1>5. Sum(c(S), S) = c(S)[x] + Sum(c(S), R) /\ Sum(m(S), S) = m(S)[x] + Sum(m(S), R)
  BY <1>1, <1>2, SumRemove
<1>6. Sum(c(S), R) = Sum(c(R), R) /\ Sum(m(S), R) = Sum(m(R), R)
  BY <1>1, <1>2, SumSame
<1> HIDE DEF R
<1>7. Plus(res[x], Total(res, R)) = [cpu |-> res[x].cpu + Sum(c(R), R), mem |-> res[x].mem + Sum(m(R), R)]
  BY <1>4 DEF Plus
<1>8. QED
  BY <1>1, <1>3, <1>5, <1>6, <1>7 DEF R

\* A summand may be added.
LEMMA TotalAdd ==
    ASSUME NEW S, IsFiniteSet(S), NEW res, NEW x, x \notin S, AllResources(res, S \cup {x})
    PROVE  Total(res, S \cup {x}) = Plus(res[x], Total(res, S))
<1>1. IsFiniteSet(S \cup {x}) /\ x \in S \cup {x} /\ (S \cup {x}) \ {x} = S
  BY FS_AddElement
<1>2. QED
  BY <1>1, TotalRemove

\* A total grows with its summands and with the set of them.
LEMMA TotalMonotone ==
    ASSUME NEW S, IsFiniteSet(S), NEW res, NEW q, AllResources(res, S), AllResources(q, S),
           \A x \in S : AtMost(res[x], q[x])
    PROVE  \A T \in SUBSET S : AtMost(Total(res, T), Total(q, T))
<1> DEFINE G == {T \in SUBSET S : AtMost(Total(res, T), Total(q, T))}
<1>1. ASSUME NEW T \in SUBSET S, \A U \in (SUBSET T) \ {T} : U \in G
      PROVE  T \in G
  <2>1. CASE T = {}
    BY <2>1, TotalEmpty DEF AtMost, NoResource
  <2>2. CASE T # {}
    <3>1. PICK x \in T : TRUE
      BY <2>2
    <3>2. T \ {x} \in G /\ IsFiniteSet(T) /\ IsFiniteSet(T \ {x})
      BY <1>1, FS_Subset
    <3>3. AllResources(res, T) /\ AllResources(q, T) /\ AllResources(res, T \ {x}) /\ AllResources(q, T \ {x})
      BY DEF AllResources
    <3>4. /\ Total(res, T) = Plus(res[x], Total(res, T \ {x}))
          /\ Total(q, T) = Plus(q[x], Total(q, T \ {x}))
      BY <3>2, <3>3, TotalRemove
    <3>5. Total(res, T \ {x}) \in Resource /\ Total(q, T \ {x}) \in Resource
      BY <3>2, <3>3, TotalType
    <3>6. res[x] \in Resource /\ q[x] \in Resource /\ AtMost(res[x], q[x])
      BY DEF AllResources
    <3>7. AtMost(Total(res, T \ {x}), Total(q, T \ {x}))
      BY <3>2
    <3>8. QED
      BY <3>4, <3>5, <3>6, <3>7 DEF AtMost, Plus, Resource
  <2>3. QED
    BY <2>1, <2>2
<1>2. \A T \in SUBSET S : T \in G
  <2> HIDE DEF G
  <2>1. QED
    BY <1>1, SubsetInduction
<1>3. QED
  BY <1>2

\* Taking a summand out does not make the total larger.
LEMMA TotalOfSubset ==
    ASSUME NEW S, IsFiniteSet(S), NEW res, AllResources(res, S), NEW x \in S
    PROVE  AtMost(Total(res, S \ {x}), Total(res, S))
<1>1. IsFiniteSet(S \ {x}) /\ AllResources(res, S \ {x})
  BY FS_Subset DEF AllResources
<1>2. Total(res, S \ {x}) \in Resource /\ res[x] \in Resource
  BY <1>1, TotalType DEF AllResources
<1>3. Total(res, S) = Plus(res[x], Total(res, S \ {x}))
  BY TotalRemove
<1>4. QED
  BY <1>2, <1>3 DEF AtMost, Plus, Resource

Times(r, k) == [cpu |-> r.cpu * k, mem |-> r.mem * k]

\* Multiples of resources are resources, and multiplying distributes over adding.
LEMMA TimesFacts ==
    ASSUME NEW k \in Nat, NEW r \in Resource, NEW s \in Resource
    PROVE  /\ Times(r, k) \in Resource
           /\ Plus(Times(r, k), Times(s, k)) = Times(Plus(r, s), k)
<1>1. /\ r.cpu \in Nat /\ r.mem \in Nat /\ s.cpu \in Nat /\ s.mem \in Nat
      /\ r.cpu * k \in Nat /\ r.mem * k \in Nat
  BY DEF Resource
<1>2. Times(r, k) \in Resource
  BY <1>1 DEF Times, Resource
<1>3. \A a, b \in Nat : a * k + b * k = (a + b) * k
  OBVIOUS
<1>4. r.cpu * k + s.cpu * k = (r.cpu + s.cpu) * k /\ r.mem * k + s.mem * k = (r.mem + s.mem) * k
  BY <1>1, <1>3
<1>5. QED
  BY <1>2, <1>4 DEF Plus, Times

\* Multiplying every summand multiplies the total.
LEMMA TotalScale ==
    ASSUME NEW S, IsFiniteSet(S), NEW res, NEW q, NEW k \in Nat, AllResources(res, S),
           \A x \in S : q[x] = Times(res[x], k)
    PROVE  \A T \in SUBSET S : Total(q, T) = Times(Total(res, T), k)
<1> DEFINE G == {T \in SUBSET S : Total(q, T) = Times(Total(res, T), k)}
<1>1. AllResources(q, S)
  BY TimesFacts DEF AllResources
<1>2. ASSUME NEW T \in SUBSET S, \A U \in (SUBSET T) \ {T} : U \in G
      PROVE  T \in G
  <2>1. CASE T = {}
    BY <2>1, TotalEmpty DEF NoResource, Times
  <2>2. CASE T # {}
    <3>1. PICK x \in T : TRUE
      BY <2>2
    <3>2. T \ {x} \in G /\ IsFiniteSet(T) /\ IsFiniteSet(T \ {x})
      BY <1>2, FS_Subset
    <3>3. AllResources(res, T) /\ AllResources(q, T) /\ AllResources(res, T \ {x})
      BY <1>1 DEF AllResources
    <3>4. /\ Total(res, T) = Plus(res[x], Total(res, T \ {x}))
          /\ Total(q, T) = Plus(q[x], Total(q, T \ {x}))
      BY <3>2, <3>3, TotalRemove
    <3>5. Total(res, T \ {x}) \in Resource /\ res[x] \in Resource
      BY <3>2, <3>3, TotalType DEF AllResources
    <3>6. QED
      BY <3>2, <3>4, <3>5, TimesFacts
  <2>3. QED
    BY <2>1, <2>2
<1>3. \A T \in SUBSET S : T \in G
  <2> HIDE DEF G
  <2>1. QED
    BY <1>2, SubsetInduction
<1>4. QED
  BY <1>3

\* A total lies between as many times the least and the greatest summand.
LEMMA TotalBetween ==
    ASSUME NEW S, IsFiniteSet(S), NEW res, AllResources(res, S),
           NEW lo \in Resource, NEW hi \in Resource,
           \A x \in S : AtMost(lo, res[x]) /\ AtMost(res[x], hi)
    PROVE  \A T \in SUBSET S : /\ AtMost(Times(lo, Cardinality(T)), Total(res, T))
                               /\ AtMost(Total(res, T), Times(hi, Cardinality(T)))
<1> DEFINE G == {T \in SUBSET S : /\ AtMost(Times(lo, Cardinality(T)), Total(res, T))
                                  /\ AtMost(Total(res, T), Times(hi, Cardinality(T)))}
<1>0. lo.cpu \in Nat /\ lo.mem \in Nat /\ hi.cpu \in Nat /\ hi.mem \in Nat
  BY DEF Resource
<1>1. ASSUME NEW T \in SUBSET S, \A U \in (SUBSET T) \ {T} : U \in G
      PROVE  T \in G
  <2>1. CASE T = {}
    <3>1. Cardinality(T) = 0 /\ Total(res, T) = NoResource
      BY <2>1, FS_EmptySet, TotalEmpty
    <3>2. lo.cpu * 0 = 0 /\ lo.mem * 0 = 0 /\ hi.cpu * 0 = 0 /\ hi.mem * 0 = 0
      BY <1>0
    <3>3. QED
      BY <3>1, <3>2 DEF AtMost, Times, NoResource
  <2>2. CASE T # {}
    <3>1. PICK x \in T : TRUE
      BY <2>2
    <3> DEFINE U == T \ {x}
               n == Cardinality(U)
               u == Total(res, U)
    <3>2. U \in G /\ IsFiniteSet(T) /\ IsFiniteSet(U)
      BY <1>1, FS_Subset
    <3>3. AllResources(res, T) /\ AllResources(res, U)
      BY DEF AllResources
    <3>4. Total(res, T) = Plus(res[x], u)
      BY <3>2, <3>3, TotalRemove
    <3>5. n \in Nat /\ Cardinality(T) = n + 1
      BY <3>1, <3>2, FS_CardinalityType, FS_RemoveElement
    <3>6. u \in Resource /\ res[x] \in Resource
      BY <3>2, <3>3, TotalType DEF AllResources
    <3>7. u.cpu \in Nat /\ u.mem \in Nat /\ res[x].cpu \in Nat /\ res[x].mem \in Nat
      BY <3>6 DEF Resource
    <3>8. /\ lo.cpu * n <= u.cpu /\ lo.mem * n <= u.mem
          /\ u.cpu <= hi.cpu * n /\ u.mem <= hi.mem * n
      BY <3>2 DEF AtMost, Times
    <3>9. /\ lo.cpu <= res[x].cpu /\ lo.mem <= res[x].mem
          /\ res[x].cpu <= hi.cpu /\ res[x].mem <= hi.mem
      BY DEF AtMost
    <3> HIDE DEF n, u
    <3>10. \A a \in Nat : a * (n + 1) = a * n + a
      BY <3>5
    <3>11. /\ lo.cpu * (n + 1) <= res[x].cpu + u.cpu /\ lo.mem * (n + 1) <= res[x].mem + u.mem
           /\ res[x].cpu + u.cpu <= hi.cpu * (n + 1) /\ res[x].mem + u.mem <= hi.mem * (n + 1)
      <4>1. /\ lo.cpu * n \in Nat /\ lo.mem * n \in Nat /\ hi.cpu * n \in Nat /\ hi.mem * n \in Nat
        BY <1>0, <3>5
      <4>2. QED
        BY <1>0, <3>7, <3>8, <3>9, <3>10, <4>1
    <3>12. QED
      BY <3>4, <3>5, <3>11 DEF AtMost, Times, Plus
  <2>3. QED
    BY <2>1, <2>2
<1>2. \A T \in SUBSET S : T \in G
  <2> HIDE DEF G
  <2>1. QED
    BY <1>1, SubsetInduction
<1>3. QED
  BY <1>2

-----------------------------------------------------------------------------
(***************************************************************************)
(* The budget.                                                             *)
(***************************************************************************)

\* What is within the budget stays so when it shrinks.
LEMMA WithinLess ==
    ASSUME NEW max \in Resource, NEW a \in Resource, NEW b \in Resource,
           AtMost(a, b), Within(max, b)
    PROVE  Within(max, a)
BY DEF Within, AtMost, Resource

\* Adding resources: closed, commutative, with NoResource neutral, and growing.
LEMMA PlusFacts ==
    ASSUME NEW a \in Resource, NEW b \in Resource
    PROVE  /\ Plus(a, b) \in Resource
           /\ Plus(a, b) = Plus(b, a)
           /\ Plus(a, NoResource) = a
           /\ AtMost(a, Plus(a, b)) /\ AtMost(b, Plus(a, b))
<1>1. /\ a.cpu \in Nat /\ a.mem \in Nat /\ b.cpu \in Nat /\ b.mem \in Nat
      /\ a = [cpu |-> a.cpu, mem |-> a.mem]
  BY DEF Resource
<1>2. Plus(a, NoResource) = a
  BY <1>1 DEF Plus, NoResource
<1>3. QED
  BY <1>1, <1>2 DEF Plus, AtMost, Resource

\* Adding resources is associative.
LEMMA PlusAssociates ==
    ASSUME NEW a \in Resource, NEW b \in Resource, NEW c \in Resource
    PROVE  Plus(Plus(a, b), c) = Plus(a, Plus(b, c))
BY DEF Plus, Resource

\* What the running tasks use are resources, too.
LEMMA UsageType ==
    ASSUME NEW ts \in [TaskNames -> TaskStatus]
    PROVE  /\ AllResources(RunningAllocations(ts), TaskNames)
           /\ ResourceUsage(ts) \in Resource
<1>1. NoResource \in Resource
  BY DEF NoResource, Resource
<1>2. AllResources(RunningAllocations(ts), TaskNames)
  BY <1>1 DEF AllResources, RunningAllocations, TaskStatus
<1>3. QED
  BY <1>2, TotalType, ManifestAssumption DEF ResourceUsage

\* What a task is given are resources, whichever source they come from.
LEMMA NeedType ==
    ASSUME NEW m, IsManifest(m), NEW predictions, IsResourceMap(predictions), NEW t
    PROVE  resolveResources(m, predictions, t) \in Resource
BY DEF resolveResources, IsManifest, IsResourceMap, DefaultResources, Resource

\* Of the tasks the plan takes, one comes last in spec.tasks.
LEMMA LastTaken ==
    ASSUME NEW m, IsManifest(m), NEW chosen \in SUBSET Tasks(m), chosen # {}
    PROVE  \E t \in chosen : {s \in chosen : Before(m, s, t)} = chosen \ {t}
<1> DEFINE I == {i \in DOMAIN m.tasks : m.tasks[i] \in chosen}
<1>1. m.tasks \in Seq(TaskNames) /\ Len(m.tasks) \in Nat /\ DOMAIN m.tasks = 1..Len(m.tasks)
  BY DEF IsManifest
<1>2. I \in SUBSET Nat /\ I # {} /\ \A i \in I : i <= Len(m.tasks)
  BY <1>1 DEF Tasks
<1>3. PICK n \in I : \A i \in I : i <= n
  <2> HIDE DEF I
  <2>1. QED
    BY <1>1, <1>2, GreatestNatural
<1>4. \A i \in I : m.tasks[i] = m.tasks[n] => i = n
  BY DEF IsManifest
<1>5. ASSUME NEW s \in chosen, s # m.tasks[n]
      PROVE  Before(m, s, m.tasks[n])
  <2>1. PICK i \in I : m.tasks[i] = s
    BY DEF Tasks
  <2>2. i < n
    BY <1>1, <1>3, <1>5, <2>1
  <2>3. QED
    BY <2>1, <2>2 DEF Before
<1>6. ~Before(m, m.tasks[n], m.tasks[n])
  <2>1. \A i, j \in DOMAIN m.tasks : m.tasks[i] = m.tasks[n] /\ m.tasks[j] = m.tasks[n] => i = j
    BY DEF IsManifest
  <2>2. QED
    BY <1>1, <2>1 DEF Before
<1>7. QED
  BY <1>5, <1>6

\* A greedy plan that takes anything keeps the budget: the running tasks and all
\* it takes stay within MaxResources together.
LEMMA TakenFits ==
    ASSUME NEW m, IsManifest(m), NEW ts \in [TaskNames -> TaskStatus],
           NEW predictions, IsResourceMap(predictions),
           NEW chosen, IsGreedyPlan(m, ts, predictions, chosen), chosen # {}
    PROVE  LET need == [t \in TaskNames |-> resolveResources(m, predictions, t)]
           IN  Within(m.max, Plus(ResourceUsage(ts), Total(need, chosen)))
<1> DEFINE need == [t \in TaskNames |-> resolveResources(m, predictions, t)]
<1>1. chosen \in SUBSET Tasks(m) /\ chosen \in SUBSET TaskNames
  BY DEF IsGreedyPlan, Ready, Tasks, IsManifest
<1>2. IsFiniteSet(chosen)
  BY <1>1, FS_Subset, ManifestAssumption
<1>3. AllResources(need, TaskNames)
  BY NeedType DEF AllResources
<1>4. ResourceUsage(ts) \in Resource
  BY UsageType
<1>5. PICK t \in chosen : {s \in chosen : Before(m, s, t)} = chosen \ {t}
  BY <1>1, LastTaken
<1>6. t \in Ready(m, ts) /\ t \in TaskNames
  BY <1>1 DEF IsGreedyPlan
<1>7. Within(m.max, Plus(Plus(ResourceUsage(ts), Total(need, chosen \ {t})), need[t]))
  BY <1>5, <1>6 DEF IsGreedyPlan
<1>8. AllResources(need, chosen) /\ AllResources(need, chosen \ {t}) /\ IsFiniteSet(chosen \ {t})
  BY <1>1, <1>2, <1>3, FS_Subset DEF AllResources
<1>9. Total(need, chosen \ {t}) \in Resource /\ need[t] \in Resource
  BY <1>3, <1>6, <1>8, TotalType DEF AllResources
<1>10. Total(need, chosen) = Plus(need[t], Total(need, chosen \ {t}))
  BY <1>2, <1>8, TotalRemove
<1>11. Plus(Plus(ResourceUsage(ts), Total(need, chosen \ {t})), need[t])
         = Plus(ResourceUsage(ts), Total(need, chosen))
  <2> DEFINE a == ResourceUsage(ts)
             b == Total(need, chosen \ {t})
             c == need[t]
  <2> HIDE DEF a, b, c
  <2>1. a \in Resource /\ b \in Resource /\ c \in Resource
    BY <1>4, <1>9 DEF a, b, c
  <2>2. Plus(Plus(a, b), c) = Plus(a, Plus(c, b))
    BY <2>1, PlusAssociates, PlusFacts
  <2>3. QED
    BY <1>10, <2>2 DEF a, b, c
<1>12. QED
  BY <1>7, <1>11

\* A greedy plan keeps the budget: it leaves the running tasks and all it takes
\* within MaxResources if the running tasks alone are.
THEOREM GreedyKeepsBudget ==
    ASSUME NEW m, IsManifest(m), NEW ts \in [TaskNames -> TaskStatus],
           NEW predictions, IsResourceMap(predictions),
           NEW chosen, IsGreedyPlan(m, ts, predictions, chosen),
           Within(m.max, ResourceUsage(ts))
    PROVE  LET need == [t \in TaskNames |-> resolveResources(m, predictions, t)]
           IN  Within(m.max, Plus(ResourceUsage(ts), Total(need, chosen)))
<1> DEFINE need == [t \in TaskNames |-> resolveResources(m, predictions, t)]
<1>1. CASE chosen = {}
  <2>1. Plus(ResourceUsage(ts), Total(need, chosen)) = ResourceUsage(ts)
    BY <1>1, UsageType, TotalEmpty, PlusFacts DEF NoResource, Resource
  <2>2. QED
    BY <2>1
<1>2. CASE chosen # {}
  BY <1>2, TakenFits
<1>3. QED
  BY <1>1, <1>2

\* The plan is determined: two greedy plans over the same tasks, of which the
\* same are ready and the same fit next to the same others, take the same.
THEOREM GreedyUnique ==
    ASSUME NEW m, IsManifest(m), NEW n, n.tasks = m.tasks,
           NEW ts, NEW us, Ready(n, us) = Ready(m, ts),
           NEW p, NEW q, NEW chosen, NEW taken,
           IsGreedyPlan(m, ts, p, chosen), IsGreedyPlan(n, us, q, taken),
           \A T \in SUBSET TaskNames : \A t \in TaskNames :
              LET need == [u \in TaskNames |-> resolveResources(m, p, u)]
                  want == [u \in TaskNames |-> resolveResources(n, q, u)]
              IN  Within(m.max, Plus(Plus(ResourceUsage(ts), Total(need, T)), need[t]))
                    <=> Within(n.max, Plus(Plus(ResourceUsage(us), Total(want, T)), want[t]))
    PROVE  chosen = taken
<1> DEFINE D == {i \in DOMAIN m.tasks : ~(m.tasks[i] \in chosen <=> m.tasks[i] \in taken)}
<1>1. m.tasks \in Seq(TaskNames) /\ Len(m.tasks) \in Nat /\ DOMAIN m.tasks = 1..Len(m.tasks)
  BY DEF IsManifest
<1>2. chosen \subseteq Tasks(m) /\ taken \subseteq Tasks(m) /\ Tasks(m) \subseteq TaskNames
  BY <1>1 DEF IsGreedyPlan, Ready, Tasks
<1>3. SUFFICES ASSUME D # {} PROVE FALSE
  BY <1>2 DEF Tasks
<1>4. PICK i \in D : \A j \in D : i <= j
  <2>1. D \in SUBSET Nat
    BY <1>1
  <2> HIDE DEF D
  <2>2. QED
    BY <1>3, <2>1, LeastNatural
<1> DEFINE t == m.tasks[i]
           T == {s \in chosen : Before(m, s, t)}
<1>5. T = {s \in taken : Before(n, s, t)}
  <2>1. \A s : Before(n, s, t) <=> Before(m, s, t)
    BY DEF Before
  <2>2. ASSUME NEW s, Before(m, s, t)
        PROVE  s \in chosen <=> s \in taken
    <3>1. PICK j, k \in DOMAIN m.tasks : j < k /\ m.tasks[j] = s /\ m.tasks[k] = t
      BY <2>2 DEF Before
    <3>2. k = i
      BY <3>1 DEF IsManifest
    <3>3. j \notin D
      BY <1>1, <1>4, <3>1, <3>2
    <3>4. QED
      BY <3>1, <3>3
  <2>3. QED
    BY <2>1, <2>2
<1>6. T \in SUBSET TaskNames /\ t \in TaskNames
  BY <1>1, <1>2
<1>7. t \in Ready(m, ts)
  BY DEF IsGreedyPlan
<1>8. t \in chosen <=> t \in taken
  BY <1>5, <1>6, <1>7 DEF IsGreedyPlan
<1>9. QED
  BY <1>8
=============================================================================
