---------------------------- MODULE NatInduction ----------------------------
(* Induction over the naturals, stated for sets instead of predicates so that *)
(* the first-order provers can instantiate it, lists in ascending order, and  *)
(* sums over finite sets.  The other proof modules cite it for the recursive  *)
(* functions that model the covenant's loops, for the files the services sort *)
(* and for the coins they add up.                                             *)
EXTENDS SortedLists, FiniteSetTheorems, WellFoundedInduction, TLAPS

\* Every nonempty set of naturals has a least element: the intervals 1 .. n for
\* n in the set are finite sets, and strict inclusion is well founded on those.
LEMMA LeastNat ==
  ASSUME NEW T \in SUBSET Nat, T # {}
  PROVE  \E m \in T : \A k \in T : m <= k
<1> DEFINE U == {1 .. n : n \in T}
           O == StrictSubsetOrdering(Nat)
<1>1. U \subseteq FiniteSubsetsOf(Nat)
  <2> SUFFICES ASSUME NEW n \in T PROVE 1 .. n \in FiniteSubsetsOf(Nat)
    OBVIOUS
  <2>1. IsFiniteSet(1 .. n)
    BY FS_Interval
  <2>2. 1 .. n \in SUBSET Nat
    OBVIOUS
  <2> QED BY <2>1, <2>2 DEF FiniteSubsetsOf
<1>2. U # {}
  OBVIOUS
<1>3. IsWellFoundedOn(O, FiniteSubsetsOf(Nat))
  BY FS_StrictSubsetOrderingWellFounded
<1>4. PICK x \in U : \A y \in U : ~ (<<y, x>> \in O)
  <2> HIDE DEF U, O
  <2> QED BY <1>1, <1>2, <1>3, WFMin
<1>5. PICK m \in T : x = 1 .. m
  OBVIOUS
<1>6. ASSUME NEW k \in T, k < m PROVE FALSE
  <2>1. 1 .. k \in U
    OBVIOUS
  <2>2. 1 .. k \subseteq 1 .. m
    BY <1>6
  <2>3. m \in 1 .. m /\ m \notin 1 .. k
    BY <1>6
  <2>4. <<1 .. k, 1 .. m>> \in (SUBSET Nat) \X (SUBSET Nat)
    OBVIOUS
  <2>5. <<1 .. k, x>> \in O
    BY <2>2, <2>3, <2>4, <1>5 DEF StrictSubsetOrdering
  <2> QED BY <2>1, <2>5, <1>4
<1> QED BY <1>6

\* A set of naturals that holds 0 and the successor of each member is Nat.
LEMMA NatSetInduction ==
  ASSUME NEW S \in SUBSET Nat, 0 \in S, \A n \in S : n + 1 \in S
  PROVE  S = Nat
<1> SUFFICES ASSUME Nat \ S # {} PROVE FALSE
  OBVIOUS
<1>1. PICK m \in Nat \ S : \A k \in Nat \ S : m <= k
  BY LeastNat
<1>2. m - 1 \in Nat /\ m - 1 \notin Nat \ S
  BY <1>1
<1> QED BY <1>1, <1>2

\* g runs an iteration of n rounds from s0, the j-th round being step[j].
Iterates(g, n, S, s0, step) ==
  /\ g \in [0 .. n -> S]
  /\ g[0] = s0
  /\ \A j \in 1 .. n : g[j] = step[j][g[j - 1]]

\* Recursion over 0 .. N: whatever the first value and the step of each index,
\* a function with those values exists.  A recursive definition f[j \in 0 .. N]
\* denotes one of them.
LEMMA RecursiveFunctionExists ==
  ASSUME NEW N \in Nat, NEW S, NEW s0 \in S, NEW step \in [1 .. N -> [S -> S]]
  PROVE  \E g : Iterates(g, N, S, s0, step)
<1> DEFINE Good == {n \in Nat : n <= N => \E g : Iterates(g, n, S, s0, step)}
<1>1. 0 \in Good
  <2>1. Iterates([j \in 0 .. 0 |-> s0], 0, S, s0, step)
    BY DEF Iterates
  <2> QED BY <2>1
<1>2. ASSUME NEW n \in Good PROVE n + 1 \in Good
  <2> SUFFICES ASSUME n + 1 <= N PROVE \E g : Iterates(g, n + 1, S, s0, step)
    OBVIOUS
  <2>1. PICK g : Iterates(g, n, S, s0, step)
    BY n <= N
  <2> DEFINE h == [j \in 0 .. n + 1 |-> IF j = n + 1 THEN step[n + 1][g[n]] ELSE g[j]]
  <2>2. n + 1 \in 1 .. N /\ n \in 0 .. n
    OBVIOUS
  <2>3. step[n + 1] \in [S -> S]
    BY <2>2
  <2>4. step[n + 1][g[n]] \in S
    BY <2>1, <2>2, <2>3 DEF Iterates
  <2>5. h \in [0 .. n + 1 -> S]
    BY <2>1, <2>4 DEF Iterates
  <2>6. h[0] = s0
    BY <2>1 DEF Iterates
  <2>7. \A j \in 1 .. n + 1 : h[j] = step[j][h[j - 1]]
    <3> SUFFICES ASSUME NEW j \in 1 .. n + 1 PROVE h[j] = step[j][h[j - 1]]
      OBVIOUS
    <3>1. CASE j = n + 1
      BY <3>1
    <3>2. CASE j # n + 1
      BY <3>2, <2>1 DEF Iterates
    <3> QED BY <3>1, <3>2
  <2> QED BY <2>5, <2>6, <2>7 DEF Iterates
<1>3. Good = Nat
  <2> HIDE DEF Good
  <2>1. Good \in SUBSET Nat
    BY DEF Good
  <2> QED BY <1>1, <1>2, <2>1, NatSetInduction
<1>4. N \in Good
  BY <1>3
<1> QED BY <1>4

\* What holds at the start and after each step holds at every index: G[k] is the set
\* of the values that are right at k.
LEMMA StagesHold ==
  ASSUME NEW N \in Nat, NEW f, NEW G, f[0] \in G[0],
         \A k \in 1 .. N : f[k - 1] \in G[k - 1] => f[k] \in G[k]
  PROVE  \A k \in 0 .. N : f[k] \in G[k]
<1> DEFINE Good == {n \in Nat : n <= N => f[n] \in G[n]}
<1>1. 0 \in Good
  OBVIOUS
<1>2. ASSUME NEW n \in Good PROVE n + 1 \in Good
  <2> SUFFICES ASSUME n + 1 <= N PROVE f[n + 1] \in G[n + 1]
    OBVIOUS
  <2>1. n <= N /\ n + 1 \in 1 .. N /\ (n + 1) - 1 = n
    OBVIOUS
  <2> QED BY <2>1
<1>3. Good = Nat
  <2> HIDE DEF Good
  <2>1. Good \in SUBSET Nat
    BY DEF Good
  <2> QED BY <1>1, <1>2, <2>1, NatSetInduction
<1> QED BY <1>3

\* The iteration again, with what is right at each round.
Staged(g, N, G, s0, step) ==
  /\ g = [k \in 0 .. N |-> g[k]]
  /\ g[0] = s0
  /\ \A k \in 1 .. N : g[k] = step[k][g[k - 1]] /\ g[k - 1] \in G[k - 1]

\* Recursion over 0 .. N again, for steps that are sure of what they return only when
\* what they are given is right.
LEMMA StagedRecursion ==
  ASSUME NEW N \in Nat, NEW G, NEW s0 \in G[0], NEW step,
         \A k \in 1 .. N : \A x \in G[k - 1] : step[k][x] \in G[k]
  PROVE  \E g : Staged(g, N, G, s0, step)
<1> DEFINE S == UNION {G[k] : k \in 0 .. N}
           careful == [k \in 1 .. N |-> [x \in S |-> IF step[k][x] \in S THEN step[k][x] ELSE x]]
<1>1. careful \in [1 .. N -> [S -> S]] /\ s0 \in S
  OBVIOUS
<1>2. \A k \in 0 .. N : G[k] \subseteq S
  OBVIOUS
<1>3. ASSUME NEW k \in 1 .. N, NEW x \in G[k - 1]
      PROVE  careful[k][x] = step[k][x] /\ step[k][x] \in G[k]
  <2>1. k - 1 \in 0 .. N /\ k \in 0 .. N
    OBVIOUS
  <2>2. step[k][x] \in G[k] /\ x \in S /\ step[k][x] \in S
    BY <1>2, <2>1
  <2> QED BY <2>2
<1> HIDE DEF S, careful
<1>4. PICK g : Iterates(g, N, S, s0, careful)
  BY <1>1, RecursiveFunctionExists
<1>5. \A k \in 0 .. N : g[k] \in G[k]
  <2>1. g[0] \in G[0] /\ \A k \in 1 .. N : g[k - 1] \in G[k - 1] => g[k] \in G[k]
    BY <1>3, <1>4 DEF Iterates
  <2> QED BY <2>1, StagesHold
<1>6. \A k \in 1 .. N : g[k - 1] \in G[k - 1]
  BY <1>5
<1>7. g[0] = s0 /\ \A k \in 1 .. N : g[k] = step[k][g[k - 1]] /\ g[k - 1] \in G[k - 1]
  BY <1>3, <1>4, <1>6 DEF Iterates
<1>8. g = [k \in 0 .. N |-> g[k]]
  BY <1>4 DEF Iterates
<1> QED BY <1>7, <1>8 DEF Staged

\* The sorts of registry.js and rpc.js (by close time, by DAA score) and the day
\* lists of the legacy draw.js name each number of the set once.
LEMMA AscendingLists ==
  ASSUME NEW S \in SUBSET Nat, IsFiniteSet(S)
  PROVE  /\ Cardinality(S) \in Nat
         /\ Ascending(S) \in [1 .. Cardinality(S) -> S]
         /\ \A i, j \in 1 .. Cardinality(S) :
               Ascending(S)[i] = Ascending(S)[j] => i = j
<1> DEFINE below(x) == {y \in S : y < x}
           top == Cardinality(S)
           rank == [x \in S |-> Cardinality(below(x))]
<1>1. top \in Nat
  BY FS_CardinalityType
<1>2. ASSUME NEW x \in S
      PROVE  IsFiniteSet(below(x)) /\ Cardinality(below(x)) \in 0 .. top - 1
  <2>1. IsFiniteSet(below(x)) /\ Cardinality(below(x)) <= top
    BY FS_Subset
  <2>2. below(x) # S
    OBVIOUS
  <2>3. Cardinality(below(x)) # top
    BY <2>2, FS_Subset
  <2>4. Cardinality(below(x)) \in Nat
    BY <2>1, FS_CardinalityType
  <2> HIDE DEF below, top
  <2> QED BY <1>1, <2>1, <2>3, <2>4
<1>3. ASSUME NEW x \in S, NEW y \in S, x < y
      PROVE  Cardinality(below(x)) # Cardinality(below(y))
  <2>1. below(x) \in SUBSET below(y) /\ x \in below(y) /\ x \notin below(x)
    <3>1. x \in Nat /\ y \in Nat /\ ~ (x < x)
      OBVIOUS
    <3>2. \A z \in S : z < x => z < y
      BY <1>3
    <3> QED BY <1>3, <3>1, <3>2
  <2> HIDE DEF below
  <2> QED BY <1>2, <2>1, FS_Subset
<1>4. rank \in Injection(S, 0 .. top - 1)
  <2>1. rank \in [S -> 0 .. top - 1]
    <3> HIDE DEF below, top
    <3> QED BY <1>2
  <2>2. ASSUME NEW x \in S, NEW y \in S, rank[x] = rank[y] PROVE x = y
    <3>1. ~ (x < y) /\ ~ (y < x)
      <4> HIDE DEF below
      <4> QED BY <1>3, <2>2
    <3> QED BY <3>1
  <2> HIDE DEF rank, top
  <2> QED BY <2>1, <2>2 DEF Injection, IsInjective
<1>5. rank \in Surjection(S, 0 .. top - 1)
  <2>1. IsFiniteSet(0 .. top - 1) /\ Cardinality(0 .. top - 1) = top
    <3> HIDE DEF top
    <3> QED BY <1>1, FS_Interval
  <2> HIDE DEF rank
  <2> QED BY <1>4, <2>1, FS_Injection
<1>6. ASSUME NEW i \in 1 .. top
      PROVE  Ascending(S)[i] \in S /\ rank[Ascending(S)[i]] = i - 1
  <2>1. i - 1 \in 0 .. top - 1
    <3> HIDE DEF top
    <3> QED BY <1>1
  <2>2. \E x \in S : rank[x] = i - 1
    <3> HIDE DEF rank, top
    <3> QED BY <1>5, <2>1 DEF Surjection
  <2>3. \E x \in S : Cardinality(below(x)) = i - 1
    BY <2>2
  <2>4. Ascending(S)[i] = CHOOSE x \in S : Cardinality(below(x)) = i - 1
    BY DEF Ascending
  <2> HIDE DEF below
  <2> QED BY <2>3, <2>4
<1>7. Ascending(S) \in [1 .. top -> S]
  <2> DEFINE at(i) == CHOOSE x \in S : Cardinality({y \in S : y < x}) = i - 1
  <2>1. Ascending(S) = [i \in 1 .. top |-> at(i)]
    BY Zenon DEF Ascending
  <2> HIDE DEF top, at
  <2>2. \A i \in 1 .. top : Ascending(S)[i] = at(i)
    BY <2>1, Zenon
  <2>3. \A i \in 1 .. top : at(i) \in S
    BY <1>6, <2>2
  <2> QED BY <2>1, <2>3
<1>8. ASSUME NEW i \in 1 .. top, NEW j \in 1 .. top, Ascending(S)[i] = Ascending(S)[j]
      PROVE  i = j
  <2>1. i - 1 = j - 1
    <3> HIDE DEF rank
    <3> QED BY <1>6, <1>8
  <2> HIDE DEF top
  <2> QED BY <1>1, <2>1
<1> QED BY <1>1, <1>7, <1>8

\* A property of finite sets, given as the set of the subsets of S that have it, that
\* holds of the empty set and survives one more element holds of S.
LEMMA SetInduction ==
  ASSUME NEW S, IsFiniteSet(S), NEW P \in SUBSET (SUBSET S), {} \in P,
         \A R \in P : \A x \in S \ R : R \cup {x} \in P
  PROVE  S \in P
<1> DEFINE Good == {n \in Nat : \A R \in SUBSET S : Cardinality(R) = n => R \in P}
<1>1. \A R \in SUBSET S : IsFiniteSet(R) /\ Cardinality(R) \in Nat
  BY FS_Subset, FS_CardinalityType
<1>2. 0 \in Good
  BY <1>1, FS_EmptySet
<1>3. ASSUME NEW n \in Good PROVE n + 1 \in Good
  <2> SUFFICES ASSUME NEW R \in SUBSET S, Cardinality(R) = n + 1 PROVE R \in P
    OBVIOUS
  <2>1. R # {}
    <3>1. CASE R = {}
      <4>1. Cardinality(R) = 0
        BY <3>1, FS_EmptySet
      <4> QED BY <4>1
    <3> QED BY <3>1
  <2>2. PICK x \in R : TRUE
    BY <2>1
  <2>3. Cardinality(R \ {x}) = Cardinality(R) - 1
    BY <1>1, <2>2, FS_RemoveElement
  <2>4. Cardinality(R \ {x}) = n
    BY <2>3
  <2>5. R \ {x} \in P
    BY <2>4
  <2>6. (R \ {x}) \cup {x} = R /\ x \in S \ (R \ {x})
    BY <2>2
  <2> QED BY <2>5, <2>6
<1>4. Good = Nat
  <2> HIDE DEF Good
  <2>1. Good \in SUBSET Nat
    BY DEF Good
  <2> QED BY <1>2, <1>3, <2>1, NatSetInduction
<1>5. Cardinality(S) \in Good
  BY <1>1, <1>4
<1> QED BY <1>5

-----------------------------------------------------------------------------
(* Sums over finite sets: MapThenSumSet of the community modules, written for the *)
(* weights w of the elements.                                                     *)
Chosen(s) == CHOOSE x \in s : TRUE
Adding(g, w, S) == [s \in SUBSET S |-> IF s = {} THEN 0 ELSE w[Chosen(s)] + g[s \ {Chosen(s)}]]
IsSum(g, w, S) == g = Adding(g, w, S)
SumOver(w, S) == (CHOOSE g : IsSum(g, w, S))[S]

\* The recursion that sums has a solution: n rounds of it are right on the sets of up
\* to n elements.
LEMMA SumExists ==
  ASSUME NEW S, IsFiniteSet(S), NEW w, \A x \in S : w[x] \in Int
  PROVE  \E g : IsSum(g, w, S) /\ g \in [SUBSET S -> Int]
<1> DEFINE Right(g, n) == \A s \in SUBSET S : Cardinality(s) <= n => g[s] = Adding(g, w, S)[s]
           Good == {n \in Nat : \E g \in [SUBSET S -> Int] : Right(g, n)}
<1>1. \A s \in SUBSET S : Cardinality(s) \in Nat /\ Cardinality(s) <= Cardinality(S) /\ (Cardinality(s) = 0 => s = {})
  BY FS_Subset, FS_CardinalityType, FS_EmptySet
<1>2. ASSUME NEW s \in SUBSET S, s # {}
      PROVE  /\ Chosen(s) \in s /\ s \ {Chosen(s)} \in SUBSET S
             /\ Cardinality(s \ {Chosen(s)}) = Cardinality(s) - 1
  <2>1. Chosen(s) \in s
    BY <1>2 DEF Chosen
  <2>2. IsFiniteSet(s)
    BY FS_Subset
  <2> QED BY <2>1, <2>2, FS_RemoveElement
<1>3. ASSUME NEW g \in [SUBSET S -> Int] PROVE Adding(g, w, S) \in [SUBSET S -> Int]
  <2> SUFFICES ASSUME NEW s \in SUBSET S, s # {} PROVE w[Chosen(s)] + g[s \ {Chosen(s)}] \in Int
    BY DEF Adding
  <2>1. w[Chosen(s)] \in Int /\ g[s \ {Chosen(s)}] \in Int
    BY <1>2
  <2> QED BY <2>1
<1>4. 0 \in Good
  <2> DEFINE g == [s \in SUBSET S |-> 0]
  <2>1. Right(g, 0)
    BY <1>1 DEF Adding
  <2>2. g \in [SUBSET S -> Int]
    OBVIOUS
  <2> QED BY <2>1, <2>2
<1>5. ASSUME NEW n \in Good PROVE n + 1 \in Good
  <2>1. PICK g \in [SUBSET S -> Int] : Right(g, n)
    OBVIOUS
  <2> DEFINE h == Adding(g, w, S)
  <2>2. ASSUME NEW s \in SUBSET S, Cardinality(s) <= n + 1 PROVE h[s] = Adding(h, w, S)[s]
    <3>1. CASE s = {}
      BY <3>1 DEF Adding
    <3>2. CASE s # {}
      <4> DEFINE t == s \ {Chosen(s)}
      <4>1. t \in SUBSET S /\ Cardinality(t) <= n
        BY <1>1, <1>2, <2>2, <3>2
      <4>2. g[t] = h[t]
        BY <2>1, <4>1
      <4>3. h[s] = w[Chosen(s)] + g[t]
        BY <3>2 DEF Adding
      <4>4. Adding(h, w, S)[s] = w[Chosen(s)] + h[t]
        <5> HIDE DEF h
        <5> QED BY <3>2 DEF Adding
      <4> HIDE DEF h, t
      <4> QED BY <4>2, <4>3, <4>4
    <3> QED BY <3>1, <3>2
  <2>3. h \in [SUBSET S -> Int]
    BY <1>3
  <2> HIDE DEF h
  <2>4. Right(h, n + 1)
    BY <2>2
  <2> HIDE DEF Right
  <2>5. \E f \in [SUBSET S -> Int] : Right(f, n + 1)
    BY <2>3, <2>4
  <2>6. n + 1 \in Nat
    OBVIOUS
  <2> QED BY <2>5, <2>6
<1>6. Good = Nat
  <2> HIDE DEF Good
  <2>1. Good \in SUBSET Nat
    BY DEF Good
  <2> QED BY <1>4, <1>5, <2>1, NatSetInduction
<1>7. PICK g \in [SUBSET S -> Int] : Right(g, Cardinality(S))
  BY <1>6, FS_CardinalityType
<1>8. \A s \in SUBSET S : g[s] = Adding(g, w, S)[s]
  BY <1>1, <1>7
<1>9. g = Adding(g, w, S)
  <2> DEFINE h == Adding(g, w, S)
  <2>1. h \in [SUBSET S -> Int] /\ \A s \in SUBSET S : g[s] = h[s]
    BY <1>3, <1>8
  <2> HIDE DEF h
  <2>2. g = h
    BY <2>1
  <2> QED BY <2>2 DEF h
<1> QED BY <1>9 DEF IsSum

\* Whatever set a sum is computed in, it is the same.
LEMMA SumUnique ==
  ASSUME NEW g, NEW w, NEW S, IsSum(g, w, S), NEW h, NEW v, NEW T, IsSum(h, v, T),
         NEW R, R \subseteq S, R \subseteq T, IsFiniteSet(R), \A x \in R : w[x] = v[x]
  PROVE  g[R] = h[R]
<1> DEFINE Good == {n \in Nat : \A s \in SUBSET R : Cardinality(s) = n => g[s] = h[s]}
<1>1. \A s \in SUBSET R : IsFiniteSet(s) /\ Cardinality(s) \in Nat
  BY FS_Subset, FS_CardinalityType
<1>2. ASSUME NEW s \in SUBSET R
      PROVE  /\ g[s] = IF s = {} THEN 0 ELSE w[Chosen(s)] + g[s \ {Chosen(s)}]
             /\ h[s] = IF s = {} THEN 0 ELSE v[Chosen(s)] + h[s \ {Chosen(s)}]
  <2>1. s \in SUBSET S /\ s \in SUBSET T
    OBVIOUS
  <2>2. g[s] = Adding(g, w, S)[s] /\ h[s] = Adding(h, v, T)[s]
    BY DEF IsSum
  <2> QED BY <2>1, <2>2 DEF Adding
<1>3. 0 \in Good
  BY <1>1, <1>2, FS_EmptySet
<1>4. ASSUME NEW n \in Good PROVE n + 1 \in Good
  <2> SUFFICES ASSUME NEW s \in SUBSET R, Cardinality(s) = n + 1 PROVE g[s] = h[s]
    OBVIOUS
  <2>1. CASE s = {}
    BY <1>2, <2>1
  <2>2. CASE s # {}
    <3>1. Chosen(s) \in s
      BY <2>2 DEF Chosen
    <3>2. Cardinality(s \ {Chosen(s)}) = Cardinality(s) - 1
      BY <1>1, <3>1, FS_RemoveElement
    <3>3. Cardinality(s \ {Chosen(s)}) = n
      BY <3>2
    <3>4. g[s \ {Chosen(s)}] = h[s \ {Chosen(s)}]
      BY <3>3
    <3> QED BY <1>2, <2>2, <3>1, <3>4
  <2> QED BY <2>1, <2>2
<1>5. Good = Nat
  <2> HIDE DEF Good
  <2>1. Good \in SUBSET Nat
    BY DEF Good
  <2> QED BY <1>3, <1>4, <2>1, NatSetInduction
<1>6. Cardinality(R) \in Good
  BY <1>1, <1>5
<1> QED BY <1>6

\* A sum computed in a larger set, and the recursion seen from any set.
LEMMA SumUnfold ==
  ASSUME NEW S, IsFiniteSet(S), NEW w, \A x \in S : w[x] \in Int
  PROVE  /\ \A g : IsSum(g, w, S) => \A R \in SUBSET S : g[R] = SumOver(w, R)
         /\ \A R \in SUBSET S : SumOver(w, R) \in Int
         /\ \A R \in SUBSET S :
               SumOver(w, R) = IF R = {} THEN 0 ELSE w[Chosen(R)] + SumOver(w, R \ {Chosen(R)})
<1>1. ASSUME NEW g, IsSum(g, w, S), NEW R \in SUBSET S PROVE g[R] = SumOver(w, R)
  <2> DEFINE f == CHOOSE h : IsSum(h, w, R)
  <2>1. IsFiniteSet(R) /\ \A x \in R : w[x] \in Int
    BY FS_Subset
  <2>2. \E h : IsSum(h, w, R)
    BY <2>1, SumExists
  <2>3. IsSum(f, w, R)
    BY <2>2
  <2> HIDE DEF f
  <2>4. g[R] = f[R]
    BY <1>1, <2>1, <2>3, SumUnique
  <2> QED BY <2>4 DEF f, SumOver
<1>2. PICK g : IsSum(g, w, S) /\ g \in [SUBSET S -> Int]
  BY SumExists
<1>3. \A R \in SUBSET S : g[R] = SumOver(w, R) /\ g[R] \in Int
  BY <1>1, <1>2
<1>4. ASSUME NEW R \in SUBSET S
      PROVE  g[R] = IF R = {} THEN 0 ELSE w[Chosen(R)] + g[R \ {Chosen(R)}]
  <2>1. g[R] = Adding(g, w, S)[R]
    BY <1>2 DEF IsSum
  <2> QED BY <2>1 DEF Adding
<1>5. ASSUME NEW R \in SUBSET S
      PROVE  SumOver(w, R) = IF R = {} THEN 0 ELSE w[Chosen(R)] + SumOver(w, R \ {Chosen(R)})
  <2>1. R \ {Chosen(R)} \in SUBSET S
    OBVIOUS
  <2> QED BY <1>3, <1>4, <2>1
<1> QED BY <1>1, <1>3, <1>5

\* One element more adds its weight, whichever element the recursion takes first.
LEMMA SumAdd ==
  ASSUME NEW S, IsFiniteSet(S), NEW w, \A x \in S : w[x] \in Int,
         NEW R \in SUBSET S, NEW a \in S \ R
  PROVE  SumOver(w, R \cup {a}) = w[a] + SumOver(w, R)
<1> DEFINE Good == {n \in Nat : \A s \in SUBSET S : \A x \in S \ s :
                       Cardinality(s) = n => SumOver(w, s \cup {x}) = w[x] + SumOver(w, s)}
<1>1. \A s \in SUBSET S : IsFiniteSet(s) /\ Cardinality(s) \in Nat
  BY FS_Subset, FS_CardinalityType
<1>2. /\ \A s \in SUBSET S : SumOver(w, s) \in Int
      /\ \A s \in SUBSET S : SumOver(w, s) = IF s = {} THEN 0 ELSE w[Chosen(s)] + SumOver(w, s \ {Chosen(s)})
  BY SumUnfold
<1>3. ASSUME NEW s \in SUBSET S, NEW x \in S \ s
      PROVE  LET t == s \cup {x}
                 y == Chosen(t)
             IN  /\ y \in t /\ SumOver(w, t) = w[y] + SumOver(w, t \ {y})
                 /\ y = x => t \ {y} = s
                 /\ y # x => y \in s /\ t \ {y} = (s \ {y}) \cup {x} /\ x \in S \ (s \ {y}) /\ s \ {y} \in SUBSET S
                             /\ (s \ {y}) \cup {y} = s /\ y \in S \ (s \ {y})
  <2> DEFINE t == s \cup {x}
  <2>1. t # {} /\ t \in SUBSET S
    OBVIOUS
  <2>2. Chosen(t) \in t
    BY <2>1 DEF Chosen
  <2>3. SumOver(w, t) = w[Chosen(t)] + SumOver(w, t \ {Chosen(t)})
    BY <1>2, <2>1
  <2> QED BY <2>2, <2>3
<1>4. 0 \in Good
  <2> SUFFICES ASSUME NEW s \in SUBSET S, NEW x \in S \ s, Cardinality(s) = 0
               PROVE  SumOver(w, s \cup {x}) = w[x] + SumOver(w, s)
    OBVIOUS
  <2>1. s = {}
    BY <1>1, FS_EmptySet
  <2> DEFINE t == s \cup {x}
  <2>2. t = {x}
    BY <2>1
  <2>3. Chosen(t) \in t /\ SumOver(w, t) = w[Chosen(t)] + SumOver(w, t \ {Chosen(t)})
    BY <1>3
  <2>4. Chosen(t) = x /\ t \ {x} = s
    BY <2>1, <2>2, <2>3
  <2> HIDE DEF t
  <2>5. SumOver(w, t) = w[x] + SumOver(w, s)
    BY <2>3, <2>4
  <2> QED BY <2>5 DEF t
<1>5. ASSUME NEW n \in Good PROVE n + 1 \in Good
  <2> SUFFICES ASSUME NEW s \in SUBSET S, NEW x \in S \ s, Cardinality(s) = n + 1
               PROVE  SumOver(w, s \cup {x}) = w[x] + SumOver(w, s)
    OBVIOUS
  <2> DEFINE t == s \cup {x}
             y == Chosen(t)
             r == s \ {y}
  <2>1. y \in t /\ SumOver(w, t) = w[y] + SumOver(w, t \ {y})
    BY <1>3
  <2>2. CASE y = x
    BY <1>3, <2>1, <2>2
  <2>3. CASE y # x
    <3>1. /\ y \in s /\ t \ {y} = r \cup {x} /\ x \in S \ r /\ r \in SUBSET S
          /\ r \cup {y} = s /\ y \in S \ r
      BY <1>3, <2>3
    <3> HIDE DEF y, t
    <3>2. Cardinality(r) = Cardinality(s) - 1
      BY <1>1, <3>1, FS_RemoveElement
    <3>3. Cardinality(r) = n
      BY <3>2
    <3> HIDE DEF r
    <3>4. SumOver(w, r \cup {x}) = w[x] + SumOver(w, r) /\ SumOver(w, r \cup {y}) = w[y] + SumOver(w, r)
      BY <3>1, <3>3
    <3>5. w[x] \in Int /\ w[y] \in Int /\ SumOver(w, r) \in Int
      BY <1>2, <3>1
    <3>6. SumOver(w, t) = w[y] + (w[x] + SumOver(w, r)) /\ SumOver(w, s) = w[y] + SumOver(w, r)
      BY <2>1, <3>1, <3>4
    <3>7. SumOver(w, t) = w[x] + SumOver(w, s)
      BY <3>5, <3>6
    <3> QED BY <3>7 DEF t
  <2> QED BY <2>2, <2>3
<1>6. Good = Nat
  <2> HIDE DEF Good
  <2>1. Good \in SUBSET Nat
    BY DEF Good
  <2> QED BY <1>4, <1>5, <2>1, NatSetInduction
<1>7. Cardinality(R) \in Good
  BY <1>1, <1>6
<1> QED BY <1>7

\* The sum over two disjoint sets is the sum of their sums.
LEMMA SumSplit ==
  ASSUME NEW S, IsFiniteSet(S), NEW w, \A x \in S : w[x] \in Int,
         NEW A \in SUBSET S, NEW B \in SUBSET S, A \cap B = {}
  PROVE  SumOver(w, A \cup B) = SumOver(w, A) + SumOver(w, B)
<1> DEFINE P == {R \in SUBSET B : SumOver(w, A \cup R) = SumOver(w, A) + SumOver(w, R)}
<1>1. /\ \A s \in SUBSET S : SumOver(w, s) \in Int
      /\ SumOver(w, {}) = 0
  BY SumUnfold
<1>2. {} \in P
  <2>1. A \cup {} = A /\ SumOver(w, A) \in Int
    BY <1>1
  <2> QED BY <1>1, <2>1
<1>3. ASSUME NEW R \in P, NEW x \in B \ R PROVE R \cup {x} \in P
  <2>1. A \cup R \in SUBSET S /\ x \in S \ (A \cup R) /\ R \in SUBSET S /\ x \in S \ R
    OBVIOUS
  <2>2. SumOver(w, (A \cup R) \cup {x}) = w[x] + SumOver(w, A \cup R) /\ SumOver(w, R \cup {x}) = w[x] + SumOver(w, R)
    BY <2>1, SumAdd
  <2>3. (A \cup R) \cup {x} = A \cup (R \cup {x})
    OBVIOUS
  <2>4. w[x] \in Int /\ SumOver(w, A) \in Int /\ SumOver(w, R) \in Int
    BY <1>1, <2>1
  <2>5. SumOver(w, A \cup R) = SumOver(w, A) + SumOver(w, R) /\ R \cup {x} \in SUBSET B
    OBVIOUS
  <2>6. \A p, q, r \in Int : p + (q + r) = q + (p + r)
    OBVIOUS
  <2>7. w[x] + (SumOver(w, A) + SumOver(w, R)) = SumOver(w, A) + (w[x] + SumOver(w, R))
    BY <2>4, <2>6, Zenon
  <2>8. SumOver(w, A \cup (R \cup {x})) = SumOver(w, A) + SumOver(w, R \cup {x})
    BY <2>2, <2>3, <2>5, <2>7
  <2> QED BY <2>5, <2>8
<1>4. IsFiniteSet(B) /\ P \in SUBSET (SUBSET B)
  BY FS_Subset
<1>5. B \in P
  <2> HIDE DEF P
  <2> QED BY <1>2, <1>3, <1>4, SetInduction
<1> QED BY <1>5

\* A sum of natural numbers is one.
LEMMA SumOfNaturals ==
  ASSUME NEW S, IsFiniteSet(S), NEW w, \A x \in S : w[x] \in Nat
  PROVE  SumOver(w, S) \in Nat
<1> DEFINE P == {R \in SUBSET S : SumOver(w, R) \in Nat}
<1>0. \A x \in S : w[x] \in Int
  OBVIOUS
<1>1. {} \in P
  <2>1. SumOver(w, {}) = 0
    BY <1>0, SumUnfold
  <2> QED BY <2>1
<1>2. ASSUME NEW R \in P, NEW x \in S \ R PROVE R \cup {x} \in P
  <2>1. SumOver(w, R \cup {x}) = w[x] + SumOver(w, R)
    BY <1>0, SumAdd
  <2> QED BY <2>1
<1>3. S \in P
  <2>1. P \in SUBSET (SUBSET S)
    OBVIOUS
  <2> HIDE DEF P
  <2> QED BY <1>1, <1>2, <2>1, SetInduction
<1> QED BY <1>3

\* A sum depends on the weights in its set only.
LEMMA SumAgrees ==
  ASSUME NEW S, IsFiniteSet(S), NEW w, NEW v, \A x \in S : w[x] \in Int /\ w[x] = v[x]
  PROVE  SumOver(w, S) = SumOver(v, S)
<1>1. (\A x \in S : w[x] \in Int) /\ (\A x \in S : v[x] \in Int)
  OBVIOUS
<1>2. PICK g : IsSum(g, w, S)
  BY <1>1, SumExists
<1>3. PICK h : IsSum(h, v, S)
  BY <1>1, SumExists
<1>4. g[S] = h[S]
  BY <1>2, <1>3, SumUnique
<1>5. g[S] = SumOver(w, S) /\ h[S] = SumOver(v, S)
  BY <1>1, <1>2, <1>3, SumUnfold
<1> QED BY <1>4, <1>5
=============================================================================
