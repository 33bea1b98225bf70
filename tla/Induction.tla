----------------------------- MODULE Induction ------------------------------
(***************************************************************************)
(* Induction, in the form the provers can use: over sets instead of        *)
(* operators.  A set of naturals that holds 0 and is closed under +1 holds *)
(* all of them; whoever wants to prove P(n) takes {n \in Nat : P(n)}.      *)
(* What the recursive functions of the model compute for every input, the  *)
(* enumeration of a set of indices in increasing order and the sum of a    *)
(* function over a set rest on it.                                         *)
(***************************************************************************)
EXTENDS Integers, Sequences, Functions, WellFoundedInduction, FiniteSetTheorems,
        SequenceTheorems, TLAPS

(* Every set of naturals that is not empty has a least element.            *)
LEMMA LeastNatural ==
  ASSUME NEW T, T \subseteq Nat, T # {}
  PROVE  \E x \in T : \A y \in T : x <= y
<1> DEFINE R == OpToRel(<, Nat)
<1>1. IsWellFoundedOn(R, Nat)
  BY NatLessThanWellFounded
<1>2. PICK x \in T : \A y \in T : ~ (<<y, x>> \in R)
  <2> HIDE DEF R
  <2> QED
    BY <1>1, WFMin
<1>3. ASSUME NEW y \in T PROVE x <= y
  <2>1. x \in Nat /\ y \in Nat
    OBVIOUS
  <2>2. ~ (y < x)
    BY <2>1, <1>2 DEF OpToRel
  <2> QED
    BY <2>1, <2>2
<1> QED
  BY <1>3

(* Induction over the naturals.                                            *)
LEMMA SetInduction ==
  ASSUME NEW Q, 0 \in Q, \A n \in Nat : n \in Q => n + 1 \in Q
  PROVE  Nat \subseteq Q
<1> SUFFICES ASSUME Nat \ Q # {} PROVE FALSE
  OBVIOUS
<1>1. PICK x \in Nat \ Q : \A y \in Nat \ Q : x <= y
  BY LeastNatural
<1>2. x - 1 \in Nat /\ x - 1 \in Q
  BY <1>1
<1> QED
  BY <1>1, <1>2

(* Induction up to a bound.                                                *)
LEMMA IntervalInduction ==
  ASSUME NEW N \in Nat, NEW Q, 0 \in Q, \A n \in 0..(N - 1) : n \in Q => n + 1 \in Q
  PROVE  0..N \subseteq Q
<1> DEFINE T == {n \in Nat : n <= N => n \in Q}
<1>1. 0 \in T
  OBVIOUS
<1>2. \A n \in Nat : n \in T => n + 1 \in T
  OBVIOUS
<1>3. Nat \subseteq T
  <2> HIDE DEF T
  <2> QED
    BY <1>1, <1>2, SetInduction
<1> QED
  BY <1>3

(* A finite set of naturals that is not empty has a greatest element.      *)
LEMMA GreatestNatural ==
  ASSUME NEW N \in Nat, NEW T, T \subseteq 0..N, T # {}
  PROVE  \E x \in T : \A y \in T : y <= x
<1> DEFINE U == {n \in 0..N : N - n \in T}
<1>1. PICK x \in T : TRUE
  OBVIOUS
<1>2. N - x \in U /\ U \subseteq Nat
  BY <1>1
<1>3. PICK n \in U : \A m \in U : n <= m
  BY <1>2, LeastNatural
<1>4. N - n \in T
  OBVIOUS
<1>5. ASSUME NEW y \in T PROVE y <= N - n
  <2>1. N - y \in U /\ y \in 0..N
    OBVIOUS
  <2>2. n <= N - y /\ n \in 0..N
    BY <1>3, <2>1
  <2> QED
    BY <2>1, <2>2
<1> QED
  BY <1>4, <1>5

(* Induction over the subsets of a finite set, one element at a time.      *)
LEMMA SubsetInduction ==
  ASSUME NEW S, IsFiniteSet(S), NEW Q, {} \in Q,
         \A T \in SUBSET S : \A x \in S \ T : T \in Q => T \cup {x} \in Q
  PROVE  SUBSET S \subseteq Q
<1> DEFINE B == {n \in Nat : \A T \in SUBSET S : Cardinality(T) = n => T \in Q}
<1>1. 0 \in B
  <2>1. \A T \in SUBSET S : IsFiniteSet(T)
    BY FS_Subset
  <2> QED
    BY <2>1, FS_EmptySet
<1>2. ASSUME NEW n \in Nat, n \in B PROVE n + 1 \in B
  <2> SUFFICES ASSUME NEW T \in SUBSET S, Cardinality(T) = n + 1 PROVE T \in Q
    OBVIOUS
  <2>1. IsFiniteSet(T)
    BY FS_Subset
  <2>2. PICK x \in T : TRUE
    BY <2>1, FS_EmptySet
  <2>3. Cardinality(T \ {x}) = Cardinality(T) - 1
    BY <2>1, <2>2, FS_RemoveElement
  <2>4. T \ {x} \in Q /\ T \ {x} \in SUBSET S /\ x \in S \ (T \ {x})
    <3>1. Cardinality(T \ {x}) = n
      BY <2>3
    <3> QED
      BY <1>2, <2>2, <3>1
  <2>5. (T \ {x}) \cup {x} = T
    BY <2>2
  <2> QED
    BY <2>4, <2>5
<1>3. Nat \subseteq B
  <2> HIDE DEF B
  <2> QED
    BY <1>1, <1>2, SetInduction
<1> SUFFICES ASSUME NEW T \in SUBSET S PROVE T \in Q
  OBVIOUS
<1>4. Cardinality(T) \in Nat
  BY FS_Subset, FS_CardinalityType
<1> QED
  BY <1>3, <1>4
-----------------------------------------------------------------------------
\* How many elements of S come up to i.
Rank(S, i) == Cardinality({j \in S : j <= i})

\* f enumerates S in increasing order.
Increasing(f, S) ==
  /\ f \in [1..Cardinality(S) -> S]
  /\ \A m, n \in 1..Cardinality(S) : m < n => f[m] < f[n]

(* Ranks tell the elements apart, in their order.                          *)
LEMMA RankOrder ==
  ASSUME NEW S \in SUBSET Nat, IsFiniteSet(S)
  PROVE  /\ \A i \in S : Rank(S, i) \in 1..Cardinality(S)
         /\ \A i, j \in S : i < j <=> Rank(S, i) < Rank(S, j)
<1> DEFINE upto(i) == {j \in S : j <= i}
<1>1. \A i : IsFiniteSet(upto(i)) /\ Cardinality(upto(i)) \in Nat /\ Cardinality(upto(i)) <= Cardinality(S)
  <2>1. \A i : upto(i) \in SUBSET S
    OBVIOUS
  <2> HIDE DEF upto
  <2> QED
    BY <2>1, FS_Subset, FS_CardinalityType
<1>2. ASSUME NEW i \in S PROVE Cardinality(upto(i)) # 0
  <2>1. i \in upto(i)
    OBVIOUS
  <2> HIDE DEF upto
  <2> QED
    BY <1>1, <2>1, FS_EmptySet
<1>3. ASSUME NEW i \in S, NEW j \in S, i < j PROVE Cardinality(upto(i)) < Cardinality(upto(j))
  <2>1. i \in Nat /\ j \in Nat /\ \A k \in S : k \in Nat
    OBVIOUS
  <2>2. \A k \in S : k <= i => k <= j
    BY <1>3, <2>1
  <2>3. upto(i) \in SUBSET upto(j) /\ j \in upto(j) /\ j \notin upto(i)
    <3>1. j <= j /\ ~ (j <= i)
      BY <1>3, <2>1
    <3> QED
      BY <2>2, <3>1
  <2>4. upto(i) # upto(j)
    BY <2>3
  <2> HIDE DEF upto
  <2> QED
    BY <1>1, <2>3, <2>4, FS_Subset
<1>4. \A i : Rank(S, i) = Cardinality(upto(i))
  BY DEF Rank
<1>5. Cardinality(S) \in Nat
  BY FS_CardinalityType
<1> HIDE DEF upto
<1>6. \A i \in S : Rank(S, i) \in 1..Cardinality(S)
  BY <1>1, <1>2, <1>4, <1>5
<1>7. ASSUME NEW i \in S, NEW j \in S PROVE i < j <=> Rank(S, i) < Rank(S, j)
  <2>1. i < j => Rank(S, i) < Rank(S, j)
    BY <1>3, <1>4
  <2>2. j < i => Rank(S, j) < Rank(S, i)
    BY <1>3, <1>4
  <2>3. Rank(S, i) \in Int /\ Rank(S, j) \in Int /\ i \in Int /\ j \in Int
    BY <1>6
  <2> QED
    BY <2>1, <2>2, <2>3
<1> QED
  BY <1>6, <1>7

(* Elements of the same rank are the same.                                 *)
LEMMA RankApart ==
  ASSUME NEW S \in SUBSET Nat, IsFiniteSet(S), NEW i \in S, NEW j \in S, Rank(S, i) = Rank(S, j)
  PROVE  i = j
<1>1. Rank(S, i) \in Nat /\ i \in Nat /\ j \in Nat
  <2>1. Rank(S, i) \in 1..Cardinality(S) /\ Cardinality(S) \in Nat
    BY RankOrder, FS_CardinalityType
  <2> QED
    BY <2>1
<1>2. ~ (Rank(S, i) < Rank(S, j)) /\ ~ (Rank(S, j) < Rank(S, i))
  BY <1>1
<1>3. ~ (i < j) /\ ~ (j < i)
  BY <1>2, RankOrder
<1> QED
  BY <1>1, <1>3

(* Some element of S has each rank.                                        *)
LEMMA RankOnto ==
  ASSUME NEW S \in SUBSET Nat, IsFiniteSet(S), NEW n \in 1..Cardinality(S)
  PROVE  \E i \in S : Rank(S, i) = n
<1> DEFINE N == 1..Cardinality(S)
           r == [i \in S |-> Rank(S, i)]
<1>1. IsFiniteSet(N) /\ Cardinality(N) = Cardinality(S)
  <2>1. Cardinality(S) \in Nat
    BY FS_CardinalityType
  <2> QED
    BY <2>1, FS_Interval
<1>3. r \in Injection(S, N)
  <2>1. r \in [S -> N]
    BY RankOrder
  <2>2. \A i, j \in S : r[i] = r[j] => i = j
    BY RankApart
  <2> QED
    BY <2>1, <2>2 DEF Injection, IsInjective
<1>4. r \in Surjection(S, N)
  <2> HIDE DEF N, r
  <2> QED
    BY <1>1, <1>3, FS_Injection
<1>5. \E i \in S : r[i] = n
  BY <1>4 DEF Surjection
<1> QED
  BY <1>5

(* An increasing enumeration puts the element of rank n at its nth place.  *)
LEMMA IncreasingRanks ==
  ASSUME NEW S \in SUBSET Nat, IsFiniteSet(S), NEW f, Increasing(f, S)
  PROVE  \A n \in 1..Cardinality(S) : Rank(S, f[n]) = n
<1> DEFINE N == 1..Cardinality(S)
<1>1. IsFiniteSet(N) /\ Cardinality(N) = Cardinality(S) /\ Cardinality(S) \in Nat
  <2>1. Cardinality(S) \in Nat
    BY FS_CardinalityType
  <2> QED
    BY <2>1, FS_Interval
<1>2. f \in [N -> S] /\ \A m, n \in N : m < n => f[m] < f[n]
  BY DEF Increasing
<1>3. ASSUME NEW m \in N, NEW n \in N, f[m] = f[n] PROVE m = n
  <2>1. f[m] \in Nat /\ f[n] \in Nat
    BY <1>2
  <2>2. ~ (m < n) /\ ~ (n < m)
    BY <1>2, <1>3, <2>1
  <2> QED
    BY <2>2
<1>4. f \in Injection(N, S)
  BY <1>2, <1>3 DEF Injection, IsInjective
<1>5. f \in Surjection(N, S)
  <2> HIDE DEF N
  <2> QED
    BY <1>1, <1>4, FS_Injection
<1> SUFFICES ASSUME NEW n \in N PROVE Rank(S, f[n]) = n
  OBVIOUS
<1> DEFINE low == {j \in S : j <= f[n]}
           g   == [m \in 1..n |-> f[m]]
<1>6. ASSUME NEW m \in N PROVE f[m] <= f[n] <=> m <= n
  <2>1. f[m] \in Nat /\ f[n] \in Nat
    BY <1>2
  <2>2. m < n => f[m] < f[n]
    BY <1>2
  <2>3. n < m => f[n] < f[m]
    BY <1>2
  <2> QED
    BY <2>1, <2>2, <2>3
<1>7. g \in Injection(1..n, low)
  <2>1. ASSUME NEW m \in 1..n PROVE m \in N /\ f[m] \in low
    <3>1. Cardinality(S) \in Nat /\ n \in 1..Cardinality(S)
      BY <1>1
    <3>2. m \in N /\ m <= n
      BY <3>1
    <3> QED
      BY <1>2, <1>6, <3>2
  <2> QED
    BY <2>1, <1>3 DEF Injection, IsInjective
<1>8. g \in Surjection(1..n, low)
  <2> SUFFICES ASSUME NEW j \in low PROVE \E m \in 1..n : g[m] = j
    BY <1>7 DEF Injection, Surjection
  <2>1. PICK m \in N : f[m] = j
    BY <1>5 DEF Surjection
  <2> QED
    BY <2>1, <1>6
<1>9. IsFiniteSet(1..n) /\ Cardinality(1..n) = n
  BY FS_Interval
<1>10. ExistsBijection(1..n, low)
  BY <1>7, <1>8 DEF Bijection, ExistsBijection
<1> HIDE DEF low, g, N
<1>11. Cardinality(low) = n
  BY <1>9, <1>10, FS_Bijection
<1> QED
  BY <1>11 DEF Rank, low

(* There is one increasing enumeration.                                    *)
LEMMA OneEnumeration ==
  ASSUME NEW S \in SUBSET Nat, IsFiniteSet(S), NEW f, Increasing(f, S), NEW g, Increasing(g, S)
  PROVE  f = g
<1>1. ASSUME NEW n \in 1..Cardinality(S) PROVE f[n] = g[n]
  <2>1. f[n] \in S /\ g[n] \in S
    BY DEF Increasing
  <2>2. Rank(S, f[n]) = n /\ Rank(S, g[n]) = n
    BY IncreasingRanks
  <2>3. Rank(S, f[n]) = Rank(S, g[n])
    BY <2>2
  <2>4. \A i, j \in S : Rank(S, i) = Rank(S, j) => i = j
    BY RankApart
  <2> QED
    BY <2>1, <2>3, <2>4
<1>2. f \in [1..Cardinality(S) -> S] /\ g \in [1..Cardinality(S) -> S]
  BY DEF Increasing
<1> DEFINE D == 1..Cardinality(S)
<1>3. f \in [D -> S] /\ g \in [D -> S] /\ \A n \in D : f[n] = g[n]
  BY <1>1, <1>2
<1> HIDE DEF D
<1> QED
  BY <1>3

(* The elements by rank are an increasing enumeration.                     *)
LEMMA ByRank ==
  ASSUME NEW S \in SUBSET Nat, IsFiniteSet(S)
  PROVE  Increasing([n \in 1..Cardinality(S) |-> CHOOSE i \in S : Rank(S, i) = n], S)
<1> DEFINE at(n) == CHOOSE i \in S : Rank(S, i) = n
<1>1. ASSUME NEW n \in 1..Cardinality(S) PROVE at(n) \in S /\ Rank(S, at(n)) = n
  BY RankOnto
<1> HIDE DEF at
<1>2. ASSUME NEW m \in 1..Cardinality(S), NEW n \in 1..Cardinality(S), m < n
      PROVE  at(m) < at(n)
  BY <1>1, <1>2, RankOrder
<1>3. Increasing([n \in 1..Cardinality(S) |-> at(n)], S)
  BY <1>1, <1>2 DEF Increasing
<1> QED
  BY <1>3 DEF at

(* Adding an element beyond all others adds it at the end.                 *)
LEMMA EnumerationGrows ==
  ASSUME NEW n \in Nat, NEW S \in SUBSET (1..n), NEW f, Increasing(f, S)
  PROVE  Increasing([k \in 1..(Cardinality(S) + 1) |->
                       IF k = Cardinality(S) + 1 THEN n + 1 ELSE f[k]], S \cup {n + 1})
<1> DEFINE c == Cardinality(S)
           g == [k \in 1..(c + 1) |-> IF k = c + 1 THEN n + 1 ELSE f[k]]
<1>1. IsFiniteSet(S) /\ c \in Nat
  <2>1. IsFiniteSet(1..n)
    BY FS_Interval
  <2>2. IsFiniteSet(S)
    BY <2>1, FS_Subset
  <2> QED
    BY <2>2, FS_CardinalityType
<1>2. Cardinality(S \cup {n + 1}) = c + 1
  BY <1>1, FS_AddElement
<1>3. f \in [1..c -> S] /\ \A k, m \in 1..c : k < m => f[k] < f[m]
  BY DEF Increasing
<1> HIDE DEF c
<1>4. g \in [1..(c + 1) -> S \cup {n + 1}]
  BY <1>1, <1>3
<1>5. ASSUME NEW k \in 1..(c + 1), NEW m \in 1..(c + 1), k < m PROVE g[k] < g[m]
  <2>0. k \in 1..c /\ k # c + 1
    BY <1>1, <1>5
  <2>1. k \in 1..c /\ g[k] = f[k] /\ f[k] \in 1..n
    BY <1>1, <1>3, <2>0
  <2>2. CASE m = c + 1
    BY <2>1, <2>2
  <2>3. CASE m # c + 1
    BY <2>1, <2>3, <1>1, <1>3, <1>5
  <2> QED
    BY <2>2, <2>3
<1>6. Increasing(g, S \cup {n + 1})
  <2> HIDE DEF g
  <2> QED
    BY <1>2, <1>4, <1>5 DEF Increasing
<1> QED
  BY <1>6 DEF c
-----------------------------------------------------------------------------
\* An element of a set, the one CHOOSE takes; what the sum over a set is, given
\* the sums over smaller ones; the function that the library's sum defines.
Some(T)         == CHOOSE x \in T : TRUE
Turned(f, g, T) == IF T = {} THEN 0 ELSE f[Some(T)] + g[T \ {Some(T)}]
Sums(f, D, g)   == g = [T \in SUBSET D |-> Turned(f, g, T)]

(* The sums over the subsets of a finite set exist: those over sets of n   *)
(* elements are made of those over sets of n - 1.                          *)
LEMMA SumsExist ==
  ASSUME NEW f, NEW D, IsFiniteSet(D)
  PROVE  \E g : Sums(f, D, g)
<1> DEFINE upto(n) == {T \in SUBSET D : Cardinality(T) <= n}
           Q       == {n \in Nat : \E g : \A T \in upto(n) : g[T] = Turned(f, g, T)}
<1>1. \A T \in SUBSET D : IsFiniteSet(T) /\ Cardinality(T) \in Nat /\ Cardinality(T) <= Cardinality(D)
  BY FS_Subset, FS_CardinalityType
<1>2. 0 \in Q
  <2> DEFINE g == [T \in SUBSET D |-> 0]
  <2>1. \A T \in upto(0) : T = {}
    BY <1>1, FS_EmptySet
  <2>2. \A T \in upto(0) : g[T] = Turned(f, g, T)
    BY <2>1 DEF Turned
  <2> QED
    BY <2>2
<1>3. ASSUME NEW n \in Nat, n \in Q PROVE n + 1 \in Q
  <2>1. PICK g : \A T \in upto(n) : g[T] = Turned(f, g, T)
    BY <1>3
  <2> DEFINE h == [T \in SUBSET D |-> Turned(f, g, T)]
  <2>2. \A T \in upto(n) : h[T] = g[T]
    BY <2>1
  <2>3. ASSUME NEW T \in upto(n + 1) PROVE h[T] = Turned(f, h, T)
    <3>1. CASE T = {}
      BY <3>1 DEF Turned
    <3>2. CASE T # {}
      <4>1. Some(T) \in T
        BY <3>2 DEF Some
      <4>2. Cardinality(T \ {Some(T)}) = Cardinality(T) - 1
        BY <1>1, <4>1, FS_RemoveElement
      <4>3. T \ {Some(T)} \in upto(n)
        BY <1>1, <4>2
      <4>4. h[T \ {Some(T)}] = g[T \ {Some(T)}]
        BY <2>2, <4>3
      <4>5. h[T] = Turned(f, g, T)
        OBVIOUS
      <4> HIDE DEF h
      <4> QED
        BY <3>2, <4>4, <4>5 DEF Turned
    <3> QED
      BY <3>1, <3>2
  <2> HIDE DEF h, upto
  <2> QED
    BY <2>3
<1>4. Nat \subseteq Q
  <2> HIDE DEF Q
  <2> QED
    BY <1>2, <1>3, SetInduction
<1>5. Cardinality(D) \in Q
  BY <1>1, <1>4
<1>6. PICK g : \A T \in SUBSET D : g[T] = Turned(f, g, T)
  BY <1>1, <1>5
<1> DEFINE h == [T \in SUBSET D |-> g[T]]
<1>7. \A T \in SUBSET D : h[T] = Turned(f, h, T)
  <2> TAKE T \in SUBSET D
  <2>1. T # {} => T \ {Some(T)} \in SUBSET D
    OBVIOUS
  <2> QED
    BY <1>6, <2>1 DEF Turned
<1>8. h = [T \in SUBSET D |-> h[T]]
  OBVIOUS
<1> HIDE DEF h
<1>9. h = [T \in SUBSET D |-> Turned(f, h, T)]
  BY <1>7, <1>8
<1> QED
  BY <1>9 DEF Sums

(* What holds of a set when it holds of the set without any one element    *)
(* holds of every subset of a finite set.                                  *)
LEMMA RemovalInduction ==
  ASSUME NEW S, IsFiniteSet(S), NEW Q, {} \in Q,
         \A T \in SUBSET S : T # {} /\ (\A x \in T : T \ {x} \in Q) => T \in Q
  PROVE  SUBSET S \subseteq Q
<1> DEFINE B == {n \in Nat : \A T \in SUBSET S : Cardinality(T) = n => T \in Q}
<1>0. \A T \in SUBSET S : IsFiniteSet(T) /\ Cardinality(T) \in Nat
  BY FS_Subset, FS_CardinalityType
<1>1. 0 \in B
  BY <1>0, FS_EmptySet
<1>2. ASSUME NEW n \in Nat, n \in B PROVE n + 1 \in B
  <2> SUFFICES ASSUME NEW T \in SUBSET S, Cardinality(T) = n + 1 PROVE T \in Q
    OBVIOUS
  <2>1. T # {}
    BY FS_EmptySet
  <2>2. ASSUME NEW x \in T PROVE T \ {x} \in Q
    <3>1. Cardinality(T \ {x}) = Cardinality(T) - 1
      BY <1>0, FS_RemoveElement
    <3>2. Cardinality(T \ {x}) = n
      BY <3>1
    <3> QED
      BY <1>2, <3>2
  <2> QED
    BY <2>1, <2>2
<1>3. Nat \subseteq B
  <2> HIDE DEF B
  <2> QED
    BY <1>1, <1>2, SetInduction
<1> QED
  BY <1>0, <1>3

(* The sum over a set is that over the set without the chosen element and  *)
(* the value of this.                                                      *)
LEMMA SumIs ==
  ASSUME NEW f, NEW D
  PROVE  SumFunctionOnSet(f, D) = (CHOOSE g : Sums(f, D, g))[D]
BY DEF SumFunctionOnSet, FoldFunctionOnSet, MapThenFoldSet, Sums, Turned, Some

LEMMA SumTurn ==
  ASSUME NEW f, NEW D, IsFiniteSet(D)
  PROVE  /\ SumFunctionOnSet(f, {}) = 0
         /\ D # {} => SumFunctionOnSet(f, D) = f[Some(D)] + SumFunctionOnSet(f, D \ {Some(D)})
<1> DEFINE of(T) == CHOOSE g : Sums(f, T, g)
<1>1. ASSUME NEW T \in SUBSET D PROVE \A U \in SUBSET T : of(T)[U] = Turned(f, of(T), U)
  <2>1. \E g : Sums(f, T, g)
    BY FS_Subset, SumsExist
  <2>2. Sums(f, T, of(T))
    BY <2>1
  <2> HIDE DEF of
  <2> QED
    BY <2>2 DEF Sums
<1>2. \A T \in SUBSET D : SumFunctionOnSet(f, T) = of(T)[T]
  BY SumIs
<1> HIDE DEF of
<1>3. ASSUME NEW T \in SUBSET D PROVE of(D)[T] = of(T)[T]
  <2> DEFINE Q == {U \in SUBSET T : of(D)[U] = of(T)[U]}
  <2>1. {} \in Q
    BY <1>1 DEF Turned
  <2>2. ASSUME NEW U \in SUBSET T, U # {}, \A x \in U : U \ {x} \in Q PROVE U \in Q
    <3>1. U \ {Some(U)} \in Q
      BY <2>2 DEF Some
    <3>2. of(D)[U] = Turned(f, of(D), U) /\ of(T)[U] = Turned(f, of(T), U)
      BY <1>1
    <3> QED
      BY <2>2, <3>1, <3>2 DEF Turned
  <2>3. IsFiniteSet(T)
    BY FS_Subset
  <2>4. SUBSET T \subseteq Q
    <3> HIDE DEF Q
    <3> QED
      BY <2>1, <2>2, <2>3, RemovalInduction
  <2> QED
    BY <2>4
<1>4. SumFunctionOnSet(f, {}) = 0
  BY <1>1, <1>2 DEF Turned
<1>5. ASSUME D # {} PROVE SumFunctionOnSet(f, D) = f[Some(D)] + SumFunctionOnSet(f, D \ {Some(D)})
  <2>1. D \ {Some(D)} \in SUBSET D /\ D \in SUBSET D
    OBVIOUS
  <2>2. of(D)[D] = f[Some(D)] + of(D)[D \ {Some(D)}]
    BY <1>1, <1>5, <2>1 DEF Turned
  <2> QED
    BY <1>2, <1>3, <2>1, <2>2
<1> QED
  BY <1>4, <1>5

(* A sum of naturals is one; any element can be taken out of it; it        *)
(* depends on the values summed only.                                      *)
LEMMA SumType ==
  ASSUME NEW D, IsFiniteSet(D), NEW f, \A x \in D : f[x] \in Nat
  PROVE  \A T \in SUBSET D : SumFunctionOnSet(f, T) \in Nat
<1> DEFINE Q == {T \in SUBSET D : SumFunctionOnSet(f, T) \in Nat}
<1>0. \A T \in SUBSET D : IsFiniteSet(T)
  BY FS_Subset
<1>1. {} \in Q
  <2>1. SumFunctionOnSet(f, {}) = 0
    BY SumTurn, FS_EmptySet
  <2> QED
    BY <2>1
<1>2. ASSUME NEW T \in SUBSET D, T # {}, \A x \in T : T \ {x} \in Q PROVE T \in Q
  <2>1. Some(T) \in T
    BY <1>2 DEF Some
  <2>2. SumFunctionOnSet(f, T) = f[Some(T)] + SumFunctionOnSet(f, T \ {Some(T)})
    BY <1>0, <1>2, SumTurn
  <2>3. SumFunctionOnSet(f, T \ {Some(T)}) \in Nat /\ f[Some(T)] \in Nat
    BY <1>2, <2>1
  <2> QED
    BY <2>2, <2>3
<1>3. SUBSET D \subseteq Q
  <2> HIDE DEF Q
  <2> QED
    BY <1>1, <1>2, RemovalInduction
<1> QED
  BY <1>3

LEMMA SumWithout ==
  ASSUME NEW D, IsFiniteSet(D), NEW f, \A x \in D : f[x] \in Nat
  PROVE  \A x \in D : SumFunctionOnSet(f, D) = f[x] + SumFunctionOnSet(f, D \ {x})
<1> DEFINE sum(T) == SumFunctionOnSet(f, T)
           Q      == {T \in SUBSET D : \A x \in T : sum(T) = f[x] + sum(T \ {x})}
<1>0. \A T \in SUBSET D : IsFiniteSet(T) /\ sum(T) \in Nat
                          /\ (T # {} => sum(T) = f[Some(T)] + sum(T \ {Some(T)}))
  BY FS_Subset, SumType, SumTurn
<1> HIDE DEF sum
<1>1. {} \in Q
  OBVIOUS
<1>2. ASSUME NEW T \in SUBSET D, T # {}, \A x \in T : T \ {x} \in Q PROVE T \in Q
  <2> SUFFICES ASSUME NEW x \in T PROVE sum(T) = f[x] + sum(T \ {x})
    OBVIOUS
  <2> DEFINE c == Some(T)
  <2>1. c \in T
    BY <1>2 DEF Some
  <2>2. sum(T) = f[c] + sum(T \ {c})
    BY <1>0, <1>2
  <2> HIDE DEF c
  <2>3. CASE x = c
    BY <2>2, <2>3
  <2>4. CASE x # c
    <3>1. sum(T \ {c}) = f[x] + sum((T \ {c}) \ {x})
      BY <1>2, <2>1, <2>4
    <3>2. sum(T \ {x}) = f[c] + sum((T \ {x}) \ {c})
      BY <1>2, <2>1, <2>4
    <3>3. (T \ {c}) \ {x} = (T \ {x}) \ {c}
      OBVIOUS
    <3>4. sum((T \ {x}) \ {c}) \in Nat /\ f[c] \in Nat /\ f[x] \in Nat
      BY <1>0, <2>1
    <3>5. sum(T) = f[c] + (f[x] + sum((T \ {x}) \ {c}))
      BY <2>2, <3>1, <3>3
    <3> QED
      BY <3>2, <3>4, <3>5
  <2> QED
    BY <2>3, <2>4
<1>3. SUBSET D \subseteq Q
  <2> HIDE DEF Q
  <2> QED
    BY <1>1, <1>2, RemovalInduction
<1> QED
  BY <1>3 DEF sum

LEMMA SumAdds ==
  ASSUME NEW D, IsFiniteSet(D), NEW f, \A x \in D : f[x] \in Nat, NEW T \in SUBSET D, NEW x \in D \ T
  PROVE  SumFunctionOnSet(f, T \cup {x}) = f[x] + SumFunctionOnSet(f, T)
<1>1. IsFiniteSet(T \cup {x}) /\ (T \cup {x}) \ {x} = T
  BY FS_Subset, FS_AddElement
<1>2. \A y \in T \cup {x} : f[y] \in Nat
  OBVIOUS
<1> QED
  BY <1>1, <1>2, SumWithout

LEMMA SumSame ==
  ASSUME NEW D, IsFiniteSet(D), NEW f, \A x \in D : f[x] \in Nat, NEW g, \A x \in D : f[x] = g[x]
  PROVE  SumFunctionOnSet(f, D) = SumFunctionOnSet(g, D)
<1> DEFINE Q == {T \in SUBSET D : SumFunctionOnSet(f, T) = SumFunctionOnSet(g, T)}
<1>1. {} \in Q
  BY SumTurn, FS_EmptySet
<1>2. ASSUME NEW T \in SUBSET D, NEW x \in D \ T, T \in Q PROVE T \cup {x} \in Q
  <2>1. SumFunctionOnSet(f, T \cup {x}) = f[x] + SumFunctionOnSet(f, T)
    BY SumAdds
  <2>2. SumFunctionOnSet(g, T \cup {x}) = g[x] + SumFunctionOnSet(g, T)
    BY SumAdds
  <2> QED
    BY <1>2, <2>1, <2>2
<1>3. SUBSET D \subseteq Q
  <2> HIDE DEF Q
  <2> QED
    BY <1>1, <1>2, SubsetInduction
<1> QED
  BY <1>3

(* Sums add up, and a common factor can be taken out; what is zero can be  *)
(* left out.                                                               *)
LEMMA SumPlus ==
  ASSUME NEW D, IsFiniteSet(D), NEW f, \A x \in D : f[x] \in Nat, NEW g, \A x \in D : g[x] \in Nat,
         NEW h, \A x \in D : h[x] = f[x] + g[x]
  PROVE  SumFunctionOnSet(h, D) = SumFunctionOnSet(f, D) + SumFunctionOnSet(g, D)
<1> DEFINE Q == {T \in SUBSET D : SumFunctionOnSet(h, T) = SumFunctionOnSet(f, T) + SumFunctionOnSet(g, T)}
<1>0. \A x \in D : h[x] \in Nat
  OBVIOUS
<1>1. {} \in Q
  <2>1. SumFunctionOnSet(f, {}) = 0 /\ SumFunctionOnSet(g, {}) = 0 /\ SumFunctionOnSet(h, {}) = 0
    BY SumTurn, FS_EmptySet
  <2> QED
    BY <2>1
<1>2. ASSUME NEW T \in SUBSET D, NEW x \in D \ T, T \in Q PROVE T \cup {x} \in Q
  <2>1. /\ SumFunctionOnSet(f, T \cup {x}) = f[x] + SumFunctionOnSet(f, T)
        /\ SumFunctionOnSet(g, T \cup {x}) = g[x] + SumFunctionOnSet(g, T)
        /\ SumFunctionOnSet(h, T \cup {x}) = h[x] + SumFunctionOnSet(h, T)
    BY <1>0, SumAdds
  <2>2. SumFunctionOnSet(f, T) \in Nat /\ SumFunctionOnSet(g, T) \in Nat /\ f[x] \in Nat /\ g[x] \in Nat
    BY SumType
  <2>3. h[x] = f[x] + g[x]
    OBVIOUS
  <2>4. SumFunctionOnSet(h, T) = SumFunctionOnSet(f, T) + SumFunctionOnSet(g, T)
    BY <1>2
  <2>5. SumFunctionOnSet(h, T \cup {x}) = SumFunctionOnSet(f, T \cup {x}) + SumFunctionOnSet(g, T \cup {x})
    BY <2>1, <2>2, <2>3, <2>4
  <2> QED
    BY <2>5
<1>3. SUBSET D \subseteq Q
  <2> HIDE DEF Q
  <2> QED
    BY <1>1, <1>2, SubsetInduction
<1> QED
  BY <1>3

LEMMA SumTimes ==
  ASSUME NEW D, IsFiniteSet(D), NEW f, \A x \in D : f[x] \in Nat, NEW c \in Nat,
         NEW h, \A x \in D : h[x] = f[x] * c
  PROVE  SumFunctionOnSet(h, D) = SumFunctionOnSet(f, D) * c
<1> DEFINE Q == {T \in SUBSET D : SumFunctionOnSet(h, T) = SumFunctionOnSet(f, T) * c}
<1>0. \A x \in D : h[x] \in Nat
  OBVIOUS
<1>1. {} \in Q
  <2>1. SumFunctionOnSet(f, {}) = 0 /\ SumFunctionOnSet(h, {}) = 0
    BY SumTurn, FS_EmptySet
  <2> QED
    BY <2>1
<1>2. ASSUME NEW T \in SUBSET D, NEW x \in D \ T, T \in Q PROVE T \cup {x} \in Q
  <2>1. /\ SumFunctionOnSet(f, T \cup {x}) = f[x] + SumFunctionOnSet(f, T)
        /\ SumFunctionOnSet(h, T \cup {x}) = h[x] + SumFunctionOnSet(h, T)
    BY <1>0, SumAdds
  <2>2. SumFunctionOnSet(f, T) \in Nat /\ f[x] \in Nat
    BY SumType
  <2>3. SumFunctionOnSet(h, T \cup {x}) = f[x] * c + SumFunctionOnSet(f, T) * c
    BY <1>2, <2>1
  <2>4. \A a, b \in Nat : a * c + b * c = (a + b) * c
    OBVIOUS
  <2>5. SumFunctionOnSet(h, T \cup {x}) = SumFunctionOnSet(f, T \cup {x}) * c
    BY <2>1, <2>2, <2>3, <2>4
  <2> QED
    BY <2>5
<1>3. SUBSET D \subseteq Q
  <2> HIDE DEF Q
  <2> QED
    BY <1>1, <1>2, SubsetInduction
<1> QED
  BY <1>3

LEMMA SumZero ==
  ASSUME NEW D, IsFiniteSet(D), NEW f, \A x \in D : f[x] \in Nat, NEW T \in SUBSET D,
         \A x \in D \ T : f[x] = 0
  PROVE  SumFunctionOnSet(f, D) = SumFunctionOnSet(f, T)
<1> DEFINE E == D \ T
           Q == {U \in SUBSET E : SumFunctionOnSet(f, T \cup U) = SumFunctionOnSet(f, T)}
<1>0. IsFiniteSet(E)
  BY FS_Subset
<1>1. {} \in Q
  OBVIOUS
<1>2. ASSUME NEW U \in SUBSET E, NEW x \in E \ U, U \in Q PROVE U \cup {x} \in Q
  <2> DEFINE V == T \cup U
  <2>1. V \in SUBSET D /\ x \in D \ V /\ T \cup (U \cup {x}) = V \cup {x} /\ f[x] = 0
    OBVIOUS
  <2>2. SumFunctionOnSet(f, V) = SumFunctionOnSet(f, T)
    BY <1>2
  <2> HIDE DEF V
  <2>3. SumFunctionOnSet(f, V \cup {x}) = f[x] + SumFunctionOnSet(f, V)
    BY <2>1, SumAdds
  <2>4. SumFunctionOnSet(f, V) \in Nat
    BY <2>1, SumType
  <2>5. SumFunctionOnSet(f, V \cup {x}) = SumFunctionOnSet(f, V)
    BY <2>1, <2>3, <2>4
  <2> QED
    BY <2>1, <2>2, <2>5
<1>3. SUBSET E \subseteq Q
  <2> HIDE DEF Q, E
  <2> QED
    BY <1>0, <1>1, <1>2, SubsetInduction
<1>4. E \in Q /\ T \cup E = D
  BY <1>3
<1> QED
  BY <1>4
=============================================================================
