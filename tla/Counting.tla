------------------------------ MODULE Counting ------------------------------
(***************************************************************************)
(* What the proofs about retention need of counting: the maps of           *)
(* executions, jobs and waits all keep the newest of what has ended, and   *)
(* tell the newest by how many others are newer.                           *)
(***************************************************************************)
EXTENDS Integers, FiniteSetTheorems, WellFoundedInduction, TLAPS

\* A set of numbers has a least one.
LEMMA LeastNat ==
  ASSUME NEW T \in SUBSET Nat, T # {}
  PROVE  \E x \in T : \A y \in T : x <= y
<1> DEFINE R == {ss \in Nat \X Nat : ss[1] < ss[2]}
<1>1. IsWellFoundedOn(R, Nat)
  BY NatLessThanWellFounded, Zenon DEF OpToRel
<1>2. PICK x \in T : \A y \in T : ~(<<y, x>> \in R)
  <2> HIDE DEF R
  <2> QED
    BY <1>1, WFMin
<1>3. ASSUME NEW y \in T PROVE x <= y
  <2>1. <<y, x>> \in Nat \X Nat /\ <<y, x>> \notin R
    BY <1>2
  <2>2. ~(y < x)
    BY <2>1
  <2> QED
    BY <2>2
<1> QED
  BY <1>3

\* ... and, if it is bounded, a greatest.
LEMMA GreatestNat ==
  ASSUME NEW n \in Nat, NEW T \in SUBSET (0..n), T # {}
  PROVE  \E x \in T : \A y \in T : x >= y
<1> DEFINE U == {n - x : x \in T}
<1>1. U \in SUBSET Nat /\ U # {}
  <2>1. \A x \in T : n - x \in Nat
    OBVIOUS
  <2> QED
    BY <2>1
<1>2. PICK u \in U : \A v \in U : u <= v
  <2> HIDE DEF U
  <2> QED
    BY <1>1, LeastNat
<1>3. PICK x \in T : u = n - x
  OBVIOUS
<1>4. ASSUME NEW y \in T PROVE x >= y
  <2>1. n - x <= n - y
    BY <1>2, <1>3
  <2>2. x \in Nat /\ y \in Nat
    OBVIOUS
  <2> QED
    BY <2>1, <2>2
<1> QED
  BY <1>4

\* A finite set has subsets of every size up to its own.
LEMMA SubsetOfSize ==
  ASSUME NEW T, IsFiniteSet(T), NEW k \in Nat, Cardinality(T) >= k
  PROVE  \E S \in SUBSET T : Cardinality(S) = k
<1> DEFINE n == Cardinality(T)
<1>1. n \in Nat /\ ExistsBijection(1..n, T)
  BY FS_CardinalityType
<1>2. PICK f \in [1..n -> T] : \A a, b \in 1..n : f[a] = f[b] => a = b
  BY <1>1 DEF ExistsBijection, Bijection, Injection, IsInjective
<1> DEFINE S == {f[i] : i \in 1..k}
           g == [i \in 1..k |-> f[i]]
<1>3. 1..k \subseteq 1..n
  BY <1>1
<1>4. S \in SUBSET T /\ g \in [1..k -> S]
  BY <1>3
<1>5. g \in Bijection(1..k, S)
  BY <1>2, <1>3, <1>4 DEF Bijection, Injection, Surjection, IsInjective
<1>6. ExistsBijection(1..k, S)
  BY <1>5 DEF ExistsBijection
<1>7. Cardinality(S) = k
  BY <1>6, FS_CountingElements
<1> QED
  BY <1>4, <1>7

\* Of what started at different times, at most n have fewer than n newer ones.
LEMMA NewestBounded ==
  ASSUME NEW S, IsFiniteSet(S), NEW at, NEW n \in Nat,
         \A e \in S : at[e] \in Nat,
         \A e, f \in S : at[e] = at[f] => e = f
  PROVE  Cardinality({e \in S : Cardinality({f \in S : at[f] > at[e]}) < n}) <= n
<1> DEFINE After(e) == {f \in S : at[f] > at[e]}
           K == {e \in S : Cardinality(After(e)) < n}
<1> SUFFICES Cardinality(K) <= n
  OBVIOUS
<1>1. IsFiniteSet(K) /\ Cardinality(K) \in Nat
  <2>1. K \in SUBSET S
    OBVIOUS
  <2> HIDE DEF K
  <2> QED
    BY <2>1, FS_Subset, FS_CardinalityType
<1>2. CASE K = {}
  <2> HIDE DEF K
  <2> QED
    BY <1>2, FS_EmptySet
<1>3. CASE K # {}
  <2> DEFINE T == {at[e] : e \in K}
  <2>1. T \in SUBSET Nat /\ T # {}
    BY <1>3
  <2>2. PICK x \in T : \A y \in T : x <= y
    <3> HIDE DEF T
    <3> QED
      BY <2>1, LeastNat
  <2>3. PICK e \in K : at[e] = x
    BY <2>2
  <2>4. ASSUME NEW f \in K \ {e} PROVE f \in After(e)
    <3>1. at[f] \in T /\ at[f] # at[e]
      BY <2>3
    <3>2. at[e] <= at[f]
      BY <3>1, <2>2, <2>3
    <3> QED
      BY <3>1, <3>2
  <2>5. K \ {e} \in SUBSET After(e) /\ IsFiniteSet(After(e)) /\ Cardinality(After(e)) \in Nat
    <3>1. After(e) \in SUBSET S /\ K \ {e} \in SUBSET After(e)
      BY <2>4
    <3> HIDE DEF After, K
    <3> QED
      BY <3>1, FS_Subset, FS_CardinalityType
  <2>6. Cardinality(K \ {e}) <= Cardinality(After(e)) /\ Cardinality(After(e)) < n
    <3>1. Cardinality(After(e)) < n
      BY <2>3
    <3> HIDE DEF After, K
    <3> QED
      BY <2>5, <3>1, FS_Subset
  <2>7. Cardinality(K \ {e}) = Cardinality(K) - 1
    <3> HIDE DEF K
    <3> QED
      BY <1>1, <2>3, FS_RemoveElement
  <2> HIDE DEF After, K
  <2> QED
    BY <1>1, <2>5, <2>6, <2>7
<1> QED
  BY <1>2, <1>3
-----------------------------------------------------------------------------
(* Induction over data, with sets in place of predicates: what is computed *)
(* place by place is computed for every length.                            *)

\* A set that holds 0 and, with each number below n, the next one, holds them all.
LEMMA UpTo ==
  ASSUME NEW n \in Nat, NEW P \in SUBSET (0..n), 0 \in P, \A i \in 1..n : i - 1 \in P => i \in P
  PROVE  P = 0..n
<1> SUFFICES ASSUME P # 0..n PROVE FALSE
  OBVIOUS
<1> DEFINE T == (0..n) \ P
<1>1. T \in SUBSET Nat /\ T # {}
  <2>1. 0..n \subseteq Nat
    OBVIOUS
  <2> QED
    BY <2>1
<1>2. PICK x \in T : \A y \in T : x <= y
  <2> HIDE DEF T
  <2> QED
    BY <1>1, LeastNat
<1>3. x \in 1..n /\ x - 1 \in 0..n /\ x - 1 \notin T
  <2>1. x # 0 /\ x \in 0..n
    OBVIOUS
  <2>2. x \in 1..n /\ x - 1 \in 0..n /\ x - 1 \in Int
    BY <2>1
  <2>3. ASSUME x - 1 \in T PROVE FALSE
    <3>1. x <= x - 1
      BY <1>2, <2>3
    <3> QED
      BY <3>1, <2>2
  <2> QED
    BY <2>2, <2>3
<1> QED
  BY <1>3

\* What n steps from a go through.
Iterations(n, S, a, step) ==
  {f \in [0..n -> S] : f[0] = a /\ \A i \in 1..n : f[i] = step[<<f[i - 1], i>>]}

\* A step can be taken n times from a start.
LEMMA Iterates ==
  ASSUME NEW n \in Nat, NEW S, NEW a \in S, NEW step \in [S \X (1..n) -> S]
  PROVE  Iterations(n, S, a, step) # {}
<1> DEFINE Goes(m, f) == f[0] = a /\ \A i \in 1..m : f[i] = step[<<f[i - 1], i>>]
           P == {m \in 0..n : \E f \in [0..m -> S] : Goes(m, f)}
<1>1. 0 \in P
  <2> DEFINE f == [i \in 0..0 |-> a]
  <2>1. f \in [0..0 -> S] /\ Goes(0, f)
    OBVIOUS
  <2>2. 0 \in 0..n
    OBVIOUS
  <2> HIDE DEF f, Goes
  <2> QED
    BY <2>1, <2>2
<1>2. ASSUME NEW m \in 1..n, m - 1 \in P PROVE m \in P
  <2>1. PICK f \in [0..(m - 1) -> S] : Goes(m - 1, f)
    BY <1>2
  <2> DEFINE x == step[<<f[m - 1], m>>]
             g == [i \in 0..m |-> IF i = m THEN x ELSE f[i]]
  <2>2. m - 1 \in 0..(m - 1) /\ f[m - 1] \in S
    BY <2>1
  <2>3. x \in S
    BY <2>2
  <2>4. g \in [0..m -> S]
    <3>1. ASSUME NEW i \in 0..m, i # m PROVE f[i] \in S
      <4>1. i \in 0..(m - 1)
        BY <3>1
      <4> QED
        BY <4>1, <2>1
    <3> HIDE DEF x
    <3> QED
      BY <3>1, <2>3
  <2>5. \A i \in 0..(m - 1) : g[i] = f[i]
    <3> HIDE DEF x
    <3> QED
      OBVIOUS
  <2>6. g[m] = x
    OBVIOUS
  <2>7. Goes(m, g)
    <3> HIDE DEF g
    <3>1. g[0] = a
      BY <2>1, <2>5
    <3>2. ASSUME NEW i \in 1..m PROVE g[i] = step[<<g[i - 1], i>>]
      <4>1. i - 1 \in 0..(m - 1) /\ g[i - 1] = f[i - 1]
        BY <2>5
      <4>2. CASE i = m
        BY <4>1, <4>2, <2>6
      <4>3. CASE i # m
        <5>1. i \in 1..(m - 1) /\ i \in 0..(m - 1)
          BY <4>3
        <5>2. g[i] = f[i] /\ f[i] = step[<<f[i - 1], i>>]
          BY <5>1, <2>1, <2>5
        <5> QED
          BY <5>2, <4>1
      <4> QED
        BY <4>2, <4>3
    <3> QED
      BY <3>1, <3>2
  <2> HIDE DEF g, Goes
  <2> QED
    BY <2>4, <2>7
<1>3. P = 0..n
  <2>1. P \in SUBSET (0..n)
    OBVIOUS
  <2>2. \A i \in 1..n : i - 1 \in P => i \in P
    BY <1>2
  <2> HIDE DEF P
  <2> QED
    BY <1>1, <2>1, <2>2, UpTo
<1>4. n \in P
  <2> HIDE DEF P
  <2> QED
    BY <1>3
<1> QED
  BY <1>4 DEF Iterations
=============================================================================
