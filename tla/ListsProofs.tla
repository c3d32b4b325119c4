----------------------------- MODULE ListsProofs -----------------------------
(***************************************************************************)
(* Facts about lists that keep their places, for the proofs that need them.*)
(* Induction over the places of a list is stated for sets of numbers, which*)
(* the provers can instantiate: Induct says that a set of numbers closed   *)
(* under the step holds them all.                                          *)
(***************************************************************************)
EXTENDS Lists, FiniteSetTheorems, NaturalsInduction, WellFoundedInduction, TLAPS

\* A set of numbers that is not empty has a least one.
LEMMA MinIsThere ==
  ASSUME NEW S \in SUBSET Nat, S # {}
  PROVE  Min(S) \in S /\ \A y \in S : Min(S) <= y
<1> DEFINE R == OpToRel(<, Nat)
<1>1. PICK x \in S : \A y \in S : ~(<<y, x>> \in R)
  <2> HIDE DEF R
  <2>1. IsWellFoundedOn(R, Nat)
    BY NatLessThanWellFounded DEF R
  <2> QED BY <2>1, WFMin
<1>2. \A y \in S : x <= y
  <2> SUFFICES ASSUME NEW y \in S PROVE x <= y
    OBVIOUS
  <2>1. y \in Nat /\ x \in Nat
    OBVIOUS
  <2>2. ~(y < x)
    BY <1>1, <2>1 DEF OpToRel
  <2> QED BY <2>1, <2>2
<1> QED BY <1>2 DEF Min

\* Induction up to n: what holds of 0, and of each number if it holds of the one
\* before, holds of all.  T is the set of the numbers it holds of.
LEMMA Induct ==
  ASSUME NEW n \in Nat, NEW T, 0 \in T, \A i \in 1 .. n : i - 1 \in T => i \in T
  PROVE  \A i \in 0 .. n : i \in T
<1> DEFINE Bad == {i \in 0 .. n : i \notin T}
<1> SUFFICES ASSUME Bad # {} PROVE FALSE
  OBVIOUS
<1>1. Bad \in SUBSET Nat
  OBVIOUS
<1>2. Min(Bad) \in Bad /\ \A y \in Bad : Min(Bad) <= y
  BY <1>1, MinIsThere
<1> DEFINE k == Min(Bad)
<1>3. k \in 1 .. n /\ k \notin T
  BY <1>2
<1>4. k - 1 \in T
  <2>1. k - 1 \in 0 .. n /\ ~(k <= k - 1)
    BY <1>3
  <2> HIDE DEF k
  <2>2. k - 1 \notin Bad
    BY <1>2, <2>1 DEF k
  <2> QED BY <2>1, <2>2
<1> QED BY <1>3, <1>4

\* A loop of n rounds on the values S, from base, and its value after each round.
Rounds(go, S, n) == go \in [S \X (1 .. n) -> S]
Runs(f, n, S, base, go) ==
  f \in [0 .. n -> S] /\ f[0] = base /\ \A i \in 1 .. n : f[i] = go[<<f[i - 1], i>>]

\* Every loop runs.
LEMMA LoopExists ==
  ASSUME NEW n \in Nat, NEW S, NEW base \in S, NEW go, Rounds(go, S, n)
  PROVE  \E f : Runs(f, n, S, base, go)
<1> DEFINE T == {k \in 0 .. n : \E f : Runs(f, k, S, base, go)}
<1>1. 0 \in T
  <2> DEFINE g == [i \in 0 .. 0 |-> base]
  <2>1. g \in [0 .. 0 -> S] /\ g[0] = base /\ 1 .. 0 = {}
    OBVIOUS
  <2> HIDE DEF g
  <2>2. Runs(g, 0, S, base, go)
    BY <2>1 DEF Runs
  <2> QED BY <2>2
<1>2. ASSUME NEW k \in 1 .. n, k - 1 \in T PROVE k \in T
  <2>1. PICK f : Runs(f, k - 1, S, base, go)
    BY <1>2
  <2> DEFINE g == [i \in 0 .. k |-> IF i = k THEN go[<<f[k - 1], k>>] ELSE f[i]]
  <2>2. f[k - 1] \in S /\ go[<<f[k - 1], k>>] \in S
    BY <2>1 DEF Runs, Rounds
  <2>3. g \in [0 .. k -> S]
    BY <2>1, <2>2 DEF Runs
  <2>4. g[0] = base
    BY <2>1 DEF Runs
  <2>5. ASSUME NEW i \in 1 .. k PROVE g[i] = go[<<g[i - 1], i>>]
    <3>1. CASE i = k
      <4>1. k - 1 \in 0 .. k /\ k - 1 # k /\ k \in 0 .. k
        OBVIOUS
      <4>2. g[k] = go[<<f[k - 1], k>>] /\ g[k - 1] = f[k - 1]
        BY <4>1
      <4> HIDE DEF g
      <4> QED BY <3>1, <4>2
    <3>2. CASE i # k
      <4>1. i \in 1 .. (k - 1) /\ i - 1 \in 0 .. k /\ i \in 0 .. k /\ i - 1 # k
        BY <3>2
      <4>2. f[i] = go[<<f[i - 1], i>>]
        BY <2>1, <4>1 DEF Runs
      <4> QED BY <3>2, <4>1, <4>2
    <3> QED BY <3>1, <3>2
  <2> HIDE DEF g
  <2>6. Runs(g, k, S, base, go)
    BY <2>3, <2>4, <2>5 DEF Runs
  <2> QED BY <2>6
<1>3. n \in T
  <2> HIDE DEF T
  <2> QED BY <1>1, <1>2, Induct
<1> QED BY <1>3

\* A finite set of integers that is not empty has a greatest one.
LEMMA MaxIsThere ==
  ASSUME NEW S \in SUBSET Int, IsFiniteSet(S), S # {}
  PROVE  Max(S) \in S /\ \A y \in S : Max(S) >= y
<1>1. PICK n \in Nat : ExistsSurjection(1 .. n, S)
  BY FS_NatSurjection
<1>2. PICK f \in [1 .. n -> S] : \A y \in S : \E i \in 1 .. n : f[i] = y
  BY <1>1 DEF ExistsSurjection, Surjection
<1>0. \A i \in 1 .. n : f[i] \in Int
  OBVIOUS
<1> DEFINE T == {k \in 0 .. n : k = 0 \/ \E m \in 1 .. k : \A i \in 1 .. k : f[i] <= f[m]}
<1>3. ASSUME NEW k \in 1 .. n, k - 1 \in T PROVE k \in T
  <2>1. CASE k = 1
    <3>1. \A i \in 1 .. k : i = 1 /\ f[1] <= f[1]
      BY <2>1, <1>0
    <3> QED BY <2>1, <3>1
  <2>2. CASE k # 1
    <3>1. PICK m \in 1 .. (k - 1) : \A i \in 1 .. (k - 1) : f[i] <= f[m]
      BY <1>3, <2>2
    <3>2. f[m] \in Int /\ f[k] \in Int
      <4>1. m \in 1 .. n
        OBVIOUS
      <4> QED BY <1>0, <4>1
    <3>3. CASE f[k] <= f[m]
      <4>1. \A i \in 1 .. k : f[i] <= f[m]
        BY <3>1, <3>3
      <4> QED BY <4>1
    <3>4. CASE ~(f[k] <= f[m])
      <4>1. \A i \in 1 .. k : f[i] <= f[k]
        <5> SUFFICES ASSUME NEW i \in 1 .. k PROVE f[i] <= f[k]
          OBVIOUS
        <5>1. CASE i = k
          BY <5>1, <3>2
        <5>2. CASE i # k
          <6>1. i \in 1 .. (k - 1) /\ i \in 1 .. n
            BY <5>2
          <6>2. f[i] <= f[m] /\ f[i] \in Int
            BY <6>1, <3>1, <1>0
          <6> QED BY <6>2, <3>2, <3>4
        <5> QED BY <5>1, <5>2
      <4> QED BY <4>1
    <3> QED BY <3>3, <3>4
  <2> QED BY <2>1, <2>2
<1>4. n \in T
  <2>1. 0 \in T
    OBVIOUS
  <2> HIDE DEF T
  <2> QED BY <1>3, <2>1, Induct
<1>5. n # 0
  <2>1. PICK y \in S : TRUE
    OBVIOUS
  <2>2. PICK i \in 1 .. n : f[i] = y
    BY <1>2
  <2> QED BY <2>2
<1>6. PICK m \in 1 .. n : \A i \in 1 .. n : f[i] <= f[m]
  BY <1>4, <1>5
<1>7. f[m] \in S /\ \A y \in S : f[m] >= y
  BY <1>2, <1>6
<1> QED BY <1>7 DEF Max

\* A list ends at a number, and no place is beyond it.
LEMMA LastPlaceBounds ==
  ASSUME NEW list, NEW S, ListOf(list, S)
  PROVE  LastPlace(list) \in Nat /\ DOMAIN list \subseteq 1 .. LastPlace(list)
<1>1. CASE DOMAIN list = {}
  BY <1>1 DEF LastPlace
<1>2. CASE DOMAIN list # {}
  <2>1. Max(DOMAIN list) \in DOMAIN list /\ \A y \in DOMAIN list : Max(DOMAIN list) >= y
    BY <1>2, MaxIsThere DEF ListOf
  <2> QED BY <1>2, <2>1 DEF LastPlace, ListOf
<1> QED BY <1>1, <1>2

\* The values of a finite function are finitely many.
LEMMA FiniteValues ==
  ASSUME NEW f, IsFiniteSet(DOMAIN f)
  PROVE  IsFiniteSet({f[x] : x \in DOMAIN f})
<1> DEFINE T == {f[x] : x \in DOMAIN f}
           g == [x \in DOMAIN f |-> f[x]]
<1>1. g \in Surjection(DOMAIN f, T)
  BY DEF Surjection
<1> HIDE DEF g, T
<1>2. IsFiniteSet(T)
  BY <1>1, FS_Surjection
<1> QED BY <1>2 DEF T
=============================================================================
