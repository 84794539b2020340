------------------------------ MODULE SumProofs ------------------------------
(***************************************************************************)
(* Facts the proofs share.  Induction over numbers and finite sets, in the *)
(* form of a least counterexample; and sums over a finite set, as the      *)
(* accounting modules take them: what SumFunction of the community modules *)
(* comes to when one value changes.                                        *)
(***************************************************************************)
EXTENDS Integers, FiniteSets, Functions, FiniteSetTheorems, WellFoundedInduction, TLAPS

\* A set of naturals that is not empty has a least member.
LEMMA LeastNat ==
  ASSUME NEW S, S \subseteq Nat, S # {}
  PROVE  \E m \in S : \A k \in S : m <= k
<1> DEFINE R == {ss \in Nat \X Nat : ss[1] < ss[2]}
<1>1. IsWellFoundedOn(R, Nat)
  BY NatLessThanWellFounded DEF OpToRel
<1>2. ASSUME NEW a \in Nat, NEW b \in Nat, a < b
      PROVE  <<a, b>> \in R
  BY <1>2
<1> HIDE DEF R
<1>3. PICK m \in S : \A k \in S : ~(<<k, m>> \in R)
  BY <1>1, WFMin
<1>4. ASSUME NEW k \in S
      PROVE  m <= k
  <2>1. ~(<<k, m>> \in R)
    BY <1>3
  <2>2. ~(k < m)
    BY <1>2, <2>1
  <2> QED BY <2>2
<1> QED BY <1>4

\* A set of finite sets that is not empty has a member no other is a proper subset of.
LEMMA SmallestSet ==
  ASSUME NEW D, IsFiniteSet(D), NEW B, B \subseteq SUBSET D, B # {}
  PROVE  \E s \in B : \A y \in s : s \ {y} \notin B
<1> DEFINE N == {Cardinality(s) : s \in B}
<1>1. \A s \in B : IsFiniteSet(s) /\ Cardinality(s) \in Nat
  BY FS_Subset, FS_CardinalityType
<1>2. N \subseteq Nat /\ N # {}
  BY <1>1
<1>3. PICK n \in N : \A k \in N : n <= k
  BY <1>2, LeastNat
<1>4. PICK s \in B : n = Cardinality(s)
  BY <1>3
<1>5. ASSUME NEW y \in s, s \ {y} \in B
      PROVE  FALSE
  <2>1. Cardinality(s \ {y}) = Cardinality(s) - 1
    BY <1>1, FS_RemoveElement
  <2>2. n <= Cardinality(s \ {y})
    BY <1>3, <1>5
  <2> QED BY <1>1, <1>4, <2>1, <2>2
<1> QED BY <1>4, <1>5

-----------------------------------------------------------------------------
(* The sum is defined. *)

Pick(s) == CHOOSE x \in s : TRUE
Body(g, f, s) == IF s = {} THEN 0 ELSE f[Pick(s)] + g[s \ {Pick(s)}]
IsSum(g, f, D) ==
  /\ g \in [SUBSET D -> Int]
  /\ \A s \in SUBSET D : g[s] = Body(g, f, s)

\* A value of a sum over a smaller set gives one over a larger set.
LEMMA BodyInt ==
  ASSUME NEW D, NEW f \in [D -> Int], NEW g \in [SUBSET D -> Int], NEW s \in SUBSET D
  PROVE  Body(g, f, s) \in Int /\ (s # {} => Pick(s) \in s)
<1>1. s # {} => Pick(s) \in s
  BY DEF Pick
<1>2. CASE s = {}
  BY <1>1, <1>2 DEF Body
<1>3. CASE s # {}
  <2>1. Pick(s) \in D /\ s \ {Pick(s)} \in SUBSET D
    BY <1>1, <1>3
  <2> QED BY <1>1, <1>3, <2>1 DEF Body
<1> QED BY <1>2, <1>3

HasPartialSum(D, f, n) ==
  \E g \in [SUBSET D -> Int] :
    \A s \in SUBSET D : Cardinality(s) <= n => g[s] = Body(g, f, s)

\* Partial sums exist up to any number of summands ...
LEMMA PartialSums ==
  ASSUME NEW D, IsFiniteSet(D), NEW f \in [D -> Int], NEW n \in Nat
  PROVE  HasPartialSum(D, f, n)
<1> DEFINE Good(k) == HasPartialSum(D, f, k)
           bad == {k \in Nat : ~Good(k)}
<1>0. \A s \in SUBSET D : IsFiniteSet(s) /\ Cardinality(s) \in Nat
  BY FS_Subset, FS_CardinalityType
<1>1. Good(0)
  <2> DEFINE g == [s \in SUBSET D |-> 0]
  <2>1. \A s \in SUBSET D : Cardinality(s) <= 0 => s = {}
    BY <1>0, FS_EmptySet
  <2>2. g \in [SUBSET D -> Int] /\ \A s \in SUBSET D : g[s] = 0
    OBVIOUS
  <2> HIDE DEF g
  <2>3. \A s \in SUBSET D : Cardinality(s) <= 0 => g[s] = Body(g, f, s)
    BY <2>1, <2>2 DEF Body
  <2> QED BY <2>2, <2>3 DEF HasPartialSum
<1>2. ASSUME NEW k \in Nat, Good(k)
      PROVE  Good(k + 1)
  <2>1. PICK g \in [SUBSET D -> Int] :
          \A s \in SUBSET D : Cardinality(s) <= k => g[s] = Body(g, f, s)
    BY <1>2 DEF HasPartialSum
  <2> DEFINE h == [s \in SUBSET D |-> Body(g, f, s)]
  <2>2. h \in [SUBSET D -> Int] /\ \A s \in SUBSET D : h[s] = Body(g, f, s)
    BY BodyInt
  <2> HIDE DEF h
  <2>3. ASSUME NEW s \in SUBSET D, Cardinality(s) <= k + 1
        PROVE  h[s] = Body(h, f, s)
    <3>1. CASE s = {}
      BY <2>2, <3>1 DEF Body
    <3>2. CASE s # {}
      <4> DEFINE r == s \ {Pick(s)}
      <4>1. Pick(s) \in s /\ r \in SUBSET D
        BY <3>2, BodyInt
      <4>2. Cardinality(r) <= k
        BY <1>0, <2>3, <4>1, FS_RemoveElement
      <4>3. h[r] = g[r]
        BY <2>1, <2>2, <4>1, <4>2
      <4> QED BY <2>2, <3>2, <4>3 DEF Body
    <3> QED BY <3>1, <3>2
  <2> QED BY <2>2, <2>3 DEF HasPartialSum
<1> HIDE DEF Good
<1>3. ASSUME bad # {}
      PROVE  FALSE
  <2>1. PICK m \in bad : \A k \in bad : m <= k
    BY <1>3, LeastNat
  <2>2. m # 0 /\ m \in Nat
    BY <1>1
  <2>3. m - 1 \in Nat /\ m - 1 \notin bad
    BY <2>1, <2>2
  <2>4. Good(m - 1)
    BY <2>3
  <2>5. Good((m - 1) + 1)
    BY <1>2, <2>3, <2>4
  <2>6. (m - 1) + 1 = m
    BY <2>2
  <2> QED BY <2>5, <2>6
<1>4. Good(n)
  BY <1>3
<1> QED BY <1>4 DEF Good

\* ... and so does the sum over D, which SumFunction is.
LEMMA SumExists ==
  ASSUME NEW D, IsFiniteSet(D), NEW f \in [D -> Int]
  PROVE  \E g : IsSum(g, f, D) /\ SumFunction(f) = g[D]
<1> DEFINE n == Cardinality(D)
<1>0. n \in Nat
  BY FS_CardinalityType
<1> HIDE DEF n
<1>1. PICK g \in [SUBSET D -> Int] :
        \A s \in SUBSET D : Cardinality(s) <= n => g[s] = Body(g, f, s)
  <2>1. HasPartialSum(D, f, n)
    BY <1>0, PartialSums
  <2> QED BY <2>1 DEF HasPartialSum
<1>2. \A s \in SUBSET D : g[s] = Body(g, f, s)
  BY <1>1, FS_Subset DEF n
<1> DEFINE Eq(h) == h = [s \in SUBSET D |->
                           IF s = {} THEN 0
                           ELSE f[CHOOSE x \in s : TRUE] + h[s \ {CHOOSE x \in s : TRUE}]]
           it == CHOOSE h : Eq(h)
<1>3. Eq(g)
  BY <1>1, <1>2 DEF Body, Pick
<1>4. Eq(it)
  BY <1>3
<1>5. SumFunction(f) = it[D]
  BY DEF SumFunction, SumFunctionOnSet, FoldFunctionOnSet, MapThenFoldSet
<1> HIDE DEF it
<1>6. \A s \in SUBSET D : it[s] = Body(it, f, s)
  BY <1>4 DEF Body, Pick
<1> DEFINE bad == {s \in SUBSET D : it[s] # g[s]}
<1>7. ASSUME bad # {}
      PROVE  FALSE
  <2>1. PICK s \in bad : \A y \in s : s \ {y} \notin bad
    BY <1>7, SmallestSet
  <2>2. CASE s = {}
    BY <1>2, <1>6, <2>1, <2>2 DEF Body
  <2>3. CASE s # {}
    <3>1. Pick(s) \in s /\ s \ {Pick(s)} \in SUBSET D
      BY <2>1, <2>3, BodyInt
    <3>2. it[s \ {Pick(s)}] = g[s \ {Pick(s)}]
      BY <2>1, <3>1
    <3> QED BY <1>2, <1>6, <2>1, <2>3, <3>2 DEF Body
  <2> QED BY <2>2, <2>3
<1>8. D \in SUBSET D /\ it[D] = g[D]
  BY <1>7
<1>9. IsSum(g, f, D)
  BY <1>2 DEF IsSum
<1> QED BY <1>5, <1>8, <1>9

-----------------------------------------------------------------------------
(* What it comes to. *)

\* Any summand may be taken out first.
LEMMA TakeOut ==
  ASSUME NEW D, IsFiniteSet(D), NEW f \in [D -> Int], NEW g, IsSum(g, f, D),
         NEW s \in SUBSET D, NEW y \in s
  PROVE  g[s] = f[y] + g[s \ {y}]
<1> DEFINE Fine(r) == \A z \in r : g[r] = f[z] + g[r \ {z}]
           bad == {r \in SUBSET D : ~Fine(r)}
<1>1. /\ g \in [SUBSET D -> Int]
      /\ \A r \in SUBSET D : g[r] = Body(g, f, r)
  BY DEF IsSum
<1>2. ASSUME bad # {}
      PROVE  FALSE
  <2>1. PICK r \in bad : \A z \in r : r \ {z} \notin bad
    BY <1>2, SmallestSet
  <2>2. PICK z \in r : g[r] # f[z] + g[r \ {z}]
    BY <2>1
  <2> DEFINE x == Pick(r)
  <2>3. x \in r /\ r \in SUBSET D
    BY <1>1, <2>1, <2>2, BodyInt
  <2>4. g[r] = f[x] + g[r \ {x}]
    BY <1>1, <2>2, <2>3 DEF Body
  <2> HIDE DEF x
  <2>5. x # z
    BY <2>2, <2>4
  <2>6. Fine(r \ {x}) /\ Fine(r \ {z})
    BY <2>1, <2>2, <2>3
  <2>7. g[r \ {x}] = f[z] + g[(r \ {x}) \ {z}]
    BY <2>2, <2>5, <2>6
  <2>8. g[r \ {z}] = f[x] + g[(r \ {z}) \ {x}]
    BY <2>3, <2>5, <2>6
  <2>9. (r \ {x}) \ {z} = (r \ {z}) \ {x}
    OBVIOUS
  <2>10. f[x] \in Int /\ f[z] \in Int /\ g[(r \ {x}) \ {z}] \in Int
    BY <1>1, <2>2, <2>3
  <2>11. g[r \ {z}] = f[x] + g[(r \ {x}) \ {z}]
    BY <2>8, <2>9
  <2>12. f[x] + (f[z] + g[(r \ {x}) \ {z}]) = f[z] + (f[x] + g[(r \ {x}) \ {z}])
    BY <2>10
  <2> QED BY <2>2, <2>4, <2>7, <2>11, <2>12
<1> QED BY <1>2

\* Sums of functions that agree are equal.
LEMMA Agree ==
  ASSUME NEW D, IsFiniteSet(D), NEW f \in [D -> Int], NEW h \in [D -> Int],
         NEW g, IsSum(g, f, D), NEW k, IsSum(k, h, D),
         NEW s \in SUBSET D, \A x \in s : f[x] = h[x]
  PROVE  g[s] = k[s]
<1> DEFINE bad == {r \in SUBSET s : g[r] # k[r]}
<1>0. IsFiniteSet(s)
  BY FS_Subset
<1>1. ASSUME bad # {}
      PROVE  FALSE
  <2>1. PICK r \in bad : \A z \in r : r \ {z} \notin bad
    BY <1>0, <1>1, SmallestSet
  <2>2. CASE r = {}
    BY <2>1, <2>2 DEF IsSum, Body
  <2>3. CASE r # {}
    <3>1. PICK z \in r : TRUE
      BY <2>3
    <3>2. g[r] = f[z] + g[r \ {z}] /\ k[r] = h[z] + k[r \ {z}]
      BY <2>1, <3>1, TakeOut
    <3> QED BY <2>1, <3>1, <3>2
  <2> QED BY <2>2, <2>3
<1> QED BY <1>1

\* The sum is a number.
LEMMA SumType ==
  ASSUME NEW D, IsFiniteSet(D), NEW f \in [D -> Int]
  PROVE  SumFunction(f) \in Int
<1>1. PICK g : IsSum(g, f, D) /\ SumFunction(f) = g[D]
  BY SumExists
<1>2. g[D] \in Int
  BY <1>1 DEF IsSum
<1> QED BY <1>1, <1>2

\* The sum of zeros.
LEMMA SumZero ==
  ASSUME NEW D, IsFiniteSet(D)
  PROVE  SumFunction([x \in D |-> 0]) = 0
<1> DEFINE f == [x \in D |-> 0]
           k == [s \in SUBSET D |-> 0]
<1>1. f \in [D -> Int] /\ \A x \in D : f[x] = 0
  OBVIOUS
<1>2. k \in [SUBSET D -> Int] /\ \A s \in SUBSET D : k[s] = 0
  OBVIOUS
<1> HIDE DEF f, k
<1>3. ASSUME NEW s \in SUBSET D
      PROVE  k[s] = Body(k, f, s)
  <2>1. s # {} => Pick(s) \in s
    BY <1>1, <1>2, BodyInt
  <2> QED BY <1>1, <1>2, <2>1 DEF Body
<1>4. IsSum(k, f, D)
  BY <1>2, <1>3 DEF IsSum
<1>5. PICK g : IsSum(g, f, D) /\ SumFunction(f) = g[D]
  BY <1>1, SumExists
<1>6. g[D] = k[D]
  BY <1>1, <1>4, <1>5, Agree
<1> QED BY <1>2, <1>5, <1>6 DEF f

\* One summand changes.
LEMMA SumChange ==
  ASSUME NEW D, IsFiniteSet(D), NEW f \in [D -> Int], NEW y \in D, NEW v \in Int
  PROVE  SumFunction([f EXCEPT ![y] = v]) = SumFunction(f) - f[y] + v
<1> DEFINE h == [f EXCEPT ![y] = v]
<1>1. h \in [D -> Int] /\ h[y] = v /\ \A x \in D \ {y} : h[x] = f[x]
  OBVIOUS
<1> HIDE DEF h
<1>2. PICK g : IsSum(g, f, D) /\ SumFunction(f) = g[D]
  BY SumExists
<1>3. PICK k : IsSum(k, h, D) /\ SumFunction(h) = k[D]
  BY <1>1, SumExists
<1>4. g[D] = f[y] + g[D \ {y}]
  BY <1>2, TakeOut
<1>5. k[D] = v + k[D \ {y}]
  BY <1>1, <1>3, TakeOut
<1>6. g[D \ {y}] = k[D \ {y}]
  BY <1>1, <1>2, <1>3, Agree
<1>7. g[D \ {y}] \in Int /\ f[y] \in Int
  BY <1>2 DEF IsSum
<1> QED BY <1>2, <1>3, <1>4, <1>5, <1>6, <1>7 DEF h

\* A sum of naturals is one, and at least each of them.
LEMMA SumNat ==
  ASSUME NEW D, IsFiniteSet(D), NEW f \in [D -> Nat]
  PROVE  SumFunction(f) \in Nat /\ \A y \in D : f[y] <= SumFunction(f)
<1>1. f \in [D -> Int]
  OBVIOUS
<1>2. PICK g : IsSum(g, f, D) /\ SumFunction(f) = g[D]
  BY <1>1, SumExists
<1> DEFINE bad == {r \in SUBSET D : g[r] \notin Nat}
<1>3. ASSUME bad # {}
      PROVE  FALSE
  <2>1. PICK r \in bad : \A z \in r : r \ {z} \notin bad
    BY <1>3, SmallestSet
  <2>2. CASE r = {}
    <3>1. g[{}] = Body(g, f, {})
      BY <1>2 DEF IsSum
    <3>2. g[{}] = 0
      BY <3>1 DEF Body
    <3> QED BY <2>1, <2>2, <3>2
  <2>3. CASE r # {}
    <3>1. PICK z \in r : TRUE
      BY <2>3
    <3>2. g[r] = f[z] + g[r \ {z}]
      BY <1>1, <1>2, <2>1, <3>1, TakeOut
    <3>3. g[r \ {z}] \in Nat /\ f[z] \in Nat
      BY <2>1, <3>1
    <3> QED BY <2>1, <3>2, <3>3
  <2> QED BY <2>2, <2>3
<1>4. ASSUME NEW y \in D
      PROVE  f[y] <= g[D]
  <2>1. g[D] = f[y] + g[D \ {y}]
    BY <1>1, <1>2, TakeOut
  <2>2. g[D \ {y}] \in Nat /\ f[y] \in Nat
    BY <1>3
  <2> QED BY <2>1, <2>2
<1>5. D \in SUBSET D /\ g[D] \in Nat
  BY <1>3
<1> QED BY <1>2, <1>4, <1>5
====
