----------------------------- MODULE ProofLemmas -----------------------------
(***************************************************************************)
(* Facts about arithmetic, finite sets, sums and sequences that the proofs *)
(* of the console, the resources and the file system share.                *)
(***************************************************************************)
EXTENDS Integers, Sequences, FiniteSets, FiniteSetsExt, SequenceTheorems, FunctionTheorems,
        FiniteSetTheorems, TLAPS

-----------------------------------------------------------------------------
(* Division with a remainder. *)

\* The quotient and the remainder of x by b.
LEMMA Euclid ==
  ASSUME NEW b \in Nat \ {0}, NEW x \in Int
  PROVE  /\ x \div b \in Int /\ x % b \in 0..b - 1
         /\ x = b * (x \div b) + (x % b)
  OBVIOUS

\* The only multiple of b nearer to 0 than b is 0.
LEMMA NoMultiple ==
  ASSUME NEW b \in Nat \ {0}, NEW q \in Int, b * q < b, -b < b * q
  PROVE  q = 0
<1>1. q >= 1 => b * q >= b
  OBVIOUS
<1>2. q <= -1 => b * q <= -b
  OBVIOUS
<1>3. QED
  BY <1>1, <1>2

\* A number in 0..b - 1 that differs from x by a multiple of b is x % b.
LEMMA Remainder ==
  ASSUME NEW b \in Nat \ {0}, NEW x \in Int, NEW q \in Int, NEW s \in 0..b - 1, x = b * q + s
  PROVE  x % b = s
<1>1. PICK k \in Int, t \in 0..b - 1 : x = b * k + t /\ t = x % b
  BY Euclid
<1>2. b * (q - k) = t - s
  BY <1>1
<1>3. b * (q - k) < b /\ -b < b * (q - k)
  BY <1>2
<1>4. q - k = 0
  BY <1>3, NoMultiple
<1>5. b * (q - k) = 0
  BY <1>4
<1>6. t = s
  BY <1>2, <1>5
<1>7. t = x % b
  BY <1>1
<1>8. QED
  BY <1>6, <1>7

\* Two numbers less than b apart with the same remainder are the same.
LEMMA Residues ==
  ASSUME NEW b \in Nat \ {0}, NEW x \in Int, NEW y \in Int, x % b = y % b, x - b < y, y < x + b
  PROVE  x = y
<1>1. PICK k \in Int, l \in Int : x = b * k + (x % b) /\ y = b * l + (y % b)
  BY Euclid
<1>2. b * (k - l) = x - y
  BY <1>1, Euclid
<1>3. k - l = 0
  BY <1>2, NoMultiple
<1>4. QED
  BY <1>1, <1>3

\* A remainder may be taken before an addition.
LEMMA ResidueSum ==
  ASSUME NEW b \in Nat \ {0}, NEW x \in Int, NEW y \in Int
  PROVE  ((x % b) + y) % b = (x + y) % b
<1>1. PICK k \in Int, s \in 0..b - 1 : x = b * k + s /\ s = x % b
  BY Euclid
<1>2. PICK l \in Int, t \in 0..b - 1 : x + y = b * l + t /\ t = (x + y) % b
  <2>1. x + y \in Int
    OBVIOUS
  <2>2. QED
    BY <2>1, Euclid
<1>3. s + y = b * (l - k) + t
  BY <1>1, <1>2
<1>4. s + y \in Int /\ l - k \in Int
  BY <1>1
<1>5. (s + y) % b = t
  BY <1>3, <1>4, Remainder
<1>6. QED
  BY <1>1, <1>2, <1>5

\* Every set of naturals has a least element, every bounded set of integers a greatest.
LEMMA Least ==
  ASSUME NEW T \in SUBSET Nat, T # {}
  PROVE  \E m \in T : \A n \in T : m <= n
<1>1. PICK m \in T : \A n \in T : <<n, m>> \notin OpToRel(<, Nat)
  BY NatLessThanWellFounded, WFMin, Zenon
<1>2. \A n \in T : ~(n < m)
  BY <1>1 DEF OpToRel
<1>3. QED
  BY <1>2

\* A bounded set of integers has a greatest element, and Max() chooses it.
LEMMA Greatest ==
  ASSUME NEW n \in Int, NEW m \in Int, NEW K \in SUBSET (m..n), K # {}
  PROVE  Max(K) \in K /\ \A k \in K : k <= Max(K)
<1> DEFINE D == {n - k : k \in K}
<1>1. \A k \in K : k \in Int /\ k <= n
  OBVIOUS
<1>2. D \in SUBSET Nat /\ D # {}
  BY <1>1
<1>3. PICK d \in D : \A c \in D : d <= c
  <2> HIDE DEF D
  <2> QED BY <1>2, Least
<1>4. PICK x \in K : d = n - x
  OBVIOUS
<1>5. ASSUME NEW k \in K PROVE x >= k
  <2>1. n - k \in D /\ k \in Int /\ x \in Int /\ n \in Int
    BY <1>1
  <2>2. d <= n - k
    BY <1>3, <2>1
  <2> HIDE DEF D
  <2>3. QED
    BY <1>4, <2>1, <2>2
<1>6. QED
  BY <1>1, <1>5 DEF Max

\* A bounded set of integers has a least element, and Min() chooses it.
LEMMA Lowest ==
  ASSUME NEW n \in Int, NEW m \in Int, NEW K \in SUBSET (m..n), K # {}
  PROVE  Min(K) \in K /\ \A k \in K : Min(K) <= k
<1> DEFINE D == {k - m : k \in K}
<1>1. \A k \in K : k \in Int /\ m <= k
  OBVIOUS
<1>2. D \in SUBSET Nat /\ D # {}
  BY <1>1
<1>3. PICK d \in D : \A c \in D : d <= c
  <2> HIDE DEF D
  <2> QED BY <1>2, Least
<1>4. PICK x \in K : d = x - m
  OBVIOUS
<1>5. ASSUME NEW k \in K PROVE x =< k
  <2>1. k - m \in D
    OBVIOUS
  <2>2. x - m <= k - m
    BY <2>1, <1>3, <1>4
  <2>3. QED
    BY <2>2, <1>1
<1>6. QED
  BY <1>1, <1>5 DEF Min


\* Among sets of parts of a finite set there is one that contains no other.
LEMMA SmallestSubset ==
  ASSUME NEW S, IsFiniteSet(S), NEW T \in SUBSET (SUBSET S), T # {}
  PROVE  \E m \in T : \A n \in T : n \subseteq m => n = m
<1>1. FiniteSubsetsOf(S) = SUBSET S
  BY FS_FiniteSubsetsOfFinite
<1>2. IsWellFoundedOn(StrictSubsetOrdering(S), SUBSET S)
  BY <1>1, FS_StrictSubsetOrderingWellFounded
<1>3. PICK m \in T : \A n \in T : <<n, m>> \notin StrictSubsetOrdering(S)
  BY <1>2, WFMin, Zenon
<1>4. \A n \in T : n \subseteq m => n = m
  BY <1>3 DEF StrictSubsetOrdering
<1>5. QED
  BY <1>4

-----------------------------------------------------------------------------
(* Sums over finite sets.  SumFunctionOnSet chooses a function that satisfies *)
(* a recursive equation: Adds is the equation.                                *)

Rest(s) == s \ {CHOOSE x \in s : TRUE}
SumBy(f, s, it) == IF s = {} THEN 0 ELSE f[CHOOSE x \in s : TRUE] + it[Rest(s)]
Adds(f, S, it) == it = [s \in SUBSET S |-> SumBy(f, s, it)]

\* SumFunctionOnSet() is a solution of the equation of sums, if there is one.
LEMMA SumUnfolded ==
  ASSUME NEW f, NEW S
  PROVE  SumFunctionOnSet(f, S) = (CHOOSE it : Adds(f, S, it))[S]
  BY Zenon DEF SumFunctionOnSet, FoldFunctionOnSet, MapThenFoldSet, Adds, SumBy, Rest

\* A set without its chosen element is smaller.
LEMMA RestSmaller ==
  ASSUME NEW s, s # {}
  PROVE  Rest(s) \subseteq s /\ Rest(s) # s /\ (CHOOSE x \in s : TRUE) \in s
  BY DEF Rest

\* Two solutions agree where both are defined.
LEMMA AddsOnce ==
  ASSUME NEW f, NEW A, IsFiniteSet(A), NEW B, NEW it, Adds(f, A, it), NEW jt, Adds(f, B, jt)
  PROVE  \A s \in SUBSET (A \cap B) : it[s] = jt[s]
<1> DEFINE T == {s \in SUBSET (A \cap B) : it[s] # jt[s]}
<1>1. SUFFICES ASSUME T # {} PROVE FALSE
  OBVIOUS
<1>2. PICK m \in T : \A n \in T : n \subseteq m => n = m
  <2>1. T \in SUBSET (SUBSET A)
    OBVIOUS
  <2> HIDE DEF T
  <2> QED BY <1>1, <2>1, SmallestSubset
<1>3. it[m] = SumBy(f, m, it) /\ jt[m] = SumBy(f, m, jt)
  <2>1. m \in SUBSET A /\ m \in SUBSET B
    OBVIOUS
  <2>2. [s \in SUBSET A |-> SumBy(f, s, it)][m] = SumBy(f, m, it)
    BY <2>1
  <2>3. [s \in SUBSET B |-> SumBy(f, s, jt)][m] = SumBy(f, m, jt)
    BY <2>1
  <2>4. QED
    BY <2>2, <2>3, Zenon DEF Adds
<1>4. m # {}
  BY <1>3 DEF SumBy
<1>5. it[Rest(m)] = jt[Rest(m)]
  BY <1>2, <1>4, RestSmaller
<1>6. QED
  BY <1>3, <1>4, <1>5 DEF SumBy

\* What a solution says about one set.
LEMMA SumStep ==
  ASSUME NEW f, NEW S, IsFiniteSet(S), \E it : Adds(f, S, it)
  PROVE  \A s \in SUBSET S :
           SumFunctionOnSet(f, s) =
             IF s = {} THEN 0 ELSE f[CHOOSE x \in s : TRUE] + SumFunctionOnSet(f, Rest(s))
<1>1. PICK it : Adds(f, S, it)
  OBVIOUS
<1>2. ASSUME NEW s \in SUBSET S PROVE SumFunctionOnSet(f, s) = it[s]
  <2>1. IsFiniteSet(s)
    BY FS_Subset
  <2> DEFINE jt == [u \in SUBSET s |-> it[u]]
  <2>2. Adds(f, s, jt)
    <3>1. ASSUME NEW u \in SUBSET s PROVE it[u] = SumBy(f, u, jt)
      <4>1. it[u] = SumBy(f, u, it)
        <5>1. u \in SUBSET S
          OBVIOUS
        <5>2. [x \in SUBSET S |-> SumBy(f, x, it)][u] = SumBy(f, u, it)
          BY <5>1
        <5>3. QED
          BY <1>1, <5>2, Zenon DEF Adds
      <4>2. u # {} => Rest(u) \in SUBSET s
        BY RestSmaller
      <4>3. QED
        BY <4>1, <4>2 DEF SumBy
    <3>2. jt = [u \in SUBSET s |-> SumBy(f, u, jt)]
      BY <3>1
    <3> HIDE DEF jt
    <3>3. QED
      BY <3>2 DEF Adds
  <2> DEFINE kt == CHOOSE kt : Adds(f, s, kt)
  <2>3. Adds(f, s, kt)
    <3> HIDE DEF jt
    <3> QED BY <2>2
  <2>4. kt[s] = it[s]
    <3> HIDE DEF kt
    <3> QED BY <1>1, <2>1, <2>3, AddsOnce
  <2>5. QED
    BY <2>4, SumUnfolded
<1>3. ASSUME NEW s \in SUBSET S
      PROVE  it[s] = IF s = {} THEN 0 ELSE f[CHOOSE x \in s : TRUE] + it[Rest(s)]
  <2>1. [x \in SUBSET S |-> SumBy(f, x, it)][s] = SumBy(f, s, it)
    OBVIOUS
  <2>2. it[s] = SumBy(f, s, it)
    BY <1>1, <2>1, Zenon DEF Adds
  <2>3. QED
    BY <2>2 DEF SumBy
<1>4. \A s \in SUBSET S : s # {} => Rest(s) \in SUBSET S
  BY RestSmaller
<1>5. QED
  BY <1>2, <1>3, <1>4

\* The equation of sums has a solution for every finite set: a smallest set
\* without one would be its chosen element and a set that has one.
LEMMA SumSolvable ==
  ASSUME NEW f, NEW S, IsFiniteSet(S)
  PROVE  \E it : Adds(f, S, it)
<1> DEFINE T == {s \in SUBSET S : ~\E it : Adds(f, s, it)}
<1>1. SUFFICES ASSUME T # {} PROVE FALSE
  OBVIOUS
<1>2. PICK m \in T : \A n \in T : n \subseteq m => n = m
  <2> HIDE DEF T
  <2>1. T \in SUBSET (SUBSET S)
    BY DEF T
  <2> QED BY <1>1, <2>1, SmallestSubset
<1>3. ASSUME NEW s \in SUBSET m, s # m
      PROVE  SumFunctionOnSet(f, s) =
               IF s = {} THEN 0 ELSE f[CHOOSE x \in s : TRUE] + SumFunctionOnSet(f, Rest(s))
  <2>1. \E it : Adds(f, s, it)
    BY <1>2, <1>3
  <2>2. IsFiniteSet(s)
    BY FS_Subset
  <2>3. s \in SUBSET s
    OBVIOUS
  <2>4. QED
    BY <2>1, <2>2, <2>3, SumStep
<1> DEFINE it == [s \in SUBSET m |->
                    IF s = {} THEN 0
                    ELSE f[CHOOSE x \in s : TRUE] + SumFunctionOnSet(f, Rest(s))]
<1>4. ASSUME NEW s \in SUBSET m PROVE it[s] = SumBy(f, s, it)
  <2>1. CASE s = {}
    BY <2>1 DEF SumBy
  <2>2. CASE s # {}
    <3>1. Rest(s) \in SUBSET m /\ Rest(s) # m
      BY <2>2, RestSmaller
    <3>2. it[Rest(s)] = SumFunctionOnSet(f, Rest(s))
      <4>1. it[Rest(s)] = IF Rest(s) = {} THEN 0
                          ELSE f[CHOOSE x \in Rest(s) : TRUE]
                               + SumFunctionOnSet(f, Rest(Rest(s)))
        BY <3>1
      <4>2. QED
        BY <3>1, <4>1, <1>3
    <3>3. it[s] = f[CHOOSE x \in s : TRUE] + SumFunctionOnSet(f, Rest(s))
      BY <2>2
    <3> HIDE DEF it
    <3>4. QED
      BY <2>2, <3>2, <3>3 DEF SumBy
  <2>3. QED
    BY <2>1, <2>2
<1>5. it = [s \in SUBSET m |-> SumBy(f, s, it)]
  BY <1>4
<1>6. Adds(f, m, it)
  <2> HIDE DEF it
  <2> QED BY <1>5 DEF Adds
<1>7. QED
  BY <1>2, <1>6

\* The sum over no element.
LEMMA SumEmpty ==
  ASSUME NEW f
  PROVE  SumFunctionOnSet(f, {}) = 0
<1>1. \E it : Adds(f, {}, it)
  BY FS_EmptySet, SumSolvable
<1>2. {} \in SUBSET {}
  OBVIOUS
<1>3. QED
  BY <1>1, <1>2, FS_EmptySet, SumStep

\* A sum is one of its terms and the sum of the others.
LEMMA SumChosen ==
  ASSUME NEW f, NEW S, IsFiniteSet(S), S # {}
  PROVE  \E x \in S : SumFunctionOnSet(f, S) = f[x] + SumFunctionOnSet(f, S \ {x})
<1>1. \E it : Adds(f, S, it)
  BY SumSolvable
<1>2. S \in SUBSET S
  OBVIOUS
<1>3. SumFunctionOnSet(f, S) = f[CHOOSE x \in S : TRUE] + SumFunctionOnSet(f, Rest(S))
  BY <1>1, <1>2, SumStep
<1>4. (CHOOSE x \in S : TRUE) \in S
  OBVIOUS
<1>5. QED
  BY <1>3, <1>4 DEF Rest

\* From here on f gives integers.
LEMMA SumType ==
  ASSUME NEW S, IsFiniteSet(S), NEW f, \A x \in S : f[x] \in Int
  PROVE  /\ SumFunctionOnSet(f, S) \in Int
         /\ (\A x \in S : f[x] >= 0) => SumFunctionOnSet(f, S) >= 0
         /\ (\A x \in S : f[x] = 0) => SumFunctionOnSet(f, S) = 0
<1> DEFINE Good(s) == /\ SumFunctionOnSet(f, s) \in Int
                      /\ (\A x \in S : f[x] >= 0) => SumFunctionOnSet(f, s) >= 0
                      /\ (\A x \in S : f[x] = 0) => SumFunctionOnSet(f, s) = 0
           T == {s \in SUBSET S : ~Good(s)}
<1>1. SUFFICES ASSUME T # {} PROVE FALSE
  OBVIOUS
<1>2. PICK m \in T : \A n \in T : n \subseteq m => n = m
  <2> HIDE DEF T
  <2>1. T \in SUBSET (SUBSET S)
    BY DEF T
  <2> QED BY <1>1, <2>1, SmallestSubset
<1>3. m # {}
  BY SumEmpty
<1>4. IsFiniteSet(m)
  BY FS_Subset
<1>5. PICK x \in m : SumFunctionOnSet(f, m) = f[x] + SumFunctionOnSet(f, m \ {x})
  BY <1>3, <1>4, SumChosen
<1>6. Good(m \ {x})
  <2>1. m \ {x} \in SUBSET S /\ m \ {x} # m /\ m \ {x} \subseteq m
    OBVIOUS
  <2> HIDE DEF Good
  <2>2. QED
    BY <1>2, <2>1
<1>7. f[x] \in Int
  OBVIOUS
<1>8. Good(m)
  BY <1>5, <1>6, <1>7
<1>9. QED
  BY <1>8

\* g gives what f gives, except at c.
LEMMA SumUpdate ==
  ASSUME NEW S, IsFiniteSet(S), NEW f, \A x \in S : f[x] \in Int,
         NEW g, \A x \in S : g[x] \in Int, NEW c, \A x \in S \ {c} : g[x] = f[x]
  PROVE  SumFunctionOnSet(g, S) =
           SumFunctionOnSet(f, S) + (IF c \in S THEN g[c] - f[c] ELSE 0)
<1> DEFINE Good(s) == SumFunctionOnSet(g, s) =
                        SumFunctionOnSet(f, s) + (IF c \in s THEN g[c] - f[c] ELSE 0)
           T == {s \in SUBSET S : ~Good(s)}
<1>1. SUFFICES ASSUME T # {} PROVE FALSE
  OBVIOUS
<1>2. PICK m \in T : \A n \in T : n \subseteq m => n = m
  <2> HIDE DEF T
  <2>1. T \in SUBSET (SUBSET S)
    BY DEF T
  <2> QED BY <1>1, <2>1, SmallestSubset
<1>3. m # {}
  <2>1. Good({})
    BY SumEmpty
  <2>2. QED
    BY <2>1
<1>4. IsFiniteSet(m)
  BY FS_Subset
<1>5. \E it : Adds(f, m, it)
  BY <1>4, SumSolvable
<1>6. \E it : Adds(g, m, it)
  BY <1>4, SumSolvable
<1> DEFINE x == CHOOSE x \in m : TRUE
<1>7. x \in m /\ m \in SUBSET m
  BY <1>3
<1>8. /\ SumFunctionOnSet(f, m) = f[x] + SumFunctionOnSet(f, m \ {x})
      /\ SumFunctionOnSet(g, m) = g[x] + SumFunctionOnSet(g, m \ {x})
  BY <1>3, <1>4, <1>5, <1>6, <1>7, SumStep DEF Rest
<1> HIDE DEF x
<1>9. Good(m \ {x})
  <2>1. m \ {x} \in SUBSET S /\ m \ {x} # m /\ m \ {x} \subseteq m
    BY <1>7
  <2> HIDE DEF Good
  <2>2. QED
    BY <1>2, <2>1
<1>10. /\ SumFunctionOnSet(f, m \ {x}) \in Int
       /\ f[x] \in Int /\ g[x] \in Int
  <2>1. IsFiniteSet(m \ {x})
    BY <1>4, FS_Subset
  <2>2. \A y \in m \ {x} : f[y] \in Int
    OBVIOUS
  <2>3. QED
    BY <1>7, <2>1, <2>2, SumType
<1>11. Good(m)
  <2>1. CASE x = c
    BY <2>1, <1>7, <1>8, <1>9, <1>10
  <2>2. CASE x # c
    <3>1. g[x] = f[x] /\ (c \in m <=> c \in m \ {x})
      BY <2>2, <1>7
    <3>2. c \in m => f[c] \in Int /\ g[c] \in Int
      OBVIOUS
    <3>3. QED
      BY <3>1, <3>2, <1>8, <1>9, <1>10
  <2>3. QED
    BY <2>1, <2>2
<1>12. QED
  BY <1>11

\* A sum of naturals is at least any one of them, and any two.
LEMMA SumLower ==
  ASSUME NEW S, IsFiniteSet(S), NEW f \in [S -> Nat], NEW a \in S, NEW b \in S
  PROVE  /\ f[a] <= SumFunctionOnSet(f, S)
         /\ a # b => f[a] + f[b] <= SumFunctionOnSet(f, S)
<1> DEFINE g == [f EXCEPT ![a] = 0]
           h == [g EXCEPT ![b] = 0]
<1>1. g \in [S -> Nat] /\ h \in [S -> Nat]
  OBVIOUS
<1>2. /\ g[a] = 0 /\ \A x \in S \ {a} : g[x] = f[x]
      /\ h[b] = 0 /\ \A x \in S \ {b} : h[x] = g[x]
  OBVIOUS
<1> HIDE DEF g, h
<1>3. SumFunctionOnSet(g, S) = SumFunctionOnSet(f, S) - f[a]
  <2>1. SumFunctionOnSet(g, S) = SumFunctionOnSet(f, S) + (g[a] - f[a])
    BY <1>1, <1>2, SumUpdate
  <2>2. QED
    BY <2>1, <1>2, SumType
<1>4. SumFunctionOnSet(h, S) = SumFunctionOnSet(g, S) - g[b]
  <2>1. SumFunctionOnSet(h, S) = SumFunctionOnSet(g, S) + (h[b] - g[b])
    BY <1>1, <1>2, SumUpdate
  <2>2. SumFunctionOnSet(g, S) \in Int
    BY <1>1, SumType
  <2>3. QED
    BY <2>1, <2>2, <1>1, <1>2
<1>5. SumFunctionOnSet(g, S) >= 0 /\ SumFunctionOnSet(h, S) >= 0
  <2>1. \A x \in S : g[x] \in Int /\ g[x] >= 0 /\ h[x] \in Int /\ h[x] >= 0
    BY <1>1
  <2>2. QED
    BY <2>1, SumType
<1>6. SumFunctionOnSet(f, S) \in Int /\ SumFunctionOnSet(g, S) \in Int
  BY <1>1, SumType
<1>7. QED
  BY <1>1, <1>2, <1>3, <1>4, <1>5, <1>6

\* A function that is 1 everywhere adds up to the number of the elements.
LEMMA SumOnes ==
  ASSUME NEW S, IsFiniteSet(S), NEW f, \A x \in S : f[x] = 1
  PROVE  SumFunctionOnSet(f, S) = Cardinality(S)
<1> DEFINE Good(s) == SumFunctionOnSet(f, s) = Cardinality(s)
           T == {s \in SUBSET S : ~Good(s)}
<1>1. SUFFICES ASSUME T # {} PROVE FALSE
  OBVIOUS
<1>2. PICK m \in T : \A n \in T : n \subseteq m => n = m
  <2> HIDE DEF T
  <2>1. T \in SUBSET (SUBSET S)
    BY DEF T
  <2> QED BY <1>1, <2>1, SmallestSubset
<1>3. m # {}
  BY SumEmpty, FS_EmptySet
<1>4. IsFiniteSet(m)
  BY FS_Subset
<1>5. PICK x \in m : SumFunctionOnSet(f, m) = f[x] + SumFunctionOnSet(f, m \ {x})
  BY <1>3, <1>4, SumChosen
<1>6. Good(m \ {x})
  <2>1. m \ {x} \in SUBSET S /\ m \ {x} # m /\ m \ {x} \subseteq m
    OBVIOUS
  <2> HIDE DEF Good
  <2>2. QED
    BY <1>2, <2>1
<1>7. Cardinality(m \ {x}) = Cardinality(m) - 1 /\ Cardinality(m) \in Nat
  BY <1>4, FS_RemoveElement, FS_CardinalityType
<1>8. f[x] = 1
  OBVIOUS
<1>9. Good(m)
  <2>1. SumFunctionOnSet(f, m \ {x}) = Cardinality(m) - 1
    BY <1>6, <1>7
  <2>2. QED
    BY <1>5, <1>7, <1>8, <2>1
<1>10. QED
  BY <1>9

\* A function that is at most k on A, and 0 elsewhere, adds up to at most k for
\* each element of A.
LEMMA SumAtMost ==
  ASSUME NEW S, IsFiniteSet(S), NEW f, NEW A, NEW k \in Nat,
         \A x \in S : f[x] \in Int /\ f[x] <= IF x \in A THEN k ELSE 0
  PROVE  SumFunctionOnSet(f, S) <= k * Cardinality(S \cap A)
<1> DEFINE Good(s) == SumFunctionOnSet(f, s) <= k * Cardinality(s \cap A)
           T == {s \in SUBSET S : ~Good(s)}
<1>1. SUFFICES ASSUME T # {} PROVE FALSE
  OBVIOUS
<1>2. PICK m \in T : \A n \in T : n \subseteq m => n = m
  <2> HIDE DEF T
  <2>1. T \in SUBSET (SUBSET S)
    BY DEF T
  <2> QED BY <1>1, <2>1, SmallestSubset
<1>3. m # {}
  <2>1. {} \cap A = {} /\ Cardinality({}) = 0
    BY FS_EmptySet
  <2>2. SumFunctionOnSet(f, {}) = 0 /\ k * 0 = 0
    BY SumEmpty
  <2>3. Good({})
    BY <2>1, <2>2
  <2>4. QED
    BY <2>3
<1>4. IsFiniteSet(m)
  BY FS_Subset
<1>5. PICK x \in m : SumFunctionOnSet(f, m) = f[x] + SumFunctionOnSet(f, m \ {x})
  BY <1>3, <1>4, SumChosen
<1>6. Good(m \ {x})
  <2>1. m \ {x} \in SUBSET S /\ m \ {x} # m /\ m \ {x} \subseteq m
    OBVIOUS
  <2> HIDE DEF Good
  <2>2. QED
    BY <1>2, <2>1
<1> DEFINE a == SumFunctionOnSet(f, m \ {x})
           c == Cardinality((m \ {x}) \cap A)
           d == Cardinality(m \cap A)
<1>7. a \in Int
  <2>1. IsFiniteSet(m \ {x}) /\ \A y \in m \ {x} : f[y] \in Int
    BY <1>4, FS_Subset
  <2>2. QED
    BY <2>1, SumType
<1>8. c \in Nat /\ d \in Nat /\ d = IF x \in A THEN c + 1 ELSE c
  <2>1. IsFiniteSet(m \cap A) /\ IsFiniteSet((m \ {x}) \cap A)
    BY <1>4, FS_Subset
  <2>2. c \in Nat /\ d \in Nat
    BY <2>1, FS_CardinalityType
  <2>3. CASE x \in A
    <3> DEFINE B == m \cap A
    <3>1. (m \ {x}) \cap A = B \ {x} /\ x \in B
      BY <2>3
    <3>2. IsFiniteSet(B)
      BY <2>1
    <3> HIDE DEF B
    <3>3. Cardinality(B \ {x}) = Cardinality(B) - 1
      BY <3>1, <3>2, FS_RemoveElement
    <3>4. c = d - 1
      BY <3>1, <3>3 DEF B
    <3>5. QED
      BY <2>2, <2>3, <3>4
  <2>4. CASE x \notin A
    <3>1. (m \ {x}) \cap A = m \cap A
      BY <2>4
    <3>2. QED
      BY <2>2, <2>4, <3>1
  <2>5. QED
    BY <2>3, <2>4
<1>9. f[x] \in Int /\ f[x] <= IF x \in A THEN k ELSE 0
  OBVIOUS
<1>10. a <= k * c /\ SumFunctionOnSet(f, m) = f[x] + a
  BY <1>5, <1>6
<1> HIDE DEF a, c, d
<1>11. k * c \in Int /\ k * d \in Int /\ k * d = IF x \in A THEN k * c + k ELSE k * c
  BY <1>8
<1>12. f[x] + a <= k * d
  BY <1>7, <1>9, <1>10, <1>11
<1>13. Good(m)
  BY <1>10, <1>12 DEF d
<1>14. QED
  BY <1>13

=============================================================================
