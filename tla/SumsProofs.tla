----------------------------- MODULE SumsProofs -----------------------------
(***************************************************************************)
(* What holds of sums over finite sets.  The definition recurs over the    *)
(* subsets and always takes out the element CHOOSE gives; that it has a    *)
(* solution at all, and that any element may be taken out first, is shown  *)
(* by looking at a least subset for which it fails.                        *)
(***************************************************************************)
EXTENDS Sums, FiniteSetTheorems, TLAPS

\* A non-empty family of subsets of a finite set has a least member.
LEMMA LeastSubset ==
  ASSUME NEW S, IsFiniteSet(S), NEW F, F \subseteq SUBSET S, F # {}
  PROVE  \E m \in F : \A u \in F : u \subseteq m => u = m
  <1>1. IsWellFoundedOn(StrictSubsetOrdering(S), FiniteSubsetsOf(S))
    BY FS_StrictSubsetOrderingWellFounded
  <1>2. F \subseteq FiniteSubsetsOf(S)
    BY FS_Subset DEF FiniteSubsetsOf
  <1>3. PICK m \in F : \A u \in F : ~ (<<u, m>> \in StrictSubsetOrdering(S))
    BY <1>1, <1>2, WFMin
  <1> QED
    BY <1>3 DEF StrictSubsetOrdering

-----------------------------------------------------------------------------
(* The recursion.                                                          *)

First(s) == CHOOSE x \in s : TRUE
Rest(s) == s \ {First(s)}

\* g gives the sums of f over the subsets of S.
Solves(g, f, S) ==
  g = [s \in SUBSET S |-> IF s = {} THEN 0 ELSE f[First(s)] + g[Rest(s)]]

Solution(f, S) == CHOOSE g : Solves(g, f, S)

\* What the library's fold amounts to.
LEMMA SumIsSolution ==
  ASSUME NEW f, NEW S
  PROVE  SumOver(f, S) = Solution(f, S)[S]
  BY DEF SumOver, MapThenSumSet, MapThenFoldSet, Solution, Solves, First, Rest

\* Taking out the first element leaves a smaller set.
LEMMA RestIsSmaller ==
  ASSUME NEW s, s # {}
  PROVE  First(s) \in s /\ Rest(s) \subseteq s /\ Rest(s) # s
  BY DEF First, Rest

\* Solutions agree wherever both are defined.
LEMMA SolutionsAgree ==
  ASSUME NEW f, NEW S, IsFiniteSet(S), NEW T \in SUBSET S,
         NEW g, Solves(g, f, S), NEW h, Solves(h, f, T)
  PROVE  \A s \in SUBSET T : g[s] = h[s]
  <1> DEFINE F == {s \in SUBSET T : g[s] # h[s]}
  <1> SUFFICES ASSUME F # {} PROVE FALSE
    OBVIOUS
  <1>1. IsFiniteSet(T)
    BY FS_Subset
  <1>2. PICK m \in F : \A u \in F : u \subseteq m => u = m
    <2> HIDE DEF F
    <2>1. F \subseteq SUBSET T
      BY DEF F
    <2> QED
      BY <1>1, <2>1, LeastSubset
  <1>3. \A s \in SUBSET T :
          /\ g[s] = IF s = {} THEN 0 ELSE f[First(s)] + g[Rest(s)]
          /\ h[s] = IF s = {} THEN 0 ELSE f[First(s)] + h[Rest(s)]
    BY DEF Solves
  <1>4. m # {}
    BY <1>2, <1>3
  <1>5. Rest(m) \in SUBSET T /\ Rest(m) \subseteq m /\ Rest(m) # m
    BY <1>4, RestIsSmaller
  <1>6. g[Rest(m)] = h[Rest(m)]
    BY <1>2, <1>5
  <1> QED
    BY <1>2, <1>3, <1>6

\* There is a solution for every finite set.
LEMMA SolutionExists ==
  ASSUME NEW f, NEW S, IsFiniteSet(S)
  PROVE  Solves(Solution(f, S), f, S)
  <1> DEFINE F == {s \in SUBSET S : ~ Solves(Solution(f, s), f, s)}
  <1> SUFFICES ASSUME F # {} PROVE FALSE
    OBVIOUS
  <1>1. PICK m \in F : \A u \in F : u \subseteq m => u = m
    <2> HIDE DEF F
    <2>1. F \subseteq SUBSET S
      BY DEF F
    <2> QED
      BY <2>1, LeastSubset
  <1>2. \A s \in SUBSET m : s # m => Solves(Solution(f, s), f, s)
    BY <1>1
  <1>3. IsFiniteSet(m)
    BY <1>1, FS_Subset
  <1> DEFINE value(s) == IF s = {} THEN 0 ELSE f[First(s)] + Solution(f, Rest(s))[Rest(s)]
             g == [s \in SUBSET m |-> value(s)]
  <1>4. ASSUME NEW s \in SUBSET m, s # {}
        PROVE  g[Rest(s)] = Solution(f, Rest(s))[Rest(s)]
    <2> DEFINE r == Rest(s)
    <2>1. r \in SUBSET m /\ r # m
      BY <1>4, RestIsSmaller
    <2>2. Solves(Solution(f, r), f, r)
      BY <1>2, <2>1
    <2>3. Solution(f, r)[r] = IF r = {} THEN 0 ELSE f[First(r)] + Solution(f, r)[Rest(r)]
      BY <2>2 DEF Solves
    <2>4. CASE r = {}
      BY <2>1, <2>3, <2>4
    <2>5. CASE r # {}
      <3> DEFINE q == Rest(r)
      <3>1. q \in SUBSET r /\ q # m
        BY <2>1, <2>5, RestIsSmaller
      <3>2. Solves(Solution(f, q), f, q)
        BY <1>2, <2>1, <3>1
      <3>3. IsFiniteSet(r)
        BY <1>3, <2>1, FS_Subset
      <3>4. \A t \in SUBSET q : Solution(f, r)[t] = Solution(f, q)[t]
        <4> HIDE DEF r, q
        <4> QED
          BY <2>2, <3>1, <3>2, <3>3, SolutionsAgree
      <3> QED
        BY <2>1, <2>3, <2>5, <3>4
    <2> QED
      BY <2>4, <2>5
  <1>5. \A s \in SUBSET m : g[s] = IF s = {} THEN 0 ELSE f[First(s)] + g[Rest(s)]
    BY <1>4
  <1>6. Solves(g, f, m)
    <2>1. g = [s \in SUBSET m |-> g[s]]
      OBVIOUS
    <2>2. g = [s \in SUBSET m |-> IF s = {} THEN 0 ELSE f[First(s)] + g[Rest(s)]]
      <3> HIDE DEF g
      <3> QED
        BY <1>5, <2>1
    <2> QED
      BY <2>2 DEF Solves
  <1>7. Solves(Solution(f, m), f, m)
    <2> HIDE DEF g
    <2> QED
      BY <1>6 DEF Solution
  <1> QED
    BY <1>1, <1>7
-----------------------------------------------------------------------------
(* Sums.                                                                   *)

\* Nothing adds up to nothing.
LEMMA SumOfNone ==
  ASSUME NEW f
  PROVE  SumOver(f, {}) = 0
  <1>1. Solves(Solution(f, {}), f, {})
    BY SolutionExists, FS_EmptySet
  <1>2. {} \in SUBSET {}
    OBVIOUS
  <1>3. Solution(f, {})[{}] = 0
    BY <1>1, <1>2 DEF Solves
  <1> QED
    BY <1>3, SumIsSolution

\* The recursion, for the element CHOOSE gives.
LEMMA SumWithFirst ==
  ASSUME NEW f, NEW S, IsFiniteSet(S), S # {}
  PROVE  SumOver(f, S) = f[First(S)] + SumOver(f, Rest(S))
  <1>1. Solves(Solution(f, S), f, S)
    BY SolutionExists
  <1>2. Rest(S) \in SUBSET S /\ IsFiniteSet(Rest(S))
    BY RestIsSmaller, FS_Subset
  <1>3. Solves(Solution(f, Rest(S)), f, Rest(S))
    BY <1>2, SolutionExists
  <1>4. Solution(f, S)[Rest(S)] = Solution(f, Rest(S))[Rest(S)]
    <2>1. \A s \in SUBSET Rest(S) : Solution(f, S)[s] = Solution(f, Rest(S))[s]
      BY <1>1, <1>2, <1>3, SolutionsAgree
    <2> QED
      BY <2>1
  <1>5. Solution(f, S)[S] = f[First(S)] + Solution(f, S)[Rest(S)]
    BY <1>1 DEF Solves
  <1> QED
    BY <1>4, <1>5, SumIsSolution

\* A sum of natural numbers is one.
LEMMA SumIsNatural ==
  ASSUME NEW f, NEW S, IsFiniteSet(S), \A x \in S : f[x] \in Nat
  PROVE  SumOver(f, S) \in Nat
  <1> DEFINE F == {s \in SUBSET S : SumOver(f, s) \notin Nat}
  <1> SUFFICES ASSUME F # {} PROVE FALSE
    OBVIOUS
  <1>1. PICK m \in F : \A u \in F : u \subseteq m => u = m
    <2> HIDE DEF F
    <2>1. F \subseteq SUBSET S
      BY DEF F
    <2> QED
      BY <2>1, LeastSubset
  <1>2. m # {} /\ IsFiniteSet(m) /\ m \subseteq S
    <2>1. m \in SUBSET S /\ SumOver(f, m) \notin Nat
      BY <1>1
    <2>2. SumOver(f, {}) \in Nat
      BY SumOfNone
    <2> HIDE DEF F
    <2> QED
      BY <2>1, <2>2, FS_Subset
  <1>3. First(m) \in m /\ Rest(m) \subseteq m /\ Rest(m) # m
    BY <1>2, RestIsSmaller
  <1>4. SumOver(f, Rest(m)) \in Nat
    BY <1>1, <1>2, <1>3
  <1>5. SumOver(f, m) = f[First(m)] + SumOver(f, Rest(m))
    BY <1>2, SumWithFirst
  <1>6. SumOver(f, m) \in Nat
    BY <1>2, <1>3, <1>4, <1>5
  <1> QED
    BY <1>1, <1>6

\* Any element may be taken out first.
LEMMA SumWithElement ==
  ASSUME NEW f, NEW S, IsFiniteSet(S), \A x \in S : f[x] \in Nat, NEW e \in S
  PROVE  SumOver(f, S) = f[e] + SumOver(f, S \ {e})
  <1> DEFINE Holds(s) == \A x \in s : SumOver(f, s) = f[x] + SumOver(f, s \ {x})
             F == {s \in SUBSET S : ~ Holds(s)}
  <1> SUFFICES ASSUME F # {} PROVE FALSE
    OBVIOUS
  <1>1. PICK m \in F : \A u \in F : u \subseteq m => u = m
    <2> HIDE DEF F
    <2>1. F \subseteq SUBSET S
      BY DEF F
    <2> QED
      BY <2>1, LeastSubset
  <1>2. m \in SUBSET S /\ IsFiniteSet(m)
    BY <1>1, FS_Subset
  <1>3. \A s \in SUBSET m : s # m => Holds(s)
    BY <1>1
  <1>4. ASSUME NEW x \in m PROVE SumOver(f, m) = f[x] + SumOver(f, m \ {x})
    <2> DEFINE y == First(m)
    <2>1. y \in m /\ SumOver(f, m) = f[y] + SumOver(f, m \ {y})
      BY <1>2, <1>4, RestIsSmaller, SumWithFirst DEF Rest
    <2> HIDE DEF y
    <2>2. CASE x = y
      BY <2>1, <2>2
    <2>3. CASE x # y
      <3> DEFINE my == m \ {y}
                 mx == m \ {x}
                 mxy == mx \ {y}
      <3>1. my \ {x} = mxy
        OBVIOUS
      <3>2. SumOver(f, my) = f[x] + SumOver(f, mxy)
        BY <1>3, <1>4, <2>1, <2>3, <3>1
      <3>3. SumOver(f, mx) = f[y] + SumOver(f, mxy)
        BY <1>3, <1>4, <2>1, <2>3
      <3>4. SumOver(f, mxy) \in Nat
        <4>1. mxy \in SUBSET S
          BY <1>2
        <4> HIDE DEF F, Holds, mxy
        <4> QED
          BY <4>1, FS_Subset, SumIsNatural
      <3>5. f[x] \in Nat /\ f[y] \in Nat
        BY <1>2, <1>4, <2>1
      <3>6. SumOver(f, m) = f[y] + SumOver(f, my)
        BY <2>1
      <3>7. SumOver(f, m) = f[x] + SumOver(f, mx)
        <4> HIDE DEF F, Holds, mx, my, mxy
        <4> QED
          BY <3>2, <3>3, <3>4, <3>5, <3>6
      <3> QED
        BY <3>7
    <2> QED
      BY <2>2, <2>3
  <1> QED
    BY <1>1, <1>4

\* More elements with values that are no smaller make a sum no smaller.
LEMMA SumsGrow ==
  ASSUME NEW f, NEW g, NEW S, NEW T, IsFiniteSet(T), S \subseteq T,
         \A x \in T : g[x] \in Nat,
         \A x \in S : f[x] \in Nat /\ f[x] <= g[x]
  PROVE  SumOver(f, S) <= SumOver(g, T)
  <1> DEFINE Holds(t) == SumOver(f, S \cap t) <= SumOver(g, t)
             F == {t \in SUBSET T : ~ Holds(t)}
  <1>1. SUFFICES ASSUME F # {} PROVE FALSE
    <2>1. S \cap T = S
      OBVIOUS
    <2> QED
      BY <2>1
  <1>2. PICK m \in F : \A u \in F : u \subseteq m => u = m
    <2> HIDE DEF F
    <2>1. F \subseteq SUBSET T
      BY DEF F
    <2> QED
      BY <1>1, <2>1, LeastSubset
  <1>3. m \subseteq T /\ IsFiniteSet(m)
    BY <1>2, FS_Subset
  <1>4. S \cap m \subseteq S /\ IsFiniteSet(S \cap m)
    BY <1>3, FS_Subset
  <1>5. CASE m = {}
    <2>1. S \cap m = {} /\ SumOver(f, {}) = 0 /\ SumOver(g, {}) = 0
      BY <1>5, SumOfNone
    <2> QED
      BY <1>2, <1>5, <2>1
  <1>6. ASSUME NEW e \in m PROVE FALSE
    <2> DEFINE r == m \ {e}
    <2>1. r \in SUBSET T /\ r # m /\ r \subseteq m
      BY <1>3, <1>6
    <2>2. SumOver(f, S \cap r) <= SumOver(g, r)
      BY <1>2, <2>1
    <2>3. SumOver(g, m) = g[e] + SumOver(g, r)
      <3> HIDE DEF F, Holds
      <3> QED
        BY <1>3, SumWithElement
    <2>4. SumOver(f, S \cap r) \in Nat /\ SumOver(g, r) \in Nat /\ g[e] \in Nat
      <3>1. IsFiniteSet(r) /\ IsFiniteSet(S \cap r) /\ S \cap r \subseteq S
        BY <1>3, <2>1, FS_Subset
      <3> HIDE DEF F, Holds, r
      <3> QED
        BY <1>3, <2>1, <3>1, SumIsNatural
    <2>5. CASE e \in S
      <3>1. (S \cap m) \ {e} = S \cap r /\ e \in S \cap m
        BY <2>5, <1>6
      <3>2. SumOver(f, S \cap m) = f[e] + SumOver(f, S \cap r)
        <4> HIDE DEF F, Holds, r
        <4> QED
          BY <1>4, <3>1, SumWithElement
      <3>3. f[e] \in Nat /\ f[e] <= g[e]
        BY <2>5
      <3>4. SumOver(f, S \cap m) <= SumOver(g, m)
        <4> HIDE DEF F, Holds, r
        <4> QED
          BY <2>2, <2>3, <2>4, <3>2, <3>3
      <3> QED
        BY <1>2, <3>4
    <2>6. CASE e \notin S
      <3>1. S \cap m = S \cap r
        BY <2>6
      <3>2. SumOver(f, S \cap m) = SumOver(f, S \cap r)
        BY <3>1
      <3>3. SumOver(f, S \cap m) <= SumOver(g, m)
        <4> HIDE DEF F, Holds, r
        <4> QED
          BY <2>2, <2>3, <2>4, <3>2
      <3> QED
        BY <1>2, <3>3
    <2> QED
      BY <2>5, <2>6
  <1> QED
    BY <1>5, <1>6

\* Equal values have equal sums.
LEMMA SumsAgree ==
  ASSUME NEW f, NEW g, NEW S, IsFiniteSet(S), \A x \in S : f[x] \in Nat /\ f[x] = g[x]
  PROVE  SumOver(f, S) = SumOver(g, S)
  <1>1. SumOver(f, S) <= SumOver(g, S) /\ SumOver(g, S) <= SumOver(f, S)
    BY SumsGrow
  <1>2. SumOver(f, S) \in Nat /\ SumOver(g, S) \in Nat
    BY SumIsNatural
  <1> QED
    BY <1>1, <1>2

\* Where a function is zero it adds nothing.
LEMMA SumsIgnoreZeros ==
  ASSUME NEW f, NEW S, IsFiniteSet(S), NEW T \in SUBSET S,
         \A x \in S : f[x] \in Nat, \A x \in S \ T : f[x] = 0
  PROVE  SumOver(f, S) = SumOver(f, T)
  <1> DEFINE F == {s \in SUBSET (S \ T) : SumOver(f, T \union s) # SumOver(f, T)}
  <1>1. SUFFICES ASSUME F # {} PROVE FALSE
    <2>1. S \ T \in SUBSET (S \ T)
      OBVIOUS
    <2>2. T \union (S \ T) = S
      OBVIOUS
    <2>3. SumOver(f, T \union (S \ T)) = SumOver(f, S)
      BY <2>2
    <2>4. S \ T \in F \/ SumOver(f, S) = SumOver(f, T)
      BY <2>1, <2>3
    <2> HIDE DEF F
    <2> QED
      BY <2>4
  <1>2. PICK m \in F : \A u \in F : u \subseteq m => u = m
    <2> HIDE DEF F
    <2>1. F \subseteq SUBSET (S \ T) /\ IsFiniteSet(S \ T)
      BY FS_Subset DEF F
    <2> QED
      BY <1>1, <2>1, LeastSubset
  <1>3. m # {}
    <2>1. T \union {} = T
      OBVIOUS
    <2> QED
      BY <1>2, <2>1
  <1>4. PICK e \in m : TRUE
    BY <1>3
  <1> DEFINE less == m \ {e}
             all == T \union m
  <1>5. less \subseteq m /\ less # m /\ less \in SUBSET (S \ T)
    BY <1>4
  <1>6. SumOver(f, T \union less) = SumOver(f, T)
    BY <1>2, <1>5
  <1>7. all \ {e} = T \union less /\ e \in all /\ all \subseteq S /\ f[e] = 0
    BY <1>4
  <1>8. SumOver(f, all) = f[e] + SumOver(f, all \ {e})
    <2> HIDE DEF all
    <2>1. IsFiniteSet(all) /\ \A x \in all : f[x] \in Nat
      BY <1>7, FS_Subset
    <2> QED
      BY <1>7, <2>1, SumWithElement
  <1>9. SumOver(f, T) \in Nat
    BY FS_Subset, SumIsNatural
  <1>10. SumOver(f, all) = SumOver(f, T)
    <2> HIDE DEF all, less
    <2> QED
      BY <1>6, <1>7, <1>8, <1>9
  <1> QED
    BY <1>2, <1>10

\* Adding d to one value adds d to the sum.
LEMMA SumWithMore ==
  ASSUME NEW f, NEW g, NEW S, IsFiniteSet(S), NEW e \in S, NEW d \in Nat,
         \A x \in S : f[x] \in Nat,
         g[e] = f[e] + d, \A x \in S \ {e} : g[x] = f[x]
  PROVE  SumOver(g, S) = SumOver(f, S) + d
  <1>1. SumOver(f, S) = f[e] + SumOver(f, S \ {e})
    BY SumWithElement
  <1>2. SumOver(g, S) = g[e] + SumOver(g, S \ {e})
    BY SumWithElement
  <1>3. IsFiniteSet(S \ {e})
    BY FS_Subset
  <1>4. SumOver(g, S \ {e}) = SumOver(f, S \ {e})
    BY <1>3, SumsAgree
  <1>5. SumOver(f, S \ {e}) \in Nat
    BY <1>3, SumIsNatural
  <1> QED
    BY <1>1, <1>2, <1>4, <1>5
-----------------------------------------------------------------------------
(* Counting.                                                               *)

\* A non-empty set of natural numbers has a least element.
LEMMA LeastNumber ==
  ASSUME NEW S, S \subseteq Nat, S # {}
  PROVE  \E m \in S : \A n \in S : m <= n
  <1>1. PICK m \in S : \A n \in S : ~ (<<n, m>> \in OpToRel(<, Nat))
    BY NatLessThanWellFounded, WFMin
  <1>2. \A n \in S : ~ (n < m)
    BY <1>1 DEF OpToRel
  <1> QED
    BY <1>2

\* How many of the keys in K the function q sends to n.
Fibre(q, K, n) == {k \in K : q[k] = n}

\* The keys sent to members of S are as many as those sent to each of them
\* together; hence they are no more than all keys.
LEMMA FibresAddUp ==
  ASSUME NEW q, NEW K, IsFiniteSet(K), NEW S, IsFiniteSet(S)
  PROVE  SumOver([n \in S |-> Cardinality(Fibre(q, K, n))], S) <= Cardinality(K)
  <1> DEFINE size == [n \in S |-> Cardinality(Fibre(q, K, n))]
             over(s) == {k \in K : q[k] \in s}
             F == {s \in SUBSET S : SumOver(size, s) # Cardinality(over(s))}
  <1>1. \A s : IsFiniteSet(over(s)) /\ Cardinality(over(s)) \in Nat /\ Cardinality(over(s)) <= Cardinality(K)
    <2> TAKE s
    <2>1. over(s) \in SUBSET K
      OBVIOUS
    <2> HIDE DEF over
    <2> QED
      BY <2>1, FS_Subset, FS_CardinalityType
  <1>2. SUFFICES ASSUME F # {} PROVE FALSE
    <2>1. SumOver(size, S) = Cardinality(over(S))
      BY <1>2
    <2> HIDE DEF size, over
    <2>2. SumOver(size, S) <= Cardinality(K)
      BY <1>1, <2>1
    <2> QED
      BY <2>2 DEF size
  <1>3. PICK m \in F : \A u \in F : u \subseteq m => u = m
    <2> HIDE DEF F
    <2>1. F \subseteq SUBSET S
      BY DEF F
    <2> QED
      BY <1>2, <2>1, LeastSubset
  <1>4. m \in SUBSET S /\ IsFiniteSet(m) /\ SumOver(size, m) # Cardinality(over(m))
    BY <1>3, FS_Subset
  <1>5. m # {}
    <2>1. over({}) = {}
      OBVIOUS
    <2>2. SumOver(size, {}) = Cardinality(over({}))
      BY <2>1, SumOfNone, FS_EmptySet
    <2> HIDE DEF F, over, size
    <2> QED
      BY <1>4, <2>2
  <1>6. PICK e : e \in m
    BY <1>5
  <1> DEFINE r == m \ {e}
  <1>7. SumOver(size, r) = Cardinality(over(r))
    BY <1>3, <1>4, <1>6
  <1>8. SumOver(size, m) = size[e] + SumOver(size, r)
    <2>1. \A x \in m : size[x] \in Nat
      <3>1. \A x \in m : size[x] = Cardinality(over({x}))
        BY <1>4 DEF Fibre
      <3> HIDE DEF size, over
      <3> QED
        BY <1>1, <3>1
    <2> HIDE DEF size, over, F
    <2> QED
      BY <1>4, <1>6, <2>1, SumWithElement
  <1>9. size[e] = Cardinality(over({e}))
    BY <1>4, <1>6 DEF Fibre
  <1>10. over(m) = over({e}) \cup over(r) /\ over({e}) \cap over(r) = {}
    BY <1>6
  <1>11. Cardinality(over(m)) = Cardinality(over({e})) + Cardinality(over(r))
    <2> HIDE DEF over, r
    <2>1. Cardinality({}) = 0
      BY FS_EmptySet
    <2>2. IsFiniteSet(over({e})) /\ IsFiniteSet(over(r))
      BY <1>1
    <2>3. Cardinality(over({e}) \cup over(r)) =
            Cardinality(over({e})) + Cardinality(over(r)) - Cardinality(over({e}) \cap over(r))
      BY <2>2, FS_Union
    <2>4. Cardinality(over({e})) \in Nat /\ Cardinality(over(r)) \in Nat
      BY <1>1
    <2>5. Cardinality(over(m)) = Cardinality(over({e})) + Cardinality(over(r)) - 0
      BY <1>10, <2>1, <2>3
    <2> QED
      BY <2>4, <2>5
  <1> QED
    <2> HIDE DEF over, size, r, F
    <2> QED
      BY <1>4, <1>7, <1>8, <1>9, <1>11
=============================================================================
