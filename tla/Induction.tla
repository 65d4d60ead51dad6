------------------------------ MODULE Induction ------------------------------
(***************************************************************************)
(* What the proofs about sums and recursive functions rest on.  Induction  *)
(* is by the least counterexample: there is none, as its predecessor would *)
(* be a smaller one.                                                       *)
(***************************************************************************)
EXTENDS Integers, FiniteSets, FiniteSetTheorems, TLAPS

\* A set of numbers that is not empty has a least one.
LEMMA LeastNumber ==
    ASSUME NEW T \in SUBSET Nat, T # {}
    PROVE  \E m \in T : \A k \in T : m =< k
<1>1. PICK m \in T : \A k \in T : <<k, m>> \notin OpToRel(<, Nat)
    BY WFMin, NatLessThanWellFounded
<1>2. \A k \in T : ~(k < m)
    BY <1>1 DEF OpToRel
<1> QED
    BY <1>2

------------------------------------------------------------------------------
(* Sums *)

\* Unit by unit, what a function adds up to over a set: no recursion is needed to count.
UnitsOf(S, f) == {p \in S \X Nat : 1 =< p[2] /\ p[2] =< f[p[1]]}

Total(S, f) == Cardinality(UnitsOf(S, f))

\* The units of one element are as many as its number.
LEMMA UnitsOfOne ==
    ASSUME NEW x, NEW b \in Nat
    PROVE  /\ IsFiniteSet({x} \X (1..b))
           /\ Cardinality({x} \X (1..b)) = b
<1>1. IsFiniteSet(1..b) /\ Cardinality(1..b) = b
    BY FS_Interval
<1>2. IsFiniteSet({x}) /\ Cardinality({x}) = 1
    BY FS_Singleton
<1>3. /\ IsFiniteSet({x} \X (1..b))
      /\ Cardinality({x} \X (1..b)) = Cardinality({x}) * Cardinality(1..b)
    BY <1>1, <1>2, FS_Product
<1> QED
    BY <1>1, <1>2, <1>3

LEMMA UnitsElement ==
    ASSUME NEW S, NEW f
    PROVE  /\ \A y \in S, k \in Nat : <<y, k>> \in UnitsOf(S, f) <=> (1 =< k /\ k =< f[y])
           /\ \A p \in UnitsOf(S, f) : \E y \in S, k \in Nat : p = <<y, k>>
<1>1. ASSUME NEW p \in UnitsOf(S, f) PROVE \E y \in S, k \in Nat : p = <<y, k>>
    <2>1. p \in S \X Nat
        BY DEF UnitsOf
    <2> QED
        BY <2>1
<1>2. ASSUME NEW y \in S, NEW k \in Nat
      PROVE  <<y, k>> \in UnitsOf(S, f) <=> (1 =< k /\ k =< f[y])
    BY DEF UnitsOf
<1> QED
    BY <1>1, <1>2

\* The units of a set are those of one element and those of the others.
LEMMA UnitsSplit ==
    ASSUME NEW S, NEW f, NEW x \in S, f[x] \in Nat
    PROVE  /\ UnitsOf(S, f) = UnitsOf(S \ {x}, f) \cup ({x} \X (1..f[x]))
           /\ UnitsOf(S \ {x}, f) \cap ({x} \X (1..f[x])) = {}
<1> DEFINE X == {x} \X (1..f[x])
<1>1. \A p \in X : \E k \in Nat : p = <<x, k>> /\ 1 =< k /\ k =< f[x]
    OBVIOUS
<1>2. \A k \in Nat : 1 =< k /\ k =< f[x] => <<x, k>> \in X
    OBVIOUS
<1> HIDE DEF X
<1>3. ASSUME NEW p \in UnitsOf(S, f) PROVE p \in UnitsOf(S \ {x}, f) \cup X
    <2>1. PICK y \in S, k \in Nat : p = <<y, k>>
        BY UnitsElement
    <2>2. 1 =< k /\ k =< f[y]
        BY <2>1, UnitsElement
    <2>3. CASE y = x
        BY <2>1, <2>2, <2>3, <1>2
    <2>4. CASE y # x
        BY <2>1, <2>2, <2>4, UnitsElement
    <2> QED
        BY <2>3, <2>4
<1>4. ASSUME NEW p \in UnitsOf(S \ {x}, f) PROVE p \in UnitsOf(S, f) /\ p \notin X
    <2>1. PICK y \in S \ {x}, k \in Nat : p = <<y, k>>
        BY UnitsElement
    <2>2. 1 =< k /\ k =< f[y]
        BY <2>1, UnitsElement
    <2>3. p \in UnitsOf(S, f)
        BY <2>1, <2>2, UnitsElement
    <2> QED
        BY <1>1, <2>1, <2>3
<1>5. ASSUME NEW p \in X PROVE p \in UnitsOf(S, f)
    BY <1>1, UnitsElement
<1> QED
    BY <1>3, <1>4, <1>5 DEF X

\* One element counts apart from the others.
LEMMA TotalSplit ==
    ASSUME NEW S, NEW f, NEW x \in S, f[x] \in Nat,
           IsFiniteSet(UnitsOf(S \ {x}, f))
    PROVE  /\ IsFiniteSet(UnitsOf(S, f))
           /\ Total(S, f) = Total(S \ {x}, f) + f[x]
<1> DEFINE A == UnitsOf(S \ {x}, f)
           X == {x} \X (1..f[x])
<1>1. UnitsOf(S, f) = A \cup X /\ A \cap X = {}
    BY UnitsSplit
<1>2. IsFiniteSet(X) /\ Cardinality(X) = f[x]
    BY UnitsOfOne
<1> HIDE DEF A, X
<1>3. IsFiniteSet(A)
    BY DEF A
<1>4. /\ IsFiniteSet(A \cup X)
      /\ Cardinality(A \cup X) = Cardinality(A) + Cardinality(X) - Cardinality(A \cap X)
    BY <1>2, <1>3, FS_Union
<1>5. Cardinality({}) = 0 /\ Cardinality(A) \in Nat
    BY <1>3, FS_EmptySet, FS_CardinalityType
<1>6. Cardinality(A \cap X) = 0
    BY <1>1, <1>5, Zenon
<1>7. Cardinality(A \cup X) = Cardinality(A) + f[x]
    BY <1>2, <1>4, <1>5, <1>6
<1> QED
    BY <1>1, <1>4, <1>7 DEF Total, A

\* Functions that agree on a set have the same total over it.
LEMMA TotalSame ==
    ASSUME NEW S, NEW f, NEW g, \A y \in S : f[y] = g[y]
    PROVE  UnitsOf(S, f) = UnitsOf(S, g) /\ Total(S, f) = Total(S, g)
<1>1. \A p \in UnitsOf(S, f) : p \in UnitsOf(S, g)
    BY UnitsElement
<1>2. \A p \in UnitsOf(S, g) : p \in UnitsOf(S, f)
    BY UnitsElement
<1>3. UnitsOf(S, f) = UnitsOf(S, g)
    BY <1>1, <1>2
<1> QED
    BY <1>3 DEF Total

\* A total is a number, and that of nothing is 0.
LEMMA TotalZero ==
    ASSUME NEW S, NEW f, \A y \in S : f[y] = 0
    PROVE  UnitsOf(S, f) = {} /\ Total(S, f) = 0
<1>1. UnitsOf(S, f) = {}
    BY UnitsElement
<1> QED
    BY <1>1, FS_EmptySet DEF Total

\* A finite set has finitely many units.
LEMMA UnitsFinite ==
    ASSUME NEW S, IsFiniteSet(S), NEW f, \A y \in S : f[y] \in Nat
    PROVE  IsFiniteSet(UnitsOf(S, f)) /\ Total(S, f) \in Nat
<1> DEFINE Sizes == {Cardinality(s) : s \in {t \in SUBSET S : ~IsFiniteSet(UnitsOf(t, f))}}
<1>1. SUFFICES ASSUME Sizes # {}
               PROVE  FALSE
    <2>1. ~IsFiniteSet(UnitsOf(S, f)) => Cardinality(S) \in Sizes
        OBVIOUS
    <2> QED
        BY <2>1, <1>1, FS_CardinalityType DEF Total
<1>2. Sizes \in SUBSET Nat
    BY FS_Subset, FS_CardinalityType
<1>3. PICK m \in Sizes : \A k \in Sizes : m =< k
    BY <1>1, <1>2, LeastNumber
<1>4. PICK s \in SUBSET S : ~IsFiniteSet(UnitsOf(s, f)) /\ m = Cardinality(s)
    BY <1>3
<1>5. s # {}
    BY <1>4, TotalZero, FS_EmptySet
<1>6. PICK x \in s : TRUE
    BY <1>5
<1>7. IsFiniteSet(s)
    BY FS_Subset
<1>8. IsFiniteSet(s \ {x}) /\ Cardinality(s \ {x}) = m - 1
    BY <1>4, <1>7, FS_RemoveElement
<1>9. ~IsFiniteSet(UnitsOf(s \ {x}, f))
    BY <1>4, TotalSplit
<1>10. m - 1 \in Sizes
    BY <1>8, <1>9
<1> QED
    BY <1>2, <1>3, <1>10

\* A total does not depend on what counts nothing.
LEMMA TotalSubset ==
    ASSUME NEW S, NEW T \in SUBSET S, NEW f, \A y \in S \ T : f[y] = 0
    PROVE  Total(S, f) = Total(T, f)
<1>1. \A p \in UnitsOf(S, f) : p \in UnitsOf(T, f)
    <2> SUFFICES ASSUME NEW p \in UnitsOf(S, f)
                 PROVE  p \in UnitsOf(T, f)
        OBVIOUS
    <2>1. PICK y \in S, k \in Nat : p = <<y, k>>
        BY UnitsElement
    <2>2. 1 =< k /\ k =< f[y]
        BY <2>1, UnitsElement
    <2>3. y \in T
        BY <2>2
    <2> QED
        BY <2>1, <2>2, <2>3, UnitsElement
<1>2. \A p \in UnitsOf(T, f) : p \in UnitsOf(S, f)
    BY UnitsElement
<1>3. UnitsOf(S, f) = UnitsOf(T, f)
    BY <1>1, <1>2
<1> QED
    BY <1>3 DEF Total

\* A total changes by what one element changes.
LEMMA TotalChange ==
    ASSUME NEW S, IsFiniteSet(S), NEW f \in [S -> Nat], NEW g \in [S -> Nat],
           NEW x \in S, \A y \in S \ {x} : f[y] = g[y]
    PROVE  Total(S, g) = Total(S, f) - f[x] + g[x]
<1>1. IsFiniteSet(S \ {x})
    BY FS_RemoveElement
<1>2. /\ IsFiniteSet(UnitsOf(S \ {x}, f)) /\ Total(S \ {x}, f) \in Nat
      /\ IsFiniteSet(UnitsOf(S \ {x}, g))
    BY <1>1, UnitsFinite
<1>3. Total(S \ {x}, f) = Total(S \ {x}, g)
    BY TotalSame
<1>4. Total(S, f) = Total(S \ {x}, f) + f[x]
    BY <1>2, TotalSplit
<1>5. Total(S, g) = Total(S \ {x}, g) + g[x]
    BY <1>2, TotalSplit
<1> QED
    BY <1>2, <1>3, <1>4, <1>5

------------------------------------------------------------------------------
(* Iteration *)

\* The first n values of a function applied over and over.
Runs(X, F, a, n) ==
    {h \in [0..n -> X] : h[0] = a /\ \A i \in 0..(n - 1) : h[i + 1] = F[h[i]]}

LEMMA RunsExist ==
    ASSUME NEW X, NEW F \in [X -> X], NEW a \in X, NEW n \in Nat
    PROVE  Runs(X, F, a, n) # {}
<1> DEFINE Bad == {m \in Nat : Runs(X, F, a, m) = {}}
<1>1. SUFFICES ASSUME Bad # {}
               PROVE  FALSE
    OBVIOUS
<1>2. PICK m \in Bad : \A k \in Bad : m =< k
    BY <1>1, LeastNumber
<1>3. m # 0
    <2>1. [i \in 0..0 |-> a] \in Runs(X, F, a, 0)
        BY DEF Runs
    <2> QED
        BY <2>1
<1>4. m - 1 \in Nat /\ m - 1 \notin Bad
    <2>1. m \in Nat /\ \A k \in Nat : k \in Bad => m =< k
        BY <1>2
    <2> HIDE DEF Bad
    <2> QED
        BY <1>3, <2>1
<1>5. PICK h : h \in Runs(X, F, a, m - 1)
    BY <1>4
<1> DEFINE g == [i \in 0..m |-> IF i = m THEN F[h[m - 1]] ELSE h[i]]
<1>6. /\ h \in [0..(m - 1) -> X] /\ h[0] = a
      /\ \A i \in 0..(m - 2) : h[i + 1] = F[h[i]]
    <2>1. (m - 1) - 1 = m - 2
        BY <1>4
    <2> QED
        BY <1>5, <2>1 DEF Runs
<1>7. g \in [0..m -> X] /\ g[0] = a
    BY <1>3, <1>4, <1>6
<1>8. ASSUME NEW i \in 0..(m - 1) PROVE g[i + 1] = F[g[i]]
    <2>1. CASE i = m - 1
        BY <1>4, <2>1
    <2>2. CASE i # m - 1
        BY <1>4, <1>6, <2>2
    <2> QED
        BY <2>1, <2>2
<1>9. g \in Runs(X, F, a, m)
    <2> HIDE DEF g
    <2> QED
        BY <1>7, <1>8 DEF Runs
<1> QED
    BY <1>2, <1>9

LEMMA RunsAgree ==
    ASSUME NEW X, NEW F \in [X -> X], NEW a \in X, NEW n \in Nat, NEW p \in Nat,
           NEW h \in Runs(X, F, a, n), NEW k \in Runs(X, F, a, p),
           NEW i \in Nat, i =< n, i =< p
    PROVE  h[i] = k[i]
<1> DEFINE Bad == {j \in Nat : j =< n /\ j =< p /\ h[j] # k[j]}
<1>1. SUFFICES ASSUME Bad # {}
               PROVE  FALSE
    OBVIOUS
<1>2. PICK m \in Bad : \A j \in Bad : m =< j
    BY <1>1, LeastNumber
<1>3. m \in Nat /\ m =< n /\ m =< p /\ h[m] # k[m]
    BY <1>2
<1>4. m # 0
    BY <1>3 DEF Runs
<1>5. m - 1 \in Nat /\ m - 1 \notin Bad
    <2> HIDE DEF Bad
    <2> QED
        BY <1>2, <1>3, <1>4
<1>6. h[m - 1] = k[m - 1]
    BY <1>3, <1>5
<1>7. h[(m - 1) + 1] = F[h[m - 1]] /\ k[(m - 1) + 1] = F[k[m - 1]]
    BY <1>3, <1>5 DEF Runs
<1> QED
    BY <1>3, <1>6, <1>7

\* All values of a function applied over and over.
Iterates(X, F, a, g) ==
    /\ g \in [Nat -> X]
    /\ g[0] = a
    /\ \A n \in Nat : g[n + 1] = F[g[n]]

\* A function can be applied over and over.
LEMMA Iteration ==
    ASSUME NEW X, NEW F \in [X -> X], NEW a \in X
    PROVE  \E g : Iterates(X, F, a, g)
<1> DEFINE Some(n) == CHOOSE h : h \in Runs(X, F, a, n)
           g == [n \in Nat |-> Some(n)[n]]
<1>1. \A n \in Nat : Some(n) \in Runs(X, F, a, n)
    BY RunsExist
<1> HIDE DEF Some
<1>2. ASSUME NEW n \in Nat PROVE Some(n)[n] \in X
    BY <1>1 DEF Runs
<1>3. Some(0)[0] = a
    BY <1>1 DEF Runs
<1>4. ASSUME NEW n \in Nat PROVE Some(n + 1)[n + 1] = F[Some(n)[n]]
    <2>1. Some(n + 1) \in Runs(X, F, a, n + 1) /\ Some(n) \in Runs(X, F, a, n)
        BY <1>1
    <2>2. Some(n + 1)[n + 1] = F[Some(n + 1)[n]]
        BY <2>1 DEF Runs
    <2>3. Some(n + 1)[n] = Some(n)[n]
        BY <2>1, RunsAgree
    <2> QED
        BY <2>2, <2>3
<1>5. g \in [Nat -> X] /\ g[0] = a /\ \A n \in Nat : g[n + 1] = F[g[n]]
    BY <1>2, <1>3, <1>4
<1> HIDE DEF g
<1>6. Iterates(X, F, a, g)
    BY <1>5 DEF Iterates
<1> QED
    BY <1>6

==============================================================================
