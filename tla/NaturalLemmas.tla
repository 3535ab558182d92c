--------------------------- MODULE NaturalLemmas ----------------------------
(***************************************************************************)
(* What the proofs of several components need of natural numbers and finite*)
(* sequences: least and best elements exist, sequences can be sorted, and  *)
(* a finite order has an element at every place.  The inductions are led as*)
(* the search for a least counterexample.                                  *)
(***************************************************************************)
EXTENDS Integers, Sequences, Functions, FiniteSetTheorems, WellFoundedInduction, TLAPS

\* Every set of naturals that is not empty has a least element.
LEMMA LeastNatural ==
  ASSUME NEW S, S \subseteq Nat, S # {}
  PROVE  \E n \in S : \A m \in S : n <= m
<1>1. PICK n \in S : \A m \in S : ~(<<m, n>> \in OpToRel(<, Nat))
  BY NatLessThanWellFounded, WFMin, Zenon
<1>2. \A m \in S : ~(m < n)
  BY <1>1, Zenon DEF OpToRel
<1>. QED  BY <1>2

\* Division by w, in naturals.
LEMMA Division ==
  ASSUME NEW w \in Nat \ {0}, NEW x \in Nat
  PROVE  x \div w \in Nat /\ w * (x \div w) <= x /\ x < w * (x \div w) + w /\ x % w \in 0 .. w - 1
OBVIOUS

LEMMA Quotient ==
  ASSUME NEW w \in Nat \ {0}, NEW q \in Nat, NEW r \in 0 .. w - 1
  PROVE  (q * w + r) \div w = q /\ (q * w + r) % w = r
<1>1. (q * w + r) \div w = q
  OBVIOUS
<1>2. (q * w + r) % w = r
  OBVIOUS
<1>. QED  BY <1>1, <1>2

\* A set of places of a sequence that is not empty has a first one in every
\* order R that compares any two places.
LEMMA FirstOf ==
  ASSUME NEW n \in Nat, NEW S, S \subseteq 1 .. n, S # {}, NEW R,
         \A i, j \in S : <<i, j>> \in R \/ <<j, i>> \in R,
         \A i, j, k \in S : <<i, j>> \in R /\ <<j, k>> \in R => <<i, k>> \in R
  PROVE  \E m \in S : \A i \in S : <<m, i>> \in R
<1>. DEFINE Upto(k) == {i \in S : i <= k}
            First(k) == \E m \in Upto(k) : \A i \in Upto(k) : <<m, i>> \in R
            Bad == {k \in 1 .. n : Upto(k) # {} /\ ~First(k)}
<1>1. Bad = {}
  <2>. SUFFICES ASSUME Bad # {} PROVE FALSE
    OBVIOUS
  <2>1. Bad \subseteq Nat
    OBVIOUS
  <2>2. PICK k \in Bad : \A j \in Bad : k <= j
    <3>. HIDE DEF Bad
    <3>. QED  BY <2>1, LeastNatural
  <2>3. k \in 1 .. n /\ Upto(k) # {} /\ ~First(k)
    OBVIOUS
  <2>4. CASE Upto(k - 1) = {}
    <3>1. \A i \in Upto(k) : i = k
      BY <2>3, <2>4
    <3>2. k \in Upto(k)
      BY <2>3, <3>1
    <3>3. <<k, k>> \in R
      BY <3>2
    <3>4. First(k)
      BY <3>1, <3>2, <3>3
    <3>. QED  BY <2>3, <3>4
  <2>5. CASE Upto(k - 1) # {}
    <3>1. k - 1 \in 1 .. n
      <4>1. PICK i \in S : i <= k - 1
        BY <2>5
      <4>2. i \in 1 .. n /\ k \in 1 .. n
        BY <2>3
      <4>. QED  BY <4>1, <4>2
    <3>2. k - 1 \notin Bad
      <4>. HIDE DEF Bad
      <4>. QED  BY <2>2, <2>3, <3>1
    <3>3. PICK m \in Upto(k - 1) : \A i \in Upto(k - 1) : <<m, i>> \in R
      BY <2>5, <3>1, <3>2
    <3>4. \A i \in Upto(k) : i \in Upto(k - 1) \/ i = k
      BY <2>3
    <3>5. m \in Upto(k)
      BY <2>3, <3>3
    <3>6. CASE k \in S /\ <<k, m>> \in R
      <4>1. \A i \in Upto(k - 1) : <<k, i>> \in R
        BY <3>3, <3>6
      <4>2. <<k, k>> \in R
        BY <3>6
      <4>3. First(k)
        BY <2>3, <3>4, <3>6, <4>1, <4>2
      <4>. QED  BY <2>3, <4>3
    <3>7. CASE ~(k \in S /\ <<k, m>> \in R)
      <4>1. k \in S => <<m, k>> \in R
        BY <3>3, <3>7
      <4>2. First(k)
        BY <3>3, <3>4, <3>5, <4>1
      <4>. QED  BY <2>3, <4>2
    <3>. QED  BY <3>6, <3>7
  <2>. QED  BY <2>4, <2>5
<1>2. Upto(n) = S /\ n \in 1 .. n
  <2>1. PICK i \in S : i \in 1 .. n
    OBVIOUS
  <2>2. \A j \in S : j <= n
    OBVIOUS
  <2>3. Upto(n) = S
    BY <2>2, Zenon
  <2>. QED  BY <2>1, <2>3
<1>3. First(n)
  <2>1. n \notin Bad
    BY <1>1
  <2>. QED  BY <1>2, <2>1
<1>. QED  BY <1>2, <1>3
-----------------------------------------------------------------------------
\* p lists the places of s in an order in which no value comes before a smaller one.
Sorts(s, p) ==
  /\ p \in [1 .. Len(s) -> 1 .. Len(s)] /\ IsInjective(p)
  /\ \A i, j \in 1 .. Len(s) : i <= j => s[p[i]] <= s[p[j]]

\* Every sequence of naturals can be sorted: without its largest value by an
\* order that the induction gives, and with it by putting that one last.
LEMMA SortExists ==
  ASSUME NEW s \in Seq(Nat)
  PROVE  \E p : Sorts(s, p)
<1>. DEFINE Bad == {k \in Nat : \E t \in Seq(Nat) : Len(t) = k /\ ~\E p : Sorts(t, p)}
<1>1. Bad = {}
  <2>. SUFFICES ASSUME Bad # {} PROVE FALSE
    OBVIOUS
  <2>1. Bad \subseteq Nat
    OBVIOUS
  <2>2. PICK n \in Bad : \A j \in Bad : n <= j
    <3>. HIDE DEF Bad
    <3>. QED  BY <2>1, LeastNatural
  <2>3. PICK t \in Seq(Nat) : Len(t) = n /\ ~\E p : Sorts(t, p)
    OBVIOUS
  <2>4. n \in Nat
    OBVIOUS
  <2>5. n > 0
    <3>. SUFFICES ASSUME n = 0 PROVE FALSE
      BY <2>4
    <3>1. 1 .. Len(t) = {}
      BY <2>3
    <3>2. Sorts(t, [i \in {} |-> i])
      BY <3>1 DEF Sorts, IsInjective
    <3>. QED  BY <2>3, <3>2
  <2>6. PICK m \in 1 .. n : \A i \in 1 .. n : t[i] <= t[m]
    <3>. DEFINE R == {q \in (1 .. n) \X (1 .. n) : t[q[2]] <= t[q[1]]}
    <3>1. \A i \in 1 .. n : t[i] \in Nat
      BY <2>3
    <3>2. \A i, j \in 1 .. n : <<i, j>> \in R <=> t[j] <= t[i]
      OBVIOUS
    <3>3. 1 .. n # {}
      <4>1. 1 \in 1 .. n
        BY <2>4, <2>5
      <4>. QED  BY <4>1
    <3>. HIDE DEF R
    <3>4. \A i, j \in 1 .. n : <<i, j>> \in R \/ <<j, i>> \in R
      <4>1. \A i, j \in 1 .. n : t[i] <= t[j] \/ t[j] <= t[i]
        BY <3>1
      <4>. QED  BY <3>2, <4>1, Zenon
    <3>5. \A i, j, k \in 1 .. n : <<i, j>> \in R /\ <<j, k>> \in R => <<i, k>> \in R
      <4>1. \A i, j, k \in 1 .. n : t[j] <= t[i] /\ t[k] <= t[j] => t[k] <= t[i]
        BY <3>1, SMTT(30)
      <4>. QED  BY <3>2, <4>1, Zenon
    <3>6. \E m \in 1 .. n : \A i \in 1 .. n : <<m, i>> \in R
      BY <2>4, <3>3, <3>4, <3>5, FirstOf, Zenon
    <3>. QED  BY <3>2, <3>6
  <2>. DEFINE Skip(i) == IF i < m THEN i ELSE i + 1
              u == [i \in 1 .. n - 1 |-> t[Skip(i)]]
  <2>7. u \in Seq(Nat) /\ Len(u) = n - 1
    <3>1. \A i \in 1 .. n - 1 : Skip(i) \in 1 .. n
      BY <2>4
    <3>2. \A i \in 1 .. n - 1 : u[i] \in Nat
      BY <2>3, <3>1
    <3>. QED  BY <2>4, <2>5, <3>2
  <2>8. PICK p : Sorts(u, p)
    <3>1. n - 1 \in Nat /\ n - 1 \notin Bad
      <4>. HIDE DEF Bad
      <4>. QED  BY <2>2, <2>4, <2>5
    <3>. QED  BY <2>7, <3>1
  <2>. HIDE DEF Bad
  <2>9. /\ \A i \in 1 .. n - 1 : p[i] \in 1 .. n - 1 /\ u[p[i]] = t[Skip(p[i])]
        /\ \A i, j \in 1 .. n - 1 : p[i] = p[j] => i = j
        /\ \A i, j \in 1 .. n - 1 : i <= j => u[p[i]] <= u[p[j]]
    BY <2>7, <2>8 DEF Sorts, IsInjective
  <2>. HIDE DEF u
  <2>. DEFINE q == [i \in 1 .. n |-> IF i = n THEN m ELSE Skip(p[i])]
  <2>10. \A i \in 1 .. n - 1 : q[i] \in 1 .. n /\ q[i] # m /\ q[i] = Skip(p[i])
    BY <2>4, <2>9
  <2>11. q[n] = m /\ \A i \in 1 .. n : i = n \/ i \in 1 .. n - 1
    BY <2>4, <2>5
  <2>12. DOMAIN q = 1 .. n /\ q = [i \in 1 .. n |-> q[i]]
    OBVIOUS
  <2>. HIDE DEF q
  <2>13. q \in [1 .. n -> 1 .. n]
    BY <2>10, <2>11, <2>12
  <2>14. \A i, j \in 1 .. n : q[i] = q[j] => i = j
    <3>1. \A k, l \in 1 .. n - 1 : Skip(k) = Skip(l) => k = l
      BY <2>4
    <3>2. \A i, j \in 1 .. n - 1 : q[i] = q[j] => p[i] = p[j]
      <4>. HIDE DEF Skip
      <4>. QED  BY <2>9, <2>10, <3>1
    <3>3. \A i, j \in 1 .. n - 1 : q[i] = q[j] => i = j
      BY <2>9, <3>2
    <3>. QED  BY <2>10, <2>11, <3>3
  <2>15. \A i, j \in 1 .. n : i <= j => t[q[i]] <= t[q[j]]
    <3>. SUFFICES ASSUME NEW i \in 1 .. n, NEW j \in 1 .. n, i <= j
                  PROVE  t[q[i]] <= t[q[j]]
      OBVIOUS
    <3>1. CASE j = n
      BY <2>6, <2>11, <2>13, <3>1
    <3>2. CASE j # n
      <4>1. i \in 1 .. n - 1 /\ j \in 1 .. n - 1
        BY <2>4, <3>2
      <4>. HIDE DEF Skip
      <4>2. u[p[i]] <= u[p[j]]
        BY <2>9, <4>1, Zenon
      <4>3. u[p[i]] = t[q[i]] /\ u[p[j]] = t[q[j]]
        BY <2>9, <2>10, <4>1, Zenon
      <4>. QED  BY <4>2, <4>3
    <3>. QED  BY <3>1, <3>2
  <2>16. Sorts(t, q)
    BY <2>3, <2>13, <2>14, <2>15 DEF Sorts, IsInjective
  <2>. QED  BY <2>3, <2>16
<1>2. Len(s) \in Nat /\ Len(s) \notin Bad
  BY <1>1
<1>. QED  BY <1>2
-----------------------------------------------------------------------------
(* Linear orders on finite sets.                                           *)

\* The elements of S up to o in the order R.
Initial(S, R, o) == {p \in S : <<p, o>> \in R}

\* R compares any two elements of S, and no two of them both ways.
Linear(S, R) ==
  /\ \A a, b \in S : <<a, b>> \in R \/ <<b, a>> \in R
  /\ \A a, b \in S : <<a, b>> \in R /\ <<b, a>> \in R => a = b
  /\ \A a, b, c \in S : <<a, b>> \in R /\ <<b, c>> \in R => <<a, c>> \in R

\* A finite set that is not empty has a last element in a linear order.
LEMMA LastIn ==
  ASSUME NEW S, IsFiniteSet(S), S # {}, NEW R, Linear(S, R)
  PROVE  \E m \in S : \A a \in S : <<a, m>> \in R
<1>. DEFINE Bad == {n \in Nat : \E T \in SUBSET S : Cardinality(T) = n /\ T # {}
                                  /\ ~\E m \in T : \A a \in T : <<a, m>> \in R}
<1>1. Bad = {}
  <2>. SUFFICES ASSUME Bad # {} PROVE FALSE
    OBVIOUS
  <2>1. PICK n \in Bad : \A k \in Bad : n <= k
    <3>1. Bad \subseteq Nat
      OBVIOUS
    <3>. HIDE DEF Bad
    <3>. QED  BY <3>1, LeastNatural
  <2>2. PICK T \in SUBSET S : Cardinality(T) = n /\ T # {}
                              /\ ~\E m \in T : \A a \in T : <<a, m>> \in R
    OBVIOUS
  <2>3. PICK x \in T : TRUE
    BY <2>2
  <2>. DEFINE U == T \ {x}
  <2>4. IsFiniteSet(T) /\ IsFiniteSet(U) /\ Cardinality(U) = n - 1 /\ n \in Nat
    <3>1. IsFiniteSet(T)
      BY FS_Subset
    <3>2. IsFiniteSet(U) /\ Cardinality(U) = Cardinality(T) - 1
      BY <2>3, <3>1, FS_RemoveElement
    <3>. QED  BY <2>2, <3>1, <3>2
  <2>5. CASE U = {}
    BY <2>2, <2>3, <2>5 DEF Linear
  <2>6. CASE U # {}
    <3>1. Cardinality(U) \in Nat
      BY <2>4, FS_CardinalityType
    <3>2. n - 1 \notin Bad
      <4>. HIDE DEF Bad
      <4>. QED  BY <2>1, <2>4, <3>1
    <3>3. PICK m \in U : \A a \in U : <<a, m>> \in R
      BY <2>4, <2>6, <3>1, <3>2
    <3>4. CASE <<x, m>> \in R
      BY <2>2, <3>3, <3>4
    <3>5. CASE ~(<<x, m>> \in R)
      <4>1. <<m, x>> \in R /\ <<x, x>> \in R
        BY <2>3, <3>3, <3>5 DEF Linear
      <4>2. \A a \in T : <<a, x>> \in R
        BY <2>3, <3>3, <4>1 DEF Linear
      <4>. QED  BY <2>2, <2>3, <4>2
    <3>. QED  BY <3>4, <3>5
  <2>. QED  BY <2>5, <2>6
<1>2. Cardinality(S) \in Nat
  BY FS_CardinalityType
<1>3. Cardinality(S) \notin Bad
  BY <1>1
<1>. QED  BY <1>2, <1>3

\* In a linear order on a finite set there is an element at every place.
LEMMA PlaceInOrder ==
  ASSUME NEW S, IsFiniteSet(S), NEW R, Linear(S, R), NEW r \in 1 .. Cardinality(S)
  PROVE  \E o \in S : Cardinality(Initial(S, R, o)) = r
<1>. DEFINE At(T, k) == \E o \in T : Cardinality(Initial(T, R, o)) = k
            Bad == {n \in Nat : \E T \in SUBSET S : Cardinality(T) = n /\ \E k \in 1 .. n : ~At(T, k)}
<1>1. Bad = {}
  <2>. SUFFICES ASSUME Bad # {} PROVE FALSE
    OBVIOUS
  <2>1. PICK n \in Bad : \A k \in Bad : n <= k
    <3>1. Bad \subseteq Nat
      OBVIOUS
    <3>. HIDE DEF Bad
    <3>. QED  BY <3>1, LeastNatural
  <2>2. PICK T \in SUBSET S : Cardinality(T) = n /\ \E k \in 1 .. n : ~At(T, k)
    <3>. HIDE DEF At
    <3>. QED  OBVIOUS
  <2>3. PICK k \in 1 .. n : ~At(T, k)
    BY <2>2
  <2>4. IsFiniteSet(T) /\ n \in Nat
    BY FS_Subset
  <2>5. T # {}
    BY <2>2, <2>3, <2>4, FS_EmptySet
  <2>6. Linear(T, R)
    BY DEF Linear
  <2>7. PICK m \in T : \A a \in T : <<a, m>> \in R
    BY <2>4, <2>5, <2>6, LastIn
  <2>8. Initial(T, R, m) = T
    BY <2>7 DEF Initial
  <2>9. k # n
    BY <2>2, <2>3, <2>8
  <2>. DEFINE U == T \ {m}
  <2>10. IsFiniteSet(U) /\ Cardinality(U) = n - 1
    BY <2>2, <2>4, <2>7, FS_RemoveElement
  <2>11. n - 1 \in Nat /\ k \in 1 .. n - 1
    BY <2>3, <2>4, <2>9
  <2>12. n - 1 \notin Bad
    <3>. HIDE DEF Bad
    <3>. QED  BY <2>1, <2>4, <2>11
  <2>13. At(U, k)
    <3>. HIDE DEF At
    <3>. QED  BY <2>10, <2>11, <2>12
  <2>14. PICK o \in U : Cardinality(Initial(U, R, o)) = k
    BY <2>13
  <2>15. Initial(T, R, o) = Initial(U, R, o)
    <3>1. ~(<<m, o>> \in R)
      BY <2>6, <2>7, <2>14 DEF Linear
    <3>. QED  BY <3>1 DEF Initial
  <2>. QED  BY <2>3, <2>14, <2>15
<1>2. Cardinality(S) \in Nat
  BY FS_CardinalityType
<1>3. Cardinality(S) \notin Bad
  BY <1>1
<1>4. At(S, r)
  <2>. HIDE DEF At
  <2>. QED  BY <1>2, <1>3
<1>. QED  BY <1>4

\* The later an element, the more there are up to it.
LEMMA InitialGrows ==
  ASSUME NEW S, IsFiniteSet(S), NEW R, Linear(S, R), NEW a \in S, NEW b \in S
  PROVE  /\ Cardinality(Initial(S, R, a)) \in 1 .. Cardinality(S)
         /\ Cardinality(Initial(S, R, a)) < Cardinality(Initial(S, R, b)) <=> <<a, b>> \in R /\ a # b
<1>1. ASSUME NEW x \in S, NEW y \in S, <<x, y>> \in R, x # y
      PROVE  Cardinality(Initial(S, R, x)) < Cardinality(Initial(S, R, y))
  <2>1. Initial(S, R, x) \subseteq Initial(S, R, y) /\ y \in Initial(S, R, y) \ Initial(S, R, x)
    BY <1>1 DEF Initial, Linear
  <2>2. IsFiniteSet(Initial(S, R, y))
    BY FS_Subset DEF Initial
  <2>3. Initial(S, R, x) # Initial(S, R, y)
    BY <2>1
  <2>4. /\ IsFiniteSet(Initial(S, R, x)) /\ Cardinality(Initial(S, R, x)) <= Cardinality(Initial(S, R, y))
        /\ Cardinality(Initial(S, R, x)) = Cardinality(Initial(S, R, y)) => Initial(S, R, x) = Initial(S, R, y)
    BY <2>1, <2>2, FS_Subset
  <2>5. Cardinality(Initial(S, R, x)) \in Nat /\ Cardinality(Initial(S, R, y)) \in Nat
    BY <2>2, <2>4, FS_CardinalityType
  <2>. QED  BY <2>3, <2>4, <2>5
<1>2. \A x \in S : Cardinality(Initial(S, R, x)) \in Nat /\ Cardinality(Initial(S, R, x)) <= Cardinality(S)
                   /\ Cardinality(Initial(S, R, x)) # 0 /\ Cardinality(S) \in Nat
  <2>. SUFFICES ASSUME NEW x \in S
                PROVE  Cardinality(Initial(S, R, x)) \in Nat /\ Cardinality(Initial(S, R, x)) <= Cardinality(S)
                       /\ Cardinality(Initial(S, R, x)) # 0 /\ Cardinality(S) \in Nat
    OBVIOUS
  <2>1. Initial(S, R, x) \subseteq S /\ x \in Initial(S, R, x)
    BY DEF Initial, Linear
  <2>2. IsFiniteSet(Initial(S, R, x)) /\ Cardinality(Initial(S, R, x)) <= Cardinality(S)
    BY <2>1, FS_Subset
  <2>. QED  BY <2>1, <2>2, FS_CardinalityType, FS_EmptySet
<1>3. CASE <<a, b>> \in R /\ a # b
  BY <1>1, <1>2, <1>3
<1>4. CASE a = b
  BY <1>2, <1>4
<1>5. CASE ~(<<a, b>> \in R) /\ a # b
  <2>1. <<b, a>> \in R
    BY <1>5 DEF Linear
  <2>2. Cardinality(Initial(S, R, b)) < Cardinality(Initial(S, R, a))
    BY <1>1, <1>5, <2>1
  <2>. QED  BY <1>2, <1>5, <2>2
<1>. QED  BY <1>3, <1>4, <1>5
=============================================================================
