---------------------------- MODULE TimingProofs ----------------------------
(***************************************************************************)
(* That the timeout of a recommendation fits the answers it was made from, *)
(* and is earned by them, for every set of round-trip times.               *)
(***************************************************************************)
EXTENDS Timing, NaturalLemmas

-----------------------------------------------------------------------------
(* Sums over finite sets.                                                  *)

Sum(f, D) == MapThenSumSet(LAMBDA d : f[d], D)

\* The table of sums that Sum is read from, for the subsets of D in family F.
One(s) == CHOOSE x \in s : TRUE
SumsOver(f, F, g) ==
  g = [s \in F |-> IF s = {} THEN 0 ELSE f[One(s)] + g[s \ {One(s)}]]

LEMMA OneIn == ASSUME NEW s, s # {} PROVE One(s) \in s
BY DEF One

\* Such a table exists for every finite set.
LEMMA SumsExist ==
  ASSUME NEW f, NEW D, IsFiniteSet(D)
  PROVE  \E g : SumsOver(f, SUBSET D, g)
<1>. DEFINE Upto(n) == {s \in SUBSET D : Cardinality(s) <= n}
            Bad == {n \in Nat : ~\E g : SumsOver(f, Upto(n), g)}
<1>0. \A s \in SUBSET D : IsFiniteSet(s) /\ Cardinality(s) \in Nat
  BY FS_Subset, FS_CardinalityType
<1>1. Bad = {}
  <2>. SUFFICES ASSUME Bad # {}  PROVE FALSE
    OBVIOUS
  <2>1. PICK n \in Bad : \A k \in Bad : n <= k
    <3>1. Bad \subseteq Nat
      OBVIOUS
    <3>. HIDE DEF Bad
    <3>. QED  BY <3>1, LeastNatural
  <2>2. n \in Nat /\ ~\E g : SumsOver(f, Upto(n), g)
    OBVIOUS
  <2>3. PICK h : \A s \in Upto(n - 1) :
                   h[s] = IF s = {} THEN 0 ELSE f[One(s)] + h[s \ {One(s)}]
    <3>1. CASE n = 0
      <4>1. Upto(n - 1) = {}
        <5>1. \A s \in SUBSET D : ~(Cardinality(s) <= n - 1)
          BY <1>0, <3>1
        <5>. QED  BY <5>1
      <4>. HIDE DEF Upto
      <4>. QED  BY <4>1
    <3>2. CASE n # 0
      <4>1. n - 1 \in Nat /\ ~(n <= n - 1)
        BY <2>2, <3>2
      <4>2. ~(n - 1 \in Bad)
        <5>. HIDE DEF Bad
        <5>. QED  BY <2>1, <4>1
      <4>3. PICK h : SumsOver(f, Upto(n - 1), h)
        BY <4>1, <4>2
      <4>. HIDE DEF Upto
      <4>4. \A s \in Upto(n - 1) : h[s] = IF s = {} THEN 0 ELSE f[One(s)] + h[s \ {One(s)}]
        <5>. DEFINE val(s) == IF s = {} THEN 0 ELSE f[One(s)] + h[s \ {One(s)}]
        <5>1. h = [s \in Upto(n - 1) |-> val(s)]
          BY <4>3 DEF SumsOver
        <5>2. \A s \in Upto(n - 1) : h[s] = val(s)
          <6>. HIDE DEF val
          <6>. QED  BY <5>1
        <5>. QED  BY <5>2
      <4>. QED  BY <4>4
    <3>. QED  BY <3>1, <3>2
  <2>. DEFINE g == [s \in Upto(n) |-> IF s = {} THEN 0 ELSE f[One(s)] + h[s \ {One(s)}]]
  <2>4. \A s \in Upto(n) : s # {} => s \ {One(s)} \in Upto(n) /\ g[s \ {One(s)}] = h[s \ {One(s)}]
    <3>. SUFFICES ASSUME NEW s \in Upto(n), s # {}
                  PROVE  s \ {One(s)} \in Upto(n) /\ g[s \ {One(s)}] = h[s \ {One(s)}]
      OBVIOUS
    <3>. DEFINE t == s \ {One(s)}
    <3>1. One(s) \in s /\ IsFiniteSet(s) /\ Cardinality(s) <= n
      BY <1>0, OneIn
    <3>2. Cardinality(t) = Cardinality(s) - 1 /\ Cardinality(s) \in Nat
      BY <1>0, <3>1, FS_RemoveElement
    <3>3. t \in SUBSET D /\ Cardinality(t) <= n - 1 /\ Cardinality(t) <= n
      BY <2>2, <3>1, <3>2
    <3>4. t \in Upto(n) /\ t \in Upto(n - 1)
      BY <3>3
    <3>. HIDE DEF t, Upto
    <3>5. g[t] = IF t = {} THEN 0 ELSE f[One(t)] + h[t \ {One(t)}]
      BY <3>4
    <3>. QED  BY <2>3, <3>4, <3>5 DEF t
  <2>5. SumsOver(f, Upto(n), g)
    <3>. DEFINE val(s) == IF s = {} THEN 0 ELSE f[One(s)] + g[s \ {One(s)}]
    <3>1. \A s \in Upto(n) : (IF s = {} THEN 0 ELSE f[One(s)] + h[s \ {One(s)}]) = val(s)
      <4>. HIDE DEF g, Upto
      <4>. QED  BY <2>4
    <3>. HIDE DEF val, Upto
    <3>2. g = [s \in Upto(n) |-> val(s)]
      BY <3>1
    <3>. QED  BY <3>2 DEF SumsOver, val
  <2>. QED  BY <2>2, <2>5
<1>2. Cardinality(D) \in Nat /\ Upto(Cardinality(D)) = SUBSET D
  <2>1. \A s \in SUBSET D : Cardinality(s) <= Cardinality(D)
    BY FS_Subset
  <2>. QED  BY <2>1, FS_CardinalityType
<1>3. \A n \in Nat : \E g : SumsOver(f, Upto(n), g)
  <2>. HIDE DEF Upto
  <2>. QED  BY <1>1
<1>4. \E g : SumsOver(f, Upto(Cardinality(D)), g)
  <2>. HIDE DEF Upto
  <2>. QED  BY <1>2, <1>3
<1>. HIDE DEF Upto
<1>. QED  BY <1>2, <1>4, Zenon

\* It is the same for every superset.
LEMMA SumsAgree ==
  ASSUME NEW f, NEW D, IsFiniteSet(D)
  PROVE  \A g : SumsOver(f, SUBSET D, g) =>
           \A E : \A h : E \subseteq D /\ SumsOver(f, SUBSET E, h) => g[E] = h[E]
<1>. SUFFICES ASSUME NEW g, SumsOver(f, SUBSET D, g),
                     NEW E, NEW h, E \subseteq D, SumsOver(f, SUBSET E, h)
              PROVE  g[E] = h[E]
  OBVIOUS
<1>. DEFINE Bad == {n \in Nat : \E s \in SUBSET E : Cardinality(s) = n /\ g[s] # h[s]}
<1>1. \A s \in SUBSET D : g[s] = IF s = {} THEN 0 ELSE f[One(s)] + g[s \ {One(s)}]
  <2>. DEFINE val(s) == IF s = {} THEN 0 ELSE f[One(s)] + g[s \ {One(s)}]
  <2>1. g = [s \in SUBSET D |-> val(s)]
    BY DEF SumsOver
  <2>2. \A s \in SUBSET D : g[s] = val(s)
    <3>. HIDE DEF val
    <3>. QED  BY <2>1
  <2>. QED  BY <2>2
<1>2. \A s \in SUBSET E : h[s] = IF s = {} THEN 0 ELSE f[One(s)] + h[s \ {One(s)}]
  <2>. DEFINE val(s) == IF s = {} THEN 0 ELSE f[One(s)] + h[s \ {One(s)}]
  <2>1. h = [s \in SUBSET E |-> val(s)]
    BY DEF SumsOver
  <2>2. \A s \in SUBSET E : h[s] = val(s)
    <3>. HIDE DEF val
    <3>. QED  BY <2>1
  <2>. QED  BY <2>2
<1>3. \A s \in SUBSET E : s \in SUBSET D /\ IsFiniteSet(s) /\ Cardinality(s) \in Nat
  BY FS_Subset, FS_CardinalityType
<1>. SUFFICES ASSUME g[E] # h[E]  PROVE FALSE
  OBVIOUS
<1>4. Bad # {} /\ Bad \subseteq Nat
  <2>1. E \in SUBSET E
    OBVIOUS
  <2>2. Cardinality(E) \in Bad
    BY <1>3, <2>1
  <2>. QED  BY <2>2
<1>5. PICK n \in Bad : \A k \in Bad : n <= k
  <2>. HIDE DEF Bad
  <2>. QED  BY <1>4, LeastNatural
<1>6. PICK s \in SUBSET E : Cardinality(s) = n /\ g[s] # h[s]
  OBVIOUS
<1>7. s # {} /\ s \in SUBSET D
  <2>1. s \in SUBSET D
    BY <1>3
  <2>. QED  BY <1>1, <1>2, <1>6, <2>1
<1>. DEFINE t == s \ {One(s)}
<1>8. t \in SUBSET E /\ Cardinality(t) = n - 1 /\ n - 1 \in Nat /\ ~(n <= n - 1)
  <2>1. One(s) \in s /\ IsFiniteSet(s) /\ Cardinality(s) \in Nat
    BY <1>3, <1>7, OneIn
  <2>2. Cardinality(t) = n - 1 /\ t \in SUBSET E
    BY <1>6, <2>1, FS_RemoveElement
  <2>3. Cardinality(t) \in Nat
    BY <1>3, <2>2
  <2>. QED  BY <1>6, <2>1, <2>2, <2>3
<1>9. g[t] = h[t]
  <2>1. ~(n - 1 \in Bad)
    <3>. HIDE DEF Bad
    <3>. QED  BY <1>5, <1>8
  <2>. QED  BY <1>8, <2>1
<1>10. g[s] = f[One(s)] + g[t] /\ h[s] = f[One(s)] + h[t]
  BY <1>1, <1>2, <1>7
<1>. QED  BY <1>6, <1>9, <1>10

LEMMA SumStep ==
  ASSUME NEW f, NEW D, IsFiniteSet(D)
  PROVE  /\ D = {} => Sum(f, D) = 0
         /\ D # {} => /\ One(D) \in D /\ IsFiniteSet(D \ {One(D)})
                      /\ Sum(f, D) = f[One(D)] + Sum(f, D \ {One(D)})
<1>1. ASSUME NEW E, IsFiniteSet(E)
      PROVE  \E g : SumsOver(f, SUBSET E, g) /\ Sum(f, E) = g[E]
  <2>. DEFINE g == CHOOSE g : SumsOver(f, SUBSET E, g)
  <2>1. Sum(f, E) = g[E]
    BY DEF Sum, MapThenSumSet, MapThenFoldSet, SumsOver, One
  <2>2. SumsOver(f, SUBSET E, g)
    BY <1>1, SumsExist
  <2>. QED  BY <2>1, <2>2
<1>2. PICK g : SumsOver(f, SUBSET D, g) /\ Sum(f, D) = g[D]
  BY <1>1
<1>3. g[D] = IF D = {} THEN 0 ELSE f[One(D)] + g[D \ {One(D)}]
  <2>. DEFINE val(s) == IF s = {} THEN 0 ELSE f[One(s)] + g[s \ {One(s)}]
  <2>1. g = [s \in SUBSET D |-> val(s)]
    BY <1>2 DEF SumsOver
  <2>2. g[D] = val(D)
    <3>1. D \in SUBSET D
      OBVIOUS
    <3>. HIDE DEF val
    <3>. QED  BY <2>1, <3>1
  <2>. QED  BY <2>2
<1>. PICK T : T = D \ {One(D)}
  OBVIOUS
<1>4. IsFiniteSet(T) /\ T \in SUBSET D
  BY FS_RemoveElement
<1>5. PICK h : SumsOver(f, SUBSET T, h) /\ Sum(f, T) = h[T]
  BY <1>1, <1>4
<1>6. g[T] = h[T]
  <2>1. \A u : SumsOver(f, SUBSET D, u) =>
          \A E : \A v : E \subseteq D /\ SumsOver(f, SUBSET E, v) => u[E] = v[E]
    BY SumsAgree
  <2>2. T \subseteq D
    BY <1>4
  <2>. QED  BY <1>2, <1>5, <2>1, <2>2, Zenon
<1>. QED  BY <1>2, <1>3, <1>4, <1>5, <1>6, OneIn

\* A sum of naturals is one, and any element may be taken first.
LEMMA SumType ==
  ASSUME NEW D, IsFiniteSet(D), NEW f \in [D -> Nat]
  PROVE  \A E \in SUBSET D : Sum(f, E) \in Nat
<1>. DEFINE Bad == {n \in Nat : \E E \in SUBSET D : Cardinality(E) = n /\ Sum(f, E) \notin Nat}
<1>1. \A E \in SUBSET D : IsFiniteSet(E) /\ Cardinality(E) \in Nat
  BY FS_Subset, FS_CardinalityType
<1>. SUFFICES ASSUME Bad # {}  PROVE FALSE
  BY <1>1
<1>2. PICK n \in Bad : \A k \in Bad : n <= k
  <2>1. Bad \subseteq Nat
    OBVIOUS
  <2>. HIDE DEF Bad
  <2>. QED  BY <2>1, LeastNatural
<1>3. PICK E \in SUBSET D : Cardinality(E) = n /\ Sum(f, E) \notin Nat
  OBVIOUS
<1>. DEFINE x == One(E)
            T == E \ {x}
<1>4. E # {} /\ x \in E /\ IsFiniteSet(T) /\ Sum(f, E) = f[x] + Sum(f, T)
  BY <1>1, <1>3, SumStep
<1>. HIDE DEF x
<1>5. Cardinality(T) = n - 1 /\ T \in SUBSET D /\ n - 1 \in Nat /\ ~(n <= n - 1)
  <2>1. Cardinality(T) = n - 1 /\ T \in SUBSET D /\ n \in Nat
    BY <1>1, <1>3, <1>4, FS_RemoveElement
  <2>2. Cardinality(T) \in Nat
    BY <1>1, <2>1
  <2>. QED  BY <2>1, <2>2
<1>6. Sum(f, T) \in Nat
  <2>1. n - 1 \notin Bad
    <3>. HIDE DEF Bad
    <3>. QED  BY <1>2, <1>5
  <2>. HIDE DEF T
  <2>. QED  BY <1>5, <2>1
<1>7. f[x] \in Nat
  BY <1>3, <1>4
<1>. QED  BY <1>3, <1>4, <1>6, <1>7

LEMMA SumAny ==
  ASSUME NEW D, IsFiniteSet(D), NEW f \in [D -> Nat]
  PROVE  \A E \in SUBSET D : \A y \in E : Sum(f, E) = f[y] + Sum(f, E \ {y})
<1>. DEFINE Fits(E) == \A y \in E : Sum(f, E) = f[y] + Sum(f, E \ {y})
            Bad == {n \in Nat : \E E \in SUBSET D : Cardinality(E) = n /\ ~Fits(E)}
<1>1. \A E \in SUBSET D : IsFiniteSet(E) /\ Cardinality(E) \in Nat
  BY FS_Subset, FS_CardinalityType
<1>. SUFFICES ASSUME Bad # {}  PROVE FALSE
  BY <1>1
<1>2. PICK n \in Bad : \A k \in Bad : n <= k
  <2>1. Bad \subseteq Nat
    OBVIOUS
  <2>. HIDE DEF Bad
  <2>. QED  BY <2>1, LeastNatural
<1>3. PICK E \in SUBSET D : Cardinality(E) = n /\ ~Fits(E)
  <2>. HIDE DEF Fits
  <2>. QED  OBVIOUS
<1>4. PICK y \in E : Sum(f, E) # f[y] + Sum(f, E \ {y})
  BY <1>3
<1>. DEFINE x == One(E)
            T == E \ {x}
            U == E \ {y}
            W == E \ {x, y}
<1>5. x \in E /\ Sum(f, E) = f[x] + Sum(f, T)
  BY <1>1, <1>4, SumStep
<1>6. x # y
  BY <1>4, <1>5
<1>. HIDE DEF x
<1>7. /\ T \in SUBSET D /\ Cardinality(T) = n - 1 /\ y \in T /\ T \ {y} = W
      /\ U \in SUBSET D /\ Cardinality(U) = n - 1 /\ x \in U /\ U \ {x} = W
      /\ W \in SUBSET D /\ n \in Nat
  BY <1>1, <1>3, <1>4, <1>5, <1>6, FS_RemoveElement
<1>8. Cardinality(T) \in Nat
  BY <1>1, <1>7
<1>9. n - 1 \notin Bad
  <2>1. n - 1 \in Nat /\ ~(n <= n - 1)
    BY <1>7, <1>8
  <2>. HIDE DEF Bad
  <2>. QED  BY <1>2, <2>1
<1>. HIDE DEF T, U, W
<1>10. Fits(T) /\ Fits(U)
  <2>. HIDE DEF Fits
  <2>. QED  BY <1>7, <1>8, <1>9
<1>11. Sum(f, T) = f[y] + Sum(f, W) /\ Sum(f, U) = f[x] + Sum(f, W)
  BY <1>7, <1>10
<1>12. f[x] \in Nat /\ f[y] \in Nat /\ Sum(f, W) \in Nat
  BY <1>3, <1>4, <1>5, <1>7, SumType
<1>13. Sum(f, E) # f[y] + Sum(f, U)
  BY <1>4 DEF U
<1>. QED  BY <1>5, <1>11, <1>12, <1>13

\* The sum over a set is that over its parts.
LEMMA SumSplits ==
  ASSUME NEW D, IsFiniteSet(D), NEW f \in [D -> Nat], NEW A \in SUBSET D
  PROVE  \A B \in SUBSET D : A \cap B = {} => Sum(f, A \cup B) = Sum(f, A) + Sum(f, B)
<1>. DEFINE Fits(B) == A \cap B = {} => Sum(f, A \cup B) = Sum(f, A) + Sum(f, B)
            Bad == {n \in Nat : \E B \in SUBSET D : Cardinality(B) = n /\ ~Fits(B)}
<1>1. \A E \in SUBSET D : IsFiniteSet(E) /\ Cardinality(E) \in Nat
  BY FS_Subset, FS_CardinalityType
<1>. SUFFICES ASSUME Bad # {}  PROVE FALSE
  BY <1>1
<1>2. PICK n \in Bad : \A k \in Bad : n <= k
  <2>1. Bad \subseteq Nat
    OBVIOUS
  <2>. HIDE DEF Bad
  <2>. QED  BY <2>1, LeastNatural
<1>3. PICK B \in SUBSET D : Cardinality(B) = n /\ ~Fits(B)
  <2>. HIDE DEF Fits
  <2>. QED  OBVIOUS
<1>4. A \cap B = {} /\ Sum(f, A \cup B) # Sum(f, A) + Sum(f, B)
  BY <1>3
<1>5. B # {}
  <2>. SUFFICES ASSUME B = {}  PROVE FALSE
    OBVIOUS
  <2>1. A \cup B = A /\ IsFiniteSet(B)
    BY <1>1
  <2>2. Sum(f, B) = 0 /\ Sum(f, A) \in Nat
    BY <2>1, SumStep, SumType
  <2>. QED  BY <1>4, <2>1, <2>2
<1>6. PICK y \in B : TRUE
  BY <1>5
<1>. DEFINE T == B \ {y}
            AB == A \cup B
            AT == A \cup T
<1>7. /\ T \in SUBSET D /\ Cardinality(T) = n - 1 /\ A \cap T = {} /\ AB \in SUBSET D
      /\ y \in AB /\ AB \ {y} = AT /\ n \in Nat
  BY <1>1, <1>3, <1>4, <1>6, FS_RemoveElement
<1>8. Cardinality(T) \in Nat
  BY <1>1, <1>7
<1>9. n - 1 \notin Bad
  <2>1. n - 1 \in Nat /\ ~(n <= n - 1)
    BY <1>7, <1>8
  <2>. HIDE DEF Bad
  <2>. QED  BY <1>2, <2>1
<1>10. Sum(f, AB) = f[y] + Sum(f, AT)
  <2>. HIDE DEF AB, AT
  <2>. QED  BY <1>7, SumAny
<1>11. Sum(f, B) = f[y] + Sum(f, T)
  BY <1>6, SumAny
<1>. HIDE DEF T, AB
<1>12. Fits(T)
  <2>. HIDE DEF Fits
  <2>. QED  BY <1>7, <1>8, <1>9
<1>13. Sum(f, AT) = Sum(f, A) + Sum(f, T)
  BY <1>7, <1>12
<1>14. f[y] \in Nat /\ Sum(f, A) \in Nat /\ Sum(f, T) \in Nat
  BY <1>6, <1>7, SumType
<1>15. Sum(f, AB) # Sum(f, A) + Sum(f, B)
  BY <1>4 DEF AB
<1>. HIDE DEF AT
<1>. QED  BY <1>10, <1>11, <1>13, <1>14, <1>15

LEMMA SumGrows ==
  ASSUME NEW D, IsFiniteSet(D), NEW f \in [D -> Nat], NEW A \in SUBSET D, NEW B \in SUBSET A
  PROVE  Sum(f, B) <= Sum(f, A) /\ Sum(f, A \ B) = Sum(f, A) - Sum(f, B)
<1>. PICK C : C = A \ B
  OBVIOUS
<1>1. B \in SUBSET D /\ C \in SUBSET D /\ B \cap C = {} /\ B \cup C = A
  OBVIOUS
<1>2. Sum(f, B \cup C) = Sum(f, B) + Sum(f, C)
  BY <1>1, SumSplits
<1>3. Sum(f, B) \in Nat /\ Sum(f, C) \in Nat
  BY <1>1, SumType
<1>4. Sum(f, A) = Sum(f, B) + Sum(f, C)
  BY <1>1, <1>2
<1>5. Sum(f, B) <= Sum(f, A) /\ Sum(f, C) = Sum(f, A) - Sum(f, B)
  BY <1>3, <1>4
<1>. QED  BY <1>5
-----------------------------------------------------------------------------
(* The percentile and the timeout.                                         *)

TypeInv == answers \in [Marks -> [RTTs -> Nat]]

\* The answers that count, up to a time.
Clean == answers["clean"]
Upto(d) == {e \in RTTs : e <= d}

LEMMA CountsAreSums ==
  /\ Total = Sum(Clean, RTTs)
  /\ \A D : CleanIn(D) = Sum(Clean, D)
  /\ \A d : MapThenSumSet(Measured, {e \in RTTs : e <= d}) = Sum(Clean, Upto(d))
BY DEF Total, CleanIn, Sum, Measured, Clean, Upto, MapThenSumSet, MapThenFoldSet

LEMMA LeastIsMin ==
  ASSUME NEW S \in SUBSET Nat, S # {}
  PROVE  Min(S) \in S /\ \A d \in S : Min(S) <= d
<1>1. \E n \in S : \A m \in S : n <= m
  BY LeastNatural
<1>. QED  BY <1>1 DEF Min

\* Of finitely many times one is last.
LEMMA LastTime ==
  ASSUME NEW S \in SUBSET RTTs, S # {}
  PROVE  \E d \in S : \A e \in S : e <= d
<1>. DEFINE R == {q \in S \X S : q[1] <= q[2]}
<1>1. IsFiniteSet(S) /\ S \subseteq Nat
  BY TimingAssumption, FS_Subset
<1>2. \A x, y \in S : <<x, y>> \in R <=> x <= y
  OBVIOUS
<1>. HIDE DEF R
<1>3. Linear(S, R)
  <2>0. \A x, y \in S : x <= y \/ y <= x
    BY <1>1
  <2>1. \A x, y \in S : <<x, y>> \in R \/ <<y, x>> \in R
    BY <1>2, <2>0
  <2>2. \A x, y \in S : <<x, y>> \in R /\ <<y, x>> \in R => x = y
    BY <1>1, <1>2
  <2>3. \A x, y, z \in S : <<x, y>> \in R /\ <<y, z>> \in R => <<x, z>> \in R
    BY <1>1, <1>2
  <2>. QED  BY <2>1, <2>2, <2>3 DEF Linear
<1>4. PICK d \in S : \A e \in S : <<e, d>> \in R
  BY <1>1, <1>3, LastIn
<1>. QED  BY <1>2, <1>4

\* The percentile is a time up to which at least so many answers came, and before
\* which fewer did.
LEMMA PercentileShape ==
  ASSUME TypeInv, Total # 0
  PROVE  LET p == Percentile(99) IN
         /\ p \in RTTs
         /\ 100 * Sum(Clean, Upto(p)) >= 99 * Total
         /\ 100 * Sum(Clean, {e \in RTTs : e < p}) < 99 * Total
<1>. DEFINE n == Total
            rank == Rank(99, n)
            S == {d \in RTTs : Sum(Clean, Upto(d)) >= rank}
            p == Percentile(99)
            before == {e \in RTTs : e < p}
<1>1. IsFiniteSet(RTTs) /\ RTTs \subseteq Nat /\ Clean \in [RTTs -> Nat]
  BY TimingAssumption DEF TypeInv, Clean, Marks
<1>2. n \in Nat /\ n = Sum(Clean, RTTs)
  BY <1>1, CountsAreSums, SumType
<1>3. rank \in Nat /\ rank <= n /\ 100 * rank >= 99 * n /\ 100 * (rank - 1) < 99 * n /\ rank > 0
  BY <1>2 DEF Rank, CeilDiv
<1>4. p = Min(S)
  BY DEF Percentile, MapThenSumSet, MapThenFoldSet, Measured, Sum, Clean, Upto
<1>. HIDE DEF n, rank
<1>5. S # {}
  <2>1. RTTs # {}
    BY <1>1, <1>2, SumStep DEF n
  <2>2. PICK d \in RTTs : \A e \in RTTs : e <= d
    BY <2>1, LastTime
  <2>3. Upto(d) = RTTs
    BY <2>2 DEF Upto
  <2>. QED  BY <1>2, <1>3, <2>3
<1>6. p \in S /\ \A d \in S : p <= d
  <2>1. S \in SUBSET Nat
    BY <1>1
  <2>. HIDE DEF S
  <2>. QED  BY <1>4, <1>5, <2>1, LeastIsMin
<1>. HIDE DEF p
<1>7. p \in RTTs /\ Sum(Clean, Upto(p)) >= rank
  BY <1>6
<1>8. Sum(Clean, before) < rank
  <2>1. CASE before = {}
    <3>1. Sum(Clean, {}) = 0
      BY SumStep, FS_EmptySet
    <3>. QED  BY <1>3, <2>1, <3>1
  <2>2. CASE before # {}
    <3>1. PICK d \in before : \A e \in before : e <= d
      <4>1. before \in SUBSET RTTs
        OBVIOUS
      <4>. HIDE DEF before
      <4>. QED  BY <2>2, <4>1, LastTime
    <3>2. d \in RTTs /\ d < p
      BY <3>1
    <3>3. Upto(d) = before
      <4>1. \A e \in RTTs : e <= d => e < p
        BY <1>1, <1>7, <3>2
      <4>2. \A e \in RTTs : e < p => e <= d
        BY <3>1
      <4>. QED  BY <4>1, <4>2 DEF Upto
    <3>4. d \notin S
      <4>. HIDE DEF S
      <4>. QED  BY <1>1, <1>6, <1>7, <3>2
    <3>5. Sum(Clean, Upto(d)) \in Nat
      BY <1>1, SumType DEF Upto
    <3>. QED  BY <1>3, <3>2, <3>3, <3>4, <3>5
  <2>. QED  BY <2>1, <2>2
<1>9. Sum(Clean, before) \in Nat /\ Sum(Clean, Upto(p)) \in Nat
  BY <1>1, SumType DEF Upto
<1>10. 100 * Sum(Clean, Upto(p)) >= 99 * n
  BY <1>2, <1>3, <1>7, <1>9
<1>11. 100 * Sum(Clean, before) < 99 * n
  <2>. HIDE DEF before
  <2>. QED  BY <1>2, <1>3, <1>8, <1>9
<1>. QED  BY <1>7, <1>10, <1>11 DEF p, n

\* The timeout is at least three times the percentile in whole milliseconds, and
\* above its floor by less than one step more than that.
LEMMA TimeoutShape ==
  ASSUME NEW d \in Nat
  PROVE  LET t == SuggestTimeout(d) IN
         /\ t \in Nat /\ t >= 3 * WholeMs(d) /\ t >= 500
         /\ t > 500 => t - 100 < 3 * WholeMs(d)
         /\ WholeMs(d) \in Nat
<1>. DEFINE m == WholeMs(d)
            x == 100 * CeilDiv(3 * m, 100)
            t == SuggestTimeout(d)
<1>1. m \in Nat
  BY TimingAssumption, Division DEF WholeMs
<1>2. t = Max({x, 500})
  BY DEF SuggestTimeout
<1>. HIDE DEF m, t
<1>3. x \in Nat /\ x >= 3 * m /\ x < 3 * m + 100
  BY <1>1 DEF CeilDiv
<1>. HIDE DEF x
<1>4. Max({x, 500}) \in {x, 500} /\ \A y \in {x, 500} : Max({x, 500}) >= y
  <2>1. \E z \in {x, 500} : \A y \in {x, 500} : z >= y
    BY <1>3
  <2>. QED  BY <2>1 DEF Max
<1>5. t \in Nat /\ t >= 3 * m /\ t >= 500 /\ (t > 500 => t - 100 < 3 * m)
  BY <1>1, <1>2, <1>3, <1>4
<1>. QED  BY <1>1, <1>5 DEF m, t

LEMMA MsGrows ==
  ASSUME NEW a \in Nat, NEW b \in Nat, a <= b
  PROVE  WholeMs(a) <= WholeMs(b)
<1>1. /\ TicksPerMs \in Nat \ {0} /\ WholeMs(a) \in Nat /\ WholeMs(b) \in Nat
      /\ TicksPerMs * WholeMs(a) <= a /\ b < TicksPerMs * WholeMs(b) + TicksPerMs
  BY TimingAssumption, Division DEF WholeMs
<1>. SUFFICES ASSUME WholeMs(b) + 1 <= WholeMs(a)  PROVE FALSE
  BY <1>1
<1>2. PICK x, y, w \in Nat : x = WholeMs(a) /\ y = WholeMs(b) /\ w = TicksPerMs
  BY <1>1
<1>3. w * (y + 1) <= w * x
  BY <1>2
<1>4. w * (y + 1) = w * y + w
  BY <1>2
<1>. QED  BY <1>1, <1>2, <1>3, <1>4

\* Three times a time that exceeds the timeout by 3 ms exceeds it in whole ones too.
LEMMA MsOver ==
  ASSUME NEW d \in Nat, NEW t \in Nat, 3 * d >= TicksPerMs * (t + 3)
  PROVE  3 * WholeMs(d) > t
<1>1. /\ TicksPerMs \in Nat \ {0} /\ WholeMs(d) \in Nat
      /\ d < TicksPerMs * WholeMs(d) + TicksPerMs
  BY TimingAssumption, Division DEF WholeMs
<1>. SUFFICES ASSUME 3 * WholeMs(d) <= t  PROVE FALSE
  BY <1>1
<1>2. PICK x, w \in Nat : x = WholeMs(d) /\ w = TicksPerMs
  BY <1>1
<1>3. w * (3 * x) <= w * t
  BY <1>2
<1>4. w * (3 * x) = 3 * (w * x) /\ w * (t + 3) = w * t + 3 * w
  BY <1>2
<1>. QED  BY <1>1, <1>2, <1>3, <1>4

-----------------------------------------------------------------------------
(* The theorems.                                                           *)

LEMMA TypeInvariant == Spec => []TypeInv
<1>1. Init => TypeInv
  BY DEF Init, TypeInv
<1>2. TypeInv /\ [Next]_timingVars => TypeInv'
  BY DEF TypeInv, Next, Answered, Ended, timingVars
<1>. QED  BY <1>1, <1>2, PTL DEF Spec

\* SuggestTimeout leaves out, by 3 ms or more, at most one clean answer in a hundred,
\* however the times are spread and however many answers were retried or misordered.
THEOREM TimeoutFitsHolds == Spec => []TimeoutFits
<1>1. TypeInv => TimeoutFits
  <2>. SUFFICES ASSUME TypeInv  PROVE TimeoutFits
    OBVIOUS
  <2>. DEFINE p == Percentile(99)
              T == TimeoutMs
              out == {d \in RTTs : 3 * d >= TicksPerMs * (T + 3)}
              n == Sum(Clean, RTTs)
  <2>1. /\ IsFiniteSet(RTTs) /\ RTTs \subseteq Nat /\ Clean \in [RTTs -> Nat]
        /\ out \in SUBSET RTTs /\ RTTs \in SUBSET RTTs
    BY TimingAssumption DEF TypeInv, Clean, Marks
  <2>2. n \in Nat /\ Sum(Clean, out) \in Nat /\ Sum(Clean, out) <= n
    <3>. HIDE DEF out
    <3>. QED  BY <2>1, SumType, SumGrows
  <2>3. 100 * Sum(Clean, out) <= n
    <3>1. CASE Total = 0
      BY <2>2, <3>1, CountsAreSums
    <3>2. CASE Total # 0
      <4>1. p \in RTTs /\ 100 * Sum(Clean, Upto(p)) >= 99 * Total
        BY <3>2, PercentileShape
      <4>2. T \in Nat /\ T >= 3 * WholeMs(p) /\ WholeMs(p) \in Nat
        BY <2>1, <4>1, TimeoutShape DEF TimeoutMs
      <4>. HIDE DEF p, T
      <4>. DEFINE late == RTTs \ Upto(p)
      <4>3. out \in SUBSET late
        <5>. SUFFICES ASSUME NEW d \in RTTs, 3 * d >= TicksPerMs * (T + 3), d <= p
                      PROVE  FALSE
          BY DEF Upto
        <5>1. WholeMs(d) <= WholeMs(p) /\ WholeMs(d) \in Nat
          BY <2>1, <4>1, MsGrows, TimeoutShape
        <5>2. 3 * WholeMs(d) > T
          BY <2>1, <4>2, MsOver
        <5>. QED  BY <4>2, <5>1, <5>2
      <4>4. Upto(p) \in SUBSET RTTs /\ late \in SUBSET RTTs
        BY DEF Upto
      <4>5. Sum(Clean, late) = n - Sum(Clean, Upto(p))
        BY <2>1, <4>4, SumGrows
      <4>. HIDE DEF late, out
      <4>6. Sum(Clean, out) <= Sum(Clean, late)
        BY <2>1, <4>3, <4>4, SumGrows
      <4>7. Sum(Clean, Upto(p)) \in Nat /\ Total = n
        BY <2>1, <4>4, SumType, CountsAreSums
      <4>. HIDE DEF n
      <4>. QED  BY <2>2, <4>1, <4>5, <4>6, <4>7
    <3>. QED  BY <3>1, <3>2
  <2>. QED  BY <2>3, CountsAreSums DEF TimeoutFits
<1>. QED  BY <1>1, TypeInvariant, PTL

\* A timeout above the floor was needed by at least one clean answer in a hundred:
\* retries and misordered answers do not raise it.
THEOREM TimeoutEarnedHolds == Spec => []TimeoutEarned
<1>1. TypeInv => TimeoutEarned
  <2>. SUFFICES ASSUME TypeInv, TimeoutMs > 500  PROVE TimeoutEarned
    BY DEF TimeoutEarned
  <2>. DEFINE p == Percentile(99)
              T == TimeoutMs
              slow == {d \in RTTs : 3 * WholeMs(d) > T - 100}
              before == {e \in RTTs : e < p}
              n == Sum(Clean, RTTs)
  <2>1. /\ IsFiniteSet(RTTs) /\ RTTs \subseteq Nat /\ Clean \in [RTTs -> Nat]
        /\ slow \in SUBSET RTTs /\ before \in SUBSET RTTs /\ RTTs \in SUBSET RTTs
    BY TimingAssumption DEF TypeInv, Clean, Marks
  <2>2. Total # 0
    <3>. SUFFICES ASSUME Total = 0  PROVE FALSE
      OBVIOUS
    <3>1. p = 0
      BY DEF Percentile
    <3>2. T = SuggestTimeout(0) /\ WholeMs(0) = 0
      <4>1. 0 \div TicksPerMs = 0
        <5>1. TicksPerMs \in Nat \ {0}
          BY TimingAssumption
        <5>2. (0 * TicksPerMs + 0) \div TicksPerMs = 0
          BY <5>1, Quotient
        <5>. QED  BY <5>1, <5>2
      <4>. QED  BY <3>1, <4>1 DEF TimeoutMs, WholeMs
    <3>3. T \in Nat /\ T - 100 < 0
      BY <3>2, TimeoutShape
    <3>. QED  BY <3>3
  <2>3. p \in RTTs /\ 100 * Sum(Clean, before) < 99 * Total
    BY <2>2, PercentileShape
  <2>4. T \in Nat /\ T - 100 < 3 * WholeMs(p) /\ WholeMs(p) \in Nat
    BY <2>1, <2>3, TimeoutShape DEF TimeoutMs
  <2>. HIDE DEF p, T
  <2>5. RTTs \ before \in SUBSET slow
    <3>. SUFFICES ASSUME NEW d \in RTTs, ~(d < p)  PROVE 3 * WholeMs(d) > T - 100
      OBVIOUS
    <3>1. WholeMs(p) <= WholeMs(d) /\ WholeMs(d) \in Nat
      BY <2>1, <2>3, MsGrows, TimeoutShape
    <3>. QED  BY <2>4, <3>1
  <2>6. Sum(Clean, RTTs \ before) = n - Sum(Clean, before)
    <3>. HIDE DEF before
    <3>. QED  BY <2>1, SumGrows
  <2>7. Sum(Clean, RTTs \ before) <= Sum(Clean, slow)
    <3>. HIDE DEF before, slow
    <3>. QED  BY <2>1, <2>5, SumGrows
  <2>8. n \in Nat /\ Sum(Clean, before) \in Nat /\ Sum(Clean, slow) \in Nat /\ Total = n
    <3>. HIDE DEF before, slow
    <3>. QED  BY <2>1, SumType, CountsAreSums
  <2>. HIDE DEF n, before, slow
  <2>9. n > 0 /\ 100 * Sum(Clean, slow) >= n
    BY <2>2, <2>3, <2>6, <2>7, <2>8
  <2>. QED  BY <2>9, CountsAreSums DEF TimeoutEarned, n, slow, T
<1>. QED  BY <1>1, TypeInvariant, PTL
=============================================================================
