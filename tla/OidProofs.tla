----------------------------- MODULE OidProofs ------------------------------
(***************************************************************************)
(* What the operators on OIDs and columns promise the walkers for every    *)
(* two OIDs, and every width of an arc: the order is strict, and a skip    *)
(* moves forward in it unless its arc wraps.                               *)
(***************************************************************************)
EXTENDS Column, Listing, NaturalLemmas

\* a and b agree on their first n arcs.
Agree(a, b, n) == n <= Len(a) /\ n <= Len(b) /\ \A i \in 1 .. n : a[i] = b[i]

\* They agree on n arcs and on no more.
Apart(a, b, n) == Agree(a, b, n) /\ (n < Len(a) /\ n < Len(b) => a[n + 1] # b[n + 1])

-----------------------------------------------------------------------------
(* Where two OIDs part.                                                    *)

LEMMA ArcType == Arc \subseteq Nat
<1>1. ArcModulus \in Nat /\ ArcModulus > 0
  BY ArcAssumption
<1>. QED  BY <1>1 DEF Arc

LEMMA ArcsAreNaturals ==
  ASSUME NEW a \in Seq(Arc), NEW n \in Nat, n < Len(a)
  PROVE  a[n + 1] \in Nat
<1>1. a[n + 1] \in Arc
  OBVIOUS
<1>. QED  BY <1>1, ArcType

\* Shared is where two OIDs part.
LEMMA SharedApart ==
  ASSUME NEW a \in Seq(Arc), NEW b \in Seq(Arc)
  PROVE  Shared(a, b) \in Nat /\ Apart(a, b, Shared(a, b))
<1>. DEFINE S == {n \in Nat : n >= Len(a) \/ n >= Len(b) \/ a[n + 1] # b[n + 1]}
<1>1. Len(a) \in S /\ Len(b) \in S
  OBVIOUS
<1>2. PICK n \in S : \A m \in S : n <= m
  <2>. HIDE DEF S
  <2>1. S \subseteq Nat
    BY DEF S
  <2>. QED  BY <1>1, <2>1, LeastNatural
<1>3. n \in Nat /\ n <= Len(a) /\ n <= Len(b)
  BY <1>1, <1>2
<1>4. \A i \in 1 .. n : a[i] = b[i]
  <2>. SUFFICES ASSUME NEW i \in 1 .. n PROVE a[i] = b[i]
    OBVIOUS
  <2>1. i - 1 \in Nat /\ i - 1 < n /\ (i - 1) + 1 = i
    BY <1>3
  <2>2. i - 1 \notin S
    <3>. HIDE DEF S
    <3>. QED  BY <1>2, <1>3, <2>1
  <2>. QED  BY <2>1, <2>2
<1>5. n < Len(a) /\ n < Len(b) => a[n + 1] # b[n + 1]
  BY <1>2, <1>3
<1>6. \E k \in 0 .. Len(a) :
        /\ k <= Len(b)
        /\ \A i \in 1 .. k : a[i] = b[i]
        /\ k < Len(a) /\ k < Len(b) => a[k + 1] # b[k + 1]
  <2>1. n \in 0 .. Len(a)
    BY <1>3
  <2>. QED  BY <1>3, <1>4, <1>5, <2>1
<1>7. /\ Shared(a, b) \in 0 .. Len(a) /\ Shared(a, b) <= Len(b)
      /\ \A i \in 1 .. Shared(a, b) : a[i] = b[i]
      /\ Shared(a, b) < Len(a) /\ Shared(a, b) < Len(b)
           => a[Shared(a, b) + 1] # b[Shared(a, b) + 1]
  BY <1>6, Zenon DEF Shared
<1>. QED  BY <1>7 DEF Apart, Agree

\* They part at one place only.
LEMMA ApartOnce ==
  ASSUME NEW a \in Seq(Arc), NEW b \in Seq(Arc), NEW n \in Nat, NEW m \in Nat,
         Apart(a, b, n), Apart(a, b, m)
  PROVE  n = m
<1>1. ~(n < m)
  <2>. SUFFICES ASSUME n < m PROVE FALSE
    OBVIOUS
  <2>1. n + 1 \in 1 .. m /\ n < Len(a) /\ n < Len(b)
    BY DEF Apart, Agree
  <2>. QED  BY <2>1 DEF Apart, Agree
<1>2. ~(m < n)
  <2>. SUFFICES ASSUME m < n PROVE FALSE
    OBVIOUS
  <2>1. m + 1 \in 1 .. n /\ m < Len(a) /\ m < Len(b)
    BY DEF Apart, Agree
  <2>. QED  BY <2>1 DEF Apart, Agree
<1>. QED  BY <1>1, <1>2

\* a sorts before b where they part at n.
Below(a, b, n) ==
  /\ Agree(a, b, n) /\ n < Len(b)
  /\ n = Len(a) \/ (n < Len(a) /\ a[n + 1] < b[n + 1])

\* Less is to be below somewhere.
LEMMA LessIsBelow ==
  ASSUME NEW a \in Seq(Arc), NEW b \in Seq(Arc)
  PROVE  Less(a, b) <=> \E n \in Nat : Below(a, b, n)
<1>. DEFINE s == Shared(a, b)
<1>1. s \in Nat /\ Apart(a, b, s)
  BY SharedApart
<1>. HIDE DEF s
<1>2. Less(a, b) <=> IF s < Len(a) /\ s < Len(b) THEN a[s + 1] < b[s + 1]
                                                 ELSE Len(a) < Len(b)
  BY DEF Less, s
<1>3. Less(a, b) => Below(a, b, s)
  BY <1>1, <1>2 DEF Below, Apart, Agree
<1>4. ASSUME NEW n \in Nat, Below(a, b, n) PROVE Less(a, b)
  <2>1. ASSUME n < Len(a) PROVE a[n + 1] # b[n + 1]
    <3>1. n < Len(b) /\ a[n + 1] < b[n + 1]
      BY <1>4, <2>1 DEF Below
    <3>2. a[n + 1] \in Nat /\ b[n + 1] \in Nat
      BY <2>1, <3>1, ArcsAreNaturals
    <3>. QED  BY <3>1, <3>2
  <2>2. Apart(a, b, n)
    BY <1>4, <2>1 DEF Apart, Below
  <2>3. n = s
    BY <1>1, <2>2, ApartOnce
  <2>. QED  BY <1>2, <1>4, <2>3 DEF Below, Agree
<1>. QED  BY <1>1, <1>3, <1>4
-----------------------------------------------------------------------------
(* The order.                                                              *)

\* Compare is a strict order: no OID sorts before itself, and what sorts
\* before it does so before all that it sorts before.
THEOREM LessIsStrict ==
  ASSUME NEW a \in Seq(Arc), NEW b \in Seq(Arc), NEW c \in Seq(Arc)
  PROVE  ~Less(a, a) /\ (Less(a, b) /\ Less(b, c) => Less(a, c))
<1>1. ~Less(a, a)
  <2>. SUFFICES ASSUME NEW n \in Nat, Below(a, a, n) PROVE FALSE
    BY LessIsBelow
  <2>1. n < Len(a) /\ a[n + 1] < a[n + 1]
    BY DEF Below
  <2>2. a[n + 1] \in Nat
    BY <2>1, ArcsAreNaturals
  <2>. QED  BY <2>1, <2>2
<1>2. ASSUME Less(a, b), Less(b, c) PROVE Less(a, c)
  <2>1. PICK n \in Nat : Below(a, b, n)
    BY <1>2, LessIsBelow
  <2>2. PICK m \in Nat : Below(b, c, m)
    BY <1>2, LessIsBelow
  <2>3. CASE n < m
    <3>1. b[n + 1] = c[n + 1] /\ n < Len(c)
      BY <2>2, <2>3 DEF Below, Agree
    <3>2. Agree(a, c, n)
      BY <2>1, <2>2, <2>3 DEF Below, Agree
    <3>3. Below(a, c, n)
      BY <2>1, <3>1, <3>2 DEF Below
    <3>. QED  BY <3>3, LessIsBelow
  <2>4. CASE m < n
    <3>1. a[m + 1] = b[m + 1] /\ m < Len(a) /\ m < Len(b)
      BY <2>1, <2>4 DEF Below, Agree
    <3>2. Agree(a, c, m)
      BY <2>1, <2>2, <2>4 DEF Below, Agree
    <3>3. Below(a, c, m)
      BY <2>2, <3>1, <3>2 DEF Below
    <3>. QED  BY <3>3, LessIsBelow
  <2>5. CASE n = m
    <3>1. Agree(a, c, n) /\ n < Len(c)
      BY <2>1, <2>2, <2>5 DEF Below, Agree
    <3>2. ASSUME n < Len(a) PROVE a[n + 1] < c[n + 1]
      <4>1. n < Len(b) /\ a[n + 1] < b[n + 1] /\ b[n + 1] < c[n + 1]
        BY <2>1, <2>2, <2>5, <3>2 DEF Below
      <4>2. a[n + 1] \in Nat /\ b[n + 1] \in Nat /\ c[n + 1] \in Nat
        BY <3>1, <3>2, <4>1, ArcsAreNaturals
      <4>. QED  BY <4>1, <4>2
    <3>3. Below(a, c, n)
      BY <3>1, <3>2 DEF Below, Agree
    <3>. QED  BY <3>3, LessIsBelow
  <2>. QED  BY <2>3, <2>4, <2>5
<1>. QED  BY <1>1, <1>2

\* Of two OIDs that differ one is less.
LEMMA LessIsTotal ==
  ASSUME NEW a \in Seq(Arc), NEW b \in Seq(Arc)
  PROVE  Less(a, b) \/ a = b \/ Less(b, a)
<1>1. PICK n \in Nat : Apart(a, b, n)
  BY SharedApart
<1>2. CASE n < Len(a) /\ n < Len(b)
  <2>1. a[n + 1] \in Nat /\ b[n + 1] \in Nat /\ a[n + 1] # b[n + 1]
    BY <1>1, <1>2, ArcsAreNaturals DEF Apart
  <2>2. Below(a, b, n) \/ Below(b, a, n)
    BY <1>1, <1>2, <2>1 DEF Apart, Agree, Below
  <2>. QED  BY <2>2, LessIsBelow
<1>3. CASE n = Len(a) /\ n < Len(b)
  <2>1. Below(a, b, n)
    BY <1>1, <1>3 DEF Apart, Agree, Below
  <2>. QED  BY <2>1, LessIsBelow
<1>4. CASE n = Len(b) /\ n < Len(a)
  <2>1. Below(b, a, n)
    BY <1>1, <1>4 DEF Apart, Agree, Below
  <2>. QED  BY <2>1, LessIsBelow
<1>5. CASE n = Len(a) /\ n = Len(b)
  <2>1. Len(a) = Len(b) /\ \A i \in 1 .. Len(a) : a[i] = b[i]
    BY <1>1, <1>5 DEF Apart, Agree
  <2>2. a \in [1 .. Len(a) -> Arc] /\ b \in [1 .. Len(a) -> Arc]
    BY <2>1
  <2>3. a = b
    BY <2>1, <2>2
  <2>. QED  BY <2>3
<1>. QED  BY <1>1, <1>2, <1>3, <1>4, <1>5 DEF Apart, Agree

-----------------------------------------------------------------------------
(* Prefixes.                                                               *)

\* A prefix is agreed on to its end.
LEMMA PrefixAgrees ==
  ASSUME NEW o \in Seq(Arc), NEW p \in Seq(Arc)
  PROVE  HasPrefix(o, p) <=> Agree(p, o, Len(p))
<1>1. ASSUME HasPrefix(o, p)  PROVE Agree(p, o, Len(p))
  <2>1. Len(p) <= Len(o) /\ SubSeq(p, 1, Len(p)) = SubSeq(o, 1, Len(p))
    BY <1>1 DEF HasPrefix, IsPrefix
  <2>2. \A i \in 1 .. Len(p) : p[i] = SubSeq(p, 1, Len(p))[i] /\ o[i] = SubSeq(o, 1, Len(p))[i]
    BY <2>1
  <2>. QED  BY <2>1, <2>2 DEF Agree
<1>2. ASSUME Agree(p, o, Len(p))  PROVE HasPrefix(o, p)
  <2>1. Len(p) <= Len(o) /\ \A i \in 1 .. Len(p) : p[i] = o[i]
    BY <1>2 DEF Agree
  <2>2. SubSeq(p, 1, Len(p)) = SubSeq(o, 1, Len(p))
    BY <2>1
  <2>. QED  BY <2>1, <2>2 DEF HasPrefix, IsPrefix
<1>. QED  BY <1>1, <1>2

\* An OID lies at itself, and two prefixes of an OID are prefixes one of the other.
LEMMA PrefixesCompare ==
  ASSUME NEW o \in Seq(Arc), NEW p \in Seq(Arc), NEW q \in Seq(Arc)
  PROVE  /\ HasPrefix(o, o)
         /\ HasPrefix(o, p) /\ HasPrefix(o, q) => HasPrefix(p, q) \/ HasPrefix(q, p)
<1>1. HasPrefix(o, o)
  BY PrefixAgrees DEF Agree
<1>2. ASSUME HasPrefix(o, p), HasPrefix(o, q)  PROVE HasPrefix(p, q) \/ HasPrefix(q, p)
  <2>1. Agree(p, o, Len(p)) /\ Agree(q, o, Len(q))
    BY <1>2, PrefixAgrees
  <2>2. Len(p) <= Len(q) => Agree(p, q, Len(p))
    BY <2>1 DEF Agree
  <2>3. Len(q) <= Len(p) => Agree(q, p, Len(q))
    BY <2>1 DEF Agree
  <2>. QED  BY <2>2, <2>3, PrefixAgrees
<1>. QED  BY <1>1, <1>2

\* The OIDs under a prefix have no other OID between them.
LEMMA NothingBetween ==
  ASSUME NEW p \in Seq(Arc), NEW a \in Seq(Arc), NEW x \in Seq(Arc), NEW b \in Seq(Arc),
         HasPrefix(a, p), HasPrefix(b, p), Less(a, x), Less(x, b)
  PROVE  HasPrefix(x, p)
<1>1. Agree(p, a, Len(p)) /\ Agree(p, b, Len(p))
  BY PrefixAgrees
<1>2. PICK n \in Nat : Below(a, x, n)
  BY LessIsBelow
<1>3. PICK m \in Nat : Below(x, b, m)
  BY LessIsBelow
<1>4. \A y \in Seq(Arc) : \A i \in 1 .. Len(y) : y[i] \in Nat
  <2>1. \A y \in Seq(Arc) : \A i \in 1 .. Len(y) : y[i] \in Arc
    OBVIOUS
  <2>. QED  BY <2>1, ArcType
<1>5. CASE n >= Len(p)
  BY <1>1, <1>2, <1>5, PrefixAgrees DEF Below, Agree
<1>6. CASE n < Len(p) /\ m >= Len(p)
  BY <1>1, <1>3, <1>6, PrefixAgrees DEF Below, Agree
<1>7. CASE n < Len(p) /\ m < Len(p)
  <2>1. a[n + 1] < x[n + 1] /\ n + 1 <= Len(x) /\ a[n + 1] = p[n + 1]
    BY <1>1, <1>2, <1>7 DEF Below, Agree
  <2>2. \A i \in 1 .. n : x[i] = p[i]
    BY <1>1, <1>2, <1>7 DEF Below, Agree
  <2>3. \A i \in 1 .. m : x[i] = p[i]
    BY <1>1, <1>3, <1>7 DEF Below, Agree
  <2>4. n = m
    <3>1. ~(n < m)
      BY <2>1, <2>3, <1>4, <1>1, <1>7 DEF Agree
    <3>2. ~(m < n)
      <4>. SUFFICES ASSUME m < n  PROVE FALSE
        OBVIOUS
      <4>1. m + 1 <= Len(x) /\ x[m + 1] = p[m + 1] /\ b[m + 1] = p[m + 1] /\ p[m + 1] \in Nat
        BY <1>1, <1>4, <1>7, <2>1, <2>2 DEF Agree
      <4>2. x[m + 1] < b[m + 1]
        BY <1>3, <4>1 DEF Below
      <4>. QED  BY <4>1, <4>2
    <3>. QED  BY <3>1, <3>2
  <2>5. x[n + 1] < b[n + 1] /\ b[n + 1] = p[n + 1]
    BY <1>1, <1>3, <1>7, <2>1, <2>4 DEF Below, Agree
  <2>. QED  BY <1>1, <1>4, <1>7, <2>1, <2>5 DEF Agree
<1>. QED  BY <1>5, <1>6, <1>7
-----------------------------------------------------------------------------
(* Skips.                                                                  *)

\* t keeps the arcs of request up to the d-th, and increments that one.
Stepped(request, t, d) ==
  /\ d \in 1 .. Len(request)
  /\ t \in Seq(Arc) /\ Len(t) = d
  /\ \A i \in 1 .. d - 1 : t[i] = request[i]
  /\ t[d] = request[d] + 1

LEMMA SkipShape ==
  ASSUME NEW request \in Seq(Arc), NEW answer \in Seq(Arc), request # <<>>,
         ~SkipWraps(request, answer)
  PROVE  Stepped(request, SkipTarget(request, answer), SkipDepth(request, answer))
<1>. DEFINE d == SkipDepth(request, answer)
            t == SkipTarget(request, answer)
<1>1. d \in 1 .. Len(request)
  <2>1. Shared(request, answer) \in Nat /\ Shared(request, answer) <= Len(request)
    BY SharedApart DEF Apart, Agree
  <2>2. Len(request) >= 1
    OBVIOUS
  <2>. QED  BY <2>1, <2>2 DEF SkipDepth
<1>2. ArcModulus \in Nat /\ ArcModulus > 0
  BY ArcAssumption
<1>3. request[d] \in Arc /\ request[d] # ArcModulus - 1
  BY <1>1 DEF SkipWraps
<1>4. request[d] + 1 \in Arc /\ (request[d] + 1) % ArcModulus = request[d] + 1
  <2>. DEFINE r == request[d]
  <2>1. r \in Nat /\ r + 1 < ArcModulus
    BY <1>2, <1>3 DEF Arc
  <2>2. (r + 1) % ArcModulus = r + 1
    <3>. HIDE DEF r
    <3>. QED  BY <1>2, <2>1
  <2>. QED  BY <1>2, <2>1, <2>2 DEF Arc
<1>. DEFINE p == SubSeq(request, 1, d)
<1>5. p \in Seq(Arc) /\ Len(p) = d /\ \A i \in 1 .. d : p[i] = request[i]
  BY <1>1
<1>6. t = [p EXCEPT ![d] = (@ + 1) % ArcModulus]
  BY DEF SkipTarget
<1>. HIDE DEF p, d, t
<1>7. t = [p EXCEPT ![d] = request[d] + 1]
  <2>1. p[d] = request[d]
    BY <1>1, <1>5
  <2>2. t = [p EXCEPT ![d] = (p[d] + 1) % ArcModulus]
    BY <1>6, Zenon
  <2>. QED  BY <1>4, <2>1, <2>2, Zenon
<1>8. Stepped(request, t, d)
  BY <1>1, <1>4, <1>5, <1>7 DEF Stepped
<1>. QED  BY <1>8 DEF d, t

\* The SkipTarget of a request is an OID, wrapped or not.
LEMMA SkipType ==
  ASSUME NEW request \in Seq(Arc), NEW answer \in Seq(Arc), request # <<>>
  PROVE  SkipTarget(request, answer) \in Seq(Arc)
<1>. DEFINE d == SkipDepth(request, answer)
            p == SubSeq(request, 1, d)
<1>1. d \in 1 .. Len(request)
  <2>1. Shared(request, answer) \in Nat /\ Shared(request, answer) <= Len(request)
    BY SharedApart DEF Apart, Agree
  <2>2. Len(request) >= 1
    OBVIOUS
  <2>. QED  BY <2>1, <2>2 DEF SkipDepth
<1>2. p \in Seq(Arc) /\ Len(p) = d
  BY <1>1
<1>3. (p[d] + 1) % ArcModulus \in Arc
  <2>0. p[d] \in Arc
    <3>. HIDE DEF d, p
    <3>. QED  BY <1>1, <1>2
  <2>1. p[d] \in Nat /\ ArcModulus \in Nat \ {0}
    BY <2>0, ArcType, ArcAssumption, Zenon
  <2>. HIDE DEF d, p
  <2>. QED  BY <2>1 DEF Arc
<1>4. SkipTarget(request, answer) = [p EXCEPT ![d] = (@ + 1) % ArcModulus]
  BY DEF SkipTarget
<1>. HIDE DEF d, p
<1>5. [p EXCEPT ![d] = (p[d] + 1) % ArcModulus] \in Seq(Arc)
  BY <1>1, <1>2, <1>3
<1>. QED  BY <1>4, <1>5, Zenon
\* SkipTarget moves a walk forward, however far back the agent answered, unless
\* the arc it increments is the largest.
THEOREM SkipMovesForward ==
  ASSUME NEW request \in Seq(Arc), NEW answer \in Seq(Arc), request # <<>>,
         ~SkipWraps(request, answer)
  PROVE  /\ SkipTarget(request, answer) \in Seq(Arc)
         /\ Less(request, SkipTarget(request, answer))
<1>. DEFINE d == SkipDepth(request, answer)
            t == SkipTarget(request, answer)
<1>0. Stepped(request, t, d)
  BY SkipShape
<1>. HIDE DEF d, t
<1>1. /\ d \in 1 .. Len(request)
      /\ t \in Seq(Arc) /\ Len(t) = d
      /\ \A i \in 1 .. d - 1 : t[i] = request[i]
      /\ t[d] = request[d] + 1
  BY <1>0 DEF Stepped
<1>2. d - 1 \in Nat /\ d - 1 < Len(request) /\ d - 1 < Len(t) /\ (d - 1) + 1 = d
  BY <1>1
<1>3. request[d] < t[d]
  <2>1. request[d] \in Nat
    BY <1>2, ArcsAreNaturals
  <2>. QED  BY <1>1, <2>1
<1>4. Agree(request, t, d - 1)
  BY <1>1, <1>2 DEF Agree
<1>5. Below(request, t, d - 1)
  BY <1>2, <1>3, <1>4 DEF Below
<1>6. Less(request, t)
  BY <1>1, <1>2, <1>5, LessIsBelow
<1>. QED  BY <1>1, <1>6 DEF t

\* The OIDs between a request and its SkipTarget lie under the arcs that the
\* request shares with the answer: a skip loses rows of that branch only.
THEOREM SkipLeavesOneBranch ==
  ASSUME NEW request \in Seq(Arc), NEW answer \in Seq(Arc), request # <<>>,
         ~SkipWraps(request, answer),
         NEW o \in Seq(Arc), Less(request, o), Less(o, SkipTarget(request, answer))
  PROVE  HasPrefix(o, SubSeq(request, 1, SkipDepth(request, answer)))
<1>. DEFINE d == SkipDepth(request, answer)
            t == SkipTarget(request, answer)
<1>0. Stepped(request, t, d)
  BY SkipShape
<1>2. Less(o, t)
  OBVIOUS
<1>. HIDE DEF d, t
<1>1. /\ d \in 1 .. Len(request)
      /\ t \in Seq(Arc) /\ Len(t) = d
      /\ \A i \in 1 .. d - 1 : t[i] = request[i]
      /\ t[d] = request[d] + 1
  BY <1>0 DEF Stepped
<1>3. PICK n \in Nat : Below(o, t, n)
  BY <1>1, <1>2, LessIsBelow
<1>4. ~Below(o, request, n)
  <2>1. Below(o, request, n) => Less(o, request)
    BY LessIsBelow
  <2>. QED  BY <2>1, LessIsStrict
<1>5. n < d /\ n <= Len(o) /\ Agree(o, request, n)
  BY <1>1, <1>3 DEF Below, Agree
<1>6. n < Len(o) /\ o[n + 1] < t[n + 1] /\ ~(o[n + 1] < request[n + 1])
  BY <1>1, <1>3, <1>4, <1>5 DEF Below
<1>7. n + 1 = d /\ o[d] = request[d]
  <2>1. o[n + 1] \in Nat /\ request[n + 1] \in Nat
    BY <1>1, <1>5, <1>6, ArcsAreNaturals
  <2>2. ~(n + 1 < d)
    BY <1>1, <1>6
  <2>. QED  BY <1>1, <1>5, <1>6, <2>1, <2>2
<1>8. d <= Len(o) /\ \A i \in 1 .. d : o[i] = request[i]
  BY <1>1, <1>5, <1>6, <1>7 DEF Agree
<1>. DEFINE p == SubSeq(request, 1, d)
<1>9. Len(p) = d /\ p \in Seq(Arc) /\ SubSeq(p, 1, Len(p)) = SubSeq(o, 1, Len(p))
  BY <1>1, <1>8
<1>. QED  BY <1>8, <1>9 DEF HasPrefix, IsPrefix, d
-----------------------------------------------------------------------------
(* One column, and the cells that answer it.                               *)

\* A column that is walked has its cursor at or under it.
IsColumn(c) == c.oid \in Seq(Arc) /\ c.cursor \in Seq(Arc) /\ HasPrefix(c.cursor, c.oid)

\* RowsRead is what its definition says.
LEMMA RowsReadShape ==
  ASSUME NEW c, NEW cells, Len(cells) \in Nat
  PROVE  /\ RowsRead(c, cells) \in 0 .. Len(cells)
         /\ \A r \in 1 .. RowsRead(c, cells) : Follows(c, cells, r)
         /\ RowsRead(c, cells) < Len(cells) => ~Follows(c, cells, RowsRead(c, cells) + 1)
<1>. DEFINE Stop(n) == n < Len(cells) => ~Follows(c, cells, n + 1)
            S == {n \in 0 .. Len(cells) : Stop(n)}
<1>1. S \subseteq Nat /\ Len(cells) \in S
  OBVIOUS
<1>2. PICK n \in S : \A m \in S : n <= m
  <2>. HIDE DEF S
  <2>. QED  BY <1>1, LeastNatural
<1>3. \A r \in 1 .. n : Follows(c, cells, r)
  <2>. SUFFICES ASSUME NEW r \in 1 .. n  PROVE Follows(c, cells, r)
    OBVIOUS
  <2>1. n \in 0 .. Len(cells)
    OBVIOUS
  <2>2. r - 1 \in 0 .. Len(cells) /\ ~(n <= r - 1) /\ (r - 1) + 1 = r /\ r - 1 < Len(cells)
    BY <2>1
  <2>3. ~(r - 1 \in S)
    <3>. HIDE DEF S
    <3>. QED  BY <1>2, <2>2
  <2>. QED  BY <2>2, <2>3
<1>4. \E k \in 0 .. Len(cells) :
        (\A r \in 1 .. k : Follows(c, cells, r)) /\ (k < Len(cells) => ~Follows(c, cells, k + 1))
  BY <1>3
<1>. HIDE DEF S, Stop
<1>. QED  BY <1>4, Zenon DEF RowsRead

\* The rows read go up from the cursor.
LEMMA RowsAscend ==
  ASSUME NEW c, IsColumn(c), NEW cells \in Seq(Seq(Arc)),
         NEW p \in Nat, NEW q \in 1 .. RowsRead(c, cells), p < q
  PROVE  /\ CursorAt(c, cells, p + 1) \in Seq(Arc)
         /\ cells[q] \in Seq(Arc) /\ cells[q] # <<>>
         /\ Inside(c, cells[q]) /\ Less(CursorAt(c, cells, p + 1), cells[q])
<1>. DEFINE n == RowsRead(c, cells)
            At(k) == CursorAt(c, cells, k + 1)
<1>1. n \in 0 .. Len(cells) /\ \A r \in 1 .. n : Follows(c, cells, r)
  BY RowsReadShape
<1>. HIDE DEF n
<1>2. \A k \in 0 .. n : At(k) \in Seq(Arc)
  BY <1>1 DEF CursorAt, IsColumn
<1>3. \A k \in 1 .. n : At(k) = cells[k] /\ Inside(c, cells[k]) /\ Less(At(k - 1), At(k))
  <2>. SUFFICES ASSUME NEW k \in 1 .. n
                PROVE  At(k) = cells[k] /\ Inside(c, cells[k]) /\ Less(At(k - 1), At(k))
    OBVIOUS
  <2>1. k + 1 # 1 /\ (k + 1) - 1 = k /\ (k - 1) + 1 = k
    OBVIOUS
  <2>2. At(k) = cells[k]
    BY <2>1 DEF CursorAt
  <2>3. At(k - 1) = CursorAt(c, cells, k)
    BY <2>1
  <2>. QED  BY <1>1, <2>2, <2>3 DEF Follows
<1>. HIDE DEF At
<1>. DEFINE Bad == {k \in 1 .. n : p < k /\ ~Less(At(p), At(k))}
<1>4. Bad = {}
  <2>. SUFFICES ASSUME Bad # {}  PROVE FALSE
    OBVIOUS
  <2>1. PICK k \in Bad : \A m \in Bad : k <= m
    <3>1. Bad \subseteq Nat
      OBVIOUS
    <3>. HIDE DEF Bad
    <3>. QED  BY <3>1, LeastNatural
  <2>2. k \in 1 .. n /\ p < k /\ ~Less(At(p), At(k)) /\ Less(At(k - 1), At(k))
    BY <1>3
  <2>3. p # k - 1
    BY <2>2
  <2>4. k - 1 \in 1 .. n /\ p < k - 1 /\ ~(k <= k - 1)
    BY <1>1, <2>2, <2>3
  <2>5. Less(At(p), At(k - 1))
    BY <2>1, <2>4
  <2>6. p \in 0 .. n /\ k \in 0 .. n /\ k - 1 \in 0 .. n
    BY <1>1, <2>2, <2>4
  <2>. QED  BY <1>2, <2>2, <2>5, <2>6, LessIsStrict
<1>5. p \in 0 .. n /\ q \in 1 .. n
  BY <1>1 DEF n
<1>6. Less(At(p), At(q))
  BY <1>4, <1>5
<1>7. cells[q] # <<>>
  BY <1>3, <1>5 DEF Inside, End
<1>. QED  BY <1>2, <1>3, <1>5, <1>6, <1>7 DEF At

\* A skip begins at an OID of the column, and its answer is one as well.
LEMMA SkipsFrom ==
  ASSUME NEW c, IsColumn(c), NEW cells \in Seq(Seq(Arc)), Misordered(c, cells)
  PROVE  LET n == RowsRead(c, cells)
             at == CursorAt(c, cells, n + 1)
         IN /\ at \in Seq(Arc) /\ at # <<>> /\ HasPrefix(at, c.oid)
            /\ n < Len(cells) /\ cells[n + 1] \in Seq(Arc)
<1>. DEFINE n == RowsRead(c, cells)
            at == CursorAt(c, cells, n + 1)
<1>1. n \in 0 .. Len(cells) /\ Len(cells) \in Nat /\ \A r \in 1 .. n : Follows(c, cells, r)
  BY RowsReadShape
<1>2. n < Len(cells) /\ Inside(c, cells[n + 1]) /\ ~Follows(c, cells, n + 1)
  BY <1>1, RowsReadShape DEF Misordered
<1>3. cells[n + 1] \in Seq(Arc) /\ cells[n + 1] # <<>>
  BY <1>1, <1>2 DEF Inside, End
<1>4. at \in Seq(Arc) /\ HasPrefix(at, c.oid)
  <2>1. n = 0 => at = c.cursor
    BY DEF CursorAt
  <2>2. n > 0 => n \in 1 .. n /\ n + 1 # 1 /\ (n + 1) - 1 = n /\ n \in 1 .. Len(cells)
    BY <1>1
  <2>3. n > 0 => at = cells[n] /\ Inside(c, cells[n])
    BY <1>1, <2>2 DEF CursorAt, Follows
  <2>. QED  BY <1>1, <2>1, <2>2, <2>3 DEF IsColumn, Inside
<1>5. at # <<>>
  <2>. SUFFICES ASSUME at = <<>>  PROVE FALSE
    OBVIOUS
  <2>1. Agree(<<>>, cells[n + 1], 0) /\ 0 < Len(cells[n + 1]) /\ <<>> \in Seq(Arc)
    BY <1>3 DEF Agree
  <2>2. Below(<<>>, cells[n + 1], 0)
    BY <2>1 DEF Below
  <2>3. Less(<<>>, cells[n + 1])
    BY <1>3, <2>1, <2>2, LessIsBelow
  <2>. QED  BY <1>2, <2>3 DEF Follows
<1>. QED  BY <1>2, <1>3, <1>4, <1>5

\* A column that is not finished goes on at or under itself, and unless a skip wraps
\* behind everything it was told: its old cursor, and the rows it read.
LEMMA CursorMoves ==
  ASSUME NEW c, IsColumn(c), NEW cells \in Seq(Seq(Arc)), ~Finished(c, cells)
  PROVE  /\ CursorAfter(c, cells) \in Seq(Arc) /\ HasPrefix(CursorAfter(c, cells), c.oid)
         /\ ~Wraps(c, cells) =>
              /\ \A r \in 1 .. RowsRead(c, cells) : ~Less(CursorAfter(c, cells), cells[r])
              /\ CursorAfter(c, cells) = c.cursor \/ Less(c.cursor, CursorAfter(c, cells))
              /\ cells # <<>> => Less(c.cursor, CursorAfter(c, cells))
<1>. DEFINE n == RowsRead(c, cells)
            at == CursorAt(c, cells, n + 1)
<1>1. n \in 0 .. Len(cells) /\ Len(cells) \in Nat
  BY RowsReadShape
<1>2. n = 0 => at = c.cursor
  BY DEF CursorAt
<1>3. n > 0 => at = cells[n] /\ Inside(c, at) /\ Less(c.cursor, at)
  <2>. SUFFICES ASSUME n > 0  PROVE at = cells[n] /\ Inside(c, at) /\ Less(c.cursor, at)
    OBVIOUS
  <2>1. n + 1 # 1 /\ (n + 1) - 1 = n /\ n \in 1 .. n /\ 0 \in Nat /\ 0 < n
    BY <1>1
  <2>2. at = cells[n]
    BY <2>1 DEF CursorAt
  <2>3. CursorAt(c, cells, 0 + 1) = c.cursor
    BY DEF CursorAt
  <2>. QED  BY <2>1, <2>2, <2>3, RowsAscend
<1>4. at \in Seq(Arc) /\ HasPrefix(at, c.oid)
  BY <1>1, <1>2, <1>3 DEF IsColumn, Inside
<1>5. Misordered(c, cells) => at # <<>>
  BY SkipsFrom
<1>6. \A r \in 1 .. n : ~Less(at, cells[r]) /\ cells[r] \in Seq(Arc)
  <2>. SUFFICES ASSUME NEW r \in 1 .. n  PROVE ~Less(at, cells[r]) /\ cells[r] \in Seq(Arc)
    OBVIOUS
  <2>1. cells[r] \in Seq(Arc) /\ at = cells[n]
    BY <1>1, <1>3
  <2>2. r < n => Less(cells[r], at)
    <3>1. r + 1 # 1 /\ (r + 1) - 1 = r /\ r \in Nat
      BY <1>1
    <3>2. CursorAt(c, cells, r + 1) = cells[r]
      BY <3>1 DEF CursorAt
    <3>3. r < n => n \in 1 .. n
      BY <1>1
    <3>. QED  BY <2>1, <3>1, <3>2, <3>3, RowsAscend
  <2>3. r < n \/ r = n
    BY <1>1
  <2>. QED  BY <1>4, <2>1, <2>2, <2>3, LessIsStrict
<1>7. CASE Misordered(c, cells)
  <2>1. /\ CursorAfter(c, cells) = SkipTarget(at, cells[n + 1])
        /\ HasPrefix(SkipTarget(at, cells[n + 1]), c.oid)
        /\ Wraps(c, cells) <=> SkipWraps(at, cells[n + 1])
    BY <1>7 DEF CursorAfter, Skipping, Finished, Wraps
  <2>2. n < Len(cells) /\ cells[n + 1] \in Seq(Arc)
    BY <1>1, <1>7 DEF Misordered
  <2>. DEFINE t == SkipTarget(at, cells[n + 1])
  <2>3. t \in Seq(Arc)
    BY <1>4, <1>5, <1>7, <2>2, SkipType
  <2>4. ~Wraps(c, cells) => Less(at, t)
    BY <1>4, <1>5, <1>7, <2>1, <2>2, SkipMovesForward
  <2>. HIDE DEF at, n, t
  <2>5. ~Wraps(c, cells) => Less(c.cursor, t)
    BY <1>1, <1>2, <1>3, <1>4, <2>3, <2>4, LessIsStrict DEF IsColumn
  <2>6. ~Wraps(c, cells) => \A r \in 1 .. n : ~Less(t, cells[r])
    BY <1>4, <1>6, <2>3, <2>4, LessIsStrict
  <2>7. CursorAfter(c, cells) = t /\ HasPrefix(t, c.oid)
    BY <2>1 DEF t
  <2>. QED  BY <2>3, <2>5, <2>6, <2>7 DEF n
<1>8. CASE ~Misordered(c, cells)
  <2>1. CursorAfter(c, cells) = at /\ n = Len(cells)
    BY <1>1, <1>8 DEF CursorAfter, Finished
  <2>2. cells # <<>> => n > 0
    BY <1>1, <2>1
  <2>3. n > 0 \/ n = 0
    BY <1>1
  <2>. HIDE DEF at, n
  <2>. QED  BY <1>2, <1>3, <1>4, <1>6, <2>1, <2>2, <2>3 DEF n
<1>. QED  BY <1>7, <1>8
\* What the cells of a column are.
LEMMA CellsShape ==
  ASSUME NEW V, NEW resp \in Seq(V), NEW w \in Nat \ {0}, NEW i \in 1 .. w
  PROVE  /\ CellsOf(resp, i, w) \in Seq(V)
         /\ \A r \in 1 .. Len(CellsOf(resp, i, w)) :
              /\ (r - 1) * w + (i - 1) \in Nat /\ (r - 1) * w + i \in 1 .. Len(resp)
              /\ CellsOf(resp, i, w)[r] = resp[(r - 1) * w + i]
         /\ i = 1 /\ resp # <<>> => CellsOf(resp, i, w) # <<>>
<1>. DEFINE x == Len(resp) - i + w
            n == x \div w
<1>1. x \in Nat /\ Len(resp) \in Nat
  OBVIOUS
<1>2. n \in Nat /\ w * n <= x /\ x < w * n + w
  <2>. HIDE DEF x
  <2>. QED  BY <1>1, Division
<1>3. \A r \in 1 .. n : /\ (r - 1) * w + (i - 1) \in Nat
                        /\ (r - 1) * w + i \in 1 .. Len(resp)
  <2>. SUFFICES ASSUME NEW r \in 1 .. n
                PROVE  (r - 1) * w + (i - 1) \in Nat /\ (r - 1) * w + i \in 1 .. Len(resp)
    OBVIOUS
  <2>. HIDE DEF n
  <2>1. r - 1 \in Nat /\ r - 1 <= n - 1
    BY <1>2
  <2>2. (r - 1) * w \in Nat
    BY <2>1
  <2>3. (r - 1) * w <= (n - 1) * w
    BY <1>2, <2>1
  <2>4. (n - 1) * w = w * n - w
    BY <1>2
  <2>5. (r - 1) * w + i <= Len(resp)
    BY <1>1, <1>2, <2>2, <2>3, <2>4
  <2>. QED  BY <1>1, <2>2, <2>5
<1>4. CellsOf(resp, i, w) = [r \in 1 .. n |-> resp[(r - 1) * w + i]]
  BY DEF CellsOf
<1>. HIDE DEF n
<1>5. \A r \in 1 .. n : resp[(r - 1) * w + i] \in V
  BY <1>3
<1>6. CellsOf(resp, i, w) \in Seq(V) /\ Len(CellsOf(resp, i, w)) = n
  BY <1>2, <1>4, <1>5
<1>7. ASSUME i = 1, resp # <<>>  PROVE CellsOf(resp, i, w) # <<>>
  <2>1. n # 0
    <3>1. Len(resp) > 0
      BY <1>7
    <3>2. x >= w
      BY <1>1, <1>7, <3>1
    <3>. HIDE DEF x
    <3>. QED  BY <1>1, <1>2, <3>2
  <2>. QED  BY <1>2, <1>6, <2>1
<1>8. \A r \in 1 .. n : CellsOf(resp, i, w)[r] = resp[(r - 1) * w + i]
  BY <1>4
<1>. QED  BY <1>3, <1>6, <1>7, <1>8

-----------------------------------------------------------------------------
(* Lists made of other lists.                                              *)

\* InOrder lists every number once, least first.
LEMMA InOrderLists ==
  ASSUME NEW S \in SUBSET Nat, IsFiniteSet(S)
  PROVE  /\ Cardinality(S) \in Nat
         /\ InOrder(S) \in [1 .. Cardinality(S) -> S]
         /\ \A i, j \in 1 .. Cardinality(S) : i < j => InOrder(S)[i] < InOrder(S)[j]
         /\ \A x \in S : \E i \in 1 .. Cardinality(S) : InOrder(S)[i] = x
<1>. DEFINE n == Cardinality(S)
            R == {q \in Nat \X Nat : q[1] <= q[2]}
            place(x) == Cardinality(Initial(S, R, x))
            p == InOrder(S)
<1>1. n \in Nat
  BY FS_CardinalityType
<1>2. Linear(S, R)
  BY DEF Linear
<1>3. \A a, b \in S : place(a) \in 1 .. n /\ (place(a) < place(b) <=> a < b)
  <2>. SUFFICES ASSUME NEW a \in S, NEW b \in S
                PROVE  place(a) \in 1 .. n /\ (place(a) < place(b) <=> a < b)
    OBVIOUS
  <2>1. place(a) \in 1 .. n /\ (place(a) < place(b) <=> <<a, b>> \in R /\ a # b)
    <3>. HIDE DEF R
    <3>. QED  BY <1>2, InitialGrows
  <2>2. <<a, b>> \in R /\ a # b <=> a < b
    OBVIOUS
  <2>. QED  BY <2>1, <2>2, Zenon
<1>4. \A i \in 1 .. n : \E x \in S : place(x) = i
  <2>. HIDE DEF R
  <2>. QED  BY <1>2, PlaceInOrder
<1>5. \A x \in S : {y \in S : y <= x} = Initial(S, R, x)
  BY DEF Initial
<1>. DEFINE least(k) == CHOOSE x \in S : Cardinality({y \in S : y <= x}) = k
<1>6. p = [k \in 1 .. n |-> least(k)] /\ \A k : least(k) = CHOOSE x \in S : place(x) = k
  <2>1. \A k : least(k) = CHOOSE x \in S : place(x) = k
    <3>. SUFFICES ASSUME NEW k  PROVE least(k) = CHOOSE x \in S : place(x) = k
      OBVIOUS
    <3>1. \A x \in S : Cardinality({y \in S : y <= x}) = place(x)
      BY <1>5
    <3>. HIDE DEF place
    <3>. QED  BY <3>1
  <2>2. p = [k \in 1 .. n |-> least(k)]
    BY DEF InOrder
  <2>. QED  BY <2>1, <2>2
<1>. HIDE DEF place, p, n, least
<1>7. \A i \in 1 .. n : p[i] \in S /\ place(p[i]) = i
  <2>. SUFFICES ASSUME NEW i \in 1 .. n  PROVE p[i] \in S /\ place(p[i]) = i
    OBVIOUS
  <2>1. p[i] = CHOOSE x \in S : place(x) = i
    BY <1>6
  <2>. QED  BY <1>4, <2>1
<1>8. p \in [1 .. n -> S]
  BY <1>6, <1>7
<1>9. \A i, j \in 1 .. n : i < j => p[i] < p[j]
  <2>. SUFFICES ASSUME NEW i \in 1 .. n, NEW j \in 1 .. n, i < j  PROVE p[i] < p[j]
    OBVIOUS
  <2>1. place(p[i]) < place(p[j])
    BY <1>7
  <2>. QED  BY <1>3, <1>7, <2>1
<1>10. \A x \in S : \E i \in 1 .. n : p[i] = x
  <2>. SUFFICES ASSUME NEW x \in S  PROVE \E i \in 1 .. n : p[i] = x
    OBVIOUS
  <2>1. place(x) \in 1 .. n
    BY <1>3
  <2>2. p[place(x)] \in S /\ place(p[place(x)]) = place(x)
    BY <1>7, <2>1
  <2>3. ~(p[place(x)] < x) /\ ~(x < p[place(x)])
    <3>1. ~(place(x) < place(x))
      BY <2>1
    <3>. QED  BY <1>3, <2>2, <3>1
  <2>4. p[place(x)] = x
    <3>1. p[place(x)] \in Nat /\ x \in Nat
      BY <2>2
    <3>. QED  BY <2>3, <3>1
  <2>. QED  BY <2>1, <2>4
<1>. QED  BY <1>1, <1>8, <1>9, <1>10 DEF p, n

\* So it lists places of a sequence, and all of them if there are as many.
LEMMA PlacesInOrder ==
  ASSUME NEW w \in Nat, NEW places \in SUBSET (1 .. w)
  PROVE  /\ Cardinality(places) \in Nat /\ Cardinality(places) <= w
         /\ InOrder(places) \in [1 .. Cardinality(places) -> places]
         /\ \A i, j \in 1 .. Cardinality(places) : i < j => InOrder(places)[i] < InOrder(places)[j]
         /\ \A x \in places : \E i \in 1 .. Cardinality(places) : InOrder(places)[i] = x
         /\ Cardinality(places) = w => places = 1 .. w
<1>1. IsFiniteSet(1 .. w) /\ Cardinality(1 .. w) = w
  BY FS_Interval
<1>2. /\ IsFiniteSet(places) /\ Cardinality(places) <= w
      /\ Cardinality(places) = w => places = 1 .. w
  BY <1>1, FS_Subset
<1>3. places \in SUBSET Nat
  OBVIOUS
<1>. QED  BY <1>2, <1>3, InOrderLists

\* Picked has what s has at the places, and nothing else.
LEMMA PickedLists ==
  ASSUME NEW s, Len(s) \in Nat, NEW places \in SUBSET (1 .. Len(s))
  PROVE  /\ Picked(s, places) \in Seq({s[i] : i \in places})
         /\ \A i \in places : \E k \in 1 .. Len(Picked(s, places)) : Picked(s, places)[k] = s[i]
<1>. DEFINE Next_(f, n) == IF n = 0 THEN <<>>
                           ELSE IF n \in places THEN Append(f[n - 1], s[n]) ELSE f[n - 1]
            Grows(f, m) == f = [n \in 0 .. m |-> Next_(f, n)]
            Bad == {m \in Nat : ~\E f : Grows(f, m)}
<1>1. Bad = {}
  <2>. SUFFICES ASSUME Bad # {}  PROVE FALSE
    OBVIOUS
  <2>1. PICK m \in Bad : \A k \in Bad : m <= k
    <3>1. Bad \subseteq Nat
      OBVIOUS
    <3>. HIDE DEF Bad
    <3>. QED  BY <3>1, LeastNatural
  <2>2. m \in Nat /\ ~\E f : Grows(f, m)
    OBVIOUS
  <2>3. m # 0
    <3>1. Grows([n \in 0 .. 0 |-> <<>>], 0)
      OBVIOUS
    <3>. QED  BY <2>2, <3>1
  <2>4. PICK f : Grows(f, m - 1)
    <3>1. m - 1 \in Nat /\ ~(m <= m - 1)
      BY <2>2, <2>3
    <3>2. ~(m - 1 \in Bad)
      <4>. HIDE DEF Bad
      <4>. QED  BY <2>1, <3>1
    <3>. QED  BY <3>1, <3>2
  <2>. DEFINE g == [n \in 0 .. m |-> IF n < m THEN f[n] ELSE Next_(f, m)]
  <2>5. \A n \in 0 .. m : g[n] = Next_(g, n)
    <3>. SUFFICES ASSUME NEW n \in 0 .. m  PROVE g[n] = Next_(g, n)
      OBVIOUS
    <3>1. n < m => n \in 0 .. m - 1
      BY <2>2
    <3>2. n < m => f[n] = Next_(f, n)
      <4>. HIDE DEF Next_
      <4>. QED  BY <2>4, <3>1
    <3>3. n # 0 => n - 1 \in 0 .. m /\ n - 1 < m
      BY <2>2
    <3>4. n # 0 => g[n - 1] = f[n - 1]
      <4>. HIDE DEF Next_
      <4>. QED  BY <3>3
    <3>5. Next_(g, n) = Next_(f, n)
      BY <3>4
    <3>6. n = m \/ n < m
      BY <2>2
    <3>7. g[n] = IF n < m THEN f[n] ELSE Next_(f, m)
      OBVIOUS
    <3>. HIDE DEF Next_, g
    <3>. QED  BY <3>2, <3>5, <3>6, <3>7
  <2>6. Grows(g, m)
    <3>. DEFINE h == [n \in 0 .. m |-> Next_(g, n)]
    <3>1. g = [n \in 0 .. m |-> g[n]]
      <4>. HIDE DEF Next_
      <4>. QED  OBVIOUS
    <3>. HIDE DEF Next_, g
    <3>. QED  BY <2>5, <3>1
  <2>. QED  BY <2>2, <2>6
<1>. DEFINE upTo == CHOOSE f : Grows(f, Len(s))
<1>2. Picked(s, places) = upTo[Len(s)]
  BY Zenon DEF Picked
<1>3. upTo = [n \in 0 .. Len(s) |-> Next_(upTo, n)]
  <2>1. \E f : Grows(f, Len(s))
    BY <1>1
  <2>2. Grows(upTo, Len(s))
    <3>. HIDE DEF Grows
    <3>. QED  BY <2>1
  <2>. QED  BY <2>2
<1>. HIDE DEF upTo
<1>. DEFINE V == {s[i] : i \in places}
            Has(q, n) == q \in Seq(V) /\ \A i \in places : i <= n => \E k \in 1 .. Len(q) : q[k] = s[i]
            Off == {n \in 0 .. Len(s) : ~Has(upTo[n], n)}
<1>4. Off = {}
  <2>. SUFFICES ASSUME Off # {}  PROVE FALSE
    OBVIOUS
  <2>1. PICK n \in Off : \A k \in Off : n <= k
    <3>1. Off \subseteq Nat
      OBVIOUS
    <3>. HIDE DEF Off
    <3>. QED  BY <3>1, LeastNatural
  <2>2. n \in 0 .. Len(s) /\ ~Has(upTo[n], n)
    <3>. HIDE DEF Has
    <3>. QED  OBVIOUS
  <2>3. upTo[n] = Next_(upTo, n)
    <3>. HIDE DEF Next_
    <3>. QED  BY <1>3, <2>2
  <2>4. n # 0
    <3>1. Has(<<>>, 0)
      OBVIOUS
    <3>. QED  BY <2>2, <2>3, <3>1
  <2>5. Has(upTo[n - 1], n - 1)
    <3>1. n - 1 \in 0 .. Len(s) /\ ~(n <= n - 1)
      BY <2>2, <2>4
    <3>2. ~(n - 1 \in Off)
      <4>. HIDE DEF Off
      <4>. QED  BY <2>1, <3>1
    <3>. HIDE DEF Has
    <3>. QED  BY <3>1, <3>2
  <2>. DEFINE q == upTo[n - 1]
  <2>6. CASE n \in places
    <3>1. upTo[n] = Append(q, s[n]) /\ s[n] \in V
      BY <2>3, <2>4, <2>6
    <3>2. q \in Seq(V)
      BY <2>5
    <3>. HIDE DEF q, V
    <3>3. /\ Append(q, s[n]) \in Seq(V) /\ Len(Append(q, s[n])) = Len(q) + 1
          /\ Append(q, s[n])[Len(q) + 1] = s[n]
          /\ \A k \in 1 .. Len(q) : Append(q, s[n])[k] = q[k]
      BY <3>1, <3>2
    <3>4. ASSUME NEW i \in places, i <= n
          PROVE  \E k \in 1 .. Len(q) + 1 : Append(q, s[n])[k] = s[i]
      <4>1. i \in 1 .. Len(s) /\ Len(q) \in Nat
        BY <3>2
      <4>2. CASE i = n
        <5>1. Len(q) + 1 \in 1 .. Len(q) + 1
          BY <4>1
        <5>. QED  BY <3>3, <4>2, <5>1
      <4>3. CASE i # n
        <5>1. i <= n - 1
          BY <2>2, <3>4, <4>1, <4>3
        <5>2. PICK k \in 1 .. Len(q) : q[k] = s[i]
          BY <2>5, <5>1 DEF q
        <5>3. k \in 1 .. Len(q) + 1
          BY <4>1
        <5>. QED  BY <3>3, <5>2, <5>3
      <4>. QED  BY <4>2, <4>3
    <3>. QED  BY <2>2, <3>1, <3>3, <3>4 DEF V
  <2>7. CASE n \notin places
    <3>1. upTo[n] = q
      BY <2>3, <2>4, <2>7
    <3>2. \A i \in places : i <= n => i <= n - 1
      BY <2>2, <2>7
    <3>. QED  BY <2>2, <2>5, <3>1, <3>2
  <2>. QED  BY <2>6, <2>7
<1>5. Has(upTo[Len(s)], Len(s))
  <2>1. Len(s) \in 0 .. Len(s)
    OBVIOUS
  <2>. HIDE DEF Has
  <2>. QED  BY <1>4, <2>1
<1>. QED  BY <1>2, <1>5
=============================================================================
