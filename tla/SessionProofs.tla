--------------------------- MODULE SessionProofs ----------------------------
(***************************************************************************)
(* What a run of main.run promises, for every command line and every       *)
(* simulated agent: the reference walk accounts for what it shows, its     *)
(* budget is kept, and the trial of an agent that stays the same reads all *)
(* that the reference walk has read.                                       *)
(***************************************************************************)
EXTENDS Session, OidProofs

-----------------------------------------------------------------------------
(* The agent.                                                              *)

LEMMA ProfileShape ==
  ASSUME NEW a \in Profiles
  PROVE  /\ a.mib \subseteq Seq(Arc) /\ End \notin a.mib /\ IsFiniteSet(a.mib)
         /\ DOMAIN a.wrong \subseteq a.mib
         /\ \A o \in DOMAIN a.wrong : a.wrong[o] \in a.mib /\ ~Less(o, a.wrong[o])
         /\ a.rows \in Nat \ {0} /\ a.most \in Nat
BY SessionAssumption DEF End

LEMMA EndType == End \in Seq(Arc)
<1>1. <<>> \in Seq(Arc)
  OBVIOUS
<1>. QED  BY <1>1 DEF End

\* Of finitely many OIDs one comes first.
LEMMA FirstOID ==
  ASSUME NEW a \in Profiles, NEW S \in SUBSET a.mib, S # {}
  PROVE  \E k \in S : \A j \in S : ~Less(j, k)
<1>. DEFINE R == {q \in S \X S : ~Less(q[1], q[2])}
<1>1. IsFiniteSet(S) /\ S \subseteq Seq(Arc)
  BY ProfileShape, FS_Subset
<1>2. \A x, y \in S : <<x, y>> \in R <=> ~Less(x, y)
  OBVIOUS
<1>3. \A x, y \in S : ~Less(x, y) \/ ~Less(y, x)
  BY <1>1, LessIsStrict
<1>4. \A x, y \in S : ~Less(x, y) /\ ~Less(y, x) => x = y
  BY <1>1, LessIsTotal
<1>5. \A x, y, z \in S : ~Less(x, y) /\ ~Less(y, z) => ~Less(x, z)
  <2>. SUFFICES ASSUME NEW x \in S, NEW y \in S, NEW z \in S, ~Less(x, y), ~Less(y, z), Less(x, z)
                PROVE  FALSE
    OBVIOUS
  <2>1. Less(y, x) \/ x = y
    BY <1>1, LessIsTotal
  <2>. QED  BY <1>1, <2>1, LessIsStrict
<1>. HIDE DEF R
<1>6. Linear(S, R)
  BY <1>2, <1>3, <1>4, <1>5 DEF Linear
<1>7. PICK k \in S : \A j \in S : <<j, k>> \in R
  BY <1>1, <1>6, LastIn
<1>. QED  BY <1>2, <1>7

\* An agent answers with the OID that follows, except where it errs.
LEMMA NextShape ==
  ASSUME NEW a \in Profiles, NEW o
  PROVE  /\ NextOID(a, o) \in a.mib \cup {End}
         /\ o \in DOMAIN a.wrong => NextOID(a, o) = a.wrong[o] /\ NextOID(a, o) # End
         /\ o \notin DOMAIN a.wrong =>
              /\ NextOID(a, o) = End => \A k \in a.mib : ~Less(o, k)
              /\ NextOID(a, o) # End => Less(o, NextOID(a, o))
              /\ \A k \in a.mib : Less(o, k) => ~Less(k, NextOID(a, o))
<1>. DEFINE after == {k \in a.mib : Less(o, k)}
<1>1. CASE o \in DOMAIN a.wrong
  BY <1>1, ProfileShape DEF NextOID
<1>2. CASE o \notin DOMAIN a.wrong /\ after = {}
  BY <1>2 DEF NextOID
<1>3. CASE o \notin DOMAIN a.wrong /\ after # {}
  <2>. DEFINE x == CHOOSE k \in after : \A j \in after : ~Less(j, k)
  <2>1. NextOID(a, o) = x
    BY <1>3 DEF NextOID
  <2>2. \E k \in after : \A j \in after : ~Less(j, k)
    <3>1. after \in SUBSET a.mib
      OBVIOUS
    <3>. HIDE DEF after
    <3>. QED  BY <1>3, <3>1, FirstOID
  <2>3. x \in after /\ \A j \in after : ~Less(j, x)
    <3>. HIDE DEF after
    <3>. QED  BY <2>2
  <2>4. x # End
    BY <2>3, ProfileShape
  <2>. HIDE DEF x
  <2>. QED  BY <1>3, <2>1, <2>3, <2>4
<1>. QED  BY <1>1, <1>2, <1>3

\* The rows behind a cursor follow one another.
LEMMA RowsFollow ==
  ASSUME NEW a \in Profiles, NEW from, NEW n \in Nat
  PROVE  \A r \in 1 .. n :
           /\ RowsBehind(a, from, n)[r] \in a.mib \cup {End}
           /\ r = 1 => RowsBehind(a, from, n)[r] = NextOID(a, from)
           /\ r > 1 /\ RowsBehind(a, from, n)[r - 1] # End =>
                RowsBehind(a, from, n)[r] = NextOID(a, RowsBehind(a, from, n)[r - 1])
<1>. DEFINE Next_(f, r) == IF r = 1 THEN NextOID(a, from)
                           ELSE IF f[r - 1] = End THEN End ELSE NextOID(a, f[r - 1])
            Grows(f, m) == f = [r \in 1 .. m |-> Next_(f, r)]
            Bad == {m \in Nat : ~\E f : Grows(f, m)}
<1>1. Bad = {}
  <2>. SUFFICES ASSUME Bad # {}  PROVE FALSE
    OBVIOUS
  <2>1. PICK m \in Bad : \A k \in Bad : m <= k
    <3>1. Bad \subseteq Nat
      OBVIOUS
    <3>. HIDE DEF Bad
    <3>. QED  BY <3>1, LeastNatural
  <2>2. m \in Nat /\ ~\E f : Grows(f, m)
    OBVIOUS
  <2>3. m # 0
    <3>1. 1 .. 0 = {}
      OBVIOUS
    <3>2. \A f : [r \in 1 .. 0 |-> Next_(f, r)] = [r \in {} |-> End]
      <4>. HIDE DEF Next_
      <4>. QED  BY <3>1
    <3>3. Grows([r \in {} |-> End], 0)
      <4>. HIDE DEF Next_
      <4>. QED  BY <3>2
    <3>. QED  BY <2>2, <3>3
  <2>4. PICK f : Grows(f, m - 1)
    <3>1. m - 1 \in Nat /\ ~(m <= m - 1)
      BY <2>2, <2>3
    <3>2. ~(m - 1 \in Bad)
      <4>. HIDE DEF Bad
      <4>. QED  BY <2>1, <3>1
    <3>. QED  BY <3>1, <3>2
  <2>. DEFINE g == [r \in 1 .. m |-> IF r < m THEN f[r] ELSE Next_(f, m)]
  <2>5. \A r \in 1 .. m : g[r] = Next_(g, r)
    <3>. SUFFICES ASSUME NEW r \in 1 .. m  PROVE g[r] = Next_(g, r)
      OBVIOUS
    <3>1. r < m => r \in 1 .. m - 1
      BY <2>2
    <3>2. r < m => f[r] = Next_(f, r)
      <4>. HIDE DEF Next_
      <4>. QED  BY <2>4, <3>1
    <3>3. r # 1 => r - 1 \in 1 .. m /\ r - 1 < m
      BY <2>2
    <3>4. r # 1 => g[r - 1] = f[r - 1]
      <4>. HIDE DEF Next_
      <4>. QED  BY <3>3
    <3>5. Next_(g, r) = Next_(f, r)
      BY <3>4
    <3>6. r = m \/ r < m
      BY <2>2
    <3>7. g[r] = IF r < m THEN f[r] ELSE Next_(f, m)
      OBVIOUS
    <3>. HIDE DEF Next_, g
    <3>. QED  BY <3>2, <3>5, <3>6, <3>7
  <2>6. Grows(g, m)
    <3>1. g = [r \in 1 .. m |-> g[r]]
      <4>. HIDE DEF Next_
      <4>. QED  OBVIOUS
    <3>. HIDE DEF Next_, g
    <3>. QED  BY <2>5, <3>1
  <2>. QED  BY <2>2, <2>6
<1>. DEFINE row == RowsBehind(a, from, n)
<1>2. row = CHOOSE f : Grows(f, n)
  BY Zenon DEF RowsBehind
<1>3. row = [r \in 1 .. n |-> Next_(row, r)]
  <2>1. \E f : Grows(f, n)
    BY <1>1
  <2>2. Grows(row, n)
    <3>. HIDE DEF Grows, row
    <3>. QED  BY <1>2, <2>1
  <2>. HIDE DEF row
  <2>. QED  BY <2>2
<1>. HIDE DEF row
<1>4. \A r \in 1 .. n : row[r] = Next_(row, r)
  <2>. HIDE DEF Next_
  <2>. QED  BY <1>3
<1>5. \A r \in 1 .. n : row[r] \in a.mib \cup {End}
  BY <1>4, NextShape
<1>. QED  BY <1>4, <1>5 DEF row
-----------------------------------------------------------------------------
(* What a skip leaves out.                                                 *)

\* The listed prefix of a skip is the branch it leaves, and the walk goes on at
\* the sibling next to it.
LEMMA SkipListed ==
  ASSUME NEW request \in Seq(Arc), NEW answer \in Seq(Arc), request # <<>>
  PROVE  LET d == SkipDepth(request, answer)
             t == SkipTarget(request, answer)
             p == SubSeq(request, 1, d)
         IN /\ d \in 1 .. Len(request) /\ p \in Seq(Arc) /\ Len(p) = d
            /\ \A i \in 1 .. d : p[i] = request[i]
            /\ t \in Seq(Arc) /\ Len(t) = d /\ \A i \in 1 .. d - 1 : t[i] = request[i]
            /\ t[d] = (request[d] + 1) % ArcModulus
            /\ ParentOf(t) = p /\ NextSibling(p) = t
<1>. DEFINE d == SkipDepth(request, answer)
            t == SkipTarget(request, answer)
            p == SubSeq(request, 1, d)
<1>1. d \in 1 .. Len(request)
  <2>1. Shared(request, answer) \in Nat /\ Shared(request, answer) <= Len(request)
    BY SharedApart DEF Apart, Agree
  <2>2. Len(request) >= 1
    OBVIOUS
  <2>. QED  BY <2>1, <2>2 DEF SkipDepth
<1>2. p \in Seq(Arc) /\ Len(p) = d /\ \A i \in 1 .. d : p[i] = request[i]
  BY <1>1
<1>3. t = [p EXCEPT ![d] = (@ + 1) % ArcModulus]
  BY DEF SkipTarget
<1>. HIDE DEF d, t, p
<1>. DEFINE x == p[d]
            M == ArcModulus
<1>4. M \in Nat \ {0} /\ x \in 0 .. M - 1 /\ x = request[d]
  <2>1. x \in Arc
    BY <1>1, <1>2
  <2>2. x = request[d]
    BY <1>1, <1>2
  <2>. QED  BY <2>1, <2>2, ArcAssumption DEF Arc
<1>5. t = [p EXCEPT ![d] = (x + 1) % M]
  BY <1>3, Zenon
<1>. HIDE DEF x
<1>6. (x + 1) % M \in 0 .. M - 1 /\ (((x + 1) % M) - 1) % M = x
  <2>. HIDE DEF M
  <2>0. M \in Nat \ {0} /\ x \in Nat /\ x <= M - 1
    BY <1>4
  <2>1. CASE x + 1 < M
    <3>1. x + 1 \in 0 .. M - 1 /\ x \in 0 .. M - 1 /\ 0 \in Nat
      BY <2>0, <2>1
    <3>2. (0 * M + (x + 1)) % M = x + 1 /\ (0 * M + x) % M = x
      BY <2>0, <3>1, Quotient
    <3>3. 0 * M + (x + 1) = x + 1 /\ 0 * M + x = x /\ (x + 1) - 1 = x
      BY <2>0
    <3>. QED  BY <3>1, <3>2, <3>3
  <2>2. CASE x + 1 = M
    <3>1. (x + 1) % M = 0
      <4>1. 1 \in Nat /\ 0 \in 0 .. M - 1 /\ 1 * M + 0 = M
        BY <2>0
      <4>2. (1 * M + 0) % M = 0
        BY <2>0, <4>1, Quotient
      <4>. QED  BY <2>2, <4>1, <4>2
    <3>2. (0 - 1) % M = M - 1
      BY <2>0
    <3>3. x = M - 1 /\ 0 \in 0 .. M - 1
      BY <2>0, <2>2
    <3>. QED  BY <3>1, <3>2, <3>3
  <2>3. x + 1 < M \/ x + 1 = M
    BY <2>0
  <2>. QED  BY <2>1, <2>2, <2>3
<1>7. (x + 1) % M \in Arc
  BY <1>6 DEF Arc
<1>8. /\ t \in Seq(Arc) /\ Len(t) = d /\ t[d] = (x + 1) % M
      /\ \A i \in 1 .. d - 1 : t[i] = p[i]
  BY <1>1, <1>2, <1>5, <1>7
<1>9. NextSibling(p) = t
  BY <1>2, <1>3 DEF NextSibling
<1>10. ParentOf(t) = p
  <2>1. ParentOf(t) = [t EXCEPT ![d] = x]
    <3>1. ParentOf(t) = [t EXCEPT ![d] = (t[d] - 1) % M]
      BY <1>8, Zenon DEF ParentOf
    <3>. QED  BY <1>6, <1>8, <3>1
  <2>. DEFINE q == [t EXCEPT ![d] = x]
  <2>2. q \in Seq(Arc) /\ Len(q) = d /\ \A i \in 1 .. d : q[i] = p[i]
    <3>1. x \in Arc
      BY <1>4 DEF Arc
    <3>2. q \in Seq(Arc) /\ Len(q) = d /\ q[d] = x /\ \A i \in 1 .. d - 1 : q[i] = t[i]
      BY <1>1, <1>8, <3>1
    <3>. HIDE DEF q
    <3>3. \A i \in 1 .. d : q[i] = p[i]
      <4>. SUFFICES ASSUME NEW i \in 1 .. d  PROVE q[i] = p[i]
        OBVIOUS
      <4>1. i = d \/ i \in 1 .. d - 1
        BY <1>1
      <4>. QED  BY <1>8, <3>2, <4>1 DEF x
    <3>. QED  BY <3>2, <3>3
  <2>. HIDE DEF q
  <2>3. q \in [1 .. d -> Arc] /\ p \in [1 .. d -> Arc]
    BY <1>2, <2>2
  <2>4. q = p
    BY <2>2, <2>3
  <2>. QED  BY <2>1, <2>4 DEF q
<1>11. \A i \in 1 .. d - 1 : t[i] = request[i]
  <2>1. \A i \in 1 .. d - 1 : i \in 1 .. d
    BY <1>1
  <2>. QED  BY <1>2, <1>8, <2>1
<1>. QED  BY <1>1, <1>2, <1>4, <1>8, <1>9, <1>10, <1>11 DEF d, t, p

\* Behind the request and not behind where the walk goes on there is only the
\* branch it leaves, and the OID it goes on at.
LEMMA SkipAccounts ==
  ASSUME NEW request \in Seq(Arc), NEW answer \in Seq(Arc), request # <<>>,
         NEW o \in Seq(Arc), Less(request, o), ~Less(SkipTarget(request, answer), o)
  PROVE  LET p == ParentOf(SkipTarget(request, answer))
         IN HasPrefix(o, p) \/ o = NextSibling(p)
<1>. DEFINE t == SkipTarget(request, answer)
            p == ParentOf(t)
<1>0. p = SubSeq(request, 1, SkipDepth(request, answer)) /\ NextSibling(p) = t /\ t \in Seq(Arc)
  BY SkipListed
<1>1. CASE SkipWraps(request, answer)
  <2>. DEFINE d == SkipDepth(request, answer)
  <2>1. /\ d \in 1 .. Len(request) /\ Len(t) = d /\ \A i \in 1 .. d - 1 : t[i] = request[i]
        /\ t[d] = (request[d] + 1) % ArcModulus /\ request[d] = ArcModulus - 1
    BY <1>1, SkipListed DEF SkipWraps
  <2>. HIDE DEF d, t, p
  <2>2. t[d] = 0 /\ request[d] \in Nat
    <3>1. ArcModulus \in Nat \ {0}
      BY ArcAssumption
    <3>2. (1 * ArcModulus + 0) % ArcModulus = 0
      <4>1. 1 \in Nat /\ 0 \in 0 .. ArcModulus - 1
        BY <3>1
      <4>. QED  BY <3>1, <4>1, Quotient
    <3>3. ((ArcModulus - 1) + 1) = 1 * ArcModulus + 0
      BY <3>1
    <3>. QED  BY <2>1, <3>1, <3>2, <3>3
  <2>3. ~Less(request, t)
    <3>. SUFFICES ASSUME NEW n \in Nat, Below(request, t, n)  PROVE FALSE
      BY <1>0, LessIsBelow
    <3>1. n < d /\ n < Len(request) /\ request[n + 1] < t[n + 1]
      BY <2>1 DEF Below
    <3>2. n + 1 = d \/ n + 1 \in 1 .. d - 1
      BY <2>1, <3>1
    <3>3. request[n + 1] \in Nat
      BY <3>1, ArcsAreNaturals
    <3>. QED  BY <2>1, <2>2, <3>1, <3>2, <3>3
  <2>4. ~Less(t, o)
    BY DEF t
  <2>. QED  BY <1>0, <2>3, <2>4, LessIsTotal, LessIsStrict
<1>2. CASE ~SkipWraps(request, answer)
  <2>1. Less(o, t) \/ o = t
    BY <1>0, LessIsTotal
  <2>2. Less(o, t) => HasPrefix(o, p)
    BY <1>0, <1>2, SkipLeavesOneBranch
  <2>. QED  BY <1>0, <2>1, <2>2
<1>. QED  BY <1>1, <1>2

\* A skip that leaves the root leaves a branch that the root lies in.
LEMMA SkipOut ==
  ASSUME NEW request \in Seq(Arc), NEW answer \in Seq(Arc), request # <<>>,
         NEW r \in Seq(Arc), HasPrefix(request, r), ~HasPrefix(SkipTarget(request, answer), r),
         NEW o \in Seq(Arc), HasPrefix(o, r)
  PROVE  HasPrefix(o, ParentOf(SkipTarget(request, answer)))
<1>. DEFINE d == SkipDepth(request, answer)
            t == SkipTarget(request, answer)
            p == SubSeq(request, 1, d)
<1>1. /\ d \in 1 .. Len(request) /\ p \in Seq(Arc) /\ Len(p) = d
      /\ \A i \in 1 .. d : p[i] = request[i]
      /\ t \in Seq(Arc) /\ Len(t) = d /\ \A i \in 1 .. d - 1 : t[i] = request[i]
      /\ ParentOf(t) = p
  BY SkipListed
<1>2. Agree(r, request, Len(r)) /\ ~Agree(r, t, Len(r)) /\ Agree(r, o, Len(r))
  BY <1>1, PrefixAgrees
<1>. HIDE DEF d, t, p
<1>3. d <= Len(r)
  <2>. SUFFICES ASSUME Len(r) < d  PROVE FALSE
    BY <1>1
  <2>1. Len(r) \in Nat /\ \A i \in 1 .. Len(r) : i \in 1 .. d - 1
    BY <1>1
  <2>2. Len(r) <= Len(t) /\ \A i \in 1 .. Len(r) : t[i] = r[i]
    <3>1. \A i \in 1 .. Len(r) : r[i] = request[i]
      BY <1>2 DEF Agree
    <3>2. Len(r) <= Len(t)
      BY <1>1, <2>1
    <3>3. \A i \in 1 .. Len(r) : t[i] = r[i]
      BY <1>1, <2>1, <3>1
    <3>. QED  BY <3>2, <3>3
  <2>. QED  BY <1>2, <2>1, <2>2 DEF Agree
<1>4. Agree(p, o, Len(p))
  <2>1. /\ Len(r) \in Nat /\ Len(r) <= Len(o)
        /\ \A i \in 1 .. Len(r) : r[i] = request[i] /\ r[i] = o[i]
    BY <1>2 DEF Agree
  <2>2. \A i \in 1 .. d : i \in 1 .. Len(r)
    BY <1>1, <1>3, <2>1
  <2>3. d <= Len(o) /\ d <= Len(p) /\ Len(o) \in Nat
    BY <1>1, <1>3, <2>1
  <2>4. \A i \in 1 .. d : p[i] = o[i]
    BY <1>1, <2>1, <2>2
  <2>. QED  BY <1>1, <2>3, <2>4 DEF Agree
<1>. QED  BY <1>1, <1>4, PrefixAgrees DEF t
-----------------------------------------------------------------------------
(* What the agent answers.                                                 *)

\* What a response to w cursors has at place k, with n rows behind each cursor.
AtPlace(a, cursors, n, w, k) ==
  RowsBehind(a, cursors[((k - 1) % w) + 1], n)[((k - 1) \div w) + 1]

\* A response has an OID of the agent, or the end of it, at every place.
AnswersWith(a, cursors, w, reps, n, resp) ==
  /\ n \in Nat /\ n <= reps /\ (reps > 0 => n > 0)
  /\ resp \in Seq(a.mib \cup {End}) /\ Len(resp) = Capped(n * w, a.most)
  /\ Len(resp) <= n * w
  /\ \A k \in 1 .. Len(resp) : resp[k] = AtPlace(a, cursors, n, w, k)

LEMMA BulkShape ==
  ASSUME NEW a \in Profiles, NEW cursors, NEW w \in Nat \ {0}, Len(cursors) = w,
         NEW reps \in Nat
  PROVE  AnswersWith(a, cursors, w, reps, Capped(reps, a.rows), GetBulk(a, cursors, reps))
<1>. DEFINE n == Capped(reps, a.rows)
            resp == GetBulk(a, cursors, reps)
<1>. SUFFICES AnswersWith(a, cursors, w, reps, n, resp)
  OBVIOUS
<1>. DEFINE m == Capped(n * w, a.most)
            rows == [i \in 1 .. w |-> RowsBehind(a, cursors[i], n)]
            place(k) == rows[((k - 1) % w) + 1][((k - 1) \div w) + 1]
            varbinds == [k \in 1 .. n * w |-> place(k)]
            V == a.mib \cup {End}
<1>1. n \in Nat /\ n <= reps /\ (reps > 0 => n > 0)
  BY ProfileShape DEF Capped
<1>2. resp = SubSeq(varbinds, 1, m)
  BY DEF GetBulk
<1>. HIDE DEF n, resp
<1>3. n * w \in Nat
  BY <1>1
<1>4. m \in 0 .. n * w
  BY <1>3, ProfileShape DEF Capped
<1>5. \A k \in 1 .. n * w : ((k - 1) % w) + 1 \in 1 .. w /\ ((k - 1) \div w) + 1 \in 1 .. n
  <2>. SUFFICES ASSUME NEW k \in 1 .. n * w
                PROVE  ((k - 1) % w) + 1 \in 1 .. w /\ ((k - 1) \div w) + 1 \in 1 .. n
    OBVIOUS
  <2>. DEFINE x == k - 1
              q == x \div w
              r == x % w
  <2>1. x \in Nat /\ x < n * w
    BY <1>3
  <2>. HIDE DEF x
  <2>2. q \in Nat /\ w * q <= x /\ r \in 0 .. w - 1
    BY <2>1, Division
  <2>. HIDE DEF q, r
  <2>3. r + 1 \in 1 .. w
    BY <2>2
  <2>4. q < n
    <3>. SUFFICES ASSUME n <= q  PROVE FALSE
      BY <1>1, <2>2
    <3>1. n * w <= w * q
      BY <1>1, <2>2
    <3>2. w * q \in Nat
      BY <2>2
    <3>. QED  BY <1>3, <2>1, <2>2, <3>1, <3>2
  <2>5. q + 1 \in 1 .. n
    BY <1>1, <2>2, <2>4
  <2>. QED  BY <2>3, <2>5 DEF q, r, x
<1>6. \A k \in 1 .. n * w :
        /\ place(k) = AtPlace(a, cursors, n, w, k)
        /\ place(k) \in V
  <2>. SUFFICES ASSUME NEW k \in 1 .. n * w
                PROVE /\ place(k) = AtPlace(a, cursors, n, w, k)
                      /\ place(k) \in V
    OBVIOUS
  <2>. DEFINE i == ((k - 1) % w) + 1
              r == ((k - 1) \div w) + 1
  <2>1. i \in 1 .. w /\ r \in 1 .. n
    BY <1>5
  <2>. HIDE DEF i, r
  <2>2. rows[i] = RowsBehind(a, cursors[i], n)
    BY <2>1
  <2>3. RowsBehind(a, cursors[i], n)[r] \in V
    BY <1>1, <2>1, RowsFollow
  <2>. QED  BY <2>2, <2>3 DEF i, r, AtPlace
<1>. HIDE DEF place, V
<1>7. varbinds \in Seq(V) /\ Len(varbinds) = n * w /\ \A k \in 1 .. n * w : varbinds[k] = place(k)
  <2>1. varbinds \in [1 .. n * w -> V]
    BY <1>6
  <2>. QED  BY <1>3, <1>6, <2>1
<1>. HIDE DEF varbinds, m
<1>8. /\ SubSeq(varbinds, 1, m) \in Seq(V) /\ Len(SubSeq(varbinds, 1, m)) = m
      /\ \A k \in 1 .. m : SubSeq(varbinds, 1, m)[k] = varbinds[k]
  BY <1>3, <1>4, <1>7
<1>9. m = Capped(n * w, a.most) /\ m <= n * w
  BY <1>3, <1>4 DEF m
<1>10. \A k \in 1 .. m : k \in 1 .. n * w
  BY <1>3, <1>4
<1>. QED  BY <1>1, <1>2, <1>6, <1>7, <1>8, <1>9, <1>10 DEF V, AnswersWith

\* The answer to one cursor: OIDs that follow it one by one, at least one of them
\* unless the agent has no room for any, and no more than were asked for.
Answers1(a, from, reps, resp) ==
  /\ resp \in Seq(a.mib \cup {End}) /\ Len(resp) <= reps
  /\ a.most > 0 => resp # <<>>
  /\ \A r \in 1 .. Len(resp) :
       /\ r = 1 => resp[r] = NextOID(a, from)
       /\ r > 1 /\ resp[r - 1] # End => resp[r] = NextOID(a, resp[r - 1])

LEMMA AnswerShape ==
  ASSUME NEW a \in Profiles, NEW from, NEW reps \in Nat \ {0},
         NEW resp \in Replies(a, <<from>>, reps)
  PROVE  Answers1(a, from, reps, resp)
<1>. DEFINE n == Capped(reps, a.rows)
<1>1. resp = GetBulk(a, <<from>>, reps)
  BY DEF Replies
<1>2. /\ n \in Nat /\ n <= reps /\ n > 0
      /\ resp \in Seq(a.mib \cup {End}) /\ Len(resp) = Capped(n * 1, a.most)
      /\ Len(resp) <= n * 1
      /\ \A k \in 1 .. Len(resp) :
           resp[k] = RowsBehind(a, <<from>>[((k - 1) % 1) + 1], n)[((k - 1) \div 1) + 1]
  <2>1. Len(<<from>>) = 1 /\ 1 \in Nat \ {0} /\ reps \in Nat /\ reps > 0
    OBVIOUS
  <2>2. PICK w, cursors : w = 1 /\ cursors = <<from>>
    OBVIOUS
  <2>3. AnswersWith(a, cursors, w, reps, n, resp)
    <3>1. w \in Nat \ {0} /\ Len(cursors) = w /\ resp = GetBulk(a, cursors, reps)
      BY <1>1, <2>1, <2>2
    <3>. QED  BY <2>1, <3>1, BulkShape
  <2>5. AnswersWith(a, <<from>>, 1, reps, n, resp)
    BY <2>2, <2>3
  <2>4. \A k \in 1 .. Len(resp) :
          resp[k] = RowsBehind(a, <<from>>[((k - 1) % 1) + 1], n)[((k - 1) \div 1) + 1]
    BY <2>5, Zenon DEF AtPlace, AnswersWith
  <2>. QED  BY <2>1, <2>4, <2>5 DEF AnswersWith
<1>. HIDE DEF n
<1>3. \A k \in 1 .. Len(resp) : k \in 1 .. n /\ resp[k] = RowsBehind(a, from, n)[k]
  <2>. SUFFICES ASSUME NEW k \in 1 .. Len(resp)
                PROVE  k \in 1 .. n /\ resp[k] = RowsBehind(a, from, n)[k]
    OBVIOUS
  <2>1. Len(resp) \in Nat /\ k \in 1 .. n
    BY <1>2
  <2>2. ((k - 1) % 1) + 1 = 1 /\ ((k - 1) \div 1) + 1 = k
    BY <2>1
  <2>3. <<from>>[1] = from
    OBVIOUS
  <2>. QED  BY <1>2, <2>1, <2>2, <2>3
<1>4. Len(resp) <= reps
  BY <1>2
<1>5. a.most > 0 => Len(resp) > 0
  BY <1>2, ProfileShape DEF Capped
<1>6. \A r \in 1 .. Len(resp) :
        /\ r = 1 => resp[r] = NextOID(a, from)
        /\ r > 1 /\ resp[r - 1] # End => resp[r] = NextOID(a, resp[r - 1])
  <2>. SUFFICES ASSUME NEW r \in 1 .. Len(resp)
                PROVE /\ r = 1 => resp[r] = NextOID(a, from)
                      /\ r > 1 /\ resp[r - 1] # End => resp[r] = NextOID(a, resp[r - 1])
    OBVIOUS
  <2>1. r > 1 => r - 1 \in 1 .. Len(resp)
    BY <1>2
  <2>. QED  BY <1>2, <1>3, <2>1, RowsFollow
<1>. QED  BY <1>2, <1>4, <1>5, <1>6 DEF Answers1

-----------------------------------------------------------------------------
(* One response of a reference walk.                                       *)

\* The OIDs behind the cursor that are not behind the last row read were read.
LEMMA RowsComplete ==
  ASSUME NEW a \in Profiles, NEW c, IsColumn(c), NEW reps \in Nat \ {0},
         NEW cells \in Replies(a, <<c.cursor>>, reps),
         NEW o \in a.mib, Less(c.cursor, o),
         ~Less(CursorAt(c, cells, RowsRead(c, cells) + 1), o)
  PROVE  o \in Read(c, cells)
<1>1. /\ cells \in Seq(a.mib \cup {End})
      /\ \A r \in 1 .. Len(cells) :
           /\ r = 1 => cells[r] = NextOID(a, c.cursor)
           /\ r > 1 /\ cells[r - 1] # End => cells[r] = NextOID(a, cells[r - 1])
  <2>1. Answers1(a, c.cursor, reps, cells)
    BY AnswerShape
  <2>. QED  BY <2>1 DEF Answers1
<1>. DEFINE n == RowsRead(c, cells)
            At(k) == CursorAt(c, cells, k + 1)
            S == {k \in 0 .. n : ~Less(At(k), o)}
<1>2. Len(cells) \in Nat /\ n \in 0 .. Len(cells) /\ \A r \in 1 .. n : Follows(c, cells, r)
  BY <1>1, RowsReadShape
<1>3. At(0) = c.cursor
  BY DEF CursorAt
<1>4. \A k \in 1 .. n : At(k) = cells[k] /\ cells[k] # End /\ Less(At(k - 1), At(k))
  <2>. SUFFICES ASSUME NEW k \in 1 .. n
                PROVE  At(k) = cells[k] /\ cells[k] # End /\ Less(At(k - 1), At(k))
    OBVIOUS
  <2>1. k + 1 # 1 /\ (k + 1) - 1 = k /\ (k - 1) + 1 = k
    BY <1>2
  <2>2. At(k) = cells[k]
    BY <2>1 DEF CursorAt
  <2>3. At(k - 1) = CursorAt(c, cells, k)
    BY <2>1
  <2>. QED  BY <1>2, <2>2, <2>3 DEF Follows, Inside
<1>5. S # {} /\ S \subseteq Nat
  <2>1. n \in 0 .. n
    BY <1>2
  <2>. QED  BY <1>2, <2>1
<1>. HIDE DEF At, n
<1>6. PICK k \in S : \A m \in S : k <= m
  <2>. HIDE DEF S
  <2>. QED  BY <1>5, LeastNatural
<1>7. k \in 1 .. n /\ ~Less(At(k), o)
  <2>1. k \in 0 .. n /\ ~Less(At(k), o)
    OBVIOUS
  <2>. QED  BY <1>2, <1>3, <2>1
<1>8. Less(At(k - 1), o)
  <2>1. k - 1 \in 0 .. n /\ ~(k <= k - 1)
    BY <1>2, <1>7
  <2>2. ~(k - 1 \in S)
    <3>. HIDE DEF S
    <3>. QED  BY <1>6, <2>1
  <2>. QED  BY <2>1, <2>2
<1>9. At(k) = NextOID(a, At(k - 1))
  <2>1. k \in 1 .. Len(cells) /\ (k = 1 \/ k - 1 \in 1 .. n)
    BY <1>2, <1>7
  <2>. QED  BY <1>1, <1>3, <1>4, <1>7, <2>1
<1>10. At(k - 1) \notin DOMAIN a.wrong
  BY <1>4, <1>7, <1>9, NextShape, ProfileShape
<1>11. ~Less(o, At(k))
  BY <1>8, <1>9, <1>10, NextShape
<1>12. At(k) = cells[k] /\ cells[k] \in Seq(Arc)
  <2>1. cells[k] \in a.mib
    BY <1>1, <1>2, <1>4, <1>7
  <2>. QED  BY <1>4, <1>7, <2>1, ProfileShape
<1>13. o = cells[k]
  BY <1>7, <1>11, <1>12, LessIsTotal, ProfileShape
<1>. QED  BY <1>7, <1>13 DEF Read, n

\* When the root ends at a varbind that is not in it, no OID of it is behind.
LEMMA EndIsEnd ==
  ASSUME NEW a \in Profiles, NEW c, IsColumn(c), NEW reps \in Nat \ {0},
         NEW cells \in Replies(a, <<c.cursor>>, reps),
         Finished(c, cells), ~Misordered(c, cells),
         \A w \in DOMAIN a.wrong : HasPrefix(w, c.oid) => HasPrefix(a.wrong[w], c.oid),
         NEW o \in a.mib, HasPrefix(o, c.oid)
  PROVE  ~Less(CursorAt(c, cells, RowsRead(c, cells) + 1), o)
<1>. DEFINE n == RowsRead(c, cells)
            at == CursorAt(c, cells, n + 1)
            next == cells[n + 1]
<1>1. /\ cells \in Seq(a.mib \cup {End})
      /\ \A r \in 1 .. Len(cells) :
           /\ r = 1 => cells[r] = NextOID(a, c.cursor)
           /\ r > 1 /\ cells[r - 1] # End => cells[r] = NextOID(a, cells[r - 1])
  <2>1. Answers1(a, c.cursor, reps, cells)
    BY AnswerShape
  <2>. QED  BY <2>1 DEF Answers1
<1>2. Len(cells) \in Nat /\ n \in 0 .. Len(cells) /\ \A r \in 1 .. n : Follows(c, cells, r)
  BY <1>1, RowsReadShape
<1>3. n < Len(cells) /\ ~Inside(c, next)
  BY <1>2 DEF Finished, Misordered
<1>4. at \in Seq(Arc) /\ HasPrefix(at, c.oid) /\ next = NextOID(a, at)
  <2>1. CASE n = 0
    <3>1. at = c.cursor /\ n + 1 = 1 /\ 1 \in 1 .. Len(cells)
      BY <1>2, <1>3, <2>1 DEF CursorAt
    <3>. QED  BY <1>1, <3>1 DEF IsColumn
  <2>2. CASE n # 0
    <3>1. n \in 1 .. n /\ n \in 1 .. Len(cells) /\ n + 1 \in 1 .. Len(cells) /\ n + 1 > 1 /\ (n + 1) - 1 = n /\ n + 1 # 1
      BY <1>2, <1>3, <2>2
    <3>2. at = cells[n]
      BY <3>1 DEF CursorAt
    <3>3. cells[n] # End /\ HasPrefix(cells[n], c.oid)
      BY <1>2, <3>1 DEF Follows, Inside
    <3>4. cells[n] \in a.mib
      BY <1>1, <3>1, <3>3
    <3>. QED  BY <1>1, <3>1, <3>2, <3>3, <3>4, ProfileShape
  <2>. QED  BY <2>1, <2>2
<1>. HIDE DEF at, next, n
<1>5. at \notin DOMAIN a.wrong
  BY <1>3, <1>4, NextShape DEF Inside
<1>6. next = End \/ (next \in a.mib /\ ~HasPrefix(next, c.oid))
  BY <1>3, <1>4, NextShape DEF Inside
<1>7. ASSUME Less(at, o)  PROVE FALSE
  <2>1. next # End
    BY <1>4, <1>5, <1>7, NextShape
  <2>2. Less(at, next) /\ ~Less(o, next)
    BY <1>4, <1>5, <1>7, <2>1, NextShape
  <2>3. next \in Seq(Arc) /\ o \in Seq(Arc) /\ ~HasPrefix(next, c.oid)
    BY <1>6, <2>1, ProfileShape
  <2>4. Less(next, o)
    BY <2>2, <2>3, LessIsTotal
  <2>. QED  BY <1>4, <2>2, <2>3, <2>4, NothingBetween DEF IsColumn
<1>. QED  BY <1>7 DEF at, n

\* A root that ends where its OIDs do: no answer leads out of it.
Sound(a, r) ==
  /\ r \notin a.mib
  /\ \A o \in DOMAIN a.wrong : HasPrefix(o, r) => HasPrefix(a.wrong[o], r)

\* Accounted, for one OID; and for those a walk has come by at a cursor.
Known(o, collected, branches) ==
  \/ o \in collected
  \/ \E p \in branches : HasPrefix(o, p)
  \/ \E p \in branches : o = NextSibling(p)
KnownTo(a, r, at, collected, branches) ==
  \A o \in a.mib : HasPrefix(o, r) /\ ~Less(at, o) => Known(o, collected, branches)

\* What a walk has come by stays accounted for with each response, and when the
\* root ends all of it is.
LEMMA ResponseAccounts ==
  ASSUME NEW a \in Profiles, NEW c, IsColumn(c), Sound(a, c.oid), NEW reps \in Nat \ {0},
         NEW cells \in Replies(a, <<c.cursor>>, reps), NEW collected, NEW branches,
         KnownTo(a, c.oid, c.cursor, collected, branches),
         NEW collected1, collected \cup Read(c, cells) \subseteq collected1,
         NEW branches1, branches \subseteq branches1,
         Misordered(c, cells) => ParentOf(Skipping(c, cells)) \in branches1,
         NEW o \in a.mib, HasPrefix(o, c.oid),
         Finished(c, cells) \/ ~Less(CursorAfter(c, cells), o)
  PROVE  Known(o, collected1, branches1)
<1>. DEFINE n == RowsRead(c, cells)
            at == CursorAt(c, cells, n + 1)
<1>1. cells \in Seq(Seq(Arc))
  <2>1. cells \in Seq(a.mib \cup {End})
    <3>1. Answers1(a, c.cursor, reps, cells)
      BY AnswerShape
    <3>. QED  BY <3>1 DEF Answers1
  <2>2. a.mib \cup {End} \subseteq Seq(Arc)
    BY ProfileShape, EndType
  <2>. QED  BY <2>1, <2>2
<1>2. o \in Seq(Arc) /\ c.oid \in Seq(Arc)
  BY ProfileShape DEF IsColumn
<1>3. CASE ~Less(c.cursor, o)
  BY <1>3 DEF KnownTo, Known
<1>4. CASE Less(c.cursor, o) /\ ~Less(at, o)
  BY <1>4, RowsComplete, SMTT(60) DEF Known
<1>5. CASE Less(at, o) /\ Misordered(c, cells)
  <2>. DEFINE ans == cells[n + 1]
              t == SkipTarget(at, ans)
              p == ParentOf(t)
  <2>1. /\ at \in Seq(Arc) /\ at # <<>> /\ HasPrefix(at, c.oid) /\ ans \in Seq(Arc)
    BY <1>1, <1>5, SkipsFrom
  <2>2. p \in branches1 /\ (HasPrefix(t, c.oid) => CursorAfter(c, cells) = t)
        /\ (Finished(c, cells) => ~HasPrefix(t, c.oid))
    BY <1>5 DEF Skipping, CursorAfter, Finished
  <2>. HIDE DEF at, n
  <2>3. HasPrefix(o, p) \/ o = NextSibling(p)
    <3>1. CASE HasPrefix(t, c.oid)
      <4>1. ~Less(t, o)
        BY <2>2, <3>1
      <4>. QED  BY <1>2, <1>5, <2>1, <4>1, SkipAccounts
    <3>2. CASE ~HasPrefix(t, c.oid)
      BY <1>2, <2>1, <3>2, SkipOut
    <3>. QED  BY <3>1, <3>2
  <2>. QED  BY <2>2, <2>3 DEF Known
<1>6. CASE Less(at, o) /\ ~Misordered(c, cells)
  <2>1. ~Finished(c, cells) => CursorAfter(c, cells) = at
    BY <1>6 DEF CursorAfter
  <2>2. Finished(c, cells) => ~Less(at, o)
    BY <1>6, EndIsEnd, SMTT(60) DEF Sound
  <2>. QED  BY <1>6, <2>1, <2>2
<1>. QED  BY <1>3, <1>4, <1>5, <1>6

\* No OID of a sound root is before it.
LEMMA RootStart ==
  ASSUME NEW a \in Profiles, NEW r \in Seq(Arc), Sound(a, r)
  PROVE  IsColumn([oid |-> r, cursor |-> r]) /\ KnownTo(a, r, r, {}, {})
<1>1. HasPrefix(r, r)
  BY PrefixesCompare
<1>2. ASSUME NEW o \in a.mib, HasPrefix(o, r)  PROVE Less(r, o)
  <2>1. o \in Seq(Arc) /\ o # r
    BY ProfileShape DEF Sound
  <2>2. Agree(r, o, Len(r)) /\ Len(r) <= Len(o)
    BY <1>2, <2>1, PrefixAgrees DEF Agree
  <2>3. Len(r) < Len(o)
    <3>. SUFFICES ASSUME Len(r) = Len(o)  PROVE FALSE
      BY <2>1, <2>2
    <3>1. r \in [1 .. Len(r) -> Arc] /\ o \in [1 .. Len(r) -> Arc]
      BY <2>1
    <3>2. \A i \in 1 .. Len(r) : r[i] = o[i]
      BY <2>2 DEF Agree
    <3>. QED  BY <2>1, <3>1, <3>2
  <2>4. Below(r, o, Len(r)) /\ Len(r) \in Nat
    BY <2>2, <2>3 DEF Below
  <2>. QED  BY <2>1, <2>4, LessIsBelow
<1>3. KnownTo(a, r, r, {}, {})
  BY <1>2 DEF KnownTo
<1>. QED  BY <1>1, <1>3 DEF IsColumn

\* What a response adds to the walk: OIDs of the agent, no more of them than were
\* asked for, and the branch of a skip.
LEMMA ResponseAdds ==
  ASSUME NEW a \in Profiles, NEW c, IsColumn(c), NEW reps \in Nat \ {0},
         NEW cells \in Replies(a, <<c.cursor>>, reps)
  PROVE  /\ Read(c, cells) \subseteq a.mib
         /\ RowsRead(c, cells) \in 0 .. reps
         /\ Misordered(c, cells) => ParentOf(Skipping(c, cells)) \in Seq(Arc)
         /\ ~Finished(c, cells) => /\ CursorAfter(c, cells) \in Seq(Arc)
                                   /\ HasPrefix(CursorAfter(c, cells), c.oid)
<1>1. cells \in Seq(a.mib \cup {End}) /\ Len(cells) <= reps
  <2>1. Answers1(a, c.cursor, reps, cells)
    BY AnswerShape
  <2>. QED  BY <2>1 DEF Answers1
<1>2. a.mib \cup {End} \subseteq Seq(Arc)
  BY ProfileShape, EndType
<1>3. cells \in Seq(Seq(Arc))
  BY <1>1, <1>2
<1>4. Len(cells) \in Nat /\ RowsRead(c, cells) \in 0 .. Len(cells)
      /\ \A r \in 1 .. RowsRead(c, cells) : Follows(c, cells, r)
  BY <1>1, RowsReadShape
<1>5. Read(c, cells) \subseteq a.mib
  BY <1>1, <1>4 DEF Read, Follows, Inside
<1>6. Misordered(c, cells) => ParentOf(Skipping(c, cells)) \in Seq(Arc)
  <2>. SUFFICES ASSUME Misordered(c, cells)  PROVE ParentOf(Skipping(c, cells)) \in Seq(Arc)
    OBVIOUS
  <2>. DEFINE at == CursorAt(c, cells, RowsRead(c, cells) + 1)
              ans == cells[RowsRead(c, cells) + 1]
  <2>1. at \in Seq(Arc) /\ at # <<>> /\ ans \in Seq(Arc)
    BY <1>3, SkipsFrom
  <2>2. Skipping(c, cells) = SkipTarget(at, ans)
    BY DEF Skipping
  <2>. HIDE DEF at, ans
  <2>3. ParentOf(SkipTarget(at, ans)) \in Seq(Arc)
    BY <2>1, SkipListed
  <2>. QED  BY <2>2, <2>3
<1>7. ~Finished(c, cells) => /\ CursorAfter(c, cells) \in Seq(Arc)
                             /\ HasPrefix(CursorAfter(c, cells), c.oid)
  BY <1>3, CursorMoves
<1>. QED  BY <1>1, <1>4, <1>5, <1>6, <1>7

-----------------------------------------------------------------------------
(* The inductive invariant.                                                *)

RootsOf(l) == l.oids \o Bases(Groups[l].tables)
Accountable1(a, l) ==
  /\ a.most > 0
  /\ \A r \in ToSet(Append(RootsOf(l), l.tree)) : Sound(a, r)
Accounted1(a, st) ==
  \A o \in a.mib : HasPrefix(o, st.root) => Known(o, st.oids, st.skipped)

SubtreesOf(a) ==
  [root : Seq(Arc), oids : SUBSET a.mib, skipped : SUBSET Seq(Arc), columns : Seq(Nat),
   partial : BOOLEAN]

Table == [base : Seq(Arc), columns : Seq(Seq(Nat))]

\* What the run is at.
MainInv ==
  /\ phase \in {"preflight", "reference", "tree", "trial", "exit"}
  /\ exit \in {0, 1, NoExit} /\ (exit = NoExit <=> phase # "exit")
  /\ line \in Lines /\ agent \in Profiles /\ ctx \in {"live", "done"}
  /\ phase \in {"preflight", "trial"} => refPc = "done"
  /\ phase = "reference" => roots = RootsOf(line)
  /\ \A i \in DOMAIN roots : roots[i] \in ToSet(Append(RootsOf(line), line.tree))

\* The reference walk has a subtree for each root it has left, and is at or under
\* the next one.
WalkInv ==
  /\ roots \in Seq(Seq(Arc)) /\ root \in 1 .. Len(roots) + 1
  /\ refPc \in {"loop", "bulk", "done", "error"} /\ (refPc = "done" <=> root = Len(roots) + 1)
  /\ refPc # "done" => cursor \in Seq(Arc) /\ HasPrefix(cursor, roots[root])
  /\ total \in Nat /\ found \subseteq agent.mib /\ skipped \subseteq Seq(Arc)
  /\ subtrees \in Seq(SubtreesOf(agent)) /\ Len(subtrees) = root - 1
  /\ \A i \in 1 .. root - 1 : subtrees[i].root = roots[i]

\* What it has come by is accounted for.
AccountInv ==
  Accountable1(agent, line) =>
    /\ refPc # "done" => KnownTo(agent, roots[root], cursor, found, skipped)
    /\ \A i \in 1 .. Len(subtrees) : ~subtrees[i].partial => Accounted1(agent, subtrees[i])

\* It asks only within the budget, and closes no subtree early but for the budget.
BudgetInv ==
  /\ refPc # "done" => maxOIDs = line.limit
  /\ line.limit > 0 =>
       /\ total < line.limit + ReferenceRepetitions
       /\ refPc = "bulk" => total < line.limit
       /\ IsPartial(subtrees) => Done \/ total >= line.limit

\* What is shown, and what the trials are given, was accounted for.
ShownInv ==
  /\ shown.partial \in BOOLEAN /\ shown.subtrees \in Seq(SubtreesOf(agent))
  /\ ~shown.partial /\ Accountable1(agent, line) =>
       \A i \in 1 .. Len(shown.subtrees) : Accounted1(agent, shown.subtrees[i])
GivenInv ==
  /\ given.tables \in Seq(Table)
  /\ GroundTruth

\* s is a sequence, whatever its elements are.
IsSeq(s) == s \in Seq({s[i] : i \in DOMAIN s})

\* The trial reads OIDs of the agent, with a cursor for each column it asks.
TrialInv ==
  /\ table \in Nat \ {0} /\ chunk \in Nat \ {0}
  /\ IsSeq(active) /\ (pc = "bulk" => active # <<>>)
  /\ oids \subseteq agent.mib

SessionInv ==
  MainInv /\ WalkInv /\ AccountInv /\ BudgetInv /\ ShownInv /\ GivenInv /\ TrialInv

-----------------------------------------------------------------------------
(* The workload of the group, and the roots of the reference walk.         *)

LEMMA PickedType ==
  ASSUME NEW V, NEW s \in Seq(V), NEW places \in SUBSET (1 .. Len(s))
  PROVE  Picked(s, places) \in Seq(V)
<1>. DEFINE W == {s[i] : i \in places}
<1>1. Len(s) \in Nat /\ W \subseteq V
  OBVIOUS
<1>2. Picked(s, places) \in Seq(W)
  BY <1>1, PickedLists
<1>. HIDE DEF W
<1>3. \A q \in Seq(W) : q \in Seq(V)
  BY <1>1
<1>. QED  BY <1>2, <1>3

LEMMA ArcSeqs == \A q \in Seq(Arc) : q \in Seq(Nat)
<1>1. \A x \in Arc : x \in Nat
  BY ArcType
<1>. QED  BY <1>1

LEMMA DistinctType ==
  ASSUME NEW V, NEW s \in Seq(V)
  PROVE  Distinct(s) \in Seq(V)
<1>1. {i \in DOMAIN s : \A j \in 1 .. i - 1 : s[j] # s[i]} \in SUBSET (1 .. Len(s))
  OBVIOUS
<1>. QED  BY <1>1, PickedType DEF Distinct

LEMMA ParentType ==
  ASSUME NEW o \in Seq(Arc)
  PROVE  ParentOID(o) \in Seq(Arc)
<1>1. CASE Len(o) > 1
  <2>1. 1 \in 1 .. Len(o) /\ Len(o) - 1 \in 1 .. Len(o)
    BY <1>1
  <2>2. SubSeq(o, 1, Len(o) - 1) \in Seq(Arc)
    BY <2>1
  <2>. QED  BY <1>1, <2>2 DEF ParentOID, Front
<1>2. CASE ~(Len(o) > 1)
  BY <1>2 DEF ParentOID
<1>. QED  BY <1>1, <1>2

LEMMA GroupType ==
  ASSUME NEW l \in Lines
  PROVE  Groups[l].tables \in Seq(Table)
<1>. DEFINE objs == l.objs
            Object == [oid : Seq(Arc), instance : Seq(Arc)]
            columns == Keep(objs, LAMBDA obj : ~IsScalar(obj))
            bases == Distinct(Mapped(columns, Base))
            of(b) == Keep(columns, LAMBDA obj : Base(obj) = b)
            table_(b) == [base |-> b, columns |-> Distinct(Mapped(of(b), OIDOf))]
<1>1. objs \in Seq(Object)
  BY SessionAssumption
<1>2. Groups[l].tables = [i \in DOMAIN bases |-> table_(bases[i])]
  <2>1. Groups[l].tables = GroupTables(l.objs)
    BY DEF Groups
  <2>. QED  BY <2>1 DEF GroupTables, Mapped
<1>3. columns \in Seq(Object)
  <2>1. {i \in DOMAIN objs : ~IsScalar(objs[i])} \in SUBSET (1 .. Len(objs))
    BY <1>1
  <2>2. columns = Picked(objs, {i \in DOMAIN objs : ~IsScalar(objs[i])})
    BY DEF Keep
  <2>. HIDE DEF objs, Object, columns
  <2>. QED  BY <1>1, <2>1, <2>2, PickedType
<1>. HIDE DEF columns, objs
<1>4. \A b : of(b) \in Seq(Object)
  <2>. SUFFICES ASSUME NEW b  PROVE of(b) \in Seq(Object)
    OBVIOUS
  <2>1. {i \in DOMAIN columns : Base(columns[i]) = b} \in SUBSET (1 .. Len(columns))
    BY <1>3
  <2>2. of(b) = Picked(columns, {i \in DOMAIN columns : Base(columns[i]) = b})
    BY DEF Keep
  <2>. HIDE DEF Object, of
  <2>. QED  BY <1>3, <2>1, <2>2, PickedType
<1>5. \A obj \in Object : Base(obj) \in Seq(Arc) /\ OIDOf(obj) \in Seq(Nat)
  <2>. SUFFICES ASSUME NEW obj \in Object  PROVE Base(obj) \in Seq(Arc) /\ OIDOf(obj) \in Seq(Nat)
    OBVIOUS
  <2>1. obj.oid \in Seq(Arc) /\ obj.instance \in Seq(Arc)
    OBVIOUS
  <2>2. obj.oid \o obj.instance \in Seq(Arc)
    BY <2>1
  <2>3. \A q \in Seq(Arc) : q \in Seq(Nat)
    BY ArcSeqs
  <2>. QED  BY <2>1, <2>2, <2>3, ParentType DEF Base, OIDOf
<1>6. bases \in Seq(Seq(Arc))
  <2>. HIDE DEF Object
  <2>1. Mapped(columns, Base) = [i \in DOMAIN columns |-> Base(columns[i])]
    BY DEF Mapped
  <2>2. Mapped(columns, Base) \in Seq(Seq(Arc))
    <3>1. \A i \in 1 .. Len(columns) : Base(columns[i]) \in Seq(Arc)
      BY <1>3, <1>5
    <3>. QED  BY <1>3, <2>1, <3>1
  <2>. QED  BY <2>2, DistinctType
<1>7. \A b : Distinct(Mapped(of(b), OIDOf)) \in Seq(Seq(Nat))
  <2>. SUFFICES ASSUME NEW b  PROVE Distinct(Mapped(of(b), OIDOf)) \in Seq(Seq(Nat))
    OBVIOUS
  <2>. HIDE DEF Object, of
  <2>1. of(b) \in Seq(Object)
    BY <1>4
  <2>2. Mapped(of(b), OIDOf) = [i \in DOMAIN of(b) |-> OIDOf(of(b)[i])]
    BY DEF Mapped
  <2>3. Mapped(of(b), OIDOf) \in Seq(Seq(Nat))
    <3>1. \A i \in 1 .. Len(of(b)) : OIDOf(of(b)[i]) \in Seq(Nat)
      BY <1>5, <2>1
    <3>. QED  BY <2>1, <2>2, <3>1
  <2>. QED  BY <2>3, DistinctType
<1>8. \A i \in 1 .. Len(bases) : table_(bases[i]) \in Table
  <2>. SUFFICES ASSUME NEW i \in 1 .. Len(bases)  PROVE table_(bases[i]) \in Table
    OBVIOUS
  <2>. HIDE DEF bases, of
  <2>. QED  BY <1>6, <1>7 DEF Table
<1>. HIDE DEF bases, table_
<1>. QED  BY <1>2, <1>6, <1>8

\* Every table of the group has its base among the roots of the walk.
LEMMA RootsType ==
  ASSUME NEW l \in Lines
  PROVE  /\ RootsOf(l) \in Seq(Seq(Arc)) /\ l.tree \in Seq(Arc) /\ l.limit \in Nat
         /\ l.oids \in Seq(Seq(Arc))
         /\ \A i \in DOMAIN l.oids : \E k \in 1 .. Len(RootsOf(l)) : RootsOf(l)[k] = l.oids[i]
         /\ \A i \in 1 .. Len(Groups[l].tables) :
              \E k \in 1 .. Len(RootsOf(l)) : RootsOf(l)[k] = Groups[l].tables[i].base
         /\ \A i \in 1 .. Len(RootsOf(l)) : RootsOf(l)[i] \in ToSet(Append(RootsOf(l), l.tree))
         /\ l.tree \in ToSet(Append(RootsOf(l), l.tree))
<1>. DEFINE tables == Groups[l].tables
            bases == [i \in DOMAIN tables |-> tables[i].base]
            R == RootsOf(l)
            named == l.oids
            tree == l.tree
<1>1. tables \in Seq(Table)
  BY GroupType
<1>2. named \in Seq(Seq(Arc)) /\ tree \in Seq(Arc) /\ l.limit \in Nat
  <2>1. l.oids \in Seq(Seq(Arc) \ {<<>>}) /\ l.tree \in Seq(Arc) /\ l.limit \in Nat
    BY SessionAssumption
  <2>. QED  BY <2>1
<1>3. Bases(tables) = bases
  BY DEF Bases, Mapped
<1>. HIDE DEF tables
<1>4. bases \in Seq(Seq(Arc)) /\ Len(bases) = Len(tables)
      /\ \A i \in 1 .. Len(tables) : bases[i] = tables[i].base
  <2>1. \A i \in 1 .. Len(tables) : tables[i].base \in Seq(Arc)
    <3>. SUFFICES ASSUME NEW i \in 1 .. Len(tables)  PROVE tables[i].base \in Seq(Arc)
      OBVIOUS
    <3>1. tables[i] \in Table
      BY <1>1
    <3>. QED  BY <3>1 DEF Table
  <2>. QED  BY <1>1, <2>1
<1>. HIDE DEF bases
<1>5. R = named \o bases
  BY <1>3 DEF RootsOf, tables
<1>. HIDE DEF R, named, tree
<1>6. R \in Seq(Seq(Arc)) /\ Len(R) = Len(named) + Len(bases)
      /\ (\A i \in 1 .. Len(named) : R[i] = named[i])
      /\ \A i \in 1 .. Len(bases) : R[Len(named) + i] = bases[i]
  BY <1>2, <1>4, <1>5
<1>7. \A i \in DOMAIN named : \E k \in 1 .. Len(R) : R[k] = named[i]
  <2>0. DOMAIN named = 1 .. Len(named)
    BY <1>2
  <2>. SUFFICES ASSUME NEW i \in 1 .. Len(named)  PROVE \E k \in 1 .. Len(R) : R[k] = named[i]
    BY <2>0, Zenon
  <2>1. i \in 1 .. Len(R)
    BY <1>2, <1>4, <1>6
  <2>. QED  BY <1>6, <2>1
<1>8. \A i \in 1 .. Len(tables) : \E k \in 1 .. Len(R) : R[k] = tables[i].base
  <2>. SUFFICES ASSUME NEW i \in 1 .. Len(tables)
                PROVE  \E k \in 1 .. Len(R) : R[k] = tables[i].base
    OBVIOUS
  <2>1. Len(named) + i \in 1 .. Len(R)
    BY <1>1, <1>2, <1>4, <1>6
  <2>. QED  BY <1>4, <1>6, <2>1
<1>. DEFINE A == Append(R, tree)
            V == Seq(Arc)
<1>9. /\ A \in Seq(V) /\ Len(A) = Len(R) + 1 /\ A[Len(R) + 1] = tree
      /\ \A i \in 1 .. Len(R) : A[i] = R[i]
  <2>1. R \in Seq(V) /\ tree \in V
    BY <1>2, <1>6
  <2>. HIDE DEF V
  <2>. QED  BY <2>1
<1>. HIDE DEF A
<1>10. (\A i \in 1 .. Len(R) : R[i] \in ToSet(A)) /\ tree \in ToSet(A)
  <2>1. \A i \in 1 .. Len(R) : i \in DOMAIN A
    BY <1>6, <1>9
  <2>2. Len(R) + 1 \in DOMAIN A
    BY <1>6, <1>9
  <2>. QED  BY <1>9, <2>1, <2>2 DEF ToSet
<1>. QED  BY <1>2, <1>6, <1>7, <1>8, <1>10 DEF tables, R, A, named, tree

-----------------------------------------------------------------------------
(* The steps of the reference walk.                                        *)

\* The columns of a table are numbers.
LEMMA InferType ==
  ASSUME NEW a \in Profiles, NEW r \in Seq(Arc), NEW collected \in SUBSET a.mib
  PROVE  InferColumns(r, collected) \in Seq(Nat)
<1>. DEFINE f == [o \in collected |-> o[Len(r) + 2]]
            S == {o[Len(r) + 2] : o \in collected}
<1>1. CASE ~(\A o \in collected : InTable(r, o))
  <2>1. InferColumns(r, collected) = <<>>
    BY <1>1 DEF InferColumns
  <2>. QED  BY <2>1
<1>2. CASE \A o \in collected : InTable(r, o)
  <2>1. InferColumns(r, collected) = InOrder(S)
    BY <1>2 DEF InferColumns
  <2>2. IsFiniteSet(S)
    <3>1. IsFiniteSet(collected)
      BY ProfileShape, FS_Subset
    <3>2. f \in Surjection(collected, S)
      BY DEF Surjection
    <3>. HIDE DEF f, S
    <3>. QED  BY <3>1, <3>2, FS_Surjection
  <2>3. S \in SUBSET Nat
    <3>. SUFFICES ASSUME NEW o \in collected  PROVE o[Len(r) + 2] \in Nat
      OBVIOUS
    <3>1. o \in Seq(Arc) /\ Len(o) >= Len(r) + 3 /\ Len(r) \in Nat
      BY <1>2, ProfileShape DEF InTable
    <3>2. Len(r) + 1 \in Nat /\ Len(r) + 1 < Len(o) /\ (Len(r) + 1) + 1 = Len(r) + 2
      BY <3>1
    <3>3. o[(Len(r) + 1) + 1] \in Nat
      BY <3>1, <3>2, ArcsAreNaturals
    <3>. QED  BY <3>2, <3>3
  <2>. HIDE DEF S
  <2>. DEFINE n == Cardinality(S)
  <2>4. n \in Nat /\ InOrder(S) \in [1 .. n -> S]
    BY <2>2, <2>3, InOrderLists
  <2>. HIDE DEF n
  <2>5. InOrder(S) \in [1 .. n -> Nat]
    BY <2>3, <2>4
  <2>6. \A q \in [1 .. n -> Nat] : q \in Seq(Nat)
    BY <2>4
  <2>. QED  BY <2>1, <2>5, <2>6
<1>. QED  BY <1>1, <1>2

\* A walk that comes to a root is at it; when it comes behind the last it is done.
LEMMA OpenStep ==
  ASSUME NEW rs \in Seq(Seq(Arc)), NEW k \in 1 .. Len(rs) + 1, Open(k, rs), roots' = rs
  PROVE  /\ root' = k /\ found' = {} /\ skipped' = {}
         /\ refPc' \in {"loop", "done"} /\ (refPc' = "done" <=> k = Len(rs) + 1)
         /\ k # Len(rs) + 1 => /\ k \in 1 .. Len(rs) /\ cursor' = rs[k] /\ rs[k] \in Seq(Arc)
                               /\ HasPrefix(rs[k], rs[k])
<1>. DEFINE V == Seq(Arc)
<1>1. rs \in Seq(V) /\ Len(rs) \in Nat
  OBVIOUS
<1>2. k > Len(rs) <=> k = Len(rs) + 1
  BY <1>1
<1>3. k # Len(rs) + 1 => k \in 1 .. Len(rs) /\ rs[k] \in V
  <2>. HIDE DEF V
  <2>. QED  BY <1>1
<1>4. k # Len(rs) + 1 => HasPrefix(rs[k], rs[k])
  BY <1>3, PrefixesCompare
<1>. QED  BY <1>2, <1>3, <1>4 DEF Open, Past

\* Walk is called: nothing is covered, and nothing has to be.
LEMMA StartStep ==
  ASSUME NEW rs \in Seq(Seq(Arc)), StartWalk(rs, line.limit),
         \A i \in DOMAIN rs : rs[i] \in ToSet(Append(RootsOf(line), line.tree)),
         line \in Lines, line' = line, agent \in Profiles, agent' = agent
  PROVE  WalkInv' /\ AccountInv' /\ BudgetInv'
<1>1. /\ roots' = rs /\ maxOIDs' = line.limit /\ total' = 0 /\ subtrees' = <<>> /\ Open(1, rs)
  BY DEF StartWalk
<1>2. Len(rs) \in Nat /\ 1 \in 1 .. Len(rs) + 1 /\ DOMAIN rs = 1 .. Len(rs)
  OBVIOUS
<1>3. /\ root' = 1 /\ found' = {} /\ skipped' = {}
      /\ refPc' \in {"loop", "done"} /\ (refPc' = "done" <=> 1 = Len(rs) + 1)
      /\ 1 # Len(rs) + 1 => /\ 1 \in 1 .. Len(rs) /\ cursor' = rs[1] /\ rs[1] \in Seq(Arc)
                            /\ HasPrefix(rs[1], rs[1])
  BY <1>1, <1>2, OpenStep
<1>4. subtrees' \in Seq(SubtreesOf(agent')) /\ Len(subtrees') = 0 /\ DOMAIN subtrees' = {}
  <2>. DEFINE V == SubtreesOf(agent')
  <2>1. <<>> \in Seq(V) /\ Len(<<>>) = 0 /\ DOMAIN <<>> = {}
    OBVIOUS
  <2>. QED  BY <1>1, <2>1
<1>5. WalkInv'
  <2>1. roots' \in Seq(Seq(Arc)) /\ root' \in 1 .. Len(roots') + 1
    BY <1>1, <1>2, <1>3
  <2>2. refPc' # "done" => cursor' \in Seq(Arc) /\ HasPrefix(cursor', roots'[root'])
    BY <1>1, <1>3
  <2>3. total' \in Nat /\ found' \subseteq agent'.mib /\ skipped' \subseteq Seq(Arc)
    BY <1>1, <1>3
  <2>4. Len(subtrees') = root' - 1 /\ \A i \in 1 .. root' - 1 : subtrees'[i].root = roots'[i]
    BY <1>3, <1>4
  <2>5. refPc' \in {"loop", "bulk", "done", "error"} /\ (refPc' = "done" <=> root' = Len(roots') + 1)
    BY <1>1, <1>3
  <2>. QED  BY <1>4, <2>1, <2>2, <2>3, <2>4, <2>5 DEF WalkInv
<1>6. AccountInv'
  <2>. SUFFICES ASSUME Accountable1(agent, line)
                PROVE  /\ refPc' # "done" => KnownTo(agent, roots'[root'], cursor', found', skipped')
                       /\ \A i \in 1 .. Len(subtrees') : ~subtrees'[i].partial => Accounted1(agent, subtrees'[i])
    BY DEF AccountInv
  <2>1. refPc' # "done" => KnownTo(agent, rs[1], rs[1], {}, {})
    <3>. SUFFICES ASSUME refPc' # "done"  PROVE KnownTo(agent, rs[1], rs[1], {}, {})
      OBVIOUS
    <3>1. 1 \in DOMAIN rs /\ rs[1] \in Seq(Arc)
      BY <1>2, <1>3
    <3>2. Sound(agent, rs[1])
      BY <3>1 DEF Accountable1
    <3>. QED  BY <3>1, <3>2, RootStart
  <2>2. 1 .. Len(subtrees') = {}
    BY <1>4
  <2>. QED  BY <1>1, <1>3, <2>1, <2>2
<1>7. BudgetInv'
  <2>1. maxOIDs' = line'.limit /\ total' = 0 /\ refPc' # "bulk" /\ ~IsPartial(subtrees')
    BY <1>1, <1>3, <1>4 DEF IsPartial
  <2>2. line'.limit \in Nat /\ ReferenceRepetitions \in Nat \ {0}
    BY RootsType, RepetitionsAssumption
  <2>. QED  BY <2>1, <2>2 DEF BudgetInv
<1>. QED  BY <1>5, <1>6, <1>7

\* A subtree is closed: unless it is partial all of its root has to be known.
LEMMA CloseStep ==
  ASSUME MainInv, WalkInv, AccountInv, refPc # "done",
         NEW partial \in BOOLEAN, NEW collected \in SUBSET agent.mib,
         NEW branches \in SUBSET Seq(Arc), Close(partial, collected, branches),
         roots' = roots, line' = line, agent' = agent, total' \in Nat,
         Accountable1(agent, line) /\ ~partial =>
           \A o \in agent.mib : HasPrefix(o, roots[root]) => Known(o, collected, branches)
  PROVE  WalkInv' /\ AccountInv' /\ (IsPartial(subtrees') <=> IsPartial(subtrees) \/ partial)
<1>. DEFINE st == Subtree(partial, collected, branches)
            n == Len(subtrees)
            V == SubtreesOf(agent)
<1>1. /\ roots \in Seq(Seq(Arc)) /\ root \in 1 .. Len(roots) /\ agent \in Profiles
      /\ Len(roots) \in Nat /\ roots[root] \in Seq(Arc)
  <2>1. roots \in Seq(Seq(Arc)) /\ root \in 1 .. Len(roots) + 1 /\ root # Len(roots) + 1
    BY DEF WalkInv
  <2>2. root \in 1 .. Len(roots) /\ Len(roots) \in Nat
    BY <2>1
  <2>3. roots[root] \in Seq(Arc)
    <3>. DEFINE W == Seq(Arc)
    <3>1. roots \in Seq(W)
      BY <2>1
    <3>. HIDE DEF W
    <3>2. roots[root] \in W
      BY <2>2, <3>1
    <3>. QED  BY <3>2 DEF W
  <2>. QED  BY <2>1, <2>2, <2>3 DEF MainInv
<1>2. st \in V /\ st.root = roots[root] /\ st.partial = partial
      /\ st.oids = collected /\ st.skipped = branches
  <2>1. InferColumns(roots[root], collected) \in Seq(Nat)
    BY <1>1, InferType
  <2>. QED  BY <1>1, <2>1 DEF Subtree, SubtreesOf
<1>3. subtrees' = Append(subtrees, st) /\ Open(root + 1, roots)
  BY DEF Close
<1>4. root + 1 \in 1 .. Len(roots) + 1
  BY <1>1
<1>. HIDE DEF st, V
<1>5. /\ root' = root + 1 /\ found' = {} /\ skipped' = {}
      /\ refPc' \in {"loop", "done"} /\ (refPc' = "done" <=> root + 1 = Len(roots) + 1)
      /\ root + 1 # Len(roots) + 1 =>
           /\ root + 1 \in 1 .. Len(roots) /\ cursor' = roots[root + 1]
           /\ roots[root + 1] \in Seq(Arc) /\ HasPrefix(roots[root + 1], roots[root + 1])
  BY <1>1, <1>3, <1>4, OpenStep
<1>6. /\ subtrees \in Seq(V) /\ n \in Nat /\ n = root - 1
      /\ subtrees' \in Seq(V) /\ Len(subtrees') = n + 1 /\ subtrees'[n + 1] = st
      /\ \A i \in 1 .. n : subtrees'[i] = subtrees[i]
  <2>1. subtrees \in Seq(V) /\ n = root - 1
    BY DEF WalkInv, V
  <2>. QED  BY <1>2, <1>3, <2>1
<1>7. WalkInv'
  <2>1. roots' \in Seq(Seq(Arc)) /\ root' \in 1 .. Len(roots') + 1
    BY <1>1, <1>4, <1>5
  <2>2. refPc' # "done" => cursor' \in Seq(Arc) /\ HasPrefix(cursor', roots'[root'])
    BY <1>5
  <2>3. total' \in Nat /\ found' \subseteq agent'.mib /\ skipped' \subseteq Seq(Arc)
    BY <1>5
  <2>4. Len(subtrees') = root' - 1 /\ \A i \in 1 .. root' - 1 : subtrees'[i].root = roots'[i]
    <3>1. Len(subtrees') = root' - 1 /\ root' - 1 = n + 1
      BY <1>1, <1>5, <1>6
    <3>2. \A i \in 1 .. n : subtrees[i].root = roots[i]
      BY <1>6 DEF WalkInv
    <3>3. ASSUME NEW i \in 1 .. n + 1  PROVE subtrees'[i].root = roots'[i]
      <4>1. i \in 1 .. n \/ i = n + 1
        BY <1>6
      <4>2. n + 1 = root
        BY <1>1, <1>6
      <4>. QED  BY <1>2, <1>6, <3>2, <4>1, <4>2
    <3>. QED  BY <3>1, <3>3
  <2>5. refPc' \in {"loop", "bulk", "done", "error"} /\ (refPc' = "done" <=> root' = Len(roots') + 1)
    BY <1>5
  <2>6. subtrees' \in Seq(SubtreesOf(agent'))
    BY <1>6 DEF V
  <2>. QED  BY <2>1, <2>2, <2>3, <2>4, <2>5, <2>6 DEF WalkInv
<1>8. AccountInv'
  <2>. SUFFICES ASSUME Accountable1(agent, line)
                PROVE  /\ refPc' # "done" => KnownTo(agent, roots'[root'], cursor', found', skipped')
                       /\ \A i \in 1 .. Len(subtrees') : ~subtrees'[i].partial => Accounted1(agent, subtrees'[i])
    BY DEF AccountInv
  <2>1. refPc' # "done" => KnownTo(agent, roots'[root'], cursor', found', skipped')
    <3>. SUFFICES ASSUME refPc' # "done"
                  PROVE  KnownTo(agent, roots[root + 1], roots[root + 1], {}, {})
      BY <1>5
    <3>1. root + 1 \in DOMAIN roots /\ roots[root + 1] \in Seq(Arc)
      BY <1>1, <1>5
    <3>2. Sound(agent, roots[root + 1])
      BY <3>1 DEF Accountable1, MainInv
    <3>. QED  BY <1>1, <3>1, <3>2, RootStart
  <2>2. ASSUME NEW i \in 1 .. n + 1, ~subtrees'[i].partial  PROVE Accounted1(agent, subtrees'[i])
    <3>1. CASE i \in 1 .. n
      BY <1>6, <2>2, <3>1 DEF AccountInv
    <3>2. CASE i = n + 1
      BY <1>2, <1>6, <2>2, <3>2 DEF Accounted1
    <3>. QED  BY <1>6, <3>1, <3>2
  <2>. QED  BY <1>6, <2>1, <2>2
<1>9. IsPartial(subtrees') <=> IsPartial(subtrees) \/ partial
  <2>1. DOMAIN subtrees = 1 .. n /\ DOMAIN subtrees' = 1 .. n + 1
    BY <1>6
  <2>2. n + 1 \in 1 .. n + 1 /\ \A i \in 1 .. n + 1 : i \in 1 .. n \/ i = n + 1
    BY <1>6
  <2>3. \A i \in 1 .. n : i \in 1 .. n + 1
    BY <1>6
  <2>. QED  BY <1>2, <1>6, <2>1, <2>2, <2>3 DEF IsPartial
<1>. QED  BY <1>7, <1>8, <1>9

\* A response is collected.
LEMMA CollectStep ==
  ASSUME MainInv, WalkInv, AccountInv, BudgetInv, refPc = "bulk",
         NEW resp \in Replies(agent, <<cursor>>, ReferenceRepetitions), Collect(resp),
         line' = line, agent' = agent, ctx' = ctx
  PROVE  WalkInv' /\ AccountInv' /\ BudgetInv' /\ roots' = roots
<1>. DEFINE c == Column0
            collected == found \cup Read(c, resp)
            branches == skipped \cup (IF Misordered(c, resp) THEN {ParentOf(Skipping(c, resp))} ELSE {})
            R == ReferenceRepetitions
<1>1. agent \in Profiles /\ R \in Nat \ {0} /\ line \in Lines /\ line.limit \in Nat
  BY RepetitionsAssumption, RootsType DEF MainInv
<1>2. /\ c.oid = roots[root] /\ c.cursor = cursor
      /\ root \in 1 .. Len(roots) /\ Len(roots) \in Nat /\ roots[root] \in Seq(Arc)
      /\ IsColumn(c)
  <2>1. roots \in Seq(Seq(Arc)) /\ root \in 1 .. Len(roots) + 1 /\ root # Len(roots) + 1
    BY DEF WalkInv
  <2>2. root \in 1 .. Len(roots) /\ Len(roots) \in Nat
    BY <2>1
  <2>3. roots[root] \in Seq(Arc)
    <3>. DEFINE W == Seq(Arc)
    <3>1. roots \in Seq(W)
      BY <2>1
    <3>. HIDE DEF W
    <3>2. roots[root] \in W
      BY <2>2, <3>1
    <3>. QED  BY <3>2 DEF W
  <2>4. cursor \in Seq(Arc) /\ HasPrefix(cursor, roots[root])
    BY DEF WalkInv
  <2>. QED  BY <2>2, <2>3, <2>4 DEF Column0, IsColumn
<1>3. resp \in Replies(agent, <<c.cursor>>, R)
  BY <1>2
<1>4. /\ Read(c, resp) \subseteq agent.mib
      /\ RowsRead(c, resp) \in 0 .. R
      /\ Misordered(c, resp) => ParentOf(Skipping(c, resp)) \in Seq(Arc)
      /\ ~Finished(c, resp) => /\ CursorAfter(c, resp) \in Seq(Arc)
                               /\ HasPrefix(CursorAfter(c, resp), c.oid)
  <2>. HIDE DEF c, R
  <2>. QED  BY <1>1, <1>2, <1>3, ResponseAdds
<1>5. agent.most > 0 => resp # <<>>
  <2>1. Answers1(agent, c.cursor, R, resp)
    <3>. HIDE DEF c, R
    <3>. QED  BY <1>1, <1>3, AnswerShape
  <2>. QED  BY <2>1 DEF Answers1
<1>6. ASSUME Accountable1(agent, line)
      PROVE  /\ Sound(agent, c.oid)
             /\ \A o \in agent.mib :
                  /\ HasPrefix(o, c.oid)
                  /\ Finished(c, resp) \/ ~Less(CursorAfter(c, resp), o)
                  => Known(o, collected, branches)
  <2>1. Sound(agent, c.oid)
    <3>1. DOMAIN roots = 1 .. Len(roots)
      BY DEF WalkInv
    <3>. QED  BY <1>2, <1>6, <3>1 DEF MainInv, Accountable1
  <2>2. KnownTo(agent, c.oid, c.cursor, found, skipped)
    BY <1>2, <1>6 DEF AccountInv
  <2>3. ASSUME NEW o \in agent.mib, HasPrefix(o, c.oid),
               Finished(c, resp) \/ ~Less(CursorAfter(c, resp), o)
        PROVE  Known(o, collected, branches)
    <3>1. /\ found \cup Read(c, resp) \subseteq collected
          /\ skipped \subseteq branches
          /\ Misordered(c, resp) => ParentOf(Skipping(c, resp)) \in branches
      OBVIOUS
    <3>. HIDE DEF c, R, collected, branches
    <3>. QED  BY <1>1, <1>2, <1>3, <2>1, <2>2, <2>3, <3>1, ResponseAccounts
  <2>. QED  BY <2>1, <2>3
<1>7. collected \subseteq agent.mib /\ branches \subseteq Seq(Arc)
  BY <1>4 DEF WalkInv
<1>8. roots' = roots /\ maxOIDs' = maxOIDs /\ total' = total + RowsRead(c, resp)
  BY DEF Collect
<1>9. total' \in Nat /\ (line.limit > 0 => total' < line.limit + R)
  <2>1. total \in Nat /\ (line.limit > 0 => total < line.limit)
    BY DEF WalkInv, BudgetInv
  <2>. HIDE DEF R, c
  <2>. QED  BY <1>1, <1>4, <1>8, <2>1
<1>10. line.limit > 0 => total' >= total
  <2>1. total \in Nat
    BY DEF WalkInv
  <2>. HIDE DEF R, c
  <2>. QED  BY <1>1, <1>4, <1>8, <2>1
<1>11. CASE EndsRoot(resp)
  <2>1. Close(FALSE, collected, branches)
    BY <1>11 DEF Collect
  <2>2. Accountable1(agent, line) =>
          \A o \in agent.mib : HasPrefix(o, roots[root]) => Known(o, collected, branches)
    <3>. SUFFICES ASSUME Accountable1(agent, line)
                  PROVE  \A o \in agent.mib : HasPrefix(o, c.oid) => Known(o, collected, branches)
      BY <1>2
    <3>1. Finished(c, resp)
      BY <1>5, <1>11 DEF EndsRoot, Accountable1
    <3>. HIDE DEF collected, branches, c
    <3>. QED  BY <1>6, <3>1
  <2>3. WalkInv' /\ AccountInv' /\ (IsPartial(subtrees') <=> IsPartial(subtrees) \/ FALSE)
    <3>. HIDE DEF collected, branches, c
    <3>. QED  BY <1>7, <1>8, <1>9, <2>1, <2>2, CloseStep
  <2>4. refPc' # "bulk"
    BY <2>1 DEF Close, Open
  <2>5. BudgetInv'
    <3>1. /\ maxOIDs' = line'.limit
          /\ line.limit > 0 /\ IsPartial(subtrees) => Done \/ total >= line.limit
      BY <1>8 DEF BudgetInv
    <3>2. total \in Nat
      BY DEF WalkInv
    <3>3. line'.limit > 0 /\ IsPartial(subtrees') => Done' \/ total' >= line'.limit
      BY <1>1, <1>9, <1>10, <2>3, <3>1, <3>2 DEF Done
    <3>. QED  BY <1>9, <2>4, <3>1, <3>3 DEF BudgetInv
  <2>. QED  BY <1>8, <2>3, <2>5
<1>12. CASE ~EndsRoot(resp)
  <2>1. /\ found' = collected /\ skipped' = branches
        /\ cursor' = CursorAfter(c, resp) /\ refPc' = "loop" /\ root' = root /\ subtrees' = subtrees
    BY <1>12 DEF Collect
  <2>2. ~Finished(c, resp)
    BY <1>12 DEF EndsRoot
  <2>3. WalkInv'
    <3>1. cursor' \in Seq(Arc) /\ HasPrefix(cursor', roots[root])
      BY <1>2, <1>4, <2>1, <2>2
    <3>. HIDE DEF collected, branches, c
    <3>. QED  BY <1>2, <1>7, <1>8, <1>9, <2>1, <3>1 DEF WalkInv
  <2>4. AccountInv'
    <3>. SUFFICES ASSUME Accountable1(agent, line)
                  PROVE  /\ KnownTo(agent, roots[root], cursor', found', skipped')
                         /\ \A i \in 1 .. Len(subtrees') : ~subtrees'[i].partial => Accounted1(agent, subtrees'[i])
      BY <1>8, <2>1 DEF AccountInv
    <3>1. KnownTo(agent, roots[root], cursor', found', skipped')
      <4>. HIDE DEF collected, branches, c
      <4>. QED  BY <1>2, <1>6, <2>1 DEF KnownTo
    <3>. QED  BY <2>1, <3>1 DEF AccountInv
  <2>5. BudgetInv'
    <3>1. /\ maxOIDs' = line'.limit
          /\ line.limit > 0 /\ IsPartial(subtrees) => Done \/ total >= line.limit
      BY <1>8 DEF BudgetInv
    <3>2. total \in Nat
      BY DEF WalkInv
    <3>3. line'.limit > 0 /\ IsPartial(subtrees') => Done' \/ total' >= line'.limit
      BY <1>1, <1>9, <1>10, <2>1, <3>1, <3>2 DEF Done
    <3>. QED  BY <1>9, <2>1, <3>1, <3>3 DEF BudgetInv
  <2>. QED  BY <1>8, <2>3, <2>4, <2>5
<1>. QED  BY <1>11, <1>12

LEMMA WalkStep ==
  ASSUME MainInv, WalkInv, AccountInv, BudgetInv, ReferenceStep
  PROVE  /\ WalkInv' /\ AccountInv' /\ BudgetInv' /\ roots' = roots
         /\ UNCHANGED <<mainVars, vars>> /\ refPc # "done"
<1>1. UNCHANGED <<mainVars, vars>> /\ phase' = phase /\ line' = line /\ agent' = agent /\ ctx' = ctx
  BY DEF ReferenceStep, mainVars, vars, env
<1>2. line.limit \in Nat /\ total \in Nat /\ agent \in Profiles
  BY RootsType DEF MainInv, WalkInv
<1>3. found \in SUBSET agent.mib /\ skipped \in SUBSET Seq(Arc)
  BY DEF WalkInv
<1>4. ASSUME OutOfBudget(Done)
      PROVE  WalkInv' /\ AccountInv' /\ BudgetInv' /\ roots' = roots /\ refPc # "done"
  <2>1. /\ refPc = "loop" /\ Spent(Done) /\ Close(TRUE, found, skipped)
        /\ roots' = roots /\ maxOIDs' = maxOIDs /\ total' = total
    BY <1>4 DEF OutOfBudget
  <2>2. WalkInv' /\ AccountInv'
    BY <1>1, <1>2, <1>3, <2>1, CloseStep
  <2>3. refPc' # "bulk"
    BY <2>1 DEF Close, Open
  <2>4. line.limit > 0 => Done \/ total >= line.limit
    BY <2>1 DEF Spent, BudgetInv
  <2>5. BudgetInv'
    BY <1>1, <2>1, <2>3, <2>4 DEF BudgetInv, Done
  <2>. QED  BY <2>1, <2>2, <2>5
<1>5. ASSUME AskNext(Done)
      PROVE  WalkInv' /\ AccountInv' /\ BudgetInv' /\ roots' = roots /\ refPc # "done"
  <2>1. /\ refPc = "loop" /\ ~Spent(Done) /\ refPc' = "bulk"
        /\ UNCHANGED <<roots, maxOIDs, root, cursor, total, found, skipped, subtrees>>
    BY <1>5 DEF AskNext
  <2>2. WalkInv' /\ AccountInv'
    BY <1>1, <2>1 DEF WalkInv, AccountInv
  <2>3. line.limit > 0 => total < line.limit
    BY <1>2, <2>1 DEF Spent, BudgetInv
  <2>4. BudgetInv'
    BY <1>1, <2>1, <2>3 DEF BudgetInv, Done, IsPartial
  <2>. QED  BY <2>1, <2>2, <2>4
<1>6. ASSUME RequestFails(Done)
      PROVE  WalkInv' /\ AccountInv' /\ BudgetInv' /\ roots' = roots /\ refPc # "done"
  <2>1. refPc = "bulk" /\ roots' = roots /\ maxOIDs' = maxOIDs /\ total' = total
    BY <1>6 DEF RequestFails
  <2>2. CASE Done
    <3>1. Close(TRUE, found, skipped)
      BY <1>6, <2>2 DEF RequestFails
    <3>2. WalkInv' /\ AccountInv'
      BY <1>1, <1>2, <1>3, <2>1, <3>1, CloseStep
    <3>3. refPc' # "bulk"
      BY <3>1 DEF Close, Open
    <3>4. BudgetInv'
      BY <1>1, <2>1, <2>2, <3>3 DEF BudgetInv, Done
    <3>. QED  BY <2>1, <3>2, <3>4
  <2>3. CASE ~Done
    <3>1. refPc' = "error" /\ UNCHANGED <<root, cursor, found, skipped, subtrees>>
      BY <1>6, <2>3 DEF RequestFails
    <3>2. WalkInv' /\ AccountInv'
      BY <1>1, <2>1, <3>1 DEF WalkInv, AccountInv
    <3>3. BudgetInv'
      BY <1>1, <2>1, <3>1 DEF BudgetInv, Done, IsPartial
    <3>. QED  BY <2>1, <3>2, <3>3
  <2>. QED  BY <2>2, <2>3
<1>7. ASSUME refPc = "bulk", NEW resp \in Replies(agent, <<cursor>>, ReferenceRepetitions), Collect(resp)
      PROVE  WalkInv' /\ AccountInv' /\ BudgetInv' /\ roots' = roots /\ refPc # "done"
  BY <1>1, <1>7, CollectStep
<1>. QED  BY <1>1, <1>4, <1>5, <1>6, <1>7 DEF ReferenceStep

-----------------------------------------------------------------------------
(* The workload of the trials, and what is shown.                          *)

LEMMA AccountableIs ==
  /\ Accountable <=> Accountable1(agent, line)
  /\ \A st : Accounted(st) <=> Accounted1(agent, st)
<1>1. Accountable <=> Accountable1(agent, line)
  BY DEF Accountable, Accountable1, Sound, Roots, RootsOf, Group
<1>2. \A st : Accounted(st) <=> Accounted1(agent, st)
  BY DEF Accounted, Accounted1, Known, Listed
<1>. QED  BY <1>1, <1>2

\* The table made of a subtree has its root.
LEMMA SubtreeTable ==
  ASSUME NEW a, NEW st \in SubtreesOf(a)
  PROVE  FromSubtree(st) \in Table /\ FromSubtree(st).base = st.root
<1>. DEFINE cs == st.columns
            column(c) == st.root \o <<1, c>>
            V == Seq(Nat)
<1>1. st.root \in Seq(Arc) /\ cs \in Seq(Nat) /\ st.root \in V
  BY ArcSeqs DEF SubtreesOf
<1>2. \A c \in Nat : column(c) \in V
  <2>. SUFFICES ASSUME NEW c \in Nat  PROVE column(c) \in V
    OBVIOUS
  <2>1. <<1, c>> \in Seq(Nat)
    OBVIOUS
  <2>. QED  BY <1>1, <2>1
<1>3. <<st.root>> \in Seq(V)
  <2>. HIDE DEF V
  <2>. QED  BY <1>1
<1>4. Mapped(cs, LAMBDA c : st.root \o <<1, c>>) = [i \in DOMAIN cs |-> column(cs[i])]
  BY DEF Mapped
<1>5. [i \in DOMAIN cs |-> column(cs[i])] \in Seq(V)
  <2>. HIDE DEF column, V, cs
  <2>1. \A i \in 1 .. Len(cs) : column(cs[i]) \in V
    BY <1>1, <1>2
  <2>. QED  BY <1>1, <2>1
<1>. DEFINE columns == IF cs = <<>> THEN <<st.root>> ELSE Mapped(cs, LAMBDA c : st.root \o <<1, c>>)
<1>6. FromSubtree(st) = [base |-> st.root, columns |-> columns]
  BY DEF FromSubtree
<1>7. columns \in Seq(V)
  BY <1>3, <1>4, <1>5
<1>. HIDE DEF columns
<1>. QED  BY <1>1, <1>6, <1>7 DEF Table

\* What the lists of Assemble hold: the subtrees walked to their end, and the tables
\* of those that were named, and of the group, unless a walk of the root was partial.
LEMMA TablesMade ==
  ASSUME MainInv, WalkInv, phase = "reference", refPc = "done"
  PROVE  /\ Complete \in Seq(SubtreesOf(agent)) /\ Tables \in Seq(Table)
         /\ \A k \in 1 .. Len(Complete) :
              \E i \in 1 .. Len(subtrees) : Complete[k] = subtrees[i] /\ ~subtrees[i].partial
         /\ \A i \in 1 .. Len(subtrees) :
              ~subtrees[i].partial => \E k \in 1 .. Len(Complete) : Complete[k] = subtrees[i]
         /\ \A i \in 1 .. Len(RootsOf(line)) :
              i \in 1 .. Len(subtrees) /\ subtrees[i].root = RootsOf(line)[i]
         /\ \A t \in 1 .. Len(Tables) :
              /\ Tables[t].base \notin Partial
              /\ \/ \E k \in 1 .. Len(Complete) : Tables[t] = FromSubtree(Complete[k])
                 \/ \E j \in 1 .. Len(Groups[line].tables) : Tables[t] = Groups[line].tables[j]
         /\ \A k \in 1 .. Len(Complete) :
              Complete[k].root \in ToSet(line.oids) /\ Complete[k].root \notin Partial =>
                \E t \in 1 .. Len(Tables) : Tables[t] = FromSubtree(Complete[k])
<1>. DEFINE V == SubtreesOf(agent)
            whole == {i \in DOMAIN subtrees : ~subtrees[i].partial}
            of == {k \in DOMAIN Complete : Complete[k].root \in ToSet(line.oids)}
            requested == Picked(Complete, of)
            own == FromInventory(requested)
            group == Group.tables
            all == own \o group
            kept == {t \in DOMAIN all : all[t].base \notin Partial}
<1>1. /\ subtrees \in Seq(V) /\ Len(subtrees) = root - 1 /\ root = Len(roots) + 1
      /\ roots = RootsOf(line) /\ line \in Lines /\ Len(subtrees) = Len(roots)
      /\ \A i \in 1 .. Len(subtrees) : subtrees[i].root = roots[i]
  <2>1. roots \in Seq(Seq(Arc)) /\ root = Len(roots) + 1 /\ Len(roots) \in Nat
    BY DEF WalkInv
  <2>. QED  BY <2>1 DEF WalkInv, MainInv
<1>2. Complete = Picked(subtrees, whole)
  BY DEF Complete, Keep
<1>3. Tables = Picked(all, kept)
  BY DEF Tables, Keep
<1>4. Group.tables = Groups[line].tables
  BY DEF Group
<1>. HIDE DEF V
<1>5. whole \in SUBSET (1 .. Len(subtrees)) /\ Len(subtrees) \in Nat /\ DOMAIN subtrees = 1 .. Len(subtrees)
  BY <1>1
<1>6. /\ Complete \in Seq(V) /\ Complete \in Seq({subtrees[i] : i \in whole})
      /\ \A i \in whole : \E k \in 1 .. Len(Complete) : Complete[k] = subtrees[i]
  <2>. HIDE DEF whole
  <2>. QED  BY <1>1, <1>2, <1>5, PickedLists, PickedType
<1>7. \A k \in 1 .. Len(Complete) :
        \E i \in 1 .. Len(subtrees) : Complete[k] = subtrees[i] /\ ~subtrees[i].partial
  <2>. SUFFICES ASSUME NEW k \in 1 .. Len(Complete)
                PROVE  \E i \in 1 .. Len(subtrees) : Complete[k] = subtrees[i] /\ ~subtrees[i].partial
    OBVIOUS
  <2>1. Complete[k] \in {subtrees[i] : i \in whole}
    BY <1>6
  <2>. QED  BY <1>5, <2>1
<1>8. \A i \in 1 .. Len(subtrees) :
        ~subtrees[i].partial => \E k \in 1 .. Len(Complete) : Complete[k] = subtrees[i]
  <2>. SUFFICES ASSUME NEW i \in 1 .. Len(subtrees), ~subtrees[i].partial
                PROVE  \E k \in 1 .. Len(Complete) : Complete[k] = subtrees[i]
    OBVIOUS
  <2>1. i \in whole
    BY <1>5
  <2>. HIDE DEF whole
  <2>. QED  BY <1>6, <2>1
<1>9. of \in SUBSET (1 .. Len(Complete)) /\ Len(Complete) \in Nat
      /\ \A k \in 1 .. Len(Complete) : Complete[k].root \in ToSet(line.oids) => k \in of
  BY <1>6
<1>10. /\ requested \in Seq(V) /\ requested \in Seq({Complete[k] : k \in of})
       /\ \A k \in of : \E i \in 1 .. Len(requested) : requested[i] = Complete[k]
  <2>. HIDE DEF of
  <2>. QED  BY <1>6, <1>9, PickedLists, PickedType
<1>11. own = [i \in DOMAIN requested |-> FromSubtree(requested[i])]
  BY DEF FromInventory, Mapped
<1>. HIDE DEF requested, own, group
<1>12. \A i \in 1 .. Len(requested) : \E k \in 1 .. Len(Complete) : requested[i] = Complete[k]
  <2>. SUFFICES ASSUME NEW i \in 1 .. Len(requested)
                PROVE  \E k \in 1 .. Len(Complete) : requested[i] = Complete[k]
    OBVIOUS
  <2>1. requested[i] \in {Complete[k] : k \in of}
    BY <1>10
  <2>. QED  BY <1>9, <2>1
<1>13. own \in Seq(Table) /\ Len(own) = Len(requested)
       /\ \A i \in 1 .. Len(own) : own[i] = FromSubtree(requested[i])
  <2>1. Len(requested) \in Nat /\ DOMAIN requested = 1 .. Len(requested)
    BY <1>10
  <2>. DEFINE T == Table
              f(i) == FromSubtree(requested[i])
  <2>2. own = [i \in 1 .. Len(requested) |-> f(i)]
    BY <1>11, <2>1
  <2>3. \A i \in 1 .. Len(requested) : f(i) \in T
    BY <1>10, SubtreeTable DEF V
  <2>. HIDE DEF f, T
  <2>4. own \in Seq(T) /\ Len(own) = Len(requested) /\ \A i \in 1 .. Len(own) : own[i] = f(i)
    BY <2>1, <2>2, <2>3
  <2>. QED  BY <2>4 DEF f, T
<1>14. group \in Seq(Table)
  BY <1>1, <1>4, GroupType DEF group
<1>15. all \in Seq(Table) /\ Len(all) = Len(own) + Len(group)
       /\ (\A i \in 1 .. Len(own) : all[i] = own[i])
       /\ \A i \in 1 .. Len(group) : all[Len(own) + i] = group[i]
  <2>. DEFINE T == Table
  <2>1. own \in Seq(T) /\ group \in Seq(T)
    BY <1>13, <1>14
  <2>. HIDE DEF T
  <2>. QED  BY <2>1 DEF T
<1>. HIDE DEF all
<1>16. kept \in SUBSET (1 .. Len(all)) /\ Len(all) \in Nat
  BY <1>15
<1>17. /\ Tables \in Seq(Table) /\ Tables \in Seq({all[t] : t \in kept})
       /\ \A x \in kept : \E t \in 1 .. Len(Tables) : Tables[t] = all[x]
  <2>. HIDE DEF kept
  <2>. QED  BY <1>3, <1>15, <1>16, PickedLists, PickedType
<1>18. \A t \in 1 .. Len(Tables) :
         /\ Tables[t].base \notin Partial
         /\ \/ \E k \in 1 .. Len(Complete) : Tables[t] = FromSubtree(Complete[k])
            \/ \E j \in 1 .. Len(group) : Tables[t] = group[j]
  <2>. SUFFICES ASSUME NEW t \in 1 .. Len(Tables)
                PROVE  /\ Tables[t].base \notin Partial
                       /\ \/ \E k \in 1 .. Len(Complete) : Tables[t] = FromSubtree(Complete[k])
                          \/ \E j \in 1 .. Len(group) : Tables[t] = group[j]
    OBVIOUS
  <2>1. Tables[t] \in {all[x] : x \in kept}
    BY <1>17
  <2>2. PICK x \in 1 .. Len(all) : Tables[t] = all[x] /\ all[x].base \notin Partial
    BY <1>16, <2>1
  <2>3. CASE x \in 1 .. Len(own)
    <3>1. all[x] = FromSubtree(requested[x]) /\ x \in 1 .. Len(requested)
      BY <1>13, <1>15, <2>3
    <3>. QED  BY <1>12, <2>2, <3>1
  <2>4. CASE x \notin 1 .. Len(own)
    <3>. DEFINE j == x - Len(own)
    <3>1. j \in 1 .. Len(group) /\ Len(own) + j = x
      BY <1>13, <1>14, <1>15, <2>2, <2>4
    <3>. HIDE DEF j
    <3>2. all[x] = group[j]
      BY <1>15, <3>1
    <3>. QED  BY <2>2, <3>1, <3>2
  <2>. QED  BY <2>3, <2>4
<1>19. ASSUME NEW k \in 1 .. Len(Complete), Complete[k].root \in ToSet(line.oids), Complete[k].root \notin Partial
       PROVE  \E t \in 1 .. Len(Tables) : Tables[t] = FromSubtree(Complete[k])
  <2>1. k \in of
    BY <1>9, <1>19
  <2>2. PICK i \in 1 .. Len(requested) : requested[i] = Complete[k]
    <3>. HIDE DEF of
    <3>. QED  BY <1>10, <2>1
  <2>3. i \in 1 .. Len(own) /\ i \in 1 .. Len(all)
    BY <1>13, <1>14, <1>15
  <2>4. all[i] = FromSubtree(Complete[k])
    BY <1>13, <1>15, <2>2, <2>3
  <2>5. Complete[k] \in SubtreesOf(agent)
    BY <1>6 DEF V
  <2>6. FromSubtree(Complete[k]).base = Complete[k].root
    BY <2>5, SubtreeTable
  <2>7. i \in kept
    BY <1>15, <1>19, <2>3, <2>4, <2>6
  <2>. HIDE DEF kept
  <2>. QED  BY <1>17, <2>4, <2>7
<1>20. \A i \in 1 .. Len(RootsOf(line)) : i \in 1 .. Len(subtrees) /\ subtrees[i].root = RootsOf(line)[i]
  BY <1>1
<1>. QED  BY <1>4, <1>6, <1>7, <1>8, <1>17, <1>18, <1>19, <1>20 DEF V, group

\* When the walk is done every root has its subtree, so that every table of the
\* trials has one that is complete.
LEMMA TablesShape ==
  ASSUME MainInv, WalkInv, phase = "reference", refPc = "done"
  PROVE  /\ Complete \in Seq(SubtreesOf(agent)) /\ Tables \in Seq(Table)
         /\ \A k \in 1 .. Len(Complete) :
              \E i \in 1 .. Len(subtrees) : Complete[k] = subtrees[i] /\ ~subtrees[i].partial
         /\ \A t \in 1 .. Len(Tables) :
              \E k \in 1 .. Len(Complete) : Complete[k].root = Tables[t].base
<1>1. /\ Complete \in Seq(SubtreesOf(agent))
      /\ \A i \in 1 .. Len(subtrees) :
           ~subtrees[i].partial => \E k \in 1 .. Len(Complete) : Complete[k] = subtrees[i]
      /\ \A i \in 1 .. Len(RootsOf(line)) :
           i \in 1 .. Len(subtrees) /\ subtrees[i].root = RootsOf(line)[i]
      /\ \A t \in 1 .. Len(Tables) :
           /\ Tables[t].base \notin Partial
           /\ \/ \E k \in 1 .. Len(Complete) : Tables[t] = FromSubtree(Complete[k])
              \/ \E j \in 1 .. Len(Groups[line].tables) : Tables[t] = Groups[line].tables[j]
  BY TablesMade
<1>2. line \in Lines /\ DOMAIN subtrees = 1 .. Len(subtrees)
  BY DEF MainInv, WalkInv
<1>3. ASSUME NEW t \in 1 .. Len(Tables)
      PROVE  \E k \in 1 .. Len(Complete) : Complete[k].root = Tables[t].base
  <2>1. CASE \E k \in 1 .. Len(Complete) : Tables[t] = FromSubtree(Complete[k])
    <3>. DEFINE V == SubtreesOf(agent)
    <3>1. PICK k \in 1 .. Len(Complete) : Tables[t] = FromSubtree(Complete[k])
      BY <2>1
    <3>2. Complete[k] \in V
      <4>1. Complete \in Seq(V)
        BY <1>1
      <4>. HIDE DEF V
      <4>. QED  BY <4>1
    <3>. QED  BY <3>1, <3>2, SubtreeTable
  <2>2. CASE \E j \in 1 .. Len(Groups[line].tables) : Tables[t] = Groups[line].tables[j]
    <3>1. PICK i \in 1 .. Len(RootsOf(line)) : RootsOf(line)[i] = Tables[t].base
      BY <1>2, <2>2, RootsType
    <3>2. i \in 1 .. Len(subtrees) /\ subtrees[i].root = Tables[t].base
      BY <1>1, <3>1
    <3>3. ~subtrees[i].partial
      BY <1>1, <1>2, <3>2 DEF Partial
    <3>4. PICK k \in 1 .. Len(Complete) : Complete[k] = subtrees[i]
      BY <1>1, <3>2, <3>3
    <3>. QED  BY <3>2, <3>4
  <2>. QED  BY <1>1, <2>1, <2>2
<1>. QED  BY <1>3, TablesMade

\* What Assemble shows and gives to the trials.
LEMMA AssembleStep ==
  ASSUME SessionInv, Assemble
  PROVE  ShownInv' /\ GivenInv'
<1>. DEFINE V == SubtreesOf(agent)
<1>1. phase = "reference" /\ refPc = "done" /\ line' = line /\ agent' = agent
      /\ shown' = [subtrees |-> subtrees, partial |-> IsPartial(subtrees)]
  BY DEF Assemble
<1>2. given' = given \/ given' = [tables |-> Tables, scalars |-> Len(Group.scalars), reference |-> Complete]
  BY DEF Assemble
<1>3. subtrees \in Seq(V) /\ DOMAIN subtrees = 1 .. Len(subtrees)
  BY DEF SessionInv, WalkInv
<1>4. ShownInv'
  <2>1. shown'.partial \in BOOLEAN /\ shown'.subtrees \in Seq(V)
    BY <1>1, <1>3 DEF IsPartial
  <2>2. ASSUME ~IsPartial(subtrees), Accountable1(agent, line), NEW i \in 1 .. Len(subtrees)
        PROVE  Accounted1(agent, subtrees[i])
    <3>1. ~subtrees[i].partial
      BY <1>3, <2>2 DEF IsPartial
    <3>. QED  BY <2>2, <3>1 DEF SessionInv, AccountInv
  <2>. QED  BY <1>1, <2>1, <2>2 DEF ShownInv
<1>5. ASSUME given' = given  PROVE GivenInv'
  BY <1>1, <1>5 DEF SessionInv, GivenInv, GroundTruth, Accountable, Accounted, Known, Listed, Roots, Group
<1>6. ASSUME given' = [tables |-> Tables, scalars |-> Len(Group.scalars), reference |-> Complete]
      PROVE  GivenInv'
  <2>1. /\ Complete \in Seq(V) /\ Tables \in Seq(Table)
        /\ \A k \in 1 .. Len(Complete) :
             \E i \in 1 .. Len(subtrees) : Complete[k] = subtrees[i] /\ ~subtrees[i].partial
        /\ \A t \in 1 .. Len(Tables) :
             \E k \in 1 .. Len(Complete) : Complete[k].root = Tables[t].base
    BY <1>1, TablesShape DEF SessionInv
  <2>2. given'.tables = Tables /\ given'.reference = Complete
    BY <1>6
  <2>3. DOMAIN given'.tables = 1 .. Len(Tables) /\ DOMAIN given'.reference = 1 .. Len(Complete)
    BY <2>1, <2>2
  <2>4. GroundTruth'
    <3>. SUFFICES ASSUME Accountable1(agent, line), NEW t \in 1 .. Len(Tables)
                  PROVE  \E s \in 1 .. Len(Complete) :
                           Complete[s].root = Tables[t].base /\ Accounted1(agent, Complete[s])
      <4>1. Accountable' <=> Accountable1(agent', line')
        BY DEF Accountable, Accountable1, Sound, Roots, RootsOf, Group
      <4>2. GroundTruth' <=> (Accountable' =>
              \A t_1 \in DOMAIN given'.tables : \E s \in DOMAIN given'.reference :
                /\ given'.reference[s].root = given'.tables[t_1].base
                /\ Accounted1(agent', given'.reference[s]))
        BY DEF GroundTruth, Accounted, Accounted1, Known, Listed
      <4>. QED  BY <1>1, <2>2, <2>3, <4>1, <4>2
    <3>1. PICK k \in 1 .. Len(Complete) : Complete[k].root = Tables[t].base
      BY <2>1
    <3>2. PICK i \in 1 .. Len(subtrees) : Complete[k] = subtrees[i] /\ ~subtrees[i].partial
      BY <2>1
    <3>3. Accounted1(agent, subtrees[i])
      BY <3>2 DEF SessionInv, AccountInv
    <3>. QED  BY <3>1, <3>2, <3>3
  <2>. QED  BY <2>1, <2>2, <2>4 DEF GivenInv
<1>. QED  BY <1>2, <1>4, <1>5, <1>6

\* What is left alone stays as it was.
LEMMA GivenKept ==
  ASSUME GivenInv, given' = given, line' = line, agent' = agent
  PROVE  GivenInv'
BY DEF GivenInv, GroundTruth, Accountable, Accounted, Known, Listed, Roots, Group

LEMMA ShownKept ==
  ASSUME ShownInv, shown' = shown, line' = line, agent' = agent
  PROVE  ShownInv'
BY DEF ShownInv

\* The walk of --reference-tree is shown with the others.
LEMMA TreeShown ==
  ASSUME SessionInv, TreeDone
  PROVE  ShownInv'
<1>. DEFINE V == SubtreesOf(agent)
            before == shown.subtrees
            sts == before \o subtrees
<1>1. line' = line /\ agent' = agent /\ shown' = Joined(shown, subtrees)
  BY DEF TreeDone, vars, env
<1>2. before \in Seq(V) /\ subtrees \in Seq(V) /\ shown.partial \in BOOLEAN
  BY DEF SessionInv, ShownInv, WalkInv
<1>3. shown' = [subtrees |-> sts, partial |-> shown.partial \/ IsPartial(subtrees)]
  BY <1>1 DEF Joined
<1>. HIDE DEF V, before
<1>4. /\ sts \in Seq(V) /\ Len(sts) = Len(before) + Len(subtrees)
      /\ \A i \in 1 .. Len(before) : sts[i] = before[i]
      /\ \A i \in 1 .. Len(subtrees) : sts[Len(before) + i] = subtrees[i]
  BY <1>2
<1>5. ASSUME ~shown.partial, ~IsPartial(subtrees), Accountable1(agent, line), NEW i \in 1 .. Len(sts)
      PROVE  Accounted1(agent, sts[i])
  <2>1. CASE i \in 1 .. Len(before)
    BY <1>4, <1>5, <2>1 DEF SessionInv, ShownInv, before
  <2>2. CASE i \notin 1 .. Len(before)
    <3>. DEFINE j == i - Len(before)
    <3>1. j \in 1 .. Len(subtrees) /\ Len(before) + j = i /\ j \in DOMAIN subtrees
      BY <1>2, <1>4, <2>2
    <3>. HIDE DEF j
    <3>2. sts[i] = subtrees[j] /\ ~subtrees[j].partial
      <4>. HIDE DEF sts
      <4>. QED  BY <1>4, <1>5, <3>1 DEF IsPartial
    <3>. QED  BY <1>5, <3>1, <3>2 DEF SessionInv, AccountInv
  <2>. QED  BY <2>1, <2>2
<1>. HIDE DEF sts
<1>6. shown'.partial \in BOOLEAN /\ shown'.subtrees \in Seq(SubtreesOf(agent'))
  BY <1>1, <1>2, <1>3, <1>4 DEF V, IsPartial
<1>7. shown'.subtrees = sts /\ (~shown'.partial => ~shown.partial /\ ~IsPartial(subtrees))
  BY <1>2, <1>3 DEF IsPartial
<1>. QED  BY <1>1, <1>5, <1>6, <1>7 DEF ShownInv

-----------------------------------------------------------------------------
(* The steps of the trial.                                                 *)

LEMMA FunctionIsSeq ==
  ASSUME NEW n \in Nat, NEW f, f = [i \in 1 .. n |-> f[i]]
  PROVE  IsSeq(f) /\ Len(f) = n /\ (n > 0 => f # <<>>)
<1>. DEFINE V == {f[i] : i \in DOMAIN f}
<1>1. DOMAIN f = 1 .. n
  OBVIOUS
<1>2. f \in [1 .. n -> V]
  BY <1>1
<1>. HIDE DEF V
<1>3. \A g \in [1 .. n -> V] : g \in Seq(V) /\ Len(g) = n
  OBVIOUS
<1>4. f \in Seq(V) /\ Len(f) = n
  BY <1>2, <1>3
<1>5. n > 0 => f # <<>>
  BY <1>4
<1>. QED  BY <1>4, <1>5 DEF IsSeq, V

LEMMA SeqShape ==
  ASSUME NEW s, IsSeq(s)
  PROVE  Len(s) \in Nat /\ DOMAIN s = 1 .. Len(s) /\ (s # <<>> => Len(s) > 0)
<1>. DEFINE V == {s[i] : i \in DOMAIN s}
<1>1. s \in Seq(V)
  BY DEF IsSeq
<1>. HIDE DEF V
<1>. QED  BY <1>1

LEMMA EmptyIsSeq == IsSeq(<<>>)
<1>1. \A V : <<>> \in Seq(V)
  OBVIOUS
<1>. QED  BY <1>1 DEF IsSeq

\* The chunk that is opened is a list of columns.
LEMMA OpenedColumns ==
  ASSUME GivenInv, TrialInv, OpenChunk
  PROVE  IsSeq(active')
<1>. DEFINE V == Seq(Nat)
            lo == (chunk - 1) * MaxVars + 1
            hi == IF chunk * MaxVars < Len(Asked) THEN chunk * MaxVars ELSE Len(Asked)
            columns == Chunk(Asked, chunk)
<1>1. Asked \in Seq(V)
  <2>1. given.tables \in Seq(Table) /\ table \in 1 .. Len(given.tables)
    BY DEF GivenInv, TrialInv, OpenChunk
  <2>2. given.tables[table] \in Table
    <3>. DEFINE T == Table
    <3>1. given.tables \in Seq(T)
      BY <2>1
    <3>. HIDE DEF T
    <3>2. given.tables[table] \in T
      BY <2>1, <3>1
    <3>. QED  BY <3>2 DEF T
  <2>. QED  BY <2>2 DEF Table, Asked
<1>2. MaxVars \in Nat \ {0} /\ chunk \in Nat \ {0}
  BY WalkAssumption DEF TrialInv
<1>3. (chunk - 1) * MaxVars \in Nat /\ chunk * MaxVars \in Nat
  BY <1>2
<1>. HIDE DEF V
<1>4. lo \in Nat /\ lo >= 1 /\ hi \in Nat /\ hi <= Len(Asked)
  BY <1>1, <1>3
<1>5. columns = SubSeq(Asked, lo, hi)
  BY DEF Chunk
<1>. HIDE DEF lo, hi
<1>6. columns \in Seq(V)
  BY <1>1, <1>4, <1>5
<1>7. active' = [i \in DOMAIN columns |-> [oid |-> columns[i], cursor |-> columns[i]]]
  BY DEF OpenChunk
<1>. HIDE DEF columns
<1>8. Len(columns) \in Nat /\ DOMAIN columns = 1 .. Len(columns)
  BY <1>6
<1>9. active' = [i \in 1 .. Len(columns) |-> active'[i]]
  BY <1>7, <1>8
<1>. QED  BY <1>8, <1>9, FunctionIsSeq

\* An answer to the columns of a chunk is made of OIDs of the agent, and the columns
\* that go on are a list again.
LEMMA AnswerRead ==
  ASSUME MainInv, TrialInv, pc = "bulk", NEW resp \in RepliesToBulk, Answer(resp), agent' = agent
  PROVE  IsSeq(active') /\ oids' \subseteq agent'.mib
<1>. DEFINE w == Len(active)
            V == agent.mib \cup {End}
            cells == [i \in 1 .. w |-> CellsOf(resp, i, w)]
            read == UNION {Read(active[i], cells[i]) : i \in 1 .. w}
            going == {i \in 1 .. w : ~Finished(active[i], cells[i])}
            rest == InOrder(going)
            next == [i \in 1 .. w |-> [oid |-> active[i].oid, cursor |-> CursorAfter(active[i], cells[i])]]
<1>1. w \in Nat \ {0} /\ DOMAIN active = 1 .. w /\ agent \in Profiles
  BY SeqShape DEF TrialInv, MainInv
<1>2. resp \in Seq(V)
  <2>1. resp = GetBulk(agent, Cursors, Reps)
    BY DEF RepliesToBulk, Replies
  <2>2. Reps \in Nat
    BY WalkAssumption
  <2>3. Len(Cursors) = w
    <3>1. Cursors = [i \in 1 .. w |-> active[i].cursor]
      BY <1>1 DEF Cursors
    <3>2. Cursors = [i \in 1 .. w |-> Cursors[i]]
      BY <3>1
    <3>. HIDE DEF w
    <3>. QED  BY <1>1, <3>2, FunctionIsSeq
  <2>4. AnswersWith(agent, Cursors, w, Reps, Capped(Reps, agent.rows), GetBulk(agent, Cursors, Reps))
    <3>. HIDE DEF w
    <3>. QED  BY <1>1, <2>2, <2>3, BulkShape
  <2>. QED  BY <2>1, <2>4 DEF AnswersWith
<1>. HIDE DEF w, V
<1>3. \A i \in 1 .. w : Read(active[i], cells[i]) \subseteq agent.mib
  <2>. SUFFICES ASSUME NEW i \in 1 .. w  PROVE Read(active[i], cells[i]) \subseteq agent.mib
    OBVIOUS
  <2>. DEFINE c == active[i]
              cs == CellsOf(resp, i, w)
  <2>1. cells[i] = cs /\ cs \in Seq(V)
    BY <1>1, <1>2, CellsShape
  <2>. HIDE DEF c, cs, cells
  <2>2. /\ Len(cs) \in Nat /\ RowsRead(c, cs) \in 0 .. Len(cs)
        /\ \A r \in 1 .. RowsRead(c, cs) : Follows(c, cs, r)
    BY <2>1, RowsReadShape
  <2>3. \A r \in 1 .. RowsRead(c, cs) : cs[r] \in agent.mib
    BY <2>1, <2>2 DEF V, Follows, Inside
  <2>. QED  BY <2>1, <2>3 DEF Read, c
<1>4. oids' = oids \cup read
  BY DEF Answer, w
<1>5. oids' \subseteq agent'.mib
  <2>1. read \subseteq agent.mib
    <3>. HIDE DEF cells
    <3>. QED  BY <1>3
  <2>. HIDE DEF read
  <2>. QED  BY <1>4, <2>1 DEF TrialInv
<1>6. CASE resp = <<>>
  <2>1. active' = <<>>
    BY <1>6 DEF Answer
  <2>. QED  BY <1>5, <2>1, EmptyIsSeq
<1>7. CASE resp # <<>>
  <2>1. active' = [i \in DOMAIN rest |-> next[rest[i]]]
    BY <1>7 DEF Answer, w
  <2>2. going \in SUBSET (1 .. w)
    OBVIOUS
  <2>. HIDE DEF going
  <2>3. Cardinality(going) \in Nat /\ InOrder(going) \in [1 .. Cardinality(going) -> going]
    BY <1>1, <2>2, PlacesInOrder
  <2>. DEFINE n == Cardinality(going)
  <2>4. DOMAIN rest = 1 .. n /\ n \in Nat
    BY <2>3
  <2>. HIDE DEF rest, next, n
  <2>5. active' = [i \in 1 .. n |-> active'[i]]
    BY <2>1, <2>4
  <2>. QED  BY <1>5, <2>4, <2>5, FunctionIsSeq
<1>. QED  BY <1>6, <1>7

LEMMA TrialMoves ==
  ASSUME MainInv, GivenInv, TrialInv, TrialStep
  PROVE  TrialInv' /\ UNCHANGED <<given, ctx, agent, mainVars, refVars>>
<1>1. UNCHANGED <<given, ctx, agent, mainVars, refVars>>
  BY DEF TrialStep, env
<1>2. ASSUME WalkTurns  PROVE TrialInv'
  <2>1. CASE OpenChunk
    BY <1>1, <2>1, OpenedColumns DEF TrialInv, OpenChunk, result
  <2>2. CASE TableDone
    BY <1>1, <2>2 DEF TrialInv, TableDone, result
  <2>3. CASE TablesDone
    BY <1>1, <2>3 DEF TrialInv, TablesDone, result
  <2>4. CASE ChunkDone
    BY <1>1, <2>4 DEF TrialInv, ChunkDone, result
  <2>5. CASE Ask
    BY <1>1, <2>5 DEF TrialInv, Ask, result
  <2>6. CASE CutOff
    BY <1>1, <2>6 DEF TrialInv, CutOff, result
  <2>7. CASE ScalarsAnswered
    BY <1>1, <2>7 DEF TrialInv, ScalarsAnswered, result
  <2>8. CASE Finish
    BY <1>1, <2>8 DEF TrialInv, Finish, result
  <2>. QED  BY <1>2, <2>1, <2>2, <2>3, <2>4, <2>5, <2>6, <2>7, <2>8 DEF WalkTurns
<1>3. ASSUME NEW e, BulkFails(e)  PROVE TrialInv'
  BY <1>1, <1>3 DEF TrialInv, BulkFails, result
<1>4. ASSUME NEW e, ScalarsFail(e)  PROVE TrialInv'
  BY <1>1, <1>4 DEF TrialInv, ScalarsFail, result
<1>5. ASSUME pc = "bulk", NEW resp \in RepliesToBulk, Answer(resp)  PROVE TrialInv'
  <2>1. IsSeq(active') /\ oids' \subseteq agent'.mib
    BY <1>1, <1>5, AnswerRead
  <2>2. table' = table /\ chunk' = chunk /\ pc' = "loop"
    BY <1>5 DEF Answer
  <2>. QED  BY <2>1, <2>2 DEF TrialInv
<1>. QED  BY <1>1, <1>2, <1>3, <1>4, <1>5 DEF TrialStep

-----------------------------------------------------------------------------
(* The run.                                                                *)

LEMMA SessionInit == Init => SessionInv
<1>. SUFFICES ASSUME Init  PROVE SessionInv
  OBVIOUS
<1>1. /\ phase = "preflight" /\ exit = NoExit /\ line \in Lines /\ agent \in Profiles /\ ctx = "live"
      /\ shown = [subtrees |-> <<>>, partial |-> FALSE] /\ Fresh
      /\ given = [tables |-> <<>>, scalars |-> 0, reference |-> <<>>]
      /\ roots = <<>> /\ maxOIDs = 0 /\ refPc = "done" /\ root = 1 /\ cursor = <<>>
      /\ total = 0 /\ found = {} /\ skipped = {} /\ subtrees = <<>>
  BY DEF Init
<1>2. /\ \A V : <<>> \in Seq(V)
      /\ Len(<<>>) = 0 /\ DOMAIN <<>> = {} /\ 1 .. 0 = {}
  OBVIOUS
<1>3. MainInv
  BY <1>1, <1>2 DEF MainInv, NoExit
<1>4. WalkInv
  <2>1. roots \in Seq(Seq(Arc)) /\ subtrees \in Seq(SubtreesOf(agent))
    BY <1>1, <1>2
  <2>2. root \in 1 .. Len(roots) + 1 /\ root = Len(roots) + 1 /\ Len(subtrees) = root - 1 /\ root - 1 = 0
    BY <1>1, <1>2
  <2>. QED  BY <1>1, <1>2, <2>1, <2>2 DEF WalkInv
<1>5. AccountInv
  BY <1>1, <1>2 DEF AccountInv
<1>6. BudgetInv
  <2>1. line.limit \in Nat /\ ReferenceRepetitions \in Nat \ {0}
    BY <1>1, RootsType, RepetitionsAssumption
  <2>2. ~IsPartial(subtrees)
    BY <1>1, <1>2 DEF IsPartial
  <2>. QED  BY <1>1, <2>1, <2>2 DEF BudgetInv
<1>7. ShownInv
  BY <1>1, <1>2 DEF ShownInv
<1>8. GivenInv
  BY <1>1, <1>2 DEF GivenInv, GroundTruth
<1>9. TrialInv
  BY <1>1, EmptyIsSeq DEF TrialInv, Fresh
<1>. QED  BY <1>3, <1>4, <1>5, <1>6, <1>7, <1>8, <1>9 DEF SessionInv

\* What a step of the run that leaves the reference walk alone keeps of it.
LEMMA WalkKept ==
  ASSUME WalkInv, AccountInv, BudgetInv, UNCHANGED refVars, line' = line, agent' = agent,
         Done => Done'
  PROVE  WalkInv' /\ AccountInv' /\ BudgetInv'
<1>1. UNCHANGED <<roots, maxOIDs, refPc, root, cursor, total, found, skipped, subtrees>>
  BY DEF refVars
<1>2. WalkInv' /\ AccountInv'
  BY <1>1 DEF WalkInv, AccountInv
<1>3. BudgetInv'
  BY <1>1 DEF BudgetInv, IsPartial
<1>. QED  BY <1>2, <1>3

LEMMA TrialKept ==
  ASSUME TrialInv, UNCHANGED walkVars, agent' = agent
  PROVE  TrialInv'
BY DEF TrialInv, walkVars, result, IsSeq

\* The run exits.
LEMMA ExitKept ==
  ASSUME SessionInv, NEW code \in {0, 1}, Exits(code)
  PROVE  SessionInv'
<1>1. /\ phase' = "exit" /\ exit' = code /\ UNCHANGED <<line, shown, refVars, vars>>
      /\ UNCHANGED <<roots, refPc>>
  BY DEF Exits, Exit, refVars
<1>2. UNCHANGED <<walkVars, given, ctx, agent>>
  BY <1>1 DEF vars, env
<1>3. MainInv'
  BY <1>1, <1>2 DEF SessionInv, MainInv, NoExit
<1>4. WalkInv' /\ AccountInv' /\ BudgetInv'
  BY <1>1, <1>2, WalkKept DEF SessionInv, Done
<1>5. ShownInv' /\ GivenInv' /\ TrialInv'
  BY <1>1, <1>2, ShownKept, GivenKept, TrialKept DEF SessionInv
<1>. QED  BY <1>3, <1>4, <1>5 DEF SessionInv

LEMMA PreflightStep ==
  ASSUME SessionInv, Preflight
  PROVE  SessionInv'
<1>1. /\ phase' = "reference" /\ StartWalk(Roots, line.limit)
      /\ UNCHANGED <<line, shown, exit, vars>> /\ UNCHANGED <<walkVars, given, ctx, agent>>
  BY DEF Preflight, vars, env
<1>2. line \in Lines /\ agent \in Profiles /\ Roots = RootsOf(line)
  BY DEF SessionInv, MainInv, Roots, RootsOf, Group
<1>3. /\ Roots \in Seq(Seq(Arc)) /\ DOMAIN Roots = 1 .. Len(Roots)
      /\ \A i \in DOMAIN Roots : Roots[i] \in ToSet(Append(RootsOf(line), line.tree))
  <2>1. Roots \in Seq(Seq(Arc))
    BY <1>2, RootsType
  <2>2. DOMAIN Roots = 1 .. Len(Roots)
    BY <2>1
  <2>. QED  BY <1>2, <2>1, <2>2, RootsType
<1>4. WalkInv' /\ AccountInv' /\ BudgetInv'
  BY <1>1, <1>2, <1>3, StartStep
<1>5. roots' = Roots
  BY <1>1 DEF StartWalk
<1>6. MainInv'
  BY <1>1, <1>2, <1>3, <1>5 DEF SessionInv, MainInv, Preflight
<1>7. ShownInv' /\ GivenInv' /\ TrialInv'
  BY <1>1, ShownKept, GivenKept, TrialKept DEF SessionInv
<1>. QED  BY <1>4, <1>6, <1>7 DEF SessionInv

LEMMA ReferenceKept ==
  ASSUME SessionInv, ReferenceStep
  PROVE  SessionInv'
<1>1. /\ WalkInv' /\ AccountInv' /\ BudgetInv' /\ roots' = roots
      /\ UNCHANGED <<mainVars, vars>>
  BY WalkStep DEF SessionInv
<1>2. /\ UNCHANGED <<phase, line, shown, exit, walkVars, given, ctx, agent>>
      /\ phase \in {"reference", "tree"}
  BY <1>1 DEF mainVars, vars, env, ReferenceStep
<1>3. MainInv'
  BY <1>1, <1>2 DEF SessionInv, MainInv
<1>4. ShownInv' /\ GivenInv' /\ TrialInv'
  BY <1>2, ShownKept, GivenKept, TrialKept DEF SessionInv
<1>. QED  BY <1>1, <1>3, <1>4 DEF SessionInv

LEMMA AssembleKept ==
  ASSUME SessionInv, Assemble
  PROVE  SessionInv'
<1>1. UNCHANGED <<line, walkVars, ctx, agent>> /\ phase = "reference" /\ refPc = "done"
  BY DEF Assemble
<1>2. ShownInv' /\ GivenInv'
  BY AssembleStep
<1>3. TrialInv'
  BY <1>1, TrialKept DEF SessionInv
<1>4. line \in Lines /\ agent \in Profiles
  BY DEF SessionInv, MainInv
<1>5. ASSUME UNCHANGED refVars,
             \/ phase' = "trial" /\ exit' = exit
             \/ phase' = "exit" /\ exit' = 1
      PROVE  MainInv' /\ WalkInv' /\ AccountInv' /\ BudgetInv'
  <2>1. UNCHANGED <<roots, refPc>>
    BY <1>5 DEF refVars
  <2>2. MainInv'
    BY <1>1, <1>5, <2>1 DEF SessionInv, MainInv, NoExit
  <2>3. WalkInv' /\ AccountInv' /\ BudgetInv'
    BY <1>1, <1>5, WalkKept DEF SessionInv, Done
  <2>. QED  BY <2>2, <2>3
<1>6. ASSUME phase' = "tree", exit' = exit, StartWalk(<<line.tree>>, line.limit)
      PROVE  MainInv' /\ WalkInv' /\ AccountInv' /\ BudgetInv'
  <2>1. line.tree \in Seq(Arc) /\ line.tree \in ToSet(Append(RootsOf(line), line.tree))
    BY <1>4, RootsType
  <2>. DEFINE rs == <<line.tree>>
  <2>2. /\ rs \in Seq(Seq(Arc)) /\ DOMAIN rs = {1}
        /\ \A i \in DOMAIN rs : rs[i] \in ToSet(Append(RootsOf(line), line.tree))
    BY <2>1
  <2>3. StartWalk(rs, line.limit) /\ roots' = rs
    BY <1>6 DEF StartWalk
  <2>. HIDE DEF rs
  <2>4. WalkInv' /\ AccountInv' /\ BudgetInv'
    BY <1>1, <1>4, <2>2, <2>3, StartStep
  <2>5. MainInv'
    BY <1>1, <1>6, <2>2, <2>3 DEF SessionInv, MainInv
  <2>. QED  BY <2>4, <2>5
<1>7. \/ UNCHANGED refVars /\ phase' = "exit" /\ exit' = 1
      \/ UNCHANGED refVars /\ phase' = "trial" /\ exit' = exit
      \/ phase' = "tree" /\ exit' = exit /\ StartWalk(<<line.tree>>, line.limit)
  BY DEF Assemble, Exit
<1>8. MainInv' /\ WalkInv' /\ AccountInv' /\ BudgetInv'
  BY <1>5, <1>6, <1>7
<1>. QED  BY <1>2, <1>3, <1>8 DEF SessionInv

LEMMA TreeKept ==
  ASSUME SessionInv, TreeDone
  PROVE  SessionInv'
<1>1. /\ phase' = "trial" /\ phase = "tree" /\ refPc = "done" /\ UNCHANGED <<line, exit, refVars, vars>>
      /\ UNCHANGED <<roots, refPc, walkVars, given, ctx, agent>>
  BY DEF TreeDone, refVars, vars, env
<1>2. MainInv'
  BY <1>1 DEF SessionInv, MainInv
<1>3. WalkInv' /\ AccountInv' /\ BudgetInv'
  BY <1>1, WalkKept DEF SessionInv, Done
<1>4. ShownInv'
  BY TreeShown
<1>5. GivenInv' /\ TrialInv'
  BY <1>1, GivenKept, TrialKept DEF SessionInv
<1>. QED  BY <1>2, <1>3, <1>4, <1>5 DEF SessionInv

LEMMA TrialStepKept ==
  ASSUME SessionInv, TrialStep
  PROVE  SessionInv'
<1>1. TrialInv' /\ UNCHANGED <<given, ctx, agent, mainVars, refVars>>
  BY TrialMoves DEF SessionInv
<1>2. UNCHANGED <<phase, line, shown, exit, roots, refPc>>
  BY <1>1 DEF mainVars, refVars
<1>3. MainInv'
  BY <1>1, <1>2 DEF SessionInv, MainInv
<1>4. WalkInv' /\ AccountInv' /\ BudgetInv'
  BY <1>1, <1>2, WalkKept DEF SessionInv, Done
<1>5. ShownInv' /\ GivenInv'
  BY <1>1, <1>2, ShownKept, GivenKept DEF SessionInv
<1>. QED  BY <1>1, <1>3, <1>4, <1>5 DEF SessionInv

LEMMA DeadlineKept ==
  ASSUME SessionInv, Deadline
  PROVE  SessionInv'
<1>1. ctx' = "done" /\ UNCHANGED <<walkVars, given, agent, mainVars, refVars>>
  BY DEF Deadline, ContextDone
<1>2. UNCHANGED <<phase, line, shown, exit, roots, refPc>>
  BY <1>1 DEF mainVars, refVars
<1>3. MainInv'
  BY <1>1, <1>2 DEF SessionInv, MainInv
<1>4. WalkInv' /\ AccountInv' /\ BudgetInv'
  BY <1>1, <1>2, WalkKept DEF SessionInv, Done
<1>5. ShownInv' /\ GivenInv' /\ TrialInv'
  BY <1>1, <1>2, ShownKept, GivenKept, TrialKept DEF SessionInv
<1>. QED  BY <1>3, <1>4, <1>5 DEF SessionInv

LEMMA StutterKept ==
  ASSUME SessionInv, UNCHANGED sessionVars
  PROVE  SessionInv'
<1>1. UNCHANGED <<walkVars, given, ctx, agent, mainVars, refVars>>
  BY DEF sessionVars, vars, env
<1>2. UNCHANGED <<phase, line, shown, exit, roots, refPc>>
  BY <1>1 DEF mainVars, refVars
<1>3. MainInv'
  BY <1>1, <1>2 DEF SessionInv, MainInv
<1>4. WalkInv' /\ AccountInv' /\ BudgetInv'
  BY <1>1, <1>2, WalkKept DEF SessionInv, Done
<1>5. ShownInv' /\ GivenInv' /\ TrialInv'
  BY <1>1, <1>2, ShownKept, GivenKept, TrialKept DEF SessionInv
<1>. QED  BY <1>3, <1>4, <1>5 DEF SessionInv

LEMMA SessionStep == SessionInv /\ [Next]_sessionVars => SessionInv'
<1>. SUFFICES ASSUME SessionInv, [Next]_sessionVars  PROVE SessionInv'
  OBVIOUS
<1>1. CASE Preflight
  BY <1>1, PreflightStep
<1>2. CASE PreflightFails
  BY <1>2, ExitKept DEF PreflightFails
<1>3. CASE ReferenceStep
  BY <1>3, ReferenceKept
<1>4. CASE ReferenceFails
  BY <1>4, ExitKept DEF ReferenceFails
<1>5. CASE Assemble
  BY <1>5, AssembleKept
<1>6. CASE TreeDone
  BY <1>6, TreeKept
<1>7. CASE TrialStep
  BY <1>7, TrialStepKept
<1>8. CASE Report
  BY <1>8, ExitKept DEF Report
<1>9. CASE Deadline
  BY <1>9, DeadlineKept
<1>10. CASE Exited
  BY <1>10, StutterKept DEF Exited
<1>11. CASE UNCHANGED sessionVars
  BY <1>11, StutterKept
<1>. QED  BY <1>1, <1>2, <1>3, <1>4, <1>5, <1>6, <1>7, <1>8, <1>9, <1>10, <1>11 DEF Next, Step

\* The invariant holds throughout a run.
LEMMA SessionInvariant == Spec => []SessionInv
<1>1. Init => SessionInv
  BY SessionInit
<1>2. SessionInv /\ [Next]_sessionVars => SessionInv'
  BY SessionStep
<1>. QED  BY <1>1, <1>2, PTL DEF Spec

\* Every variable keeps its type: the OIDs found and read are OIDs of the agent,
\* and while the reference walk runs it is at or under one of its roots.
THEOREM TypeHolds == Spec => []TypeOK
<1>1. SessionInv => TypeOK
  <2>. SUFFICES ASSUME SessionInv  PROVE TypeOK
    OBVIOUS
  <2>1. refPc # "done" => root \in DOMAIN roots /\ HasPrefix(cursor, roots[root])
    <3>1. roots \in Seq(Seq(Arc)) /\ root \in 1 .. Len(roots) + 1
          /\ (refPc = "done" <=> root = Len(roots) + 1)
      BY DEF SessionInv, WalkInv
    <3>2. DOMAIN roots = 1 .. Len(roots)
      BY <3>1
    <3>. QED  BY <3>1, <3>2 DEF SessionInv, WalkInv
  <2>. QED  BY <2>1 DEF SessionInv, MainInv, WalkInv, ShownInv, TrialInv, TypeOK
<1>. QED  BY <1>1, SessionInvariant, PTL

\* main.run hands the trials no table without a ground truth: each has a subtree
\* of the reference walk that was walked to its end, and in which every row of the
\* agent was read or is listed as skipped.
THEOREM GroundTruthHolds == Spec => []GroundTruth
<1>1. SessionInv => GroundTruth
  BY DEF SessionInv, GivenInv
<1>. QED  BY <1>1, SessionInvariant, PTL

\* An Inventory that is not marked partial leaves out no row of the agent that it
\* does not list, whatever the agent answered and whenever the run was interrupted.
THEOREM ShownIsHonestHolds == Spec => []ShownIsHonest
<1>1. SessionInv => ShownIsHonest
  <2>. SUFFICES ASSUME SessionInv, ~shown.partial, Accountable, NEW i \in DOMAIN shown.subtrees
                PROVE  Accounted(shown.subtrees[i])
    BY DEF ShownIsHonest
  <2>1. DOMAIN shown.subtrees = 1 .. Len(shown.subtrees)
    BY DEF SessionInv, ShownInv
  <2>2. Accountable1(agent, line)
    BY AccountableIs
  <2>3. Accounted1(agent, shown.subtrees[i])
    BY <2>1, <2>2 DEF SessionInv, ShownInv
  <2>. QED  BY <2>3, AccountableIs
<1>. QED  BY <1>1, SessionInvariant, PTL

\* --max-oids is overshot by less than one response, and no subtree of the walk is
\* cut short but for it or for the context.
THEOREM BudgetIsSpentHolds == Spec => []BudgetIsSpent
<1>1. SessionInv => BudgetIsSpent
  BY DEF SessionInv, BudgetInv, BudgetIsSpent
<1>. QED  BY <1>1, SessionInvariant, PTL

-----------------------------------------------------------------------------
(* Two walks of one agent.  A walk is the set of OIDs it comes by: it is   *)
(* closed under what a walk does at an OID, and so holds all that every    *)
(* walk of that root comes by.                                             *)

Under(r) == {o \in Seq(Arc) : HasPrefix(o, r)}

\* The agent's answer at an OID is in the root, and is a row read there.
Answered(a, r, at) == NextOID(a, at) # End /\ HasPrefix(NextOID(a, at), r)
ReadAt(a, r, at) == Answered(a, r, at) /\ Less(at, NextOID(a, at))

\* From at the walk goes on to a row, or behind a skip, unless its root ends.
GoesOn(a, r, at, V) ==
  /\ ReadAt(a, r, at) => NextOID(a, at) \in V
  /\ Answered(a, r, at) /\ ~ReadAt(a, r, at) /\ HasPrefix(SkipTarget(at, NextOID(a, at)), r)
       => SkipTarget(at, NextOID(a, at)) \in V

\* A walk of r from its root to its end; one that is at cur, with the rows got.
WalkOf(a, r, V) == V \subseteq Under(r) /\ r \in V /\ \A at \in V : GoesOn(a, r, at, V)
WalkTo(a, r, cur, V, got) ==
  /\ V \subseteq Under(r) /\ r \in V /\ cur \in V
  /\ \A at \in V : at # cur =>
       GoesOn(a, r, at, V) /\ (ReadAt(a, r, at) => NextOID(a, at) \in got)
Began(a, r, cur, got) == \E V : WalkTo(a, r, cur, V, got)
Whole(a, r, got) ==
  \E V : WalkOf(a, r, V) /\ \A at \in V : ReadAt(a, r, at) => NextOID(a, at) \in got

\* Every walk of r comes by the OID; reads the row.
SureAt(a, r, at) == \A V : WalkOf(a, r, V) => at \in V
Sure(a, r, o) == \A V : WalkOf(a, r, V) => \E at \in V : ReadAt(a, r, at) /\ o = NextOID(a, at)

LEMMA SureIsRead ==
  ASSUME NEW a, NEW r, NEW o, Sure(a, r, o), NEW got, Whole(a, r, got)
  PROVE  o \in got
<1>1. PICK V : WalkOf(a, r, V) /\ \A at \in V : ReadAt(a, r, at) => NextOID(a, at) \in got
  BY DEF Whole
<1>. QED  BY <1>1 DEF Sure

LEMMA SureIsAt ==
  ASSUME NEW a, NEW r, NEW o, Sure(a, r, o)
  PROVE  SureAt(a, r, o)
<1>. SUFFICES ASSUME NEW V, WalkOf(a, r, V)  PROVE o \in V
  BY DEF SureAt
<1>1. PICK at \in V : ReadAt(a, r, at) /\ o = NextOID(a, at)
  BY DEF Sure
<1>. QED  BY <1>1 DEF WalkOf, GoesOn

LEMMA RootIsSure ==
  ASSUME NEW a, NEW r
  PROVE  SureAt(a, r, r)
BY DEF SureAt, WalkOf

\* What was read stays read.
LEMMA WholeKept ==
  ASSUME NEW a, NEW r, NEW got, NEW got1, got \subseteq got1
  PROVE  Whole(a, r, got) => Whole(a, r, got1)
BY DEF Whole

\* A walk at its root.
LEMMA WalkBegins ==
  ASSUME NEW a, NEW r \in Seq(Arc), NEW got
  PROVE  Began(a, r, r, got)
<1>1. HasPrefix(r, r)
  BY PrefixesCompare
<1>2. WalkTo(a, r, r, {r}, got)
  BY <1>1 DEF WalkTo, Under
<1>. QED  BY <1>2 DEF Began

-----------------------------------------------------------------------------
(* Prefixes.                                                               *)

LEMMA PrefixArcs ==
  ASSUME NEW o \in Seq(Arc), NEW p \in Seq(Arc)
  PROVE  HasPrefix(o, p) <=> Len(p) <= Len(o) /\ \A i \in 1 .. Len(p) : p[i] = o[i]
BY PrefixAgrees DEF Agree

LEMMA SameArcs ==
  ASSUME NEW o \in Seq(Arc), NEW p \in Seq(Arc), Len(o) = Len(p), \A i \in 1 .. Len(p) : p[i] = o[i]
  PROVE  o = p
<1>1. o \in [1 .. Len(p) -> Arc] /\ p \in [1 .. Len(p) -> Arc]
  OBVIOUS
<1>. QED  BY <1>1

LEMMA PrefixOfPrefix ==
  ASSUME NEW o \in Seq(Arc), NEW q \in Seq(Arc), NEW p \in Seq(Arc), HasPrefix(o, q), HasPrefix(q, p)
  PROVE  HasPrefix(o, p)
<1>1. Len(q) <= Len(o) /\ Len(p) <= Len(q) /\ (\A i \in 1 .. Len(q) : q[i] = o[i])
      /\ \A i \in 1 .. Len(p) : p[i] = q[i]
  BY PrefixArcs
<1>2. \A i \in 1 .. Len(p) : i \in 1 .. Len(q)
  BY <1>1
<1>. QED  BY <1>1, <1>2, PrefixArcs

\* A prefix comes before what lies under it.
LEMMA PrefixIsFirst ==
  ASSUME NEW o \in Seq(Arc), NEW p \in Seq(Arc), HasPrefix(o, p)
  PROVE  /\ o = p \/ Less(p, o)
         /\ ~Less(o, p)
<1>1. Len(p) <= Len(o) /\ \A i \in 1 .. Len(p) : p[i] = o[i]
  BY PrefixArcs
<1>2. CASE Len(p) = Len(o)
  BY <1>1, <1>2, SameArcs, LessIsStrict
<1>3. CASE Len(p) < Len(o)
  <2>1. Below(p, o, Len(p)) /\ Len(p) \in Nat
    BY <1>1, <1>3 DEF Below, Agree
  <2>2. Less(p, o)
    BY <2>1, LessIsBelow
  <2>. QED  BY <2>2, LessIsStrict
<1>. QED  BY <1>1, <1>2, <1>3

\* A skip that stays within a column was at the column, or its request and its
\* answer were in it.
LEMMA SkipStays ==
  ASSUME NEW request \in Seq(Arc), NEW answer \in Seq(Arc), request # <<>>, NEW c \in Seq(Arc),
         HasPrefix(SkipTarget(request, answer), c)
  PROVE  SkipTarget(request, answer) = c \/ (HasPrefix(request, c) /\ HasPrefix(answer, c))
<1>. DEFINE d == SkipDepth(request, answer)
            t == SkipTarget(request, answer)
<1>1. /\ d \in 1 .. Len(request) /\ t \in Seq(Arc) /\ Len(t) = d
      /\ \A i \in 1 .. d - 1 : t[i] = request[i]
  BY SkipListed
<1>2. /\ Len(c) \in Nat /\ Len(c) <= d /\ \A i \in 1 .. Len(c) : c[i] = t[i]
  BY <1>1, PrefixArcs
<1>3. CASE Len(c) = d
  BY <1>1, <1>2, <1>3, SameArcs
<1>4. CASE Len(c) < d
  <2>1. \A i \in 1 .. Len(c) : i \in 1 .. d - 1
    BY <1>1, <1>2, <1>4
  <2>2. HasPrefix(request, c)
    <3>. HIDE DEF d, t
    <3>1. Len(c) <= Len(request) /\ \A i \in 1 .. Len(c) : c[i] = request[i]
      BY <1>1, <1>2, <1>4, <2>1
    <3>. QED  BY <3>1, PrefixArcs
  <2>3. HasPrefix(answer, c)
    <3>. DEFINE s == Shared(request, answer)
    <3>1. /\ s \in Nat /\ s <= Len(answer) /\ (\A i \in 1 .. s : request[i] = answer[i])
          /\ d = IF s = 0 THEN 1 ELSE s
      BY SharedApart DEF Apart, Agree, SkipDepth
    <3>. HIDE DEF d, t, s
    <3>2. Len(c) <= s
      BY <1>2, <1>4, <3>1
    <3>3. \A i \in 1 .. Len(c) : i \in 1 .. s
      BY <1>2, <3>1, <3>2
    <3>4. Len(c) <= Len(answer) /\ \A i \in 1 .. Len(c) : c[i] = answer[i]
      BY <1>1, <1>2, <2>1, <3>1, <3>2, <3>3
    <3>. QED  BY <3>4, PrefixArcs
  <2>. QED  BY <2>2, <2>3
<1>. QED  BY <1>1, <1>2, <1>3, <1>4

-----------------------------------------------------------------------------
(* One response of a walk.                                                 *)

\* The varbinds that answer one cursor follow it one by one.
AnswersOne(a, from, cells) ==
  /\ cells \in Seq(a.mib \cup {End})
  /\ \A r \in 1 .. Len(cells) :
       /\ r = 1 => cells[r] = NextOID(a, from)
       /\ r > 1 /\ cells[r - 1] # End => cells[r] = NextOID(a, cells[r - 1])

\* Where the walk stands after k rows of a response.
Stop(c, cells, k) == CursorAt(c, cells, k + 1)

LEMMA Stops ==
  ASSUME NEW a \in Profiles, NEW c, IsColumn(c), NEW cells, AnswersOne(a, c.cursor, cells)
  PROVE  /\ Len(cells) \in Nat /\ RowsRead(c, cells) \in Nat /\ RowsRead(c, cells) <= Len(cells)
         /\ Stop(c, cells, 0) = c.cursor
         /\ \A k \in 0 .. RowsRead(c, cells) :
              /\ Stop(c, cells, k) \in Under(c.oid)
              /\ k < RowsRead(c, cells) => /\ ReadAt(a, c.oid, Stop(c, cells, k))
                                           /\ NextOID(a, Stop(c, cells, k)) = Stop(c, cells, k + 1)
         /\ \A o : o \in Read(c, cells) <=> \E k \in 1 .. RowsRead(c, cells) : o = Stop(c, cells, k)
<1>. DEFINE n == RowsRead(c, cells)
<1>1. cells \in Seq(a.mib \cup {End}) /\ Len(cells) \in Nat
  BY DEF AnswersOne
<1>2. n \in 0 .. Len(cells) /\ \A r \in 1 .. n : Follows(c, cells, r)
  BY <1>1, RowsReadShape
<1>3. Stop(c, cells, 0) = c.cursor
  BY DEF Stop, CursorAt
<1>4. \A k \in 1 .. n : Stop(c, cells, k) = cells[k]
  <2>. SUFFICES ASSUME NEW k \in 1 .. n  PROVE Stop(c, cells, k) = cells[k]
    OBVIOUS
  <2>1. k + 1 # 1 /\ (k + 1) - 1 = k
    BY <1>2
  <2>. QED  BY <2>1 DEF Stop, CursorAt
<1>5. \A k \in 1 .. n : /\ cells[k] # End /\ HasPrefix(cells[k], c.oid)
                        /\ Less(CursorAt(c, cells, k), cells[k])
  BY <1>2 DEF Follows, Inside
<1>6. \A k \in 1 .. n : cells[k] \in Under(c.oid)
  <2>. SUFFICES ASSUME NEW k \in 1 .. n  PROVE cells[k] \in Under(c.oid)
    OBVIOUS
  <2>1. k \in 1 .. Len(cells)
    BY <1>1, <1>2
  <2>2. cells[k] \in a.mib
    BY <1>1, <1>5, <2>1
  <2>. QED  BY <1>5, <2>2, ProfileShape DEF Under
<1>7. \A k \in 0 .. n : Stop(c, cells, k) \in Under(c.oid)
  <2>1. c.cursor \in Under(c.oid)
    BY DEF Under, IsColumn
  <2>2. \A k \in 0 .. n : k = 0 \/ k \in 1 .. n
    BY <1>2
  <2>. HIDE DEF n
  <2>. QED  BY <1>3, <1>4, <1>6, <2>1, <2>2
<1>8. ASSUME NEW k \in 0 .. n, k < n
      PROVE  /\ ReadAt(a, c.oid, Stop(c, cells, k))
             /\ NextOID(a, Stop(c, cells, k)) = Stop(c, cells, k + 1)
  <2>1. k + 1 \in 1 .. n /\ k + 1 \in 1 .. Len(cells) /\ (k = 0 \/ (k \in 1 .. n /\ k + 1 > 1 /\ (k + 1) - 1 = k))
    BY <1>1, <1>2, <1>8
  <2>. HIDE DEF n
  <2>2. Stop(c, cells, k + 1) = cells[k + 1]
    BY <1>4, <2>1
  <2>3. Less(Stop(c, cells, k), cells[k + 1])
    BY <1>5, <2>1 DEF Stop
  <2>4. NextOID(a, Stop(c, cells, k)) = cells[k + 1]
    <3>1. CASE k = 0
      <4>1. Stop(c, cells, k) = c.cursor /\ k + 1 = 1
        BY <1>3, <3>1
      <4>. QED  BY <2>1, <4>1 DEF AnswersOne
    <3>2. CASE k \in 1 .. n
      <4>1. Stop(c, cells, k) = cells[k] /\ cells[k] # End /\ k + 1 > 1 /\ (k + 1) - 1 = k
        BY <1>2, <1>4, <1>5, <3>2
      <4>. QED  BY <2>1, <4>1 DEF AnswersOne
    <3>. QED  BY <2>1, <3>1, <3>2
  <2>. QED  BY <1>5, <2>1, <2>2, <2>3, <2>4 DEF ReadAt, Answered
<1>9. \A o : o \in Read(c, cells) <=> \E k \in 1 .. n : o = Stop(c, cells, k)
  <2>1. Read(c, cells) = {cells[r] : r \in 1 .. n}
    BY DEF Read
  <2>. HIDE DEF n
  <2>. QED  BY <1>4, <2>1
<1>. QED  BY <1>1, <1>2, <1>3, <1>7, <1>8, <1>9

\* What the walk does where it stands after the last row of a response.
LEMMA LastStop ==
  ASSUME NEW a \in Profiles, NEW c, IsColumn(c), NEW cells, AnswersOne(a, c.cursor, cells)
  PROVE  LET at == Stop(c, cells, RowsRead(c, cells))
         IN /\ Misordered(c, cells) =>
                 /\ Answered(a, c.oid, at) /\ ~ReadAt(a, c.oid, at)
                 /\ at # <<>> /\ NextOID(a, at) \in Seq(Arc)
                 /\ CursorAfter(c, cells) = SkipTarget(at, NextOID(a, at))
                 /\ Finished(c, cells) <=> ~HasPrefix(SkipTarget(at, NextOID(a, at)), c.oid)
            /\ ~Misordered(c, cells) =>
                 /\ CursorAfter(c, cells) = at
                 /\ Finished(c, cells) <=> RowsRead(c, cells) < Len(cells)
                 /\ Finished(c, cells) => ~Answered(a, c.oid, at)
<1>. DEFINE n == RowsRead(c, cells)
            at == Stop(c, cells, n)
            ans == cells[n + 1]
<1>1. cells \in Seq(a.mib \cup {End}) /\ Len(cells) \in Nat
  BY DEF AnswersOne
<1>2. n \in 0 .. Len(cells) /\ (\A r \in 1 .. n : Follows(c, cells, r))
      /\ (n < Len(cells) => ~Follows(c, cells, n + 1))
  BY <1>1, RowsReadShape
<1>3. at = CursorAt(c, cells, n + 1)
  BY DEF Stop
<1>4. n < Len(cells) => ans = NextOID(a, at)
  <2>. SUFFICES ASSUME n < Len(cells)  PROVE ans = NextOID(a, at)
    OBVIOUS
  <2>1. n + 1 \in 1 .. Len(cells)
    BY <1>1, <1>2
  <2>2. CASE n = 0
    <3>1. at = c.cursor /\ n + 1 = 1
      BY <1>3, <2>2 DEF CursorAt
    <3>. HIDE DEF n, at
    <3>. QED  BY <2>1, <3>1 DEF AnswersOne
  <2>3. CASE n # 0
    <3>1. n \in 1 .. n /\ n + 1 > 1 /\ (n + 1) - 1 = n /\ n + 1 # 1
      BY <1>2, <2>3
    <3>2. at = cells[n]
      BY <1>3, <3>1 DEF CursorAt
    <3>3. cells[n] # End
      BY <1>2, <3>1 DEF Follows, Inside
    <3>. HIDE DEF n, at
    <3>. QED  BY <2>1, <3>1, <3>2, <3>3 DEF AnswersOne
  <2>. QED  BY <2>2, <2>3
<1>5. a.mib \cup {End} \subseteq Seq(Arc)
  BY ProfileShape, EndType
<1>6. ASSUME Misordered(c, cells)
      PROVE  /\ Answered(a, c.oid, at) /\ ~ReadAt(a, c.oid, at)
             /\ at # <<>> /\ NextOID(a, at) \in Seq(Arc)
             /\ CursorAfter(c, cells) = SkipTarget(at, NextOID(a, at))
             /\ Finished(c, cells) <=> ~HasPrefix(SkipTarget(at, NextOID(a, at)), c.oid)
  <2>1. n < Len(cells) /\ Inside(c, ans)
    BY <1>6 DEF Misordered
  <2>2. ~Less(at, ans)
    BY <1>2, <1>3, <2>1 DEF Follows
  <2>3. cells \in Seq(Seq(Arc))
    BY <1>1, <1>5
  <2>4. at # <<>> /\ ans \in Seq(Arc)
    BY <1>3, <1>6, <2>3, SkipsFrom
  <2>5. Skipping(c, cells) = SkipTarget(at, ans)
    BY <1>3 DEF Skipping
  <2>6. CursorAfter(c, cells) = Skipping(c, cells)
    BY <1>6 DEF CursorAfter
  <2>7. Finished(c, cells) <=> ~HasPrefix(Skipping(c, cells), c.oid)
    BY <1>6 DEF Finished
  <2>. HIDE DEF at, ans
  <2>. QED  BY <1>4, <2>1, <2>2, <2>4, <2>5, <2>6, <2>7 DEF Answered, ReadAt, Inside
<1>7. ASSUME ~Misordered(c, cells)
      PROVE  /\ CursorAfter(c, cells) = at
             /\ Finished(c, cells) <=> n < Len(cells)
             /\ Finished(c, cells) => ~Answered(a, c.oid, at)
  <2>1. CursorAfter(c, cells) = at
    BY <1>3, <1>7 DEF CursorAfter
  <2>2. Finished(c, cells) <=> n < Len(cells)
    BY <1>7 DEF Finished
  <2>3. n < Len(cells) => ~Inside(c, ans)
    BY <1>7 DEF Misordered
  <2>. HIDE DEF at, ans
  <2>. QED  BY <1>4, <2>1, <2>2, <2>3 DEF Answered, Inside
<1>. QED  BY <1>6, <1>7

\* A response takes a walk on, and to its end when it finishes the root.
LEMMA ResponseWalks ==
  ASSUME NEW a \in Profiles, NEW c, IsColumn(c), NEW cells, AnswersOne(a, c.cursor, cells),
         NEW got, NEW got1, got \cup Read(c, cells) \subseteq got1, Began(a, c.oid, c.cursor, got)
  PROVE  /\ ~Finished(c, cells) => Began(a, c.oid, CursorAfter(c, cells), got1)
         /\ Finished(c, cells) => Whole(a, c.oid, got1)
<1>. DEFINE n == RowsRead(c, cells)
            r == c.oid
            here == Stop(c, cells, n)
            behind == CursorAfter(c, cells)
<1>1. PICK V : WalkTo(a, r, c.cursor, V, got)
  BY DEF Began
<1>. DEFINE V1 == V \cup Read(c, cells) \cup (IF Finished(c, cells) THEN {} ELSE {behind})
<1>2. /\ n \in Nat /\ Stop(c, cells, 0) = c.cursor
      /\ \A k \in 0 .. n :
           /\ Stop(c, cells, k) \in Under(r)
           /\ k < n => ReadAt(a, r, Stop(c, cells, k)) /\ NextOID(a, Stop(c, cells, k)) = Stop(c, cells, k + 1)
      /\ \A o : o \in Read(c, cells) <=> \E k \in 1 .. n : o = Stop(c, cells, k)
  BY Stops
<1>3. /\ Misordered(c, cells) =>
           /\ Answered(a, r, here) /\ ~ReadAt(a, r, here)
           /\ here # <<>> /\ NextOID(a, here) \in Seq(Arc)
           /\ behind = SkipTarget(here, NextOID(a, here))
           /\ Finished(c, cells) <=> ~HasPrefix(SkipTarget(here, NextOID(a, here)), r)
      /\ ~Misordered(c, cells) => /\ behind = here
                                  /\ Finished(c, cells) => ~Answered(a, r, here)
  BY LastStop
<1>4. V \subseteq Under(r) /\ r \in V /\ c.cursor \in V
      /\ \A at \in V : at # c.cursor => GoesOn(a, r, at, V) /\ (ReadAt(a, r, at) => NextOID(a, at) \in got)
  BY <1>1 DEF WalkTo
<1>. HIDE DEF n, r, here, behind
<1>5. ~Finished(c, cells) => behind \in Under(r)
  <2>1. n \in 0 .. n
    BY <1>2
  <2>2. here \in Under(r)
    BY <1>2, <2>1 DEF here
  <2>3. Misordered(c, cells) => SkipTarget(here, NextOID(a, here)) \in Seq(Arc)
    BY <1>3, <2>2, SkipType DEF Under
  <2>. QED  BY <1>3, <2>2, <2>3 DEF Under
<1>6. V1 \subseteq Under(r) /\ r \in V1 /\ V \subseteq V1
  <2>1. Read(c, cells) \subseteq Under(r)
    <3>1. \A k \in 1 .. n : k \in 0 .. n
      BY <1>2
    <3>. QED  BY <1>2, <3>1
  <2>. QED  BY <1>4, <1>5, <2>1
<1>7. ASSUME NEW k \in 0 .. n, Finished(c, cells) \/ Stop(c, cells, k) # behind
      PROVE  /\ GoesOn(a, r, Stop(c, cells, k), V1)
             /\ ReadAt(a, r, Stop(c, cells, k)) => NextOID(a, Stop(c, cells, k)) \in got1
  <2>1. CASE k < n
    <3>1. k + 1 \in 1 .. n
      BY <1>2, <2>1
    <3>2. ReadAt(a, r, Stop(c, cells, k)) /\ NextOID(a, Stop(c, cells, k)) \in Read(c, cells)
      BY <1>2, <2>1, <3>1
    <3>. QED  BY <3>2 DEF GoesOn
  <2>2. CASE ~(k < n)
    <3>1. Stop(c, cells, k) = here
      <4>1. k = n
        BY <1>2, <2>2
      <4>. QED  BY <4>1 DEF here
    <3>2. CASE Misordered(c, cells)
      BY <1>3, <3>1, <3>2 DEF GoesOn
    <3>3. CASE ~Misordered(c, cells)
      <4>1. ~Answered(a, r, here)
        BY <1>3, <1>7, <3>1, <3>3
      <4>. QED  BY <3>1, <4>1 DEF GoesOn, ReadAt
    <3>. QED  BY <3>2, <3>3
  <2>. QED  BY <2>1, <2>2
<1>8. ASSUME NEW at \in V1, Finished(c, cells) \/ at # behind
      PROVE  GoesOn(a, r, at, V1) /\ (ReadAt(a, r, at) => NextOID(a, at) \in got1)
  <2>1. CASE at \in V /\ at # c.cursor
    <3>1. GoesOn(a, r, at, V) /\ (ReadAt(a, r, at) => NextOID(a, at) \in got)
      BY <1>4, <2>1
    <3>. HIDE DEF V1
    <3>. QED  BY <1>6, <3>1 DEF GoesOn
  <2>2. CASE at \in Read(c, cells) \/ at = c.cursor
    <3>1. \E k \in 0 .. n : at = Stop(c, cells, k)
      <4>1. 0 \in 0 .. n /\ \A k \in 1 .. n : k \in 0 .. n
        BY <1>2
      <4>. QED  BY <1>2, <2>2, <4>1
    <3>2. PICK k \in 0 .. n : at = Stop(c, cells, k)
      BY <3>1
    <3>. HIDE DEF V1
    <3>. QED  BY <1>7, <1>8, <3>2
  <2>3. at \in V \/ at \in Read(c, cells)
    BY <1>8
  <2>. QED  BY <2>1, <2>2, <2>3
<1>9. ~Finished(c, cells) => behind \in V1
  OBVIOUS
<1>. HIDE DEF V1
<1>10. ASSUME ~Finished(c, cells)  PROVE Began(a, r, behind, got1)
  <2>1. WalkTo(a, r, behind, V1, got1)
    BY <1>6, <1>8, <1>9, <1>10 DEF WalkTo
  <2>. QED  BY <2>1 DEF Began
<1>11. ASSUME Finished(c, cells)  PROVE Whole(a, r, got1)
  <2>1. WalkOf(a, r, V1) /\ \A at \in V1 : ReadAt(a, r, at) => NextOID(a, at) \in got1
    BY <1>6, <1>8, <1>11 DEF WalkOf
  <2>. QED  BY <2>1 DEF Whole
<1>. QED  BY <1>10, <1>11 DEF r, behind

-----------------------------------------------------------------------------
(* What a walk of the root reads of a column, a walk of the column reads.  *)

\* A walk that comes into a column from before it comes to the row that a walk from
\* the column begins with, if the column is no row itself.
LEMMA Enters ==
  ASSUME NEW a \in Profiles, NEW c \in Seq(Arc), NEW at \in Seq(Arc), ~HasPrefix(at, c),
         NextOID(a, at) # End, Less(at, NextOID(a, at)),
         HasPrefix(NextOID(a, at), c), NextOID(a, at) # c
  PROVE  Sure(a, c, NextOID(a, at))
<1>. DEFINE x == NextOID(a, at)
<1>1. at \notin DOMAIN a.wrong /\ \A k \in a.mib : Less(at, k) => ~Less(k, x)
  BY NextShape, ProfileShape
<1>2. x \in a.mib /\ x \in Seq(Arc) /\ a.mib \subseteq Seq(Arc) /\ DOMAIN a.wrong \subseteq a.mib
  BY NextShape, ProfileShape
<1>. HIDE DEF x
<1>3. HasPrefix(x, c) /\ x # c /\ Less(at, x) /\ x # End
  BY DEF x
<1>4. Less(c, x)
  BY <1>2, <1>3, PrefixIsFirst
<1>5. HasPrefix(c, c)
  BY PrefixesCompare
<1>6. Less(at, c)
  <2>1. ~Less(c, at)
    BY <1>2, <1>3, <1>5, NothingBetween
  <2>2. at # c
    BY <1>5
  <2>. QED  BY <2>1, <2>2, LessIsTotal
<1>7. c \notin a.mib
  BY <1>1, <1>4, <1>6
<1>8. c \notin DOMAIN a.wrong
  BY <1>2, <1>7
<1>9. NextOID(a, c) = x
  <2>. DEFINE y == NextOID(a, c)
  <2>1. y # End
    BY <1>2, <1>4, <1>8, NextShape
  <2>2. Less(c, y) /\ ~Less(x, y)
    BY <1>2, <1>4, <1>8, <2>1, NextShape
  <2>3. y \in a.mib /\ y \in Seq(Arc)
    BY <1>2, <2>1, NextShape
  <2>. HIDE DEF y
  <2>4. Less(at, y)
    BY <1>6, <2>2, <2>3, LessIsStrict
  <2>5. ~Less(y, x)
    BY <1>1, <2>3, <2>4
  <2>6. y = x
    BY <1>2, <2>2, <2>3, <2>5, LessIsTotal
  <2>. QED  BY <2>6 DEF y
<1>10. ReadAt(a, c, c)
  BY <1>3, <1>4, <1>9 DEF ReadAt, Answered
<1>11. ASSUME NEW V, WalkOf(a, c, V)  PROVE \E p \in V : ReadAt(a, c, p) /\ x = NextOID(a, p)
  BY <1>9, <1>10, <1>11 DEF WalkOf
<1>. QED  BY <1>11 DEF Sure, x

\* So every walk of the column reads the row that follows where it comes by.
LEMMA NextIsSure ==
  ASSUME NEW a \in Profiles, NEW c \in Seq(Arc), NEW at \in Seq(Arc),
         HasPrefix(at, c) => SureAt(a, c, at),
         NextOID(a, at) # End, Less(at, NextOID(a, at)),
         HasPrefix(NextOID(a, at), c), NextOID(a, at) # c
  PROVE  Sure(a, c, NextOID(a, at))
<1>1. CASE HasPrefix(at, c)
  <2>1. ReadAt(a, c, at)
    BY DEF ReadAt, Answered
  <2>. QED  BY <1>1, <2>1 DEF Sure, SureAt
<1>2. CASE ~HasPrefix(at, c)
  BY <1>2, Enters
<1>. QED  BY <1>1, <1>2

\* A column, none of whose rows is the column, and what a walk of its root found.
SureFound(a, c, found_) == \A o \in found_ : HasPrefix(o, c) => Sure(a, c, o)
SureCursor(a, c, at) == HasPrefix(at, c) => SureAt(a, c, at)

LEMMA ResponseIsSure ==
  ASSUME NEW a \in Profiles, NEW c, IsColumn(c), NEW cells, AnswersOne(a, c.cursor, cells),
         NEW col \in Seq(Arc), col \notin Read(c, cells), SureCursor(a, col, c.cursor)
  PROVE  /\ SureFound(a, col, Read(c, cells))
         /\ ~Finished(c, cells) => SureCursor(a, col, CursorAfter(c, cells))
<1>. DEFINE n == RowsRead(c, cells)
            r == c.oid
            At(k) == Stop(c, cells, k)
            here == Stop(c, cells, n)
            S == {k \in 1 .. n : HasPrefix(At(k), col) /\ ~Sure(a, col, At(k))}
<1>1. /\ n \in Nat /\ At(0) = c.cursor
      /\ \A k \in 0 .. n :
           /\ At(k) \in Under(r)
           /\ k < n => ReadAt(a, r, At(k)) /\ NextOID(a, At(k)) = At(k + 1)
      /\ \A o : o \in Read(c, cells) <=> \E k \in 1 .. n : o = At(k)
  BY Stops
<1>2. /\ Misordered(c, cells) =>
           /\ Answered(a, r, here)
           /\ ~ReadAt(a, r, here)
           /\ here # <<>> /\ NextOID(a, here) \in Seq(Arc)
           /\ CursorAfter(c, cells) = SkipTarget(here, NextOID(a, here))
      /\ ~Misordered(c, cells) => CursorAfter(c, cells) = here
  BY LastStop
<1>3. here = At(n)
  OBVIOUS
<1>. HIDE DEF n, r, At, here
<1>4. S = {}
  <2>. SUFFICES ASSUME S # {}  PROVE FALSE
    OBVIOUS
  <2>1. PICK k \in S : \A m \in S : k <= m
    <3>1. S \subseteq Nat
      BY <1>1
    <3>. HIDE DEF S
    <3>. QED  BY <3>1, LeastNatural
  <2>2. k \in 1 .. n /\ HasPrefix(At(k), col) /\ ~Sure(a, col, At(k))
    OBVIOUS
  <2>3. k - 1 \in 0 .. n /\ k - 1 < n /\ (k - 1) + 1 = k /\ ~(k <= k - 1)
        /\ (k - 1 = 0 \/ k - 1 \in 1 .. n)
    BY <1>1, <2>2
  <2>4. k - 1 \notin S
    <3>. HIDE DEF S
    <3>. QED  BY <2>1, <2>3
  <2>5. /\ At(k - 1) \in Seq(Arc) /\ ReadAt(a, r, At(k - 1)) /\ NextOID(a, At(k - 1)) = At(k)
    BY <1>1, <2>3 DEF Under
  <2>6. HasPrefix(At(k - 1), col) => SureAt(a, col, At(k - 1))
    <3>1. CASE k - 1 = 0
      BY <1>1, <3>1 DEF SureCursor
    <3>2. CASE k - 1 \in 1 .. n
      BY <2>4, <3>2, SureIsAt
    <3>. QED  BY <2>3, <3>1, <3>2
  <2>7. At(k) # col
    BY <1>1, <2>2
  <2>8. NextOID(a, At(k - 1)) # End /\ Less(At(k - 1), NextOID(a, At(k - 1)))
    BY <2>5 DEF ReadAt, Answered
  <2>9. Sure(a, col, NextOID(a, At(k - 1)))
    <3>. HIDE DEF S
    <3>. QED  BY <2>2, <2>5, <2>6, <2>7, <2>8, NextIsSure
  <2>. QED  BY <2>2, <2>5, <2>9
<1>5. \A k \in 0 .. n : HasPrefix(At(k), col) => SureAt(a, col, At(k))
  <2>. SUFFICES ASSUME NEW k \in 0 .. n, HasPrefix(At(k), col)  PROVE SureAt(a, col, At(k))
    OBVIOUS
  <2>1. CASE k = 0
    BY <1>1, <2>1 DEF SureCursor
  <2>2. CASE k \in 1 .. n
    BY <1>4, <2>2, SureIsAt
  <2>. QED  BY <1>1, <2>1, <2>2
<1>6. SureFound(a, col, Read(c, cells))
  BY <1>1, <1>4 DEF SureFound
<1>7. HasPrefix(here, col) => SureAt(a, col, here)
  <2>1. n \in 0 .. n
    BY <1>1
  <2>. QED  BY <1>3, <1>5, <2>1
<1>8. here \in Seq(Arc)
  <2>1. n \in 0 .. n
    BY <1>1
  <2>. QED  BY <1>1, <1>3, <2>1 DEF Under
<1>9. ASSUME Misordered(c, cells), HasPrefix(SkipTarget(here, NextOID(a, here)), col)
      PROVE  SureAt(a, col, SkipTarget(here, NextOID(a, here)))
  <2>. DEFINE ans == NextOID(a, here)
              t == SkipTarget(here, ans)
  <2>1. Answered(a, r, here) /\ ~ReadAt(a, r, here) /\ here # <<>> /\ ans \in Seq(Arc)
    BY <1>2, <1>9
  <2>2. t = col \/ (HasPrefix(here, col) /\ HasPrefix(ans, col))
    BY <1>8, <1>9, <2>1, SkipStays
  <2>3. CASE t = col
    BY <2>3, RootIsSure
  <2>4. CASE HasPrefix(here, col) /\ HasPrefix(ans, col)
    <3>1. Answered(a, col, here) /\ ~ReadAt(a, col, here)
      BY <2>1, <2>4 DEF Answered, ReadAt
    <3>2. SureAt(a, col, here)
      BY <1>7, <2>4
    <3>3. ASSUME NEW V, WalkOf(a, col, V)  PROVE t \in V
      <4>1. GoesOn(a, col, here, V)
        BY <3>2, <3>3 DEF SureAt, WalkOf
      <4>. QED  BY <1>9, <3>1, <4>1 DEF GoesOn
    <3>. QED  BY <3>3 DEF SureAt
  <2>. QED  BY <2>2, <2>3, <2>4
<1>10. SureCursor(a, col, CursorAfter(c, cells))
  BY <1>2, <1>7, <1>9 DEF SureCursor
<1>. QED  BY <1>6, <1>10

-----------------------------------------------------------------------------
(* The chain of the reference walk.                                        *)

\* What a walk of r has read: rows under it, each of which a walk of any column of
\* it reads, unless the column is itself a row.
Rows(a, r, rows) ==
  /\ r \notin rows /\ rows \subseteq Under(r)
  /\ a.most = 0 => rows = {}
  /\ \A c \in Under(r) : c \notin rows => SureFound(a, c, rows)

OpenRoot(a, r, at, rows) ==
  /\ Rows(a, r, rows) /\ Began(a, r, at, rows)
  /\ \A c \in Under(r) : c \notin rows => SureCursor(a, c, at)

Chained(a, st) ==
  /\ Rows(a, st.root, st.oids) /\ st.columns = InferColumns(st.root, st.oids)
  /\ a.most > 0 => Whole(a, st.root, st.oids)
ChainedAll(a, sts) == \A i \in 1 .. Len(sts) : ~sts[i].partial => Chained(a, sts[i])

RefInv ==
  /\ refPc # "done" => OpenRoot(agent, roots[root], cursor, found)
  /\ ChainedAll(agent, subtrees)

LEMMA OpenBegins ==
  ASSUME NEW a, NEW r \in Seq(Arc)
  PROVE  OpenRoot(a, r, r, {})
<1>1. Rows(a, r, {})
  BY DEF Rows, SureFound
<1>2. Began(a, r, r, {})
  BY WalkBegins
<1>3. ASSUME NEW c \in Under(r), HasPrefix(r, c)  PROVE SureAt(a, c, r)
  <2>1. Len(r) <= Len(c) /\ Len(c) <= Len(r) /\ \A i \in 1 .. Len(r) : r[i] = c[i]
    BY <1>3, PrefixArcs DEF Under
  <2>2. c = r
    BY <2>1, SameArcs DEF Under
  <2>. QED  BY <2>2, RootIsSure
<1>. QED  BY <1>1, <1>2, <1>3 DEF OpenRoot, SureCursor

\* An agent that has no room for a varbind answers with none.
LEMMA SilentAgent ==
  ASSUME NEW a \in Profiles, NEW from, NEW reps \in Nat \ {0},
         NEW resp \in Replies(a, <<from>>, reps), a.most = 0
  PROVE  resp = <<>>
<1>. DEFINE n == Capped(reps, a.rows)
<1>1. resp = GetBulk(a, <<from>>, reps)
  BY DEF Replies
<1>2. Len(<<from>>) = 1 /\ 1 \in Nat \ {0} /\ reps \in Nat
  OBVIOUS
<1>3. PICK w, cursors : w = 1 /\ cursors = <<from>>
  OBVIOUS
<1>4. AnswersWith(a, cursors, w, reps, n, resp)
  <2>1. w \in Nat \ {0} /\ Len(cursors) = w /\ resp = GetBulk(a, cursors, reps)
    BY <1>1, <1>2, <1>3
  <2>. QED  BY <1>2, <2>1, BulkShape
<1>5. n \in Nat /\ resp \in Seq(a.mib \cup {End}) /\ Len(resp) = Capped(n * w, a.most)
  BY <1>4 DEF AnswersWith
<1>. HIDE DEF n
<1>6. n * w = n
  BY <1>3, <1>5
<1>7. Len(resp) = 0
  BY <1>5, <1>6 DEF Capped
<1>. QED  BY <1>5, <1>7

\* The rows of a response join the chain.
LEMMA ResponseJoins ==
  ASSUME NEW a \in Profiles, NEW c, IsColumn(c), NEW cells, AnswersOne(a, c.cursor, cells),
         a.most = 0 => cells = <<>>, NEW rows, OpenRoot(a, c.oid, c.cursor, rows)
  PROVE  /\ Rows(a, c.oid, rows \cup Read(c, cells))
         /\ ~Finished(c, cells) =>
              OpenRoot(a, c.oid, CursorAfter(c, cells), rows \cup Read(c, cells))
         /\ Finished(c, cells) => Whole(a, c.oid, rows \cup Read(c, cells))
<1>. DEFINE r == c.oid
            read == Read(c, cells)
            n == RowsRead(c, cells)
            At(k) == Stop(c, cells, k)
<1>1. /\ n \in Nat /\ n <= Len(cells) /\ r \in Seq(Arc) /\ c.cursor \in Seq(Arc)
      /\ \A k \in 0 .. n :
           /\ At(k) \in Under(r)
           /\ k < n => ReadAt(a, r, At(k)) /\ NextOID(a, At(k)) = At(k + 1)
      /\ \A o : o \in read <=> \E k \in 1 .. n : o = At(k)
  BY Stops DEF IsColumn
<1>2. a.most = 0 => read = {}
  <2>. SUFFICES ASSUME a.most = 0  PROVE read = {}
    OBVIOUS
  <2>1. n = 0
    <3>1. Len(cells) = 0
      OBVIOUS
    <3>. QED  BY <1>1, <3>1
  <2>. HIDE DEF n, read, At
  <2>. QED  BY <1>1, <2>1
<1>. HIDE DEF n, read, At, r
<1>3. read \subseteq Under(r) /\ r \notin read
  <2>. SUFFICES ASSUME NEW o \in read  PROVE o \in Under(r) /\ o # r
    OBVIOUS
  <2>1. PICK k \in 1 .. n : o = At(k)
    BY <1>1
  <2>2. k \in 0 .. n /\ k - 1 \in 0 .. n /\ k - 1 < n /\ (k - 1) + 1 = k
    BY <1>1
  <2>3. At(k) \in Under(r) /\ At(k - 1) \in Under(r) /\ Less(At(k - 1), At(k))
    BY <1>1, <2>2 DEF ReadAt
  <2>4. ~Less(At(k - 1), r)
    BY <1>1, <2>3, PrefixIsFirst DEF Under
  <2>. QED  BY <2>1, <2>3, <2>4
<1>4. ASSUME NEW col \in Under(r), col \notin rows \cup read
      PROVE  /\ SureFound(a, col, rows \cup read)
             /\ ~Finished(c, cells) => SureCursor(a, col, CursorAfter(c, cells))
  <2>1. SureFound(a, col, rows) /\ SureCursor(a, col, c.cursor)
    BY <1>4 DEF OpenRoot, Rows, r
  <2>2. SureFound(a, col, read) /\ (~Finished(c, cells) => SureCursor(a, col, CursorAfter(c, cells)))
    <3>1. col \in Seq(Arc) /\ col \notin Read(c, cells)
      BY <1>4 DEF Under, read
    <3>. QED  BY <2>1, <3>1, ResponseIsSure DEF read
  <2>. QED  BY <2>1, <2>2 DEF SureFound
<1>5. Rows(a, r, rows \cup read)
  <2>1. r \notin rows /\ rows \subseteq Under(r) /\ (a.most = 0 => rows = {})
    BY DEF OpenRoot, Rows, r
  <2>. QED  BY <1>2, <1>3, <1>4, <2>1 DEF Rows
<1>6. /\ ~Finished(c, cells) => Began(a, r, CursorAfter(c, cells), rows \cup read)
      /\ Finished(c, cells) => Whole(a, r, rows \cup read)
  <2>1. Began(a, c.oid, c.cursor, rows)
    BY DEF OpenRoot
  <2>2. PICK got1 : got1 = rows \cup read
    OBVIOUS
  <2>3. rows \cup Read(c, cells) \subseteq got1
    BY <2>2 DEF read
  <2>4. /\ ~Finished(c, cells) => Began(a, c.oid, CursorAfter(c, cells), got1)
        /\ Finished(c, cells) => Whole(a, c.oid, got1)
    BY <2>1, <2>3, ResponseWalks
  <2>. QED  BY <2>2, <2>4 DEF r
<1>. QED  BY <1>4, <1>5, <1>6 DEF OpenRoot, r, read

\* Walk is called, and comes to its first root.
LEMMA ChainStarts ==
  ASSUME NEW rs \in Seq(Seq(Arc)), NEW max, StartWalk(rs, max), agent' = agent
  PROVE  RefInv'
<1>1. roots' = rs /\ subtrees' = <<>> /\ Open(1, rs)
  BY DEF StartWalk
<1>2. 1 \in 1 .. Len(rs) + 1
  OBVIOUS
<1>3. /\ root' = 1 /\ found' = {} /\ (refPc' = "done" <=> 1 = Len(rs) + 1)
      /\ 1 # Len(rs) + 1 => cursor' = rs[1] /\ rs[1] \in Seq(Arc)
  BY <1>1, <1>2, OpenStep
<1>4. refPc' # "done" => OpenRoot(agent', roots'[root'], cursor', found')
  BY <1>1, <1>3, OpenBegins
<1>5. ChainedAll(agent', subtrees')
  BY <1>1 DEF ChainedAll
<1>. QED  BY <1>4, <1>5 DEF RefInv

\* A subtree is closed: unless it is partial its rows are a chain.
LEMMA ChainCloses ==
  ASSUME WalkInv, RefInv, refPc # "done", NEW partial \in BOOLEAN, NEW collected, NEW branches,
         Close(partial, collected, branches), roots' = roots, agent' = agent,
         ~partial => /\ Rows(agent, roots[root], collected)
                     /\ agent.most > 0 => Whole(agent, roots[root], collected)
  PROVE  RefInv'
<1>. DEFINE st == Subtree(partial, collected, branches)
            k == root + 1
            n == Len(subtrees)
<1>1. subtrees' = Append(subtrees, st) /\ Open(k, roots)
  BY DEF Close
<1>2. /\ roots \in Seq(Seq(Arc)) /\ root \in 1 .. Len(roots) + 1 /\ Len(roots) \in Nat
      /\ root # Len(roots) + 1
  BY DEF WalkInv
<1>3. k \in 1 .. Len(roots) + 1
  BY <1>2
<1>. HIDE DEF k
<1>4. /\ root' = k /\ found' = {} /\ (refPc' = "done" <=> k = Len(roots) + 1)
      /\ k # Len(roots) + 1 => cursor' = roots[k] /\ roots[k] \in Seq(Arc)
  BY <1>1, <1>2, <1>3, OpenStep
<1>5. refPc' # "done" => OpenRoot(agent', roots'[root'], cursor', found')
  BY <1>4, OpenBegins
<1>6. ~st.partial => Chained(agent, st)
  <2>1. /\ st.root = roots[root] /\ st.oids = collected /\ st.partial = partial
        /\ st.columns = InferColumns(roots[root], collected)
    BY DEF Subtree
  <2>. HIDE DEF st
  <2>. QED  BY <2>1 DEF Chained
<1>. HIDE DEF st
<1>7. ChainedAll(agent', subtrees')
  <2>1. subtrees \in Seq(SubtreesOf(agent))
    BY DEF WalkInv
  <2>2. n \in Nat /\ Len(subtrees') = n + 1 /\ subtrees'[n + 1] = st
        /\ \A i \in 1 .. n : subtrees'[i] = subtrees[i]
    <3>. DEFINE U == SubtreesOf(agent)
    <3>1. subtrees \in Seq(U)
      BY <2>1
    <3>. HIDE DEF U
    <3>2. subtrees \in Seq(U \cup {st}) /\ st \in U \cup {st}
      BY <3>1
    <3>. QED  BY <1>1, <3>2
  <2>3. ChainedAll(agent, subtrees)
    BY DEF RefInv
  <2>4. ASSUME NEW i \in 1 .. n + 1, ~subtrees'[i].partial  PROVE Chained(agent, subtrees'[i])
    <3>1. i = n + 1 \/ i \in 1 .. n
      BY <2>2
    <3>. QED  BY <1>6, <2>2, <2>3, <2>4, <3>1 DEF ChainedAll
  <2>. QED  BY <2>2, <2>4 DEF ChainedAll
<1>. QED  BY <1>5, <1>7 DEF RefInv

LEMMA ChainCollects ==
  ASSUME MainInv, WalkInv, RefInv, refPc = "bulk",
         NEW resp \in Replies(agent, <<cursor>>, ReferenceRepetitions), Collect(resp),
         agent' = agent
  PROVE  RefInv'
<1>. DEFINE c == Column0
            collected == found \cup Read(c, resp)
            branches == skipped \cup (IF Misordered(c, resp) THEN {ParentOf(Skipping(c, resp))} ELSE {})
            R == ReferenceRepetitions
<1>1. agent \in Profiles /\ R \in Nat \ {0}
  BY RepetitionsAssumption DEF MainInv
<1>2. /\ c.oid = roots[root] /\ c.cursor = cursor
      /\ root \in 1 .. Len(roots) /\ Len(roots) \in Nat /\ roots[root] \in Seq(Arc)
      /\ IsColumn(c)
  <2>1. roots \in Seq(Seq(Arc)) /\ root \in 1 .. Len(roots) + 1 /\ root # Len(roots) + 1
    BY DEF WalkInv
  <2>2. root \in 1 .. Len(roots) /\ Len(roots) \in Nat
    BY <2>1
  <2>3. roots[root] \in Seq(Arc)
    <3>. DEFINE W == Seq(Arc)
    <3>1. roots \in Seq(W)
      BY <2>1
    <3>. HIDE DEF W
    <3>2. roots[root] \in W
      BY <2>2, <3>1
    <3>. QED  BY <3>2 DEF W
  <2>4. cursor \in Seq(Arc) /\ HasPrefix(cursor, roots[root])
    BY DEF WalkInv
  <2>. QED  BY <2>2, <2>3, <2>4 DEF Column0, IsColumn
<1>3. resp \in Replies(agent, <<c.cursor>>, R)
  BY <1>2
<1>. HIDE DEF c, R
<1>4. AnswersOne(agent, c.cursor, resp) /\ (agent.most > 0 => resp # <<>>)
  <2>1. Answers1(agent, c.cursor, R, resp)
    BY <1>1, <1>3, AnswerShape
  <2>. QED  BY <2>1 DEF Answers1, AnswersOne
<1>5. agent.most = 0 => resp = <<>>
  BY <1>1, <1>3, SilentAgent
<1>6. OpenRoot(agent, c.oid, c.cursor, found)
  BY <1>2 DEF RefInv
<1>7. /\ Rows(agent, c.oid, collected)
      /\ ~Finished(c, resp) => OpenRoot(agent, c.oid, CursorAfter(c, resp), collected)
      /\ Finished(c, resp) => Whole(agent, c.oid, collected)
  BY <1>1, <1>2, <1>4, <1>5, <1>6, ResponseJoins
<1>8. roots' = roots
  BY DEF Collect
<1>9. CASE EndsRoot(resp)
  <2>1. Close(FALSE, collected, branches)
    BY <1>9 DEF Collect, c
  <2>2. agent.most > 0 => Finished(c, resp)
    BY <1>4, <1>9 DEF EndsRoot, c
  <2>3. Rows(agent, roots[root], collected) /\ (agent.most > 0 => Whole(agent, roots[root], collected))
    BY <1>2, <1>7, <2>2
  <2>. HIDE DEF collected, branches
  <2>. QED  BY <1>8, <2>1, <2>3, ChainCloses
<1>10. CASE ~EndsRoot(resp)
  <2>1. /\ found' = collected /\ cursor' = CursorAfter(c, resp)
        /\ root' = root /\ subtrees' = subtrees
    BY <1>10 DEF Collect, c
  <2>2. ~Finished(c, resp)
    BY <1>10 DEF EndsRoot, c
  <2>. HIDE DEF collected
  <2>. QED  BY <1>2, <1>7, <1>8, <2>1, <2>2 DEF RefInv
<1>. QED  BY <1>9, <1>10

LEMMA ChainMoves ==
  ASSUME MainInv, WalkInv, RefInv, ReferenceStep
  PROVE  RefInv'
<1>1. UNCHANGED <<mainVars, vars>> /\ agent' = agent
  BY DEF ReferenceStep, vars, env
<1>2. ASSUME OutOfBudget(Done)  PROVE RefInv'
  <2>1. refPc = "loop" /\ Close(TRUE, found, skipped) /\ roots' = roots
    BY <1>2 DEF OutOfBudget
  <2>. QED  BY <1>1, <2>1, ChainCloses
<1>3. ASSUME AskNext(Done)  PROVE RefInv'
  <2>1. refPc = "loop" /\ UNCHANGED <<roots, root, cursor, found, subtrees>>
    BY <1>3 DEF AskNext
  <2>. QED  BY <1>1, <2>1 DEF RefInv
<1>4. ASSUME RequestFails(Done)  PROVE RefInv'
  <2>1. refPc = "bulk" /\ roots' = roots
    BY <1>4 DEF RequestFails
  <2>2. CASE Done
    <3>1. Close(TRUE, found, skipped)
      BY <1>4, <2>2 DEF RequestFails
    <3>. QED  BY <1>1, <2>1, <3>1, ChainCloses
  <2>3. CASE ~Done
    <3>1. UNCHANGED <<root, cursor, found, subtrees>>
      BY <1>4, <2>3 DEF RequestFails
    <3>. QED  BY <1>1, <2>1, <3>1 DEF RefInv
  <2>. QED  BY <2>2, <2>3
<1>5. ASSUME refPc = "bulk", NEW resp \in Replies(agent, <<cursor>>, ReferenceRepetitions), Collect(resp)
      PROVE  RefInv'
  BY <1>1, <1>5, ChainCollects
<1>. QED  BY <1>2, <1>3, <1>4, <1>5 DEF ReferenceStep

-----------------------------------------------------------------------------
(* The columns of the trials.                                              *)

\* Two walks of a root to its end read the same.
LEMMA SameRows ==
  ASSUME NEW a \in Profiles, NEW r \in Seq(Arc), NEW rows, Rows(a, r, rows),
         NEW got, a.most > 0 => Whole(a, r, got)
  PROVE  rows \subseteq got
<1>. SUFFICES ASSUME NEW o \in rows  PROVE o \in got
  OBVIOUS
<1>1. a.most > 0
  BY ProfileShape DEF Rows
<1>2. r \in Under(r)
  BY PrefixesCompare DEF Under
<1>3. Sure(a, r, o)
  BY <1>2 DEF Rows, SureFound, Under
<1>. QED  BY <1>1, <1>3, SureIsRead

\* Every row of a subtree is in a column of its table, and no column is a row.
Columned(t, rows) ==
  /\ \A c \in ToSet(t.columns) : c \in Under(t.base) /\ c \notin rows
  /\ \A o \in rows : \E c \in ToSet(t.columns) : HasPrefix(o, c)

LEMMA SubtreeColumns ==
  ASSUME NEW a \in Profiles, NEW st \in SubtreesOf(a), Chained(a, st)
  PROVE  FromSubtree(st).base = st.root /\ Columned(FromSubtree(st), st.oids)
<1>. DEFINE r == st.root
            cs == st.columns
            rows == st.oids
            column(c) == r \o <<1, c>>
            t == FromSubtree(st)
            S == {o[Len(r) + 2] : o \in rows}
<1>1. /\ r \in Seq(Arc) /\ rows \in SUBSET a.mib /\ rows \subseteq Under(r) /\ r \notin rows
      /\ cs = InferColumns(r, rows) /\ t.base = r
  BY SubtreeTable DEF Chained, Rows, SubtreesOf
<1>2. /\ cs = <<>> => t.columns = <<r>>
      /\ cs # <<>> => t.columns = [i \in DOMAIN cs |-> column(cs[i])]
  BY DEF FromSubtree, Mapped
<1>. HIDE DEF r, cs, rows, t
<1>3. CASE cs = <<>>
  <2>1. ToSet(t.columns) = {r}
    BY <1>2, <1>3 DEF ToSet
  <2>2. HasPrefix(r, r)
    BY <1>1, PrefixesCompare
  <2>. QED  BY <1>1, <2>1, <2>2 DEF Columned, Under, t, r, rows
<1>4. CASE cs # <<>>
  <2>1. (\A o \in rows : InTable(r, o)) /\ cs = InOrder(S)
    BY <1>1, <1>4 DEF InferColumns
  <2>2. \A o \in rows : /\ o \in Seq(Arc) /\ Len(o) >= Len(r) + 3 /\ o[Len(r) + 1] = 1
                        /\ HasPrefix(o, r)
    BY <1>1, <2>1 DEF InTable, Under
  <2>3. Len(r) \in Nat
    BY <1>1
  <2>4. \A o \in rows : 1 \in Arc /\ o[Len(r) + 2] \in Arc
    <3>. SUFFICES ASSUME NEW o \in rows  PROVE 1 \in Arc /\ o[Len(r) + 2] \in Arc
      OBVIOUS
    <3>1. o \in Seq(Arc) /\ Len(r) + 1 \in 1 .. Len(o) /\ Len(r) + 2 \in 1 .. Len(o)
      BY <2>2, <2>3
    <3>2. o[Len(r) + 1] \in Arc /\ o[Len(r) + 2] \in Arc
      BY <3>1
    <3>. QED  BY <2>2, <3>2
  <2>5. IsFiniteSet(S) /\ S \in SUBSET Nat
    <3>. DEFINE f == [o \in rows |-> o[Len(r) + 2]]
    <3>1. IsFiniteSet(rows)
      BY <1>1, ProfileShape, FS_Subset
    <3>2. f \in Surjection(rows, S)
      BY DEF Surjection
    <3>3. S \subseteq Nat
      BY <2>4, ArcType
    <3>. HIDE DEF f, S
    <3>. QED  BY <3>1, <3>2, <3>3, FS_Surjection
  <2>. DEFINE n == Cardinality(S)
  <2>6. /\ n \in Nat /\ InOrder(S) \in [1 .. n -> S]
        /\ \A x \in S : \E i \in 1 .. n : InOrder(S)[i] = x
    <3>. HIDE DEF S
    <3>. QED  BY <2>5, InOrderLists
  <2>. HIDE DEF n, column
  <2>7. DOMAIN cs = 1 .. n /\ (\A i \in 1 .. n : cs[i] \in S) /\ \A x \in S : \E i \in 1 .. n : cs[i] = x
    <3>. HIDE DEF S
    <3>. QED  BY <2>1, <2>6
  <2>8. ToSet(t.columns) = {column(cs[i]) : i \in 1 .. n}
    <3>1. t.columns = [i \in 1 .. n |-> column(cs[i])]
      BY <1>2, <1>4, <2>7
    <3>2. ToSet(t.columns) = {t.columns[i] : i \in DOMAIN t.columns}
      BY DEF ToSet
    <3>. HIDE DEF S
    <3>. QED  BY <3>1, <3>2
  <2>9. ASSUME NEW x \in Arc, 1 \in Arc
        PROVE  /\ column(x) \in Under(r) /\ Len(column(x)) = Len(r) + 2
               /\ \A i \in 1 .. Len(r) : column(x)[i] = r[i]
               /\ column(x)[Len(r) + 1] = 1 /\ column(x)[Len(r) + 2] = x
    <3>. DEFINE two == <<1, x>>
                c == r \o two
    <3>1. two \in Seq(Arc) /\ Len(two) = 2 /\ two[1] = 1 /\ two[2] = x
      BY <2>9
    <3>. HIDE DEF two
    <3>2. /\ c \in Seq(Arc) /\ Len(c) = Len(r) + 2
          /\ \A i \in 1 .. Len(r) : c[i] = r[i]
          /\ c[Len(r) + 1] = 1 /\ c[Len(r) + 2] = x
      <4>. DEFINE U == Arc
      <4>1. r \in Seq(U) /\ two \in Seq(U) /\ Len(r) \in Nat
        BY <1>1, <3>1
      <4>. HIDE DEF U
      <4>2. c \in Seq(U) /\ Len(c) = Len(r) + Len(two)
        BY <4>1
      <4>3. \A i \in 1 .. Len(r) : c[i] = r[i]
        BY <4>1
      <4>4. \A i \in 1 .. Len(two) : c[Len(r) + i] = two[i]
        BY <4>1
      <4>5. 1 \in 1 .. Len(two) /\ 2 \in 1 .. Len(two)
        BY <3>1
      <4>. HIDE DEF c
      <4>. QED  BY <3>1, <4>2, <4>3, <4>4, <4>5 DEF U
    <3>3. column(x) = c
      BY DEF column, two
    <3>. HIDE DEF c
    <3>4. HasPrefix(c, r)
      BY <1>1, <2>3, <3>2, PrefixArcs
    <3>. QED  BY <3>2, <3>3, <3>4 DEF Under
  <2>10. ASSUME NEW o \in rows
         PROVE  /\ column(o[Len(r) + 2]) \in Under(r)
                /\ column(o[Len(r) + 2]) \notin rows
                /\ HasPrefix(o, column(o[Len(r) + 2]))
    <3>. DEFINE x == o[Len(r) + 2]
                c == column(x)
    <3>1. /\ c \in Under(r) /\ Len(c) = Len(r) + 2
          /\ \A i \in 1 .. Len(r) : c[i] = r[i]
          /\ c[Len(r) + 1] = 1 /\ c[Len(r) + 2] = x
      BY <2>4, <2>9
    <3>2. o \in Seq(Arc) /\ Len(o) >= Len(r) + 3 /\ o[Len(r) + 1] = 1 /\ \A i \in 1 .. Len(r) : r[i] = o[i]
      BY <1>1, <2>2, PrefixArcs
    <3>. HIDE DEF c
    <3>3. c \notin rows
      BY <2>2, <2>3, <3>1
    <3>4. \A i \in 1 .. Len(c) : c[i] = o[i]
      <4>. SUFFICES ASSUME NEW i \in 1 .. Len(c)  PROVE c[i] = o[i]
        OBVIOUS
      <4>1. i \in 1 .. Len(r) \/ i = Len(r) + 1 \/ i = Len(r) + 2
        BY <2>3, <3>1
      <4>. QED  BY <3>1, <3>2, <4>1
    <3>5. HasPrefix(o, c)
      <4>1. c \in Seq(Arc) /\ Len(c) <= Len(o)
        BY <2>3, <3>1, <3>2 DEF Under
      <4>. QED  BY <3>2, <3>4, <4>1, PrefixArcs
    <3>. QED  BY <3>1, <3>3, <3>5 DEF c
  <2>11. \A c \in ToSet(t.columns) : c \in Under(r) /\ c \notin rows
    <3>. SUFFICES ASSUME NEW i \in 1 .. n  PROVE column(cs[i]) \in Under(r) /\ column(cs[i]) \notin rows
      BY <2>8
    <3>1. PICK o \in rows : cs[i] = o[Len(r) + 2]
      BY <2>7
    <3>. QED  BY <2>10, <3>1
  <2>12. \A o \in rows : \E c \in ToSet(t.columns) : HasPrefix(o, c)
    <3>. SUFFICES ASSUME NEW o \in rows  PROVE \E c \in ToSet(t.columns) : HasPrefix(o, c)
      OBVIOUS
    <3>1. PICK i \in 1 .. n : cs[i] = o[Len(r) + 2]
      BY <2>7
    <3>. QED  BY <2>8, <2>10, <3>1
  <2>. QED  BY <1>1, <2>11, <2>12 DEF Columned, t, r, rows
<1>. QED  BY <1>1, <1>3, <1>4 DEF t, r

LEMMA ParentIsPrefix ==
  ASSUME NEW o \in Seq(Arc)
  PROVE  HasPrefix(o, ParentOID(o))
<1>1. CASE Len(o) > 1
  <2>. DEFINE p == SubSeq(o, 1, Len(o) - 1)
  <2>1. p \in Seq(Arc) /\ Len(p) = Len(o) - 1 /\ \A i \in 1 .. Len(o) - 1 : p[i] = o[i]
    BY <1>1
  <2>2. ParentOID(o) = p
    BY <1>1 DEF ParentOID, Front
  <2>. HIDE DEF p
  <2>. QED  BY <1>1, <2>1, <2>2, PrefixArcs
<1>2. CASE ~(Len(o) > 1)
  BY <1>2, PrefixesCompare DEF ParentOID
<1>. QED  BY <1>1, <1>2

LEMMA PickedSet ==
  ASSUME NEW V, NEW s \in Seq(V), NEW places \in SUBSET (1 .. Len(s))
  PROVE  ToSet(Picked(s, places)) = {s[i] : i \in places}
<1>. DEFINE W == {s[i] : i \in places}
            p == Picked(s, places)
<1>1. Len(s) \in Nat
  OBVIOUS
<1>2. p \in Seq(W) /\ \A i \in places : \E k \in 1 .. Len(p) : p[k] = s[i]
  BY <1>1, PickedLists
<1>3. ToSet(p) = {p[k] : k \in DOMAIN p}
  BY DEF ToSet
<1>. HIDE DEF p
<1>4. DOMAIN p = 1 .. Len(p) /\ \A k \in 1 .. Len(p) : p[k] \in W
  <2>. HIDE DEF W
  <2>. QED  BY <1>2
<1>. QED  BY <1>2, <1>3, <1>4 DEF p

\* A column of a group is an object of the command line, under the base of its table.
LEMMA GroupColumns ==
  ASSUME NEW l \in Lines, NEW t \in 1 .. Len(Groups[l].tables), NEW c \in ToSet(Groups[l].tables[t].columns)
  PROVE  /\ c \in Under(Groups[l].tables[t].base)
         /\ \E i \in DOMAIN l.objs : ~IsScalar(l.objs[i]) /\ c = l.objs[i].oid
<1>. DEFINE objs == l.objs
            Object == [oid : Seq(Arc), instance : Seq(Arc)]
            columns == Keep(objs, LAMBDA obj : ~IsScalar(obj))
            bases == Distinct(Mapped(columns, Base))
            of(b) == Keep(columns, LAMBDA obj : Base(obj) = b)
            oids_(b) == Mapped(of(b), OIDOf)
            table_(b) == [base |-> b, columns |-> Distinct(oids_(b))]
            own == {i \in DOMAIN objs : ~IsScalar(objs[i])}
<1>1. objs \in Seq(Object) /\ DOMAIN objs = 1 .. Len(objs)
  <2>1. objs \in Seq(Object)
    BY SessionAssumption
  <2>. HIDE DEF objs, Object
  <2>. QED  BY <2>1
<1>2. Groups[l].tables = [i \in DOMAIN bases |-> table_(bases[i])]
  <2>1. Groups[l].tables = GroupTables(l.objs)
    BY DEF Groups
  <2>. QED  BY <2>1 DEF GroupTables, Mapped
<1>3. columns \in Seq(Object) /\ ToSet(columns) = {objs[i] : i \in own}
  <2>1. own \in SUBSET (1 .. Len(objs))
    BY <1>1
  <2>2. columns = Picked(objs, own)
    BY DEF Keep
  <2>. HIDE DEF objs, Object, columns, own
  <2>. QED  BY <1>1, <2>1, <2>2, PickedType, PickedSet
<1>. HIDE DEF columns
<1>4. ASSUME NEW b
      PROVE  /\ of(b) \in Seq(Object) /\ DOMAIN of(b) = 1 .. Len(of(b))
             /\ \A k \in 1 .. Len(of(b)) : of(b)[k] \in ToSet(columns) /\ Base(of(b)[k]) = b
  <2>. DEFINE at == {i \in DOMAIN columns : Base(columns[i]) = b}
              o == of(b)
  <2>1. at \in SUBSET (1 .. Len(columns)) /\ DOMAIN columns = 1 .. Len(columns)
    BY <1>3
  <2>2. o = Picked(columns, at)
    BY DEF Keep
  <2>. HIDE DEF o, Object, at
  <2>3. o \in Seq(Object) /\ ToSet(o) = {columns[i] : i \in at}
    BY <1>3, <2>1, <2>2, PickedType, PickedSet
  <2>4. DOMAIN o = 1 .. Len(o)
    BY <2>3
  <2>5. \A k \in 1 .. Len(o) : o[k] \in {columns[i] : i \in at}
    BY <2>3, <2>4 DEF ToSet
  <2>6. \A i \in at : columns[i] \in ToSet(columns) /\ Base(columns[i]) = b
    BY DEF at, ToSet
  <2>. QED  BY <2>3, <2>4, <2>5, <2>6 DEF o
<1>. HIDE DEF of, bases
<1>5. PICK b : Groups[l].tables[t] = table_(b)
  <2>. DEFINE T == Groups[l].tables
  <2>1. T \in Seq(Table)
    BY GroupType
  <2>2. DOMAIN T = DOMAIN bases /\ \A i \in DOMAIN bases : T[i] = table_(bases[i])
    <3>. HIDE DEF table_
    <3>. QED  BY <1>2
  <2>3. t \in DOMAIN T
    <3>. HIDE DEF T
    <3>. QED  BY <2>1 DEF T
  <2>. HIDE DEF table_
  <2>. QED  BY <2>2, <2>3
<1>6. Groups[l].tables[t].base = b /\ c \in ToSet(Distinct(oids_(b)))
  BY <1>5
<1>. DEFINE m == oids_(b)
<1>7. m = [i \in 1 .. Len(of(b)) |-> OIDOf(of(b)[i])] /\ Len(of(b)) \in Nat
  BY <1>4 DEF Mapped
<1>8. \A k \in 1 .. Len(of(b)) : OIDOf(of(b)[k]) \in Seq(Arc)
  <2>. SUFFICES ASSUME NEW k \in 1 .. Len(of(b))  PROVE OIDOf(of(b)[k]) \in Seq(Arc)
    OBVIOUS
  <2>1. of(b)[k] \in Object
    <3>. HIDE DEF Object
    <3>. QED  BY <1>4
  <2>2. of(b)[k].oid \in Seq(Arc) /\ of(b)[k].instance \in Seq(Arc)
    BY <2>1
  <2>. QED  BY <2>2 DEF OIDOf
<1>. DEFINE W == Seq(Arc)
<1>9. m \in Seq(W) /\ Len(m) = Len(of(b)) /\ DOMAIN m = 1 .. Len(of(b))
  <2>1. m \in [1 .. Len(of(b)) -> W]
    <3>. HIDE DEF m
    <3>. QED  BY <1>7, <1>8
  <2>. HIDE DEF m, W
  <2>. QED  BY <1>7, <2>1
<1>. DEFINE first == {i \in DOMAIN m : \A j \in 1 .. i - 1 : m[j] # m[i]}
<1>10. PICK k \in 1 .. Len(of(b)) : c = OIDOf(of(b)[k])
  <2>1. Distinct(m) = Picked(m, first)
    BY DEF Distinct
  <2>2. first \in SUBSET (1 .. Len(m))
    <3>. HIDE DEF m
    <3>. QED  BY <1>9
  <2>3. c \in ToSet(Distinct(m))
    BY <1>6
  <2>. HIDE DEF first
  <2>4. ToSet(Picked(m, first)) = {m[i] : i \in first}
    <3>. HIDE DEF m, W
    <3>. QED  BY <1>9, <2>2, PickedSet
  <2>. HIDE DEF m
  <2>5. PICK i \in first : c = m[i]
    BY <2>1, <2>3, <2>4
  <2>6. i \in 1 .. Len(of(b))
    BY <1>9, <2>2
  <2>. QED  BY <1>7, <2>5, <2>6
<1>11. of(b)[k] \in ToSet(columns) /\ Base(of(b)[k]) = b
  BY <1>4
<1>12. PICK i \in own : of(b)[k] = objs[i]
  <2>. HIDE DEF own, objs
  <2>. QED  BY <1>3, <1>11
<1>13. i \in DOMAIN l.objs /\ ~IsScalar(l.objs[i]) /\ c = OIDOf(l.objs[i]) /\ Base(l.objs[i]) = b
  BY <1>10, <1>11, <1>12
<1>14. l.objs[i].oid \in Seq(Arc)
  <2>1. objs[i] \in Object
    <3>1. i \in 1 .. Len(objs)
      BY <1>1
    <3>. HIDE DEF Object, objs, own
    <3>. QED  BY <1>1, <3>1
  <2>. QED  BY <2>1
<1>15. c = l.objs[i].oid
  <2>1. l.objs[i].oid \o <<>> = l.objs[i].oid
    BY <1>14
  <2>. QED  BY <1>13, <2>1 DEF OIDOf, IsScalar
<1>16. HasPrefix(c, b)
  <2>1. /\ ParentOID(c) \in Seq(Arc) /\ HasPrefix(c, ParentOID(c))
        /\ ParentOID(ParentOID(c)) \in Seq(Arc) /\ HasPrefix(ParentOID(c), ParentOID(ParentOID(c)))
    BY <1>14, <1>15, ParentIsPrefix, ParentType
  <2>2. b = ParentOID(ParentOID(c))
    BY <1>13, <1>15 DEF Base
  <2>. QED  BY <1>14, <1>15, <2>1, <2>2, PrefixOfPrefix
<1>. QED  BY <1>6, <1>13, <1>14, <1>15, <1>16 DEF Under

-----------------------------------------------------------------------------
(* What a column of the trial is answered with.                            *)

\* A response holds no more varbinds than were asked for, and answers each cursor.
LEMMA BulkAnswers ==
  ASSUME NEW a \in Profiles, NEW cursors, NEW w \in Nat \ {0}, Len(cursors) = w, NEW reps \in Nat
  PROVE  LET resp == GetBulk(a, cursors, reps)
         IN /\ resp \in Seq(a.mib \cup {End}) /\ Len(resp) <= reps * w
            /\ \A i \in 1 .. w : AnswersOne(a, cursors[i], CellsOf(resp, i, w))
<1>. DEFINE n == Capped(reps, a.rows)
            resp == GetBulk(a, cursors, reps)
            V == a.mib \cup {End}
<1>1. AnswersWith(a, cursors, w, reps, n, resp)
  BY BulkShape
<1>. HIDE DEF n, resp
<1>2. /\ n \in Nat /\ n <= reps /\ resp \in Seq(V) /\ Len(resp) \in Nat /\ Len(resp) <= n * w
      /\ \A k \in 1 .. Len(resp) : resp[k] = AtPlace(a, cursors, n, w, k)
  BY <1>1 DEF AnswersWith
<1>3. Len(resp) <= reps * w
  <2>1. n * w \in Nat /\ reps * w \in Nat /\ n * w <= reps * w
    BY <1>2
  <2>. QED  BY <1>2, <2>1
<1>. HIDE DEF V
<1>4. ASSUME NEW i \in 1 .. w  PROVE AnswersOne(a, cursors[i], CellsOf(resp, i, w))
  <2>. DEFINE cells == CellsOf(resp, i, w)
              rows == RowsBehind(a, cursors[i], n)
  <2>1. /\ cells \in Seq(V)
        /\ \A r \in 1 .. Len(cells) :
             /\ (r - 1) * w + (i - 1) \in Nat /\ (r - 1) * w + i \in 1 .. Len(resp)
             /\ cells[r] = resp[(r - 1) * w + i]
    BY <1>2, <1>4, CellsShape
  <2>. HIDE DEF cells
  <2>2. Len(cells) \in Nat
    BY <2>1
  <2>3. ASSUME NEW r \in 1 .. Len(cells)  PROVE r \in 1 .. n /\ cells[r] = rows[r]
    <3>. DEFINE q == r - 1
                p == i - 1
                k == (r - 1) * w + i
    <3>1. q \in Nat /\ p \in 0 .. w - 1 /\ q + 1 = r /\ p + 1 = i
      BY <2>2
    <3>2. k \in 1 .. Len(resp) /\ cells[r] = resp[k] /\ k = q * w + i
      BY <2>1
    <3>. HIDE DEF k, q, p
    <3>3. q * w \in Nat
      BY <3>1
    <3>4. k - 1 = q * w + p
      BY <3>1, <3>2, <3>3
    <3>5. (k - 1) \div w = q /\ (k - 1) % w = p
      <4>1. (q * w + p) \div w = q /\ (q * w + p) % w = p
        BY <3>1, Quotient
      <4>. QED  BY <3>4, <4>1, Zenon
    <3>6. q < n
      <4>. SUFFICES ASSUME n <= q  PROVE FALSE
        BY <1>2, <3>1
      <4>1. n * w <= q * w /\ n * w \in Nat
        BY <1>2, <3>1
      <4>2. k <= n * w /\ k \in Nat
        BY <1>2, <3>2, <4>1
      <4>3. k = q * w + i /\ i \in Nat /\ i > 0
        BY <3>2
      <4>. HIDE DEF q
      <4>. QED  BY <3>3, <4>1, <4>2, <4>3
    <3>7. r \in 1 .. n
      BY <1>2, <3>1, <3>6
    <3>8. AtPlace(a, cursors, n, w, k) = RowsBehind(a, cursors[p + 1], n)[q + 1]
      BY <3>5 DEF AtPlace
    <3>9. cells[r] = RowsBehind(a, cursors[i], n)[r]
      BY <1>2, <3>1, <3>2, <3>8
    <3>. QED  BY <3>7, <3>9
  <2>4. \A r \in 1 .. n :
          /\ r = 1 => rows[r] = NextOID(a, cursors[i])
          /\ r > 1 /\ rows[r - 1] # End => rows[r] = NextOID(a, rows[r - 1])
    BY <1>2, RowsFollow
  <2>. HIDE DEF rows
  <2>5. ASSUME NEW r \in 1 .. Len(cells)
        PROVE  /\ r = 1 => cells[r] = NextOID(a, cursors[i])
               /\ r > 1 /\ cells[r - 1] # End => cells[r] = NextOID(a, cells[r - 1])
    <3>1. r > 1 => r - 1 \in 1 .. Len(cells)
      BY <2>2
    <3>2. r > 1 => cells[r - 1] = rows[r - 1]
      BY <2>3, <3>1
    <3>. QED  BY <2>3, <2>4, <3>2
  <2>6. AnswersOne(a, cursors[i], cells)
    BY <2>1, <2>5 DEF AnswersOne, V
  <2>. QED  BY <2>6 DEF cells
<1>. QED  BY <1>2, <1>3, <1>4 DEF resp, V

\* The columns of the trial, each with its cursor.
LEMMA ActiveCursors ==
  ASSUME TrialInv, pc = "bulk"
  PROVE  /\ Len(active) \in Nat \ {0} /\ Len(Cursors) = Len(active)
         /\ \A i \in 1 .. Len(active) : Cursors[i] = active[i].cursor
<1>. DEFINE w == Len(active)
<1>1. w \in Nat \ {0} /\ DOMAIN active = 1 .. w
  BY SeqShape DEF TrialInv
<1>2. Cursors = [i \in 1 .. w |-> active[i].cursor]
  BY <1>1 DEF Cursors
<1>3. Cursors = [i \in 1 .. w |-> Cursors[i]]
  BY <1>2
<1>. HIDE DEF w
<1>4. Len(Cursors) = w
  BY <1>1, <1>3, FunctionIsSeq
<1>. QED  BY <1>1, <1>2, <1>4 DEF w

-----------------------------------------------------------------------------
(* The chain of the trial.                                                 *)

\* The workload is made of the chained subtrees: of a root walked completely each
\* column lies in it, and is none of its rows when objects are no rows.
TablesInv ==
  /\ given.tables \in Seq(Table) /\ given.scalars \in Nat
  /\ given.reference \in Seq(SubtreesOf(agent))
  /\ \A s \in 1 .. Len(given.reference) : Chained(agent, given.reference[s])
  /\ \A t \in 1 .. Len(given.tables) : \A c \in ToSet(given.tables[t].columns) :
       /\ c \in Under(given.tables[t].base)
       /\ ObjectsAreNoRows =>
            \A s \in 1 .. Len(given.reference) :
              given.reference[s].root = given.tables[t].base => c \notin given.reference[s].oids

\* A root the operator named has a table of all its rows, unless it is shown as partial.
NamedInv ==
  phase \in {"tree", "trial"} \/ exit = 0 =>
    \A r \in ToSet(line.oids) :
      \/ \E i \in 1 .. Len(shown.subtrees) : shown.subtrees[i].root = r /\ shown.subtrees[i].partial
      \/ \E t \in 1 .. Len(given.tables), s \in 1 .. Len(given.reference) :
           /\ given.tables[t].base = r /\ given.reference[s].root = r
           /\ Columned(given.tables[t], given.reference[s].oids)

\* The k-th column of table t has been opened.
Opened(t, k) ==
  \/ t < table
  \/ t = table /\ k <= (chunk - 1) * MaxVars
  \/ t = table /\ pc \in {"loop", "bulk"} /\ k <= chunk * MaxVars

AllRead ==
  \A t \in 1 .. Len(given.tables) : \A c \in ToSet(given.tables[t].columns) : Whole(agent, c, oids)

\* As long as nothing has failed each column that was opened has been read to its end,
\* or is still active.
ChunkInv ==
  /\ pc \in {"chunk", "loop", "bulk", "scalars", "done"} /\ scalar \in Nat
  /\ Len(active) <= MaxVars
  /\ \A i \in 1 .. Len(active) :
       IsColumn(active[i]) /\ Began(agent, active[i].oid, active[i].cursor, oids)
  /\ pc \in {"chunk", "scalars"} => active = <<>>
  /\ pc = "scalars" => table > Len(given.tables)
  /\ failures = {} =>
       \A t \in 1 .. Len(given.tables) : \A k \in 1 .. Len(given.tables[t].columns) :
         Opened(t, k) => \/ Whole(agent, given.tables[t].columns[k], oids)
                         \/ \E i \in 1 .. Len(active) : active[i].oid = given.tables[t].columns[k]
  /\ pc = "done" /\ failures = {} /\ err = "none" => AllRead

BlameInv ==
  /\ "timeout" \in failures => agent.slow < MaxVars * Reps
  /\ ObjectsAreNoRows => "missing" \notin failures
  /\ exit = 0 => AllRead
  /\ phase \notin {"trial", "exit"} => Fresh

ChainInv ==
  RefInv /\ ChainedAll(agent, shown.subtrees) /\ TablesInv /\ NamedInv /\ ChunkInv /\ BlameInv

LEMMA AskedShape ==
  ASSUME TablesInv, NEW t \in 1 .. Len(given.tables)
  PROVE  LET cs == given.tables[t].columns
         IN /\ Len(cs) \in Nat /\ DOMAIN cs = 1 .. Len(cs) /\ cs \in Seq(Seq(Nat))
            /\ \A k \in 1 .. Len(cs) : cs[k] \in ToSet(cs) /\ cs[k] \in Seq(Arc)
            /\ ToSet(cs) = {cs[k] : k \in 1 .. Len(cs)}
<1>. DEFINE cs == given.tables[t].columns
            V == Seq(Nat)
<1>1. given.tables[t] \in Table
  <2>. DEFINE T == Table
  <2>1. given.tables \in Seq(T)
    BY DEF TablesInv
  <2>. HIDE DEF T
  <2>2. given.tables[t] \in T
    BY <2>1
  <2>. QED  BY <2>2 DEF T
<1>2. cs \in Seq(V)
  BY <1>1 DEF Table
<1>3. \A c \in ToSet(cs) : c \in Seq(Arc)
  BY DEF TablesInv, Under
<1>. HIDE DEF cs, V
<1>4. Len(cs) \in Nat /\ DOMAIN cs = 1 .. Len(cs)
  BY <1>2
<1>5. ToSet(cs) = {cs[k] : k \in 1 .. Len(cs)}
  BY <1>4 DEF ToSet
<1>. QED  BY <1>2, <1>3, <1>4, <1>5 DEF cs, V

\* What a part of a sequence holds.
LEMMA PartOf ==
  ASSUME NEW V, NEW s \in Seq(V), NEW a \in 1 .. Len(s) + 1, NEW b \in Nat, b <= Len(s), a <= b + 1
  PROVE  /\ Len(SubSeq(s, a, b)) = b - a + 1 /\ DOMAIN SubSeq(s, a, b) = 1 .. b - a + 1
         /\ \A i \in 1 .. b - a + 1 : SubSeq(s, a, b)[i] = s[a + i - 1]
OBVIOUS

\* A chunk is opened: its columns are active, each at its beginning.
LEMMA ChunkOpens ==
  ASSUME TrialInv, TablesInv, ChunkInv, OpenChunk, UNCHANGED <<given, agent>>
  PROVE  ChunkInv'
<1>. DEFINE cs == given.tables[table].columns
            lo == (chunk - 1) * MaxVars
            up == chunk * MaxVars
            hi == IF up < Len(cs) THEN up ELSE Len(cs)
            sub == Chunk(cs, chunk)
            n == hi - lo
<1>1. /\ pc = "chunk" /\ table <= Len(given.tables) /\ chunk <= ChunksOf(cs) /\ pc' = "loop"
      /\ UNCHANGED <<table, chunk, scalar, failures, err, oids>>
      /\ active' = [i \in DOMAIN sub |-> [oid |-> sub[i], cursor |-> sub[i]]]
  BY DEF OpenChunk, Asked, result
<1>2. /\ table \in 1 .. Len(given.tables) /\ chunk \in Nat \ {0} /\ MaxVars \in Nat \ {0}
      /\ active = <<>>
  BY <1>1, WalkAssumption DEF TrialInv, ChunkInv
<1>3. /\ Len(cs) \in Nat /\ cs \in Seq(Seq(Nat)) /\ \A k \in 1 .. Len(cs) : cs[k] \in Seq(Arc)
  BY <1>2, AskedShape
<1>. HIDE DEF cs
<1>4. lo \in Nat /\ up \in Nat /\ up = lo + MaxVars
  BY <1>2
<1>5. lo < Len(cs)
  <2>. DEFINE x == Len(cs) + MaxVars - 1
              q == x \div MaxVars
  <2>1. x \in Nat /\ chunk <= q
    BY <1>1, <1>2, <1>3 DEF ChunksOf
  <2>2. q \in Nat /\ MaxVars * q <= x
    <3>. HIDE DEF x
    <3>. QED  BY <1>2, <2>1, Division
  <2>. HIDE DEF q
  <2>3. MaxVars * chunk <= MaxVars * q /\ MaxVars * chunk \in Nat /\ MaxVars * q \in Nat
    BY <1>2, <2>1, <2>2
  <2>4. MaxVars * chunk = up
    BY <1>2
  <2>. HIDE DEF lo, up
  <2>5. PICK y \in Nat : y = MaxVars * q
    BY <2>3
  <2>6. up <= y /\ y <= x
    BY <2>2, <2>3, <2>4, <2>5
  <2>. QED  BY <1>2, <1>3, <1>4, <2>5, <2>6
<1>. HIDE DEF lo, up
<1>6. hi \in Nat /\ hi <= Len(cs) /\ hi <= lo + MaxVars /\ lo < hi
      /\ \A k \in 1 .. Len(cs) : k <= up => k <= hi
  BY <1>2, <1>3, <1>4, <1>5
<1>7. sub = SubSeq(cs, lo + 1, hi)
  BY DEF Chunk, lo, up
<1>. HIDE DEF hi, sub
<1>8. /\ n \in Nat /\ n <= MaxVars /\ Len(sub) = n /\ DOMAIN sub = 1 .. n
      /\ \A i \in 1 .. n : lo + i \in 1 .. Len(cs) /\ sub[i] = cs[lo + i]
  <2>. DEFINE V == Seq(Nat)
  <2>1. cs \in Seq(V)
    BY <1>3
  <2>. HIDE DEF V
  <2>2. n \in Nat /\ n <= MaxVars /\ \A i \in 1 .. n : lo + i \in 1 .. Len(cs)
    BY <1>2, <1>3, <1>4, <1>6
  <2>3. PICK a : a = lo + 1
    OBVIOUS
  <2>4. /\ a \in 1 .. Len(cs) + 1 /\ a <= hi + 1 /\ hi - a + 1 = n /\ sub = SubSeq(cs, a, hi)
        /\ \A i \in 1 .. n : a + i - 1 = lo + i
    BY <1>3, <1>4, <1>6, <1>7, <2>3 DEF n
  <2>5. /\ Len(sub) = hi - a + 1 /\ DOMAIN sub = 1 .. hi - a + 1
        /\ \A i \in 1 .. hi - a + 1 : sub[i] = cs[a + i - 1]
    BY <1>3, <1>6, <2>1, <2>4, PartOf
  <2>6. Len(sub) = n /\ DOMAIN sub = 1 .. n /\ \A i \in 1 .. n : sub[i] = cs[lo + i]
    BY <2>4, <2>5
  <2>. QED  BY <2>2, <2>6
<1>. HIDE DEF n
<1>9. /\ Len(active') = n /\ \A i \in 1 .. n : active'[i] = [oid |-> cs[lo + i], cursor |-> cs[lo + i]]
  <2>1. active' = [i \in 1 .. n |-> active'[i]]
    BY <1>1, <1>8
  <2>2. Len(active') = n
    BY <1>8, <2>1, FunctionIsSeq
  <2>. QED  BY <1>1, <1>8, <2>2
<1>10. \A i \in 1 .. n : IsColumn(active'[i]) /\ Began(agent, active'[i].oid, active'[i].cursor, oids)
  <2>. SUFFICES ASSUME NEW i \in 1 .. n
                PROVE  IsColumn(active'[i]) /\ Began(agent, active'[i].oid, active'[i].cursor, oids)
    OBVIOUS
  <2>1. cs[lo + i] \in Seq(Arc)
    BY <1>3, <1>8
  <2>2. HasPrefix(cs[lo + i], cs[lo + i])
    BY <2>1, PrefixesCompare
  <2>3. Began(agent, cs[lo + i], cs[lo + i], oids)
    BY <2>1, WalkBegins
  <2>. QED  BY <1>9, <2>1, <2>2, <2>3 DEF IsColumn
<1>11. ASSUME failures = {}, NEW t \in 1 .. Len(given.tables),
              NEW k \in 1 .. Len(given.tables[t].columns), Opened(t, k)'
       PROVE  \/ Whole(agent, given.tables[t].columns[k], oids)
              \/ \E i \in 1 .. Len(active') : active'[i].oid = given.tables[t].columns[k]
  <2>1. CASE Opened(t, k)
    <3>1. Len(active) = 0
      BY <1>2
    <3>. QED  BY <1>11, <2>1, <3>1 DEF ChunkInv
  <2>2. CASE ~Opened(t, k)
    <3>1. t = table /\ ~(k <= lo) /\ k <= up
      BY <1>1, <1>11, <2>2 DEF Opened, lo, up
    <3>. DEFINE i == k - lo
    <3>2. k \in 1 .. Len(cs)
      BY <3>1 DEF cs
    <3>3. k <= hi
      BY <1>6, <3>1, <3>2
    <3>4. i \in 1 .. n /\ lo + i = k
      BY <1>4, <1>6, <3>1, <3>2, <3>3 DEF n
    <3>. HIDE DEF i
    <3>5. active'[i].oid = cs[k]
      BY <1>9, <3>4
    <3>. QED  BY <1>9, <3>1, <3>4, <3>5 DEF cs
  <2>. QED  BY <2>1, <2>2
<1>12. scalar \in Nat
  BY DEF ChunkInv
<1>. QED  BY <1>1, <1>8, <1>9, <1>10, <1>11, <1>12 DEF ChunkInv

\* An answer is read: each column goes on, or has been read to its end.
LEMMA ChunkAnswers ==
  ASSUME MainInv, TrialInv, ChunkInv, pc = "bulk", NEW resp \in RepliesToBulk, Answer(resp),
         UNCHANGED <<given, agent>>
  PROVE  ChunkInv'
<1>. DEFINE w == Len(active)
            cells == [i \in 1 .. w |-> CellsOf(resp, i, w)]
            read == UNION {Read(active[i], cells[i]) : i \in 1 .. w}
            going == {i \in 1 .. w : ~Finished(active[i], cells[i])}
            rest == InOrder(going)
            next == [i \in 1 .. w |-> [oid |-> active[i].oid, cursor |-> CursorAfter(active[i], cells[i])]]
<1>1. /\ w \in Nat \ {0} /\ Len(Cursors) = w /\ \A i \in 1 .. w : Cursors[i] = active[i].cursor
      /\ agent \in Profiles /\ Reps \in Nat
  BY ActiveCursors, WalkAssumption DEF MainInv
<1>2. \A i \in 1 .. w : AnswersOne(agent, active[i].cursor, cells[i])
  <2>1. resp = GetBulk(agent, Cursors, Reps)
    BY DEF RepliesToBulk, Replies
  <2>. HIDE DEF w
  <2>2. \A i \in 1 .. w : AnswersOne(agent, Cursors[i], CellsOf(resp, i, w))
    BY <1>1, <2>1, BulkAnswers
  <2>. QED  BY <1>1, <2>2
<1>3. /\ oids' = oids \cup read /\ pc' = "loop" /\ UNCHANGED <<table, chunk, scalar, err>>
      /\ resp = <<>> => failures' # {} /\ active' = <<>>
      /\ resp # <<>> => failures' = failures /\ active' = [i \in DOMAIN rest |-> next[rest[i]]]
  BY DEF Answer
<1>4. \A i \in 1 .. w : oids \cup Read(active[i], cells[i]) \subseteq oids'
  BY <1>3
<1>5. \A i \in 1 .. w : next[i] = [oid |-> active[i].oid, cursor |-> CursorAfter(active[i], cells[i])]
  OBVIOUS
<1>. HIDE DEF w, cells, read, next
<1>6. w <= MaxVars /\ \A i \in 1 .. w : IsColumn(active[i]) /\ Began(agent, active[i].oid, active[i].cursor, oids)
  BY DEF ChunkInv, w
<1>7. ASSUME NEW i \in 1 .. w
      PROVE  /\ Finished(active[i], cells[i]) => Whole(agent, active[i].oid, oids')
             /\ ~Finished(active[i], cells[i]) =>
                  /\ Began(agent, next[i].oid, next[i].cursor, oids') /\ IsColumn(next[i])
                  /\ next[i].oid = active[i].oid
  <2>1. PICK c, cs : c = active[i] /\ cs = cells[i]
    OBVIOUS
  <2>2. IsColumn(c) /\ AnswersOne(agent, c.cursor, cs) /\ Began(agent, c.oid, c.cursor, oids)
        /\ oids \cup Read(c, cs) \subseteq oids'
    BY <1>2, <1>4, <1>6, <2>1
  <2>3. /\ ~Finished(c, cs) => Began(agent, c.oid, CursorAfter(c, cs), oids')
        /\ Finished(c, cs) => Whole(agent, c.oid, oids')
    BY <1>1, <2>2, ResponseWalks
  <2>4. cs \in Seq(Seq(Arc))
    <3>1. cs \in Seq(agent.mib \cup {End})
      BY <2>2 DEF AnswersOne
    <3>2. agent.mib \cup {End} \subseteq Seq(Arc)
      BY <1>1, ProfileShape, EndType
    <3>. QED  BY <3>1, <3>2
  <2>5. ~Finished(c, cs) => CursorAfter(c, cs) \in Seq(Arc) /\ HasPrefix(CursorAfter(c, cs), c.oid)
    BY <2>2, <2>4, CursorMoves
  <2>6. next[i] = [oid |-> c.oid, cursor |-> CursorAfter(c, cs)]
    BY <1>5, <2>1
  <2>. QED  BY <2>1, <2>2, <2>3, <2>5, <2>6 DEF IsColumn
<1>8. CASE resp = <<>>
  <2>1. Len(active') = 0
    BY <1>3, <1>8
  <2>2. 0 <= MaxVars /\ 1 .. 0 = {}
    BY WalkAssumption
  <2>3. scalar' \in Nat
    BY <1>3 DEF ChunkInv
  <2>. QED  BY <1>3, <1>8, <2>1, <2>2, <2>3 DEF ChunkInv
<1>9. CASE resp # <<>>
  <2>. DEFINE n == Cardinality(going)
  <2>1. /\ n \in Nat /\ n <= w /\ rest \in [1 .. n -> going]
        /\ \A x \in going : \E j \in 1 .. n : rest[j] = x
    <3>1. going \in SUBSET (1 .. w)
      OBVIOUS
    <3>. HIDE DEF going
    <3>. QED  BY <1>1, <3>1, PlacesInOrder
  <2>2. \A i \in 1 .. w : i \in going <=> ~Finished(active[i], cells[i])
    OBVIOUS
  <2>3. going \subseteq 1 .. w
    OBVIOUS
  <2>. HIDE DEF n, rest, going
  <2>4. Len(active') = n /\ \A j \in 1 .. n : active'[j] = next[rest[j]]
    <3>1. active' = [j \in 1 .. n |-> next[rest[j]]]
      BY <1>3, <1>9, <2>1
    <3>2. active' = [j \in 1 .. n |-> active'[j]]
      BY <3>1
    <3>3. Len(active') = n
      BY <2>1, <3>2, FunctionIsSeq
    <3>. QED  BY <3>1, <3>3
  <2>5. n <= MaxVars
    BY <1>1, <1>6, <2>1, WalkAssumption
  <2>6. \A j \in 1 .. n : IsColumn(active'[j]) /\ Began(agent, active'[j].oid, active'[j].cursor, oids')
    <3>. SUFFICES ASSUME NEW j \in 1 .. n
                  PROVE  IsColumn(active'[j]) /\ Began(agent, active'[j].oid, active'[j].cursor, oids')
      OBVIOUS
    <3>1. PICK i \in 1 .. w : rest[j] = i /\ ~Finished(active[i], cells[i])
      BY <2>1, <2>2, <2>3
    <3>. QED  BY <1>7, <2>4, <3>1
  <2>7. ASSUME failures = {}, NEW t \in 1 .. Len(given.tables),
               NEW k \in 1 .. Len(given.tables[t].columns), Opened(t, k)'
        PROVE  \/ Whole(agent, given.tables[t].columns[k], oids')
               \/ \E j \in 1 .. n : active'[j].oid = given.tables[t].columns[k]
    <3>1. Opened(t, k)
      BY <1>3, <2>7 DEF Opened
    <3>2. CASE Whole(agent, given.tables[t].columns[k], oids)
      <4>1. oids \subseteq oids'
        BY <1>3
      <4>. QED  BY <3>2, <4>1, WholeKept
    <3>3. ASSUME NEW i \in 1 .. w, active[i].oid = given.tables[t].columns[k]
          PROVE  \/ Whole(agent, given.tables[t].columns[k], oids')
                 \/ \E j \in 1 .. n : active'[j].oid = given.tables[t].columns[k]
      <4>1. CASE Finished(active[i], cells[i])
        BY <1>7, <3>3, <4>1
      <4>2. CASE ~Finished(active[i], cells[i])
        <5>1. PICK j \in 1 .. n : rest[j] = i
          BY <2>1, <2>2, <4>2
        <5>. QED  BY <1>7, <2>4, <3>3, <4>2, <5>1
      <4>. QED  BY <4>1, <4>2
    <3>4. \/ Whole(agent, given.tables[t].columns[k], oids)
          \/ \E i \in 1 .. w : active[i].oid = given.tables[t].columns[k]
      BY <2>7, <3>1 DEF ChunkInv, w
    <3>. QED  BY <3>2, <3>3, <3>4
  <2>8. scalar \in Nat
    BY DEF ChunkInv
  <2>9. failures' = failures
    BY <1>3, <1>9
  <2>10. agent' = agent /\ given' = given /\ pc' = "loop" /\ scalar' = scalar
    BY <1>3
  <2>11. Len(active') <= MaxVars
    BY <2>4, <2>5
  <2>12. \A i \in 1 .. Len(active') : IsColumn(active'[i]) /\ Began(agent', active'[i].oid, active'[i].cursor, oids')
    BY <2>4, <2>6, <2>10
  <2>13. failures' = {} =>
           \A t \in 1 .. Len(given'.tables) : \A k \in 1 .. Len(given'.tables[t].columns) :
             Opened(t, k)' => \/ Whole(agent', given'.tables[t].columns[k], oids')
                              \/ \E i \in 1 .. Len(active') : active'[i].oid = given'.tables[t].columns[k]
    BY <2>4, <2>7, <2>9, <2>10
  <2>. QED  BY <2>8, <2>10, <2>11, <2>12, <2>13 DEF ChunkInv
<1>. QED  BY <1>8, <1>9

\* What the trial does without an answer.
LEMMA ChunkTurns ==
  ASSUME TrialInv, TablesInv, ChunkInv, UNCHANGED <<given, agent>>
  PROVE  /\ TableDone => ChunkInv'
         /\ TablesDone => ChunkInv'
         /\ ChunkDone => ChunkInv'
         /\ Ask => ChunkInv'
         /\ CutOff => ChunkInv'
         /\ ScalarsAnswered => ChunkInv'
<1>1. chunk \in Nat \ {0} /\ table \in Nat \ {0} /\ MaxVars \in Nat \ {0} /\ scalar \in Nat
  BY WalkAssumption DEF TrialInv, ChunkInv
<1>2. ASSUME TableDone  PROVE ChunkInv'
  <2>. DEFINE cs == given.tables[table].columns
  <2>1. /\ pc = "chunk" /\ table <= Len(given.tables) /\ chunk > ChunksOf(cs)
        /\ table' = table + 1 /\ chunk' = 1
        /\ UNCHANGED <<pc, scalar, failures, err, active, oids>>
    BY <1>2 DEF TableDone, Asked, result
  <2>2. table \in 1 .. Len(given.tables)
    BY <1>1, <2>1
  <2>3. Len(cs) \in Nat
    BY <2>2, AskedShape
  <2>. HIDE DEF cs
  <2>. DEFINE lo == (chunk - 1) * MaxVars
  <2>4. lo \in Nat /\ Len(cs) <= lo
    <3>. DEFINE x == Len(cs) + MaxVars - 1
                q == x \div MaxVars
                d == chunk - 1
    <3>1. x \in Nat /\ d \in Nat /\ chunk > q
      BY <1>1, <2>1, <2>3 DEF ChunksOf
    <3>2. q \in Nat /\ x < MaxVars * q + MaxVars
      <4>. HIDE DEF x, d
      <4>. QED  BY <1>1, <3>1, Division
    <3>. HIDE DEF q
    <3>3. q <= d
      BY <1>1, <3>1, <3>2
    <3>4. lo = d * MaxVars
      OBVIOUS
    <3>. HIDE DEF d, lo
    <3>5. MaxVars * q <= d * MaxVars /\ d * MaxVars \in Nat /\ MaxVars * q \in Nat
      BY <1>1, <3>1, <3>2, <3>3
    <3>6. PICK y \in Nat : y = MaxVars * q
      BY <3>5
    <3>7. y <= lo /\ x < y + MaxVars /\ lo \in Nat
      BY <3>2, <3>4, <3>5, <3>6
    <3>. QED  BY <1>1, <2>3, <3>6, <3>7
  <2>5. ASSUME NEW t \in 1 .. Len(given.tables), NEW k \in 1 .. Len(given.tables[t].columns), Opened(t, k)'
        PROVE  Opened(t, k)
    <3>1. t \in Nat /\ pc' = "chunk" /\ (t < table + 1 \/ (t = table + 1 /\ k <= (1 - 1) * MaxVars))
      BY <2>1, <2>5 DEF Opened
    <3>2. ~(k <= (1 - 1) * MaxVars)
      BY <1>1
    <3>3. t < table \/ t = table
      BY <1>1, <3>1, <3>2
    <3>4. t = table => k <= lo
      <4>1. t = table => k \in 1 .. Len(cs)
        BY DEF cs
      <4>. HIDE DEF lo
      <4>. QED  BY <2>3, <2>4, <4>1
    <3>. QED  BY <3>3, <3>4 DEF Opened
  <2>. QED  BY <2>1, <2>5 DEF ChunkInv
<1>3. ASSUME TablesDone  PROVE ChunkInv'
  <2>1. /\ pc = "chunk" /\ table > Len(given.tables) /\ pc' = "scalars"
        /\ UNCHANGED <<table, chunk, scalar, failures, err, active, oids>>
    BY <1>3 DEF TablesDone, result
  <2>2. \A t, k : Opened(t, k)' => Opened(t, k)
    BY <2>1 DEF Opened
  <2>. QED  BY <2>1, <2>2 DEF ChunkInv
<1>4. ASSUME ChunkDone  PROVE ChunkInv'
  <2>1. /\ pc = "loop" /\ active = <<>> /\ pc' = "chunk" /\ chunk' = chunk + 1
        /\ UNCHANGED <<table, scalar, failures, err, active, oids>>
    BY <1>4 DEF ChunkDone, result
  <2>2. (chunk + 1) - 1 = chunk
    BY <1>1
  <2>3. \A t, k : Opened(t, k)' => Opened(t, k)
    BY <2>1, <2>2 DEF Opened
  <2>. QED  BY <2>1, <2>3 DEF ChunkInv
<1>5. ASSUME Ask  PROVE ChunkInv'
  <2>1. /\ pc = "loop" /\ pc' = "bulk"
        /\ UNCHANGED <<table, chunk, scalar, failures, err, active, oids>>
    BY <1>5 DEF Ask, result
  <2>2. \A t, k : Opened(t, k)' => Opened(t, k)
    BY <2>1 DEF Opened
  <2>. QED  BY <2>1, <2>2 DEF ChunkInv
<1>6. ASSUME CutOff  PROVE ChunkInv'
  <2>1. /\ pc = "loop" /\ pc' = "done" /\ err' = "context"
        /\ UNCHANGED <<table, chunk, scalar, failures, active, oids>>
    BY <1>6 DEF CutOff, result
  <2>2. \A t, k : Opened(t, k)' => Opened(t, k)
    BY <2>1 DEF Opened
  <2>. QED  BY <2>1, <2>2 DEF ChunkInv
<1>7. ASSUME ScalarsAnswered  PROVE ChunkInv'
  <2>1. /\ pc = "scalars" /\ scalar' = scalar + MaxVars
        /\ UNCHANGED <<pc, table, chunk, failures, err, active, oids>>
    BY <1>7 DEF ScalarsAnswered, result
  <2>2. \A t, k : Opened(t, k)' => Opened(t, k)
    BY <2>1 DEF Opened
  <2>3. scalar' \in Nat
    BY <1>1, <2>1
  <2>. QED  BY <2>1, <2>2, <2>3 DEF ChunkInv
<1>. QED  BY <1>2, <1>3, <1>4, <1>5, <1>6, <1>7

\* Before the first scalar every column has been read, unless something failed.
LEMMA AllIsRead ==
  ASSUME TrialInv, TablesInv, ChunkInv, pc = "scalars", failures = {}
  PROVE  AllRead
<1>. SUFFICES ASSUME NEW t \in 1 .. Len(given.tables), NEW c \in ToSet(given.tables[t].columns)
              PROVE  Whole(agent, c, oids)
  BY DEF AllRead
<1>1. PICK k \in 1 .. Len(given.tables[t].columns) : given.tables[t].columns[k] = c
  BY AskedShape
<1>2. table > Len(given.tables) /\ Len(active) = 0
  BY DEF ChunkInv
<1>3. Len(given.tables) \in Nat /\ table \in Nat
  BY DEF TablesInv, TrialInv
<1>4. Opened(t, k)
  BY <1>2, <1>3 DEF Opened
<1>. QED  BY <1>1, <1>2, <1>4 DEF ChunkInv

\* Then no row of the reference is missing.
LEMMA NothingIsMissing ==
  ASSUME agent \in Profiles, TablesInv, AllRead, ObjectsAreNoRows
  PROVE  ~Missed
<1>. DEFINE n == Len(given.reference)
            columns(r) == UNION {ToSet(given.tables[t].columns) :
                                   t \in {t \in DOMAIN given.tables : given.tables[t].base = r}}
            asked(st) == {o \in st.oids : \E c \in columns(st.root) : HasPrefix(o, c)}
<1>1. /\ n \in Nat /\ DOMAIN given.reference = 1 .. n
      /\ DOMAIN given.tables = 1 .. Len(given.tables)
      /\ \A i \in 1 .. n : given.reference[i].oids \subseteq agent.mib
  <2>. DEFINE V == SubtreesOf(agent)
              T == Table
  <2>1. given.reference \in Seq(V) /\ given.tables \in Seq(T)
    BY DEF TablesInv
  <2>2. \A st \in V : st.oids \subseteq agent.mib
    BY DEF SubtreesOf
  <2>. HIDE DEF V, T
  <2>. QED  BY <2>1, <2>2
<1>2. ReferenceOIDs = UNION {{i} \X asked(given.reference[i]) : i \in 1 .. n}
  BY <1>1 DEF ReferenceOIDs
<1>3. ASSUME NEW i \in 1 .. n, NEW o \in asked(given.reference[i])
      PROVE  o \in oids
  <2>. DEFINE st == given.reference[i]
  <2>1. PICK c \in columns(st.root) : HasPrefix(o, c)
    OBVIOUS
  <2>2. PICK t \in 1 .. Len(given.tables) : given.tables[t].base = st.root /\ c \in ToSet(given.tables[t].columns)
    BY <1>1
  <2>3. c \in Under(st.root) /\ c \notin st.oids
    BY <2>2 DEF TablesInv
  <2>4. Rows(agent, st.root, st.oids)
    BY DEF TablesInv, Chained
  <2>5. Sure(agent, c, o)
    BY <2>1, <2>3, <2>4 DEF Rows, SureFound
  <2>6. Whole(agent, c, oids)
    BY <2>2 DEF AllRead
  <2>. QED  BY <2>5, <2>6, SureIsRead
<1>4. \A i \in 1 .. n : asked(given.reference[i]) \subseteq agent.mib
  BY <1>1
<1>. HIDE DEF n, asked
<1>5. Missing = {}
  BY <1>2, <1>3 DEF Missing
<1>6. Cardinality(ReferenceOIDs) \in Nat
  <2>1. ReferenceOIDs \subseteq (1 .. n) \X agent.mib
    BY <1>2, <1>4
  <2>2. IsFiniteSet(1 .. n) /\ IsFiniteSet(agent.mib)
    BY <1>1, FS_Interval, ProfileShape
  <2>3. IsFiniteSet((1 .. n) \X agent.mib)
    BY <2>2, FS_Product
  <2>. QED  BY <2>1, <2>3, FS_Subset, FS_CardinalityType
<1>7. Cardinality(Missing) = 0
  BY <1>5, FS_EmptySet
<1>. DEFINE m == Cardinality(ReferenceOIDs)
<1>8. m \in Nat /\ Tolerance \in Nat
  BY <1>6, WalkAssumption
<1>. HIDE DEF m
<1>9. 100 * 0 = 0 /\ Tolerance * m \in Nat
  BY <1>8
<1>10. PICK y \in Nat : y = Tolerance * m
  BY <1>9
<1>11. ~(100 * 0 > y)
  BY <1>10
<1>. QED  BY <1>7, <1>10, <1>11 DEF Missed, m

\* The walk of the trial ends.
LEMMA ChunkEnds ==
  ASSUME agent \in Profiles, TrialInv, TablesInv, ChunkInv, Finish, UNCHANGED <<given, agent>>
  PROVE  /\ ChunkInv'
         /\ "timeout" \in failures' => "timeout" \in failures
         /\ ObjectsAreNoRows /\ "missing" \in failures' => "missing" \in failures
<1>. DEFINE own == failures \cup (IF truncated THEN {"truncated"} ELSE {})
<1>1. /\ pc = "scalars" /\ pc' = "done"
      /\ failures' = IF own = {} /\ Missed THEN {"missing"} ELSE own
      /\ UNCHANGED <<table, chunk, scalar, err, active, oids>>
  BY DEF Finish, result
<1>2. failures = {} => AllRead
  BY <1>1, AllIsRead
<1>3. ObjectsAreNoRows /\ failures = {} => ~Missed
  BY <1>2, NothingIsMissing
<1>4. failures' = {} => failures = {}
  BY <1>1
<1>5. \A t, k : Opened(t, k)' => Opened(t, k)
  BY <1>1 DEF Opened
<1>6. AllRead => AllRead'
  BY <1>1 DEF AllRead
<1>7. ChunkInv'
  BY <1>1, <1>2, <1>4, <1>5, <1>6 DEF ChunkInv
<1>8. "timeout" \in failures' => "timeout" \in failures
  BY <1>1
<1>9. ObjectsAreNoRows /\ "missing" \in failures' => "missing" \in failures
  BY <1>1, <1>3
<1>. QED  BY <1>7, <1>8, <1>9

\* A request fails: an answer that came too late is a timeout, and that of the context
\* never is.
LEMMA ErrorKinds ==
  ASSUME NEW what \in Mishaps
  PROVE  /\ Classified(ctx, what) \in {"agent", "timeout", "transport", "context"}
         /\ Classified(ctx, what) = "timeout" => what = "timeout" /\ ctx = "live"
BY DEF Mishaps, Classified

LEMMA ChunkFails ==
  ASSUME TablesInv, ChunkInv, NEW e \in {"agent", "timeout", "transport", "context"},
         BulkFails(e) \/ ScalarsFail(e), UNCHANGED <<given, agent>>
  PROVE  /\ ChunkInv'
         /\ failures' \subseteq failures \cup {e}
         /\ "missing" \in failures' => "missing" \in failures
<1>1. /\ failures' = (IF e \in OfAgent THEN failures \cup {e} ELSE failures)
      /\ err' = (IF e \in OfAgent THEN err ELSE e)
      /\ UNCHANGED <<table, chunk, active, oids>>
      /\ pc' = "done" \/ (pc' = pc /\ pc = "scalars" /\ e \in OfAgent)
      /\ scalar' = scalar \/ scalar' = given.scalars
  BY DEF BulkFails, ScalarsFail, Note, result
<1>2. e \in OfAgent => failures' # {}
  BY <1>1
<1>3. e \notin OfAgent => err' # "none" /\ failures' = failures /\ pc' = "done"
  BY <1>1 DEF OfAgent
<1>4. e \notin OfAgent => \A t, k : Opened(t, k)' => Opened(t, k)
  BY <1>1, <1>3 DEF Opened
<1>5. scalar' \in Nat
  BY <1>1 DEF TablesInv, ChunkInv
<1>6. failures' \subseteq failures \cup {e}
  BY <1>1
<1>7. "missing" \in failures' => "missing" \in failures
  BY <1>6
<1>8. ChunkInv'
  <2>1. CASE e \in OfAgent
    BY <1>1, <1>2, <1>5, <2>1 DEF ChunkInv
  <2>2. CASE e \notin OfAgent
    BY <1>1, <1>3, <1>4, <1>5, <2>2 DEF ChunkInv
  <2>. QED  BY <2>1, <2>2
<1>. QED  BY <1>6, <1>7, <1>8

\* Only an agent that is slower than the largest response is late.
LEMMA LateIsSlow ==
  ASSUME agent \in Profiles, NEW n \in Int, ~InTime(agent, n), n <= MaxVars * Reps
  PROVE  agent.slow < MaxVars * Reps
<1>1. agent.slow \in Nat
  BY SessionAssumption
<1>2. MaxVars * Reps \in Nat
  BY WalkAssumption
<1>3. PICK y \in Nat : y = MaxVars * Reps
  BY <1>2
<1>4. agent.slow < n
  BY <1>1 DEF InTime
<1>5. agent.slow < y
  BY <1>1, <1>3, <1>4
<1>. QED  BY <1>3, <1>5

LEMMA LateBulk ==
  ASSUME agent \in Profiles, TrialInv, ChunkInv, pc = "bulk", BulkGoesWrong("timeout"), ctx = "live"
  PROVE  agent.slow < MaxVars * Reps
<1>. DEFINE resp == GetBulk(agent, Cursors, Reps)
            w == Len(active)
<1>1. ~Refuses(agent, Cursors, Reps) /\ RepliesToBulk = {}
  BY DEF BulkGoesWrong, GoesWrong, Done
<1>2. ~InTime(agent, Len(resp))
  BY <1>1 DEF RepliesToBulk, Replies
<1>3. w \in Nat \ {0} /\ Len(Cursors) = w /\ w <= MaxVars /\ Reps \in Nat /\ MaxVars \in Nat
  BY ActiveCursors, WalkAssumption DEF ChunkInv
<1>. HIDE DEF w
<1>4. resp \in Seq(agent.mib \cup {End}) /\ Len(resp) <= Reps * w
  BY <1>3, BulkAnswers
<1>5. Len(resp) \in Nat
  BY <1>4
<1>6. Reps * w <= Reps * MaxVars /\ Reps * MaxVars = MaxVars * Reps /\ Reps * w \in Nat /\ Reps * MaxVars \in Nat
  BY <1>3
<1>. HIDE DEF resp
<1>7. PICK x \in Nat, y \in Nat : x = Reps * w /\ y = Reps * MaxVars
  BY <1>6
<1>8. Len(resp) <= y
  BY <1>4, <1>5, <1>6, <1>7
<1>9. Len(resp) <= MaxVars * Reps
  BY <1>6, <1>7, <1>8
<1>. QED  BY <1>2, <1>5, <1>9, LateIsSlow

LEMMA LateScalars ==
  ASSUME agent \in Profiles, TablesInv, ChunkInv, GoesWrong("timeout", FALSE, LateGet), ctx = "live"
  PROVE  agent.slow < MaxVars * Reps
<1>. DEFINE n == Capped(given.scalars - scalar, MaxVars)
<1>1. ~InTime(agent, n)
  BY DEF GoesWrong, Done, LateGet
<1>2. MaxVars \in Nat \ {0} /\ Reps \in Nat \ {0} /\ given.scalars \in Nat /\ scalar \in Nat
  BY WalkAssumption DEF TablesInv, ChunkInv
<1>3. n \in Int /\ n <= MaxVars
  BY <1>2 DEF Capped
<1>4. MaxVars * 1 <= MaxVars * Reps /\ MaxVars * 1 = MaxVars
  BY <1>2
<1>. HIDE DEF n
<1>5. n <= MaxVars * Reps
  <2>1. PICK y \in Nat : y = MaxVars * Reps
    BY <1>2
  <2>2. n <= y
    BY <1>2, <1>3, <1>4, <2>1
  <2>. QED  BY <2>1, <2>2
<1>. QED  BY <1>1, <1>3, <1>5, LateIsSlow

\* A step of the trial.
LEMMA TrialChain ==
  ASSUME MainInv, TrialInv, TablesInv, ChunkInv, BlameInv, TrialStep
  PROVE  ChunkInv' /\ BlameInv'
<1>1. /\ phase = "trial" /\ exit # 0
      /\ UNCHANGED <<given, ctx, agent, phase, exit>>
  BY DEF TrialStep, env, mainVars, MainInv, NoExit
<1>2. agent \in Profiles
  BY DEF MainInv
<1>. DEFINE Kept == /\ ChunkInv'
                    /\ "timeout" \in failures' => "timeout" \in failures \/ agent.slow < MaxVars * Reps
                    /\ ObjectsAreNoRows /\ "missing" \in failures' => "missing" \in failures
<1>3. ASSUME WalkTurns  PROVE Kept
  <2>1. CASE OpenChunk
    BY <1>1, <2>1, ChunkOpens DEF OpenChunk
  <2>2. CASE Finish
    BY <1>1, <1>2, <2>2, ChunkEnds
  <2>3. CASE TableDone \/ TablesDone \/ ChunkDone \/ Ask \/ CutOff \/ ScalarsAnswered
    <3>1. failures' = failures
      BY <2>3 DEF TableDone, TablesDone, ChunkDone, Ask, CutOff, ScalarsAnswered
    <3>2. ChunkInv'
      BY <1>1, <2>3, ChunkTurns
    <3>. QED  BY <3>1, <3>2
  <2>. QED  BY <1>3, <2>1, <2>2, <2>3 DEF WalkTurns
<1>4. ASSUME NEW what \in Mishaps,
             \/ pc = "bulk" /\ BulkGoesWrong(what) /\ BulkFails(Classified(ctx, what))
             \/ GoesWrong(what, FALSE, LateGet) /\ ScalarsFail(Classified(ctx, what))
      PROVE  Kept
  <2>1. PICK e : e = Classified(ctx, what)
    OBVIOUS
  <2>2. e \in {"agent", "timeout", "transport", "context"} /\ (e = "timeout" => what = "timeout" /\ ctx = "live")
    BY <2>1, ErrorKinds
  <2>3. BulkFails(e) \/ ScalarsFail(e)
    BY <1>4, <2>1
  <2>4. /\ ChunkInv' /\ failures' \subseteq failures \cup {e}
        /\ "missing" \in failures' => "missing" \in failures
    BY <1>1, <2>2, <2>3, ChunkFails
  <2>5. e = "timeout" => agent.slow < MaxVars * Reps
    <3>. SUFFICES ASSUME e = "timeout"  PROVE agent.slow < MaxVars * Reps
      OBVIOUS
    <3>1. what = "timeout" /\ ctx = "live"
      BY <2>2
    <3>2. CASE pc = "bulk" /\ BulkGoesWrong(what)
      <4>1. BulkGoesWrong("timeout")
        BY <3>1, <3>2
      <4>. QED  BY <1>2, <3>1, <3>2, <4>1, LateBulk
    <3>3. CASE GoesWrong(what, FALSE, LateGet)
      <4>1. GoesWrong("timeout", FALSE, LateGet)
        BY <3>1, <3>3, Zenon
      <4>. QED  BY <1>2, <3>1, <4>1, LateScalars
    <3>. QED  BY <1>4, <3>2, <3>3
  <2>. QED  BY <2>4, <2>5
<1>5. ASSUME pc = "bulk", NEW resp \in RepliesToBulk, Answer(resp)  PROVE Kept
  <2>1. failures' = failures \/ failures' = failures \cup {"empty"}
    BY <1>5 DEF Answer
  <2>. QED  BY <1>1, <1>5, <2>1, ChunkAnswers
<1>6. Kept
  BY <1>3, <1>4, <1>5 DEF TrialStep
<1>7. BlameInv'
  <2>1. "timeout" \in failures' => agent'.slow < MaxVars * Reps
    BY <1>1, <1>6 DEF BlameInv
  <2>2. ObjectsAreNoRows => "missing" \notin failures'
    BY <1>6 DEF BlameInv
  <2>. QED  BY <1>1, <2>1, <2>2 DEF BlameInv
<1>. QED  BY <1>6, <1>7

-----------------------------------------------------------------------------
(* The workload and the chain.                                             *)

\* The scalars of the group are counted.
LEMMA ScalarsAreCounted ==
  ASSUME NEW l \in Lines
  PROVE  Len(Groups[l].scalars) \in Nat
<1>. DEFINE objs == l.objs
            Object == [oid : Seq(Arc), instance : Seq(Arc)]
            places == {i \in DOMAIN objs : IsScalar(objs[i])}
            kept == Picked(objs, places)
            of == [i \in DOMAIN kept |-> OIDOf(kept[i])]
            V == {OIDOf(kept[i]) : i \in DOMAIN kept}
<1>1. objs \in Seq(Object)
  BY SessionAssumption
<1>2. Groups[l].scalars = Distinct(of)
  <2>1. Groups[l].scalars = Scalars(l.objs)
    BY DEF Groups
  <2>. QED  BY <2>1 DEF Scalars, Mapped, Keep
<1>. HIDE DEF objs, Object
<1>3. places \in SUBSET (1 .. Len(objs))
  BY <1>1
<1>. HIDE DEF places
<1>4. kept \in Seq(Object)
  BY <1>1, <1>3, PickedType
<1>. HIDE DEF kept
<1>5. of \in Seq(V)
  <2>1. Len(kept) \in Nat /\ DOMAIN kept = 1 .. Len(kept)
    BY <1>4
  <2>2. \A i \in 1 .. Len(kept) : OIDOf(kept[i]) \in V
    BY <2>1
  <2>. HIDE DEF V
  <2>. QED  BY <2>1, <2>2
<1>. HIDE DEF of, V
<1>6. Distinct(of) \in Seq(V)
  BY <1>5, DistinctType
<1>. QED  BY <1>2, <1>6

\* The workload that is handed to the trials.
LEMMA WorkloadChain ==
  ASSUME MainInv, WalkInv, RefInv, phase = "reference", refPc = "done", agent' = agent,
         given' = [tables |-> Tables, scalars |-> Len(Group.scalars), reference |-> Complete]
  PROVE  TablesInv'
<1>1. /\ Complete \in Seq(SubtreesOf(agent)) /\ Tables \in Seq(Table)
      /\ \A k \in 1 .. Len(Complete) :
           \E i \in 1 .. Len(subtrees) : Complete[k] = subtrees[i] /\ ~subtrees[i].partial
      /\ \A t \in 1 .. Len(Tables) :
           \/ \E k \in 1 .. Len(Complete) : Tables[t] = FromSubtree(Complete[k])
           \/ \E j \in 1 .. Len(Groups[line].tables) : Tables[t] = Groups[line].tables[j]
  BY TablesMade
<1>2. agent \in Profiles /\ line \in Lines
  BY DEF MainInv
<1>3. ASSUME NEW k \in 1 .. Len(Complete)
      PROVE  /\ Complete[k] \in SubtreesOf(agent) /\ Chained(agent, Complete[k])
             /\ Complete[k].root \in Seq(Arc) /\ Complete[k].oids \subseteq agent.mib
  <2>. DEFINE V == SubtreesOf(agent)
  <2>1. Complete[k] \in V
    <3>1. Complete \in Seq(V)
      BY <1>1
    <3>. HIDE DEF V
    <3>. QED  BY <3>1
  <2>2. Chained(agent, Complete[k])
    BY <1>1 DEF RefInv, ChainedAll
  <2>. QED  BY <2>1, <2>2 DEF SubtreesOf
<1>4. ASSUME NEW t \in 1 .. Len(Tables), NEW c \in ToSet(Tables[t].columns)
      PROVE  /\ c \in Under(Tables[t].base)
             /\ ObjectsAreNoRows =>
                  \A s \in 1 .. Len(Complete) : Complete[s].root = Tables[t].base => c \notin Complete[s].oids
  <2>1. ASSUME NEW k \in 1 .. Len(Complete), Tables[t] = FromSubtree(Complete[k])
        PROVE  /\ c \in Under(Tables[t].base)
               /\ \A s \in 1 .. Len(Complete) : Complete[s].root = Tables[t].base => c \notin Complete[s].oids
    <3>1. Tables[t].base = Complete[k].root /\ Columned(Tables[t], Complete[k].oids)
      BY <1>2, <1>3, <2>1, SubtreeColumns
    <3>2. c \in Under(Tables[t].base) /\ c \notin Complete[k].oids
      BY <3>1 DEF Columned
    <3>3. ASSUME NEW s \in 1 .. Len(Complete), Complete[s].root = Tables[t].base
          PROVE  Complete[s].oids \subseteq Complete[k].oids
      <4>1. PICK r, rows, got : r = Complete[k].root /\ rows = Complete[s].oids /\ got = Complete[k].oids
        OBVIOUS
      <4>2. r \in Seq(Arc) /\ Rows(agent, r, rows) /\ (agent.most > 0 => Whole(agent, r, got))
        BY <1>3, <3>1, <3>3, <4>1 DEF Chained
      <4>3. rows \subseteq got
        BY <1>2, <4>2, SameRows
      <4>. QED  BY <4>1, <4>3
    <3>. QED  BY <3>2, <3>3
  <2>2. ASSUME NEW j \in 1 .. Len(Groups[line].tables), Tables[t] = Groups[line].tables[j]
        PROVE  /\ c \in Under(Tables[t].base)
               /\ ObjectsAreNoRows =>
                    \A s \in 1 .. Len(Complete) : Complete[s].root = Tables[t].base => c \notin Complete[s].oids
    <3>1. c \in Under(Tables[t].base) /\ \E i \in DOMAIN line.objs : ~IsScalar(line.objs[i]) /\ c = line.objs[i].oid
      <4>1. PICK l, g : l = line /\ g = Groups[l].tables[j]
        OBVIOUS
      <4>2. l \in Lines /\ j \in 1 .. Len(Groups[l].tables) /\ c \in ToSet(Groups[l].tables[j].columns)
            /\ Tables[t] = Groups[l].tables[j]
        BY <1>2, <2>2, <4>1
      <4>3. /\ c \in Under(Groups[l].tables[j].base)
            /\ \E i \in DOMAIN l.objs : ~IsScalar(l.objs[i]) /\ c = l.objs[i].oid
        BY <4>2, GroupColumns
      <4>4. c \in Under(Tables[t].base)
        BY <4>2, <4>3
      <4>. QED  BY <4>1, <4>3, <4>4
    <3>2. ObjectsAreNoRows => c \notin agent.mib
      BY <1>2, <3>1 DEF ObjectsAreNoRows
    <3>. QED  BY <1>3, <3>1, <3>2
  <2>. QED  BY <1>1, <2>1, <2>2
<1>5. given'.tables = Tables /\ given'.reference = Complete /\ given'.scalars = Len(Group.scalars)
  OBVIOUS
<1>6. Len(Group.scalars) \in Nat
  BY <1>2, ScalarsAreCounted DEF Group
<1>7. \A t \in 1 .. Len(given'.tables) : \A c \in ToSet(given'.tables[t].columns) :
        /\ c \in Under(given'.tables[t].base)
        /\ ObjectsAreNoRows =>
             \A s \in 1 .. Len(given'.reference) :
               given'.reference[s].root = given'.tables[t].base => c \notin given'.reference[s].oids
  BY <1>4, <1>5
<1>8. /\ given'.tables \in Seq(Table) /\ given'.scalars \in Nat
      /\ given'.reference \in Seq(SubtreesOf(agent'))
      /\ \A s \in 1 .. Len(given'.reference) : Chained(agent', given'.reference[s])
  BY <1>1, <1>3, <1>5, <1>6
<1>. QED  BY <1>7, <1>8 DEF TablesInv

\* A root that was named has its table, unless a walk of it was partial.
LEMMA NamedTables ==
  ASSUME MainInv, WalkInv, RefInv, phase = "reference", refPc = "done",
         NEW r \in ToSet(line.oids)
  PROVE  \/ \E i \in 1 .. Len(subtrees) : subtrees[i].root = r /\ subtrees[i].partial
         \/ \E t \in 1 .. Len(Tables), s \in 1 .. Len(Complete) :
              /\ Tables[t].base = r /\ Complete[s].root = r
              /\ Columned(Tables[t], Complete[s].oids)
<1>1. /\ Complete \in Seq(SubtreesOf(agent))
      /\ \A k \in 1 .. Len(Complete) :
           \E i \in 1 .. Len(subtrees) : Complete[k] = subtrees[i] /\ ~subtrees[i].partial
      /\ \A i \in 1 .. Len(subtrees) :
           ~subtrees[i].partial => \E k \in 1 .. Len(Complete) : Complete[k] = subtrees[i]
      /\ \A i \in 1 .. Len(RootsOf(line)) :
           i \in 1 .. Len(subtrees) /\ subtrees[i].root = RootsOf(line)[i]
      /\ \A k \in 1 .. Len(Complete) :
           Complete[k].root \in ToSet(line.oids) /\ Complete[k].root \notin Partial =>
             \E t \in 1 .. Len(Tables) : Tables[t] = FromSubtree(Complete[k])
  BY TablesMade
<1>2. agent \in Profiles /\ line \in Lines
  BY DEF MainInv
<1>3. DOMAIN subtrees = 1 .. Len(subtrees)
  BY DEF WalkInv
<1>4. CASE r \in Partial
  <2>1. PICK i \in DOMAIN subtrees : subtrees[i].partial /\ subtrees[i].root = r
    BY <1>4 DEF Partial
  <2>. QED  BY <1>3, <2>1
<1>5. CASE r \notin Partial
  <2>1. PICK n \in DOMAIN line.oids : line.oids[n] = r
    BY DEF ToSet
  <2>2. PICK i \in 1 .. Len(RootsOf(line)) : RootsOf(line)[i] = r
    BY <1>2, <2>1, RootsType
  <2>3. i \in 1 .. Len(subtrees) /\ subtrees[i].root = r
    BY <1>1, <2>2
  <2>4. ~subtrees[i].partial
    <3>. SUFFICES ASSUME subtrees[i].partial  PROVE FALSE
      OBVIOUS
    <3>1. r \in Partial
      BY <1>3, <2>3 DEF Partial
    <3>. QED  BY <1>5, <3>1
  <2>5. PICK k \in 1 .. Len(Complete) : Complete[k] = subtrees[i]
    BY <1>1, <2>3, <2>4
  <2>6. PICK t \in 1 .. Len(Tables) : Tables[t] = FromSubtree(Complete[k])
    BY <1>1, <1>5, <2>3, <2>5
  <2>7. Chained(agent, Complete[k])
    BY <2>3, <2>4, <2>5 DEF RefInv, ChainedAll
  <2>8. Complete[k] \in SubtreesOf(agent)
    <3>. DEFINE V == SubtreesOf(agent)
    <3>1. Complete \in Seq(V)
      BY <1>1
    <3>. HIDE DEF V
    <3>2. Complete[k] \in V
      BY <3>1
    <3>. QED  BY <3>2 DEF V
  <2>9. Tables[t].base = r /\ Columned(Tables[t], Complete[k].oids)
    BY <1>2, <2>3, <2>5, <2>6, <2>7, <2>8, SubtreeColumns
  <2>. QED  BY <2>3, <2>5, <2>9
<1>. QED  BY <1>4, <1>5

-----------------------------------------------------------------------------
(* The steps of the run and the chain.                                     *)

\* What a step that leaves the reference walk, or the trial, alone keeps of the chain.
LEMMA RefKept ==
  ASSUME RefInv, UNCHANGED <<refVars, agent>>
  PROVE  RefInv'
<1>1. UNCHANGED <<roots, refPc, root, cursor, found, subtrees>>
  BY DEF refVars
<1>. QED  BY <1>1 DEF RefInv

LEMMA ChunkKept ==
  ASSUME ChunkInv, UNCHANGED <<walkVars, given, agent>>
  PROVE  ChunkInv'
<1>1. UNCHANGED <<pc, table, chunk, scalar, failures, err, active, oids>>
  BY DEF walkVars, result
<1>2. \A t, k : Opened(t, k)' <=> Opened(t, k)
  BY <1>1 DEF Opened
<1>3. AllRead' <=> AllRead
  BY <1>1 DEF AllRead
<1>. QED  BY <1>1, <1>2, <1>3 DEF ChunkInv

LEMMA TablesKept ==
  ASSUME TablesInv, UNCHANGED <<given, agent>>
  PROVE  TablesInv'
BY DEF TablesInv

LEMMA FreshKept ==
  ASSUME UNCHANGED walkVars
  PROVE  /\ Fresh => Fresh'
         /\ failures' = failures
BY DEF walkVars, result, Fresh

\* Nothing has been opened yet.
LEMMA FreshChunk ==
  ASSUME Fresh
  PROVE  ChunkInv
<1>1. /\ pc = "chunk" /\ table = 1 /\ chunk = 1 /\ scalar = 0 /\ failures = {} /\ active = <<>>
  BY DEF Fresh
<1>2. Len(active) = 0 /\ 1 .. 0 = {} /\ MaxVars \in Nat
  BY <1>1, WalkAssumption
<1>3. ASSUME NEW t \in 1 .. Len(given.tables), NEW k \in 1 .. Len(given.tables[t].columns)
      PROVE  ~Opened(t, k)
  <2>1. (1 - 1) * MaxVars = 0
    BY <1>2
  <2>2. t \in Nat /\ t >= 1 /\ k \in Nat /\ k >= 1
    OBVIOUS
  <2>3. ~(t < 1) /\ ~(k <= 0)
    BY <2>2
  <2>. QED  BY <1>1, <2>1, <2>3 DEF Opened
<1>. QED  BY <1>1, <1>2, <1>3 DEF ChunkInv

LEMMA InitChain ==
  ASSUME Init
  PROVE  ChainInv
<1>1. /\ phase = "preflight" /\ exit = NoExit /\ shown = [subtrees |-> <<>>, partial |-> FALSE]
      /\ Fresh /\ given = [tables |-> <<>>, scalars |-> 0, reference |-> <<>>]
      /\ refPc = "done" /\ subtrees = <<>>
  BY DEF Init
<1>2. (\A V : <<>> \in Seq(V)) /\ Len(<<>>) = 0 /\ 1 .. 0 = {}
  OBVIOUS
<1>3. RefInv /\ ChainedAll(agent, shown.subtrees)
  BY <1>1, <1>2 DEF RefInv, ChainedAll
<1>4. TablesInv
  BY <1>1, <1>2 DEF TablesInv
<1>5. NamedInv
  BY <1>1 DEF NamedInv, NoExit
<1>6. BlameInv
  BY <1>1 DEF BlameInv, Fresh, NoExit
<1>. QED  BY <1>1, <1>3, <1>4, <1>5, <1>6, FreshChunk DEF ChainInv

LEMMA PreflightChain ==
  ASSUME SessionInv, ChainInv, Preflight
  PROVE  ChainInv'
<1>1. /\ phase = "preflight" /\ phase' = "reference" /\ StartWalk(Roots, line.limit)
      /\ UNCHANGED <<line, shown, exit, walkVars, given, agent>>
  BY DEF Preflight, vars, env
<1>2. exit # 0
  BY <1>1 DEF SessionInv, MainInv, NoExit
<1>3. Roots \in Seq(Seq(Arc))
  BY RootsType DEF SessionInv, MainInv, Roots, RootsOf, Group
<1>4. RefInv'
  BY <1>1, <1>3, ChainStarts
<1>5. ChainedAll(agent', shown'.subtrees) /\ TablesInv' /\ ChunkInv'
  BY <1>1, TablesKept, ChunkKept DEF ChainInv
<1>6. NamedInv'
  BY <1>1, <1>2 DEF NamedInv
<1>7. BlameInv'
  BY <1>1, <1>2, FreshKept DEF ChainInv, BlameInv
<1>. QED  BY <1>4, <1>5, <1>6, <1>7 DEF ChainInv

LEMMA ReferenceChain ==
  ASSUME SessionInv, ChainInv, ReferenceStep
  PROVE  ChainInv'
<1>1. UNCHANGED <<phase, line, shown, exit, walkVars, given, agent>>
  BY DEF ReferenceStep, mainVars, vars, env
<1>2. RefInv'
  BY ChainMoves DEF SessionInv, ChainInv
<1>3. ChainedAll(agent', shown'.subtrees) /\ TablesInv' /\ ChunkInv'
  BY <1>1, TablesKept, ChunkKept DEF ChainInv
<1>4. NamedInv'
  BY <1>1 DEF ChainInv, NamedInv
<1>5. AllRead' <=> AllRead
  BY <1>1 DEF AllRead, walkVars, result
<1>6. BlameInv'
  BY <1>1, <1>5, FreshKept DEF ChainInv, BlameInv
<1>. QED  BY <1>2, <1>3, <1>4, <1>6 DEF ChainInv

LEMMA AssembleChain ==
  ASSUME SessionInv, ChainInv, Assemble
  PROVE  ChainInv'
<1>1. /\ phase = "reference" /\ refPc = "done" /\ UNCHANGED <<line, walkVars, agent>>
      /\ shown' = [subtrees |-> subtrees, partial |-> IsPartial(subtrees)]
      /\ \/ phase' = "exit" /\ exit' = 1 /\ UNCHANGED <<given, refVars>>
         \/ /\ given' = [tables |-> Tables, scalars |-> Len(Group.scalars), reference |-> Complete]
            /\ exit' = exit
            /\ \/ phase' = "trial" /\ UNCHANGED refVars
               \/ phase' = "tree" /\ StartWalk(<<line.tree>>, line.limit)
  BY DEF Assemble, Exit
<1>2. exit # 0 /\ line \in Lines
  BY <1>1 DEF SessionInv, MainInv, NoExit
<1>3. RefInv'
  <2>1. CASE UNCHANGED refVars
    BY <1>1, <2>1, RefKept DEF ChainInv
  <2>2. CASE StartWalk(<<line.tree>>, line.limit)
    <3>1. line.tree \in Seq(Arc)
      BY <1>2, RootsType
    <3>2. <<line.tree>> \in Seq(Seq(Arc))
      BY <3>1
    <3>. QED  BY <1>1, <2>2, <3>2, ChainStarts
  <2>. QED  BY <1>1, <2>1, <2>2
<1>4. ChainedAll(agent', shown'.subtrees)
  BY <1>1 DEF ChainInv, RefInv
<1>5. TablesInv'
  BY <1>1, TablesKept, WorkloadChain DEF SessionInv, ChainInv
<1>6. Fresh /\ Fresh' /\ failures' = failures
  BY <1>1, FreshKept DEF ChainInv, BlameInv
<1>7. ChunkInv'
  BY <1>6, FreshChunk, PTL
<1>8. NamedInv'
  <2>1. CASE phase' = "exit" /\ exit' = 1
    BY <2>1 DEF NamedInv
  <2>2. CASE given' = [tables |-> Tables, scalars |-> Len(Group.scalars), reference |-> Complete]
    <3>1. given'.tables = Tables /\ given'.reference = Complete /\ shown'.subtrees = subtrees /\ line' = line
      BY <1>1, <2>2
    <3>2. ASSUME NEW r \in ToSet(line.oids)
          PROVE  \/ \E i \in 1 .. Len(subtrees) : subtrees[i].root = r /\ subtrees[i].partial
                 \/ \E t \in 1 .. Len(Tables), s \in 1 .. Len(Complete) :
                      /\ Tables[t].base = r /\ Complete[s].root = r
                      /\ Columned(Tables[t], Complete[s].oids)
      BY <1>1, NamedTables DEF SessionInv, ChainInv
    <3>. QED  BY <3>1, <3>2 DEF NamedInv
  <2>. QED  BY <1>1, <2>1, <2>2
<1>9. BlameInv'
  BY <1>1, <1>2, <1>6 DEF ChainInv, BlameInv
<1>. QED  BY <1>3, <1>4, <1>5, <1>7, <1>8, <1>9 DEF ChainInv

LEMMA TreeChain ==
  ASSUME SessionInv, ChainInv, TreeDone
  PROVE  ChainInv'
<1>. DEFINE V == SubtreesOf(agent)
            before == shown.subtrees
            sts == before \o subtrees
<1>1. /\ phase = "tree" /\ phase' = "trial" /\ shown' = Joined(shown, subtrees)
      /\ UNCHANGED <<line, exit, refVars, walkVars, given, agent>>
  BY DEF TreeDone, vars, env
<1>2. before \in Seq(V) /\ subtrees \in Seq(V)
  BY DEF SessionInv, ShownInv, WalkInv
<1>3. shown'.subtrees = sts
  BY <1>1 DEF Joined
<1>. HIDE DEF V, before
<1>4. /\ Len(before) \in Nat /\ Len(sts) = Len(before) + Len(subtrees)
      /\ \A i \in 1 .. Len(before) : i \in 1 .. Len(sts) /\ sts[i] = before[i]
      /\ \A i \in 1 .. Len(sts) : i \notin 1 .. Len(before) =>
           /\ i - Len(before) \in 1 .. Len(subtrees)
           /\ sts[i] = subtrees[i - Len(before)]
  BY <1>2
<1>5. ChainedAll(agent, sts)
  <2>. SUFFICES ASSUME NEW i \in 1 .. Len(sts), ~sts[i].partial  PROVE Chained(agent, sts[i])
    BY DEF ChainedAll
  <2>1. CASE i \in 1 .. Len(before)
    BY <1>4, <2>1 DEF ChainInv, ChainedAll, before
  <2>2. CASE i \notin 1 .. Len(before)
    <3>1. PICK j \in 1 .. Len(subtrees) : sts[i] = subtrees[j]
      BY <1>4, <2>2
    <3>. QED  BY <3>1 DEF ChainInv, RefInv, ChainedAll
  <2>. QED  BY <2>1, <2>2
<1>6. NamedInv'
  <2>. SUFFICES ASSUME NEW r \in ToSet(line.oids)
                PROVE  \/ \E i \in 1 .. Len(sts) : sts[i].root = r /\ sts[i].partial
                       \/ \E t \in 1 .. Len(given.tables), s \in 1 .. Len(given.reference) :
                            /\ given.tables[t].base = r /\ given.reference[s].root = r
                            /\ Columned(given.tables[t], given.reference[s].oids)
    BY <1>1, <1>3 DEF NamedInv
  <2>. HIDE DEF sts
  <2>1. \/ \E i \in 1 .. Len(before) : before[i].root = r /\ before[i].partial
        \/ \E t \in 1 .. Len(given.tables), s \in 1 .. Len(given.reference) :
             /\ given.tables[t].base = r /\ given.reference[s].root = r
             /\ Columned(given.tables[t], given.reference[s].oids)
    BY <1>1 DEF ChainInv, NamedInv, before
  <2>2. CASE \E i \in 1 .. Len(before) : before[i].root = r /\ before[i].partial
    BY <1>4, <2>2
  <2>. QED  BY <2>1, <2>2
<1>7. RefInv' /\ TablesInv' /\ ChunkInv'
  BY <1>1, RefKept, TablesKept, ChunkKept DEF ChainInv
<1>8. exit # 0
  BY <1>1 DEF SessionInv, MainInv, NoExit
<1>9. BlameInv'
  BY <1>1, <1>8, FreshKept DEF ChainInv, BlameInv
<1>. QED  BY <1>1, <1>3, <1>5, <1>6, <1>7, <1>9 DEF ChainInv

LEMMA TrialKeepsChain ==
  ASSUME SessionInv, ChainInv, TrialStep
  PROVE  ChainInv'
<1>1. UNCHANGED <<given, agent, phase, line, shown, exit, refVars>>
  BY DEF TrialStep, env, mainVars
<1>2. ChunkInv' /\ BlameInv'
  BY TrialChain DEF SessionInv, ChainInv
<1>3. RefInv' /\ TablesInv' /\ ChainedAll(agent', shown'.subtrees)
  BY <1>1, RefKept, TablesKept DEF ChainInv
<1>4. NamedInv'
  BY <1>1 DEF ChainInv, NamedInv
<1>. QED  BY <1>2, <1>3, <1>4 DEF ChainInv

\* The run exits: successfully only after a trial that read everything.
LEMMA ExitChain ==
  ASSUME SessionInv, ChainInv, NEW code \in {0, 1}, Exits(code),
         code = 0 => phase = "trial" /\ pc = "done" /\ failures = {} /\ err = "none"
  PROVE  ChainInv'
<1>1. /\ phase' = "exit" /\ exit' = code
      /\ UNCHANGED <<line, shown, refVars, walkVars, given, agent>>
  BY DEF Exits, Exit, vars, env
<1>2. RefInv' /\ TablesInv' /\ ChunkInv' /\ ChainedAll(agent', shown'.subtrees)
  BY <1>1, RefKept, TablesKept, ChunkKept DEF ChainInv
<1>3. NamedInv'
  BY <1>1 DEF ChainInv, NamedInv
<1>4. AllRead' <=> AllRead
  BY <1>1 DEF AllRead, walkVars, result
<1>5. code = 0 => AllRead
  BY DEF ChainInv, ChunkInv
<1>6. BlameInv'
  BY <1>1, <1>4, <1>5, FreshKept DEF ChainInv, BlameInv
<1>. QED  BY <1>2, <1>3, <1>6 DEF ChainInv

LEMMA StutterChain ==
  ASSUME ChainInv, UNCHANGED <<walkVars, given, agent, mainVars, refVars>>
  PROVE  ChainInv'
<1>1. UNCHANGED <<phase, line, shown, exit>>
  BY DEF mainVars
<1>2. RefInv' /\ TablesInv' /\ ChunkInv' /\ ChainedAll(agent', shown'.subtrees)
  BY <1>1, RefKept, TablesKept, ChunkKept DEF ChainInv
<1>3. NamedInv'
  BY <1>1 DEF ChainInv, NamedInv
<1>4. AllRead' <=> AllRead
  BY DEF AllRead, walkVars, result
<1>5. BlameInv'
  BY <1>1, <1>4, FreshKept DEF ChainInv, BlameInv
<1>. QED  BY <1>2, <1>3, <1>5 DEF ChainInv

LEMMA ChainStep == SessionInv /\ ChainInv /\ [Next]_sessionVars => ChainInv'
<1>. SUFFICES ASSUME SessionInv, ChainInv, [Next]_sessionVars  PROVE ChainInv'
  OBVIOUS
<1>1. CASE Preflight
  BY <1>1, PreflightChain
<1>2. CASE PreflightFails
  BY <1>2, ExitChain DEF PreflightFails
<1>3. CASE ReferenceStep
  BY <1>3, ReferenceChain
<1>4. CASE ReferenceFails
  BY <1>4, ExitChain DEF ReferenceFails
<1>5. CASE Assemble
  BY <1>5, AssembleChain
<1>6. CASE TreeDone
  BY <1>6, TreeChain
<1>7. CASE TrialStep
  BY <1>7, TrialKeepsChain
<1>8. CASE Report
  BY <1>8, ExitChain DEF Report
<1>9. CASE Deadline
  <2>1. UNCHANGED <<walkVars, given, agent, mainVars, refVars>>
    BY <1>9 DEF Deadline, ContextDone
  <2>. QED  BY <2>1, StutterChain
<1>10. CASE UNCHANGED sessionVars
  <2>1. UNCHANGED <<walkVars, given, agent, mainVars, refVars>>
    BY <1>10 DEF sessionVars, vars, env
  <2>. QED  BY <2>1, StutterChain
<1>11. CASE Exited
  BY <1>10, <1>11 DEF Exited
<1>. QED  BY <1>1, <1>2, <1>3, <1>4, <1>5, <1>6, <1>7, <1>8, <1>9, <1>10, <1>11 DEF Next, Step

LEMMA ChainInvariant == Spec => []ChainInv
<1>1. Init => ChainInv
  BY InitChain
<1>2. SessionInv /\ ChainInv /\ [Next]_sessionVars => ChainInv'
  BY ChainStep
<1>. QED  BY <1>1, <1>2, SessionInvariant, PTL DEF Spec

\* Exit code 0 means that the trial read every row that is shown of a root that was
\* named on the command line, unless that root is shown as partial: the columns of
\* the workload, the chunks of package walk and its verdict together lose none.
THEOREM NothingLeftOutHolds == Spec => []NothingLeftOut
<1>1. SessionInv /\ ChainInv => NothingLeftOut
  <2>. SUFFICES ASSUME SessionInv, ChainInv, exit = 0, NEW r \in ToSet(line.oids),
                       NEW i \in DOMAIN shown.subtrees, shown.subtrees[i].root = r,
                       \A j \in DOMAIN shown.subtrees :
                         shown.subtrees[j].root = r => ~shown.subtrees[j].partial,
                       NEW o \in shown.subtrees[i].oids
                PROVE  o \in oids
    BY DEF NothingLeftOut
  <2>. DEFINE rows == shown.subtrees[i].oids
  <2>1. DOMAIN shown.subtrees = 1 .. Len(shown.subtrees) /\ agent \in Profiles
    BY DEF SessionInv, MainInv, ShownInv
  <2>2. PICK t \in 1 .. Len(given.tables), s \in 1 .. Len(given.reference) :
          /\ given.tables[t].base = r /\ given.reference[s].root = r
          /\ Columned(given.tables[t], given.reference[s].oids)
    BY <2>1 DEF ChainInv, NamedInv
  <2>. DEFINE got == given.reference[s].oids
  <2>3. Rows(agent, r, rows)
    BY <2>1 DEF ChainInv, ChainedAll, Chained
  <2>4. Rows(agent, r, got) /\ (agent.most > 0 => Whole(agent, r, got))
    BY <2>2 DEF ChainInv, TablesInv, Chained
  <2>5. r \in Seq(Arc)
    <3>. DEFINE V == SubtreesOf(agent)
    <3>1. shown.subtrees \in Seq(V)
      BY DEF SessionInv, ShownInv
    <3>2. \A st \in V : st.root \in Seq(Arc)
      BY DEF SubtreesOf
    <3>. HIDE DEF V
    <3>. QED  BY <2>1, <3>1, <3>2
  <2>. HIDE DEF rows, got
  <2>6. o \in got
    <3>1. rows \subseteq got
      BY <2>1, <2>3, <2>4, <2>5, SameRows
    <3>. QED  BY <3>1 DEF rows
  <2>7. PICK c \in ToSet(given.tables[t].columns) : HasPrefix(o, c) /\ c \in Under(r) /\ c \notin got
    BY <2>2, <2>6 DEF Columned, got
  <2>8. Sure(agent, c, o)
    BY <2>4, <2>6, <2>7 DEF Rows, SureFound
  <2>9. Whole(agent, c, oids)
    BY <2>7 DEF ChainInv, BlameInv, AllRead
  <2>. QED  BY <2>8, <2>9, SureIsRead
<1>. QED  BY <1>1, SessionInvariant, ChainInvariant, PTL

\* A trial of an agent that answers as it answered the reference walk has no OID
\* missing, when no column object of the group is itself a row of the agent, and times
\* out only when the agent is slow, whether or not the run was interrupted.
THEOREM SameAgentNotBlamedHolds ==
  ASSUME ObjectsAreNoRows
  PROVE  Spec => []SameAgentNotBlamed
<1>1. ChainInv => SameAgentNotBlamed
  BY DEF ChainInv, BlameInv, SameAgentNotBlamed
<1>. QED  BY <1>1, ChainInvariant, PTL
=============================================================================
