----------------------------- MODULE WalkProofs -----------------------------
(***************************************************************************)
(* What a walk promises, for every agent, workload and width: the lemmas   *)
(* go from one column and the varbinds that answer it, over the rows of an *)
(* agent in its own order, to the actions of the walk.                     *)
(***************************************************************************)
EXTENDS WalkAgents, OidProofs

-----------------------------------------------------------------------------
(* The rows of an agent in its own order.                                  *)

LEMMA RankShape ==
  ASSUME agent \in Orders, NEW o \in Seq(Arc)
  PROVE  /\ Rank(o) \in Seq(Arc) /\ Len(Rank(o)) = Len(o)
         /\ \A i \in 1 .. Len(o) : Rank(o)[i] = IF i \in Index(o) THEN agent[o[i]] ELSE o[i]
<1>1. agent \in [Arc -> Arc]
  BY AgentsAssumption DEF Injection
<1>2. \A i \in 1 .. Len(o) : o[i] \in Arc
  OBVIOUS
<1>3. Rank(o) \in [1 .. Len(o) -> Arc]
  BY <1>1, <1>2 DEF Rank
<1>4. Rank(o) \in Seq(Arc) /\ Len(Rank(o)) = Len(o)
  BY <1>3
<1>. QED  BY <1>4 DEF Rank

\* Two OIDs are ranked alike as far as they agree, and at the place where they part.
LEMMA IndexShared ==
  ASSUME NEW a \in Seq(Arc), NEW b \in Seq(Arc), NEW n \in Nat, Agree(a, b, n),
         NEW i \in 1 .. n + 1, i <= Len(a), i <= Len(b)
  PROVE  i \in Index(a) <=> i \in Index(b)
<1>1. \A o \in Seq(Arc) : i <= Len(o) =>
        (i \in Index(o) <=> \E c \in Stems : HasPrefix(o, c) /\ Len(c) < i)
  <2>1. \A c \in Stems : Len(c) \in Nat
    BY AgentsAssumption
  <2>. QED  BY <2>1 DEF Index
<1>2. \A c \in Stems : Len(c) < i => (HasPrefix(a, c) <=> HasPrefix(b, c))
  <2>. SUFFICES ASSUME NEW c \in Stems, Len(c) < i  PROVE HasPrefix(a, c) <=> HasPrefix(b, c)
    OBVIOUS
  <2>1. c \in Seq(Arc)
    BY AgentsAssumption
  <2>2. Agree(c, a, Len(c)) <=> Agree(c, b, Len(c))
    BY <2>1 DEF Agree
  <2>. QED  BY <2>1, <2>2, PrefixAgrees
<1>. QED  BY <1>1, <1>2

LEMMA RankParts ==
  ASSUME agent \in Orders, NEW a \in Seq(Arc), NEW b \in Seq(Arc), NEW n \in Nat, Apart(a, b, n)
  PROVE  Apart(Rank(a), Rank(b), n)
<1>1. Agree(Rank(a), Rank(b), n)
  <2>1. \A i \in 1 .. n : Rank(a)[i] = Rank(b)[i]
    <3>. SUFFICES ASSUME NEW i \in 1 .. n  PROVE Rank(a)[i] = Rank(b)[i]
      OBVIOUS
    <3>1. i \in Index(a) <=> i \in Index(b)
      BY IndexShared DEF Apart, Agree
    <3>2. a[i] = b[i] /\ i \in 1 .. Len(a) /\ i \in 1 .. Len(b)
      BY DEF Apart, Agree
    <3>. QED  BY <3>1, <3>2, RankShape
  <2>. QED  BY <2>1, RankShape DEF Apart, Agree
<1>2. ASSUME n < Len(a), n < Len(b)  PROVE Rank(a)[n + 1] # Rank(b)[n + 1]
  <2>1. n + 1 \in Index(a) <=> n + 1 \in Index(b)
    BY <1>2, IndexShared DEF Apart
  <2>2. a[n + 1] # b[n + 1] /\ n + 1 \in 1 .. Len(a) /\ n + 1 \in 1 .. Len(b)
    BY <1>2 DEF Apart
  <2>3. a[n + 1] \in Arc /\ b[n + 1] \in Arc
    BY <2>2
  <2>4. agent[a[n + 1]] # agent[b[n + 1]]
    BY <2>2, <2>3, AgentsAssumption DEF Injection, IsInjective
  <2>. QED  BY <2>1, <2>2, <2>4, RankShape
<1>. QED  BY <1>1, <1>2, RankShape DEF Apart

\* No two OIDs have the same rank.
LEMMA RankInjective ==
  ASSUME agent \in Orders, NEW a \in Seq(Arc), NEW b \in Seq(Arc), Rank(a) = Rank(b)
  PROVE  a = b
<1>1. PICK n \in Nat : Apart(a, b, n)
  BY SharedApart
<1>2. Apart(Rank(a), Rank(b), n) /\ Len(a) = Len(Rank(a)) /\ Len(b) = Len(Rank(a))
  BY <1>1, RankParts, RankShape
<1>3. ~(n < Len(a))
  BY <1>2 DEF Apart
<1>4. \A i \in 1 .. Len(a) : a[i] = b[i]
  BY <1>1, <1>3 DEF Apart, Agree
<1>5. a \in [1 .. Len(a) -> Arc] /\ b \in [1 .. Len(a) -> Arc]
  BY <1>2
<1>. QED  BY <1>4, <1>5

After(cursor) == {o \in Mib : Less(Rank(cursor), Rank(o))}
ByRank == {q \in Mib \X Mib : ~Less(Rank(q[2]), Rank(q[1]))}

LEMMA AfterLinear ==
  ASSUME agent \in Orders, NEW cursor \in Seq(Arc)
  PROVE  Linear(After(cursor), ByRank) /\ IsFiniteSet(After(cursor))
<1>1. \A a, b \in Mib : <<a, b>> \in ByRank <=> ~Less(Rank(b), Rank(a))
  BY DEF ByRank
<1>2. \A a \in Mib : a \in Seq(Arc) /\ Rank(a) \in Seq(Arc)
  BY RankShape, AgentsAssumption
<1>3. \A a, b \in Mib : Less(Rank(a), Rank(b)) => ~Less(Rank(b), Rank(a))
  BY <1>2, LessIsStrict
<1>4. \A a, b \in Mib : Less(Rank(a), Rank(b)) \/ a = b \/ Less(Rank(b), Rank(a))
  BY <1>2, LessIsTotal, RankInjective
<1>5. \A a, b, c \in Mib : Less(Rank(a), Rank(b)) /\ Less(Rank(b), Rank(c)) => Less(Rank(a), Rank(c))
  BY <1>2, LessIsStrict
<1>6. \A a, b, c \in Mib : ~Less(Rank(b), Rank(a)) /\ ~Less(Rank(c), Rank(b)) => ~Less(Rank(c), Rank(a))
  BY <1>3, <1>4, <1>5
<1>7. After(cursor) \subseteq Mib
  BY DEF After
<1>8. IsFiniteSet(After(cursor))
  BY <1>7, FS_Subset, AgentsAssumption
<1>9. \A a, b \in Mib : <<a, b>> \in ByRank \/ <<b, a>> \in ByRank
  BY <1>1, <1>3
<1>10. \A a, b \in Mib : <<a, b>> \in ByRank /\ <<b, a>> \in ByRank => a = b
  BY <1>1, <1>4
<1>11. \A a, b, c \in Mib : <<a, b>> \in ByRank /\ <<b, c>> \in ByRank => <<a, c>> \in ByRank
  BY <1>1, <1>6
<1>. QED  BY <1>7, <1>8, <1>9, <1>10, <1>11 DEF Linear

\* Row r behind a cursor is End, or the OID with r OIDs from there up to it.
LEMMA RowShape ==
  ASSUME agent \in Orders, NEW cursor \in Seq(Arc), NEW r \in Nat \ {0}
  PROVE  IF r > Cardinality(After(cursor))
           THEN Row(cursor, r) = End
           ELSE /\ Row(cursor, r) \in After(cursor)
                /\ Cardinality(Initial(After(cursor), ByRank, Row(cursor, r))) = r
<1>. DEFINE S == After(cursor)
<1>1. Linear(S, ByRank) /\ IsFiniteSet(S) /\ Cardinality(S) \in Nat
  BY AfterLinear, FS_CardinalityType
<1>2. \A o \in S : {p \in S : ~Less(Rank(o), Rank(p))} = Initial(S, ByRank, o)
  BY DEF Initial, ByRank, After
<1>3. Row(cursor, r) = IF r > Cardinality(S) THEN End
                       ELSE CHOOSE o \in S : Cardinality({p \in S : ~Less(Rank(o), Rank(p))}) = r
  BY DEF Row, After
<1>. HIDE DEF S
<1>4. CASE ~(r > Cardinality(S))
  <2>1. PICK o \in S : Cardinality(Initial(S, ByRank, o)) = r
    BY <1>1, <1>4, PlaceInOrder
  <2>2. \E x \in S : Cardinality({p \in S : ~Less(Rank(x), Rank(p))}) = r
    BY <1>2, <2>1
  <2>3. /\ Row(cursor, r) \in S
        /\ Cardinality({p \in S : ~Less(Rank(Row(cursor, r)), Rank(p))}) = r
    <3>. DEFINE P(x) == Cardinality({p \in S : ~Less(Rank(x), Rank(p))}) = r
    <3>1. Row(cursor, r) = CHOOSE x \in S : P(x)
      BY <1>3, <1>4
    <3>2. \E x \in S : P(x)
      BY <2>2
    <3>. HIDE DEF P
    <3>3. Row(cursor, r) \in S /\ P(Row(cursor, r))
      BY <3>1, <3>2, Zenon
    <3>. QED  BY <3>3 DEF P
  <2>. QED  BY <1>2, <1>4, <2>3 DEF S
<1>. QED  BY <1>3, <1>4 DEF S

\* The rows behind a cursor are the OIDs behind it, in their order, and then End.
LEMMA RowsBehindCursor ==
  ASSUME agent \in Orders, NEW cursor \in Seq(Arc)
  PROVE  /\ \A r \in Nat \ {0} : Row(cursor, r) \in Mib \cup {End}
         /\ \A r \in Nat \ {0} : Row(cursor, r) # End => Less(Rank(cursor), Rank(Row(cursor, r)))
         /\ \A o \in Mib : Less(Rank(cursor), Rank(o)) => \E r \in Nat \ {0} : Row(cursor, r) = o
         /\ \A r \in Nat \ {0}, q \in Nat \ {0} : q < r /\ Row(cursor, r) # End =>
              Row(cursor, q) # End /\ Less(Rank(Row(cursor, q)), Rank(Row(cursor, r)))
<1>. DEFINE S == After(cursor)
            place(o) == Cardinality(Initial(S, ByRank, o))
<1>1. Linear(S, ByRank) /\ IsFiniteSet(S) /\ Cardinality(S) \in Nat
  BY AfterLinear, FS_CardinalityType
<1>2. S \subseteq Mib /\ End \notin Mib /\ \A o \in S : Less(Rank(cursor), Rank(o))
  BY AgentsAssumption DEF After, End
<1>3. \A r \in Nat \ {0} : IF r > Cardinality(S) THEN Row(cursor, r) = End
                           ELSE Row(cursor, r) \in S /\ place(Row(cursor, r)) = r
  BY RowShape
<1>4. \A a, b \in S : /\ place(a) \in 1 .. Cardinality(S)
                      /\ place(a) < place(b) <=> <<a, b>> \in ByRank /\ a # b
  <2>. HIDE DEF S
  <2>. QED  BY <1>1, InitialGrows
<1>5. \A a, b \in S : place(a) < place(b) => Less(Rank(a), Rank(b))
  <2>. SUFFICES ASSUME NEW a \in S, NEW b \in S, place(a) < place(b)
                PROVE  Less(Rank(a), Rank(b))
    OBVIOUS
  <2>1. <<a, b>> \in ByRank /\ a # b
    BY <1>4
  <2>2. ~(<<b, a>> \in ByRank)
    BY <1>1, <2>1 DEF Linear
  <2>. QED  BY <1>2, <2>2 DEF ByRank
<1>6. \A o \in Mib : Less(Rank(cursor), Rank(o)) => o \in S
  BY DEF After
<1>p. \A o \in S : place(o) \in Nat \ {0} /\ ~(place(o) > Cardinality(S))
  <2>. SUFFICES ASSUME NEW o \in S  PROVE place(o) \in Nat \ {0} /\ ~(place(o) > Cardinality(S))
    OBVIOUS
  <2>1. place(o) \in 1 .. Cardinality(S)
    BY <1>4, Zenon
  <2>. HIDE DEF place, S
  <2>. QED  BY <1>1, <2>1
<1>. HIDE DEF S, place
<1>7. \A o \in S : Row(cursor, place(o)) = o
  <2>. SUFFICES ASSUME NEW o \in S  PROVE Row(cursor, place(o)) = o
    OBVIOUS
  <2>1. place(o) \in Nat \ {0} /\ ~(place(o) > Cardinality(S))
    BY <1>p, Zenon
  <2>2. Row(cursor, place(o)) \in S /\ place(Row(cursor, place(o))) = place(o)
    BY <1>3, <2>1
  <2>3. ~(place(o) < place(Row(cursor, place(o)))) /\ ~(place(Row(cursor, place(o))) < place(o))
    BY <2>1, <2>2
  <2>. QED  BY <1>1, <1>4, <2>2, <2>3 DEF Linear
<1>8. \A r, q \in Nat \ {0} : q < r /\ Row(cursor, r) # End =>
        Row(cursor, q) # End /\ Less(Rank(Row(cursor, q)), Rank(Row(cursor, r)))
  <2>. SUFFICES ASSUME NEW r \in Nat \ {0}, NEW q \in Nat \ {0}, q < r, Row(cursor, r) # End
                PROVE  Row(cursor, q) # End /\ Less(Rank(Row(cursor, q)), Rank(Row(cursor, r)))
    OBVIOUS
  <2>1. ~(r > Cardinality(S)) /\ ~(q > Cardinality(S))
    BY <1>1, <1>3
  <2>2. /\ Row(cursor, r) \in S /\ place(Row(cursor, r)) = r
        /\ Row(cursor, q) \in S /\ place(Row(cursor, q)) = q
    BY <1>3, <2>1
  <2>. QED  BY <1>2, <1>5, <2>2
<1>9. \A r \in Nat \ {0} : Row(cursor, r) \in Mib \cup {End}
  BY <1>2, <1>3
<1>10. \A r \in Nat \ {0} : Row(cursor, r) # End => Less(Rank(cursor), Rank(Row(cursor, r)))
  BY <1>2, <1>3
<1>11. \A o \in Mib : Less(Rank(cursor), Rank(o)) => \E r \in Nat \ {0} : Row(cursor, r) = o
  <2>. SUFFICES ASSUME NEW o \in Mib, Less(Rank(cursor), Rank(o))
                PROVE  \E r \in Nat \ {0} : Row(cursor, r) = o
    OBVIOUS
  <2>1. o \in S /\ place(o) \in Nat \ {0}
    BY <1>p, <1>6, Zenon
  <2>. QED  BY <1>7, <2>1
<1>. QED  BY <1>8, <1>9, <1>10, <1>11
-----------------------------------------------------------------------------
(* The varbinds of a response.                                             *)

\* What a varbind may name.
Varbinds == Mib \cup Oids \cup {End}

LEMMA VarbindsAreOids == Varbinds \subseteq Seq(Arc)
<1>1. <<>> \in Seq(Arc)
  OBVIOUS
<1>. QED  BY <1>1, AgentsAssumption DEF Varbinds, End

\* The columns of a chunk that is being walked.
Columnar == \A i \in DOMAIN active : IsColumn(active[i])

LEMMA ResponseShape ==
  ASSUME agent \in Orders \cup {Anything}, Columnar,
         active \in Seq([oid : Columns, cursor : Seq(Arc)]), active # <<>>,
         NEW resp \in Responses
  PROVE  /\ resp \in Seq(Varbinds)
         /\ agent # Anything =>
              \A i \in 1 .. Len(active) :
                \A r \in 1 .. Len(CellsOf(resp, i, Len(active))) :
                  CellsOf(resp, i, Len(active))[r] = Row(active[i].cursor, r)
<1>. DEFINE w == Len(active)
            most == w * Reps
<1>1. w \in Nat \ {0} /\ most \in Nat /\ DOMAIN active = 1 .. w
  BY WalkAssumption
<1>2. CASE agent = Anything
  <2>1. resp \in UNION {[1 .. n -> Oids \cup {End}] : n \in 0 .. most}
    BY <1>2 DEF Responses
  <2>2. PICK n \in 0 .. most : resp \in [1 .. n -> Oids \cup {End}]
    <3>. HIDE DEF most
    <3>. QED  BY <2>1
  <2>3. resp \in [1 .. n -> Varbinds] /\ n \in Nat
    <3>. HIDE DEF most
    <3>. QED  BY <1>1, <2>2 DEF Varbinds
  <2>4. resp \in Seq(Varbinds)
    BY <2>3
  <2>. QED  BY <1>2, <2>4
<1>3. CASE agent # Anything
  <2>. DEFINE full == FullResponse
              col(k) == ((k - 1) % w) + 1
              row(k) == ((k - 1) \div w) + 1
  <2>1. agent \in Orders
    BY <1>3
  <2>2. PICK n \in 0 .. most : resp = SubSeq(full, 1, n)
    <3>1. resp \in {SubSeq(FullResponse, 1, n) : n \in 0 .. most}
      BY <1>3 DEF Responses
    <3>. HIDE DEF most
    <3>. QED  BY <3>1
  <2>3. full = [k \in 1 .. most |-> Row(active[col(k)].cursor, row(k))]
    BY DEF FullResponse
  <2>4. \A k \in 1 .. most : col(k) \in 1 .. w /\ row(k) \in Nat \ {0}
    <3>. SUFFICES ASSUME NEW k \in 1 .. most  PROVE col(k) \in 1 .. w /\ row(k) \in Nat \ {0}
      OBVIOUS
    <3>. DEFINE k1 == k - 1
    <3>1. k1 \in Nat
      BY <1>1
    <3>. HIDE DEF k1, w
    <3>2. k1 % w \in 0 .. w - 1 /\ k1 \div w \in Nat
      BY <1>1, <3>1, Division
    <3>. QED  BY <1>1, <3>2 DEF k1
  <2>5. \A k \in 1 .. most : full[k] \in Varbinds
    <3>. SUFFICES ASSUME NEW k \in 1 .. most  PROVE full[k] \in Varbinds
      OBVIOUS
    <3>1. active[col(k)].cursor \in Seq(Arc)
      BY <1>1, <2>4 DEF Columnar, IsColumn
    <3>2. Row(active[col(k)].cursor, row(k)) \in Mib \cup {End}
      <4>. HIDE DEF col, row
      <4>. QED  BY <2>1, <2>4, <3>1, RowsBehindCursor
    <3>. QED  BY <2>3, <3>2 DEF Varbinds
  <2>. HIDE DEF most
  <2>6. full \in Seq(Varbinds) /\ Len(full) = most
    <3>1. full \in [1 .. most -> Varbinds]
      <4>. HIDE DEF col, row
      <4>. QED  BY <2>3, <2>5
    <3>. HIDE DEF full
    <3>. QED  BY <1>1, <3>1
  <2>7. resp \in Seq(Varbinds) /\ Len(resp) = n /\ \A k \in 1 .. n : resp[k] = full[k]
    <3>. HIDE DEF full
    <3>. QED  BY <1>1, <2>2, <2>6
  <2>8. ASSUME NEW i \in 1 .. w, NEW r \in 1 .. Len(CellsOf(resp, i, w))
        PROVE  CellsOf(resp, i, w)[r] = Row(active[i].cursor, r)
    <3>. DEFINE k == (r - 1) * w + i
    <3>. HIDE DEF w
    <3>1. /\ (r - 1) * w + (i - 1) \in Nat /\ k \in 1 .. Len(resp)
          /\ CellsOf(resp, i, w)[r] = resp[k] /\ r \in Nat \ {0}
      BY <1>1, <2>7, CellsShape
    <3>2. k - 1 = (r - 1) * w + (i - 1) /\ r - 1 \in Nat /\ i - 1 \in 0 .. w - 1
      BY <1>1, <3>1, SMTT(30)
    <3>3. ((r - 1) * w + (i - 1)) \div w = r - 1 /\ ((r - 1) * w + (i - 1)) % w = i - 1
      BY <1>1, <3>2, Quotient
    <3>4. (k - 1) \div w = r - 1 /\ (k - 1) % w = i - 1
      <4>. HIDE DEF k
      <4>. QED  BY <3>2, <3>3
    <3>5. col(k) = i /\ row(k) = r
      <4>. HIDE DEF k
      <4>. QED  BY <1>1, <3>1, <3>4
    <3>6. k \in 1 .. most
      BY <1>1, <2>2, <2>7, <3>1
    <3>7. full[k] = Row(active[i].cursor, r)
      <4>. HIDE DEF k
      <4>1. full[k] = Row(active[col(k)].cursor, row(k))
        <5>. HIDE DEF col, row
        <5>. QED  BY <2>3, <3>6
      <4>. QED  BY <3>5, <4>1
    <3>. QED  BY <2>7, <3>1, <3>7
  <2>. QED  BY <2>7, <2>8
<1>. QED  BY <1>2, <1>3
-----------------------------------------------------------------------------
(* The columns of a chunk, and those of it that are not finished.          *)

\* How many columns of its table come before chunk k.
Before(k) == (k - 1) * MaxVars

LEMMA BeforeShape ==
  ASSUME NEW k \in Nat \ {0}
  PROVE  Before(k) \in Nat /\ Before(k + 1) \in Nat /\ Before(k + 1) = Before(k) + MaxVars
         /\ k * MaxVars = Before(k + 1)
BY WalkAssumption DEF Before

LEMMA ChunkShape ==
  ASSUME NEW V, NEW columns \in Seq(V), NEW k \in Nat \ {0}
  PROVE  /\ Chunk(columns, k) \in Seq(V)
         /\ \A i \in 1 .. Len(Chunk(columns, k)) :
              /\ Before(k) + i \in 1 .. Len(columns) /\ Before(k) + i <= Before(k + 1)
              /\ Chunk(columns, k)[i] = columns[Before(k) + i]
         /\ \A j \in 1 .. Len(columns) : Before(k) < j /\ j <= Before(k + 1) =>
              \E i \in 1 .. Len(Chunk(columns, k)) : j = Before(k) + i
<1>. DEFINE b == Before(k)
            e == IF b + MaxVars < Len(columns) THEN b + MaxVars ELSE Len(columns)
<1>1. b \in Nat /\ MaxVars \in Nat \ {0} /\ Before(k + 1) = b + MaxVars
      /\ (k - 1) * MaxVars = b /\ k * MaxVars = b + MaxVars
  BY BeforeShape, WalkAssumption DEF Before
<1>2. Chunk(columns, k) = SubSeq(columns, b + 1, e)
  BY <1>1 DEF Chunk
<1>. HIDE DEF b
<1>3. e \in Nat /\ e <= Len(columns) /\ e <= b + MaxVars
      /\ \A j \in 1 .. Len(columns) : j <= b + MaxVars => j <= e
  BY <1>1
<1>. HIDE DEF e
<1>4. /\ SubSeq(columns, b + 1, e) \in Seq(V)
      /\ Len(SubSeq(columns, b + 1, e)) = IF b + 1 <= e THEN e - b ELSE 0
      /\ \A i \in 1 .. Len(SubSeq(columns, b + 1, e)) :
           SubSeq(columns, b + 1, e)[i] = columns[b + i]
  BY <1>1, <1>3
<1>5. \A j \in 1 .. Len(columns) : b < j /\ j <= b + MaxVars =>
        j - b \in 1 .. Len(SubSeq(columns, b + 1, e)) /\ j = b + (j - b)
  BY <1>1, <1>3, <1>4, SMTT(30)
<1>6. \A i \in 1 .. Len(SubSeq(columns, b + 1, e)) :
        b + i \in 1 .. Len(columns) /\ b + i <= b + MaxVars
  <2>. SUFFICES ASSUME NEW i \in 1 .. Len(SubSeq(columns, b + 1, e))
                PROVE  b + i \in 1 .. Len(columns) /\ b + i <= b + MaxVars
    OBVIOUS
  <2>1. i \in Nat /\ i >= 1 /\ i <= e - b
    BY <1>1, <1>3, <1>4
  <2>2. b + i >= 1 /\ b + i <= e /\ Len(columns) \in Nat
    BY <1>1, <1>3, <2>1
  <2>. QED  BY <1>1, <1>3, <2>1, <2>2
<1>. QED  BY <1>1, <1>2, <1>4, <1>5, <1>6 DEF b

LEMMA ChunksCover ==
  ASSUME NEW V, NEW columns \in Seq(V), NEW k \in Nat \ {0}, k > ChunksOf(columns)
  PROVE  Len(columns) <= Before(k)
<1>. DEFINE x == Len(columns) + MaxVars - 1
            n == x \div MaxVars
<1>1. MaxVars \in Nat \ {0} /\ x \in Nat /\ Len(columns) \in Nat
  BY WalkAssumption
<1>2. n \in Nat /\ x < MaxVars * n + MaxVars
  <2>. HIDE DEF x
  <2>. QED  BY <1>1, Division
<1>3. n <= k - 1
  <2>1. k > n
    BY DEF ChunksOf
  <2>. HIDE DEF n
  <2>. QED  BY <1>2, <2>1
<1>. HIDE DEF n
<1>4. n * MaxVars <= (k - 1) * MaxVars
  <2>. DEFINE d == (k - 1) - n
  <2>1. d \in Nat
    BY <1>2, <1>3
  <2>2. d * MaxVars \in Nat /\ (k - 1) * MaxVars = n * MaxVars + d * MaxVars
    BY <1>1, <1>2, <2>1
  <2>. QED  BY <1>1, <1>2, <2>2
<1>5. n * MaxVars = MaxVars * n /\ n * MaxVars \in Nat /\ (k - 1) * MaxVars \in Nat
  BY <1>1, <1>2
<1>. QED  BY <1>1, <1>2, <1>4, <1>5 DEF Before

-----------------------------------------------------------------------------
(* What an answer does to the columns of a chunk.                          *)

\* What makes TypeOK inductive: the columns of a chunk are walked at or under
\* themselves, and control is where the table and the chunk allow it.
TypeInv ==
  /\ TypeOK /\ Columnar
  /\ given \in Surveys /\ chunk # 0
  /\ pc \in {"loop", "bulk"} => table <= Len(given.tables)
  /\ pc = "scalars" => table > Len(given.tables)
  /\ pc \in {"chunk", "scalars"} => active = <<>>
  /\ pc = "bulk" => active # <<>>

Cells(resp, i) == CellsOf(resp, i, Len(active))
Unfinished(resp) == {i \in 1 .. Len(active) : ~Finished(active[i], Cells(resp, i))}

\* p lists the columns that go on, with the cursors that the response gave them.
GoesOn(resp, p) ==
  /\ DOMAIN active' = 1 .. Len(active') /\ Len(active') \in Nat
  /\ p \in [1 .. Len(active') -> Unfinished(resp)]
  /\ \A i, j \in 1 .. Len(active') : i < j => p[i] < p[j]
  /\ \A x \in Unfinished(resp) : \E i \in 1 .. Len(active') : p[i] = x
  /\ \A i \in 1 .. Len(active') :
       active'[i] = [oid |-> active[p[i]].oid,
                     cursor |-> CursorAfter(active[p[i]], Cells(resp, p[i]))]
  /\ Len(active') <= Len(active)
  /\ Len(active') = Len(active) => Unfinished(resp) = 1 .. Len(active)

LEMMA GivenShape ==
  ASSUME given \in Surveys
  PROVE  /\ given.tables \in Seq([base : Seq(Arc), columns : Seq(Seq(Arc) \ {<<>>})])
         /\ \A t \in 1 .. Len(given.tables) :
              /\ given.tables[t].columns \in Seq(Seq(Arc) \ {<<>>})
              /\ given.tables[t].columns \in Seq(Columns)
              /\ \A k \in 1 .. Len(given.tables[t].columns) : given.tables[t].columns[k] \in Columns
         /\ Columns \subseteq Seq(Arc) \ {<<>>}
         /\ given.scalars \in Nat /\ Len(given.tables) \in Nat
<1>1. given.tables \in Seq([base : Seq(Arc), columns : Seq(Seq(Arc) \ {<<>>})]) /\ given.scalars \in Nat
  BY AgentsAssumption
<1>2. /\ DOMAIN given.tables = 1 .. Len(given.tables) /\ Len(given.tables) \in Nat
      /\ \A t \in 1 .. Len(given.tables) :
           given.tables[t] \in [base : Seq(Arc), columns : Seq(Seq(Arc) \ {<<>>})]
  <2>. DEFINE T == [base : Seq(Arc), columns : Seq(Seq(Arc) \ {<<>>})]
  <2>. HIDE DEF T
  <2>1. given.tables \in Seq(T)
    BY <1>1 DEF T
  <2>2. /\ DOMAIN given.tables = 1 .. Len(given.tables) /\ Len(given.tables) \in Nat
        /\ \A t \in 1 .. Len(given.tables) : given.tables[t] \in T
    BY <2>1
  <2>. QED  BY <2>2 DEF T
<1>3. ASSUME NEW t \in 1 .. Len(given.tables)
      PROVE  /\ given.tables[t].columns \in Seq(Seq(Arc) \ {<<>>})
             /\ ToSet(given.tables[t].columns) \subseteq Seq(Arc) \ {<<>>}
             /\ given.tables[t].columns \in Seq(ToSet(given.tables[t].columns))
             /\ ToSet(given.tables[t].columns) \subseteq Columns
  <2>. DEFINE columns == given.tables[t].columns
  <2>1. columns \in Seq(Seq(Arc) \ {<<>>})
    BY <1>2, <1>3
  <2>2. ToSet(columns) = {columns[k] : k \in 1 .. Len(columns)}
    BY <2>1 DEF ToSet
  <2>3. ToSet(columns) \subseteq Columns
    BY <1>2, <1>3 DEF Columns
  <2>. HIDE DEF columns
  <2>4. \A k \in 1 .. Len(columns) : columns[k] \in ToSet(columns) /\ columns[k] \in Seq(Arc) \ {<<>>}
    BY <2>1, <2>2
  <2>5. ToSet(columns) \subseteq Seq(Arc) \ {<<>>}
    BY <2>2, <2>4
  <2>6. columns \in Seq(ToSet(columns))
    <3>1. columns \in [1 .. Len(columns) -> ToSet(columns)] /\ Len(columns) \in Nat
      BY <2>1, <2>4
    <3>. QED  BY <3>1
  <2>. QED  BY <2>1, <2>3, <2>5, <2>6 DEF columns
<1>4. \A t \in 1 .. Len(given.tables) : /\ given.tables[t].columns \in Seq(Columns)
        /\ \A k \in 1 .. Len(given.tables[t].columns) : given.tables[t].columns[k] \in Columns
  BY <1>3
<1>5. Columns \subseteq Seq(Arc) \ {<<>>}
  BY <1>2, <1>3 DEF Columns
<1>. QED  BY <1>1, <1>2, <1>3, <1>4, <1>5

LEMMA AnswerShape ==
  ASSUME TypeInv, pc = "bulk", NEW resp \in Responses, Answer(resp)
  PROVE  /\ pc' = "loop" /\ UNCHANGED <<table, chunk, scalar, err>>
         /\ resp \in Seq(Varbinds) /\ Len(active) \in Nat \ {0} /\ DOMAIN active = 1 .. Len(active)
         /\ oids' = oids \cup UNION {Read(active[i], Cells(resp, i)) : i \in 1 .. Len(active)}
         /\ again' = again \cup (oids \cap UNION {Read(active[i], Cells(resp, i)) : i \in 1 .. Len(active)})
         /\ skips' = skips \cup {active[i].oid : i \in {i \in 1 .. Len(active) :
                                                          Misordered(active[i], Cells(resp, i))}}
         /\ wrapped' = (wrapped \/ \E i \in 1 .. Len(active) : Wraps(active[i], Cells(resp, i)))
         /\ truncated' = (truncated \/ CountsAsTruncated(resp, Len(active)))
         /\ IF resp = <<>> THEN failures' = failures \cup {"empty"} /\ active' = <<>>
                           ELSE failures' = failures /\ \E p : GoesOn(resp, p)
<1>. DEFINE w == Len(active)
            cells == [i \in 1 .. w |-> CellsOf(resp, i, w)]
            keep == {i \in 1 .. w : ~Finished(active[i], cells[i])}
            next == [i \in 1 .. w |-> [oid |-> active[i].oid,
                                       cursor |-> CursorAfter(active[i], cells[i])]]
            p == InOrder(keep)
<1>1. resp \in Seq(Varbinds)
  BY ResponseShape DEF TypeInv, TypeOK
<1>2. w \in Nat \ {0} /\ DOMAIN active = 1 .. w
  BY DEF TypeInv, TypeOK
<1>3. \A i \in 1 .. w : cells[i] = Cells(resp, i)
  BY DEF Cells
<1>4. keep = Unfinished(resp)
  BY <1>3 DEF Unfinished
<1>5. UNION {Read(active[i], cells[i]) : i \in 1 .. w} = UNION {Read(active[i], Cells(resp, i)) : i \in 1 .. w}
  BY <1>3
<1>6. Skipped(cells) = {active[i].oid : i \in {i \in 1 .. w : Misordered(active[i], Cells(resp, i))}}
  BY <1>2, <1>3 DEF Skipped
<1>7. (\E i \in 1 .. w : Wraps(active[i], cells[i])) <=> \E i \in 1 .. w : Wraps(active[i], Cells(resp, i))
  BY <1>3
<1>8. ASSUME resp # <<>>  PROVE GoesOn(resp, p)
  <2>1. active' = [i \in DOMAIN p |-> next[p[i]]]
    BY <1>8 DEF Answer
  <2>2. /\ Cardinality(keep) \in Nat /\ Cardinality(keep) <= w
        /\ p \in [1 .. Cardinality(keep) -> keep]
        /\ \A i, j \in 1 .. Cardinality(keep) : i < j => p[i] < p[j]
        /\ \A x \in keep : \E i \in 1 .. Cardinality(keep) : p[i] = x
        /\ Cardinality(keep) = w => keep = 1 .. w
    <3>1. keep \in SUBSET (1 .. w) /\ w \in Nat
      BY <1>2
    <3>. HIDE DEF keep, w
    <3>. QED  BY <3>1, PlacesInOrder
  <2>. HIDE DEF p
  <2>3. DOMAIN active' = 1 .. Cardinality(keep) /\ Len(active') = Cardinality(keep)
    <3>. HIDE DEF next, keep
    <3>. QED  BY <2>1, <2>2
  <2>4. ASSUME NEW i \in 1 .. Cardinality(keep)
        PROVE  active'[i] = [oid |-> active[p[i]].oid,
                             cursor |-> CursorAfter(active[p[i]], Cells(resp, p[i]))]
    <3>1. p[i] \in keep /\ keep \subseteq 1 .. w
      <4>1. keep \subseteq 1 .. w
        OBVIOUS
      <4>. HIDE DEF keep
      <4>. QED  BY <2>2, <4>1
    <3>2. active'[i] = next[p[i]]
      <4>. HIDE DEF next, keep
      <4>. QED  BY <2>1, <2>2
    <3>3. next[p[i]] = [oid |-> active[p[i]].oid, cursor |-> CursorAfter(active[p[i]], cells[p[i]])]
      <4>. HIDE DEF keep, cells
      <4>. QED  BY <3>1
    <3>. QED  BY <1>3, <3>1, <3>2, <3>3
  <2>. HIDE DEF keep, next, cells
  <2>. QED  BY <1>4, <2>2, <2>3, <2>4 DEF GoesOn
<1>9. /\ pc' = "loop" /\ UNCHANGED <<table, chunk, scalar, err>>
      /\ oids' = oids \cup UNION {Read(active[i], cells[i]) : i \in 1 .. w}
      /\ again' = again \cup (oids \cap UNION {Read(active[i], cells[i]) : i \in 1 .. w})
      /\ skips' = skips \cup Skipped(cells)
      /\ truncated' = (truncated \/ CountsAsTruncated(resp, w))
      /\ wrapped' = (wrapped \/ \E i \in 1 .. w : Wraps(active[i], cells[i]))
      /\ resp = <<>> => failures' = failures \cup {"empty"} /\ active' = <<>>
      /\ resp # <<>> => failures' = failures
  BY DEF Answer
<1>. HIDE DEF cells, p
<1>. QED  BY <1>1, <1>2, <1>5, <1>6, <1>7, <1>8, <1>9, Zenon
-----------------------------------------------------------------------------
(* Type correctness.                                                       *)

LEMMA TypeInit == Init => TypeInv
<1>. SUFFICES ASSUME Init  PROVE TypeInv
  OBVIOUS
<1>1. active = <<>> /\ active \in Seq([oid : Columns, cursor : Seq(Arc)]) /\ Columnar
  BY DEF Init, Fresh, Columnar
<1>2. 1 \in 1 .. Len(given.tables) + 1
  BY GivenShape DEF Init
<1>3. table \in 1 .. Len(given.tables) + 1
  BY <1>2 DEF Init, Fresh
<1>4. /\ failures = {} /\ oids = {} /\ again = {} /\ skips = {}
      /\ pc = "chunk" /\ chunk = 1 /\ scalar = 0 /\ err = "none" /\ truncated = FALSE
      /\ wrapped = FALSE /\ ctx = "live" /\ agent \in Orders \cup {Anything} /\ given \in Surveys
  BY DEF Init, Fresh
<1>5. TypeOK
  BY <1>1, <1>3, <1>4 DEF TypeOK
<1>. QED  BY <1>1, <1>4, <1>5 DEF TypeInv

\* What the cells of a column hold.
LEMMA ReadType ==
  ASSUME TypeInv, NEW resp \in Seq(Varbinds), NEW i \in 1 .. Len(active)
  PROVE  /\ IsColumn(active[i]) /\ active[i].oid \in Columns
         /\ Cells(resp, i) \in Seq(Varbinds) /\ Cells(resp, i) \in Seq(Seq(Arc))
         /\ Len(Cells(resp, i)) \in Nat
         /\ Read(active[i], Cells(resp, i)) \subseteq Mib \cup Oids
         /\ \A o \in Read(active[i], Cells(resp, i)) :
              o \in Seq(Arc) /\ HasPrefix(o, active[i].oid) /\ Less(active[i].cursor, o)
<1>. DEFINE c == active[i]
            cells == Cells(resp, i)
<1>1. Len(active) \in Nat \ {0} /\ IsColumn(c) /\ c.oid \in Columns
  <2>. DEFINE A == [oid : Columns, cursor : Seq(Arc)]
  <2>1. active \in Seq(A)
    BY DEF TypeInv, TypeOK
  <2>. HIDE DEF A
  <2>2. Len(active) \in Nat \ {0} /\ DOMAIN active = 1 .. Len(active) /\ active[i] \in A
    BY <2>1
  <2>3. IsColumn(active[i])
    BY <2>2 DEF TypeInv, Columnar
  <2>. QED  BY <2>2, <2>3 DEF A
<1>2. cells \in Seq(Varbinds)
  BY <1>1, CellsShape DEF Cells
<1>. HIDE DEF c, cells
<1>3. cells \in Seq(Seq(Arc)) /\ Len(cells) \in Nat
  BY <1>2, VarbindsAreOids
<1>4. ASSUME NEW q \in 1 .. RowsRead(c, cells)
      PROVE  /\ cells[q] \in Mib \cup Oids /\ cells[q] \in Seq(Arc)
             /\ HasPrefix(cells[q], c.oid) /\ Less(c.cursor, cells[q])
  <2>1. RowsRead(c, cells) \in 0 .. Len(cells)
    BY <1>3, RowsReadShape
  <2>2. cells[q] \in Varbinds
    BY <1>2, <2>1
  <2>3. CursorAt(c, cells, 0 + 1) = c.cursor /\ 0 \in Nat /\ 0 < q
    BY <2>1 DEF CursorAt
  <2>4. cells[q] \in Seq(Arc) /\ Inside(c, cells[q]) /\ Less(c.cursor, cells[q])
    BY <1>1, <1>3, <2>3, RowsAscend
  <2>. QED  BY <2>2, <2>4 DEF Inside, Varbinds
<1>5. \A o \in Read(c, cells) : o \in Mib \cup Oids /\ o \in Seq(Arc)
        /\ HasPrefix(o, c.oid) /\ Less(c.cursor, o)
  BY <1>4 DEF Read
<1>. QED  BY <1>1, <1>2, <1>3, <1>5 DEF c, cells

LEMMA AnswerType ==
  ASSUME TypeInv, Answered, given' = given, agent' = agent, ctx' = ctx
  PROVE  TypeInv'
<1>1. PICK resp \in Responses : Answer(resp)
  BY DEF Answered
<1>2. pc = "bulk" /\ table <= Len(given.tables)
  BY DEF Answered, TypeInv
<1>. DEFINE read == UNION {Read(active[i], Cells(resp, i)) : i \in 1 .. Len(active)}
<1>3. resp \in Seq(Varbinds)
  BY <1>1, <1>2, AnswerShape
<1>4. read \subseteq Mib \cup Oids
  BY <1>3, ReadType
<1>5. oids' \subseteq Mib \cup Oids /\ again' \subseteq oids'
  <2>1. oids' = oids \cup read /\ again' = again \cup (oids \cap read)
    BY <1>1, <1>2, AnswerShape
  <2>. HIDE DEF read
  <2>. QED  BY <1>4, <2>1 DEF TypeInv, TypeOK
<1>6. skips' \subseteq Columns
  <2>1. skips' = skips \cup {active[i].oid : i \in {i \in 1 .. Len(active) :
                                                      Misordered(active[i], Cells(resp, i))}}
    BY <1>1, <1>2, AnswerShape
  <2>2. \A i \in 1 .. Len(active) : active[i].oid \in Columns
    BY <1>3, ReadType
  <2>. QED  BY <2>1, <2>2 DEF TypeInv, TypeOK
<1>7. /\ truncated' \in BOOLEAN /\ wrapped' \in BOOLEAN
  BY <1>1 DEF Answer
<1>8. active' \in Seq([oid : Columns, cursor : Seq(Arc)]) /\ Columnar'
  <2>1. CASE resp = <<>>
    <3>1. active' = <<>>
      BY <1>1, <1>2, <2>1, AnswerShape
    <3>. QED  BY <3>1 DEF Columnar
  <2>2. CASE resp # <<>>
    <3>1. PICK p : GoesOn(resp, p)
      BY <1>1, <1>2, <2>2, AnswerShape
    <3>2. ASSUME NEW i \in 1 .. Len(active')
          PROVE  active'[i] \in [oid : Columns, cursor : Seq(Arc)] /\ IsColumn(active'[i])
      <4>1. p[i] \in 1 .. Len(active) /\ ~Finished(active[p[i]], Cells(resp, p[i]))
        BY <3>1, <3>2 DEF GoesOn, Unfinished
      <4>2. /\ IsColumn(active[p[i]]) /\ active[p[i]].oid \in Columns
            /\ Cells(resp, p[i]) \in Seq(Seq(Arc))
        BY <1>3, <4>1, ReadType
      <4>3. /\ CursorAfter(active[p[i]], Cells(resp, p[i])) \in Seq(Arc)
            /\ HasPrefix(CursorAfter(active[p[i]], Cells(resp, p[i])), active[p[i]].oid)
        BY <4>1, <4>2, CursorMoves
      <4>4. active'[i] = [oid |-> active[p[i]].oid,
                          cursor |-> CursorAfter(active[p[i]], Cells(resp, p[i]))]
        BY <3>1, <3>2 DEF GoesOn
      <4>. QED  BY <4>2, <4>3, <4>4 DEF IsColumn
    <3>3. DOMAIN active' = 1 .. Len(active') /\ Len(active') \in Nat
      BY <3>1 DEF GoesOn
    <3>4. active' = [i \in 1 .. Len(active') |-> active'[i]]
      <4>. DEFINE p0 == InOrder({i \in 1 .. Len(active) :
                                   ~Finished(active[i], [j \in 1 .. Len(active) |->
                                      CellsOf(resp, j, Len(active))][i])})
                  f == [i \in 1 .. Len(active) |-> [oid |-> active[i].oid,
                          cursor |-> CursorAfter(active[i], [j \in 1 .. Len(active) |->
                                      CellsOf(resp, j, Len(active))][i])]]
      <4>1. active' = [i \in DOMAIN p0 |-> f[p0[i]]]
        BY <1>1, <2>2 DEF Answer
      <4>. HIDE DEF p0, f
      <4>. QED  BY <3>3, <4>1
    <3>5. active' \in Seq([oid : Columns, cursor : Seq(Arc)])
      <4>. DEFINE A == [oid : Columns, cursor : Seq(Arc)]
      <4>1. \A i \in 1 .. Len(active') : active'[i] \in A
        BY <3>2
      <4>. HIDE DEF A
      <4>2. active' \in [1 .. Len(active') -> A]
        BY <3>4, <4>1
      <4>3. active' \in Seq(A)
        BY <3>3, <4>2
      <4>. QED  BY <4>3 DEF A
    <3>6. Columnar'
      BY <3>2, <3>3 DEF Columnar
    <3>. QED  BY <3>5, <3>6
  <2>. QED  BY <2>1, <2>2
<1>9. failures' \subseteq {"timeout", "agent", "empty", "truncated", "missing"}
  <2>1. failures' \in {failures, failures \cup {"empty"}}
    BY <1>1 DEF Answer
  <2>. QED  BY <2>1 DEF TypeInv, TypeOK
<1>10. pc' = "loop" /\ UNCHANGED <<table, chunk, scalar, err>>
  BY <1>1, <1>2, AnswerShape
<1>11. Columns' = Columns
  BY DEF Columns
<1>. QED  BY <1>2, <1>5, <1>6, <1>7, <1>8, <1>9, <1>10, <1>11 DEF TypeInv, TypeOK

LEMMA OpenShape ==
  ASSUME TypeInv, OpenChunk
  PROVE  /\ table \in 1 .. Len(given.tables) /\ Asked \in Seq(Columns)
         /\ active' \in Seq([oid : Columns, cursor : Seq(Arc)])
         /\ Len(active') \in Nat /\ DOMAIN active' = 1 .. Len(active')
         /\ \A i \in 1 .. Len(active') :
              /\ Before(chunk) + i \in 1 .. Len(Asked) /\ Before(chunk) + i <= Before(chunk + 1)
              /\ active'[i] = [oid |-> Asked[Before(chunk) + i], cursor |-> Asked[Before(chunk) + i]]
              /\ IsColumn(active'[i])
         /\ \A j \in 1 .. Len(Asked) : Before(chunk) < j /\ j <= Before(chunk + 1) =>
              \E i \in 1 .. Len(active') : j = Before(chunk) + i
<1>. DEFINE columns == Chunk(Asked, chunk)
<1>1. table \in 1 .. Len(given.tables) /\ chunk \in Nat \ {0}
  BY GivenShape DEF TypeInv, TypeOK, OpenChunk
<1>2. Asked \in Seq(Columns) /\ Columns \subseteq Seq(Arc) \ {<<>>}
  BY <1>1, GivenShape DEF TypeInv, Asked
<1>3. /\ columns \in Seq(Columns)
      /\ \A i \in 1 .. Len(columns) :
           /\ Before(chunk) + i \in 1 .. Len(Asked) /\ Before(chunk) + i <= Before(chunk + 1)
           /\ columns[i] = Asked[Before(chunk) + i]
      /\ \A j \in 1 .. Len(Asked) : Before(chunk) < j /\ j <= Before(chunk + 1) =>
           \E i \in 1 .. Len(columns) : j = Before(chunk) + i
  BY <1>1, <1>2, ChunkShape
<1>4. active' = [i \in DOMAIN columns |-> [oid |-> columns[i], cursor |-> columns[i]]]
  BY DEF OpenChunk
<1>. HIDE DEF columns
<1>5. Len(columns) \in Nat /\ DOMAIN columns = 1 .. Len(columns)
      /\ \A i \in 1 .. Len(columns) : columns[i] \in Columns
  BY <1>3
<1>6. \A i \in 1 .. Len(columns) : active'[i] = [oid |-> columns[i], cursor |-> columns[i]]
  BY <1>4, <1>5
<1>7. active' \in [1 .. Len(columns) -> [oid : Columns, cursor : Seq(Arc)]]
  BY <1>2, <1>4, <1>5
<1>8. active' \in Seq([oid : Columns, cursor : Seq(Arc)]) /\ Len(active') = Len(columns)
      /\ DOMAIN active' = 1 .. Len(columns)
  <2>. DEFINE A == [oid : Columns, cursor : Seq(Arc)]
  <2>1. active' \in [1 .. Len(columns) -> A]
    BY <1>7
  <2>. HIDE DEF A
  <2>2. active' \in Seq(A) /\ Len(active') = Len(columns) /\ DOMAIN active' = 1 .. Len(columns)
    BY <1>5, <2>1
  <2>. QED  BY <2>2 DEF A
<1>9. \A i \in 1 .. Len(columns) : IsColumn(active'[i])
  <2>. SUFFICES ASSUME NEW i \in 1 .. Len(columns)  PROVE IsColumn(active'[i])
    OBVIOUS
  <2>1. columns[i] \in Seq(Arc) \ {<<>>}
    BY <1>2, <1>5
  <2>2. HasPrefix(columns[i], columns[i])
    BY <2>1, PrefixesCompare
  <2>3. active'[i].oid = columns[i] /\ active'[i].cursor = columns[i]
    <3>1. active'[i] = [oid |-> columns[i], cursor |-> columns[i]]
      BY <1>6, Zenon
    <3>. QED  BY <3>1
  <2>. QED  BY <2>1, <2>2, <2>3 DEF IsColumn
<1>. QED  BY <1>1, <1>2, <1>3, <1>5, <1>6, <1>8, <1>9

LEMMA TypeStep == TypeInv /\ [Next]_vars => TypeInv'
<1>. SUFFICES ASSUME TypeInv, [Next]_vars  PROVE TypeInv'
  OBVIOUS
<1>t. TypeOK /\ Len(given.tables) \in Nat /\ given.scalars \in Nat /\ MaxVars \in Nat
  BY GivenShape, WalkAssumption DEF TypeInv
<1>env. ASSUME UNCHANGED env  PROVE given' = given /\ agent' = agent /\ ctx' = ctx /\ Columns' = Columns
  BY <1>env DEF env, Columns
<1>same. ASSUME UNCHANGED <<active, result, given, agent>>, Columns' = Columns, ctx' \in {"live", "done"},
                pc' \in {"chunk", "loop", "bulk", "scalars", "done"},
                table' \in 1 .. Len(given.tables) + 1, chunk' \in Nat \ {0}, scalar' \in Nat,
                failures' \subseteq {"timeout", "agent", "empty", "truncated", "missing"},
                err' \in {"none", "context", "transport"},
                pc' \in {"loop", "bulk"} => table' <= Len(given.tables),
                pc' = "scalars" => table' > Len(given.tables),
                pc' \in {"chunk", "scalars"} => active = <<>>,
                pc' = "bulk" => active # <<>>
         PROVE  TypeInv'
  BY <1>same DEF TypeInv, TypeOK, Columnar, result
<1>1. ASSUME OpenChunk, UNCHANGED env  PROVE TypeInv'
  <2>1. /\ active' \in Seq([oid : Columns, cursor : Seq(Arc)]) /\ Columnar'
        /\ table \in 1 .. Len(given.tables)
    BY <1>1, OpenShape DEF Columnar
  <2>. QED  BY <1>1, <1>env, <2>1 DEF OpenChunk, TypeInv, TypeOK, result
<1>2. ASSUME TableDone, UNCHANGED env  PROVE TypeInv'
  <2>1. table' \in 1 .. Len(given.tables) + 1 /\ chunk' = 1 /\ active = <<>>
    BY <1>t, <1>2 DEF TableDone, TypeInv, TypeOK
  <2>. QED  BY <1>2, <1>env, <1>same, <2>1 DEF TableDone, TypeInv, TypeOK
<1>3. ASSUME TablesDone \/ ChunkDone \/ Ask \/ CutOff, UNCHANGED env  PROVE TypeInv'
  <2>1. table' = table /\ scalar' = scalar /\ failures' = failures
        /\ chunk' \in Nat \ {0} /\ err' \in {"none", "context", "transport"}
        /\ UNCHANGED <<active, result>>
        /\ pc' \in {"chunk", "loop", "bulk", "scalars", "done"}
    BY <1>t, <1>3 DEF TablesDone, ChunkDone, Ask, CutOff, TypeInv, TypeOK
  <2>2. /\ pc' \in {"loop", "bulk"} => pc = "loop"
        /\ pc' = "scalars" => table > Len(given.tables) /\ pc = "chunk"
        /\ pc' = "chunk" => active = <<>>
        /\ pc' = "bulk" => active # <<>>
    BY <1>3 DEF TablesDone, ChunkDone, Ask, CutOff
  <2>. QED  BY <1>env, <1>3, <1>same, <2>1, <2>2 DEF TypeInv, TypeOK
<1>4. ASSUME ScalarsAnswered \/ Finish, UNCHANGED env  PROVE TypeInv'
  <2>1. /\ UNCHANGED <<active, result, table, chunk, err>> /\ scalar' \in Nat
        /\ pc = "scalars" /\ pc' \in {"scalars", "done"}
    BY <1>t, <1>4 DEF ScalarsAnswered, Finish, TypeOK
  <2>2. failures' \in {failures, failures \cup {"truncated"}, {"missing"}}
    BY <1>4 DEF ScalarsAnswered, Finish
  <2>3. failures' \subseteq {"timeout", "agent", "empty", "truncated", "missing"}
    BY <1>t, <2>2 DEF TypeOK
  <2>. QED  BY <1>env, <1>4, <1>same, <2>1, <2>3 DEF TypeInv, TypeOK
<1>5. ASSUME Mishap, UNCHANGED env  PROVE TypeInv'
  <2>1. PICK what \in Mishaps : BulkFails(Classified(ctx, what)) \/ ScalarsFail(Classified(ctx, what))
    BY <1>5 DEF Mishap
  <2>2. Classified(ctx, what) \in {"timeout", "agent", "transport", "context"}
    BY <1>t DEF Mishaps, Classified, TypeOK
  <2>3. ASSUME NEW e \in {"timeout", "agent", "transport", "context"}, BulkFails(e) \/ ScalarsFail(e)
        PROVE  /\ UNCHANGED <<active, result, table, chunk>> /\ scalar' \in Nat
               /\ pc' = "done" \/ (pc' = pc /\ pc = "scalars")
               /\ failures' \subseteq {"timeout", "agent", "empty", "truncated", "missing"}
               /\ err' \in {"none", "context", "transport"}
    BY <1>t, <2>3 DEF BulkFails, ScalarsFail, Note, OfAgent, TypeOK
  <2>. QED  BY <1>env, <1>5, <1>same, <2>1, <2>2, <2>3 DEF TypeInv, TypeOK
<1>6. ASSUME Answered, UNCHANGED env  PROVE TypeInv'
  BY <1>6, <1>env, AnswerType
<1>7. CASE Interrupt
  <2>1. UNCHANGED <<walkVars, given, agent>> /\ ctx' = "done" /\ Columns' = Columns
    BY <1>7 DEF Interrupt, ContextDone, Columns
  <2>. QED  BY <1>t, <1>same, <2>1 DEF walkVars, TypeInv, TypeOK
<1>8. CASE UNCHANGED vars
  <2>1. UNCHANGED <<walkVars, given, agent, ctx>> /\ Columns' = Columns
    BY <1>8 DEF vars, env, Columns
  <2>. QED  BY <1>t, <1>same, <2>1 DEF walkVars, TypeInv, TypeOK
<1>. QED  BY <1>1, <1>2, <1>3, <1>4, <1>5, <1>6, <1>7, <1>8
          DEF Next, WalkStep, WalkTurns, Terminated

\* Every variable of a walk keeps its type, whatever the agent answers: a cursor is
\* an OID even behind a skip that wraps, and a skip names a column of the workload.
THEOREM TypeHolds == Spec => []TypeOK
<1>1. TypeInv => TypeOK
  BY DEF TypeInv
<1>. QED  BY <1>1, TypeInit, TypeStep, PTL DEF Spec
-----------------------------------------------------------------------------
(* How far a walk has come.                                                *)

ColumnAt(t, k) == given.tables[t].columns[k]

\* The columns of a table that have been asked, or are asked now.
Reached == IF pc \in {"loop", "bulk"} THEN Before(chunk + 1) ELSE Before(chunk)
Opened(t, k) ==
  /\ t \in 1 .. Len(given.tables) /\ k \in 1 .. Len(given.tables[t].columns)
  /\ t < table \/ (t = table /\ k <= Reached)

LEMMA StepCases ==
  ASSUME TypeInv, [Next]_vars
  PROVE  /\ given' = given /\ agent' = agent
         /\ pc = "done" => pc' = "done"
         /\ \/ OpenChunk /\ pc' = "loop" /\ UNCHANGED <<table, chunk, failures, err, result>>
            \/ Answered /\ pc = "bulk" /\ pc' = "loop"
            \/ UNCHANGED <<active, result>>
<1>. USE DEF walkVars, env, vars
<1>1. CASE WalkTurns /\ UNCHANGED env
  BY <1>1 DEF WalkTurns, OpenChunk, TableDone, TablesDone, ChunkDone, Ask, CutOff,
     ScalarsAnswered, Finish
<1>2. CASE Mishap /\ UNCHANGED env
  BY <1>2 DEF Mishap, BulkFails, ScalarsFail
<1>3. CASE Answered /\ UNCHANGED env
  <2>1. pc = "bulk" /\ pc' = "loop"
    BY <1>3, AnswerShape DEF Answered
  <2>. QED  BY <1>3, <2>1
<1>4. CASE Interrupt \/ UNCHANGED vars
  BY <1>4 DEF Interrupt, ContextDone
<1>. QED  BY <1>1, <1>2, <1>3, <1>4 DEF Next, WalkStep, Terminated

\* The columns asked are never fewer, and more of them only where a chunk is opened.
LEMMA OpenedStep ==
  ASSUME TypeInv, [Next]_vars, pc' # "done", NEW t \in 1 .. Len(given.tables),
         NEW k \in 1 .. Len(given.tables[t].columns)
  PROVE  /\ Opened(t, k) => Opened(t, k)'
         /\ Opened(t, k)' => \/ Opened(t, k)
                             \/ /\ OpenChunk /\ t = table
                                /\ Before(chunk) < k /\ k <= Before(chunk + 1)
<1>a. given' = given
  BY StepCases
<1>b. table \in Nat /\ chunk \in Nat \ {0} /\ scalar \in Nat /\ Len(given.tables) \in Nat /\ t \in Nat
  BY GivenShape DEF TypeInv, TypeOK
<1>c. k \in Nat
  OBVIOUS
<1>d. MaxVars \in Nat
  BY WalkAssumption
<1>e. Before(chunk) \in Nat /\ Before(chunk + 1) = Before(chunk) + MaxVars
  BY <1>b, BeforeShape
<1>t. /\ given' = given /\ Len(given.tables) \in Nat /\ k \in Nat /\ t \in Nat
      /\ table \in Nat /\ chunk \in Nat \ {0} /\ scalar \in Nat
      /\ Before(chunk) \in Nat /\ Before(chunk + 1) = Before(chunk) + MaxVars /\ MaxVars \in Nat
  BY <1>a, <1>b, <1>c, <1>d, <1>e, Zenon
<1>. USE DEF Opened, Reached
<1>1. CASE OpenChunk
  BY <1>1, <1>t DEF OpenChunk
<1>2. CASE TableDone
  <2>1. table' = table + 1 /\ chunk' = 1 /\ pc' = "chunk" /\ pc = "chunk"
    BY <1>2 DEF TableDone
  <2>2. Before(chunk') = 0
    BY <1>t, <2>1, WalkAssumption DEF Before
  <2>3. t = table => k <= Before(chunk)
    <3>. SUFFICES ASSUME t = table  PROVE k <= Before(chunk)
      OBVIOUS
    <3>1. given.tables[t].columns \in Seq(Columns) /\ chunk > ChunksOf(given.tables[t].columns)
      BY <1>2, GivenShape DEF TypeInv, TableDone, Asked
    <3>2. Len(given.tables[t].columns) <= Before(chunk) /\ Len(given.tables[t].columns) \in Nat
      BY <1>t, <3>1, ChunksCover
    <3>. QED  BY <1>t, <3>2
  <2>4. Opened(t, k)' <=> t < table + 1 \/ (t = table + 1 /\ k <= 0)
    BY <1>t, <2>1, <2>2
  <2>5. Opened(t, k) <=> t < table \/ (t = table /\ k <= Before(chunk))
    BY <1>t, <2>1
  <2>. QED  BY <1>t, <2>3, <2>4, <2>5
<1>3. CASE ChunkDone
  <2>1. table' = table /\ chunk' = chunk + 1 /\ pc' = "chunk" /\ pc = "loop"
    BY <1>3 DEF ChunkDone
  <2>2. Reached' = Reached
    BY <2>1
  <2>. QED  BY <1>t, <2>1, <2>2
<1>4. CASE table' = table /\ chunk' = chunk
           /\ (pc' \in {"loop", "bulk"} <=> pc \in {"loop", "bulk"})
  BY <1>4, <1>t
<1>5. CASE Mishap /\ UNCHANGED env
  <2>1. table' = table /\ chunk' = chunk /\ pc' = pc
    BY <1>5 DEF Mishap, BulkFails, ScalarsFail
  <2>. QED  BY <1>4, <2>1
<1>6. CASE Answered
  <2>1. table' = table /\ chunk' = chunk /\ pc = "bulk" /\ pc' = "loop"
    BY <1>6, AnswerShape DEF Answered
  <2>. QED  BY <1>4, <2>1
<1>7. CASE TablesDone \/ Ask \/ ScalarsAnswered
  <2>1. table' = table /\ chunk' = chunk
        /\ (pc' \in {"loop", "bulk"} <=> pc \in {"loop", "bulk"})
    BY <1>7 DEF TablesDone, Ask, ScalarsAnswered
  <2>. QED  BY <1>4, <2>1
<1>8. CASE Interrupt \/ UNCHANGED vars
  <2>1. table' = table /\ chunk' = chunk /\ pc' = pc
    BY <1>8 DEF Interrupt, ContextDone, vars, walkVars
  <2>. QED  BY <1>4, <2>1
<1>9. ~CutOff /\ ~Finish
  BY DEF CutOff, Finish
<1>. QED  BY <1>1, <1>2, <1>3, <1>5, <1>6, <1>7, <1>8, <1>9
          DEF Next, WalkStep, WalkTurns, Terminated
-----------------------------------------------------------------------------
(* No row twice.                                                           *)

LEMMA PlaceShape ==
  ASSUME given \in Surveys, NEW t, NEW k, Opened(t, k)
  PROVE  /\ t \in 1 .. Len(given.tables) /\ t \in DOMAIN given.tables
         /\ k \in 1 .. Len(given.tables[t].columns) /\ k \in DOMAIN given.tables[t].columns
         /\ t \in Nat /\ k \in Nat
         /\ ColumnAt(t, k) \in Seq(Arc) \ {<<>>} /\ ColumnAt(t, k) \in Columns
<1>1. t \in 1 .. Len(given.tables) /\ k \in 1 .. Len(given.tables[t].columns)
  BY DEF Opened
<1>2. /\ DOMAIN given.tables = 1 .. Len(given.tables)
      /\ given.tables[t].columns \in Seq(Columns) /\ Columns \subseteq Seq(Arc) \ {<<>>}
      /\ given.tables[t].columns[k] \in Columns
  BY <1>1, GivenShape
<1>. QED  BY <1>1, <1>2 DEF ColumnAt

\* An OID lies under one column only.
LEMMA OneColumn ==
  ASSUME ColumnsApart, given \in Surveys, NEW o \in Seq(Arc),
         NEW t \in DOMAIN given.tables, NEW k \in DOMAIN given.tables[t].columns,
         NEW u \in DOMAIN given.tables, NEW l \in DOMAIN given.tables[u].columns,
         ColumnAt(t, k) \in Seq(Arc), ColumnAt(u, l) \in Seq(Arc),
         HasPrefix(o, ColumnAt(t, k)), HasPrefix(o, ColumnAt(u, l))
  PROVE  t = u /\ k = l
<1>1. HasPrefix(ColumnAt(t, k), ColumnAt(u, l)) \/ HasPrefix(ColumnAt(u, l), ColumnAt(t, k))
  BY PrefixesCompare
<1>. QED  BY <1>1 DEF ColumnsApart, ColumnAt

\* What makes NoRowTwice inductive.  Every OID read lies under a column that was
\* asked, the columns of a chunk lie apart, and no cursor is before an OID of its
\* column that was read.
ReadInv ==
  /\ pc # "done" =>
       /\ \A o \in oids : \E t, k : Opened(t, k) /\ HasPrefix(o, ColumnAt(t, k))
       /\ \A i \in 1 .. Len(active) : \E t, k : Opened(t, k) /\ active[i].oid = ColumnAt(t, k)
       /\ \A i, j \in 1 .. Len(active) : i # j => ~HasPrefix(active[i].oid, active[j].oid)
       /\ ~wrapped => \A i \in 1 .. Len(active), o \in oids :
            HasPrefix(o, active[i].oid) => ~Less(active[i].cursor, o)
  /\ ~wrapped => again = {}

LEMMA ReadOpens ==
  ASSUME ColumnsApart, TypeInv, ReadInv, [Next]_vars, pc' # "done", pc # "done", OpenChunk,
         pc' = "loop", UNCHANGED <<table, chunk, failures, err, result>>, given' = given
  PROVE  ReadInv'
<1>1. /\ table \in 1 .. Len(given.tables) /\ Asked \in Seq(Columns)
      /\ Len(active') \in Nat
      /\ \A i \in 1 .. Len(active') :
           /\ Before(chunk) + i \in 1 .. Len(Asked) /\ Before(chunk) + i <= Before(chunk + 1)
           /\ active'[i] = [oid |-> Asked[Before(chunk) + i], cursor |-> Asked[Before(chunk) + i]]
  BY OpenShape
<1>2. given \in Surveys /\ chunk \in Nat \ {0} /\ Before(chunk) \in Nat /\ pc = "chunk"
  BY BeforeShape DEF TypeInv, TypeOK, OpenChunk
<1>3. ASSUME NEW i \in 1 .. Len(active')
      PROVE  /\ Opened(table, Before(chunk) + i)'
             /\ active'[i].oid = ColumnAt(table, Before(chunk) + i)
             /\ Before(chunk) + i \in DOMAIN given.tables[table].columns
             /\ ColumnAt(table, Before(chunk) + i) \in Seq(Arc) \ {<<>>}
  <2>1. Before(chunk) + i \in 1 .. Len(given.tables[table].columns)
        /\ Before(chunk) + i <= Before(chunk + 1)
    BY <1>1, <1>3 DEF Asked
  <2>2. Reached' = Before(chunk + 1)
    BY DEF Reached, Before
  <2>3. Opened(table, Before(chunk) + i)'
    BY <1>1, <2>1, <2>2 DEF Opened
  <2>4. active'[i].oid = ColumnAt(table, Before(chunk) + i)
    <3>1. active'[i] = [oid |-> Asked[Before(chunk) + i], cursor |-> Asked[Before(chunk) + i]]
      BY <1>1, <1>3
    <3>. QED  BY <3>1 DEF ColumnAt, Asked
  <2>5. given.tables[table].columns \in Seq(Columns) /\ Columns \subseteq Seq(Arc) \ {<<>>}
    BY <1>1, <1>2, GivenShape
  <2>. QED  BY <2>1, <2>3, <2>4, <2>5 DEF ColumnAt
<1>4. table \in DOMAIN given.tables
  BY <1>1, <1>2, GivenShape
<1>5. \A o \in oids' : \E t, k : Opened(t, k)' /\ HasPrefix(o, ColumnAt(t, k))
  <2>1. ASSUME NEW o \in oids  PROVE \E t, k : Opened(t, k)' /\ HasPrefix(o, ColumnAt(t, k))
    <3>1. PICK t, k : Opened(t, k) /\ HasPrefix(o, ColumnAt(t, k))
      BY <2>1 DEF ReadInv
    <3>2. t \in 1 .. Len(given.tables) /\ k \in 1 .. Len(given.tables[t].columns)
      BY <3>1 DEF Opened
    <3>. QED  BY <3>1, <3>2, OpenedStep
  <2>. QED  BY <2>1 DEF result
<1>6. \A i, j \in 1 .. Len(active') : i # j => ~HasPrefix(active'[i].oid, active'[j].oid)
  <2>. SUFFICES ASSUME NEW i \in 1 .. Len(active'), NEW j \in 1 .. Len(active'),
                       HasPrefix(active'[i].oid, active'[j].oid)
                PROVE  i = j
    OBVIOUS
  <2>1. HasPrefix(ColumnAt(table, Before(chunk) + i), ColumnAt(table, Before(chunk) + j))
    BY <1>3
  <2>2. Before(chunk) + i = Before(chunk) + j
    BY <1>2, <1>3, <1>4, <2>1 DEF ColumnsApart, ColumnAt
  <2>. QED  BY <1>2, <2>2
<1>7. ASSUME NEW i \in 1 .. Len(active'), NEW o \in oids, HasPrefix(o, active'[i].oid)  PROVE FALSE
  <2>1. PICK t, k : Opened(t, k) /\ HasPrefix(o, ColumnAt(t, k))
    BY <1>7 DEF ReadInv
  <2>2. o \in Seq(Arc)
    BY <1>7, VarbindsAreOids DEF Varbinds, TypeInv, TypeOK
  <2>3. t = table /\ k = Before(chunk) + i
    <3>1. /\ t \in DOMAIN given.tables /\ k \in DOMAIN given.tables[t].columns
          /\ ColumnAt(t, k) \in Seq(Arc)
      BY <1>2, <2>1, PlaceShape
    <3>2. HasPrefix(o, ColumnAt(table, Before(chunk) + i))
      BY <1>3, <1>7
    <3>. QED  BY <1>2, <1>3, <1>4, <2>1, <2>2, <3>1, <3>2, OneColumn
  <2>4. k <= Before(chunk)
    BY <1>1, <1>2, <2>1, <2>3 DEF Opened, Reached
  <2>. QED  BY <1>2, <2>3, <2>4
<1>8. oids' = oids /\ again' = again /\ wrapped' = wrapped
  BY DEF result
<1>9. \A t, k : ColumnAt(t, k)' = ColumnAt(t, k)
  BY DEF ColumnAt
<1>10. \A o \in oids' : \E t, k : Opened(t, k)' /\ HasPrefix(o, ColumnAt(t, k)')
  BY <1>5, <1>9
<1>11. \A i \in 1 .. Len(active') : \E t, k : Opened(t, k)' /\ active'[i].oid = ColumnAt(t, k)'
  BY <1>3, <1>9
<1>12. \A i \in 1 .. Len(active'), o \in oids' :
         HasPrefix(o, active'[i].oid) => ~Less(active'[i].cursor, o)
  BY <1>7, <1>8
<1>13. ~wrapped' => again' = {}
  BY <1>8 DEF ReadInv
<1>. QED  BY <1>6, <1>10, <1>11, <1>12, <1>13, Zenon DEF ReadInv

\* A column that goes on is one of the chunk; unless a skip wraps its cursor is
\* not before its old place, nor before a row that it read.
LEMMA WentOn ==
  ASSUME TypeInv, NEW resp \in Seq(Varbinds), NEW p, GoesOn(resp, p), NEW j \in 1 .. Len(active')
  PROVE  /\ p[j] \in 1 .. Len(active) /\ active'[j].oid = active[p[j]].oid
         /\ active'[j].cursor = CursorAfter(active[p[j]], Cells(resp, p[j]))
         /\ active'[j].cursor \in Seq(Arc) /\ HasPrefix(active'[j].cursor, active'[j].oid)
         /\ ~Finished(active[p[j]], Cells(resp, p[j]))
         /\ ~Wraps(active[p[j]], Cells(resp, p[j])) =>
              /\ \A o \in Read(active[p[j]], Cells(resp, p[j])) : ~Less(active'[j].cursor, o)
              /\ active'[j].cursor = active[p[j]].cursor \/ Less(active[p[j]].cursor, active'[j].cursor)
              /\ Cells(resp, p[j]) # <<>> => Less(active[p[j]].cursor, active'[j].cursor)
<1>1. p[j] \in 1 .. Len(active) /\ ~Finished(active[p[j]], Cells(resp, p[j]))
  BY DEF GoesOn, Unfinished
<1>2. active'[j] = [oid |-> active[p[j]].oid,
                    cursor |-> CursorAfter(active[p[j]], Cells(resp, p[j]))]
  BY DEF GoesOn
<1>3. active'[j].oid = active[p[j]].oid
      /\ active'[j].cursor = CursorAfter(active[p[j]], Cells(resp, p[j]))
  BY <1>2
<1>4. IsColumn(active[p[j]]) /\ Cells(resp, p[j]) \in Seq(Seq(Arc))
  BY <1>1, ReadType
<1>. DEFINE c == active[p[j]]
            cells == Cells(resp, p[j])
<1>. HIDE DEF c, cells
<1>5. /\ CursorAfter(c, cells) \in Seq(Arc) /\ HasPrefix(CursorAfter(c, cells), c.oid)
      /\ ~Wraps(c, cells) =>
           /\ \A r \in 1 .. RowsRead(c, cells) : ~Less(CursorAfter(c, cells), cells[r])
           /\ CursorAfter(c, cells) = c.cursor \/ Less(c.cursor, CursorAfter(c, cells))
           /\ cells # <<>> => Less(c.cursor, CursorAfter(c, cells))
  BY <1>1, <1>4, CursorMoves DEF c, cells
<1>6. ~Wraps(c, cells) => \A o \in Read(c, cells) : ~Less(CursorAfter(c, cells), o)
  BY <1>5 DEF Read
<1>. QED  BY <1>1, <1>3, <1>5, <1>6 DEF c, cells

LEMMA ReadAnswered ==
  ASSUME ColumnsApart, TypeInv, ReadInv, [Next]_vars, pc' # "done", pc # "done", given' = given,
         pc = "bulk", NEW resp \in Responses, Answer(resp)
  PROVE  ReadInv'
<1>1. /\ resp \in Seq(Varbinds) /\ Len(active) \in Nat \ {0}
      /\ oids' = oids \cup UNION {Read(active[i], Cells(resp, i)) : i \in 1 .. Len(active)}
      /\ again' = again \cup (oids \cap UNION {Read(active[i], Cells(resp, i)) : i \in 1 .. Len(active)})
      /\ wrapped' = (wrapped \/ \E i \in 1 .. Len(active) : Wraps(active[i], Cells(resp, i)))
      /\ IF resp = <<>> THEN active' = <<>> ELSE \E p : GoesOn(resp, p)
  BY AnswerShape
<1>2. \A o \in oids' : o \in oids \/ \E i \in 1 .. Len(active) : o \in Read(active[i], Cells(resp, i))
  BY <1>1
<1>3. ASSUME NEW i \in 1 .. Len(active), NEW o \in Read(active[i], Cells(resp, i))
      PROVE  o \in Seq(Arc) /\ HasPrefix(o, active[i].oid) /\ Less(active[i].cursor, o)
  BY <1>1, <1>3, ReadType
<1>4. ASSUME NEW t, NEW k, Opened(t, k)  PROVE Opened(t, k)'
  <2>1. t \in 1 .. Len(given.tables) /\ k \in 1 .. Len(given.tables[t].columns)
    BY <1>4 DEF Opened
  <2>. QED  BY <1>4, <2>1, OpenedStep
<1>5. \A t, k : ColumnAt(t, k)' = ColumnAt(t, k)
  BY DEF ColumnAt
<1>6. \A i \in 1 .. Len(active) : \E t, k : Opened(t, k)' /\ active[i].oid = ColumnAt(t, k)'
  BY <1>4, <1>5 DEF ReadInv
<1>7. \A o \in oids' : \E t, k : Opened(t, k)' /\ HasPrefix(o, ColumnAt(t, k)')
  <2>1. ASSUME NEW o \in oids  PROVE \E t, k : Opened(t, k)' /\ HasPrefix(o, ColumnAt(t, k)')
    BY <1>4, <1>5, <2>1 DEF ReadInv
  <2>2. ASSUME NEW i \in 1 .. Len(active), NEW o \in Read(active[i], Cells(resp, i))
        PROVE  \E t, k : Opened(t, k)' /\ HasPrefix(o, ColumnAt(t, k)')
    <3>1. PICK t, k : Opened(t, k)' /\ active[i].oid = ColumnAt(t, k)'
      BY <1>6, <2>2
    <3>. QED  BY <1>3, <2>2, <3>1
  <2>. QED  BY <1>2, <2>1, <2>2
<1>8. ASSUME NEW j \in 1 .. Len(active')
      PROVE  \E p : GoesOn(resp, p)
  <2>1. CASE resp = <<>>
    BY <1>1, <1>8, <2>1
  <2>. QED  BY <1>1, <2>1
<1>9. \A j \in 1 .. Len(active') : \E t, k : Opened(t, k)' /\ active'[j].oid = ColumnAt(t, k)'
  BY <1>1, <1>6, <1>8, WentOn
<1>10. \A i, j \in 1 .. Len(active) : i # j => ~HasPrefix(active[i].oid, active[j].oid)
  BY DEF ReadInv
<1>11. ASSUME NEW i \in 1 .. Len(active'), NEW j \in 1 .. Len(active'), i # j
       PROVE  ~HasPrefix(active'[i].oid, active'[j].oid)
  <2>1. PICK p : GoesOn(resp, p)
    BY <1>8
  <2>2. /\ p[i] \in 1 .. Len(active) /\ active'[i].oid = active[p[i]].oid
        /\ p[j] \in 1 .. Len(active) /\ active'[j].oid = active[p[j]].oid
    BY <1>1, <2>1, WentOn
  <2>3. p[i] # p[j]
    <3>1. i < j \/ j < i
      BY <1>11
    <3>. QED  BY <2>1, <2>2, <3>1 DEF GoesOn
  <2>. QED  BY <1>10, <2>2, <2>3
<1>12. ASSUME ~wrapped', NEW j \in 1 .. Len(active'), NEW o \in oids', HasPrefix(o, active'[j].oid)
       PROVE  ~Less(active'[j].cursor, o)
  <2>1. PICK p : GoesOn(resp, p)
    BY <1>8, <1>12
  <2>2. /\ p[j] \in 1 .. Len(active) /\ active'[j].oid = active[p[j]].oid
        /\ active'[j].cursor \in Seq(Arc)
    BY <1>1, <1>12, <2>1, WentOn
  <2>3. ~wrapped /\ ~Wraps(active[p[j]], Cells(resp, p[j]))
    BY <1>1, <1>12, <2>2
  <2>4. /\ \A x \in Read(active[p[j]], Cells(resp, p[j])) : ~Less(active'[j].cursor, x)
        /\ active'[j].cursor = active[p[j]].cursor \/ Less(active[p[j]].cursor, active'[j].cursor)
    BY <1>1, <1>12, <2>1, <2>3, WentOn
  <2>5. IsColumn(active[p[j]])
    BY <1>1, <2>2, ReadType
  <2>6. CASE o \in oids
    <3>1. ~Less(active[p[j]].cursor, o) /\ o \in Seq(Arc)
      <4>1. HasPrefix(o, active[p[j]].oid)
        BY <1>12, <2>2
      <4>2. o \in Seq(Arc)
        BY <2>6, VarbindsAreOids DEF Varbinds, TypeInv, TypeOK
      <4>. QED  BY <2>2, <2>3, <2>6, <4>1, <4>2 DEF ReadInv
    <3>. QED  BY <2>2, <2>4, <2>5, <3>1, LessIsStrict DEF IsColumn
  <2>7. ASSUME NEW i \in 1 .. Len(active), o \in Read(active[i], Cells(resp, i))
        PROVE  i = p[j]
    <3>1. o \in Seq(Arc) /\ HasPrefix(o, active[i].oid) /\ HasPrefix(o, active[p[j]].oid)
      BY <1>3, <1>12, <2>2, <2>7
    <3>2. active[i].oid \in Seq(Arc) /\ active[p[j]].oid \in Seq(Arc)
      BY <1>1, <2>2, ReadType DEF IsColumn
    <3>3. HasPrefix(active[i].oid, active[p[j]].oid) \/ HasPrefix(active[p[j]].oid, active[i].oid)
      BY <3>1, <3>2, PrefixesCompare
    <3>. QED  BY <1>10, <2>2, <3>3
  <2>. QED  BY <1>2, <1>12, <2>4, <2>6, <2>7
<1>13. ASSUME ~wrapped'  PROVE again' = {}
  <2>1. ~wrapped
    BY <1>1, <1>13
  <2>2. ASSUME NEW o \in oids, NEW i \in 1 .. Len(active), o \in Read(active[i], Cells(resp, i))
        PROVE  FALSE
    <3>1. HasPrefix(o, active[i].oid) /\ Less(active[i].cursor, o)
      BY <1>3, <2>2
    <3>. QED  BY <2>1, <3>1 DEF ReadInv
  <2>3. again = {}
    BY <2>1 DEF ReadInv
  <2>. QED  BY <1>1, <2>2, <2>3
<1>. QED  BY <1>7, <1>9, <1>11, <1>12, <1>13, Zenon DEF ReadInv

LEMMA ReadInit == Init => ReadInv
<1>. SUFFICES ASSUME Init  PROVE ReadInv
  OBVIOUS
<1>1. oids = {} /\ Len(active) = 0 /\ again = {}
  BY DEF Init, Fresh
<1>. QED  BY <1>1 DEF ReadInv

LEMMA ReadStep ==
  ASSUME ColumnsApart, TypeInv, ReadInv, [Next]_vars
  PROVE  ReadInv'
<1>1. /\ given' = given
      /\ pc = "done" => pc' = "done"
      /\ \/ OpenChunk /\ pc' = "loop" /\ UNCHANGED <<table, chunk, failures, err, result>>
         \/ Answered /\ pc = "bulk" /\ pc' = "loop"
         \/ UNCHANGED <<active, result>>
  BY StepCases
<1>2. CASE OpenChunk /\ pc' = "loop" /\ UNCHANGED <<table, chunk, failures, err, result>>
  BY <1>1, <1>2, ReadOpens
<1>3. CASE Answered /\ pc = "bulk" /\ pc' = "loop"
  BY <1>1, <1>3, ReadAnswered DEF Answered
<1>4. CASE UNCHANGED <<active, result>>
  <2>1. CASE pc' = "done"
    BY <1>4, <2>1 DEF ReadInv, result
  <2>2. CASE pc' # "done"
    <3>1. ASSUME NEW t, NEW k, Opened(t, k)  PROVE Opened(t, k)' /\ ColumnAt(t, k)' = ColumnAt(t, k)
      <4>1. t \in 1 .. Len(given.tables) /\ k \in 1 .. Len(given.tables[t].columns)
        BY <3>1 DEF Opened
      <4>. QED  BY <1>1, <2>2, <3>1, <4>1, OpenedStep DEF ColumnAt
    <3>2. pc # "done" /\ active' = active /\ oids' = oids /\ again' = again /\ wrapped' = wrapped
      BY <1>1, <1>4, <2>2 DEF result
    <3>3. \A o \in oids' : \E t, k : Opened(t, k)' /\ HasPrefix(o, ColumnAt(t, k)')
      BY <3>1, <3>2 DEF ReadInv
    <3>4. \A i \in 1 .. Len(active') : \E t, k : Opened(t, k)' /\ active'[i].oid = ColumnAt(t, k)'
      BY <3>1, <3>2 DEF ReadInv
    <3>5. /\ \A i, j \in 1 .. Len(active') : i # j => ~HasPrefix(active'[i].oid, active'[j].oid)
          /\ ~wrapped' => \A i \in 1 .. Len(active'), o \in oids' :
               HasPrefix(o, active'[i].oid) => ~Less(active'[i].cursor, o)
          /\ ~wrapped' => again' = {}
      BY <3>2 DEF ReadInv
    <3>. QED  BY <3>3, <3>4, <3>5, Zenon DEF ReadInv
  <2>. QED  BY <2>1, <2>2
<1>. QED  BY <1>1, <1>2, <1>3, <1>4

\* Whatever the agent answers - rows out of order, truncated or made up - no OID is
\* counted twice in the throughput of a walk until a skip wraps an arc, if no column
\* of the workload lies under another.
THEOREM NoRowTwiceHolds ==
  ASSUME ColumnsApart
  PROVE  Spec => []NoRowTwice
<1>1. Init => TypeInv /\ ReadInv
  BY TypeInit, ReadInit
<1>2. TypeInv /\ ReadInv /\ [Next]_vars => TypeInv' /\ ReadInv'
  BY TypeStep, ReadStep
<1>3. ReadInv => NoRowTwice
  BY DEF ReadInv, NoRowTwice
<1>. QED  BY <1>1, <1>2, <1>3, PTL DEF Spec
-----------------------------------------------------------------------------
(* Progress of an answer.                                                  *)

\* Each answer moves a cursor forward, finishes a column or gives up the chunk, for
\* every agent: a column that goes on with no varbind leaves the first one moved.
THEOREM AdvancesHolds == Spec => Advances
<1>1. ASSUME TypeInv, [Next]_vars, pc = "bulk", pc' = "loop", ~wrapped', ~Len(active') < Len(active)
      PROVE  \E i \in DOMAIN active : Less(active[i].cursor, active'[i].cursor)
  <2>1. Answered
    BY <1>1 DEF Next, WalkStep, WalkTurns, OpenChunk, TableDone, TablesDone, ChunkDone, Ask, CutOff,
       ScalarsAnswered, Finish, Mishap, BulkFails, ScalarsFail, Interrupt, ContextDone, Terminated,
       vars, walkVars
  <2>2. PICK resp \in Responses : Answer(resp)
    BY <2>1 DEF Answered
  <2>3. /\ resp \in Seq(Varbinds) /\ Len(active) \in Nat \ {0} /\ DOMAIN active = 1 .. Len(active)
        /\ wrapped' = (wrapped \/ \E i \in 1 .. Len(active) : Wraps(active[i], Cells(resp, i)))
        /\ IF resp = <<>> THEN active' = <<>> ELSE \E p : GoesOn(resp, p)
    BY <1>1, <2>2, AnswerShape
  <2>4. resp # <<>>
    BY <1>1, <2>3
  <2>5. PICK p : GoesOn(resp, p)
    BY <2>3, <2>4
  <2>6. Len(active') = Len(active) /\ Unfinished(resp) = 1 .. Len(active) /\ 1 \in 1 .. Len(active)
    <3>1. Len(active') <= Len(active) /\ Len(active') \in Nat
          /\ (Len(active') = Len(active) => Unfinished(resp) = 1 .. Len(active))
      BY <2>5 DEF GoesOn
    <3>. QED  BY <1>1, <2>3, <3>1
  <2>7. PICK j \in 1 .. Len(active') : p[j] = 1
    <3>1. \A x \in Unfinished(resp) : \E j \in 1 .. Len(active') : p[j] = x
      BY <2>5 DEF GoesOn
    <3>. QED  BY <2>6, <3>1
  <2>8. j = 1
    <3>1. CASE 1 < j
      <4>1. p[1] < 1 /\ p[1] \in 1 .. Len(active)
        BY <2>3, <2>5, <2>6, <2>7, <3>1 DEF GoesOn
      <4>. QED  BY <4>1
    <3>. QED  BY <2>7, <3>1
  <2>9. Cells(resp, 1) # <<>>
    BY <2>3, <2>4, CellsShape DEF Cells
  <2>10. ~Wraps(active[1], Cells(resp, 1))
    BY <1>1, <2>3, <2>6
  <2>11. Less(active[1].cursor, active'[1].cursor)
    BY <1>1, <2>3, <2>5, <2>7, <2>8, <2>9, <2>10, WentOn
  <2>. QED  BY <2>3, <2>11
<1>2. TypeInv /\ [Next]_vars =>
        [pc = "bulk" /\ pc' = "loop" /\ ~wrapped' =>
           \/ Len(active') < Len(active)
           \/ \E i \in DOMAIN active : Less(active[i].cursor, active'[i].cursor)]_vars
  BY <1>1
<1>. QED  BY <1>2, TypeInit, TypeStep, PTL DEF Spec, Advances
-----------------------------------------------------------------------------
(* The order of an agent, and the columns in it.                           *)

\* An agent in its own order has the OIDs it has agree as far as they do.
LEMMA RankAgrees ==
  ASSUME agent \in Orders, NEW a \in Seq(Arc), NEW b \in Seq(Arc), NEW n \in Nat
  PROVE  Agree(a, b, n) <=> Agree(Rank(a), Rank(b), n)
<1>. DEFINE m == Shared(a, b)
<1>1. m \in Nat /\ Apart(a, b, m) /\ Apart(Rank(a), Rank(b), m)
  BY SharedApart, RankParts
<1>2. Len(Rank(a)) = Len(a) /\ Len(Rank(b)) = Len(b) /\ Len(a) \in Nat /\ Len(b) \in Nat
  BY RankShape
<1>. HIDE DEF m
<1>3. CASE n <= m
  BY <1>1, <1>2, <1>3 DEF Apart, Agree
<1>4. CASE m < n
  <2>1. m + 1 \in 1 .. n
    BY <1>1, <1>4
  <2>2. ~Agree(a, b, n)
    BY <1>1, <1>2, <1>4, <2>1 DEF Apart, Agree
  <2>3. ~Agree(Rank(a), Rank(b), n)
    BY <1>1, <1>2, <1>4, <2>1 DEF Apart, Agree
  <2>. QED  BY <2>2, <2>3
<1>. QED  BY <1>1, <1>3, <1>4

\* A column is ranked in one piece: what an agent sorts between two OIDs of a
\* column is of the column.
LEMMA Contiguous ==
  ASSUME agent \in Orders, NEW c \in Seq(Arc), NEW a \in Seq(Arc), NEW x \in Seq(Arc),
         NEW b \in Seq(Arc), HasPrefix(a, c), HasPrefix(b, c),
         Less(Rank(a), Rank(x)), Less(Rank(x), Rank(b))
  PROVE  HasPrefix(x, c)
<1>. DEFINE p == SubSeq(Rank(b), 1, Len(c))
<1>1. Agree(c, a, Len(c)) /\ Agree(c, b, Len(c)) /\ Len(c) \in Nat
  BY PrefixAgrees
<1>2. Agree(a, b, Len(c))
  BY <1>1 DEF Agree
<1>3. Agree(Rank(a), Rank(b), Len(c))
  BY <1>1, <1>2, RankAgrees
<1>4. Rank(a) \in Seq(Arc) /\ Rank(b) \in Seq(Arc) /\ Rank(x) \in Seq(Arc)
  BY RankShape
<1>5. p \in Seq(Arc) /\ Len(p) = Len(c) /\ \A i \in 1 .. Len(c) : p[i] = Rank(b)[i]
  BY <1>1, <1>3, <1>4 DEF Agree
<1>. HIDE DEF p
<1>6. Agree(p, Rank(a), Len(p)) /\ Agree(p, Rank(b), Len(p))
  BY <1>1, <1>3, <1>5 DEF Agree
<1>7. HasPrefix(Rank(x), p)
  BY <1>4, <1>5, <1>6, PrefixAgrees, NothingBetween
<1>8. Agree(p, Rank(x), Len(p))
  BY <1>4, <1>5, <1>7, PrefixAgrees
<1>9. Agree(Rank(b), Rank(x), Len(c))
  BY <1>1, <1>3, <1>5, <1>8 DEF Agree
<1>10. Agree(b, x, Len(c))
  BY <1>1, <1>9, RankAgrees
<1>11. Agree(c, x, Len(c))
  BY <1>1, <1>10 DEF Agree
<1>. QED  BY <1>11, PrefixAgrees

\* A column comes before its rows, in every agent's order.
LEMMA ColumnFirst ==
  ASSUME agent \in Orders, NEW c \in Seq(Arc), NEW o \in Seq(Arc), HasPrefix(o, c), o # c
  PROVE  Less(Rank(c), Rank(o))
<1>1. Agree(c, o, Len(c)) /\ Len(c) \in Nat /\ Len(o) \in Nat
  BY PrefixAgrees
<1>2. Len(c) < Len(o)
  <2>1. Len(c) = Len(o) => c = o
    BY <1>1 DEF Agree
  <2>. QED  BY <1>1, <2>1 DEF Agree
<1>3. Agree(Rank(c), Rank(o), Len(c)) /\ Rank(c) \in Seq(Arc) /\ Rank(o) \in Seq(Arc)
      /\ Len(Rank(c)) = Len(c) /\ Len(Rank(o)) = Len(o)
  BY <1>1, RankAgrees, RankShape
<1>4. Below(Rank(c), Rank(o), Len(c))
  BY <1>1, <1>2, <1>3 DEF Below
<1>. QED  BY <1>1, <1>3, <1>4, LessIsBelow

\* An agent that keeps the order of the arcs keeps the order of OIDs.
LEMMA AscendingKeepsOrder ==
  ASSUME agent \in Orders, Ascending, NEW a \in Seq(Arc), NEW b \in Seq(Arc), Less(Rank(a), Rank(b))
  PROVE  Less(a, b)
<1>1. Rank(a) \in Seq(Arc) /\ Rank(b) \in Seq(Arc) /\ Len(Rank(a)) = Len(a) /\ Len(Rank(b)) = Len(b)
      /\ Len(a) \in Nat /\ Len(b) \in Nat
  BY RankShape
<1>2. PICK n \in Nat : Below(Rank(a), Rank(b), n)
  BY <1>1, LessIsBelow
<1>3. Agree(a, b, n)
  BY <1>2, RankAgrees DEF Below
<1>4. ASSUME n < Len(a), n < Len(b)  PROVE a[n + 1] < b[n + 1]
  <2>1. n + 1 \in 1 .. Len(a) /\ n + 1 \in 1 .. Len(b) /\ n + 1 \in 1 .. n + 1
    BY <1>1, <1>4
  <2>2. a[n + 1] \in Arc /\ b[n + 1] \in Arc
    BY <2>1
  <2>3. Rank(a)[n + 1] < Rank(b)[n + 1]
    BY <1>1, <1>2, <1>4 DEF Below
  <2>4. n + 1 \in Index(a) <=> n + 1 \in Index(b)
    BY <1>3, <2>1, IndexShared
  <2>5. Rank(a)[n + 1] = IF n + 1 \in Index(a) THEN agent[a[n + 1]] ELSE a[n + 1]
    BY <2>1, RankShape
  <2>6. Rank(b)[n + 1] = IF n + 1 \in Index(b) THEN agent[b[n + 1]] ELSE b[n + 1]
    BY <2>1, RankShape
  <2>7. a[n + 1] \in Nat /\ b[n + 1] \in Nat
    BY <2>2, ArcType
  <2>8. agent[a[n + 1]] \in Nat /\ agent[b[n + 1]] \in Nat
    BY <2>2, AgentsAssumption, ArcType DEF Injection
  <2>9. CASE n + 1 \in Index(a)
    <3>1. agent[a[n + 1]] < agent[b[n + 1]]
      BY <2>3, <2>4, <2>5, <2>6, <2>9
    <3>2. CASE b[n + 1] < a[n + 1]
      <4>1. agent[b[n + 1]] < agent[a[n + 1]]
        BY <2>2, <3>2 DEF Ascending
      <4>. QED  BY <2>8, <3>1, <4>1
    <3>3. CASE b[n + 1] = a[n + 1]
      BY <2>8, <3>1, <3>3
    <3>. QED  BY <2>7, <3>2, <3>3
  <2>. QED  BY <2>3, <2>4, <2>5, <2>6, <2>9
<1>5. Below(a, b, n)
  BY <1>1, <1>2, <1>3, <1>4 DEF Below
<1>. QED  BY <1>5, LessIsBelow
-----------------------------------------------------------------------------
(* No row lost unreported.                                                 *)

\* Nothing so far kept a chunk from being read to its end.
Sound == err = "none" /\ failures \cap {"timeout", "agent", "empty"} = {}

\* What makes LossIsReported inductive.  A row of a column that was asked is read, or
\* its column is skipped, or the cursor of the column is still before it.
LossInv ==
  Sound /\ agent # Anything =>
    /\ pc # "done" =>
         \A t, k : Opened(t, k) /\ ColumnAt(t, k) \notin skips =>
           \A o \in Mib \ oids : HasPrefix(o, ColumnAt(t, k)) =>
             \E i \in 1 .. Len(active) :
               active[i].oid = ColumnAt(t, k) /\ Less(Rank(active[i].cursor), Rank(o))
    /\ pc = "done" => \A o \in Rows \ oids : \E c \in skips : HasPrefix(o, c)

\* A walk that is sound was sound before, and ends behind the last scalar.
LEMMA SoundStep ==
  ASSUME TypeInv, [Next]_vars, Sound'
  PROVE  /\ Sound
         /\ pc' = "done" /\ pc # "done" => Finish
<1>. USE DEF Sound
<1>1. CASE OpenChunk \/ TableDone \/ TablesDone \/ ChunkDone \/ Ask \/ ScalarsAnswered
  BY <1>1 DEF OpenChunk, TableDone, TablesDone, ChunkDone, Ask, ScalarsAnswered
<1>2. CASE CutOff
  BY <1>2 DEF CutOff
<1>3. CASE Finish
  <2>1. err' = err /\ failures' \in {failures, failures \cup {"truncated"}, {"missing"}}
        /\ (failures' = {"missing"} => failures \subseteq {"missing"})
    BY <1>3 DEF Finish
  <2>. QED  BY <1>3, <2>1
<1>4. CASE Mishap
  <2>1. PICK what \in Mishaps : BulkFails(Classified(ctx, what)) \/ ScalarsFail(Classified(ctx, what))
    BY <1>4 DEF Mishap
  <2>2. Classified(ctx, what) \in {"timeout", "agent", "transport", "context"}
    BY DEF Mishaps, Classified, TypeInv, TypeOK
  <2>3. ASSUME NEW e \in {"timeout", "agent", "transport", "context"}, BulkFails(e) \/ ScalarsFail(e)
        PROVE  FALSE
    <3>1. Note(e)
      BY <2>3 DEF BulkFails, ScalarsFail
    <3>. QED  BY <3>1 DEF Note, OfAgent
  <2>. QED  BY <2>1, <2>2, <2>3
<1>5. CASE Answered
  <2>1. PICK resp \in Responses : Answer(resp)
    BY <1>5 DEF Answered
  <2>2. pc' = "loop" /\ err' = err /\ failures \subseteq failures'
    BY <1>5, <2>1, AnswerShape DEF Answered
  <2>. QED  BY <2>2
<1>6. CASE Interrupt \/ UNCHANGED vars
  BY <1>6 DEF Interrupt, ContextDone, vars, walkVars
<1>. QED  BY <1>1, <1>2, <1>3, <1>4, <1>5, <1>6 DEF Next, WalkStep, WalkTurns, Terminated

LEMMA RankKept == ASSUME agent' = agent PROVE \A o : Rank(o)' = Rank(o)
BY DEF Rank, Index

LEMMA LossOpens ==
  ASSUME ColumnsAreNotRows, TypeInv, LossInv, [Next]_vars, pc' # "done", pc # "done", OpenChunk,
         UNCHANGED <<table, chunk, failures, err, result>>, given' = given, agent' = agent
  PROVE  LossInv'
<1>. SUFFICES ASSUME Sound, agent # Anything, NEW t, NEW k, Opened(t, k)',
                     ColumnAt(t, k) \notin skips, NEW o \in Mib \ oids, HasPrefix(o, ColumnAt(t, k))
              PROVE  \E i \in 1 .. Len(active') :
                       active'[i].oid = ColumnAt(t, k) /\ Less(Rank(active'[i].cursor), Rank(o))
  <2>1. /\ oids' = oids /\ skips' = skips /\ (Sound' => Sound) /\ \A x : Rank(x)' = Rank(x)
        /\ \A t, k : ColumnAt(t, k)' = ColumnAt(t, k)
    BY RankKept DEF result, Sound, ColumnAt
  <2>. QED  BY <2>1 DEF LossInv
<1>1. t \in 1 .. Len(given.tables) /\ k \in 1 .. Len(given.tables[t].columns)
  BY DEF Opened
<1>2. active = <<>> /\ given \in Surveys /\ agent \in Orders /\ pc = "chunk"
  BY DEF TypeInv, TypeOK, OpenChunk
<1>3. ~Opened(t, k)
  BY <1>2 DEF LossInv
<1>4. t = table /\ Before(chunk) < k /\ k <= Before(chunk + 1)
  BY <1>1, <1>3, OpenedStep
<1>5. Asked = given.tables[t].columns
  BY <1>4 DEF Asked
<1>6. PICK i \in 1 .. Len(active') : k = Before(chunk) + i
  BY <1>1, <1>4, <1>5, OpenShape
<1>7. active'[i] = [oid |-> Asked[k], cursor |-> Asked[k]]
  BY <1>6, OpenShape
<1>8. active'[i].oid = ColumnAt(t, k) /\ active'[i].cursor = ColumnAt(t, k)
  BY <1>5, <1>7 DEF ColumnAt
<1>9. ColumnAt(t, k) \in Seq(Arc) /\ o \in Seq(Arc)
  BY <1>1, <1>2, GivenShape, VarbindsAreOids DEF ColumnAt, Varbinds
<1>10. ColumnAt(t, k) \notin Mib
  <2>1. t \in DOMAIN given.tables /\ k \in DOMAIN given.tables[t].columns
    BY <1>1, <1>2, GivenShape
  <2>. QED  BY <1>2, <2>1 DEF ColumnsAreNotRows, ColumnAt
<1>11. Less(Rank(ColumnAt(t, k)), Rank(o))
  BY <1>2, <1>9, <1>10, ColumnFirst
<1>. QED  BY <1>8, <1>11

\* A row behind the cursor of a column is read, or it is behind the next cursor.
LEMMA RowKept ==
  ASSUME agent \in Orders, NEW c, IsColumn(c), NEW cells \in Seq(Seq(Arc)),
         \A r \in 1 .. Len(cells) : cells[r] = Row(c.cursor, r),
         ~Misordered(c, cells),
         NEW o \in Mib, HasPrefix(o, c.oid), Less(Rank(c.cursor), Rank(o)), o \notin Read(c, cells)
  PROVE  ~Finished(c, cells) /\ Less(Rank(CursorAfter(c, cells)), Rank(o))
<1>. DEFINE n == RowsRead(c, cells)
<1>1. Len(cells) \in Nat /\ n \in 0 .. Len(cells)
  BY RowsReadShape
<1>2. c.cursor \in Seq(Arc) /\ c.oid \in Seq(Arc) /\ HasPrefix(c.cursor, c.oid)
  BY DEF IsColumn
<1>3. PICK q \in Nat \ {0} : Row(c.cursor, q) = o
  BY <1>2, RowsBehindCursor
<1>4. ~(q <= n)
  <2>. SUFFICES ASSUME q <= n  PROVE FALSE
    OBVIOUS
  <2>1. q \in 1 .. n /\ q \in 1 .. Len(cells)
    BY <1>1
  <2>2. cells[q] = o
    BY <1>3, <2>1
  <2>. QED  BY <2>1, <2>2 DEF Read
<1>. HIDE DEF n
<1>5. o \in Seq(Arc) /\ o # End
  BY AgentsAssumption DEF End
<1>6. \A r \in Nat \ {0} : r < q => /\ Row(c.cursor, r) \in Mib
                                    /\ Less(Rank(c.cursor), Rank(Row(c.cursor, r)))
                                    /\ Less(Rank(Row(c.cursor, r)), Rank(o))
  BY <1>2, <1>3, <1>5, RowsBehindCursor
<1>7. n = Len(cells)
  <2>. SUFFICES ASSUME n < Len(cells)  PROVE FALSE
    BY <1>1
  <2>1. cells[n + 1] = Row(c.cursor, n + 1) /\ n + 1 \in Nat \ {0}
    BY <1>1
  <2>2. CASE q = n + 1
    <3>1. Inside(c, cells[n + 1])
      BY <1>3, <1>5, <2>1, <2>2 DEF Inside
    <3>. QED  BY <3>1 DEF Misordered, n
  <2>3. CASE n + 1 < q
    <3>. DEFINE x == Row(c.cursor, n + 1)
    <3>1. x \in Mib /\ Less(Rank(c.cursor), Rank(x)) /\ Less(Rank(x), Rank(o))
      BY <1>6, <2>1, <2>3
    <3>2. x \in Seq(Arc) /\ x # End
      BY <3>1, AgentsAssumption DEF End
    <3>. HIDE DEF x
    <3>3. HasPrefix(x, c.oid)
      BY <1>2, <1>5, <3>1, <3>2, Contiguous
    <3>4. Inside(c, cells[n + 1])
      BY <2>1, <3>2, <3>3 DEF Inside, x
    <3>. QED  BY <3>4 DEF Misordered, n
  <2>. QED  BY <1>1, <1>4, <2>2, <2>3
<1>8. ~Finished(c, cells)
  BY <1>1, <1>7 DEF Finished, n
<1>9. CursorAfter(c, cells) = CursorAt(c, cells, n + 1)
  BY DEF CursorAfter, n
<1>10. CASE n = 0
  BY <1>8, <1>9, <1>10 DEF CursorAt
<1>11. CASE n # 0
  <2>1. n \in 1 .. Len(cells) /\ n + 1 # 1 /\ n + 1 - 1 = n /\ n < q /\ n \in Nat \ {0}
    BY <1>1, <1>4, <1>11
  <2>2. CursorAt(c, cells, n + 1) = Row(c.cursor, n)
    BY <2>1 DEF CursorAt
  <2>. QED  BY <1>6, <1>8, <1>9, <2>1, <2>2
<1>. QED  BY <1>10, <1>11

LEMMA LossAnswered ==
  ASSUME TypeInv, LossInv, [Next]_vars, pc' # "done", pc # "done", given' = given, agent' = agent,
         pc = "bulk", NEW resp \in Responses, Answer(resp)
  PROVE  LossInv'
<1>1. /\ resp \in Seq(Varbinds) /\ Len(active) \in Nat \ {0}
      /\ oids' = oids \cup UNION {Read(active[i], Cells(resp, i)) : i \in 1 .. Len(active)}
      /\ skips' = skips \cup {active[i].oid : i \in {i \in 1 .. Len(active) :
                                                       Misordered(active[i], Cells(resp, i))}}
      /\ IF resp = <<>> THEN failures' = failures \cup {"empty"} ELSE \E p : GoesOn(resp, p)
  BY AnswerShape
<1>2. (\A x : Rank(x)' = Rank(x)) /\ \A t, k : ColumnAt(t, k)' = ColumnAt(t, k)
  BY RankKept DEF ColumnAt
<1>. SUFFICES ASSUME Sound', agent # Anything, NEW t, NEW k, Opened(t, k)',
                     ColumnAt(t, k) \notin skips', NEW o \in Mib \ oids', HasPrefix(o, ColumnAt(t, k))
              PROVE  \E j \in 1 .. Len(active') :
                       active'[j].oid = ColumnAt(t, k) /\ Less(Rank(active'[j].cursor), Rank(o))
  BY <1>2 DEF LossInv
<1>3. Opened(t, k)
  <2>1. t \in 1 .. Len(given.tables) /\ k \in 1 .. Len(given.tables[t].columns)
    BY DEF Opened
  <2>. QED  BY <2>1, OpenedStep DEF OpenChunk
<1>4. Sound /\ resp # <<>>
  BY <1>1, SoundStep DEF Sound
<1>5. agent \in Orders
  BY DEF TypeInv, TypeOK
<1>6. PICK i \in 1 .. Len(active) : active[i].oid = ColumnAt(t, k) /\ Less(Rank(active[i].cursor), Rank(o))
  BY <1>1, <1>3, <1>4 DEF LossInv
<1>7. ~Misordered(active[i], Cells(resp, i)) /\ o \notin Read(active[i], Cells(resp, i))
  BY <1>1, <1>6
<1>8. IsColumn(active[i]) /\ Cells(resp, i) \in Seq(Seq(Arc))
  BY <1>1, ReadType
<1>9. \A r \in 1 .. Len(Cells(resp, i)) : Cells(resp, i)[r] = Row(active[i].cursor, r)
  BY ResponseShape DEF Cells, TypeInv, TypeOK
<1>10. /\ ~Finished(active[i], Cells(resp, i))
       /\ Less(Rank(CursorAfter(active[i], Cells(resp, i))), Rank(o))
  BY <1>5, <1>6, <1>7, <1>8, <1>9, RowKept
<1>11. PICK p : GoesOn(resp, p)
  BY <1>1, <1>4
<1>12. PICK j \in 1 .. Len(active') : p[j] = i
  <2>1. i \in Unfinished(resp)
    BY <1>10 DEF Unfinished
  <2>. QED  BY <1>11, <2>1 DEF GoesOn
<1>13. active'[j].oid = active[i].oid /\ active'[j].cursor = CursorAfter(active[i], Cells(resp, i))
  BY <1>1, <1>11, <1>12, WentOn
<1>. QED  BY <1>6, <1>10, <1>13

LEMMA LossInit == Init => LossInv
<1>. SUFFICES ASSUME Init, NEW t, NEW k, Opened(t, k)  PROVE FALSE
  BY DEF LossInv, Init, Fresh
<1>1. Reached = 0 /\ table = 1
  BY WalkAssumption DEF Init, Fresh, Reached, Before
<1>2. t \in 1 .. Len(given.tables) /\ k \in 1 .. Len(given.tables[t].columns) /\ Len(given.tables) \in Nat
  BY GivenShape DEF Opened, Init
<1>. QED  BY <1>1, <1>2 DEF Opened

\* Behind the last table every column was asked, and none is left.
LEMMA LossAtTheEnd ==
  ASSUME TypeInv, LossInv, Sound, agent # Anything, pc = "scalars", NEW o \in Rows \ oids
  PROVE  \E c \in skips : HasPrefix(o, c)
<1>1. PICK c \in Columns : o \in Mib \ oids /\ HasPrefix(o, c)
  BY DEF Rows
<1>2. /\ given \in Surveys /\ active = <<>> /\ table > Len(given.tables) /\ table \in Nat
  BY GivenShape DEF TypeInv, TypeOK
<1>3. PICK t \in DOMAIN given.tables : c \in ToSet(given.tables[t].columns)
  BY <1>1 DEF Columns
<1>4. t \in 1 .. Len(given.tables) /\ Len(given.tables) \in Nat
      /\ DOMAIN given.tables[t].columns = 1 .. Len(given.tables[t].columns)
  BY <1>2, <1>3, GivenShape
<1>5. PICK k \in 1 .. Len(given.tables[t].columns) : c = ColumnAt(t, k)
  BY <1>3, <1>4 DEF ToSet, ColumnAt
<1>6. Opened(t, k)
  BY <1>2, <1>4, <1>5 DEF Opened
<1>7. CASE c \notin skips
  <2>1. \E i \in 1 .. Len(active) : active[i].oid = ColumnAt(t, k)
    BY <1>1, <1>5, <1>6, <1>7 DEF LossInv
  <2>. QED  BY <1>2, <2>1
<1>. QED  BY <1>1, <1>7

LEMMA LossStep ==
  ASSUME ColumnsAreNotRows, TypeInv, LossInv, [Next]_vars
  PROVE  LossInv'
<1>1. /\ given' = given /\ agent' = agent
      /\ pc = "done" => pc' = "done"
      /\ \/ OpenChunk /\ pc' = "loop" /\ UNCHANGED <<table, chunk, failures, err, result>>
         \/ Answered /\ pc = "bulk" /\ pc' = "loop"
         \/ UNCHANGED <<active, result>>
  BY StepCases
<1>2. CASE OpenChunk /\ pc' = "loop" /\ UNCHANGED <<table, chunk, failures, err, result>>
  BY <1>1, <1>2, LossOpens
<1>3. CASE Answered /\ pc = "bulk" /\ pc' = "loop"
  BY <1>1, <1>3, LossAnswered DEF Answered
<1>4. CASE UNCHANGED <<active, result>>
  <2>. SUFFICES ASSUME Sound', agent # Anything  PROVE LossInv'
    BY <1>1 DEF LossInv
  <2>1. /\ active' = active /\ oids' = oids /\ skips' = skips
        /\ Rows' = Rows /\ \A t, k : ColumnAt(t, k)' = ColumnAt(t, k)
        /\ \A x : Rank(x)' = Rank(x)
    BY <1>1, <1>4, RankKept DEF result, Rows, Columns, ColumnAt
  <2>2. Sound
    BY SoundStep
  <2>3. CASE pc' # "done"
    <3>. SUFFICES ASSUME NEW t, NEW k, Opened(t, k)', ColumnAt(t, k) \notin skips,
                         NEW o \in Mib \ oids, HasPrefix(o, ColumnAt(t, k))
                  PROVE  \E i \in 1 .. Len(active) :
                           active[i].oid = ColumnAt(t, k) /\ Less(Rank(active[i].cursor), Rank(o))
      BY <2>1, <2>3 DEF LossInv
    <3>1. CASE Opened(t, k)
      BY <1>1, <2>2, <2>3, <3>1 DEF LossInv
    <3>2. CASE ~Opened(t, k)
      <4>1. OpenChunk
        <5>1. t \in 1 .. Len(given.tables) /\ k \in 1 .. Len(given.tables[t].columns)
          BY <1>1 DEF Opened
        <5>. QED  BY <2>3, <3>2, <5>1, OpenedStep
      <4>2. pc' = "loop" /\ UNCHANGED <<table, chunk, failures, err, result>> /\ pc # "done"
        BY <4>1 DEF OpenChunk
      <4>3. LossInv'
        BY <1>1, <2>3, <4>1, <4>2, LossOpens
      <4>. QED  BY <1>1, <2>1, <2>3, <4>3 DEF LossInv
    <3>. QED  BY <3>1, <3>2
  <2>4. CASE pc' = "done"
    <3>. SUFFICES ASSUME NEW o \in Rows \ oids  PROVE \E c \in skips : HasPrefix(o, c)
      BY <2>1, <2>4 DEF LossInv
    <3>1. CASE pc = "done"
      BY <2>2, <3>1 DEF LossInv
    <3>2. CASE pc # "done"
      <4>1. pc = "scalars"
        BY <2>4, <3>2, SoundStep DEF Finish
      <4>. QED  BY <2>2, <4>1, LossAtTheEnd
    <3>. QED  BY <3>1, <3>2
  <2>. QED  BY <2>3, <2>4
<1>. QED  BY <1>1, <1>2, <1>3, <1>4

\* A walk that no timeout, error status or empty response cut short has read every
\* row of its columns but those of the columns it lists as skipped - in whatever order
\* the agent sorts its rows, wherever it truncates, and however ragged the table.
THEOREM LossIsReportedHolds ==
  ASSUME ColumnsAreNotRows
  PROVE  Spec => []LossIsReported
<1>1. TypeInv /\ LossInv => LossIsReported
  BY DEF LossInv, LossIsReported, Complete, Sound
<1>2. Init => TypeInv /\ LossInv
  BY TypeInit, LossInit
<1>3. TypeInv /\ LossInv /\ [Next]_vars => TypeInv' /\ LossInv'
  BY TypeStep, LossStep
<1>. QED  BY <1>1, <1>2, <1>3, PTL DEF Spec
-----------------------------------------------------------------------------
(* No honest agent blamed.                                                 *)

\* What makes HonestNotBlamed inductive.
HonestInv == /\ Ascending => skips = {} /\ "missing" \notin failures
             /\ pc # "done" => err = "none"

\* An agent in the order of OIDs answers no row out of order.
LEMMA HonestAnswers ==
  ASSUME agent \in Orders, Ascending, NEW c, IsColumn(c), NEW cells \in Seq(Seq(Arc)),
         \A r \in 1 .. Len(cells) : cells[r] = Row(c.cursor, r)
  PROVE  ~Misordered(c, cells)
<1>. SUFFICES ASSUME Misordered(c, cells)  PROVE FALSE
  OBVIOUS
<1>. DEFINE n == RowsRead(c, cells)
<1>1. Len(cells) \in Nat /\ n \in 0 .. Len(cells) /\ n < Len(cells) /\ Inside(c, cells[n + 1])
  BY RowsReadShape DEF Misordered
<1>2. ~Follows(c, cells, n + 1)
  BY <1>1, RowsReadShape
<1>. HIDE DEF n
<1>3. ~Less(CursorAt(c, cells, n + 1), cells[n + 1])
  BY <1>1, <1>2 DEF Follows
<1>4. n + 1 \in 1 .. Len(cells) /\ n + 1 \in Nat \ {0} /\ n \in Nat
  BY <1>1
<1>5. cells[n + 1] = Row(c.cursor, n + 1) /\ Row(c.cursor, n + 1) # End /\ c.cursor \in Seq(Arc)
      /\ cells[n + 1] \in Seq(Arc)
  BY <1>1, <1>4 DEF Inside, IsColumn
<1>6. CASE n = 0
  <2>1. CursorAt(c, cells, n + 1) = c.cursor
    BY <1>6 DEF CursorAt
  <2>2. Less(Rank(c.cursor), Rank(cells[n + 1]))
    BY <1>4, <1>5, RowsBehindCursor
  <2>. QED  BY <1>3, <1>5, <2>1, <2>2, AscendingKeepsOrder
<1>7. CASE n # 0
  <2>1. n \in 1 .. Len(cells) /\ n \in Nat \ {0} /\ n < n + 1 /\ n + 1 # 1 /\ n + 1 - 1 = n
    BY <1>1, <1>7
  <2>2. CursorAt(c, cells, n + 1) = cells[n] /\ cells[n] = Row(c.cursor, n) /\ cells[n] \in Seq(Arc)
    BY <2>1 DEF CursorAt
  <2>3. Less(Rank(cells[n]), Rank(cells[n + 1]))
    BY <1>4, <1>5, <2>1, <2>2, RowsBehindCursor
  <2>. QED  BY <1>3, <1>5, <2>2, <2>3, AscendingKeepsOrder
<1>. QED  BY <1>6, <1>7

\* Nothing of the inventory is missing where no row is lost.
LEMMA NothingMissing ==
  ASSUME TypeInv, \A o \in Rows : o \in oids
  PROVE  ~Missed
<1>1. given \in Surveys /\ given.reference \in Seq([root : Seq(Arc), oids : SUBSET Mib])
  BY AgentsAssumption DEF TypeInv
<1>2. \A i \in DOMAIN given.reference : given.reference[i].oids \subseteq Mib
  <2>. DEFINE R == [root : Seq(Arc), oids : SUBSET Mib]
  <2>1. \A i \in DOMAIN given.reference : given.reference[i] \in R
    <3>. HIDE DEF R
    <3>1. given.reference \in Seq(R)
      BY <1>1 DEF R
    <3>. QED  BY <3>1
  <2>. QED  BY <2>1
<1>3. ASSUME NEW r \in ReferenceOIDs
      PROVE  r \in (DOMAIN given.reference) \X Mib /\ r[2] \in Rows
  <2>1. PICK i \in DOMAIN given.reference :
          /\ r[1] = i /\ r \in {i} \X given.reference[i].oids
          /\ \E c \in Columns : HasPrefix(r[2], c)
    BY <1>3 DEF ReferenceOIDs, Columns
  <2>. QED  BY <1>2, <2>1 DEF Rows
<1>4. Missing = {}
  BY <1>3 DEF Missing
<1>5. Cardinality(ReferenceOIDs) \in Nat
  <2>1. IsFiniteSet(DOMAIN given.reference)
    <3>1. DOMAIN given.reference = 1 .. Len(given.reference) /\ Len(given.reference) \in Nat
      BY <1>1
    <3>. QED  BY <3>1, FS_Interval
  <2>2. IsFiniteSet((DOMAIN given.reference) \X Mib)
    BY <2>1, FS_Product, AgentsAssumption
  <2>3. ReferenceOIDs \subseteq (DOMAIN given.reference) \X Mib
    BY <1>3
  <2>. QED  BY <2>2, <2>3, FS_Subset, FS_CardinalityType
<1>6. Cardinality(Missing) = 0
  BY <1>4, FS_EmptySet
<1>. QED  BY <1>5, <1>6, WalkAssumption DEF Missed

LEMMA HonestStep ==
  ASSUME TypeInv, LossInv, HonestInv, [Next]_vars
  PROVE  HonestInv'
<1>1. Ascending' = Ascending /\ agent' = agent
  <2>1. agent' = agent
    BY StepCases
  <2>. QED  BY <2>1 DEF Ascending
<1>2. pc' # "done" => err' = "none"
  <2>. SUFFICES ASSUME pc' # "done"  PROVE err' = "none"
    OBVIOUS
  <2>1. pc # "done" /\ err = "none"
    BY StepCases DEF HonestInv
  <2>2. CASE Mishap
    <3>1. PICK what \in Mishaps : BulkFails(Classified(ctx, what)) \/ ScalarsFail(Classified(ctx, what))
      BY <2>2 DEF Mishap
    <3>2. ASSUME NEW e, ScalarsFail(e)  PROVE err' = "none"
      BY <2>1, <3>2 DEF ScalarsFail, Note
    <3>. QED  BY <3>1, <3>2 DEF BulkFails
  <2>3. CASE Answered
    <3>1. PICK resp \in Responses : Answer(resp)
      BY <2>3 DEF Answered
    <3>2. err' = err
      BY <2>3, <3>1, AnswerShape DEF Answered
    <3>. QED  BY <2>1, <3>2
  <2>. QED  BY <2>1, <2>2, <2>3 DEF Next, WalkStep, WalkTurns, OpenChunk, TableDone, TablesDone,
            ChunkDone, Ask, CutOff, ScalarsAnswered, Finish, Interrupt, ContextDone, Terminated,
            vars, walkVars
<1>. SUFFICES ASSUME Ascending  PROVE skips' = {} /\ "missing" \notin failures'
  BY <1>1, <1>2 DEF HonestInv
<1>3. skips = {} /\ "missing" \notin failures /\ agent # Anything /\ agent \in Orders
  BY DEF HonestInv, Ascending, TypeInv, TypeOK
<1>4. CASE Answered
  <2>1. PICK resp \in Responses : Answer(resp)
    BY <1>4 DEF Answered
  <2>2. pc = "bulk" /\ active # <<>> /\ active \in Seq([oid : Columns, cursor : Seq(Arc)]) /\ Columnar
    BY <1>4 DEF Answered, TypeInv, TypeOK
  <2>3. /\ resp \in Seq(Varbinds)
        /\ skips' = skips \cup {active[i].oid : i \in {i \in 1 .. Len(active) :
                                                         Misordered(active[i], Cells(resp, i))}}
        /\ failures' \in {failures, failures \cup {"empty"}}
    BY <2>1, <2>2, AnswerShape
  <2>4. ASSUME NEW i \in 1 .. Len(active)  PROVE ~Misordered(active[i], Cells(resp, i))
    <3>1. IsColumn(active[i]) /\ Cells(resp, i) \in Seq(Seq(Arc))
      BY <2>3, ReadType
    <3>2. \A r \in 1 .. Len(Cells(resp, i)) : Cells(resp, i)[r] = Row(active[i].cursor, r)
      BY <1>3, <2>1, <2>2, ResponseShape DEF Cells
    <3>. QED  BY <1>3, <3>1, <3>2, HonestAnswers
  <2>. QED  BY <1>3, <2>3, <2>4
<1>5. CASE Finish
  <2>1. pc = "scalars" /\ skips' = skips
    BY <1>5 DEF Finish, result
  <2>2. failures' = LET own == failures \cup (IF truncated THEN {"truncated"} ELSE {})
                    IN IF own = {} /\ Missed THEN {"missing"} ELSE own
    BY <1>5 DEF Finish
  <2>3. ASSUME failures = {}  PROVE ~Missed
    <3>1. Sound
      BY <2>1, <2>3 DEF Sound, HonestInv
    <3>2. \A o \in Rows : o \in oids
      BY <1>3, <2>1, <3>1, LossAtTheEnd
    <3>. QED  BY <3>2, NothingMissing
  <2>4. "missing" \notin failures'
    BY <1>3, <2>2, <2>3
  <2>. QED  BY <1>3, <2>1, <2>4
<1>6. CASE Mishap
  <2>1. PICK what \in Mishaps : BulkFails(Classified(ctx, what)) \/ ScalarsFail(Classified(ctx, what))
    BY <1>6 DEF Mishap
  <2>. DEFINE e == Classified(ctx, what)
  <2>. HIDE DEF e
  <2>2. Note(e) /\ UNCHANGED result
    BY <2>1 DEF BulkFails, ScalarsFail, e
  <2>. QED  BY <1>3, <2>2 DEF Note, OfAgent, result
<1>7. CASE ~(Answered \/ Finish \/ Mishap)
  <2>1. failures' = failures /\ skips' = skips
    BY <1>7 DEF Next, WalkStep, WalkTurns, OpenChunk, TableDone, TablesDone, ChunkDone, Ask, CutOff,
       ScalarsAnswered, Interrupt, ContextDone, Terminated, vars, walkVars, result
  <2>. QED  BY <1>3, <2>1
<1>. QED  BY <1>4, <1>5, <1>6, <1>7

\* An agent that keeps the order of OIDs is never said to misorder, and never blamed
\* for OIDs of the reference inventory: not for those of objects the workload did not
\* ask for, and not for any row behind a response that was cut short.
THEOREM HonestNotBlamedHolds ==
  ASSUME ColumnsAreNotRows
  PROVE  Spec => []HonestNotBlamed
<1>1. HonestInv => HonestNotBlamed
  BY DEF HonestInv, HonestNotBlamed
<1>2. Init => TypeInv /\ LossInv /\ HonestInv
  BY TypeInit, LossInit DEF HonestInv, Init, Fresh
<1>3. TypeInv /\ LossInv /\ HonestInv /\ [Next]_vars => TypeInv' /\ LossInv' /\ HonestInv'
  BY TypeStep, LossStep, HonestStep
<1>. QED  BY <1>1, <1>2, <1>3, PTL DEF Spec
=============================================================================
