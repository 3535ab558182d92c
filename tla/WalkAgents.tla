----------------------------- MODULE WalkAgents -----------------------------
(***************************************************************************)
(* Walk against agents that this repository does not have: one that sorts  *)
(* the arcs of a row's index by an order of its own and stops short where  *)
(* it likes, and one that answers anything at all.                         *)
(***************************************************************************)
EXTENDS Walk

CONSTANTS
  Surveys,       \* what a walk may be given: a workload and a reference inventory
  Mib,           \* the OIDs of the agent
  Stems,         \* the columns of its tables
  Orders,        \* how it may sort the arcs of a row's index
  Oids           \* what an agent that answers anything may name

ASSUME AgentsAssumption ==
  /\ Mib \subseteq Seq(Arc) \ {<<>>} /\ IsFiniteSet(Mib) /\ Oids \subseteq Seq(Arc) \ {<<>>}
  /\ Stems \subseteq Seq(Arc) /\ Orders \subseteq Injection(Arc, Arc)
  /\ \A s \in Surveys :
       /\ s.tables \in Seq([base : Seq(Arc), columns : Seq(Seq(Arc) \ {<<>>})])
       /\ s.scalars \in Nat
       /\ s.reference \in Seq([root : Seq(Arc), oids : SUBSET Mib])

\* What some theorems ask of a workload.  Its columns are distinct, and none lies
\* under another; and none is itself an OID that the agent has, for a walk begins
\* behind its column and would pass over it.
ColumnsApart ==
  \A s \in Surveys : \A t, u \in DOMAIN s.tables :
    \A k \in DOMAIN s.tables[t].columns, l \in DOMAIN s.tables[u].columns :
      HasPrefix(s.tables[t].columns[k], s.tables[u].columns[l]) => t = u /\ k = l
ColumnsAreNotRows ==
  \A s \in Surveys : \A t \in DOMAIN s.tables :
    \A k \in DOMAIN s.tables[t].columns : s.tables[t].columns[k] \notin Mib

Anything == <<>>       \* the agent whose answers follow no order

Init == Fresh /\ given \in Surveys /\ ctx = "live" /\ agent \in Orders \cup {Anything}
-----------------------------------------------------------------------------
(* The agent.                                                              *)

\* The arcs of an OID as the agent ranks them: those of a row's index, behind
\* the column, in its own order.
Index(o) == UNION {Len(c) + 1 .. Len(o) : c \in {c \in Stems : HasPrefix(o, c)}}
Rank(o) == [i \in DOMAIN o |-> IF i \in Index(o) THEN agent[o[i]] ELSE o[i]]

\* The OID r rows behind a cursor.
Row(cursor, r) ==
  LET after == {o \in Mib : Less(Rank(cursor), Rank(o))}
  IN IF r > Cardinality(after) THEN End
     ELSE CHOOSE o \in after : Cardinality({p \in after : ~Less(Rank(o), Rank(p))}) = r

\* All the agent may answer to GetBulk for the cursors of active.
FullResponse ==
  [i \in 1 .. Len(active) * Reps |->
     Row(active[((i - 1) % Len(active)) + 1].cursor, ((i - 1) \div Len(active)) + 1)]

Responses ==
  LET most == Len(active) * Reps
      full == FullResponse
  IN IF agent = Anything THEN UNION {[1 .. n -> Oids \cup {End}] : n \in 0 .. most}
                         ELSE {SubSeq(full, 1, n) : n \in 0 .. most}
-----------------------------------------------------------------------------
(* The walk.                                                               *)

Answered == pc = "bulk" /\ \E resp \in Responses : Answer(resp)

Mishap == \E what \in Mishaps : \/ BulkFails(Classified(ctx, what))
                               \/ ScalarsFail(Classified(ctx, what))

WalkStep == (WalkTurns \/ Mishap \/ Answered) /\ UNCHANGED env

Interrupt == pc # "done" /\ ContextDone

Terminated == pc = "done" /\ UNCHANGED vars

Next == WalkStep \/ Interrupt \/ Terminated

\* Every request returns, by its timeout at the latest.
Fairness == WF_vars(WalkStep)

Spec == Init /\ [][Next]_vars /\ Fairness
-----------------------------------------------------------------------------
(* What a walk promises.                                                   *)

\* Every variable has its type; a column in the chunk is one of the table's.
TypeOK ==
  /\ pc \in {"chunk", "loop", "bulk", "scalars", "done"}
  /\ table \in 1 .. Len(given.tables) + 1 /\ chunk \in Nat /\ scalar \in Nat
  /\ failures \subseteq {"timeout", "agent", "empty", "truncated", "missing"}
  /\ err \in {"none", "context", "transport"}
  /\ active \in Seq([oid : Columns, cursor : Seq(Arc)])
  /\ oids \subseteq Mib \cup Oids /\ again \subseteq oids
  /\ skips \subseteq Columns
  /\ truncated \in BOOLEAN /\ wrapped \in BOOLEAN
  /\ ctx \in {"live", "done"} /\ agent \in Orders \cup {Anything}

Ascending == agent # Anything /\ \A a, b \in Arc : a < b => agent[a] < agent[b]

\* The rows under the columns walked.
Rows == {o \in Mib : \E c \in Columns : HasPrefix(o, c)}

\* No OID is counted twice in the throughput, whatever the agent answers: not
\* after a skip, a truncated row or a chunk given up, unless a skip wrapped the
\* largest arc and sent its cursor back.
NoRowTwice == wrapped \/ again = {}

\* The whole workload was asked: nothing but a timeout, an error status or an
\* empty response kept a chunk from being read to its end.
Complete == pc = "done" /\ err = "none" /\ failures \cap {"timeout", "agent", "empty"} = {}

\* A row is lost only in a column the report lists as skipped: stopping short,
\* ragged columns, chunks and the end of the MIB cost requests, never a row.
LossIsReported ==
  Complete /\ agent # Anything =>
    \A o \in Rows \ oids : \E c \in skips : HasPrefix(o, c)

\* An agent that keeps the order of OIDs is never said to misorder, and never
\* blamed for OIDs of the inventory that the workload did not ask for.
HonestNotBlamed ==
  Ascending => skips = {} /\ (pc = "done" => "missing" \notin failures)

\* A walk ends whatever the agent answers, unless a skip wrapped.
WalkEnds == <>(pc = "done" \/ wrapped)

\* Each answer moves the walk: some cursor goes forward, a column is finished,
\* or the chunk is given up.
Advances ==
  [][pc = "bulk" /\ pc' = "loop" /\ ~wrapped' =>
       \/ Len(active') < Len(active)
       \/ \E i \in DOMAIN active : Less(active[i].cursor, active'[i].cursor)]_vars
=============================================================================
