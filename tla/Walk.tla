-------------------------------- MODULE Walk --------------------------------
(***************************************************************************)
(* One walk of the workload: walk.Run with table(), scalars() and send(),  *)
(* and what trial() makes of its result (referenceOIDs, Missing).  What    *)
(* the agent answers is the parameter of its actions.                      *)
(***************************************************************************)
EXTENDS Column, Listing, Functions

CONSTANTS
  MaxVars,       \* Settings.MaxVarsPerPDU
  Reps,          \* Settings.MaxRepetitions
  Tolerance      \* Options.Tolerance, percent

ASSUME WalkAssumption ==
  /\ MaxVars \in Nat \ {0} /\ Reps \in Nat \ {0}
  /\ Tolerance \in Nat

VARIABLES
  given,              \* the Workload and the OIDs of the Reference, by subtree
  \* walk.Run
  pc, table, chunk,   \* control, and the chunk of columns it is at
  scalar,             \* scalars asked so far
  failures,           \* kinds of failures
  err,                \* the error Run returns: "none", "context" or "transport"
  \* table(): the columns not finished, each with its cursor
  active,
  \* Result: OIDs, whether it has Truncations, Skips
  oids, truncated, skips,
  \* the context, and the agent
  ctx, agent,
  \* OIDs read twice, and whether a skip wrapped.  Not in the code.
  again, wrapped

result == <<oids, truncated, skips, again, wrapped>>
walkVars == <<pc, table, chunk, scalar, failures, err, active, result>>
env == <<given, ctx, agent>>
vars == <<walkVars, env>>

Columns == UNION {ToSet(given.tables[t].columns) : t \in DOMAIN given.tables}

Fresh ==
  /\ pc = "chunk" /\ table = 1 /\ chunk = 1 /\ scalar = 0
  /\ failures = {} /\ err = "none"
  /\ active = <<>>
  /\ oids = {} /\ truncated = FALSE /\ skips = {}
  /\ again = {} /\ wrapped = FALSE
-----------------------------------------------------------------------------
(* What a response means for one column.                                   *)

\* Fewer rows than asked for, or a row in part, unless the last row says that
\* the MIB ends.
LastRow(n, w) == w * ((n - 1) \div w) + 1 .. n
CountsAsTruncated(resp, w) ==
  /\ Len(resp) < Reps * w
  /\ \/ resp = <<>>
     \/ \E i \in LastRow(Len(resp), w) : resp[i] # End
-----------------------------------------------------------------------------
(* walk.Run and table().                                                   *)

\* Chunks of at most MaxVars columns; the last one may be smaller.
ChunksOf(columns) == (Len(columns) + MaxVars - 1) \div MaxVars
Chunk(columns, k) ==
  SubSeq(columns, (k - 1) * MaxVars + 1,
         IF k * MaxVars < Len(columns) THEN k * MaxVars ELSE Len(columns))

Asked == given.tables[table].columns

OpenChunk ==
  /\ pc = "chunk" /\ table <= Len(given.tables) /\ chunk <= ChunksOf(Asked)
  /\ active' = [i \in DOMAIN Chunk(Asked, chunk) |->
                  LET c == Chunk(Asked, chunk)[i] IN [oid |-> c, cursor |-> c]]
  /\ pc' = "loop"
  /\ UNCHANGED <<table, chunk, scalar, failures, err, result>>

TableDone ==
  /\ pc = "chunk" /\ table <= Len(given.tables) /\ chunk > ChunksOf(Asked)
  /\ table' = table + 1 /\ chunk' = 1
  /\ UNCHANGED <<pc, scalar, failures, err, active, result>>

TablesDone ==
  /\ pc = "chunk" /\ table > Len(given.tables)
  /\ pc' = "scalars"
  /\ UNCHANGED <<table, chunk, scalar, failures, err, active, result>>

ChunkDone ==
  /\ pc = "loop" /\ active = <<>>
  /\ pc' = "chunk" /\ chunk' = chunk + 1
  /\ UNCHANGED <<table, scalar, failures, err, active, result>>

Ask ==
  /\ pc = "loop" /\ active # <<>> /\ ctx = "live"
  /\ pc' = "bulk"
  /\ UNCHANGED <<table, chunk, scalar, failures, err, active, result>>

\* table() asks the context before each request.
CutOff ==
  /\ pc = "loop" /\ active # <<>> /\ ctx # "live"
  /\ err' = "context" /\ pc' = "done"
  /\ UNCHANGED <<table, chunk, scalar, failures, active, result>>

\* A request comes back with an error.  A timeout or an error status of the
\* agent is a failure of the walk, any other the error that Run returns.
OfAgent == {"timeout", "agent"}
Note(e) == /\ failures' = IF e \in OfAgent THEN failures \cup {e} ELSE failures
           /\ err' = IF e \in OfAgent THEN err ELSE e

BulkFails(e) ==
  /\ pc = "bulk" /\ Note(e)
  /\ pc' = "done"
  /\ UNCHANGED <<table, chunk, scalar, active, result>>

Skipped_left(cells) == {active[i].oid : i \in {i \in DOMAIN active :
                          Misordered(active[i], cells[i]) /\ ~Finished(active[i], cells[i])}}
Skipped(cells) == {active[i].oid : i \in {i \in DOMAIN active : Misordered(active[i], cells[i])}}

\* The answer to a GetBulk, varbind by varbind and column by column.
Answer(resp) ==
  LET w == Len(active)
      cells == [i \in 1 .. w |-> CellsOf(resp, i, w)]
      read == UNION {Read(active[i], cells[i]) : i \in 1 .. w}
      next == [i \in 1 .. w |-> [oid |-> active[i].oid,
                                 cursor |-> CursorAfter(active[i], cells[i])]]
      rest == InOrder({i \in 1 .. w : ~Finished(active[i], cells[i])})
  IN /\ oids' = oids \cup read
     /\ again' = again \cup (oids \cap read)
     /\ skips' = skips \cup Skipped(cells)
     /\ wrapped' = (wrapped \/ \E i \in 1 .. w : Wraps(active[i], cells[i]))
     /\ truncated' = (truncated \/ CountsAsTruncated(resp, w))
     /\ IF resp = <<>>
          THEN \* the rest of the chunk is given up
               failures' = failures \cup {"empty"} /\ active' = <<>>
          ELSE /\ failures' = failures
               /\ active' = [i \in DOMAIN rest |-> next[rest[i]]]
     /\ pc' = "loop"
     /\ UNCHANGED <<table, chunk, scalar, err>>
-----------------------------------------------------------------------------
(* scalars(), and the end of Run and of the repeat in trial().             *)

\* Sent and answered in one step: nothing is sent under a context that is done.
ScalarsAnswered ==
  /\ pc = "scalars" /\ scalar < given.scalars /\ ctx = "live"
  /\ scalar' = scalar + MaxVars
  /\ UNCHANGED <<pc, table, chunk, failures, err, active, result>>

\* The scalars that are left are not asked.
ScalarsFail(e) ==
  /\ pc = "scalars" /\ scalar < given.scalars /\ Note(e)
  /\ IF e \in OfAgent THEN pc' = pc /\ scalar' = given.scalars
                      ELSE pc' = "done" /\ scalar' = scalar
  /\ UNCHANGED <<table, chunk, active, result>>

\* referenceOIDs: the workload is not blamed for columns it did not ask for.
\* By subtree: an OID found under two roots counts twice.
ReferenceOIDs_all ==
  UNION {{i} \X given.reference[i].oids : i \in DOMAIN given.reference}
ReferenceOIDs ==
  LET columns(root) == UNION {ToSet(given.tables[t].columns) :
                                t \in {t \in DOMAIN given.tables : given.tables[t].base = root}}
      asked(st) == {o \in st.oids : \E c \in columns(st.root) : HasPrefix(o, c)}
  IN UNION {{i} \X asked(given.reference[i]) : i \in DOMAIN given.reference}

\* Missing, and the tolerance.
Missing == {r \in ReferenceOIDs : r[2] \notin oids}
Missed == 100 * Cardinality(Missing) > Tolerance * Cardinality(ReferenceOIDs)

Finish ==
  /\ pc = "scalars" /\ scalar >= given.scalars
  /\ failures' = LET own == failures \cup (IF truncated THEN {"truncated"} ELSE {})
                 IN IF own = {} /\ Missed THEN {"missing"} ELSE own
  /\ pc' = "done"
  /\ UNCHANGED <<table, chunk, scalar, err, active, result>>

\* What Run does without an answer of the agent.
WalkTurns == \/ OpenChunk \/ TableDone \/ TablesDone \/ ChunkDone
             \/ Ask \/ CutOff \/ ScalarsAnswered \/ Finish

ContextDone == ctx = "live" /\ ctx' = "done" /\ UNCHANGED <<walkVars, given, agent>>
=============================================================================
