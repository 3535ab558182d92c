----------------------------- MODULE Inventory ------------------------------
(***************************************************************************)
(* Package inventory: the reference walk, one cursor through one root      *)
(* after another, under a budget of OIDs and a context.  The walk is a     *)
(* part of main.run: what the agent answers and whether the context is     *)
(* done are parameters of its actions.                                     *)
(***************************************************************************)
EXTENDS Column, Listing

CONSTANT ReferenceRepetitions

ASSUME RepetitionsAssumption == ReferenceRepetitions \in Nat \ {0}

VARIABLES
  roots, maxOIDs,            \* what Walk is called with; zero lifts the budget
  refPc,                     \* "loop", "bulk", "done" or "error"
  root, cursor, total,       \* the root it is at, by its place; total of OIDs
  found, skipped,            \* of the Subtree being walked
  subtrees                   \* Inventory.Subtrees

refVars == <<roots, maxOIDs, refPc, root, cursor, total, found, skipped, subtrees>>

Column0 == [oid |-> roots[root], cursor |-> cursor]

Past_one(k, rs) == k > Len(rs) + 1
Past(k, rs) == k > Len(rs)

\* The walk comes to the k-th of its roots, or to its end.
Open(k, rs) ==
  /\ root' = k /\ cursor' = IF k > Len(rs) THEN <<>> ELSE rs[k]
  /\ found' = {} /\ skipped' = {}
  /\ refPc' = IF Past(k, rs) THEN "done" ELSE "loop"

\* Walk is called.
StartWalk(rs, max) ==
  /\ roots' = rs /\ maxOIDs' = max /\ total' = 0 /\ subtrees' = <<>>
  /\ Open(1, rs)

\* parentOf: the arcs that request and answer of a skip share.
ParentOf(target) == [target EXCEPT ![Len(target)] = (@ - 1) % ArcModulus]

\* inferColumns: the column arcs of a MIB table, root.1.column.index.
InTable(r, o) == Len(o) >= Len(r) + 3 /\ o[Len(r) + 1] = 1
InferColumns(r, collected) ==
  IF \A o \in collected : InTable(r, o)
    THEN InOrder({o[Len(r) + 2] : o \in collected}) ELSE <<>>

Subtree_silent(partial, collected, skips) ==
  [root |-> roots[root], oids |-> collected, skipped |-> skips,
   columns |-> InferColumns(roots[root], collected), partial |-> partial /\ collected = {}]
Subtree(partial, collected, skips) ==
  [root |-> roots[root], oids |-> collected, skipped |-> skips,
   columns |-> InferColumns(roots[root], collected), partial |-> partial]

\* The subtree is closed, and the next root opened.
Close(partial, collected, skips) ==
  /\ subtrees' = Append(subtrees, Subtree(partial, collected, skips))
  /\ Open(root + 1, roots)

\* The budget is asked before each request.
Spent_after(done) == (maxOIDs > 0 /\ total > maxOIDs) \/ done
Spent(done) == (maxOIDs > 0 /\ total >= maxOIDs) \/ done

OutOfBudget(done) ==
  /\ refPc = "loop" /\ Spent(done)
  /\ Close(TRUE, found, skipped)
  /\ UNCHANGED <<roots, maxOIDs, total>>

AskNext(done) ==
  /\ refPc = "loop" /\ ~Spent(done)
  /\ refPc' = "bulk"
  /\ UNCHANGED <<roots, maxOIDs, root, cursor, total, found, skipped, subtrees>>

\* An error under a context that is done is a budget spent, any other is Walk's.
RequestFails(done) ==
  /\ refPc = "bulk"
  /\ IF done THEN Close(TRUE, found, skipped)
             ELSE refPc' = "error" /\ UNCHANGED <<root, cursor, found, skipped, subtrees>>
  /\ UNCHANGED <<roots, maxOIDs, total>>

\* The root is done: nothing came back, or something that ends it.
EndsRoot_patient(resp) == Finished(Column0, resp)
EndsRoot(resp) == resp = <<>> \/ Finished(Column0, resp)

\* The varbinds of a response, up to the first that ends the root or is skipped.
Collect(resp) ==
  LET collected == found \cup Read(Column0, resp)
      skips == skipped \cup (IF Misordered(Column0, resp) THEN {ParentOf(Skipping(Column0, resp))}
                                                          ELSE {})
  IN /\ refPc = "bulk"
     /\ total' = total + RowsRead(Column0, resp)
     /\ IF EndsRoot(resp)
          THEN Close(FALSE, collected, skips)
          ELSE /\ found' = collected /\ skipped' = skips
               /\ cursor' = CursorAfter(Column0, resp)
               /\ refPc' = "loop" /\ UNCHANGED <<root, subtrees>>
     /\ UNCHANGED <<roots, maxOIDs>>
=============================================================================
