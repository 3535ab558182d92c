------------------------------- MODULE Column -------------------------------
(***************************************************************************)
(* What the varbinds that answer one cursor mean, in a trial (table() of   *)
(* package walk) and in the reference walk (inventory.Walk), which read a  *)
(* response by the same rules.  c.oid is the column or the root that is    *)
(* walked, c.cursor where it is; cells are the varbinds that answer it.    *)
(***************************************************************************)
EXTENDS Transport

\* The varbinds of the response that belong to column i of w, row by row.
CellsOf(resp, i, w) == [r \in 1 .. (Len(resp) - i + w) \div w |-> resp[(r - 1) * w + i]]

Inside(c, o) == o # End /\ HasPrefix(o, c.oid)

\* The cursor of column c when it comes to row r of its cells.
CursorAt(c, cells, r) == IF r = 1 THEN c.cursor ELSE cells[r - 1]

Follows_equal(c, cells, r) == Inside(c, cells[r]) /\ ~Less(cells[r], CursorAt(c, cells, r))
Follows(c, cells, r) == Inside(c, cells[r]) /\ Less(CursorAt(c, cells, r), cells[r])

\* Rows are read up to the first that is not greater than the one before it, or
\* not in the column.
RowsRead(c, cells) ==
  CHOOSE n \in 0 .. Len(cells) :
    /\ \A r \in 1 .. n : Follows(c, cells, r)
    /\ n < Len(cells) => ~Follows(c, cells, n + 1)

Read(c, cells) == {cells[r] : r \in 1 .. RowsRead(c, cells)}

\* The first row not read, if any, is in the column: the agent misordered it.
Misordered(c, cells) ==
  RowsRead(c, cells) < Len(cells) /\ Inside(c, cells[RowsRead(c, cells) + 1])

Skipping(c, cells) ==
  LET n == RowsRead(c, cells) IN SkipTarget(CursorAt(c, cells, n + 1), cells[n + 1])

CursorAfter_kept(c, cells) == CursorAt(c, cells, RowsRead(c, cells) + 1)
CursorAfter(c, cells) == IF Misordered(c, cells) THEN Skipping(c, cells)
                         ELSE CursorAt(c, cells, RowsRead(c, cells) + 1)

Finished(c, cells) == \/ /\ RowsRead(c, cells) < Len(cells)
                         /\ ~Misordered(c, cells)
                      \/ Misordered(c, cells) /\ ~HasPrefix(Skipping(c, cells), c.oid)

Wraps(c, cells) ==
  LET n == RowsRead(c, cells)
  IN /\ Misordered(c, cells) /\ ~Finished(c, cells)
     /\ SkipWraps(CursorAt(c, cells, n + 1), cells[n + 1])
=============================================================================
