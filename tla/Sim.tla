-------------------------------- MODULE Sim ---------------------------------
(***************************************************************************)
(* Package sim: the simulated agent that the tests of this repository run  *)
(* against.  a.mib are its OIDs, a.wrong its Misorder and LoopOID; a.rows  *)
(* and a.most are its caps in rows (MaxRows) and in varbinds (MaxBytes),   *)
(* a.above its ErrorAbove, a.slow the varbinds it can answer in time.  A   *)
(* cap that is off is larger than any response.                            *)
(***************************************************************************)
EXTENDS Transport

Capped(n, cap) == IF cap < n THEN cap ELSE n

\* nextLocked: the successor of o, unless the agent was told to err behind it.
NextOID(a, o) ==
  LET after == {k \in a.mib : Less(o, k)}
  IN IF o \in DOMAIN a.wrong THEN a.wrong[o]
     ELSE IF after = {} THEN End ELSE CHOOSE k \in after : \A j \in after : ~Less(j, k)

\* The rows behind a cursor; an agent at its end stays there.
RowsBehind(a, cursor, n) ==
  LET row[r \in 1 .. n] == IF r = 1 THEN NextOID(a, cursor)
                          ELSE IF row[r - 1] = End THEN End ELSE NextOID(a, row[r - 1])
  IN row

\* GetBulk: whole rows up to MaxRows, cut inside a row by MaxBytes.
GetBulk(a, cursors, reps) ==
  LET w == Len(cursors)
      n == Capped(reps, a.rows)
      rows == [i \in 1 .. w |-> RowsBehind(a, cursors[i], n)]
      varbinds == [k \in 1 .. n * w |-> rows[((k - 1) % w) + 1][((k - 1) \div w) + 1]]
  IN SubSeq(varbinds, 1, Capped(n * w, a.most))

\* A request is refused with tooBig, answered, or answered so late that the client
\* has given up.
Refuses(a, cursors, reps) == Len(cursors) * reps > a.above
InTime(a, n) == n <= a.slow
Replies(a, cursors, reps) ==
  {resp \in {GetBulk(a, cursors, reps)} : ~Refuses(a, cursors, reps) /\ InTime(a, Len(resp))}
=============================================================================
