--------------------------- MODULE SessionClaims ----------------------------
(***************************************************************************)
(* What the README says of the columns that a walk skips, where the code   *)
(* does something else.                                                    *)
(***************************************************************************)
EXTENDS MCSession

\* README: snmptune "skips the rest of that column, continues with the next one,
\* warns on stderr and lists the skipped columns in the report".  After an answer
\* equal to its request the reference walk asks behind the OID's next sibling: when
\* that one is a row it is never read, and no prefix of Skipped covers it.
SkippedIsListed ==
  ~shown.partial /\ Accountable =>
    \A i \in DOMAIN shown.subtrees : \A o \in agent.mib :
      HasPrefix(o, shown.subtrees[i].root) /\ o \notin shown.subtrees[i].oids =>
        Listed(shown.subtrees[i], o)
=============================================================================
