----------------------------- MODULE MCSession ------------------------------
(***************************************************************************)
(* Values for the constants of Session: a table of two columns, a table    *)
(* that a group asks two of three columns of, and an object that is no     *)
(* table.                                                                  *)
(***************************************************************************)
EXTENDS Session

TheMib == {<<1, 1, 1, 1>>, <<1, 1, 1, 2>>, <<1, 1, 2, 1>>, <<1, 1, 2, 2>>,
           <<2, 1, 1, 1>>, <<2, 1, 2, 1>>, <<2, 1, 3, 1>>, <<3, 1>>}

NoCap == 9

\* Answers that go back: within a column, to the column before, to the row itself,
\* and out of the root.
Misled == {<<>>, <<1, 1, 1, 2>> :> <<1, 1, 1, 1>>, <<1, 1, 2, 1>> :> <<1, 1, 1, 2>>,
           <<1, 1, 1, 1>> :> <<1, 1, 1, 1>>, <<2, 1, 2, 1>> :> <<1, 1, 1, 1>>}

SomeProfiles == [mib : {TheMib}, wrong : Misled, rows : {1, NoCap}, most : {0, 3, NoCap},
                 above : {3, NoCap}, slow : {1, 3, NoCap}]

Object(o) == [oid |-> o, instance |-> <<>>]
Objects == <<Object(<<2, 1, 3>>), Object(<<2, 1, 1>>), [oid |-> <<3>>, instance |-> <<1>>]>>

Line(roots_, objs, tree, limit) == [oids |-> roots_, objs |-> objs, tree |-> tree, limit |-> limit]

SomeLines ==
  {Line(<<<<1>>, <<3>>>>, <<>>, <<2>>, 40), Line(<<<<1>>, <<2>>>>, Objects, NoTree, 40),
   Line(<<>>, Objects, <<1>>, 3), Line(<<<<1>>, <<3>>>>, <<>>, <<3>>, 4),
   Line(<<<<2>>>>, Objects, NoTree, 4), Line(<<<<1>>>>, <<>>, <<3>>, 1),
   Line(<<<<2>>, <<1>>>>, <<>>, <<3>>, 3)}

\* SameAgentNotBlamed is about these.
ASSUME ColumnObjects == ObjectsAreNoRows
=============================================================================
