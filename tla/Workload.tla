------------------------------ MODULE Workload ------------------------------
(***************************************************************************)
(* Package workload: what the trials query, from the objects of an OpenNMS *)
(* datacollection group, or from the subtrees of the reference walk.       *)
(***************************************************************************)
EXTENDS Oid, Listing

\* parentOID.
ParentOID(o) == IF Len(o) > 1 THEN Front(o) ELSE o
Base(obj) == ParentOID(ParentOID(obj.oid))

\* FromDatacollection, on the objects of the groups that were named: those with a
\* numeric instance are scalars, the others (instance <<>>) columns of the table
\* two arcs above.
IsScalar(obj) == obj.instance # <<>>
OIDOf(obj) == obj.oid \o obj.instance
Scalars(objs) == Distinct(Mapped(Keep(objs, IsScalar), OIDOf))
GroupTables(objs) ==
  LET columns == Keep(objs, LAMBDA obj : ~IsScalar(obj))
      table(base) == [base |-> base, columns |->
                        Distinct(Mapped(Keep(columns, LAMBDA obj : Base(obj) = base), OIDOf))]
  IN Mapped(Distinct(Mapped(columns, Base)), table)

\* Roots.
Bases(tables) == Mapped(tables, LAMBDA t : t.base)

\* FromInventory: the columns of a table, or the root in place of one.
FromSubtree_narrow(st) ==
  [base |-> st.root,
   columns |-> IF Len(st.columns) <= 1 THEN <<st.root>>
               ELSE Mapped(Front(st.columns), LAMBDA c : st.root \o <<1, c>>)]
FromSubtree(st) ==
  [base |-> st.root,
   columns |-> IF st.columns = <<>> THEN <<st.root>>
               ELSE Mapped(st.columns, LAMBDA c : st.root \o <<1, c>>)]
FromInventory(subtrees) == Mapped(subtrees, FromSubtree)
=============================================================================
