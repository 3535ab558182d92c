------------------------------- MODULE MCWalk -------------------------------
(***************************************************************************)
(* Values for the constants of WalkAgents: a table of three columns with   *)
(* rows of one and of two index arcs, not every row in every column, and   *)
(* an object of the table that the workload leaves out.                    *)
(***************************************************************************)
EXTENDS WalkAgents

ThreeColumns == <<[base |-> <<>>, columns |-> <<<<0>>, <<1>>, <<2>>>>]>>
TheColumns == {<<0>>, <<1>>, <<2>>}
Ragged == {<<0, 1>>, <<0, 2, 1>>, <<0, 2, 2>>, <<1, 1>>, <<2, 1>>, <<2, 2>>, <<3, 1>>}
AnyOids == {<<0, 1>>, <<0, 3>>, <<1, 1>>, <<2, 1>>}

\* Index arcs in their order, in the opposite one, and with 2 before 1.
SomeOrders == {[a \in Arc |-> a], [a \in Arc |-> ArcModulus - 1 - a],
               [a \in Arc |-> IF a \in {1, 2} THEN 3 - a ELSE a]}

WholeTable == {[tables |-> ThreeColumns, scalars |-> 3,
                reference |-> <<[root |-> <<>>, oids |-> Ragged]>>]}

ASSUME InstanceAssumption == ColumnsApart /\ ColumnsAreNotRows
=============================================================================
