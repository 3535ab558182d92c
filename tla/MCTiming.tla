------------------------------ MODULE MCTiming ------------------------------
(***************************************************************************)
(* Values for the constants of Timing, in tenths of a millisecond: a fast  *)
(* answer, one below the floor of the timeout, and two above.              *)
(***************************************************************************)
EXTENDS Timing, TLC

Times == {100, 1500, 2009, 7300}
Counts ==
  [clean |-> (100 :> 102) @@ (1500 :> 1) @@ (2009 :> 2) @@ (7300 :> 2),
   retried |-> [d \in Times |-> IF d = 7300 THEN 2 ELSE 0],
   misordered |-> [d \in Times |-> IF d = 2009 THEN 1 ELSE 0]]
=============================================================================
