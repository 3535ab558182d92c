----------------------------- MODULE LoadGuard ------------------------------
(***************************************************************************)
(* What a run promises the agent it loads, without saying how it looks for *)
(* its settings: a log of loads, varbinds per PDU, each tried and judged   *)
(* once, where no load reaches one that failed before it, and where an     *)
(* agent that showed strain is not driven above what it did cleanly.       *)
(***************************************************************************)
EXTENDS Naturals, Sequences

CONSTANTS
  Loads,       \* the loads the budget or the operator admits
  FirstLoad,   \* the load that is always allowed
  MaxTrials,   \* how many may be tried; 0 or less is no limit
  Yields       \* strain forbids larger loads; not so for loads the operator named

VARIABLES log, strained, closed

guardVars == <<log, strained, closed>>

TypeOK ==
  /\ log \in Seq([load : Loads, ok : BOOLEAN])
  /\ strained \in BOOLEAN
  /\ closed \in BOOLEAN

Init == log = <<>> /\ strained = FALSE /\ closed = FALSE

Allowed(load) ==
  /\ \A i \in DOMAIN log : ~log[i].ok => load < log[i].load
  /\ strained /\ Yields =>
       load <= FirstLoad \/ \E i \in DOMAIN log : log[i].ok /\ load <= log[i].load

\* A load is tried and judged.  The run may end with it, and strain may show in it.
Try ==
  /\ ~closed
  /\ MaxTrials > 0 => Len(log) < MaxTrials
  /\ \E load \in Loads, ok \in BOOLEAN :
       Allowed(load) /\ log' = Append(log, [load |-> load, ok |-> ok])
  /\ strained' \in {strained, TRUE}
  /\ closed' \in BOOLEAN

Strain == ~closed /\ strained' = TRUE /\ UNCHANGED <<log, closed>>

\* The run ends, and may take back that its last load was clean.
Close ==
  /\ ~closed /\ closed' = TRUE
  /\ \/ log' = log
     \/ /\ log # <<>>
        /\ log' = [log EXCEPT ![Len(log)].ok = FALSE]
  /\ UNCHANGED strained

Next == Try \/ Strain \/ Close

Spec == Init /\ [][Next]_guardVars
=============================================================================
