-------------------------------- MODULE Plan --------------------------------
(***************************************************************************)
(* search.Plan: what --dry-run prints of a search.  It computes the ladder *)
(* by a loop of its own, before any packet is sent.  The plan of a         *)
(* workload that --oid subtrees widen is out of this: it knows one column  *)
(* of each.                                                                *)
(***************************************************************************)
EXTENDS Search

\* The loop doubles a uint32: it has wrapped to 0 before RepsModulus doublings.
Doubled[k \in 0 .. RepsModulus] ==
  IF k = 0 THEN Start.r ELSE (2 * Doubled[k - 1]) % RepsModulus

\* A step is printed while no step so far is above max-product.  The loop ends at one
\* that is; with a max-product no uint32 reaches it never ends, and prints no plan.
StepFits(k) == Doubled[k] * V0 <= MaxProduct
PlanEnds == \E k \in 0 .. RepsModulus : ~StepFits(k)
Planned == {[r |-> Doubled[k], v |-> V0] :
              k \in {n \in 0 .. RepsModulus : \A j \in 0 .. n : StepFits(j)}}
PlannedVars == {V0} \cup SplitCandidates

\* The dry run tells what the search will do: it climbs the printed ladder and
\* leaves out no step of it; it measures the first one even when the canary was
\* stressed from the start, unless a budget or an abort ends it before; and no later
\* trial, of the bisection or the split, asks for more than the largest step printed,
\* or for a width that is not.
PlanKept ==
  Searching /\ PlanEnds =>
    /\ phase = "escalate" /\ pc = "next" => measured = {s \in Planned : s.r < reps}
    /\ /\ pc = "done" /\ aborted = NotAborted /\ limited = "none"
       /\ Planned # {}
       => trials # <<>> /\ trials[1].s = [r |-> Start.r, v |-> V0]
    /\ \A i \in DOMAIN trials :
         /\ trials[i].s.v \in PlannedVars
         /\ \E s \in Planned : Product(trials[i].s) <= Product(s)
=============================================================================
