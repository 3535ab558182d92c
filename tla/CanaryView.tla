----------------------------- MODULE CanaryView -----------------------------
(***************************************************************************)
(* The canary as the search sees it: a probe brings an answer of one of    *)
(* the four classes of Safety, and its verdict depends on nothing else but *)
(* the probes before it that were not answered.                            *)
(***************************************************************************)
EXTENDS Safety

VARIABLES lost, verdict

Init == lost = 0 /\ verdict = "ok"

Probe(answer) == /\ verdict' = Verdict(answer, lost)
                 /\ lost' = LostAfter(answer, lost)

Next == \E answer \in Answers : Probe(answer)

Spec == Init /\ [][Next]_<<lost, verdict>>
=============================================================================
