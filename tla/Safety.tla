------------------------------- MODULE Safety -------------------------------
(***************************************************************************)
(* What the guardrails of package safety decide, as operators that the     *)
(* modules of the search and of the canary build their actions from.       *)
(*                                                                         *)
(* An answer to a canary probe belongs to one of four classes:             *)
(*   "none"  the Get returned an error, a timeout or a done context alike, *)
(*   "back"  sysUpTime is smaller than the one noted last,                 *)
(*   "slow"  answered at once, but far slower than the baseline,           *)
(*   "fine"  anything else.                                                *)
(*                                                                         *)
(* Here and in the other modules a definition whose name has an underscore *)
(* is a slip the code could have had: the definition below it, changed.    *)
(* The runs use them to show that a property notices the slip.             *)
(***************************************************************************)
EXTENDS Integers

Answers == {"none", "back", "slow", "fine"}
Verdicts == {"ok", "stressed", "restarted", "lost"}

\* Probes in a row without an answer before the agent counts as lost.
LostLimit == 2

\* Canary.lost after a probe: every answer resets it.
LostAfter(answer, lost) == IF answer = "none" THEN lost + 1 ELSE 0

\* The Verdict of Canary.Probe, from the class of the answer and the number of
\* probes in a row that were not answered before it.
Verdict_late(answer, lost) ==
  CASE answer = "none" -> IF lost + 1 > LostLimit THEN "lost" ELSE "ok"
    [] answer = "back" -> "restarted"
    [] answer = "slow" -> "stressed"
    [] answer = "fine" -> "ok"
Verdict(answer, lost) ==
  CASE answer = "none" -> IF lost + 1 >= LostLimit THEN "lost" ELSE "ok"
    [] answer = "back" -> "restarted"
    [] answer = "slow" -> "stressed"
    [] answer = "fine" -> "ok"

\* Tracker.Exhausted, the part that counts trials; zero and less is unlimited.
TrialsExhausted_late(maxTrials, noted) == maxTrials > 0 /\ noted > maxTrials
TrialsExhausted(maxTrials, noted) == maxTrials > 0 /\ noted >= maxTrials

AtLeast(m, n) == IF m >= n THEN m ELSE n     \* Go's max
AtMost(m, n) == IF m <= n THEN m ELSE n      \* Go's min
=============================================================================
