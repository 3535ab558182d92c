------------------------------- MODULE Search -------------------------------
(***************************************************************************)
(* The search of package search: Runner.Run (escalate, bisect, split, final*)
(* probe) and Runner.Measure (--try), with the trial they share, the canary*)
(* it asks before every repeat, the budgets and the operator's interrupt.  *)
(*                                                                         *)
(* One action is one piece of the code between two points where the context*)
(* can become done: choosing a setting, the checks that open a trial, the  *)
(* cooldown, a canary probe, a walk.  What the agent answers, how a walk   *)
(* ends and when the context is done are the environment's choices.        *)
(***************************************************************************)
EXTENDS Safety, Sequences

CONSTANTS
  Repeats,       \* Options.Repeats: walks that make one trial
  MaxTrials,     \* Budget.MaxTrials: 0 or less is unlimited
  MaxProduct,    \* Budget.MaxProduct: varbinds per PDU
  HasDeadline,   \* Budget.MaxDuration > 0: the context has a deadline
  Widest,        \* Workload.WidestTable(): 0 when there is no table
  Requested,     \* the settings of --try; empty for a search
  Scores,        \* the throughputs a clean walk may have, varbinds per second
  Sizes,         \* how many bytes the largest response of a clean trial may have
  RepsModulus,   \* 2^32: max-repetitions is a uint32
  MaxInt         \* 2^63 - 1, the largest int and the ceiling of --try

Setting == [r : Nat, v : Nat]      \* max-repetitions and max-vars-per-pdu
Zero == [r |-> 0, v |-> 0]         \* the zero value of walk.Settings

\* Settings.Product: the varbinds requested per GetBulk.
Product(s) == s.r * s.v

ASSUME ConstantsAssumption ==
  /\ Repeats \in Nat \ {0}
  /\ MaxTrials \in Int
  /\ MaxProduct \in Int
  /\ HasDeadline \in BOOLEAN
  /\ Widest \in Nat
  /\ Requested \in Seq([r : Nat \ {0}, v : Nat \ {0}])
  /\ Scores \subseteq Nat
  /\ Sizes \subseteq Nat /\ Sizes # {}
  /\ RepsModulus \in Nat \ {0}
  /\ MaxInt \in Nat

\* search.Start and search.SplitVars.
Start == [r |-> 2, v |-> 10]
SplitVars == {5, 10, 20, 50}

\* The modulus of a uint32 is a power of two, a number with no odd divisor but 1: a
\* ladder of doublings wraps to 0 and to nothing else.
ASSUME ModulusAssumption ==
  /\ RepsModulus > Start.r
  /\ \A a, b \in 1 .. RepsModulus : a * b = RepsModulus => b = 1 \/ b % 2 = 0

\* max-product is an int, and an int holds every product of the ladder.
ASSUME IntAssumption == MaxProduct <= MaxInt /\ Start.v * RepsModulus <= MaxInt

\* Runner.init: the vars per PDU of the ladder and the product of its first step.
V0 == IF Widest > 0 THEN AtMost(Start.v, Widest) ELSE Start.v
StartProduct == Start.r * V0

\* The first product that must not be tried: Run adds 1 to max-product, which wraps.
FirstCeiling ==
  IF Requested # <<>> THEN MaxInt
  ELSE IF MaxProduct = MaxInt THEN -MaxInt - 1 ELSE MaxProduct + 1

\* splitCandidates: the ladder capped at the widest table, and that width itself.
SplitCandidates_noWidth == {v \in SplitVars : v # V0 /\ (Widest = 0 \/ v <= Widest)}
SplitCandidates ==
  {v \in SplitVars : v # V0 /\ (Widest = 0 \/ v <= Widest)}
    \cup {w \in {Widest} : w > 0 /\ w # V0}

VARIABLES
  \* Run and Measure
  phase,      \* the part of the run
  pc,         \* where in it
  reps,       \* the next max-repetitions of the ladder
  lastGoodR, firstBadR, prevScore,
  at,         \* the last v the split chose, the last index --try chose
  \* trial
  cur,        \* the setting it is called with
  runs,       \* its repeats that were walked so far
  got,        \* what it returned: "nil", "ok" or "failed"
  \* fields of the Runner and of its Outcome
  ceiling, lastGood, lastSet, measured, trials, stressed, aborted, limited,
  \* Tracker.Trials and Canary.lost
  noted, lost,
  \* the context: "live", "deadline" or "canceled"
  ctx

ladder == <<reps, lastGoodR, firstBadR, prevScore, at>>
runner == <<ceiling, lastGood, lastSet, measured, trials, stressed>>
verdict == <<aborted, limited>>
vars == <<phase, pc, ladder, cur, runs, got, runner, verdict, noted, lost, ctx>>

Phases == {"escalate", "bisect", "split", "try"}
Locations == {"next", "trial", "cool", "probe", "walk", "return", "final", "finalProbe", "done"}
NotAborted == [why |-> "none", s |-> Zero]
Trial == [s : Setting, ok : BOOLEAN, score : Nat, bytes : Nat, runs : 1 .. Repeats]

Init ==
  /\ phase = IF Requested = <<>> THEN "escalate" ELSE "try"
  /\ pc = "next"
  /\ reps = Start.r
  /\ lastGoodR = 0 /\ firstBadR = 0 /\ prevScore = 0 /\ at = 0
  /\ cur = Zero /\ runs = 0 /\ got = "nil"
  /\ ceiling = FirstCeiling
  /\ lastGood = 0 /\ lastSet = Zero /\ measured = {} /\ trials = <<>>
  /\ stressed = FALSE
  /\ aborted = NotAborted /\ limited = "none"
  /\ noted = 0
  /\ lost = 0
  /\ ctx = "live"
-----------------------------------------------------------------------------
(* Run and Measure: which setting is next, and what its trial means.       *)

\* Runner.trial is called with setting s.
Call(s) == /\ cur' = s
           /\ pc' = "trial"
           /\ UNCHANGED <<runs, got, runner, verdict, noted, lost, ctx>>

\* Control moves on without a call of trial.
Proceed(newPhase, newPc) ==
  /\ phase' = newPhase
  /\ pc' = newPc
  /\ UNCHANGED <<cur, runs, got, runner, verdict, noted, lost, ctx>>

\* The next step of the ladder stays within max-product.
EscalateStep ==
  /\ pc = "next" /\ phase = "escalate"
  /\ LET s == [r |-> reps, v |-> V0]
     IN Product(s) <= MaxProduct /\ Call(s)
  /\ UNCHANGED <<phase, ladder>>

EscalateCap ==
  /\ pc = "next" /\ phase = "escalate"
  /\ Product([r |-> reps, v |-> V0]) > MaxProduct
  /\ Proceed("bisect", "next")
  /\ UNCHANGED ladder

\* The trial was not made, because of agent stress: escalation ends.
EscalateVetoed_again ==
  /\ pc = "return" /\ phase = "escalate" /\ got = "nil"
  /\ Proceed("escalate", "next")
  /\ UNCHANGED ladder
EscalateVetoed ==
  /\ pc = "return" /\ phase = "escalate" /\ got = "nil"
  /\ Proceed("bisect", "next")
  /\ UNCHANGED ladder

EscalateFailed ==
  /\ pc = "return" /\ phase = "escalate" /\ got = "failed"
  /\ firstBadR' = reps
  /\ Proceed("bisect", "next")
  /\ UNCHANGED <<reps, lastGoodR, prevScore, at>>

\* A clean trial gained less than PlateauGain, 10 percent, over the one before.
Plateau == lastGoodR > 0 /\ 10 * trials[Len(trials)].score < 11 * prevScore

EscalateClean ==
  /\ pc = "return" /\ phase = "escalate" /\ got = "ok"
  /\ lastGoodR' = reps
  /\ prevScore' = IF Plateau THEN prevScore ELSE trials[Len(trials)].score
  /\ IF Plateau \/ stressed
       THEN reps' = reps /\ Proceed("bisect", "next")
       ELSE reps' = (2 * reps) % RepsModulus /\ Proceed("escalate", "next")
  /\ UNCHANGED <<firstBadR, at>>

\* The gap between the largest clean and the smallest failed value still matters.
Wide_half == firstBadR > 0 /\ firstBadR - lastGoodR > AtLeast(1, lastGoodR \div 2)
Wide == firstBadR > 0 /\ firstBadR - lastGoodR > AtLeast(1, lastGoodR \div 10)

BisectStep ==
  /\ pc = "next" /\ phase = "bisect" /\ Wide
  /\ Call([r |-> (lastGoodR + firstBadR) \div 2, v |-> V0])
  /\ UNCHANGED <<phase, ladder>>

Narrowed_swapped == IF got = "ok" THEN <<lastGoodR, cur.r>> ELSE <<cur.r, firstBadR>>
Narrowed == IF got = "ok" THEN <<cur.r, firstBadR>> ELSE <<lastGoodR, cur.r>>

BisectReturn ==
  /\ pc = "return" /\ phase = "bisect" /\ got # "nil"
  /\ lastGoodR' = Narrowed[1] /\ firstBadR' = Narrowed[2]
  /\ Proceed("bisect", "next")
  /\ UNCHANGED <<reps, prevScore, at>>

\* The bracket is closed, or agent stress vetoed a trial inside it.
BisectEnd ==
  /\ phase = "bisect"
  /\ \/ pc = "next" /\ ~Wide
     \/ pc = "return" /\ got = "nil"
  /\ Proceed("split", "next")
  /\ UNCHANGED ladder

\* The candidates the split has still to try, in ascending order, at the
\* product of the ladder's last clean step.  A candidate wider than that
\* product is passed over.  The max-repetitions of the others are an int that
\* becomes a uint32, which a ladder of the upper half of the uint32 can wrap.
SplitQuotient(v) == (lastGoodR * V0) \div v
SplitReps_up(v) == ((lastGoodR * V0 + v - 1) \div v) % RepsModulus
SplitReps(v) == SplitQuotient(v) % RepsModulus
SplitSetting(v) == [r |-> SplitReps(v), v |-> v]

SplitFits == {v \in SplitCandidates : lastGoodR > 0 /\ SplitQuotient(v) >= 1}
SplitLeft == {v \in SplitFits : v > at}

SplitStep ==
  /\ pc = "next" /\ phase = "split"
  /\ \E v \in SplitLeft :
       /\ \A w \in SplitLeft : v <= w
       /\ at' = v
       /\ Call(SplitSetting(v))
  /\ UNCHANGED <<phase, reps, lastGoodR, firstBadR, prevScore>>

SplitEnd ==
  /\ pc = "next" /\ phase = "split" /\ SplitLeft = {}
  /\ Proceed("split", "final")
  /\ UNCHANGED ladder

\* Measure: the requested settings in order.
TryStep ==
  /\ pc = "next" /\ phase = "try" /\ at < Len(Requested)
  /\ at' = at + 1
  /\ Call(Requested[at'])
  /\ UNCHANGED <<phase, reps, lastGoodR, firstBadR, prevScore>>

TryEnd ==
  /\ pc = "next" /\ phase = "try" /\ at = Len(Requested)
  /\ Proceed("try", "final")
  /\ UNCHANGED ladder

\* The split and --try ignore what a trial returned.
ListReturn ==
  /\ pc = "return" /\ phase \in {"split", "try"}
  /\ Proceed(phase, "next")
  /\ UNCHANGED ladder
-----------------------------------------------------------------------------
(* Runner.trial.                                                           *)

Return(result) == got' = result /\ runs' = 0 /\ pc' = "return"
Stop == got' = "nil" /\ runs' = 0 /\ pc' = "done"

\* One more trial in the outcome, counted by Tracker.NoteTrial.  Its bytes are the
\* maxBytes of its runs, which the report asks of clean trials only: 0 for a failed one.
NoteTrial(ok, score, n) ==
  /\ \E b \in (IF ok THEN Sizes ELSE {0}) :
       trials' = Append(trials, [s |-> cur, ok |-> ok, score |-> score, bytes |-> b,
                                 runs |-> n])
  /\ noted' = noted + 1

\* Runner.record: a trial that did not complete its repeats is a failed one,
\* and one that made none leaves no trace.
RecordPartial_never == UNCHANGED <<trials, noted>>
RecordPartial == IF runs > 0 THEN NoteTrial(FALSE, 0, runs)
                             ELSE UNCHANGED <<trials, noted>>

\* A setting at or above the ceiling, or already measured, is skipped.
Skipped_unmeasured == Product(cur) >= ceiling
Skipped == Product(cur) >= ceiling \/ cur \in measured

Skip ==
  /\ pc = "trial" /\ Skipped
  /\ Return("nil")
  /\ UNCHANGED <<phase, ladder, cur, runner, verdict, noted, lost, ctx>>

\* Runner.interrupted: the deadline is a budget, a cancel is the operator.
\* It asks where a trial opens, after its cooldown and when a walk gave an
\* error, one of the ways in which a walk under a done context may end.
AsksContext == (pc = "trial" /\ ~Skipped) \/ pc \in {"cool", "walk"}

AbortOfContext_untold == aborted
AbortOfContext == IF ctx = "deadline" THEN aborted ELSE [why |-> "interrupted", s |-> cur]

LimitOfContext_untold == limited
LimitOfContext == IF ctx = "deadline" THEN "max-duration" ELSE limited

Interrupted ==
  /\ AsksContext /\ ctx # "live"
  /\ aborted' = AbortOfContext /\ limited' = LimitOfContext
  /\ RecordPartial
  /\ lastSet' = IF pc = "walk" THEN cur ELSE lastSet
  /\ Stop
  /\ UNCHANGED <<phase, ladder, cur, ceiling, lastGood, measured, stressed, lost, ctx>>

\* Tracker.Exhausted.  Its clock starts after the one of the context, so what
\* it says of max-duration is what Interrupted says of the deadline.
Exhausted ==
  /\ pc = "trial" /\ ~Skipped /\ ctx = "live"
  /\ TrialsExhausted(MaxTrials, noted)
  /\ limited' = "max-trials"
  /\ Stop
  /\ UNCHANGED <<phase, ladder, cur, runner, aborted, noted, lost, ctx>>

Admit ==
  /\ pc = "trial" /\ ~Skipped /\ ctx = "live"
  /\ ~TrialsExhausted(MaxTrials, noted)
  /\ measured' = measured \cup {cur}
  /\ pc' = "cool"
  /\ UNCHANGED <<phase, ladder, cur, runs, got, ceiling, lastGood, lastSet,
                 trials, stressed, verdict, noted, lost, ctx>>

\* The cooldown is over, by its timer.
Cooldown ==
  /\ pc = "cool" /\ ctx = "live"
  /\ pc' = "probe"
  /\ UNCHANGED <<phase, ladder, cur, runs, got, runner, verdict, noted, lost, ctx>>

\* Runner.abort: the agent restarted or is lost; the setting named is the last walked.
\* No probe asks the context: the request out when it is done may be answered, and
\* one that is not counts as unanswered, as any other.
ProbeAborts ==
  /\ pc = "probe"
  /\ \E answer \in Answers :
       /\ Verdict(answer, lost) \in {"restarted", "lost"}
       /\ aborted' = [why |-> Verdict(answer, lost), s |-> lastSet]
       /\ lost' = LostAfter(answer, lost)
  /\ RecordPartial
  /\ Stop
  /\ UNCHANGED <<phase, ladder, cur, ceiling, lastGood, lastSet, measured,
                 stressed, limited, ctx>>

\* Under stress the ceiling comes down to what was clean so far, and never
\* below the first setting.  A requested setting is not vetoed.
StressCeiling_kept == ceiling
StressCeiling_noDefault == AtMost(ceiling, lastGood + 1)
StressCeiling ==
  IF phase = "try" THEN ceiling
  ELSE AtMost(ceiling, AtLeast(lastGood, StartProduct) + 1)

\* The agent is stressed: the repeat is not made when that forbids the setting.
ProbeStressed ==
  /\ pc = "probe"
  /\ \E answer \in Answers : /\ Verdict(answer, lost) = "stressed"
                            /\ lost' = LostAfter(answer, lost)
  /\ stressed' = TRUE
  /\ ceiling' = StressCeiling
  /\ IF Product(cur) >= ceiling'
       THEN RecordPartial /\ Return("nil")
       ELSE pc' = "walk" /\ UNCHANGED <<runs, got, trials, noted>>
  /\ UNCHANGED <<phase, ladder, cur, lastGood, lastSet, measured, verdict, ctx>>

ProbeOk ==
  /\ pc = "probe"
  /\ \E answer \in Answers : /\ Verdict(answer, lost) = "ok"
                            /\ lost' = LostAfter(answer, lost)
  /\ pc' = "walk"
  /\ UNCHANGED <<phase, ladder, cur, runs, got, runner, verdict, noted, ctx>>

\* How a walk ends.  It asks the context before a request for a table only, and what
\* comes for the request out when it is done counts: a walk may end in any way then.
LastRepeat_first == TRUE
LastRepeat == runs + 1 = Repeats

\* A clean walk that is not the last repeat.
WalkClean ==
  /\ pc = "walk" /\ ~LastRepeat /\ cur.r > 0
  /\ runs' = runs + 1
  /\ lastSet' = cur
  /\ pc' = "cool"
  /\ UNCHANGED <<phase, ladder, cur, got, ceiling, lastGood, measured, trials,
                 stressed, verdict, noted, lost, ctx>>

\* A clean walk that completes the trial.  The score is the median of the
\* throughputs of its walks, one of them.
TrialClean ==
  /\ pc = "walk" /\ LastRepeat /\ cur.r > 0
  /\ \E score \in Scores : NoteTrial(TRUE, score, runs + 1)
  /\ lastSet' = cur
  /\ lastGood' = AtLeast(lastGood, Product(cur))
  /\ Return("ok")
  /\ UNCHANGED <<phase, ladder, cur, ceiling, measured, stressed, verdict, lost, ctx>>

\* A walk with a timeout, an error status, a truncated response or missing
\* OIDs ends the trial, whichever repeat it is.
CeilingAfterFailure_kept == ceiling
CeilingAfterFailure == AtMost(ceiling, Product(cur))

TrialFailed ==
  /\ pc = "walk" /\ cur.r > 0
  /\ NoteTrial(FALSE, 0, runs + 1)
  /\ lastSet' = cur
  /\ ceiling' = CeilingAfterFailure
  /\ Return("failed")
  /\ UNCHANGED <<phase, ladder, cur, lastGood, measured, stressed, verdict, lost, ctx>>

\* Any other error of the transport, or a setting walk.Run refuses, ends the
\* run and leaves no trace of the repeats made.  interrupted is asked before.
TransportError ==
  /\ pc = "walk" /\ ctx = "live"
  /\ aborted' = [why |-> "transport", s |-> cur]
  /\ lastSet' = cur
  /\ Stop
  /\ UNCHANGED <<phase, ladder, cur, ceiling, lastGood, measured, trials,
                 stressed, limited, noted, lost, ctx>>
-----------------------------------------------------------------------------
(* Runner.finalProbe.                                                      *)

FinalSkipped ==
  /\ pc = "final" /\ (ctx # "live" \/ trials = <<>>)
  /\ Proceed(phase, "done")
  /\ UNCHANGED ladder

FinalAsk ==
  /\ pc = "final" /\ ctx = "live" /\ trials # <<>>
  /\ Proceed(phase, "finalProbe")
  /\ UNCHANGED ladder

\* The trials of setting s become failed ones.
Condemn_none(s) == trials
Condemn(s) == [i \in DOMAIN trials |->
                 IF trials[i].s = s THEN [trials[i] EXCEPT !.ok = FALSE, !.score = 0]
                                    ELSE trials[i]]

FinalProbe ==
  /\ pc = "finalProbe"
  /\ \E answer \in Answers :
       /\ lost' = LostAfter(answer, lost)
       /\ IF Verdict(answer, lost) \in {"restarted", "lost"}
            THEN /\ aborted' = [why |-> Verdict(answer, lost), s |-> lastSet]
                 /\ trials' = Condemn(lastSet)
            ELSE UNCHANGED <<aborted, trials>>
  /\ pc' = "done"
  /\ UNCHANGED <<phase, ladder, cur, runs, got, ceiling, lastGood, lastSet,
                 measured, stressed, limited, noted, ctx>>
-----------------------------------------------------------------------------
\* The operator's Ctrl-C, or the deadline of main.run, at any moment.
ContextDone ==
  /\ pc # "done" /\ ctx = "live"
  /\ ctx' \in {"canceled"} \cup (IF HasDeadline THEN {"deadline"} ELSE {})
  /\ UNCHANGED <<phase, pc, ladder, cur, runs, got, runner, verdict, noted, lost>>

Terminated == pc = "done" /\ UNCHANGED vars

Choose == \/ EscalateStep \/ EscalateCap \/ EscalateVetoed \/ EscalateFailed \/ EscalateClean
          \/ BisectStep \/ BisectReturn \/ BisectEnd
          \/ SplitStep \/ SplitEnd \/ TryStep \/ TryEnd \/ ListReturn

TrialStep == \/ Skip \/ Interrupted \/ Exhausted \/ Admit \/ Cooldown
             \/ ProbeAborts \/ ProbeStressed \/ ProbeOk
             \/ WalkClean \/ TrialClean \/ TrialFailed \/ TransportError

RunStep == Choose \/ TrialStep \/ FinalSkipped \/ FinalAsk \/ FinalProbe

Next == RunStep \/ ContextDone \/ Terminated

\* Every call of the transport returns, by its timeout at the latest, and every
\* cooldown ends, so the one goroutine of the run never stands still.
Fairness == WF_vars(RunStep)

Spec == Init /\ [][Next]_vars /\ Fairness
-----------------------------------------------------------------------------
(* What the search promises.                                               *)

Failed == {i \in DOMAIN trials : ~trials[i].ok}
Clean == {i \in DOMAIN trials : trials[i].ok}
Searching == phase # "try"

\* Every variable has its type; the bookkeeping of trial() is bounded by Repeats.
TypeOK ==
  /\ phase \in Phases /\ pc \in Locations
  /\ reps \in Nat /\ lastGoodR \in Nat /\ firstBadR \in Nat /\ prevScore \in Nat /\ at \in Nat
  /\ cur \in Setting /\ runs \in 0 .. Repeats - 1 /\ got \in {"nil", "ok", "failed"}
  /\ ceiling \in Int /\ lastGood \in Nat /\ lastSet \in Setting
  /\ measured \subseteq Setting /\ trials \in Seq(Trial) /\ stressed \in BOOLEAN
  /\ aborted \in [why : {"none", "interrupted", "restarted", "lost", "transport"}, s : Setting]
  /\ limited \in {"none", "max-trials", "max-duration"}
  /\ noted \in Nat /\ lost \in 0 .. LostLimit
  /\ ctx \in {"live", "deadline", "canceled"}

\* The search never tries a product as large as one that already failed: no
\* trial of the log, and no walk under way, is at or above an earlier failure,
\* whatever phase, interrupt or stress came between (Runner.ceiling).
NeverAboveFailed ==
  /\ \A i \in Failed : \A j \in DOMAIN trials :
       i < j => Product(trials[j].s) < Product(trials[i].s)
  /\ pc = "walk" => \A i \in Failed : Product(cur) < Product(trials[i].s)

\* Once the canary has shown stress the search walks nothing above the largest
\* clean product so far, except the first setting (the Stressed case of trial).
NoEscalationUnderStress ==
  Searching /\ stressed /\ pc = "walk" =>
    Product(cur) <= StartProduct \/ \E i \in Clean : Product(cur) <= Product(trials[i].s)

\* Tracker.Trials counts the trials of the outcome, the partial ones included;
\* they stay within max-trials, and a search walks nothing above max-product.
BudgetsHold ==
  /\ noted = Len(trials)
  /\ MaxTrials > 0 => Len(trials) <= MaxTrials
  /\ Searching /\ pc = "walk" => Product(cur) <= MaxProduct

\* No setting appears twice in the outcome (Runner.measured), so the final
\* probe, which looks trials up by their setting, condemns one trial.
OncePerSetting ==
  \A i, j \in DOMAIN trials : trials[i].s = trials[j].s => i = j

\* The bracket of the bisection is real while it narrows: both ends were
\* measured, the lower one clean and the upper one failed.
Measured(r, ok) == \E i \in DOMAIN trials :
                     trials[i].s = [r |-> r, v |-> V0] /\ trials[i].ok = ok
Bracket ==
  phase = "bisect" /\ pc # "done" /\ firstBadR > 0 =>
    /\ lastGoodR < firstBadR
    /\ Measured(firstBadR, FALSE)
    /\ lastGoodR > 0 => Measured(lastGoodR, TRUE)

\* Only agent stress ends the bisection early: otherwise its gap has closed to
\* a tenth of the clean end when the split begins, so no trial of the bisection
\* was skipped as already measured or as above the ceiling.
BisectConverges ==
  phase = "split" /\ ~stressed /\ firstBadR > 0 =>
    firstBadR - lastGoodR <= AtLeast(1, lastGoodR \div 10)

\* The split redistributes a product that was clean: it walks nothing larger
\* than the largest clean trial.
SplitWithinClean ==
  phase = "split" /\ pc = "walk" => \E i \in Clean : Product(cur) <= Product(trials[i].s)

\* The width of the widest table is tried whenever the product has room for it:
\* no earlier trial keeps the split from measuring every column in one PDU, but
\* one that failed with no more, unless stress, a budget or an abort ended the
\* search before (splitCandidates, and the split of Run).
WidthMeasured ==
  /\ Searching /\ pc = "done" /\ aborted = NotAborted /\ limited = "none"
  /\ ~stressed
  /\ Widest > 0 /\ lastGoodR * V0 >= Widest
  => \/ \E i \in DOMAIN trials : trials[i].s.v = Widest
     \/ \E i \in Failed : Product(trials[i].s) <= SplitReps(Widest) * Widest

\* An abort of the canary names the setting of the last trial of the outcome,
\* at whichever of the probes before, inside or after that trial it happens;
\* it names the zero setting when there was no trial.
AbortNamesLastTrial ==
  aborted.why \in {"restarted", "lost"} =>
    aborted.s = IF trials = <<>> THEN Zero ELSE trials[Len(trials)].s

\* A clean trial is one that made all its repeats.
CleanIsComplete == \A i \in Clean : trials[i].runs = Repeats

\* README: "Ctrl-C ends the cooldown and the run immediately, and the report says it
\* was interrupted."  It may come too late to cut anything short; but a run that names
\* no abort and no spent budget is whole, whenever the context was done: it measured
\* each candidate of its split, or each setting of --try, but for those no smaller
\* than one that failed (interrupted, and where trial asks it).
Due == IF Searching THEN {SplitSetting(v) : v \in SplitFits}
       ELSE {s \in {Requested[i] : i \in DOMAIN Requested} : Product(s) < MaxInt}
WholeUnlessTold ==
  /\ pc = "done" /\ aborted = NotAborted /\ limited = "none"
  /\ Searching => ~stressed
  => \A s \in Due :
       \/ \E i \in DOMAIN trials : trials[i].s = s
       \/ \E i \in Failed : Product(trials[i].s) <= Product(s)

\* Every run ends, whatever the agent answers: the ladder, the bisection and
\* the lists are finite, and so is a ladder whose max-repetitions wrap.
Terminates == <>(pc = "done")

\* The outcome, read as loads.
LoadLog == [i \in DOMAIN trials |-> [load |-> Product(trials[i].s), ok |-> trials[i].ok]]

\* A search has the loads that max-product admits.  --try has those of the operator's
\* settings, whatever max-product: Measure never compares it.
Guard == INSTANCE LoadGuard WITH
           Loads <- IF Requested = <<>> THEN 0 .. MaxProduct
                    ELSE {Product(Requested[i]) : i \in DOMAIN Requested},
           FirstLoad <- StartProduct,
           Yields <- Requested = <<>>,
           log <- LoadLog, strained <- stressed, closed <- pc = "done"

\* The run, step by step, is one that LoadGuard allows: the machinery of phases,
\* ceilings and the measured set keeps the promise made to the agent.
KeepsPromise == Guard!Spec
=============================================================================
