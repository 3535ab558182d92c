---------------------------- MODULE SearchProofs ----------------------------
(***************************************************************************)
(* What holds of every run of Search, for every value of its constants.    *)
(***************************************************************************)
EXTENDS Plan, NaturalLemmas, TLAPS, SequenceTheorems

-----------------------------------------------------------------------------
(* Lemmas about the operators.                                             *)

\* The product of two numbers is a number: all that is used of it below.
LEMMA ProductType == \A s \in Setting : Product(s) \in Nat
BY SMT DEF Product, Setting

\* The vars per PDU of the ladder, and the product of its first step.
LEMMA V0Type == V0 \in Nat \ {0} /\ StartProduct \in Nat
BY ConstantsAssumption, SMT DEF V0, StartProduct, Start, AtMost

\* The candidates of the split are numbers other than zero.
LEMMA CandidatesType == SplitCandidates \subseteq Nat \ {0}
BY ConstantsAssumption, SMT DEF SplitCandidates, SplitVars

\* The split asks for no more than the product it divides, and for less when the
\* max-repetitions wrap.
LEMMA SplitDivides ==
  ASSUME TypeOK, NEW v \in Nat \ {0}
  PROVE  /\ SplitQuotient(v) \in Nat /\ SplitReps(v) \in Nat
         /\ SplitReps(v) <= SplitQuotient(v)
         /\ SplitReps(v) * v <= lastGoodR * V0
<1>1. lastGoodR * V0 \in Nat /\ RepsModulus \in Nat \ {0}
  BY V0Type, ConstantsAssumption DEF TypeOK
<1>2. ASSUME NEW n \in Nat  PROVE n \div v \in Nat /\ (n \div v) * v <= n
  OBVIOUS
<1>3. ASSUME NEW n \in Nat  PROVE n % RepsModulus \in Nat /\ n % RepsModulus <= n
  <2>1. PICK w \in Nat \ {0} : w = RepsModulus
    BY <1>1
  <2>. QED  BY <2>1
<1>4. /\ SplitQuotient(v) \in Nat /\ SplitQuotient(v) * v <= lastGoodR * V0
      /\ SplitReps(v) \in Nat /\ SplitReps(v) <= SplitQuotient(v)
  BY <1>1, <1>2, <1>3 DEF SplitQuotient, SplitReps
<1>5. \A a, b, c \in Nat : a <= b => a * c <= b * c /\ a * c \in Nat /\ b * c \in Nat
  OBVIOUS
<1>. QED  BY <1>1, <1>4, <1>5

\* Every probe of a run that is not lost yet leaves Canary.lost at its limit or below
\* it, and at the limit only with the verdict that ends the run.
LEMMA ProbeLost ==
  ASSUME NEW answer \in Answers, NEW n \in 0 .. LostLimit - 1
  PROVE  /\ LostAfter(answer, n) \in 0 .. LostLimit
         /\ Verdict(answer, n) # "lost" => LostAfter(answer, n) < LostLimit
         /\ Verdict(answer, n) \in Verdicts
BY SMT DEF Answers, Verdicts, LostLimit, LostAfter, Verdict

\* The type of a log that grew by the trial of the current setting.
LEMMA NoteTrialType ==
  ASSUME TypeOK, NEW ok \in BOOLEAN, NEW score \in Nat, NEW n \in 1 .. Repeats,
         NoteTrial(ok, score, n)
  PROVE  trials' \in Seq(Trial) /\ noted' \in Nat /\ trials' # <<>>
<1>1. PICK b \in Nat : trials' = Append(trials, [s |-> cur, ok |-> ok, score |-> score,
                                                 bytes |-> b, runs |-> n])
  BY ConstantsAssumption DEF NoteTrial
<1>2. [s |-> cur, ok |-> ok, score |-> score, bytes |-> b, runs |-> n] \in Trial
  BY DEF TypeOK, Trial
<1>3. trials \in Seq(Trial) /\ noted \in Nat
  BY DEF TypeOK
<1>. QED  BY <1>1, <1>2, <1>3, AppendProperties DEF NoteTrial

LEMMA RecordPartialType ==
  ASSUME TypeOK, RecordPartial
  PROVE  trials' \in Seq(Trial) /\ noted' \in Nat
<1>1. CASE runs > 0
  <2>1. runs \in 1 .. Repeats
    BY <1>1, ConstantsAssumption DEF TypeOK
  <2>. QED  BY <1>1, <2>1, NoteTrialType DEF RecordPartial
<1>2. CASE ~(runs > 0)
  BY <1>2 DEF RecordPartial, TypeOK
<1>. QED  BY <1>1, <1>2

LEMMA CondemnType ==
  ASSUME TypeOK, NEW s \in Setting
  PROVE  /\ Condemn(s) \in Seq(Trial)
         /\ Len(Condemn(s)) = Len(trials)
         /\ DOMAIN Condemn(s) = DOMAIN trials
<1>1. trials \in Seq(Trial) /\ Len(trials) \in Nat /\ DOMAIN trials = 1 .. Len(trials)
  BY DEF TypeOK
<1>2. \A i \in 1 .. Len(trials) : trials[i] \in Trial
  BY <1>1
<1>3. Condemn(s) \in [1 .. Len(trials) -> Trial]
  BY <1>1, <1>2 DEF Condemn, Trial
<1>. QED  BY <1>1, <1>3, LenProperties, SeqDef
-----------------------------------------------------------------------------
(* Type correctness.                                                       *)

\* What makes TypeOK inductive: a run that goes on has not reached the limit of
\* lost probes, and a trial that returned ok is in the log.
TypeInv ==
  /\ TypeOK
  /\ pc # "done" => lost < LostLimit
  /\ pc = "return" /\ got = "ok" => trials # <<>>

LEMMA TypeInit == Init => TypeInv
<1>. SUFFICES ASSUME Init  PROVE TypeInv
  OBVIOUS
<1>1. Zero \in Setting
  BY DEF Zero, Setting
<1>2. NotAborted \in [why : {"none", "interrupted", "restarted", "lost", "transport"}, s : Setting]
  BY <1>1 DEF NotAborted
<1>3. FirstCeiling \in Int
  BY ConstantsAssumption DEF FirstCeiling
<1>4. 0 \in 0 .. Repeats - 1
  BY ConstantsAssumption
<1>4a. Start.r \in Nat
  BY DEF Start
<1>5. phase \in Phases /\ pc \in Locations
  BY DEF Init, Phases, Locations
<1>5a. /\ aborted = NotAborted /\ limited = "none" /\ lost = 0 /\ runs = 0 /\ noted = 0
       /\ measured = {} /\ ctx = "live" /\ got = "nil" /\ stressed = FALSE
       /\ lastSet = Zero /\ cur = Zero /\ ceiling = FirstCeiling /\ lastGood = 0
       /\ reps = Start.r /\ lastGoodR = 0 /\ firstBadR = 0 /\ prevScore = 0 /\ at = 0
  BY DEF Init
<1>6. trials \in Seq(Trial)
  BY EmptySeq DEF Init
<1>7a. /\ reps \in Nat /\ lastGoodR \in Nat /\ firstBadR \in Nat /\ prevScore \in Nat
       /\ at \in Nat /\ noted \in Nat /\ lost \in 0 .. LostLimit /\ ceiling \in Int
       /\ lastGood \in Nat /\ runs \in 0 .. Repeats - 1
  BY <1>3, <1>4, <1>4a, <1>5a DEF LostLimit
<1>7b. measured \subseteq Setting /\ limited \in {"none", "max-trials", "max-duration"}
  BY <1>5a
<1>7. TypeOK
  BY <1>7a, <1>7b, <1>1, <1>2, <1>3, <1>4, <1>4a, <1>5, <1>5a, <1>6 DEF TypeOK, LostLimit
<1>. QED  BY <1>7 DEF Init, TypeInv, LostLimit

LEMMA TypeStep == TypeInv /\ [Next]_vars => TypeInv'
<1>. SUFFICES ASSUME TypeInv, [Next]_vars  PROVE TypeInv'
  OBVIOUS
<1>. USE DEF TypeInv
<1>t. TypeOK
  OBVIOUS
<1>next. ASSUME Choose  PROVE TypeInv'
  <2>. USE DEF Proceed, Call, ladder, runner, verdict
  <2>r. /\ runs' = runs /\ got' = got /\ ceiling' = ceiling /\ lastGood' = lastGood
        /\ lastSet' = lastSet /\ measured' = measured /\ trials' = trials
        /\ stressed' = stressed /\ aborted' = aborted /\ limited' = limited
        /\ noted' = noted /\ lost' = lost /\ ctx' = ctx
    BY <1>next DEF Choose, EscalateStep, EscalateCap, EscalateVetoed, EscalateFailed,
         EscalateClean, BisectStep, BisectReturn, BisectEnd, SplitStep, SplitEnd,
         TryStep, TryEnd, ListReturn
  <2>p. /\ pc # "done" /\ pc' \in {"next", "trial", "final"}
        /\ phase' \in Phases
    BY <1>next, <1>t DEF Choose, EscalateStep, EscalateCap, EscalateVetoed, EscalateFailed,
         EscalateClean, BisectStep, BisectReturn, BisectEnd, SplitStep, SplitEnd,
         TryStep, TryEnd, ListReturn, TypeOK, Phases
  <2>l. /\ reps' \in Nat /\ lastGoodR' \in Nat /\ firstBadR' \in Nat
        /\ prevScore' \in Nat /\ at' \in Nat /\ cur' \in Setting
    <3>1. CASE EscalateStep
      <4>1. cur' = [r |-> reps, v |-> V0]
        BY <3>1 DEF EscalateStep
      <4>. QED  BY <1>t, <3>1, <4>1, V0Type DEF EscalateStep, TypeOK, Setting
    <3>2. CASE EscalateCap \/ EscalateVetoed \/ BisectEnd \/ SplitEnd \/ TryEnd \/ ListReturn
      BY <1>t, <3>2 DEF EscalateCap, EscalateVetoed, BisectEnd, SplitEnd, TryEnd,
                        ListReturn, TypeOK
    <3>3. CASE EscalateFailed
      BY <1>t, <3>3 DEF EscalateFailed, TypeOK
    <3>4. CASE EscalateClean
      <4>1. trials \in Seq(Trial) /\ trials # <<>>
        BY <1>t, <3>4 DEF EscalateClean, TypeOK
      <4>2. Len(trials) \in 1 .. Len(trials)
        BY <4>1, EmptySeq
      <4>3. trials[Len(trials)] \in Trial
        BY <4>1, <4>2, ElementOfSeq
      <4>4. trials[Len(trials)].score \in Nat
        BY <4>3 DEF Trial
      <4>5. (2 * reps) % RepsModulus \in Nat
        BY <1>t, ConstantsAssumption DEF TypeOK
      <4>. QED  BY <1>t, <3>4, <4>4, <4>5 DEF EscalateClean, TypeOK
    <3>5. CASE BisectStep
      <4>1. (lastGoodR + firstBadR) \div 2 \in Nat
        BY <1>t DEF TypeOK
      <4>. QED  BY <1>t, <3>5, <4>1, V0Type DEF BisectStep, TypeOK, Setting
    <3>6. CASE BisectReturn
      BY <1>t, <3>6 DEF BisectReturn, Narrowed, TypeOK, Setting
    <3>7. CASE SplitStep
      <4>1. PICK v \in SplitLeft : at' = v /\ cur' = [r |-> SplitReps(v), v |-> v]
        BY <3>7 DEF SplitStep, SplitSetting
      <4>2. v \in Nat \ {0}
        BY CandidatesType DEF SplitLeft, SplitFits
      <4>4. SplitReps(v) \in Nat
        BY <1>t, <4>2, SplitDivides
      <4>. QED  BY <1>t, <3>7, <4>1, <4>2, <4>4 DEF SplitStep, TypeOK, Setting
    <3>8. CASE TryStep
      <4>1. at + 1 \in 1 .. Len(Requested)
        <5>1. at \in Nat /\ at < Len(Requested)
          BY <1>t, <3>8 DEF TryStep, TypeOK
        <5>2. Len(Requested) \in Nat
          BY ConstantsAssumption, LenProperties
        <5>. QED  BY <5>1, <5>2
      <4>2. Requested[at + 1] \in [r : Nat \ {0}, v : Nat \ {0}]
        <5>1. Requested \in Seq([r : Nat \ {0}, v : Nat \ {0}])
          BY ConstantsAssumption
        <5>. QED  BY <4>1, <5>1, ElementOfSeq
      <4>3. Requested[at + 1] \in Setting
        BY <4>2 DEF Setting
      <4>. QED  BY <1>t, <3>8, <4>3 DEF TryStep, TypeOK
    <3>. QED  BY <1>next, <3>1, <3>2, <3>3, <3>4, <3>5, <3>6, <3>7, <3>8 DEF Choose
  <2>. QED  BY <1>t, <2>r, <2>p, <2>l DEF TypeOK, Locations
<1>trial. ASSUME TrialStep  PROVE TypeInv'
  <2>. USE DEF ladder, runner, verdict, Return, Stop
  <2>f. /\ pc \in {"trial", "cool", "probe", "walk"}
        /\ pc' \in {"cool", "probe", "walk", "return", "done"}
        /\ phase' = phase /\ reps' = reps /\ lastGoodR' = lastGoodR
        /\ firstBadR' = firstBadR /\ prevScore' = prevScore /\ at' = at
        /\ cur' = cur /\ ctx' = ctx
    BY <1>trial DEF TrialStep, Skip, Interrupted, AsksContext, Exhausted, Admit, Cooldown,
         ProbeAborts, ProbeStressed, ProbeOk, WalkClean, TrialClean, TrialFailed,
         TransportError
  <2>n. lost \in 0 .. LostLimit - 1
    BY <1>t, <2>f DEF TypeOK, LostLimit
  <2>p. \A s \in Setting : Product(s) \in Nat
    BY ProductType
  <2>1. CASE Skip \/ Exhausted \/ Admit \/ Cooldown
    <3>1. runs' \in 0 .. Repeats - 1
      BY <1>t, <2>1, ConstantsAssumption DEF Skip, Exhausted, Admit, Cooldown, TypeOK
    <3>. QED  BY <1>t, <2>1, <2>f, <3>1 DEF Skip, Exhausted, Admit, Cooldown, TypeOK, Locations
  <2>2. CASE Interrupted
    <3>1. trials' \in Seq(Trial) /\ noted' \in Nat
      BY <1>t, <2>2, RecordPartialType DEF Interrupted
    <3>2. runs' \in 0 .. Repeats - 1
      BY <2>2, ConstantsAssumption DEF Interrupted
    <3>3. aborted' \in [why : {"none", "interrupted", "restarted", "lost", "transport"}, s : Setting]
      BY <1>t, <2>2 DEF Interrupted, AbortOfContext, TypeOK
    <3>. QED  BY <1>t, <2>2, <2>f, <3>1, <3>2, <3>3 DEF Interrupted, LimitOfContext, TypeOK, Locations
  <2>3. CASE ProbeAborts
    <3>1. trials' \in Seq(Trial) /\ noted' \in Nat
      BY <1>t, <2>3, RecordPartialType DEF ProbeAborts
    <3>2. PICK answer \in Answers :
            /\ Verdict(answer, lost) \in {"restarted", "lost"}
            /\ aborted' = [why |-> Verdict(answer, lost), s |-> lastSet]
            /\ lost' = LostAfter(answer, lost)
      BY <2>3 DEF ProbeAborts
    <3>3. lost' \in 0 .. LostLimit
      BY <2>n, <3>2, ProbeLost
    <3>4. aborted' \in [why : {"none", "interrupted", "restarted", "lost", "transport"}, s : Setting]
      BY <1>t, <3>2 DEF TypeOK
    <3>5. runs' \in 0 .. Repeats - 1
      BY <2>3, ConstantsAssumption DEF ProbeAborts
    <3>. QED  BY <1>t, <2>3, <2>f, <3>1, <3>3, <3>4, <3>5 DEF ProbeAborts, TypeOK, Locations
  <2>4. CASE ProbeStressed
    <3>1. PICK answer \in Answers :
            Verdict(answer, lost) = "stressed" /\ lost' = LostAfter(answer, lost)
      BY <2>4 DEF ProbeStressed
    <3>2. lost' \in 0 .. LostLimit /\ lost' < LostLimit
      BY <2>n, <3>1, ProbeLost
    <3>3. ceiling' \in Int
      BY <1>t, <2>4, V0Type DEF ProbeStressed, StressCeiling, AtMost, AtLeast, TypeOK
    <3>4. trials' \in Seq(Trial) /\ noted' \in Nat
      BY <1>t, <2>4, RecordPartialType DEF ProbeStressed, TypeOK
    <3>5. runs' \in 0 .. Repeats - 1 /\ got' \in {"nil", "ok", "failed"}
      BY <1>t, <2>4, ConstantsAssumption DEF ProbeStressed, TypeOK
    <3>6. pc' = "return" => got' = "nil"
      BY <2>4 DEF ProbeStressed
    <3>. QED  BY <1>t, <2>4, <2>f, <3>2, <3>3, <3>4, <3>5, <3>6 DEF ProbeStressed, TypeOK, Locations
  <2>5. CASE ProbeOk
    <3>1. PICK answer \in Answers :
            Verdict(answer, lost) = "ok" /\ lost' = LostAfter(answer, lost)
      BY <2>5 DEF ProbeOk
    <3>2. lost' \in 0 .. LostLimit /\ lost' < LostLimit
      BY <2>n, <3>1, ProbeLost
    <3>. QED  BY <1>t, <2>5, <2>f, <3>2 DEF ProbeOk, TypeOK, Locations
  <2>6. CASE WalkClean
    <3>1. runs' \in 0 .. Repeats - 1
      BY <1>t, <2>6, ConstantsAssumption DEF WalkClean, LastRepeat, TypeOK
    <3>. QED  BY <1>t, <2>6, <2>f, <3>1 DEF WalkClean, TypeOK, Locations
  <2>7. CASE TrialClean
    <3>1. trials' \in Seq(Trial) /\ noted' \in Nat /\ trials' # <<>>
      <4>1. PICK score \in Scores : NoteTrial(TRUE, score, runs + 1)
        BY <2>7 DEF TrialClean
      <4>2. score \in Nat /\ runs + 1 \in 1 .. Repeats
        BY <1>t, ConstantsAssumption DEF TypeOK
      <4>. QED  BY <1>t, <4>1, <4>2, NoteTrialType
    <3>2. runs' \in 0 .. Repeats - 1
      BY <2>7, ConstantsAssumption DEF TrialClean
    <3>3. Product(cur) \in Nat
      BY <1>t, <2>p DEF TypeOK
    <3>4. lastGood' \in Nat
      BY <1>t, <2>7, <3>3 DEF TrialClean, AtLeast, TypeOK
    <3>. QED  BY <1>t, <2>7, <2>f, <3>1, <3>2, <3>4 DEF TrialClean, TypeOK, Locations
  <2>8. CASE TrialFailed
    <3>1. runs + 1 \in 1 .. Repeats
      BY <1>t, ConstantsAssumption DEF TypeOK
    <3>2. trials' \in Seq(Trial) /\ noted' \in Nat /\ trials' # <<>>
      BY <1>t, <2>8, <3>1, NoteTrialType DEF TrialFailed
    <3>3. runs' \in 0 .. Repeats - 1
      BY <2>8, ConstantsAssumption DEF TrialFailed
    <3>4. Product(cur) \in Nat
      BY <1>t, <2>p DEF TypeOK
    <3>5. ceiling' \in Int
      BY <1>t, <2>8, <3>4 DEF TrialFailed, CeilingAfterFailure, AtMost, TypeOK
    <3>. QED  BY <1>t, <2>8, <2>f, <3>2, <3>3, <3>5 DEF TrialFailed, TypeOK, Locations
  <2>9. CASE TransportError
    <3>1. runs' \in 0 .. Repeats - 1
      BY <2>9, ConstantsAssumption DEF TransportError
    <3>2. aborted' \in [why : {"none", "interrupted", "restarted", "lost", "transport"}, s : Setting]
      BY <1>t, <2>9 DEF TransportError, TypeOK
    <3>. QED  BY <1>t, <2>9, <2>f, <3>1, <3>2 DEF TransportError, TypeOK, Locations
  <2>. QED  BY <1>trial, <2>1, <2>2, <2>3, <2>4, <2>5, <2>6, <2>7, <2>8, <2>9 DEF TrialStep
<1>final. ASSUME FinalSkipped \/ FinalAsk \/ FinalProbe  PROVE TypeInv'
  <2>1. CASE FinalSkipped \/ FinalAsk
    BY <1>t, <2>1 DEF FinalSkipped, FinalAsk, Proceed, ladder, runner, verdict, TypeOK, Locations
  <2>2. CASE FinalProbe
    <3>1. PICK answer \in Answers :
            /\ lost' = LostAfter(answer, lost)
            /\ IF Verdict(answer, lost) \in {"restarted", "lost"}
                 THEN /\ aborted' = [why |-> Verdict(answer, lost), s |-> lastSet]
                      /\ trials' = Condemn(lastSet)
                 ELSE UNCHANGED <<aborted, trials>>
      BY <2>2 DEF FinalProbe
    <3>2. lost' \in 0 .. LostLimit
      <4>1. lost \in 0 .. LostLimit - 1
        BY <1>t, <2>2 DEF FinalProbe, TypeOK, LostLimit
      <4>. QED  BY <3>1, <4>1, ProbeLost
    <3>3. aborted' \in [why : {"none", "interrupted", "restarted", "lost", "transport"}, s : Setting]
      BY <1>t, <3>1 DEF TypeOK
    <3>4. trials' \in Seq(Trial)
      BY <1>t, <3>1, CondemnType DEF TypeOK
    <3>. QED  BY <1>t, <2>2, <3>2, <3>3, <3>4 DEF FinalProbe, ladder, TypeOK, Locations
  <2>. QED  BY <1>final, <2>1, <2>2
<1>rest. ASSUME ContextDone \/ UNCHANGED vars  PROVE TypeInv'
  <2>1. ctx' \in {"live", "deadline", "canceled"}
    BY <1>t, <1>rest DEF ContextDone, TypeOK, vars
  <2>2. UNCHANGED <<phase, pc, ladder, cur, runs, got, runner, verdict, noted, lost>>
    BY <1>rest DEF ContextDone, vars
  <2>. QED  BY <1>t, <2>1, <2>2 DEF TypeOK, ladder, runner, verdict
<1>. QED  BY <1>next, <1>trial, <1>final, <1>rest DEF Next, RunStep, Terminated

\* Every reachable state has the types the code declares: Canary.lost never passes
\* its limit, and no trial counts more repeats than Options.Repeats.
THEOREM TypeCorrect == Spec => []TypeOK
<1>1. Init => TypeInv
  BY TypeInit
<1>2. TypeInv /\ [Next]_vars => TypeInv'
  BY TypeStep
<1>3. TypeInv => TypeOK
  BY DEF TypeInv
<1>. QED  BY <1>1, <1>2, <1>3, PTL DEF Spec
-----------------------------------------------------------------------------
(* The log of trials: the ceiling, the measured set and the budgets.       *)

InTrial == pc \in {"cool", "probe", "walk"}

\* Until the run is over the ceiling is at or below every failed product.
CeilingBelowFailed == pc # "done" => \A i \in Failed : ceiling <= Product(trials[i].s)

\* The setting of an open trial is below the ceiling, and new to the log.
CurrentIsNew ==
  InTrial => /\ Product(cur) < ceiling
             /\ cur \in measured
             /\ \A i \in DOMAIN trials : trials[i].s # cur
             /\ MaxTrials > 0 => Len(trials) < MaxTrials

LogMeasured == \A i \in DOMAIN trials : trials[i].s \in measured

FailuresDescend == \A i \in Failed : \A j \in DOMAIN trials :
                     i < j => Product(trials[j].s) < Product(trials[i].s)

TrialsCounted == noted = Len(trials) /\ (MaxTrials > 0 => Len(trials) <= MaxTrials)

CeilingWithinBudget == Searching => ceiling <= MaxProduct + 1

\* Only an open trial has repeats.
RunsInTrial == runs > 0 => InTrial

\* The setting walked last is the one of the open trial once it has a repeat, and
\* the last of the log otherwise.
LastSetting == IF trials = <<>> THEN Zero ELSE trials[Len(trials)].s
LastWalked == pc # "done" => lastSet = IF runs > 0 THEN cur ELSE LastSetting

LogInv == /\ RunsInTrial /\ LastWalked /\ CeilingBelowFailed /\ CurrentIsNew /\ LogMeasured /\ OncePerSetting
          /\ FailuresDescend /\ TrialsCounted /\ CeilingWithinBudget

\* What NoteTrial does to the log, entry by entry.
LEMMA NoteTrialEffect ==
  ASSUME TypeOK, NEW ok \in BOOLEAN, NEW score \in Nat, NEW n \in 1 .. Repeats,
         NoteTrial(ok, score, n)
  PROVE  /\ Len(trials') = Len(trials) + 1
         /\ DOMAIN trials' = 1 .. Len(trials) + 1
         /\ DOMAIN trials = 1 .. Len(trials)
         /\ Len(trials) \in Nat
         /\ \A i \in 1 .. Len(trials) : trials'[i] = trials[i]
         /\ trials'[Len(trials) + 1].s = cur
         /\ trials'[Len(trials) + 1].ok = ok
         /\ trials'[Len(trials) + 1].runs = n
         /\ noted' = noted + 1
<1>1. PICK b \in Nat : trials' = Append(trials, [s |-> cur, ok |-> ok, score |-> score,
                                                 bytes |-> b, runs |-> n])
  BY ConstantsAssumption DEF NoteTrial
<1>2. [s |-> cur, ok |-> ok, score |-> score, bytes |-> b, runs |-> n] \in Trial
  BY DEF TypeOK, Trial
<1>3. trials \in Seq(Trial) /\ Len(trials) \in Nat /\ DOMAIN trials = 1 .. Len(trials)
  BY DEF TypeOK
<1>4. trials' \in Seq(Trial)
  BY NoteTrialType
<1>. QED  BY <1>1, <1>2, <1>3, <1>4, AppendProperties, LenProperties DEF NoteTrial

\* The log grows by the current setting, and the trial is closed.
LEMMA LogGrows ==
  ASSUME TypeInv, LogInv, InTrial,
         NEW ok \in BOOLEAN, NEW score \in Nat, NEW n \in 1 .. Repeats,
         NoteTrial(ok, score, n), ~InTrial', runs' = 0, phase' = phase, measured' = measured,
         ceiling' \in Int, ceiling' <= ceiling,
         pc' # "done" => lastSet' = cur /\ (~ok => ceiling' <= Product(cur))
  PROVE  LogInv'
<1>1. TypeOK /\ (TypeOK => cur \in Setting /\ ceiling \in Int /\ MaxProduct \in Int)
  BY ConstantsAssumption DEF TypeInv, TypeOK
<1>2. /\ Len(trials') = Len(trials) + 1 /\ DOMAIN trials' = 1 .. Len(trials) + 1
      /\ DOMAIN trials = 1 .. Len(trials) /\ Len(trials) \in Nat
      /\ \A i \in 1 .. Len(trials) : trials'[i] = trials[i]
      /\ trials'[Len(trials) + 1].s = cur /\ trials'[Len(trials) + 1].ok = ok
      /\ noted' = noted + 1
  BY <1>1, NoteTrialEffect
<1>3. \A i \in DOMAIN trials : trials[i].s \in Setting /\ Product(trials[i].s) \in Nat
  <2>1. \A i \in DOMAIN trials : trials[i] \in Trial
    BY <1>1, ElementOfSeq, LenProperties DEF TypeOK
  <2>. QED  BY <2>1, ProductType DEF Trial
<1>4. Product(cur) \in Nat
  BY <1>1, ProductType
<1>5. Product(cur) < ceiling /\ cur \in measured /\ \A i \in DOMAIN trials : trials[i].s # cur
  BY DEF LogInv, CurrentIsNew
<1>6. pc # "done"
  BY DEF InTrial
<1>7. CeilingBelowFailed'
  <2>. SUFFICES ASSUME pc' # "done", NEW i \in Failed'  PROVE ceiling' <= Product(trials'[i].s)
    BY DEF CeilingBelowFailed, Product
  <2>1. i \in 1 .. Len(trials) + 1 /\ ~trials'[i].ok
    BY <1>2 DEF Failed
  <2>2. CASE i = Len(trials) + 1
    BY <1>2, <2>1, <2>2
  <2>3. CASE i \in 1 .. Len(trials)
    <3>1. i \in Failed
      BY <1>2, <2>1, <2>3 DEF Failed
    <3>2. ceiling <= Product(trials[i].s)
      BY <1>6, <3>1 DEF LogInv, CeilingBelowFailed
    <3>. QED  BY <1>1, <1>2, <1>3, <2>3, <3>2
  <2>. QED  BY <1>2, <2>1, <2>2, <2>3
<1>8. FailuresDescend'
  <2>. SUFFICES ASSUME NEW i \in Failed', NEW j \in DOMAIN trials', i < j
                PROVE  Product(trials'[j].s) < Product(trials'[i].s)
    BY DEF FailuresDescend, Product
  <2>1. i \in 1 .. Len(trials) /\ j \in 1 .. Len(trials) + 1
    BY <1>2 DEF Failed
  <2>2. i \in Failed /\ trials'[i] = trials[i]
    BY <1>2, <2>1 DEF Failed
  <2>3. CASE j = Len(trials) + 1
    <3>1. ceiling <= Product(trials[i].s)
      BY <1>6, <2>2 DEF LogInv, CeilingBelowFailed
    <3>. QED  BY <1>1, <1>2, <1>3, <1>4, <1>5, <2>1, <2>2, <2>3, <3>1
  <2>4. CASE j \in 1 .. Len(trials)
    BY <1>2, <2>2, <2>4 DEF LogInv, FailuresDescend
  <2>. QED  BY <1>2, <2>1, <2>3, <2>4
<1>9. OncePerSetting'
  <2>. SUFFICES ASSUME NEW i \in DOMAIN trials', NEW j \in DOMAIN trials',
                       trials'[i].s = trials'[j].s
                PROVE  i = j
    BY DEF OncePerSetting
  <2>. QED  BY <1>2, <1>5 DEF LogInv, OncePerSetting
<1>10. LogMeasured'
  BY <1>2, <1>5 DEF LogInv, LogMeasured
<1>11. TrialsCounted'
  BY <1>2, ConstantsAssumption DEF LogInv, TrialsCounted, CurrentIsNew
<1>12. CeilingWithinBudget'
  BY <1>1 DEF LogInv, CeilingWithinBudget, Searching
<1>13. CurrentIsNew'
  BY DEF CurrentIsNew
<1>14. RunsInTrial'
  BY DEF RunsInTrial
<1>15. LastWalked'
  <2>1. trials' # <<>>
    BY <1>1, NoteTrialType
  <2>. QED  BY <1>2, <2>1 DEF LastWalked, LastSetting
<1>. QED  BY <1>7, <1>8, <1>9, <1>10, <1>11, <1>12, <1>13, <1>14, <1>15 DEF LogInv

\* The log stays, and the ceiling does not rise.
LEMMA LogStays ==
  ASSUME TypeInv, LogInv,
         trials' = trials, noted' = noted, ceiling' \in Int, ceiling' <= ceiling,
         measured \subseteq measured', Searching' => Searching,
         pc' # "done" => pc # "done",
         CurrentIsNew', RunsInTrial', LastWalked'
  PROVE  LogInv'
<1>1. ceiling \in Int /\ MaxProduct \in Int
  BY ConstantsAssumption DEF TypeInv, TypeOK
<1>2. \A i \in DOMAIN trials : trials[i].s \in Setting /\ Product(trials[i].s) \in Nat
  <2>1. \A i \in DOMAIN trials : trials[i] \in Trial
    BY ElementOfSeq, LenProperties DEF TypeInv, TypeOK
  <2>. QED  BY <2>1, ProductType DEF Trial
<1>3. CeilingBelowFailed'
  <2>. SUFFICES ASSUME pc' # "done", NEW i \in Failed'  PROVE ceiling' <= Product(trials'[i].s)
    BY DEF CeilingBelowFailed, Product
  <2>1. i \in Failed /\ i \in DOMAIN trials
    BY DEF Failed
  <2>2. ceiling <= Product(trials[i].s)
    BY <2>1 DEF LogInv, CeilingBelowFailed
  <2>. QED  BY <1>1, <1>2, <2>1, <2>2
<1>4. FailuresDescend' /\ OncePerSetting' /\ LogMeasured' /\ TrialsCounted'
  BY DEF LogInv, FailuresDescend, OncePerSetting, LogMeasured, TrialsCounted, Failed, Product
<1>5. CeilingWithinBudget'
  BY <1>1 DEF LogInv, CeilingWithinBudget
<1>. QED  BY <1>3, <1>4, <1>5 DEF LogInv

\* Runner.record keeps the invariant where it closes an open trial.
LEMMA RecordKeeps ==
  ASSUME TypeInv, LogInv, InTrial \/ runs = 0, RecordPartial, ~InTrial', runs' = 0,
         phase' = phase, measured' = measured, ceiling' \in Int, ceiling' <= ceiling,
         pc # "done", pc' # "done" => lastSet' = lastSet /\ ceiling' <= Product(cur)
  PROVE  LogInv'
<1>1. CASE runs > 0
  <2>1. runs \in 1 .. Repeats /\ FALSE \in BOOLEAN /\ 0 \in Nat
    BY <1>1, ConstantsAssumption DEF TypeInv, TypeOK
  <2>2. NoteTrial(FALSE, 0, runs)
    BY <1>1 DEF RecordPartial
  <2>3. InTrial /\ lastSet = cur
    BY <1>1 DEF LogInv, LastWalked
  <2>. QED  BY <2>1, <2>2, <2>3, LogGrows
<1>2. CASE ~(runs > 0)
  <2>1. trials' = trials /\ noted' = noted
    BY <1>2 DEF RecordPartial
  <2>2. CurrentIsNew' /\ RunsInTrial' /\ (Searching' => Searching)
    BY DEF CurrentIsNew, RunsInTrial, Searching
  <2>3. LastWalked'
    BY <1>2, <2>1 DEF LogInv, LastWalked, LastSetting
  <2>. QED  BY <2>1, <2>2, <2>3, LogStays
<1>. QED  BY <1>1, <1>2

LEMMA LogInit == Init => LogInv
<1>. SUFFICES ASSUME Init  PROVE LogInv
  OBVIOUS
<1>1. trials = <<>> /\ Len(trials) = 0 /\ DOMAIN trials = {} /\ pc = "next" /\ runs = 0 /\ noted = 0
  BY DEF Init
<1>2. CeilingWithinBudget
  BY ConstantsAssumption DEF Init, CeilingWithinBudget, Searching, FirstCeiling
<1>3. LastWalked
  BY <1>1 DEF Init, LastWalked, LastSetting
<1>4. TrialsCounted
  BY <1>1, ConstantsAssumption DEF TrialsCounted
<1>. QED  BY <1>1, <1>2, <1>3, <1>4 DEF LogInv, RunsInTrial, CeilingBelowFailed, CurrentIsNew, InTrial,
               LogMeasured, OncePerSetting, FailuresDescend, Failed

LEMMA LogStep == TypeInv /\ LogInv /\ [Next]_vars => LogInv'
<1>. SUFFICES ASSUME TypeInv, LogInv, [Next]_vars  PROVE LogInv'
  OBVIOUS
<1>t. TypeOK /\ TypeOK'
  BY TypeStep DEF TypeInv
<1>c. ceiling \in Int /\ ceiling' \in Int /\ cur \in Setting /\ Product(cur) \in Nat
  BY <1>t, ProductType DEF TypeOK
<1>next. ASSUME Choose  PROVE LogInv'
  <2>1. /\ trials' = trials /\ noted' = noted /\ ceiling' = ceiling /\ measured' = measured
        /\ lastSet' = lastSet /\ runs' = runs /\ pc \in {"next", "return"} /\ pc' \in {"next", "trial", "final"}
        /\ phase' # "try" => phase # "try"
    BY <1>next DEF Choose, EscalateStep, EscalateCap, EscalateVetoed, EscalateFailed,
         EscalateClean, BisectStep, BisectReturn, BisectEnd, SplitStep, SplitEnd,
         TryStep, TryEnd, ListReturn, Proceed, Call, runner
  <2>2. runs = 0 /\ CurrentIsNew' /\ RunsInTrial'
    BY <1>t, <2>1 DEF CurrentIsNew, InTrial, LogInv, RunsInTrial, TypeOK
  <2>3. LastWalked'
    BY <2>1, <2>2 DEF LogInv, LastWalked, LastSetting
  <2>. QED  BY <1>c, <2>1, <2>2, <2>3, LogStays DEF Searching
<1>trial. ASSUME TrialStep  PROVE LogInv'
  <2>. USE DEF runner, verdict, Return, Stop, InTrial
  <2>1. CASE Skip \/ Exhausted \/ TransportError
    <3>1. /\ trials' = trials /\ noted' = noted /\ ceiling' = ceiling /\ measured' = measured
          /\ runs' = 0 /\ pc' \in {"return", "done"} /\ pc # "done" /\ phase' = phase
          /\ pc' = "return" => pc = "trial" /\ lastSet' = lastSet
      BY <2>1 DEF Skip, Exhausted, TransportError
    <3>2. CurrentIsNew' /\ RunsInTrial'
      BY <3>1 DEF CurrentIsNew, RunsInTrial
    <3>3. LastWalked'
      BY <1>t, <3>1 DEF LogInv, LastWalked, LastSetting, RunsInTrial, TypeOK
    <3>. QED  BY <1>c, <3>1, <3>2, <3>3, LogStays DEF Searching
  <2>2. CASE Admit
    <3>1. /\ trials' = trials /\ noted' = noted /\ ceiling' = ceiling /\ cur' = cur
          /\ measured' = measured \cup {cur} /\ runs' = runs /\ pc' = "cool"
          /\ pc = "trial" /\ phase' = phase /\ lastSet' = lastSet
      BY <2>2 DEF Admit
    <3>2. \A i \in DOMAIN trials : trials[i].s # cur
      BY <2>2 DEF Admit, Skipped, LogInv, LogMeasured
    <3>3. Len(trials) \in Nat /\ noted = Len(trials)
      BY <1>t DEF TypeOK, LogInv, TrialsCounted
    <3>4. MaxTrials > 0 => Len(trials) < MaxTrials
      BY <2>2, <3>3, ConstantsAssumption DEF Admit, TrialsExhausted
    <3>5. Product(cur) < ceiling
      <4>1. ~(Product(cur) >= ceiling)
        BY <2>2 DEF Admit, Skipped
      <4>2. Product(cur) \in Nat /\ ceiling \in Int
        BY <1>t, ProductType DEF TypeOK
      <4>. QED  BY <4>1, <4>2
    <3>6. CurrentIsNew' /\ RunsInTrial'
      BY <3>1, <3>2, <3>4, <3>5 DEF CurrentIsNew, RunsInTrial, Product
    <3>7. LastWalked'
      BY <3>1 DEF LogInv, LastWalked, LastSetting
    <3>. QED  BY <1>c, <3>1, <3>6, <3>7, LogStays DEF Searching
  <2>3. CASE Cooldown \/ ProbeOk \/ WalkClean
    <3>1. /\ trials' = trials /\ noted' = noted /\ ceiling' = ceiling /\ measured' = measured
          /\ cur' = cur /\ InTrial /\ InTrial' /\ phase' = phase
      BY <2>3 DEF Cooldown, ProbeOk, WalkClean
    <3>2. CurrentIsNew' /\ RunsInTrial'
      BY <3>1 DEF CurrentIsNew, LogInv, RunsInTrial, Product
    <3>3. LastWalked'
      <4>r. runs \in Nat
        BY <1>t, ConstantsAssumption DEF TypeOK
      <4>1. \/ runs' = runs /\ lastSet' = lastSet
            \/ runs' = runs + 1 /\ lastSet' = cur
        BY <2>3 DEF Cooldown, ProbeOk, WalkClean
      <4>. QED  BY <3>1, <4>r, <4>1 DEF LogInv, LastWalked, LastSetting
    <3>. QED  BY <1>c, <3>1, <3>2, <3>3, LogStays DEF Searching
  <2>4. CASE Interrupted
    <3>1. /\ RecordPartial /\ runs' = 0 /\ pc' = "done" /\ pc \in {"trial", "cool", "walk"}
          /\ ceiling' = ceiling /\ measured' = measured /\ phase' = phase
      BY <2>4 DEF Interrupted, AsksContext
    <3>2. InTrial \/ runs = 0
      BY <1>t DEF LogInv, RunsInTrial, TypeOK
    <3>. QED  BY <1>c, <3>1, <3>2, RecordKeeps
  <2>5. CASE ProbeAborts
    <3>1. /\ RecordPartial /\ runs' = 0 /\ pc' = "done" /\ pc = "probe"
          /\ ceiling' = ceiling /\ measured' = measured /\ phase' = phase
      BY <2>5 DEF ProbeAborts
    <3>. QED  BY <1>c, <3>1, RecordKeeps
  <2>6. CASE ProbeStressed
    <3>1. ceiling' <= ceiling
      BY <1>t, <2>6, V0Type, SMTT(30) DEF ProbeStressed, StressCeiling, AtMost, AtLeast, TypeOK
    <3>2. pc = "probe" /\ phase' = phase /\ measured' = measured /\ cur' = cur /\ lastSet' = lastSet
      BY <2>6 DEF ProbeStressed
    <3>3. CASE Product(cur) >= ceiling'
      <4>1. RecordPartial /\ runs' = 0 /\ pc' = "return"
        BY <2>6, <3>3 DEF ProbeStressed
      <4>. QED  BY <1>c, <3>1, <3>2, <3>3, <4>1, RecordKeeps
    <3>4. CASE ~(Product(cur) >= ceiling')
      <4>1. trials' = trials /\ noted' = noted /\ pc' = "walk" /\ runs' = runs
        BY <2>6, <3>4 DEF ProbeStressed
      <4>2. Product(cur) < ceiling'
        BY <1>c, <3>4
      <4>3. CurrentIsNew' /\ RunsInTrial'
        BY <3>2, <4>1, <4>2 DEF CurrentIsNew, LogInv, RunsInTrial, Product
      <4>4. LastWalked'
        BY <3>2, <4>1 DEF LogInv, LastWalked, LastSetting
      <4>. QED  BY <1>c, <3>1, <3>2, <4>1, <4>3, <4>4, LogStays DEF Searching
    <3>. QED  BY <3>3, <3>4
  <2>7. CASE TrialClean
    <3>1. PICK score \in Scores : NoteTrial(TRUE, score, runs + 1)
      BY <2>7 DEF TrialClean
    <3>2. score \in Nat /\ runs + 1 \in 1 .. Repeats
      BY <1>t, ConstantsAssumption DEF TypeOK
    <3>b. TRUE \in BOOLEAN
      OBVIOUS
    <3>3. /\ lastSet' = cur /\ runs' = 0 /\ pc' = "return" /\ pc = "walk"
          /\ ceiling' = ceiling /\ measured' = measured /\ phase' = phase
      BY <2>7 DEF TrialClean
    <3>4. pc' # "done" => lastSet' = cur /\ (~TRUE => ceiling' <= Product(cur))
      BY <3>3
    <3>5. ~InTrial' /\ ceiling' <= ceiling
      BY <1>c, <3>3
    <3>. QED  BY <1>c, <3>1, <3>2, <3>3, <3>4, <3>5, <3>b, LogGrows, Zenon
  <2>8. CASE TrialFailed
    <3>1. NoteTrial(FALSE, 0, runs + 1)
      BY <2>8 DEF TrialFailed
    <3>b. FALSE \in BOOLEAN
      OBVIOUS
    <3>n. runs + 1 \in 1 .. Repeats /\ 0 \in Nat
      BY <1>t, ConstantsAssumption DEF TypeOK
    <3>2. /\ lastSet' = cur /\ runs' = 0 /\ pc' = "return" /\ pc = "walk"
          /\ measured' = measured /\ phase' = phase
      BY <2>8 DEF TrialFailed
    <3>3. ceiling' <= ceiling /\ ceiling' <= Product(cur)
      BY <1>c, <2>8 DEF TrialFailed, CeilingAfterFailure, AtMost
    <3>. QED  BY <1>c, <3>1, <3>2, <3>3, <3>b, <3>n, LogGrows
  <2>. QED  BY <1>trial, <2>1, <2>2, <2>3, <2>4, <2>5, <2>6, <2>7, <2>8 DEF TrialStep
<1>final. ASSUME FinalSkipped \/ FinalAsk \/ FinalProbe  PROVE LogInv'
  <2>1. /\ pc \in {"final", "finalProbe"} /\ pc' \in {"finalProbe", "done"} /\ phase' = phase
        /\ ceiling' = ceiling /\ measured' = measured /\ noted' = noted
        /\ runs' = runs /\ lastSet' = lastSet
    BY <1>final DEF FinalSkipped, FinalAsk, FinalProbe, Proceed, runner
  <2>2. runs = 0 /\ lastSet = LastSetting
    BY <1>t, <2>1 DEF LogInv, RunsInTrial, LastWalked, InTrial, TypeOK
  <2>3. CurrentIsNew' /\ RunsInTrial'
    BY <2>1, <2>2 DEF CurrentIsNew, RunsInTrial, InTrial
  <2>4. CASE trials' = trials
    <3>1. LastWalked'
      BY <2>1, <2>2, <2>4 DEF LastWalked, LastSetting
    <3>2. (Searching' => Searching) /\ (pc' # "done" => pc # "done") /\ ceiling' <= ceiling
      BY <1>c, <2>1 DEF Searching
    <3>3. measured \subseteq measured' /\ noted' = noted
      BY <2>1
    <3>. QED  BY <1>c, <2>3, <2>4, <3>1, <3>2, <3>3, LogStays, Zenon
  <2>5. CASE trials' = Condemn(lastSet) /\ pc' = "done"
    <3>1. trials \in Seq(Trial) /\ Len(trials) \in Nat /\ DOMAIN trials = 1 .. Len(trials)
      <4>1. TypeOK
        BY <1>t
      <4>. QED  BY <4>1, LenProperties DEF TypeOK
    <3>2. Len(trials') = Len(trials) /\ DOMAIN trials' = 1 .. Len(trials)
      BY <1>t, <2>5, <3>1, CondemnType DEF TypeOK
    <3>3. \A i \in 1 .. Len(trials) :
            trials[i] \in Trial /\ trials'[i].s = trials[i].s
      <4>1. \A i \in 1 .. Len(trials) : trials[i] \in Trial
        BY <3>1, ElementOfSeq
      <4>. QED  BY <2>5, <3>1, <4>1 DEF Condemn, Trial
    <3>4. \A i \in 1 .. Len(trials) : ~trials'[i].ok => ~trials[i].ok \/ i = Len(trials)
      <4>. SUFFICES ASSUME NEW i \in 1 .. Len(trials), ~trials'[i].ok, trials[i].ok
                    PROVE  i = Len(trials)
        OBVIOUS
      <4>1. trials[i].s = lastSet
        BY <2>5, <3>1 DEF Condemn
      <4>2. trials[i].s = trials[Len(trials)].s /\ Len(trials) \in DOMAIN trials
        BY <2>2, <3>1, <4>1, EmptySeq DEF LastSetting
      <4>. QED  BY <3>1, <4>2 DEF LogInv, OncePerSetting
    <3>5. FailuresDescend'
      <4>. DEFINE n == Len(trials)
      <4>n. n \in Nat
        BY <3>1
      <4>1. SUFFICES ASSUME NEW i \in 1 .. n, NEW j \in 1 .. n, ~trials'[i].ok, i < j
                     PROVE  Product(trials'[j].s) < Product(trials'[i].s)
        BY <3>2 DEF FailuresDescend, Failed, Product
      <4>. HIDE DEF n
      <4>i. i # n
        BY <4>n, <4>1
      <4>2. i # Len(trials) /\ i \in DOMAIN trials /\ j \in DOMAIN trials
        BY <3>1, <4>1, <4>i DEF n
      <4>3. i \in Failed
        BY <3>4, <4>1, <4>2, Zenon DEF Failed, n
      <4>. QED  BY <3>3, <4>1, <4>2, <4>3 DEF LogInv, FailuresDescend, n
    <3>6. OncePerSetting' /\ LogMeasured' /\ TrialsCounted' /\ CeilingWithinBudget'
      BY <2>1, <3>1, <3>2, <3>3 DEF LogInv, OncePerSetting, LogMeasured, TrialsCounted,
           CeilingWithinBudget, Searching
    <3>7. CeilingBelowFailed' /\ LastWalked'
      BY <2>5 DEF CeilingBelowFailed, LastWalked
    <3>. QED  BY <2>3, <3>5, <3>6, <3>7 DEF LogInv
  <2>. QED  BY <1>final, <2>1, <2>4, <2>5 DEF FinalSkipped, FinalAsk, FinalProbe, Proceed, runner
<1>rest. ASSUME ContextDone \/ UNCHANGED vars  PROVE LogInv'
  <2>1. UNCHANGED <<phase, pc, cur, runs, runner, noted>>
    BY <1>rest DEF ContextDone, vars
  <2>2. CurrentIsNew' /\ RunsInTrial'
    BY <2>1 DEF CurrentIsNew, LogInv, RunsInTrial, Product, runner, InTrial
  <2>3. LastWalked'
    BY <2>1 DEF LogInv, LastWalked, LastSetting, runner
  <2>. QED  BY <1>c, <2>1, <2>2, <2>3, LogStays DEF Searching, runner
<1>. QED  BY <1>next, <1>trial, <1>final, <1>rest DEF Next, RunStep, Terminated

\* LogInv is what has to be carried along: the properties follow in each state.
LEMMA LogInvImplies ==
  ASSUME TypeInv, LogInv
  PROVE  NeverAboveFailed /\ BudgetsHold /\ OncePerSetting
<1>1. ceiling \in Int /\ MaxProduct \in Int /\ Product(cur) \in Nat
  BY ConstantsAssumption, ProductType DEF TypeInv, TypeOK
<1>2. \A i \in DOMAIN trials : Product(trials[i].s) \in Nat
  <2>1. \A i \in DOMAIN trials : trials[i] \in Trial
    BY ElementOfSeq, LenProperties DEF TypeInv, TypeOK
  <2>. QED  BY <2>1, ProductType DEF Trial
<1>3. pc = "walk" => Product(cur) < ceiling
  BY DEF LogInv, CurrentIsNew, InTrial
<1>4. pc = "walk" => \A i \in Failed : Product(cur) < Product(trials[i].s)
  <2>. SUFFICES ASSUME pc = "walk", NEW i \in Failed  PROVE Product(cur) < Product(trials[i].s)
    OBVIOUS
  <2>1. ceiling <= Product(trials[i].s) /\ i \in DOMAIN trials
    BY DEF LogInv, CeilingBelowFailed, Failed
  <2>. QED  BY <1>1, <1>2, <1>3, <2>1
<1>5. NeverAboveFailed
  BY <1>4 DEF LogInv, FailuresDescend, NeverAboveFailed
<1>6. Searching /\ pc = "walk" => Product(cur) <= MaxProduct
  BY <1>1, <1>3 DEF LogInv, CeilingWithinBudget
<1>7. BudgetsHold
  BY <1>6 DEF LogInv, TrialsCounted, BudgetsHold
<1>. QED  BY <1>5, <1>7 DEF LogInv

LEMMA LogInvariant == Spec => [](TypeInv /\ LogInv)
<1>1. Init => TypeInv /\ LogInv
  BY TypeInit, LogInit
<1>2. TypeInv /\ LogInv /\ [Next]_vars => (TypeInv /\ LogInv)'
  BY TypeStep, LogStep
<1>. QED  BY <1>1, <1>2, PTL DEF Spec

\* Whatever the agent answers and the operator interrupts, no setting is walked
\* at or above the product of one that failed, in a search as under --try.
THEOREM NeverAboveFailedHolds == Spec => []NeverAboveFailed
BY LogInvariant, LogInvImplies, PTL

\* Every search keeps to max-trials and max-product, and the count of trials is
\* the length of the outcome.
THEOREM BudgetsHoldAlways == Spec => []BudgetsHold
BY LogInvariant, LogInvImplies, PTL

\* No setting is in the outcome twice, whatever the phases propose.
THEOREM OncePerSettingHolds == Spec => []OncePerSetting
BY LogInvariant, LogInvImplies, PTL
-----------------------------------------------------------------------------
(* What the canary's abort names, and what a clean trial is.               *)

\* AbortNamesLastTrial is inductive together with what holds before an abort.
AbortInv == (pc # "done" => aborted = NotAborted) /\ AbortNamesLastTrial

LEMMA AbortStep == TypeInv /\ LogInv /\ AbortInv /\ [Next]_vars => AbortInv'
<1>. SUFFICES ASSUME TypeInv, LogInv, AbortInv, [Next]_vars  PROVE AbortInv'
  OBVIOUS
<1>t. TypeOK
  BY DEF TypeInv
<1>0. NotAborted.why = "none"
  BY DEF NotAborted
<1>next. ASSUME Choose  PROVE AbortInv'
  <2>1. aborted' = aborted /\ trials' = trials /\ pc # "done" /\ pc' # "done"
    BY <1>next DEF Choose, EscalateStep, EscalateCap, EscalateVetoed, EscalateFailed,
         EscalateClean, BisectStep, BisectReturn, BisectEnd, SplitStep, SplitEnd,
         TryStep, TryEnd, ListReturn, Proceed, Call, runner, verdict
  <2>. QED  BY <1>0, <2>1 DEF AbortInv, AbortNamesLastTrial
<1>calm. ASSUME \/ Skip \/ Exhausted \/ Admit \/ Cooldown \/ ProbeStressed \/ ProbeOk
                \/ WalkClean \/ TrialClean \/ TrialFailed
                \/ FinalSkipped \/ FinalAsk
         PROVE  AbortInv'
  <2>1. aborted' = aborted /\ pc # "done"
    BY <1>calm DEF Skip, Exhausted, Admit, Cooldown, ProbeStressed, ProbeOk, WalkClean,
         TrialClean, TrialFailed, FinalSkipped, FinalAsk, Proceed, runner, verdict
  <2>. QED  BY <1>0, <2>1 DEF AbortInv, AbortNamesLastTrial
<1>int. ASSUME Interrupted \/ TransportError  PROVE AbortInv'
  <2>1. /\ aborted' = aborted \/ aborted'.why \in {"interrupted", "transport"}
        /\ pc # "done" /\ pc' = "done"
    BY <1>int DEF Interrupted, AbortOfContext, AsksContext, TransportError, Stop
  <2>. QED  BY <1>0, <2>1 DEF AbortInv, AbortNamesLastTrial
<1>abort. ASSUME ProbeAborts  PROVE AbortInv'
  <2>1. pc' = "done" /\ pc = "probe" /\ aborted'.s = lastSet /\ RecordPartial
    BY <1>abort DEF ProbeAborts, Stop
  <2>2. lastSet = IF runs > 0 THEN cur ELSE LastSetting
    BY <2>1 DEF LogInv, LastWalked
  <2>3. CASE runs > 0
    <3>1. runs \in 1 .. Repeats /\ 0 \in Nat
      BY <1>t, <2>3, ConstantsAssumption DEF TypeOK
    <3>b. FALSE \in BOOLEAN
      OBVIOUS
    <3>2. NoteTrial(FALSE, 0, runs)
      BY <2>1, <2>3 DEF RecordPartial
    <3>3. trials' # <<>> /\ Len(trials') = Len(trials) + 1 /\ trials'[Len(trials) + 1].s = cur
      BY <1>t, <3>1, <3>b, <3>2, NoteTrialType, NoteTrialEffect
    <3>. QED  BY <2>1, <2>2, <2>3, <3>3 DEF AbortInv, AbortNamesLastTrial
  <2>4. CASE ~(runs > 0)
    <3>1. trials' = trials
      BY <2>1, <2>4 DEF RecordPartial
    <3>. QED  BY <2>1, <2>2, <2>4, <3>1 DEF AbortInv, AbortNamesLastTrial, LastSetting
  <2>. QED  BY <2>3, <2>4
<1>final. ASSUME FinalProbe  PROVE AbortInv'
  <2>1. pc = "finalProbe" /\ pc' = "done"
    BY <1>final DEF FinalProbe
  <2>2. runs = 0 /\ lastSet = LastSetting
    BY <1>t, <2>1 DEF LogInv, RunsInTrial, LastWalked, InTrial, TypeOK
  <2>3. CASE aborted' = aborted
    BY <1>0, <2>1, <2>3 DEF AbortInv, AbortNamesLastTrial
  <2>4. CASE aborted'.s = lastSet /\ trials' = Condemn(lastSet)
    <3>1. trials \in Seq(Trial) /\ Len(trials) \in Nat /\ DOMAIN trials = 1 .. Len(trials)
      BY <1>t, LenProperties DEF TypeOK
    <3>2. Len(trials') = Len(trials) /\ trials' \in Seq(Trial)
      BY <1>t, <2>4, CondemnType DEF TypeOK
    <3>3. CASE trials = <<>>
      <4>1. trials' = <<>>
        BY <3>1, <3>2, <3>3, EmptySeq
      <4>. QED  BY <2>1, <2>2, <2>4, <3>3, <4>1 DEF AbortInv, AbortNamesLastTrial, LastSetting
    <3>4. CASE trials # <<>>
      <4>1. Len(trials) \in 1 .. Len(trials) /\ trials' # <<>>
        BY <3>1, <3>2, <3>4, EmptySeq
      <4>2. trials[Len(trials)] \in Trial
        BY <3>1, <4>1, ElementOfSeq
      <4>3. trials'[Len(trials)].s = trials[Len(trials)].s
        BY <2>4, <3>1, <4>1, <4>2 DEF Condemn, Trial
      <4>. QED  BY <2>1, <2>2, <2>4, <3>2, <3>4, <4>1, <4>3
                DEF AbortInv, AbortNamesLastTrial, LastSetting
    <3>. QED  BY <3>3, <3>4
  <2>. QED  BY <1>final, <2>3, <2>4 DEF FinalProbe
<1>rest. ASSUME ContextDone \/ UNCHANGED vars  PROVE AbortInv'
  <2>1. UNCHANGED <<pc, trials, aborted>>
    BY <1>rest DEF ContextDone, vars, runner, verdict
  <2>. QED  BY <2>1 DEF AbortInv, AbortNamesLastTrial
<1>. QED  BY <1>next, <1>calm, <1>int, <1>abort, <1>final, <1>rest
          DEF Next, RunStep, TrialStep, Terminated

\* The abort of a restarted or a lost agent names the last trial of the outcome,
\* at whichever probe of the run it is found.
THEOREM AbortNamesLastTrialHolds == Spec => []AbortNamesLastTrial
<1>1. Init => AbortInv
  BY DEF Init, AbortInv, AbortNamesLastTrial, NotAborted
<1>2. AbortInv => AbortNamesLastTrial
  BY DEF AbortInv
<1>. QED  BY <1>1, <1>2, AbortStep, LogInvariant, PTL DEF Spec
-----------------------------------------------------------------------------
(* What a step may do to the log of trials.                                *)

\* A trial is noted: as a clean one only when it made all its repeats and the run goes
\* on, with the largest clean product brought up to date.
Noted ==
  \E ok \in BOOLEAN, score \in Nat, n \in 1 .. Repeats :
    /\ InTrial /\ ~InTrial'
    /\ NoteTrial(ok, score, n)
    /\ ok => /\ n = Repeats /\ pc' # "done"
             /\ lastGood' = AtLeast(lastGood, Product(cur))
    /\ ~ok => lastGood' = lastGood

\* The final probe condemns the trials of the last setting walked.
Condemned == pc = "finalProbe" /\ pc' = "done" /\ trials' = Condemn(lastSet)

LEMMA LogShape ==
  ASSUME TypeInv, LogInv, [Next]_vars
  PROVE  \/ trials' = trials /\ lastGood' = lastGood
         \/ Noted
         \/ Condemned /\ lastGood' = lastGood
<1>. USE DEF ladder, runner, verdict, Return, Stop, InTrial
<1>t. TypeOK
  BY DEF TypeInv
<1>next. ASSUME Choose  PROVE trials' = trials /\ lastGood' = lastGood
  BY <1>next DEF Choose, EscalateStep, EscalateCap, EscalateVetoed, EscalateFailed,
       EscalateClean, BisectStep, BisectReturn, BisectEnd, SplitStep, SplitEnd,
       TryStep, TryEnd, ListReturn, Proceed, Call
<1>calm. ASSUME \/ Skip \/ Exhausted \/ Admit \/ Cooldown \/ ProbeOk \/ WalkClean
                \/ TransportError \/ FinalSkipped \/ FinalAsk
                \/ ContextDone \/ UNCHANGED vars
         PROVE  trials' = trials /\ lastGood' = lastGood
  BY <1>calm DEF Skip, Exhausted, Admit, Cooldown, ProbeOk, WalkClean, TransportError,
       FinalSkipped, FinalAsk, Proceed, ContextDone, vars
<1>record. ASSUME RecordPartial, runs' = 0, pc' \in {"return", "done"}, lastGood' = lastGood
           PROVE  trials' = trials \/ Noted
  <2>1. CASE runs > 0
    <3>1. runs \in 1 .. Repeats /\ 0 \in Nat /\ FALSE \in BOOLEAN
      BY <1>t, <2>1, ConstantsAssumption DEF TypeOK
    <3>2. NoteTrial(FALSE, 0, runs) /\ InTrial /\ ~InTrial'
      BY <1>record, <2>1 DEF RecordPartial, LogInv, RunsInTrial
    <3>. QED  BY <1>record, <3>1, <3>2 DEF Noted
  <2>2. CASE ~(runs > 0)
    BY <1>record, <2>2 DEF RecordPartial
  <2>. QED  BY <2>1, <2>2
<1>partial. ASSUME Interrupted \/ ProbeAborts
            PROVE  lastGood' = lastGood /\ (trials' = trials \/ Noted)
  <2>1. RecordPartial /\ runs' = 0 /\ pc' \in {"return", "done"} /\ lastGood' = lastGood
    BY <1>partial DEF Interrupted, ProbeAborts
  <2>. QED  BY <1>record, <2>1
<1>stress. ASSUME ProbeStressed
           PROVE  lastGood' = lastGood /\ (trials' = trials \/ Noted)
  <2>1. lastGood' = lastGood
    BY <1>stress DEF ProbeStressed
  <2>2. trials' = trials \/ (RecordPartial /\ runs' = 0 /\ pc' \in {"return", "done"})
    BY <1>stress DEF ProbeStressed
  <2>. QED  BY <1>record, <2>1, <2>2
<1>clean. ASSUME TrialClean  PROVE Noted
  <2>1. PICK score \in Scores : NoteTrial(TRUE, score, runs + 1)
    BY <1>clean DEF TrialClean
  <2>2. score \in Nat /\ runs + 1 \in 1 .. Repeats /\ runs + 1 = Repeats /\ TRUE \in BOOLEAN
    BY <1>t, <1>clean, ConstantsAssumption DEF TypeOK, TrialClean, LastRepeat
  <2>3. /\ InTrial /\ ~InTrial' /\ pc' # "done"
        /\ lastGood' = AtLeast(lastGood, Product(cur))
    BY <1>clean DEF TrialClean
  <2>. QED  BY <2>1, <2>2, <2>3 DEF Noted
<1>failed. ASSUME TrialFailed  PROVE Noted
  <2>1. runs + 1 \in 1 .. Repeats /\ 0 \in Nat /\ FALSE \in BOOLEAN
    BY <1>t, ConstantsAssumption DEF TypeOK
  <2>2. InTrial /\ ~InTrial' /\ lastGood' = lastGood /\ NoteTrial(FALSE, 0, runs + 1)
    BY <1>failed DEF TrialFailed
  <2>. QED  BY <2>1, <2>2 DEF Noted
<1>final. ASSUME FinalProbe  PROVE lastGood' = lastGood /\ (trials' = trials \/ Condemned)
  BY <1>final DEF FinalProbe, Condemned
<1>. QED  BY <1>next, <1>calm, <1>partial, <1>stress, <1>clean, <1>failed, <1>final
          DEF Next, RunStep, TrialStep, Terminated

\* A condemned log has the entries of the log before it; only the last of them may
\* have changed, and is a failed one then.
LEMMA CondemnEffect ==
  ASSUME TypeInv, LogInv, Condemned
  PROVE  /\ DOMAIN trials' = DOMAIN trials /\ Len(trials') = Len(trials)
         /\ Len(trials) \in Nat /\ DOMAIN trials = 1 .. Len(trials)
         /\ \A i \in DOMAIN trials :
              /\ trials'[i].s = trials[i].s /\ trials'[i].runs = trials[i].runs
              /\ trials'[i].ok => trials[i].ok
              /\ i # Len(trials) => trials'[i] = trials[i]
         /\ trials # <<>> => ~trials'[Len(trials)].ok
<1>1. trials \in Seq(Trial) /\ Len(trials) \in Nat /\ DOMAIN trials = 1 .. Len(trials)
  BY LenProperties DEF TypeInv, TypeOK
<1>2. \A i \in DOMAIN trials : trials[i] \in Trial
  BY <1>1, ElementOfSeq
<1>3. DOMAIN trials' = DOMAIN trials /\ Len(trials') = Len(trials)
  BY CondemnType DEF Condemned, TypeInv, TypeOK
<1>4. \A i \in DOMAIN trials :
        trials'[i] = IF trials[i].s = lastSet THEN [trials[i] EXCEPT !.ok = FALSE, !.score = 0]
                                              ELSE trials[i]
  BY DEF Condemned, Condemn
<1>5. runs = 0 /\ lastSet = LastSetting
  BY DEF Condemned, TypeInv, TypeOK, LogInv, RunsInTrial, LastWalked, InTrial
<1>6. trials # <<>> => Len(trials) \in DOMAIN trials /\ trials[Len(trials)].s = lastSet
  BY <1>1, <1>5, EmptySeq DEF LastSetting
<1>7. \A i \in DOMAIN trials : trials[i].s = lastSet => i = Len(trials)
  <2>. SUFFICES ASSUME NEW i \in DOMAIN trials, trials[i].s = lastSet  PROVE i = Len(trials)
    OBVIOUS
  <2>1. trials # <<>>
    BY <1>1
  <2>. QED  BY <1>6, <2>1 DEF LogInv, OncePerSetting
<1>8. \A i \in DOMAIN trials :
        /\ trials'[i].s = trials[i].s /\ trials'[i].runs = trials[i].runs
        /\ trials'[i].ok => trials[i].ok
        /\ trials[i].s = lastSet => ~trials'[i].ok
  BY <1>2, <1>4 DEF Trial
<1>9. \A i \in DOMAIN trials : i # Len(trials) => trials'[i] = trials[i]
  BY <1>4, <1>7
<1>. QED  BY <1>1, <1>3, <1>6, <1>8, <1>9
-----------------------------------------------------------------------------
(* What a clean trial is.                                                  *)

LEMMA CompleteStep ==
  TypeInv /\ LogInv /\ CleanIsComplete /\ [Next]_vars => CleanIsComplete'
<1>. SUFFICES ASSUME TypeInv, LogInv, CleanIsComplete, [Next]_vars,
                     NEW i \in DOMAIN trials', trials'[i].ok
              PROVE  trials'[i].runs = Repeats
  BY DEF CleanIsComplete, Clean
<1>1. CASE trials' = trials
  BY <1>1 DEF CleanIsComplete, Clean
<1>2. CASE Noted
  <2>1. PICK ok \in BOOLEAN, score \in Nat, n \in 1 .. Repeats :
          NoteTrial(ok, score, n) /\ (ok => n = Repeats)
    BY <1>2 DEF Noted
  <2>2. /\ DOMAIN trials' = 1 .. Len(trials) + 1 /\ DOMAIN trials = 1 .. Len(trials)
        /\ \A j \in 1 .. Len(trials) : trials'[j] = trials[j]
        /\ trials'[Len(trials) + 1].ok = ok /\ trials'[Len(trials) + 1].runs = n
        /\ Len(trials) \in Nat
    BY <2>1, NoteTrialEffect DEF TypeInv
  <2>. QED  BY <2>1, <2>2 DEF CleanIsComplete, Clean
<1>3. CASE Condemned
  BY <1>3, CondemnEffect DEF CleanIsComplete, Clean
<1>. QED  BY <1>1, <1>2, <1>3, LogShape

\* No trial passes for clean that was vetoed, cut off or failed on the way: every
\* clean trial of the outcome made all the repeats that were asked for.
THEOREM CleanIsCompleteHolds == Spec => []CleanIsComplete
<1>1. Init => CleanIsComplete
  BY DEF Init, CleanIsComplete, Clean
<1>. QED  BY <1>1, CompleteStep, LogInvariant, PTL DEF Spec
-----------------------------------------------------------------------------
(* Stress.                                                                 *)

\* After stress the ceiling of a search admits what was clean, and the first setting.
StressCap == Searching /\ stressed => ceiling <= AtLeast(lastGood, StartProduct) + 1

\* The largest clean product is that of a clean trial, until the final probe, which
\* may condemn that very trial.
LastGoodClean ==
  pc # "done" => lastGood = 0 \/ \E i \in Clean : Product(trials[i].s) = lastGood

StressInv == StressCap /\ LastGoodClean

LEMMA StressCapStep ==
  ASSUME TypeInv, LogInv, StressCap, [Next]_vars
  PROVE  StressCap'
<1>. USE DEF ladder, runner, verdict
<1>t. /\ ceiling \in Int /\ lastGood \in Nat /\ StartProduct \in Nat /\ Product(cur) \in Nat
      /\ cur \in Setting
  BY V0Type, ProductType DEF TypeInv, TypeOK
<1>0. StartProduct' = StartProduct
  BY DEF StartProduct, V0
<1>1. Searching' => Searching
  BY DEF Next, RunStep, TrialStep, Terminated, Choose, EscalateStep, EscalateCap,
     EscalateVetoed, EscalateFailed, EscalateClean, BisectStep, BisectReturn, BisectEnd,
     SplitStep, SplitEnd, TryStep, TryEnd, ListReturn, Proceed, Skip, Interrupted,
     Exhausted, Admit, Cooldown, ProbeAborts, ProbeStressed, ProbeOk, WalkClean,
     TrialClean, TrialFailed, TransportError, FinalSkipped, FinalAsk, FinalProbe,
     ContextDone, vars, Searching
<1>2. CASE ProbeStressed
  <2>1. lastGood' = lastGood /\ ceiling' = StressCeiling
    BY <1>2 DEF ProbeStressed
  <2>. QED  BY <1>t, <1>0, <1>1, <2>1 DEF StressCap, StressCeiling, Searching, AtMost, AtLeast
<1>3. CASE TrialClean
  <2>1. lastGood' = AtLeast(lastGood, Product(cur)) /\ ceiling' = ceiling /\ stressed' = stressed
    BY <1>3 DEF TrialClean
  <2>. QED  BY <1>t, <1>0, <1>1, <2>1 DEF StressCap, AtLeast
<1>4. CASE TrialFailed
  <2>1. /\ lastGood' = lastGood /\ stressed' = stressed
        /\ ceiling' = AtMost(ceiling, Product(cur))
    BY <1>4 DEF TrialFailed, CeilingAfterFailure
  <2>. QED  BY <1>t, <1>0, <1>1, <2>1 DEF StressCap, AtMost, AtLeast
<1>5. CASE ~ProbeStressed /\ ~TrialClean /\ ~TrialFailed
  <2>1. lastGood' = lastGood /\ ceiling' = ceiling /\ stressed' = stressed
    BY <1>5 DEF Next, RunStep, TrialStep, Terminated, Choose, EscalateStep, EscalateCap,
       EscalateVetoed, EscalateFailed, EscalateClean, BisectStep, BisectReturn, BisectEnd,
       SplitStep, SplitEnd, TryStep, TryEnd, ListReturn, Proceed, Call, Skip, Interrupted,
       Exhausted, Admit, Cooldown, ProbeAborts, ProbeOk, WalkClean, TransportError,
       FinalSkipped, FinalAsk, FinalProbe, ContextDone, vars
  <2>. QED  BY <1>0, <1>1, <2>1 DEF StressCap
<1>. QED  BY <1>2, <1>3, <1>4, <1>5

LEMMA LastGoodStep ==
  ASSUME TypeInv, LogInv, LastGoodClean, [Next]_vars
  PROVE  LastGoodClean'
<1>. SUFFICES ASSUME pc' # "done"
              PROVE  lastGood' = 0 \/ \E i \in Clean' : Product(trials'[i].s) = lastGood'
  BY DEF LastGoodClean, Product
<1>0. pc # "done"
  BY DEF Next, RunStep, TrialStep, Terminated, Choose, EscalateStep, EscalateCap,
     EscalateVetoed, EscalateFailed, EscalateClean, BisectStep, BisectReturn, BisectEnd,
     SplitStep, SplitEnd, TryStep, TryEnd, ListReturn, Skip, Interrupted, AsksContext,
     Exhausted, Admit, Cooldown, ProbeAborts, ProbeStressed, ProbeOk, WalkClean,
     TrialClean, TrialFailed, TransportError, FinalSkipped, FinalAsk, FinalProbe,
     ContextDone, vars
<1>1. CASE trials' = trials /\ lastGood' = lastGood
  BY <1>0, <1>1 DEF LastGoodClean, Clean
<1>2. CASE Noted
  <2>1. PICK ok \in BOOLEAN, score \in Nat, n \in 1 .. Repeats :
          /\ NoteTrial(ok, score, n)
          /\ lastGood' = IF ok THEN AtLeast(lastGood, Product(cur)) ELSE lastGood
    BY <1>2 DEF Noted
  <2>2. /\ DOMAIN trials' = 1 .. Len(trials) + 1 /\ DOMAIN trials = 1 .. Len(trials)
        /\ \A j \in 1 .. Len(trials) : trials'[j] = trials[j]
        /\ trials'[Len(trials) + 1].ok = ok /\ trials'[Len(trials) + 1].s = cur
        /\ Len(trials) \in Nat
    BY <2>1, NoteTrialEffect DEF TypeInv
  <2>3. CASE lastGood' = lastGood
    <3>1. \A i \in Clean : i \in Clean' /\ trials'[i] = trials[i]
      BY <2>2 DEF Clean
    <3>. QED  BY <1>0, <2>3, <3>1 DEF LastGoodClean
  <2>4. CASE ok /\ lastGood' = Product(cur)
    <3>0. Len(trials) + 1 \in DOMAIN trials'
      BY <2>2
    <3>1. Len(trials) + 1 \in Clean'
      BY <2>2, <2>4, <3>0, Zenon DEF Clean
    <3>. QED  BY <2>2, <2>4, <3>1
  <2>. QED  BY <2>1, <2>3, <2>4 DEF AtLeast
<1>3. CASE Condemned
  BY <1>3 DEF Condemned
<1>. QED  BY <1>1, <1>2, <1>3, LogShape

\* Below the ceiling of a stressed search is only the first product, and what a
\* clean trial of the log reached.
LEMMA StressImplies ==
  ASSUME TypeInv, LogInv, StressInv, Searching, stressed, InTrial
  PROVE  \/ Product(cur) <= StartProduct
         \/ \E i \in Clean : Product(cur) <= Product(trials[i].s)
<1>1. /\ ceiling \in Int /\ lastGood \in Nat /\ StartProduct \in Nat /\ Product(cur) \in Nat
  BY V0Type, ProductType DEF TypeInv, TypeOK
<1>2. Product(cur) <= lastGood \/ Product(cur) <= StartProduct
  BY <1>1 DEF StressInv, StressCap, LogInv, CurrentIsNew, AtLeast
<1>3. pc # "done"
  BY DEF InTrial
<1>. QED  BY <1>1, <1>2, <1>3 DEF StressInv, LastGoodClean

LEMMA StressInvariant == Spec => [](TypeInv /\ LogInv /\ StressInv)
<1>1. Init => StressInv
  BY DEF Init, StressInv, StressCap, LastGoodClean
<1>2. TypeInv /\ LogInv /\ StressInv /\ [Next]_vars => StressInv'
  BY StressCapStep, LastGoodStep DEF StressInv
<1>. QED  BY <1>1, <1>2, LogInvariant, PTL DEF Spec

\* Once the canary has shown stress a search walks nothing larger than its largest
\* clean trial, but for the first setting; in every phase, and for any order of
\* stress, failures and clean trials.
THEOREM NoEscalationUnderStressHolds == Spec => []NoEscalationUnderStress
<1>1. TypeInv /\ LogInv /\ StressInv => NoEscalationUnderStress
  BY StressImplies DEF NoEscalationUnderStress, InTrial
<1>. QED  BY <1>1, StressInvariant, PTL
-----------------------------------------------------------------------------
(* The refinement: every step of a run is one that LoadGuard allows.       *)

\* A run searches, or measures what was requested, and under --try the setting of
\* a trial is one of those.
OneMode == Searching <=> Requested = <<>>
Asked == ~Searching /\ pc \in {"trial", "cool", "probe", "walk"} =>
           \E i \in DOMAIN Requested : cur = Requested[i]
AskedInv == OneMode /\ Asked

LEMMA AskedStep ==
  ASSUME TypeInv, AskedInv, [Next]_vars
  PROVE  AskedInv'
<1>. USE DEF ladder, runner, verdict
<1>1. Searching' <=> Searching
  BY DEF Next, RunStep, TrialStep, Terminated, Choose, EscalateStep, EscalateCap,
     EscalateVetoed, EscalateFailed, EscalateClean, BisectStep, BisectReturn, BisectEnd,
     SplitStep, SplitEnd, TryStep, TryEnd, ListReturn, Proceed, Skip, Interrupted,
     Exhausted, Admit, Cooldown, ProbeAborts, ProbeStressed, ProbeOk, WalkClean,
     TrialClean, TrialFailed, TransportError, FinalSkipped, FinalAsk, FinalProbe,
     ContextDone, vars, Searching
<1>2. CASE TryStep
  <2>1. at + 1 \in 1 .. Len(Requested) /\ cur' = Requested[at + 1]
    BY <1>2 DEF TryStep, Call, TypeInv, TypeOK
  <2>2. at + 1 \in DOMAIN Requested
    BY <2>1, ConstantsAssumption, LenProperties
  <2>. QED  BY <1>1, <2>1, <2>2 DEF AskedInv, OneMode, Asked
<1>3. CASE ~TryStep
  <2>1. ~Searching /\ pc' \in {"trial", "cool", "probe", "walk"} =>
          cur' = cur /\ pc \in {"trial", "cool", "probe", "walk"}
    BY <1>3 DEF Next, RunStep, TrialStep, Terminated, Choose, EscalateStep, EscalateCap,
       EscalateVetoed, EscalateFailed, EscalateClean, BisectStep, BisectReturn, BisectEnd,
       SplitStep, SplitEnd, TryEnd, ListReturn, Proceed, Call, Skip, Interrupted,
       Exhausted, Admit, Cooldown, ProbeAborts, ProbeStressed, ProbeOk, WalkClean,
       TrialClean, TrialFailed, TransportError, Return, Stop, FinalSkipped, FinalAsk,
       FinalProbe, ContextDone, vars, Searching
  <2>. QED  BY <1>1, <2>1 DEF AskedInv, OneMode, Asked
<1>. QED  BY <1>2, <1>3

\* Stress shows in one probe and stays; a run that is over stays as it is.
LEMMA StressShows ==
  ASSUME TypeInv, [Next]_vars
  PROVE  /\ stressed' = stressed \/ (stressed' = TRUE /\ pc = "probe" /\ pc' # "done")
         /\ pc = "done" => UNCHANGED vars
<1>1. stressed' = stressed \/ (stressed' = TRUE /\ pc = "probe" /\ pc' # "done")
  BY DEF Next, RunStep, TrialStep, Terminated, Choose, EscalateStep, EscalateCap,
     EscalateVetoed, EscalateFailed, EscalateClean, BisectStep, BisectReturn, BisectEnd,
     SplitStep, SplitEnd, TryStep, TryEnd, ListReturn, Proceed, Call, Skip, Interrupted,
     Exhausted, Admit, Cooldown, ProbeAborts, ProbeStressed, ProbeOk, WalkClean, Return,
     TrialClean, TrialFailed, TransportError, FinalSkipped, FinalAsk, FinalProbe,
     ContextDone, vars, runner
<1>2. pc = "done" => UNCHANGED vars
  BY DEF Next, RunStep, TrialStep, Terminated, Choose, EscalateStep, EscalateCap,
     EscalateVetoed, EscalateFailed, EscalateClean, BisectStep, BisectReturn, BisectEnd,
     SplitStep, SplitEnd, TryStep, TryEnd, ListReturn, Skip, Interrupted, AsksContext,
     Exhausted, Admit, Cooldown, ProbeAborts, ProbeStressed, ProbeOk, WalkClean,
     TrialClean, TrialFailed, TransportError, FinalSkipped, FinalAsk, FinalProbe,
     ContextDone
<1>. QED  BY <1>1, <1>2

\* The log of loads, entry by entry.
LEMMA LoadLogType ==
  ASSUME TypeOK
  PROVE  /\ LoadLog \in Seq([load : Nat, ok : BOOLEAN])
         /\ Len(LoadLog) = Len(trials) /\ Len(trials) \in Nat
         /\ DOMAIN LoadLog = 1 .. Len(trials) /\ DOMAIN trials = 1 .. Len(trials)
         /\ \A i \in DOMAIN trials : /\ LoadLog[i].load = Product(trials[i].s)
                                     /\ LoadLog[i].ok = trials[i].ok
<1>1. trials \in Seq(Trial) /\ Len(trials) \in Nat /\ DOMAIN trials = 1 .. Len(trials)
  BY LenProperties DEF TypeOK
<1>2. \A i \in DOMAIN trials : trials[i] \in Trial
  BY <1>1, ElementOfSeq
<1>3. \A i \in DOMAIN trials : Product(trials[i].s) \in Nat /\ trials[i].ok \in BOOLEAN
  BY <1>2, ProductType DEF Trial
<1>4. LoadLog \in [1 .. Len(trials) -> [load : Nat, ok : BOOLEAN]]
  BY <1>1, <1>3 DEF LoadLog
<1>. QED  BY <1>1, <1>4, SeqDef, LenProperties DEF LoadLog

\* What noting a trial does to the log of loads.
LEMMA LoadLogGrows ==
  ASSUME TypeOK, TypeOK', NEW ok \in BOOLEAN, NEW score \in Nat, NEW n \in 1 .. Repeats,
         NoteTrial(ok, score, n)
  PROVE  LoadLog' = Append(LoadLog, [load |-> Product(cur), ok |-> ok])
<1>. DEFINE e == [load |-> Product(cur), ok |-> ok]
            T == [load : Nat, ok : BOOLEAN]
<1>1. /\ Len(trials') = Len(trials) + 1
      /\ DOMAIN trials' = 1 .. Len(trials) + 1
      /\ \A i \in 1 .. Len(trials) : trials'[i] = trials[i]
      /\ trials'[Len(trials) + 1].s = cur
      /\ trials'[Len(trials) + 1].ok = ok
  BY NoteTrialEffect
<1>2. /\ LoadLog \in Seq(T) /\ Len(LoadLog) = Len(trials) /\ Len(trials) \in Nat
      /\ DOMAIN trials = 1 .. Len(trials)
  BY LoadLogType
<1>3. e \in T
  BY ProductType DEF TypeOK
<1>4. LoadLog' = [i \in 1 .. Len(trials) + 1 |->
                    [load |-> Product(trials'[i].s), ok |-> trials'[i].ok]]
  BY <1>1 DEF LoadLog, Product
<1>. HIDE DEF e, T
<1>5. /\ Append(LoadLog, e) \in Seq(T) /\ Len(Append(LoadLog, e)) = Len(trials) + 1
      /\ \A i \in 1 .. Len(trials) : Append(LoadLog, e)[i] = LoadLog[i]
      /\ Append(LoadLog, e)[Len(trials) + 1] = e
  BY <1>2, <1>3, AppendProperties
<1>6. \A i \in 1 .. Len(trials) + 1 : LoadLog'[i] = Append(LoadLog, e)[i]
  <2>. SUFFICES ASSUME NEW i \in 1 .. Len(trials) + 1
                PROVE  LoadLog'[i] = Append(LoadLog, e)[i]
    OBVIOUS
  <2>1. CASE i = Len(trials) + 1
    BY <1>1, <1>4, <1>5, <2>1 DEF e
  <2>2. CASE i \in 1 .. Len(trials)
    BY <1>1, <1>2, <1>4, <1>5, <2>2 DEF LoadLog
  <2>. QED  BY <1>2, <2>1, <2>2
<1>7. DOMAIN LoadLog' = 1 .. Len(trials) + 1 /\ DOMAIN Append(LoadLog, e) = 1 .. Len(trials) + 1
  BY <1>4, <1>5, LenProperties
<1>8. LoadLog' \in Seq(T) /\ Len(LoadLog') = Len(trials) + 1
  <2>1. \A i \in 1 .. Len(trials) + 1 : LoadLog'[i] \in T
    BY <1>5, <1>6, ElementOfSeq
  <2>2. LoadLog' \in [1 .. Len(trials) + 1 -> T]
    BY <1>4, <2>1
  <2>. QED  BY <1>2, <2>2, SeqDef, LenProperties
<1>. QED  BY <1>5, <1>6, <1>8, SeqEqual DEF e

\* The load of an open trial is admitted, new and, under stress, within what was clean.
LEMMA LoadAllowed ==
  ASSUME TypeInv, LogInv, StressInv, AskedInv, InTrial
  PROVE  /\ Product(cur) \in IF Requested = <<>> THEN 0 .. MaxProduct
                             ELSE {Product(Requested[i]) : i \in DOMAIN Requested}
         /\ Guard!Allowed(Product(cur))
         /\ MaxTrials > 0 => Len(LoadLog) < MaxTrials
<1>. DEFINE Admitted == IF Requested = <<>> THEN 0 .. MaxProduct
                        ELSE {Product(Requested[i]) : i \in DOMAIN Requested}
<1>t. TypeOK /\ Product(cur) \in Nat /\ ceiling \in Int /\ MaxProduct \in Int /\ pc # "done"
  BY ProductType, ConstantsAssumption DEF TypeInv, TypeOK, InTrial
<1>l. /\ Len(LoadLog) = Len(trials) /\ DOMAIN LoadLog = DOMAIN trials
      /\ \A i \in DOMAIN trials : LoadLog[i].load = Product(trials[i].s)
      /\ \A i \in DOMAIN trials : LoadLog[i].ok = trials[i].ok
  BY <1>t, LoadLogType
<1>1. Product(cur) < ceiling /\ (MaxTrials > 0 => Len(trials) < MaxTrials)
  BY DEF LogInv, CurrentIsNew
<1>2. ASSUME Searching  PROVE Product(cur) \in Admitted
  <2>1. Product(cur) \in 0 .. MaxProduct
    BY <1>t, <1>1, <1>2 DEF LogInv, CeilingWithinBudget
  <2>2. Requested = <<>>
    BY <1>2 DEF AskedInv, OneMode
  <2>. QED  BY <2>1, <2>2
<1>3. ASSUME ~Searching  PROVE Product(cur) \in Admitted
  <2>1. PICK i \in DOMAIN Requested : cur = Requested[i]
    BY <1>3 DEF AskedInv, Asked, InTrial
  <2>2. Requested # <<>>
    BY <1>3 DEF AskedInv, OneMode
  <2>3. Product(cur) = Product(Requested[i])
    BY <2>1
  <2>. QED  BY <2>2, <2>3
<1>4. \A i \in DOMAIN LoadLog : ~LoadLog[i].ok => Product(cur) < LoadLog[i].load
  <2>. SUFFICES ASSUME NEW i \in DOMAIN trials, ~trials[i].ok
                PROVE  Product(cur) < Product(trials[i].s)
    BY <1>l
  <2>1. ceiling <= Product(trials[i].s)
    BY <1>t DEF LogInv, CeilingBelowFailed, Failed
  <2>2. Product(trials[i].s) \in Nat
    <3>1. trials[i] \in Trial
      BY <1>t, ElementOfSeq, LenProperties DEF TypeOK
    <3>. QED  BY <3>1, ProductType DEF Trial
  <2>. QED  BY <1>t, <1>1, <2>1, <2>2
<1>5. stressed /\ Requested = <<>> =>
        \/ Product(cur) <= StartProduct
        \/ \E i \in DOMAIN LoadLog : LoadLog[i].ok /\ Product(cur) <= LoadLog[i].load
  <2>. SUFFICES ASSUME stressed, Requested = <<>>, ~(Product(cur) <= StartProduct)
                PROVE  \E i \in DOMAIN LoadLog : LoadLog[i].ok /\ Product(cur) <= LoadLog[i].load
    OBVIOUS
  <2>1. PICK i \in Clean : Product(cur) <= Product(trials[i].s)
    BY StressImplies DEF AskedInv, OneMode
  <2>2. i \in DOMAIN trials /\ trials[i].ok
    BY DEF Clean
  <2>. QED  BY <1>l, <2>1, <2>2
<1>. QED  BY <1>l, <1>1, <1>2, <1>3, <1>4, <1>5 DEF Guard!Allowed

\* A step of Search is a step of LoadGuard or leaves its variables alone.
LEMMA GuardStep ==
  ASSUME TypeInv, TypeInv', LogInv, StressInv, AskedInv, [Next]_vars
  PROVE  [Guard!Next]_(Guard!guardVars)
<1>1. /\ stressed' = stressed \/ (stressed' = TRUE /\ pc = "probe" /\ pc' # "done")
      /\ pc = "done" => UNCHANGED vars
      /\ stressed \in BOOLEAN
  BY StressShows DEF TypeInv, TypeOK
<1>2. CASE trials' = trials
  <2>1. LoadLog' = LoadLog
    BY <1>2 DEF LoadLog, Product
  <2>2. CASE pc = "done"
    BY <1>1, <2>2 DEF vars, runner, Guard!guardVars, LoadLog, Product
  <2>3. CASE pc # "done" /\ pc' = "done"
    <3>1. stressed' = stressed
      BY <1>1, <2>3
    <3>2. Guard!Close
      BY <2>1, <2>3, <3>1 DEF Guard!Close
    <3>. QED  BY <3>2 DEF Guard!Next
  <2>4. CASE pc # "done" /\ pc' # "done"
    <3>1. CASE stressed' = stressed
      BY <2>1, <2>4, <3>1 DEF Guard!guardVars
    <3>2. CASE stressed' = TRUE
      <4>1. Guard!Strain
        BY <2>1, <2>4, <3>2 DEF Guard!Strain
      <4>. QED  BY <4>1 DEF Guard!Next
    <3>. QED  BY <1>1, <3>1, <3>2
  <2>. QED  BY <2>2, <2>3, <2>4
<1>3. CASE Noted
  <2>1. PICK ok \in BOOLEAN, score \in Nat, n \in 1 .. Repeats :
          NoteTrial(ok, score, n) /\ InTrial
    BY <1>3 DEF Noted
  <2>2. LoadLog' = Append(LoadLog, [load |-> Product(cur), ok |-> ok])
    BY <2>1, LoadLogGrows DEF TypeInv
  <2>3. pc # "done" /\ (pc' = "done") \in BOOLEAN /\ stressed' \in {stressed, TRUE}
    BY <1>1, <2>1 DEF InTrial
  <2>4. Guard!Try
    BY <2>1, <2>2, <2>3, LoadAllowed DEF Guard!Try
  <2>. QED  BY <2>4 DEF Guard!Next
<1>4. CASE Condemned
  <2>1. pc # "done" /\ pc' = "done" /\ stressed' = stressed
    BY <1>1, <1>4 DEF Condemned
  <2>2. /\ DOMAIN trials' = DOMAIN trials /\ DOMAIN trials = 1 .. Len(trials)
        /\ Len(trials') = Len(trials) /\ Len(trials) \in Nat /\ Len(LoadLog) = Len(trials)
        /\ \A i \in DOMAIN trials : /\ trials'[i].s = trials[i].s
                                    /\ i # Len(trials) => trials'[i] = trials[i]
        /\ trials # <<>> => ~trials'[Len(trials)].ok
    BY <1>4, CondemnEffect, LoadLogType DEF TypeInv
  <2>3. CASE trials = <<>>
    <3>1. LoadLog' = LoadLog
      BY <2>2, <2>3 DEF LoadLog
    <3>2. Guard!Close
      BY <2>1, <3>1 DEF Guard!Close
    <3>. QED  BY <3>2 DEF Guard!Next
  <2>4. CASE trials # <<>>
    <3>n. Len(trials) \in DOMAIN trials /\ LoadLog # <<>>
      <4>1. trials \in Seq(Trial) /\ LoadLog \in Seq([load : Nat, ok : BOOLEAN])
        BY LoadLogType DEF TypeInv, TypeOK
      <4>2. Len(trials) # 0
        BY <2>4, <4>1, EmptySeq
      <4>3. LoadLog # <<>>
        BY <2>2, <4>2, EmptySeq
      <4>. QED  BY <2>2, <4>2, <4>3
    <3>b. trials'[Len(trials)].ok = FALSE
      <4>0. trials' \in Seq(Trial) /\ Len(trials) \in 1 .. Len(trials')
        BY <2>2, <3>n DEF TypeInv, TypeOK
      <4>1. trials'[Len(trials)] \in Trial
        BY <4>0, ElementOfSeq
      <4>. QED  BY <2>2, <2>4, <4>1 DEF Trial
    <3>1. LoadLog' = [LoadLog EXCEPT ![Len(LoadLog)].ok = FALSE]
      <4>1. LoadLog' = [i \in DOMAIN trials |->
                          [load |-> Product(trials'[i].s), ok |-> trials'[i].ok]]
        BY <2>2 DEF LoadLog, Product
      <4>2. \A i \in DOMAIN trials :
              LoadLog'[i] = IF i = Len(trials) THEN [LoadLog[i] EXCEPT !.ok = FALSE]
                                               ELSE LoadLog[i]
        BY <2>2, <3>b, <4>1 DEF LoadLog
      <4>. QED  BY <2>2, <4>1, <4>2 DEF LoadLog
    <3>2. Guard!Close
      BY <2>1, <3>n, <3>1 DEF Guard!Close
    <3>. QED  BY <3>2 DEF Guard!Next
  <2>. QED  BY <2>3, <2>4
<1>. QED  BY <1>2, <1>3, <1>4, LogShape

\* Every run of Search, read as a log of loads, is one that LoadGuard allows: no phase,
\* veto, partial trial, abort or late verdict of the canary breaks the promise.
THEOREM KeepsPromiseHolds == Spec => KeepsPromise
<1>1. Init => AskedInv
  BY DEF Init, AskedInv, OneMode, Asked, Searching
<1>2. AskedInv /\ TypeInv /\ [Next]_vars => AskedInv'
  BY AskedStep
<1>3. Init => Guard!Init
  BY DEF Init, Guard!Init, LoadLog
<1>4. TypeInv /\ TypeInv' /\ LogInv /\ StressInv /\ AskedInv /\ [Next]_vars
        => [Guard!Next]_(Guard!guardVars)
  BY GuardStep
<1>. QED  BY <1>1, <1>2, <1>3, <1>4, StressInvariant, PTL DEF Spec, KeepsPromise, Guard!Spec
-----------------------------------------------------------------------------
(* What the phases of a search rely on and leave behind: the ladder, the   *)
(* bracket of the bisection, the sweep of the split.                       *)

\* trial() was called, and has not returned; or has returned just now.
Open == pc \in {"trial", "cool", "probe", "walk"}
InCall == Open \/ pc = "return"

-----------------------------------------------------------------------------
(* What a step leaves alone.                                               *)

\* The loops of Run and Measure change no field of the Runner.
LEMMA ChooseKeeps ==
  ASSUME Choose
  PROVE  /\ UNCHANGED <<runs, got, runner, verdict, noted, lost, ctx>>
         /\ pc \in {"next", "return"} /\ pc' \in {"next", "trial", "final"}
BY DEF Choose, EscalateStep, EscalateCap, EscalateVetoed, EscalateFailed, EscalateClean,
   BisectStep, BisectReturn, BisectEnd, SplitStep, SplitEnd, TryStep, TryEnd, ListReturn,
   Proceed, Call, runner, verdict

\* A trial, and the final probe, leave the loops' variables alone.
LEMMA OtherKeeps ==
  ASSUME [Next]_vars, ~Choose
  PROVE  /\ UNCHANGED <<phase, ladder, cur>>
         /\ Open' => Open
         /\ InCall' => InCall
         /\ pc' = "next" => pc = "next"
         /\ pc' \in {"final", "finalProbe"} => pc \in {"final", "finalProbe"}
         /\ pc = "done" => pc' = "done"
BY DEF Next, RunStep, TrialStep, Terminated, Skip, Interrupted, AsksContext, Exhausted,
   Admit, Cooldown, ProbeAborts, ProbeStressed, ProbeOk, WalkClean, TrialClean,
   TrialFailed, TransportError, Return, Stop, FinalSkipped, FinalAsk, FinalProbe, Proceed,
   ContextDone, vars, Open, InCall

\* A step appends to the log or turns an entry of it into a failed one; only the
\* last step of a run does the latter.
LEMMA LogKeeps ==
  ASSUME TypeInv, LogInv, [Next]_vars
  PROVE  /\ \A i \in DOMAIN trials : i \in DOMAIN trials' /\ trials'[i].s = trials[i].s
         /\ \A i \in Failed : i \in Failed'
         /\ pc' # "done" => \A i \in DOMAIN trials : trials'[i] = trials[i]
<1>1. CASE trials' = trials
  BY <1>1 DEF Failed
<1>2. CASE Noted
  <2>1. PICK ok \in BOOLEAN, score \in Nat, n \in 1 .. Repeats : NoteTrial(ok, score, n)
    BY <1>2 DEF Noted
  <2>2. /\ DOMAIN trials' = 1 .. Len(trials) + 1 /\ DOMAIN trials = 1 .. Len(trials)
        /\ \A j \in 1 .. Len(trials) : trials'[j] = trials[j]
        /\ Len(trials) \in Nat
    BY <2>1, NoteTrialEffect DEF TypeInv
  <2>. QED  BY <2>2 DEF Failed
<1>3. CASE Condemned
  <2>1. pc' = "done"
    BY <1>3 DEF Condemned
  <2>. QED  BY <1>3, <2>1, CondemnEffect DEF Failed
<1>. QED  BY <1>1, <1>2, <1>3, LogShape

\* What was measured stays in the log while the run goes on.
LEMMA MeasuredStays ==
  ASSUME TypeInv, LogInv, [Next]_vars, pc' # "done", NEW r \in Nat, NEW ok \in BOOLEAN,
         Measured(r, ok)
  PROVE  Measured(r, ok)'
<1>1. PICK i \in DOMAIN trials : trials[i].s = [r |-> r, v |-> V0] /\ trials[i].ok = ok
  BY DEF Measured
<1>2. i \in DOMAIN trials' /\ trials'[i] = trials[i]
  BY LogKeeps
<1>. QED  BY <1>1, <1>2 DEF Measured, V0
-----------------------------------------------------------------------------
(* The ladder.                                                             *)

\* A power of two doubles, or wraps to 0.
Rung(n) == n > 0 /\ n < RepsModulus /\ \E q \in Nat : n * q = RepsModulus

LEMMA Doubling ==
  ASSUME NEW n \in Nat, Rung(n)
  PROVE  \/ (2 * n) % RepsModulus = 0
         \/ (2 * n) % RepsModulus = 2 * n /\ Rung(2 * n)
<1>m. RepsModulus \in Nat \ {0}
  BY ConstantsAssumption
<1>1. PICK q \in Nat : n * q = RepsModulus
  BY DEF Rung
<1>2. q \in 1 .. RepsModulus /\ n \in 1 .. RepsModulus /\ q # 1
  <2>1. q # 0
    BY <1>1, <1>m
  <2>2. q <= n * q
    BY <2>1 DEF Rung
  <2>. QED  BY <1>1, <1>m, <2>1, <2>2 DEF Rung
<1>3. q % 2 = 0
  BY <1>1, <1>2, ModulusAssumption
<1>4. PICK p \in Nat : q = 2 * p
  <2>1. q \div 2 \in Nat /\ q = 2 * (q \div 2)
    BY <1>2, <1>3
  <2>. QED  BY <2>1
<1>5. (2 * n) * p = RepsModulus
  BY <1>1, <1>4
<1>6. CASE p = 1
  BY <1>5, <1>6, <1>m
<1>7. CASE p # 1
  <2>1. p >= 2
    BY <1>2, <1>4, <1>7
  <2>2. (2 * n) * p >= (2 * n) * 2
    BY <2>1
  <2>3. 2 * n < RepsModulus
    BY <1>5, <1>m, <2>2 DEF Rung
  <2>. QED  BY <1>5, <1>m, <2>3 DEF Rung
<1>. QED  BY <1>6, <1>7

LEMMA StartIsRung == Rung(Start.r)
<1>m. RepsModulus \in Nat /\ RepsModulus > 2
  BY ConstantsAssumption, ModulusAssumption DEF Start
<1>1. 1 * RepsModulus = RepsModulus /\ RepsModulus \in 1 .. RepsModulus /\ 1 \in 1 .. RepsModulus
  BY <1>m
<1>2. RepsModulus % 2 = 0
  BY <1>m, <1>1, ModulusAssumption
<1>3. RepsModulus \div 2 \in Nat /\ 2 * (RepsModulus \div 2) = RepsModulus
  BY <1>m, <1>2
<1>. QED  BY <1>m, <1>3 DEF Rung, Start
-----------------------------------------------------------------------------
(* The bracket.                                                            *)

LadderInv ==
  /\ reps = 0 \/ Rung(reps)
  /\ phase = "escalate" => firstBadR = 0 /\ (reps = 0 \/ lastGoodR < reps)

\* What trial() is called with, from the loop that calls it.
CallInv ==
  /\ InCall /\ phase = "escalate" => cur = [r |-> reps, v |-> V0]
  /\ InCall /\ phase = "bisect" => lastGoodR < cur.r /\ cur.r < firstBadR /\ cur.v = V0
  /\ InCall /\ phase = "split" =>
       /\ at \in SplitCandidates /\ lastGoodR > 0 /\ cur = SplitSetting(at)

\* A trial that returned a result is the last of the log, with that result.
ReturnInv ==
  pc = "return" /\ got # "nil" =>
    /\ Len(trials) \in DOMAIN trials /\ trials[Len(trials)].s = cur
    /\ trials[Len(trials)].ok = (got = "ok")
    /\ cur.r > 0
    /\ got = "failed" => ceiling = Product(cur)

BracketInv ==
  pc # "done" =>
    /\ lastGoodR > 0 => Measured(lastGoodR, TRUE)
    /\ firstBadR > 0 => lastGoodR < firstBadR /\ Measured(firstBadR, FALSE)

PhaseInv == LadderInv /\ CallInv /\ ReturnInv /\ BracketInv

LEMMA PhaseInit == Init => PhaseInv
<1>. SUFFICES ASSUME Init  PROVE PhaseInv
  OBVIOUS
<1>1. LadderInv
  BY StartIsRung DEF Init, LadderInv, Rung, Start
<1>2. CallInv /\ ReturnInv /\ BracketInv
  BY DEF Init, CallInv, InCall, Open, ReturnInv, BracketInv
<1>. QED  BY <1>1, <1>2 DEF PhaseInv

LEMMA LadderStep ==
  ASSUME TypeInv, PhaseInv, [Next]_vars
  PROVE  LadderInv'
<1>. USE DEF PhaseInv, Proceed, Call
<1>t. reps \in Nat /\ lastGoodR \in Nat /\ firstBadR \in Nat
  BY DEF TypeInv, TypeOK
<1>1. CASE EscalateClean
  <2>1. reps = cur.r /\ reps > 0
    BY <1>1 DEF EscalateClean, CallInv, ReturnInv, InCall
  <2>2. Rung(reps)
    BY <2>1 DEF LadderInv
  <2>3. firstBadR' = firstBadR /\ firstBadR = 0 /\ lastGoodR' = reps
    BY <1>1 DEF EscalateClean, LadderInv
  <2>4. CASE reps' = reps /\ phase' = "bisect"
    BY <2>2, <2>4 DEF LadderInv, Rung
  <2>5. CASE reps' = (2 * reps) % RepsModulus
    <3>1. reps' = 0 \/ (reps' = 2 * reps /\ Rung(2 * reps))
      BY <1>t, <2>2, <2>5, Doubling
    <3>2. reps' = 0 \/ (Rung(reps') /\ reps < reps')
      BY <1>t, <2>1, <3>1
    <3>3. reps' = 0 \/ Rung(reps)'
      BY <3>2 DEF Rung
    <3>. QED  BY <2>3, <3>2, <3>3 DEF LadderInv
  <2>. QED  BY <1>1, <2>4, <2>5 DEF EscalateClean
<1>2. CASE ~EscalateClean
  <2>1. /\ reps' = reps
        /\ phase' = "escalate" =>
             phase = "escalate" /\ lastGoodR' = lastGoodR /\ firstBadR' = firstBadR
    <3>1. CASE Choose
      BY <1>2, <3>1 DEF Choose, EscalateStep, EscalateCap, EscalateVetoed, EscalateFailed,
         BisectStep, BisectReturn, BisectEnd, SplitStep, SplitEnd, TryStep, TryEnd,
         ListReturn, ladder
    <3>2. CASE ~Choose
      BY <3>2, OtherKeeps DEF ladder
    <3>. QED  BY <3>1, <3>2
  <2>. QED  BY <2>1 DEF LadderInv, Rung
<1>. QED  BY <1>1, <1>2

LEMMA CallStep ==
  ASSUME TypeInv, PhaseInv, [Next]_vars
  PROVE  CallInv'
<1>. USE DEF PhaseInv
<1>t. /\ reps \in Nat /\ lastGoodR \in Nat /\ firstBadR \in Nat
      /\ V0' = V0 /\ SplitCandidates' = SplitCandidates
  BY DEF TypeInv, TypeOK, V0, SplitCandidates
<1>1. CASE EscalateStep
  <2>1. phase' = "escalate" /\ cur' = [r |-> reps, v |-> V0] /\ reps' = reps
    BY <1>1 DEF EscalateStep, Call, ladder
  <2>. QED  BY <1>t, <2>1 DEF CallInv
<1>2. CASE BisectStep
  <2>1. /\ phase' = "bisect" /\ cur' = [r |-> (lastGoodR + firstBadR) \div 2, v |-> V0]
        /\ lastGoodR' = lastGoodR /\ firstBadR' = firstBadR
    BY <1>2 DEF BisectStep, Call, ladder
  <2>2. firstBadR - lastGoodR > 1
    BY <1>t, <1>2 DEF BisectStep, Wide, AtLeast
  <2>3. lastGoodR < (lastGoodR + firstBadR) \div 2 /\ (lastGoodR + firstBadR) \div 2 < firstBadR
    BY <1>t, <2>2
  <2>. QED  BY <1>t, <2>1, <2>3 DEF CallInv
<1>3. CASE SplitStep
  <2>1. PICK v \in SplitLeft : at' = v /\ cur' = SplitSetting(v)
    BY <1>3 DEF SplitStep, Call
  <2>2. phase' = "split" /\ lastGoodR' = lastGoodR
    BY <1>3 DEF SplitStep
  <2>3. v \in SplitCandidates /\ lastGoodR > 0
    BY DEF SplitLeft, SplitFits
  <2>4. SplitSetting(at)' = SplitSetting(v)
    BY <1>t, <2>1, <2>2 DEF SplitSetting, SplitReps, SplitQuotient
  <2>. QED  BY <1>t, <2>1, <2>2, <2>3, <2>4 DEF CallInv
<1>4. CASE Choose /\ ~EscalateStep /\ ~BisectStep /\ ~SplitStep
  <2>1. ~InCall' \/ phase' = "try"
    BY <1>4 DEF Choose, EscalateCap, EscalateVetoed, EscalateFailed, EscalateClean,
       BisectReturn, BisectEnd, SplitEnd, TryStep, TryEnd, ListReturn, Proceed,
       InCall, Open
  <2>. QED  BY <2>1 DEF CallInv
<1>5. CASE ~Choose
  BY <1>t, <1>5, OtherKeeps DEF CallInv, ladder, SplitSetting, SplitReps, SplitQuotient
<1>. QED  BY <1>1, <1>2, <1>3, <1>4, <1>5

LEMMA ReturnStep ==
  ASSUME TypeInv, LogInv, PhaseInv, [Next]_vars
  PROVE  ReturnInv'
<1>. USE DEF PhaseInv, runner, verdict, Return, Stop
<1>t. TypeOK
  BY DEF TypeInv
<1>1. CASE TrialClean
  <2>1. PICK score \in Scores : NoteTrial(TRUE, score, runs + 1)
    BY <1>1 DEF TrialClean
  <2>2. score \in Nat /\ runs + 1 \in 1 .. Repeats /\ TRUE \in BOOLEAN
    BY <1>t, ConstantsAssumption DEF TypeOK
  <2>3. /\ Len(trials') \in DOMAIN trials' /\ trials'[Len(trials')].s = cur
        /\ trials'[Len(trials')].ok = TRUE
    <3>1. /\ Len(trials') = Len(trials) + 1 /\ DOMAIN trials' = 1 .. Len(trials) + 1
          /\ Len(trials) \in Nat /\ trials'[Len(trials) + 1].s = cur
          /\ trials'[Len(trials) + 1].ok = TRUE
      BY <1>t, <2>1, <2>2, NoteTrialEffect, Zenon
    <3>. QED  BY <3>1
  <2>4. cur' = cur /\ cur.r > 0 /\ got' = "ok"
    BY <1>1 DEF TrialClean
  <2>. QED  BY <2>3, <2>4 DEF ReturnInv
<1>2. CASE TrialFailed
  <2>1. runs + 1 \in 1 .. Repeats /\ 0 \in Nat /\ FALSE \in BOOLEAN
    BY <1>t, ConstantsAssumption DEF TypeOK
  <2>2. NoteTrial(FALSE, 0, runs + 1)
    BY <1>2 DEF TrialFailed
  <2>3. /\ Len(trials') \in DOMAIN trials' /\ trials'[Len(trials')].s = cur
        /\ trials'[Len(trials')].ok = FALSE
    <3>1. /\ Len(trials') = Len(trials) + 1 /\ DOMAIN trials' = 1 .. Len(trials) + 1
          /\ Len(trials) \in Nat /\ trials'[Len(trials) + 1].s = cur
          /\ trials'[Len(trials) + 1].ok = FALSE
      BY <1>t, <2>1, <2>2, NoteTrialEffect, Zenon
    <3>. QED  BY <3>1
  <2>4. /\ cur' = cur /\ cur.r > 0 /\ got' = "failed" /\ pc = "walk"
        /\ ceiling' = AtMost(ceiling, Product(cur))
    BY <1>2 DEF TrialFailed, CeilingAfterFailure
  <2>5. ceiling' = Product(cur)
    <3>1. Product(cur) < ceiling /\ ceiling \in Int /\ Product(cur) \in Nat
      BY <1>t, <2>4, ProductType DEF LogInv, CurrentIsNew, InTrial, TypeOK
    <3>. QED  BY <2>4, <3>1 DEF AtMost
  <2>. QED  BY <2>3, <2>4, <2>5 DEF ReturnInv, Product
<1>3. CASE ~TrialClean /\ ~TrialFailed
  <2>1. pc' = "return" /\ got' # "nil" =>
          /\ pc = "return" /\ got # "nil"
          /\ trials' = trials /\ cur' = cur /\ got' = got /\ ceiling' = ceiling
    BY <1>3, ChooseKeeps DEF Next, RunStep, TrialStep, Terminated, Skip, Interrupted,
       AsksContext, Exhausted, Admit, Cooldown, ProbeAborts, ProbeStressed, ProbeOk,
       WalkClean, TransportError, FinalSkipped, FinalAsk, FinalProbe, Proceed,
       ContextDone, vars
  <2>. QED  BY <2>1 DEF ReturnInv, Product
<1>. QED  BY <1>1, <1>2, <1>3

\* A trial of the ladder's width that returned a result was measured with it.
LEMMA ReturnMeasured ==
  ASSUME TypeInv, PhaseInv, pc = "return", got # "nil", phase \in {"escalate", "bisect"}
  PROVE  cur.r \in Nat \ {0} /\ Measured(cur.r, got = "ok")
<1>1. cur \in Setting /\ cur.v = V0
  BY DEF TypeInv, TypeOK, PhaseInv, CallInv, InCall
<1>2. cur = [r |-> cur.r, v |-> V0] /\ cur.r \in Nat
  BY <1>1 DEF Setting
<1>. QED  BY <1>2 DEF PhaseInv, ReturnInv, Measured

LEMMA BracketStep ==
  ASSUME TypeInv, LogInv, PhaseInv, [Next]_vars
  PROVE  BracketInv'
<1>. USE DEF PhaseInv
<1>. DEFINE After(r, ok) == \E i \in DOMAIN trials' :
                             trials'[i].s = [r |-> r, v |-> V0] /\ trials'[i].ok = ok
<1>. SUFFICES ASSUME pc' # "done"
              PROVE  /\ lastGoodR' > 0 => After(lastGoodR', TRUE)
                     /\ firstBadR' > 0 => lastGoodR' < firstBadR' /\ After(firstBadR', FALSE)
  BY DEF BracketInv, Measured, V0
<1>t. reps \in Nat /\ lastGoodR \in Nat /\ firstBadR \in Nat
  BY DEF TypeInv, TypeOK
<1>d. pc # "done"
  BY ChooseKeeps, OtherKeeps
<1>k. \A r \in Nat, ok \in BOOLEAN : Measured(r, ok) => After(r, ok)
  BY MeasuredStays DEF Measured, V0
<1>. HIDE DEF After
<1>1. CASE EscalateFailed
  <2>1. firstBadR' = reps /\ lastGoodR' = lastGoodR /\ reps = cur.r /\ reps > 0
    BY <1>1 DEF EscalateFailed, CallInv, ReturnInv, InCall
  <2>2. Measured(reps, FALSE)
    BY <1>1, <2>1, ReturnMeasured DEF EscalateFailed
  <2>3. lastGoodR < reps
    BY <1>1, <2>1 DEF EscalateFailed, LadderInv
  <2>. QED  BY <1>t, <1>d, <1>k, <2>1, <2>2, <2>3 DEF BracketInv
<1>2. CASE EscalateClean
  <2>1. firstBadR' = 0 /\ lastGoodR' = reps /\ reps = cur.r
    BY <1>2 DEF EscalateClean, CallInv, InCall, LadderInv
  <2>2. Measured(reps, TRUE)
    BY <1>2, <2>1, ReturnMeasured DEF EscalateClean
  <2>3. After(lastGoodR', TRUE)
    BY <1>t, <1>k, <2>1, <2>2, Zenon
  <2>4. ~(firstBadR' > 0)
    BY <2>1
  <2>. QED  BY <2>3, <2>4, Zenon
<1>3. CASE BisectReturn
  <2>1. /\ got # "nil" /\ lastGoodR < cur.r /\ cur.r < firstBadR /\ cur.r \in Nat
        /\ Measured(cur.r, got = "ok")
    BY <1>3, ReturnMeasured DEF BisectReturn, CallInv, InCall
  <2>2. CASE got = "ok"
    <3>1. lastGoodR' = cur.r /\ firstBadR' = firstBadR
      BY <1>3, <2>2 DEF BisectReturn, Narrowed
    <3>2. Measured(cur.r, TRUE)
      BY <2>1, <2>2
    <3>. QED  BY <1>t, <1>d, <1>k, <2>1, <3>1, <3>2 DEF BracketInv
  <2>3. CASE got # "ok"
    <3>1. lastGoodR' = lastGoodR /\ firstBadR' = cur.r
      BY <1>3, <2>3 DEF BisectReturn, Narrowed
    <3>2. Measured(cur.r, FALSE)
      BY <2>1, <2>3
    <3>. QED  BY <1>t, <1>d, <1>k, <2>1, <3>1, <3>2 DEF BracketInv
  <2>. QED  BY <2>2, <2>3
<1>4. CASE ~EscalateFailed /\ ~EscalateClean /\ ~BisectReturn
  <2>1. lastGoodR' = lastGoodR /\ firstBadR' = firstBadR
    <3>1. CASE Choose
      BY <1>4, <3>1 DEF Choose, EscalateStep, EscalateCap, EscalateVetoed, BisectStep,
         BisectEnd, SplitStep, SplitEnd, TryStep, TryEnd, ListReturn, ladder
    <3>2. CASE ~Choose
      BY <3>2, OtherKeeps DEF ladder
    <3>. QED  BY <3>1, <3>2
  <2>. QED  BY <1>t, <1>d, <1>k, <2>1 DEF BracketInv
<1>. QED  BY <1>1, <1>2, <1>3, <1>4

LEMMA PhaseInvariant == Spec => [](TypeInv /\ LogInv /\ StressInv /\ PhaseInv)
<1>1. TypeInv /\ LogInv /\ PhaseInv /\ [Next]_vars => PhaseInv'
  BY LadderStep, CallStep, ReturnStep, BracketStep DEF PhaseInv
<1>. QED  BY <1>1, PhaseInit, StressInvariant, PTL DEF Spec

\* While the bisection narrows, both ends of its bracket were measured, the lower one
\* clean and the upper one failed; a wrapped ladder never becomes an end of it.
THEOREM BracketHolds == Spec => []Bracket
<1>1. PhaseInv => Bracket
  BY DEF PhaseInv, BracketInv, Bracket
<1>. QED  BY <1>1, PhaseInvariant, PTL
-----------------------------------------------------------------------------
(* The split.                                                              *)

\* An open trial of the split is within the product of the ladder's last clean step.
LEMMA SplitBounded ==
  ASSUME TypeInv, PhaseInv, InCall, phase = "split"
  PROVE  Product(cur) <= lastGoodR * V0 /\ lastGoodR > 0
<1>1. at \in Nat \ {0} /\ lastGoodR > 0 /\ cur = [r |-> SplitReps(at), v |-> at]
  BY CandidatesType DEF PhaseInv, CallInv, SplitSetting
<1>. QED  BY <1>1, SplitDivides DEF Product, TypeInv

\* The split walks nothing above the product of a clean trial of the log, whatever it
\* divides that product by.
THEOREM SplitWithinCleanHolds == Spec => []SplitWithinClean
<1>1. ASSUME TypeInv, PhaseInv, phase = "split", pc = "walk"
      PROVE  \E i \in Clean : Product(cur) <= Product(trials[i].s)
  <2>1. Product(cur) <= lastGoodR * V0 /\ lastGoodR > 0
    BY <1>1, SplitBounded DEF InCall, Open
  <2>2. Measured(lastGoodR, TRUE)
    BY <1>1, <2>1 DEF PhaseInv, BracketInv
  <2>3. PICK i \in DOMAIN trials : trials[i].s = [r |-> lastGoodR, v |-> V0] /\ trials[i].ok
    BY <2>2, Zenon DEF Measured
  <2>4. i \in Clean /\ Product(trials[i].s) = lastGoodR * V0
    BY <2>3 DEF Clean, Product
  <2>. QED  BY <2>1, <2>4
<1>2. TypeInv /\ PhaseInv => SplitWithinClean
  BY <1>1 DEF SplitWithinClean
<1>. QED  BY <1>2, PhaseInvariant, PTL
-----------------------------------------------------------------------------
(* Why only stress ends the bisection early.                               *)

\* While there is no stress, nothing lies between the ends of the bracket: the
\* ceiling is no lower than its upper end, and what was measured is outside of it.
CeilingAtBracket ==
  phase = "bisect" /\ firstBadR > 0 /\ ~stressed /\ pc # "done"
    /\ ~(pc = "return" /\ got = "failed")
  => ceiling >= firstBadR * V0

\* The trial of cur passed the checks that open it, or has returned.
Begun == InTrial \/ pc = "return"

Untried ==
  pc # "done" /\ (phase = "escalate" \/ (phase = "bisect" /\ firstBadR > 0)) =>
    \A s \in measured :
      \/ s.r <= lastGoodR
      \/ firstBadR > 0 /\ s.r >= firstBadR
      \/ s = cur /\ Begun

\* So a trial of the bisection that was not made was vetoed.
VetoInv == phase = "bisect" /\ pc = "return" /\ got = "nil" => stressed

BisectInv == CeilingAtBracket /\ Untried /\ VetoInv /\ BisectConverges

LEMMA CeilingStep ==
  ASSUME TypeInv, LogInv, PhaseInv, BisectInv, [Next]_vars
  PROVE  CeilingAtBracket'
<1>. USE DEF PhaseInv, BisectInv, ladder, runner, verdict
<1>. SUFFICES ASSUME phase' = "bisect", firstBadR' > 0, ~stressed', pc' # "done",
                     ~(pc' = "return" /\ got' = "failed")
              PROVE  ceiling' >= firstBadR' * V0
  BY DEF CeilingAtBracket, V0
<1>t. /\ ceiling \in Int /\ firstBadR \in Nat /\ reps \in Nat /\ V0 \in Nat \ {0}
      /\ cur \in Setting /\ Product(cur) = cur.r * cur.v
  BY V0Type DEF TypeInv, TypeOK, Product
<1>s. ~stressed
  BY StressShows DEF TypeInv, TypeOK
<1>1. CASE EscalateFailed
  <2>1. /\ pc = "return" /\ got = "failed" /\ phase = "escalate"
        /\ firstBadR' = reps /\ ceiling' = ceiling
    BY <1>1 DEF EscalateFailed, Proceed
  <2>2. ceiling = Product(cur) /\ cur = [r |-> reps, v |-> V0]
    BY <2>1 DEF CallInv, ReturnInv, InCall
  <2>. QED  BY <1>t, <2>1, <2>2
<1>2. CASE BisectReturn
  <2>1. pc = "return" /\ phase = "bisect" /\ got # "nil" /\ ceiling' = ceiling
    BY <1>2 DEF BisectReturn, Proceed
  <2>2. CASE got = "ok"
    <3>1. firstBadR' = firstBadR
      BY <1>2, <2>2 DEF BisectReturn, Narrowed
    <3>. QED  BY <1>s, <2>1, <2>2, <3>1 DEF CeilingAtBracket
  <2>3. CASE got = "failed"
    <3>1. firstBadR' = cur.r
      BY <1>2, <2>3 DEF BisectReturn, Narrowed
    <3>2. ceiling = Product(cur) /\ cur.v = V0
      BY <2>1, <2>3 DEF CallInv, ReturnInv, InCall
    <3>. QED  BY <1>t, <2>1, <3>1, <3>2
  <2>. QED  BY <2>1, <2>2, <2>3 DEF TypeInv, TypeOK
<1>3. CASE Choose /\ ~EscalateFailed /\ ~BisectReturn
  <2>1. /\ firstBadR' = firstBadR /\ ceiling' = ceiling
        /\ phase = "bisect" \/ (phase = "escalate" /\ firstBadR = 0)
        /\ pc # "done" /\ (pc = "return" => got = "nil" \/ phase # "bisect")
    BY <1>3 DEF Choose, EscalateStep, EscalateCap, EscalateVetoed, EscalateClean,
       BisectStep, BisectEnd, SplitStep, SplitEnd, TryStep, TryEnd, ListReturn,
       Proceed, Call, LadderInv
  <2>. QED  BY <1>s, <2>1 DEF CeilingAtBracket
<1>4. CASE TrialFailed
  BY <1>4 DEF TrialFailed, Return
<1>5. CASE ~Choose /\ ~TrialFailed
  <2>1. phase = "bisect" /\ firstBadR' = firstBadR /\ pc # "done"
    BY <1>5, OtherKeeps
  <2>2. /\ ceiling' = ceiling
        /\ pc = "return" /\ got = "failed" => pc' = "return" /\ got' = "failed"
    BY <1>5 DEF Next, RunStep, TrialStep, Terminated, Skip, Interrupted, AsksContext,
       Exhausted, Admit, Cooldown, ProbeAborts, ProbeStressed, ProbeOk, WalkClean,
       TrialClean, TransportError, FinalSkipped, FinalAsk, FinalProbe, Proceed,
       ContextDone, vars
  <2>. QED  BY <1>s, <2>1, <2>2 DEF CeilingAtBracket
<1>. QED  BY <1>1, <1>2, <1>3, <1>4, <1>5

LEMMA UntriedStep ==
  ASSUME TypeInv, LogInv, PhaseInv, BisectInv, [Next]_vars
  PROVE  Untried'
<1>. USE DEF PhaseInv, BisectInv, ladder, runner, verdict
<1>. SUFFICES ASSUME pc' # "done",
                     phase' = "escalate" \/ (phase' = "bisect" /\ firstBadR' > 0),
                     NEW s \in measured'
              PROVE  \/ s.r <= lastGoodR'
                     \/ firstBadR' > 0 /\ s.r >= firstBadR'
                     \/ s = cur' /\ Begun'
  BY DEF Untried
<1>t. /\ lastGoodR \in Nat /\ firstBadR \in Nat /\ reps \in Nat /\ cur \in Setting
      /\ s \in Setting /\ s.r \in Nat
  BY TypeStep DEF TypeInv, TypeOK, Setting
<1>d. pc # "done"
  BY ChooseKeeps, OtherKeeps
<1>1. CASE EscalateFailed
  <2>1. /\ measured' = measured /\ firstBadR' = reps /\ lastGoodR' = lastGoodR
        /\ phase = "escalate" /\ firstBadR = 0 /\ cur.r = reps /\ reps > 0
    BY <1>1 DEF EscalateFailed, Proceed, LadderInv, CallInv, ReturnInv, InCall
  <2>2. s.r <= lastGoodR \/ s = cur
    BY <1>d, <2>1 DEF Untried
  <2>. QED  BY <1>t, <2>1, <2>2
<1>2. CASE EscalateClean
  <2>1. /\ measured' = measured /\ lastGoodR' = reps
        /\ phase = "escalate" /\ firstBadR = 0 /\ cur.r = reps /\ lastGoodR < reps
    BY <1>2 DEF EscalateClean, Proceed, LadderInv, CallInv, ReturnInv, InCall
  <2>2. s.r <= lastGoodR \/ s = cur
    BY <1>d, <2>1 DEF Untried
  <2>. QED  BY <1>t, <2>1, <2>2
<1>3. CASE BisectReturn
  <2>1. /\ measured' = measured /\ phase = "bisect" /\ firstBadR > 0
        /\ lastGoodR < cur.r /\ cur.r < firstBadR /\ cur.r \in Nat
        /\ \/ lastGoodR' = cur.r /\ firstBadR' = firstBadR
           \/ lastGoodR' = lastGoodR /\ firstBadR' = cur.r
    <3>1. phase = "bisect" /\ InCall /\ measured' = measured
      BY <1>3 DEF BisectReturn, Proceed, InCall
    <3>2. cur.r \in Nat /\ lastGoodR < cur.r /\ cur.r < firstBadR
      BY <1>t, <3>1 DEF CallInv, Setting
    <3>. QED  BY <1>t, <1>3, <3>1, <3>2 DEF BisectReturn, Narrowed
  <2>2. s.r <= lastGoodR \/ s.r >= firstBadR \/ s = cur
    BY <1>d, <2>1 DEF Untried
  <2>. QED  BY <1>t, <2>1, <2>2
<1>4. CASE Choose /\ ~EscalateFailed /\ ~EscalateClean /\ ~BisectReturn
  <2>1. /\ measured' = measured /\ firstBadR' = firstBadR /\ lastGoodR' = lastGoodR
        /\ phase' = "escalate" => phase = "escalate" /\ pc = "next"
        /\ phase' = "bisect" => (phase = "bisect" /\ pc = "next") \/ phase = "escalate"
    BY <1>4 DEF Choose, EscalateStep, EscalateCap, EscalateVetoed, BisectStep,
       BisectEnd, SplitStep, SplitEnd, TryStep, TryEnd, ListReturn, Proceed, Call
  <2>2. phase' = phase /\ pc = "next"
    BY <2>1 DEF LadderInv
  <2>. QED  BY <1>d, <2>1, <2>2 DEF Untried, Begun, InTrial
<1>5. CASE Admit
  <2>1. /\ measured' = measured \cup {cur} /\ cur' = cur /\ phase' = phase /\ Begun'
        /\ firstBadR' = firstBadR /\ lastGoodR' = lastGoodR
    BY <1>5 DEF Admit, Begun, InTrial
  <2>. QED  BY <1>d, <2>1 DEF Untried
<1>6. CASE ~Choose /\ ~Admit
  <2>1. /\ cur' = cur /\ phase' = phase /\ firstBadR' = firstBadR /\ lastGoodR' = lastGoodR
    BY <1>6, OtherKeeps
  <2>2. measured' = measured /\ (Begun => Begun')
    BY <1>6 DEF Next, RunStep, TrialStep, Terminated, Skip, Interrupted, AsksContext,
       Exhausted, Cooldown, ProbeAborts, ProbeStressed, ProbeOk, WalkClean, TrialClean,
       TrialFailed, TransportError, Return, Stop, FinalSkipped, FinalAsk, FinalProbe,
       Proceed, ContextDone, vars, Begun, InTrial
  <2>. QED  BY <1>d, <2>1, <2>2 DEF Untried
<1>. QED  BY <1>1, <1>2, <1>3, <1>4, <1>5, <1>6

LEMMA VetoStep ==
  ASSUME TypeInv, LogInv, PhaseInv, BisectInv, [Next]_vars
  PROVE  VetoInv'
<1>. USE DEF PhaseInv, BisectInv, ladder, runner, verdict, Return, Stop
<1>. SUFFICES ASSUME phase' = "bisect", pc' = "return", got' = "nil"
              PROVE  stressed'
  BY DEF VetoInv
<1>1. ~Choose
  BY ChooseKeeps
<1>2. CASE Skip
  <2>1. phase = "bisect" /\ pc = "trial" /\ stressed' = stressed /\ Skipped /\ InCall
    BY <1>2 DEF Skip, InCall, Open
  <2>2. SUFFICES ASSUME ~stressed  PROVE FALSE
    BY <2>1
  <2>3. /\ cur.r \in Nat /\ cur.v = V0 /\ lastGoodR < cur.r /\ cur.r < firstBadR
        /\ V0 \in Nat \ {0} /\ lastGoodR \in Nat /\ firstBadR \in Nat /\ ceiling \in Int
    BY <2>1, V0Type DEF CallInv, TypeInv, TypeOK, Setting
  <2>4. cur \notin measured
    BY <2>1, <2>3 DEF Untried, Begun, InTrial
  <2>5. ceiling >= firstBadR * V0
    BY <2>1, <2>2, <2>3 DEF CeilingAtBracket
  <2>6. cur.r * V0 < firstBadR * V0 /\ cur.r * V0 \in Nat /\ firstBadR * V0 \in Nat
    BY <2>3
  <2>7. ~(Product(cur) >= ceiling)
    BY <2>3, <2>5, <2>6 DEF Product
  <2>. QED  BY <2>1, <2>4, <2>7 DEF Skipped
<1>3. CASE ProbeStressed
  BY <1>3 DEF ProbeStressed
<1>4. CASE ~Skip /\ ~ProbeStressed
  <2>1. /\ phase = "bisect" /\ pc = "return" /\ got = "nil" /\ stressed' = stressed
    BY <1>1, <1>4 DEF Next, RunStep, TrialStep, Terminated, Interrupted, Exhausted, Admit,
       Cooldown, ProbeAborts, ProbeOk, WalkClean, TrialClean, TrialFailed, TransportError,
       FinalSkipped, FinalAsk, FinalProbe, Proceed, ContextDone, vars
  <2>. QED  BY <2>1 DEF VetoInv
<1>. QED  BY <1>2, <1>3, <1>4

LEMMA ConvergesStep ==
  ASSUME TypeInv, LogInv, PhaseInv, BisectInv, [Next]_vars
  PROVE  BisectConverges'
<1>. USE DEF PhaseInv, BisectInv, ladder, runner, verdict
<1>. SUFFICES ASSUME phase' = "split", ~stressed', firstBadR' > 0
              PROVE  firstBadR' - lastGoodR' <= AtLeast(1, lastGoodR' \div 10)
  BY DEF BisectConverges
<1>t. lastGoodR \in Nat /\ firstBadR \in Nat
  BY DEF TypeInv, TypeOK
<1>s. ~stressed
  BY StressShows DEF TypeInv, TypeOK
<1>1. lastGoodR' = lastGoodR /\ firstBadR' = firstBadR
  <2>1. CASE Choose
    BY <2>1 DEF Choose, EscalateStep, EscalateCap, EscalateVetoed, EscalateFailed,
       EscalateClean, BisectStep, BisectReturn, BisectEnd, SplitStep, SplitEnd, TryStep,
       TryEnd, ListReturn, Proceed
  <2>2. CASE ~Choose
    BY <2>2, OtherKeeps
  <2>. QED  BY <2>1, <2>2
<1>2. CASE BisectEnd
  <2>1. ~Wide
    BY <1>2, <1>s DEF BisectEnd, Wide, VetoInv
  <2>. QED  BY <1>t, <1>1, <2>1 DEF Wide, AtLeast
<1>3. CASE ~BisectEnd
  <2>1. phase = "split"
    <3>1. CASE Choose
      BY <1>3, <3>1 DEF Choose, EscalateStep, EscalateCap, EscalateVetoed, EscalateFailed,
         EscalateClean, BisectStep, BisectReturn, SplitStep, SplitEnd, TryStep,
         TryEnd, ListReturn, Proceed
    <3>2. CASE ~Choose
      BY <3>2, OtherKeeps
    <3>. QED  BY <3>1, <3>2
  <2>. QED  BY <1>s, <1>1, <2>1 DEF BisectConverges
<1>. QED  BY <1>2, <1>3

LEMMA BisectInvariant == Spec => [](TypeInv /\ LogInv /\ StressInv /\ PhaseInv /\ BisectInv)
<1>1. Init => BisectInv
  BY DEF Init, BisectInv, CeilingAtBracket, Untried, VetoInv, BisectConverges
<1>2. TypeInv /\ LogInv /\ PhaseInv /\ BisectInv /\ [Next]_vars => BisectInv'
  <2>. SUFFICES ASSUME TypeInv, LogInv, PhaseInv, BisectInv, [Next]_vars  PROVE BisectInv'
    OBVIOUS
  <2>. QED  BY CeilingStep, UntriedStep, VetoStep, ConvergesStep DEF BisectInv
<1>. QED  BY <1>1, <1>2, PhaseInvariant, PTL DEF Spec

\* Without stress the bisection ends with its gap closed: no trial that it asks for is
\* passed over, as measured already or as above the ceiling.
THEOREM BisectConvergesHolds == Spec => []BisectConverges
<1>1. BisectInv => BisectConverges
  BY DEF BisectInv
<1>. QED  BY <1>1, BisectInvariant, PTL
-----------------------------------------------------------------------------
(* What a run that ends in its own time leaves untried.                    *)

\* Nothing has ended the run before its time.
Whole == aborted = NotAborted /\ limited = "none"
WholeInv == pc # "done" => Whole

\* The ceiling comes down from the first one, so every trial was below that.
CeilingFalls == ceiling <= FirstCeiling
LogBelowFirst == \A i \in DOMAIN trials : Product(trials[i].s) < FirstCeiling

\* The last clean step of the ladder is in the log, as clean or as condemned.
LadderLogged ==
  lastGoodR > 0 => \E i \in DOMAIN trials : trials[i].s = [r |-> lastGoodR, v |-> V0]

\* Agent stress takes nothing from --try.
Unvetoed == Searching => ~stressed

\* Without a veto or an end, what was measured is in the log or under way, and the
\* ceiling is the first one or the product of a failed trial.
MeasuredInLog ==
  Unvetoed /\ Whole =>
    \A s \in measured : \/ s = cur /\ InTrial
                        \/ \E i \in DOMAIN trials : trials[i].s = s
CeilingIsFailure ==
  Unvetoed /\ pc # "done" =>
    ceiling = FirstCeiling \/ \E i \in Failed : Product(trials[i].s) = ceiling

\* The settings up to the last one chosen were tried, or a trial failed with no more.
Tried(s) == \/ \E i \in DOMAIN trials : trials[i].s = s
            \/ \E i \in Failed : Product(trials[i].s) <= Product(s)
Swept ==
  phase = "split" /\ Unvetoed /\ Whole =>
    \A v \in SplitFits : v < at \/ (v = at /\ ~Open) => Tried(SplitSetting(v))
TrySwept ==
  phase = "try" /\ Whole =>
    \A n \in DOMAIN Requested :
      /\ n < at \/ (n = at /\ ~Open)
      /\ Product(Requested[n]) < FirstCeiling
      => Tried(Requested[n])
NoneChosen == phase \in {"escalate", "bisect"} => at = 0

\* --try calls trial() with the setting it has come to.
TryCalls == phase = "try" /\ InCall => at \in DOMAIN Requested /\ cur = Requested[at]

\* A run that ends in its own time has nothing left to choose.
EndInv ==
  pc \in {"final", "finalProbe"} \/ (pc = "done" /\ Whole) =>
    \/ phase = "try" /\ at = Len(Requested)
    \/ phase = "split" /\ SplitLeft = {}

LogFacts == /\ WholeInv /\ CeilingFalls /\ LogBelowFirst /\ LadderLogged
            /\ MeasuredInLog /\ CeilingIsFailure
SweepInv == LogFacts /\ Swept /\ TrySwept /\ TryCalls /\ NoneChosen /\ EndInv

LEMMA SameSearch == ASSUME [Next]_vars PROVE Searching' <=> Searching
<1>1. CASE Choose
  BY <1>1 DEF Choose, EscalateStep, EscalateCap, EscalateVetoed, EscalateFailed,
     EscalateClean, BisectStep, BisectReturn, BisectEnd, SplitStep, SplitEnd, TryStep,
     TryEnd, ListReturn, Proceed, Searching
<1>2. CASE ~Choose
  BY <1>2, OtherKeeps DEF Searching
<1>. QED  BY <1>1, <1>2

\* What a step does to the ceiling, and where it stays.
LEMMA CeilingSteps ==
  ASSUME TypeInv, [Next]_vars
  PROVE  /\ ceiling' = ceiling \/ ceiling' <= ceiling
         /\ Unvetoed' /\ ~TrialFailed => ceiling' = ceiling
         /\ Unvetoed' => Unvetoed
<1>. USE DEF ladder, runner, verdict
<1>t. ceiling \in Int /\ cur \in Setting /\ Product(cur) \in Nat /\ lastGood \in Nat
  BY ProductType DEF TypeInv, TypeOK
<1>s. /\ Unvetoed' => Unvetoed
      /\ Unvetoed' /\ ProbeStressed => phase = "try"
  <2>1. ProbeStressed => stressed' = TRUE /\ phase' = phase
    BY DEF ProbeStressed
  <2>. QED  BY <2>1, StressShows, SameSearch DEF Unvetoed, Searching, TypeInv, TypeOK
<1>1. CASE TrialFailed
  <2>1. ceiling' = IF ceiling <= Product(cur) THEN ceiling ELSE Product(cur)
    BY <1>1 DEF TrialFailed, CeilingAfterFailure, AtMost
  <2>2. ceiling' = ceiling \/ ceiling' <= ceiling
    BY <1>t, <2>1
  <2>. QED  BY <1>1, <1>s, <2>2, Zenon
<1>2. CASE ProbeStressed
  <2>1. ceiling' = StressCeiling
    BY <1>2 DEF ProbeStressed
  <2>. QED  BY <1>2, <1>s, <1>t, <2>1, V0Type DEF StressCeiling, AtMost, AtLeast
<1>3. CASE ~TrialFailed /\ ~ProbeStressed
  <2>1. ceiling' = ceiling
    BY <1>3, ChooseKeeps DEF Next, RunStep, TrialStep, Terminated, Skip, Interrupted,
       Exhausted, Admit, Cooldown, ProbeAborts, ProbeOk, WalkClean, TrialClean,
       TransportError, FinalSkipped, FinalAsk, FinalProbe, Proceed, ContextDone, vars
  <2>. QED  BY <1>s, <2>1
<1>. QED  BY <1>1, <1>2, <1>3

\* An end before the time shows in the outcome, and stays there.
LEMMA WholeStep ==
  ASSUME TypeInv, WholeInv, [Next]_vars
  PROVE  /\ WholeInv'
         /\ Whole' => /\ Whole
                      /\ ~Interrupted /\ ~Exhausted /\ ~ProbeAborts /\ ~TransportError
<1>. USE DEF ladder, runner, verdict
<1>n. NotAborted.why = "none"
  BY DEF NotAborted
<1>1. CASE Interrupted \/ Exhausted \/ ProbeAborts \/ TransportError
  <2>1. pc' = "done"
    BY <1>1 DEF Interrupted, Exhausted, ProbeAborts, TransportError, Stop
  <2>2. limited' # "none" \/ aborted'.why # "none"
    <3>1. CASE Interrupted
      BY <3>1 DEF Interrupted, AbortOfContext, LimitOfContext
    <3>. QED  BY <1>1, <3>1 DEF Exhausted, ProbeAborts, TransportError
  <2>. QED  BY <1>n, <2>1, <2>2 DEF WholeInv, Whole
<1>2. CASE ~(Interrupted \/ Exhausted \/ ProbeAborts \/ TransportError)
  <2>1. CASE FinalProbe
    <3>1. pc = "finalProbe" /\ pc' = "done"
      BY <2>1 DEF FinalProbe
    <3>. QED  BY <1>2, <3>1 DEF WholeInv
  <2>2. CASE ~FinalProbe
    <3>1. aborted' = aborted /\ limited' = limited /\ (pc' # "done" => pc # "done")
      BY <1>2, <2>2, ChooseKeeps, OtherKeeps
         DEF Next, RunStep, TrialStep, Terminated, Skip, Admit, Cooldown, ProbeStressed,
         ProbeOk, WalkClean, TrialClean, TrialFailed, FinalSkipped, FinalAsk, Proceed,
         ContextDone, vars
    <3>. QED  BY <1>2, <3>1 DEF WholeInv, Whole
  <2>. QED  BY <2>1, <2>2
<1>. QED  BY <1>1, <1>2

LEMMA LogBelowStep ==
  ASSUME TypeInv, LogInv, CeilingFalls, LogBelowFirst, [Next]_vars
  PROVE  CeilingFalls' /\ LogBelowFirst'
<1>t. ceiling \in Int /\ ceiling' \in Int /\ FirstCeiling \in Int /\ FirstCeiling' = FirstCeiling
  <2>1. FirstCeiling \in Int /\ FirstCeiling' = FirstCeiling
    BY ConstantsAssumption DEF FirstCeiling
  <2>. QED  BY <2>1, TypeStep DEF TypeInv, TypeOK
<1>1. CeilingFalls'
  BY <1>t, CeilingSteps DEF CeilingFalls
<1>. SUFFICES ASSUME NEW i \in DOMAIN trials'  PROVE Product(trials'[i].s) < FirstCeiling
  BY <1>t, <1>1 DEF LogBelowFirst, Product
<1>2. CASE trials' = trials
  BY <1>2 DEF LogBelowFirst
<1>3. CASE Noted
  <2>1. PICK ok \in BOOLEAN, score \in Nat, n \in 1 .. Repeats :
          NoteTrial(ok, score, n) /\ InTrial
    BY <1>3 DEF Noted
  <2>2. /\ DOMAIN trials' = 1 .. Len(trials) + 1 /\ DOMAIN trials = 1 .. Len(trials)
        /\ \A j \in 1 .. Len(trials) : trials'[j] = trials[j]
        /\ trials'[Len(trials) + 1].s = cur /\ Len(trials) \in Nat
    BY <2>1, NoteTrialEffect DEF TypeInv
  <2>3. Product(cur) < FirstCeiling
    <3>1. Product(cur) \in Nat
      BY ProductType DEF TypeInv, TypeOK
    <3>. QED  BY <1>t, <2>1, <3>1 DEF LogInv, CurrentIsNew, CeilingFalls
  <2>. QED  BY <2>2, <2>3 DEF LogBelowFirst
<1>4. CASE Condemned
  BY <1>4, CondemnEffect DEF LogBelowFirst
<1>. QED  BY <1>2, <1>3, <1>4, LogShape

LEMMA LadderLoggedStep ==
  ASSUME TypeInv, LogInv, PhaseInv, PhaseInv', LadderLogged, [Next]_vars
  PROVE  LadderLogged'
<1>1. CASE pc' # "done"
  BY <1>1 DEF PhaseInv, BracketInv, Measured, LadderLogged
<1>2. CASE pc' = "done"
  <2>1. lastGoodR' = lastGoodR /\ V0' = V0
    BY <1>2, ChooseKeeps, OtherKeeps DEF ladder, V0
  <2>. QED  BY <2>1, LogKeeps DEF LadderLogged
<1>. QED  BY <1>1, <1>2

\* A trial that is over, without stress and with nothing ending the run, is in the log.
LEMMA MeasuredLogStep ==
  ASSUME TypeInv, LogInv, WholeInv, MeasuredInLog, [Next]_vars
  PROVE  MeasuredInLog'
<1>. USE DEF ladder, runner, verdict, Return, InTrial
<1>. SUFFICES ASSUME Unvetoed', Whole', NEW s \in measured'
              PROVE  \/ s = cur' /\ InTrial'
                     \/ \E i \in DOMAIN trials' : trials'[i].s = s
  BY DEF MeasuredInLog
<1>w. Whole /\ ~Interrupted /\ ~Exhausted /\ ~ProbeAborts /\ ~TransportError
  BY WholeStep
<1>s. Unvetoed
  BY CeilingSteps
<1>k. (\E i \in DOMAIN trials : trials[i].s = s) => \E i \in DOMAIN trials' : trials'[i].s = s
  BY LogKeeps
<1>1. CASE Admit
  BY <1>1, <1>k, <1>w, <1>s DEF Admit, MeasuredInLog
<1>2. CASE TrialClean \/ TrialFailed
  <2>1. measured' = measured
    BY <1>2 DEF TrialClean, TrialFailed
  <2>2. PICK ok \in BOOLEAN, score \in Nat, n \in 1 .. Repeats : NoteTrial(ok, score, n)
    <3>1. runs + 1 \in 1 .. Repeats /\ 0 \in Nat /\ Scores \subseteq Nat
      BY ConstantsAssumption DEF TypeInv, TypeOK
    <3>. QED  BY <1>2, <3>1 DEF TrialClean, TrialFailed
  <2>3. Len(trials) + 1 \in DOMAIN trials' /\ trials'[Len(trials) + 1].s = cur
    BY <2>2, NoteTrialEffect DEF TypeInv
  <2>. QED  BY <1>k, <1>w, <1>s, <2>1, <2>3 DEF MeasuredInLog
<1>3. CASE ProbeStressed
  <2>1. ceiling' = ceiling
    BY <1>3, CeilingSteps DEF ProbeStressed, TrialFailed
  <2>2. Product(cur) < ceiling /\ Product(cur) \in Nat /\ ceiling \in Int
    BY <1>3, ProductType DEF ProbeStressed, LogInv, CurrentIsNew, TypeInv, TypeOK
  <2>3. measured' = measured /\ cur' = cur /\ InTrial'
    BY <1>3, <2>1, <2>2 DEF ProbeStressed
  <2>. QED  BY <1>k, <1>w, <1>s, <2>3 DEF MeasuredInLog
<1>4. CASE ~Admit /\ ~TrialClean /\ ~TrialFailed /\ ~ProbeStressed
  <2>1. /\ measured' = measured
        /\ InTrial => InTrial' /\ cur' = cur
    BY <1>4, <1>w, ChooseKeeps DEF Next, RunStep, TrialStep, Terminated, Skip, Cooldown,
       ProbeOk, WalkClean, FinalSkipped, FinalAsk, FinalProbe, Proceed, ContextDone, vars
  <2>. QED  BY <1>k, <1>w, <1>s, <2>1 DEF MeasuredInLog
<1>. QED  BY <1>1, <1>2, <1>3, <1>4

LEMMA CeilingFailureStep ==
  ASSUME TypeInv, LogInv, PhaseInv', CeilingIsFailure, [Next]_vars
  PROVE  CeilingIsFailure'
<1>. SUFFICES ASSUME Unvetoed', pc' # "done"
              PROVE  \/ ceiling' = FirstCeiling
                     \/ \E i \in Failed' : Product(trials'[i].s) = ceiling'
  BY DEF CeilingIsFailure, Product, FirstCeiling
<1>s. Unvetoed /\ pc # "done"
  BY CeilingSteps, ChooseKeeps, OtherKeeps
<1>1. CASE TrialFailed
  <2>1. pc' = "return" /\ got' = "failed"
    BY <1>1 DEF TrialFailed, Return
  <2>2. /\ Len(trials') \in DOMAIN trials' /\ trials'[Len(trials')].s = cur'
        /\ trials'[Len(trials')].ok = FALSE /\ ceiling' = Product(cur')
    BY <2>1 DEF PhaseInv, ReturnInv, Product
  <2>3. Len(trials') \in Failed'
    BY <2>2, Zenon DEF Failed
  <2>. QED  BY <2>2, <2>3
<1>2. CASE ~TrialFailed
  <2>1. ceiling' = ceiling
    BY <1>2, CeilingSteps
  <2>2. \A i \in Failed : i \in Failed' /\ trials'[i].s = trials[i].s
    BY LogKeeps DEF Failed
  <2>. QED  BY <1>s, <2>1, <2>2 DEF CeilingIsFailure
<1>. QED  BY <1>1, <1>2

LEMMA NoneChosenStep ==
  ASSUME NoneChosen, [Next]_vars
  PROVE  NoneChosen'
<1>1. CASE Choose
  BY <1>1 DEF Choose, EscalateStep, EscalateCap, EscalateVetoed, EscalateFailed,
     EscalateClean, BisectStep, BisectReturn, BisectEnd, SplitStep, SplitEnd, TryStep,
     TryEnd, ListReturn, Proceed, NoneChosen, ladder
<1>2. CASE ~Choose
  BY <1>2, OtherKeeps DEF NoneChosen, ladder
<1>. QED  BY <1>1, <1>2

\* Without a veto a run passes over a setting only for a trial that had it, or that
\* failed with no more: unless an int is no product of it.
LEMMA SkippedTried ==
  ASSUME TypeInv, LogFacts, Unvetoed, Whole, pc = "trial", Skipped,
         Product(cur) < FirstCeiling
  PROVE  Tried(cur)
<1>. USE DEF LogFacts
<1>1. CASE cur \in measured
  BY <1>1 DEF MeasuredInLog, InTrial, Tried
<1>2. CASE Product(cur) >= ceiling
  <2>1. Product(cur) \in Nat /\ ceiling \in Int /\ FirstCeiling \in Int
    BY ProductType, ConstantsAssumption DEF TypeInv, TypeOK, FirstCeiling
  <2>2. PICK i \in Failed : Product(trials[i].s) = ceiling
    BY <1>2, <2>1 DEF CeilingIsFailure
  <2>. QED  BY <1>2, <2>2 DEF Tried
<1>. QED  BY <1>1, <1>2 DEF Skipped

\* What was tried stays so.
LEMMA TriedStays ==
  ASSUME TypeInv, LogInv, [Next]_vars, NEW s, Tried(s)
  PROVE  \/ \E i \in DOMAIN trials' : trials'[i].s = s
         \/ \E i \in Failed' : Product(trials'[i].s) <= Product(s)
<1>1. CASE \E i \in DOMAIN trials : trials[i].s = s
  BY <1>1, LogKeeps
<1>2. CASE \E i \in Failed : Product(trials[i].s) <= Product(s)
  <2>1. PICK i \in Failed : Product(trials[i].s) <= Product(s)
    BY <1>2
  <2>2. i \in Failed' /\ trials'[i].s = trials[i].s
    BY LogKeeps DEF Failed
  <2>. QED  BY <2>1, <2>2
<1>. QED  BY <1>1, <1>2 DEF Tried

\* A trial that closes has tried its setting.
LEMMA ClosedTried ==
  ASSUME TypeInv, LogInv, PhaseInv', LogFacts, [Next]_vars, Unvetoed', Whole',
         Open, ~Open', Product(cur) < FirstCeiling
  PROVE  \/ \E i \in DOMAIN trials' : trials'[i].s = cur
         \/ \E i \in Failed' : Product(trials'[i].s) <= Product(cur)
<1>. USE DEF ladder, runner, verdict
<1>w. Whole /\ ~Interrupted /\ ~Exhausted /\ ~ProbeAborts /\ ~TransportError
  BY WholeStep DEF LogFacts
<1>s. Unvetoed
  BY CeilingSteps
<1>c. ~Choose
  BY ChooseKeeps DEF Open
<1>1. CASE Skip
  <2>1. Tried(cur)
    BY <1>1, <1>s, <1>w, SkippedTried DEF Skip
  <2>. QED  BY <2>1, TriedStays
<1>2. CASE TrialClean \/ TrialFailed
  <2>1. cur' = cur /\ pc' = "return" /\ got' # "nil"
    BY <1>2, <1>c, OtherKeeps DEF TrialClean, TrialFailed, Return
  <2>2. Len(trials') \in DOMAIN trials' /\ trials'[Len(trials')].s = cur'
    BY <2>1 DEF PhaseInv, ReturnInv
  <2>. QED  BY <2>1, <2>2
<1>3. CASE ProbeStressed
  <2>1. ceiling' = ceiling
    BY <1>3, CeilingSteps DEF ProbeStressed, TrialFailed
  <2>2. Product(cur) < ceiling /\ Product(cur) \in Nat /\ ceiling \in Int
    BY <1>3, ProductType DEF ProbeStressed, LogInv, CurrentIsNew, InTrial, TypeInv, TypeOK
  <2>3. Open'
    BY <1>3, <2>1, <2>2 DEF ProbeStressed, Open
  <2>. QED  BY <2>3
<1>4. CASE ~Skip /\ ~TrialClean /\ ~TrialFailed /\ ~ProbeStressed
  BY <1>4, <1>c, <1>w DEF Next, RunStep, TrialStep, Terminated, Admit, Cooldown, ProbeOk,
     WalkClean, FinalSkipped, FinalAsk, FinalProbe, ContextDone, vars, Open
<1>. QED  BY <1>1, <1>2, <1>3, <1>4

\* The split asks for less than the first ceiling.
LEMMA SplitBelowFirst ==
  ASSUME TypeInv, LogFacts, NEW v \in SplitFits
  PROVE  Product(SplitSetting(v)) < FirstCeiling
<1>1. v \in Nat \ {0} /\ lastGoodR > 0 /\ lastGoodR \in Nat
  BY CandidatesType DEF SplitFits, TypeInv, TypeOK
<1>2. /\ SplitReps(v) \in Nat /\ SplitReps(v) * v <= lastGoodR * V0
      /\ SplitReps(v) * v \in Nat /\ lastGoodR * V0 \in Nat
  <2>1. SplitReps(v) \in Nat /\ SplitReps(v) * v <= lastGoodR * V0
    BY <1>1, SplitDivides DEF TypeInv
  <2>. QED  BY <1>1, <2>1, V0Type
<1>3. PICK j \in DOMAIN trials : trials[j].s = [r |-> lastGoodR, v |-> V0]
  BY <1>1 DEF LogFacts, LadderLogged
<1>4. lastGoodR * V0 < FirstCeiling /\ FirstCeiling \in Int
  BY <1>3, ConstantsAssumption DEF LogFacts, LogBelowFirst, Product, FirstCeiling
<1>. QED  BY <1>2, <1>4 DEF Product, SplitSetting

LEMMA SweptStep ==
  ASSUME TypeInv, LogInv, PhaseInv, PhaseInv', SweepInv, [Next]_vars
  PROVE  Swept'
<1>. USE DEF SweepInv, ladder
<1>f. ASSUME lastGoodR' = lastGoodR
      PROVE  /\ SplitFits' = SplitFits /\ SplitLeft' = {v \in SplitFits : v > at'}
             /\ \A v \in SplitFits : SplitSetting(v)' = SplitSetting(v)
  BY <1>f DEF SplitFits, SplitLeft, SplitCandidates, SplitSetting, SplitReps, SplitQuotient, V0
<1>. SUFFICES ASSUME phase' = "split", Unvetoed', Whole', NEW v \in SplitFits',
                     v < at' \/ (v = at' /\ ~Open')
              PROVE  Tried(SplitSetting(v))'
  BY DEF Swept
<1>w. Whole
  BY WholeStep DEF LogFacts
<1>s. Unvetoed
  BY CeilingSteps
<1>t. v \in Nat \ {0} /\ at \in Nat
  <2>1. v \in SplitCandidates
    BY DEF SplitFits, SplitCandidates, V0
  <2>. QED  BY <2>1, CandidatesType DEF TypeInv, TypeOK
<1>k. ASSUME lastGoodR' = lastGoodR,
             \/ \E i \in DOMAIN trials' : trials'[i].s = SplitSetting(v)
             \/ \E i \in Failed' : Product(trials'[i].s) <= Product(SplitSetting(v))
      PROVE  Tried(SplitSetting(v))'
  <2>1. SplitSetting(v)' = SplitSetting(v)
    BY <1>f, <1>k
  <2>. QED  BY <1>k, <2>1 DEF Tried, Product
<1>l. ASSUME lastGoodR' = lastGoodR, phase = "split", v < at \/ (v = at /\ ~Open)
      PROVE  Tried(SplitSetting(v))'
  <2>1. v \in SplitFits
    BY <1>f, <1>l
  <2>2. Tried(SplitSetting(v))
    BY <1>l, <1>s, <1>w, <2>1 DEF Swept
  <2>. QED  BY <1>k, <1>l, <2>2, TriedStays
<1>1. CASE BisectEnd
  <2>1. at' = 0
    BY <1>1 DEF BisectEnd, NoneChosen
  <2>. QED  BY <1>t, <2>1
<1>2. CASE SplitStep
  <2>1. PICK u \in SplitLeft : at' = u /\ \A w \in SplitLeft : u <= w
    BY <1>2 DEF SplitStep
  <2>2. lastGoodR' = lastGoodR /\ phase = "split" /\ pc = "next" /\ Open'
    BY <1>2 DEF SplitStep, Call, Open
  <2>3. u \in Nat
    BY CandidatesType DEF SplitLeft, SplitFits
  <2>4. v \in SplitFits
    BY <1>f, <2>2
  <2>5. v < u /\ v \notin SplitLeft
    BY <1>t, <2>1, <2>2, <2>3
  <2>6. v <= at
    BY <1>t, <2>4, <2>5 DEF SplitLeft
  <2>. QED  BY <1>l, <1>t, <2>2, <2>6 DEF Open
<1>3. CASE Choose /\ ~BisectEnd /\ ~SplitStep
  <2>1. lastGoodR' = lastGoodR /\ at' = at /\ phase = "split" /\ ~Open
    BY <1>3 DEF Choose, EscalateStep, EscalateCap, EscalateVetoed, EscalateFailed,
       EscalateClean, BisectStep, BisectReturn, SplitEnd, TryStep, TryEnd, ListReturn,
       Proceed, Open
  <2>. QED  BY <1>l, <2>1
<1>4. CASE ~Choose /\ (v < at \/ (v = at /\ ~Open))
  BY <1>4, <1>l, OtherKeeps
<1>5. CASE ~Choose /\ v = at /\ Open
  <2>1. lastGoodR' = lastGoodR /\ at' = at /\ phase = "split" /\ ~Open'
    BY <1>5, <1>t, OtherKeeps
  <2>2. v \in SplitFits
    BY <1>f, <2>1
  <2>3. cur = SplitSetting(v)
    BY <1>5, <2>1 DEF PhaseInv, CallInv, InCall
  <2>4. Product(cur) < FirstCeiling
    BY <2>2, <2>3, SplitBelowFirst
  <2>5. \/ \E i \in DOMAIN trials' : trials'[i].s = cur
        \/ \E i \in Failed' : Product(trials'[i].s) <= Product(cur)
    BY <1>5, <2>1, <2>4, ClosedTried
  <2>. QED  BY <1>k, <2>1, <2>3, <2>5
<1>. QED  BY <1>1, <1>2, <1>3, <1>4, <1>5, OtherKeeps

\* --try comes to the requested settings one by one.
LEMMA TrySweptStep ==
  ASSUME TypeInv, LogInv, PhaseInv', SweepInv, [Next]_vars
  PROVE  TrySwept' /\ TryCalls'
<1>. USE DEF SweepInv, ladder
<1>t. at \in Nat /\ Len(Requested) \in Nat /\ DOMAIN Requested = 1 .. Len(Requested)
  BY ConstantsAssumption, LenProperties DEF TypeInv, TypeOK
<1>p. phase' = "try" => phase = "try"
  BY SameSearch DEF Searching
<1>1. CASE TryStep
  <2>1. /\ phase = "try" /\ pc = "next" /\ Open' /\ at' = at + 1 /\ cur' = Requested[at']
        /\ at < Len(Requested)
    BY <1>1 DEF TryStep, Call, Open
  <2>2. TryCalls'
    BY <1>t, <2>1 DEF TryCalls
  <2>3. TrySwept'
    <3>. SUFFICES ASSUME Whole', NEW n \in DOMAIN Requested, n < at',
                         Product(Requested[n]) < FirstCeiling
                  PROVE  Tried(Requested[n])'
      BY <2>1 DEF TrySwept, Product, FirstCeiling
    <3>1. n < at \/ (n = at /\ ~Open)
      BY <1>t, <2>1 DEF Open
    <3>2. Whole
      BY WholeStep DEF LogFacts
    <3>3. Tried(Requested[n])
      BY <2>1, <3>1, <3>2 DEF TrySwept
    <3>. QED  BY <3>3, TriedStays DEF Tried, Product
  <2>. QED  BY <2>2, <2>3
<1>2. CASE ~TryStep /\ phase = "try"
  <2>1. /\ at' = at /\ cur' = cur /\ (InCall' => InCall)
        /\ Open' => Open
        /\ Open /\ ~Open' => ~Choose
    <3>1. CASE Choose
      BY <1>2, <3>1 DEF Choose, EscalateStep, EscalateCap, EscalateVetoed, EscalateFailed,
         EscalateClean, BisectStep, BisectReturn, BisectEnd, SplitStep, SplitEnd, TryEnd,
         ListReturn, Proceed, Open, InCall
    <3>2. CASE ~Choose
      BY <3>2, OtherKeeps
    <3>. QED  BY <3>1, <3>2
  <2>2. TryCalls'
    BY <1>2, <2>1 DEF TryCalls
  <2>3. TrySwept'
    <3>. SUFFICES ASSUME phase' = "try", Whole', NEW n \in DOMAIN Requested,
                         n < at \/ (n = at /\ ~Open'),
                         Product(Requested[n]) < FirstCeiling
                  PROVE  Tried(Requested[n])'
      BY <2>1 DEF TrySwept, Product, FirstCeiling
    <3>1. Whole
      BY WholeStep DEF LogFacts
    <3>2. CASE n < at \/ (n = at /\ ~Open)
      <4>1. Tried(Requested[n])
        BY <1>2, <3>1, <3>2 DEF TrySwept
      <4>. QED  BY <4>1, TriedStays DEF Tried, Product
    <3>3. CASE n = at /\ Open
      <4>1. ~Open' /\ cur = Requested[n]
        BY <1>2, <1>t, <3>3 DEF TryCalls, InCall
      <4>2. Unvetoed'
        BY DEF Unvetoed, Searching
      <4>3. \/ \E i \in DOMAIN trials' : trials'[i].s = cur
            \/ \E i \in Failed' : Product(trials'[i].s) <= Product(cur)
        BY <3>3, <4>1, <4>2, ClosedTried
      <4>. QED  BY <4>1, <4>3 DEF Tried, Product
    <3>. QED  BY <3>2, <3>3
  <2>. QED  BY <2>2, <2>3
<1>3. CASE phase # "try"
  BY <1>3, <1>p DEF TrySwept, TryCalls
<1>. QED  BY <1>1, <1>2, <1>3

LEMMA EndStep ==
  ASSUME TypeInv, SweepInv, [Next]_vars
  PROVE  EndInv'
<1>. USE DEF SweepInv, ladder
<1>. SUFFICES ASSUME pc' \in {"final", "finalProbe"} \/ (pc' = "done" /\ Whole')
              PROVE  \/ phase' = "try" /\ at' = Len(Requested)
                     \/ phase' = "split" /\ SplitLeft' = {}
  BY DEF EndInv
<1>f. lastGoodR' = lastGoodR /\ at' = at => SplitLeft' = SplitLeft
  BY DEF SplitLeft, SplitFits, SplitQuotient, SplitCandidates, V0
<1>1. CASE Choose
  <2>1. \/ phase' = "try" /\ at' = at /\ at = Len(Requested)
        \/ /\ phase' = "split" /\ SplitLeft = {}
           /\ at' = at /\ lastGoodR' = lastGoodR
    BY <1>1 DEF Choose, EscalateStep, EscalateCap, EscalateVetoed, EscalateFailed,
       EscalateClean, BisectStep, BisectReturn, BisectEnd, SplitStep, SplitEnd, TryStep,
       TryEnd, ListReturn, Proceed, Call
  <2>. QED  BY <1>f, <2>1
<1>2. CASE ~Choose
  <2>1. phase' = phase /\ at' = at /\ lastGoodR' = lastGoodR
    BY <1>2, OtherKeeps
  <2>2. CASE pc' \in {"final", "finalProbe"}
    <3>1. pc \in {"final", "finalProbe"}
      BY <1>2, <2>2, OtherKeeps
    <3>. QED  BY <1>f, <2>1, <3>1 DEF EndInv
  <2>3. CASE pc' = "done" /\ Whole'
    <3>1. Whole /\ ~Interrupted /\ ~Exhausted /\ ~ProbeAborts /\ ~TransportError
      BY <2>3, WholeStep DEF LogFacts
    <3>2. pc \in {"final", "finalProbe", "done"}
      BY <1>2, <2>3, <3>1 DEF Next, RunStep, TrialStep, Terminated, Skip, Admit, Cooldown,
         ProbeStressed, ProbeOk, WalkClean, TrialClean, TrialFailed, Return, FinalSkipped,
         FinalAsk, FinalProbe, ContextDone, vars
    <3>. QED  BY <1>f, <2>1, <3>1, <3>2 DEF EndInv
  <2>. QED  BY <2>2, <2>3
<1>. QED  BY <1>1, <1>2

LEMMA SweepInvariant == Spec => [](TypeInv /\ PhaseInv /\ SweepInv)
<1>1. Init => SweepInv
  <2>. SUFFICES ASSUME Init  PROVE SweepInv
    OBVIOUS
  <2>1. /\ WholeInv /\ LadderLogged /\ MeasuredInLog /\ Swept /\ NoneChosen /\ EndInv
        /\ TryCalls
    BY DEF Init, WholeInv, Whole, LadderLogged, MeasuredInLog, Swept, NoneChosen, EndInv,
       TryCalls, InCall, Open
  <2>2. LogBelowFirst /\ CeilingIsFailure
    BY DEF Init, LogBelowFirst, CeilingIsFailure
  <2>3. CeilingFalls
    <3>1. FirstCeiling \in Int
      BY ConstantsAssumption DEF FirstCeiling
    <3>. QED  BY <3>1 DEF Init, CeilingFalls
  <2>4. TrySwept
    <3>1. DOMAIN Requested = 1 .. Len(Requested) /\ Len(Requested) \in Nat /\ at = 0
      BY ConstantsAssumption, LenProperties DEF Init
    <3>2. \A n \in DOMAIN Requested : ~(n < at \/ n = at)
      BY <3>1
    <3>. QED  BY <3>2 DEF TrySwept
  <2>. QED  BY <2>1, <2>2, <2>3, <2>4 DEF SweepInv, LogFacts
<1>2. TypeInv /\ LogInv /\ PhaseInv /\ PhaseInv' /\ SweepInv /\ [Next]_vars => SweepInv'
  <2>. SUFFICES ASSUME TypeInv, LogInv, PhaseInv, PhaseInv', SweepInv, [Next]_vars
                PROVE  SweepInv'
    OBVIOUS
  <2>1. LogFacts'
    BY WholeStep, LogBelowStep, LadderLoggedStep, MeasuredLogStep, CeilingFailureStep
       DEF SweepInv, LogFacts
  <2>. QED  BY <2>1, SweptStep, TrySweptStep, NoneChosenStep, EndStep DEF SweepInv
<1>. QED  BY <1>1, <1>2, PhaseInvariant, PTL DEF Spec

\* A run that names no abort and no budget has measured all it was to measure, but for
\* what was no smaller than a failed trial: an interrupt that is not told cut nothing
\* short, wherever in the run it came.
THEOREM WholeUnlessToldHolds == Spec => []WholeUnlessTold
<1>1. ASSUME TypeInv, SweepInv, pc = "done", Whole, Unvetoed, NEW s \in Due
      PROVE  Tried(s)
  <2>t. at \in Nat /\ Len(Requested) \in Nat /\ DOMAIN Requested = 1 .. Len(Requested)
    BY <1>1, ConstantsAssumption, LenProperties DEF TypeInv, TypeOK
  <2>1. CASE Searching
    <3>1. PICK v \in SplitFits : s = SplitSetting(v)
      BY <1>1, <2>1 DEF Due
    <3>2. phase = "split" /\ SplitLeft = {} /\ ~Open
      BY <1>1, <2>1 DEF SweepInv, EndInv, Searching, Open
    <3>3. v \in Nat
      BY CandidatesType DEF SplitFits
    <3>4. v < at \/ v = at
      BY <2>t, <3>2, <3>3 DEF SplitLeft
    <3>. QED  BY <1>1, <3>1, <3>2, <3>4 DEF SweepInv, Swept
  <2>2. CASE ~Searching
    <3>1. PICK n \in DOMAIN Requested : s = Requested[n] /\ Product(Requested[n]) < MaxInt
      BY <1>1, <2>2 DEF Due
    <3>2. phase = "try" /\ at = Len(Requested) /\ ~Open
      BY <1>1, <2>2 DEF SweepInv, EndInv, Searching, Open
    <3>3. FirstCeiling = MaxInt
      <4>1. Requested # <<>>
        BY <2>t
      <4>. QED  BY <4>1 DEF FirstCeiling
    <3>4. n < at \/ n = at
      BY <2>t, <3>2
    <3>. QED  BY <1>1, <3>1, <3>2, <3>3, <3>4 DEF SweepInv, TrySwept
  <2>. QED  BY <2>1, <2>2
<1>2. TypeInv /\ SweepInv => WholeUnlessTold
  BY <1>1 DEF WholeUnlessTold, Whole, Unvetoed, Tried
<1>. QED  BY <1>2, SweepInvariant, PTL

\* A search that ends in its own time, without stress, has a trial with the width of
\* the widest table where the product has room for it, or one that failed with no more.
THEOREM WidthMeasuredHolds == Spec => []WidthMeasured
<1>1. ASSUME TypeInv, SweepInv, Searching, pc = "done", Whole, ~stressed,
             Widest > 0, lastGoodR * V0 >= Widest
      PROVE  \/ \E i \in DOMAIN trials : trials[i].s.v = Widest
             \/ \E i \in Failed : Product(trials[i].s) <= SplitReps(Widest) * Widest
  <2>t. Widest \in Nat \ {0} /\ lastGoodR \in Nat /\ V0 \in Nat \ {0} /\ at \in Nat
    BY <1>1, V0Type, ConstantsAssumption DEF TypeInv, TypeOK
  <2>1. lastGoodR > 0
    <3>1. lastGoodR = 0 => lastGoodR * V0 = 0
      BY <2>t
    <3>. QED  BY <1>1, <2>t, <3>1
  <2>2. CASE Widest = V0
    <3>1. PICK i \in DOMAIN trials : trials[i].s = [r |-> lastGoodR, v |-> V0]
      BY <1>1, <2>1 DEF SweepInv, LogFacts, LadderLogged
    <3>. QED  BY <2>2, <3>1
  <2>3. CASE Widest # V0
    <3>1. Widest \in SplitCandidates
      BY <2>t, <2>3 DEF SplitCandidates
    <3>2. SplitQuotient(Widest) >= 1
      <4>1. lastGoodR * V0 \in Nat
        BY <2>t
      <4>2. ASSUME NEW n \in Nat, NEW w \in Nat \ {0}, n >= w  PROVE n \div w >= 1
        BY <4>2
      <4>. QED  BY <1>1, <2>t, <4>1, <4>2 DEF SplitQuotient
    <3>3. Widest \in SplitFits
      BY <2>1, <3>1, <3>2 DEF SplitFits
    <3>4. phase = "split" /\ SplitLeft = {} /\ ~Open
      BY <1>1 DEF SweepInv, EndInv, Searching, Open
    <3>5. Widest < at \/ Widest = at
      BY <2>t, <3>3, <3>4 DEF SplitLeft
    <3>6. Tried(SplitSetting(Widest))
      BY <1>1, <3>3, <3>4, <3>5 DEF SweepInv, Swept, Unvetoed
    <3>. QED  BY <3>6 DEF Tried, SplitSetting, Product
  <2>. QED  BY <2>2, <2>3
<1>2. TypeInv /\ SweepInv => WidthMeasured
  BY <1>1 DEF WidthMeasured, Whole
<1>. QED  BY <1>2, SweepInvariant, PTL
-----------------------------------------------------------------------------
(* The plan of a dry run.                                                  *)

\* The loop of Plan, step by step.
LEMMA DoubledSteps ==
  /\ Doubled[0] = Start.r
  /\ \A k \in 1 .. RepsModulus : Doubled[k] = (2 * Doubled[k - 1]) % RepsModulus
<1>. DEFINE Step(f, k) == IF k = 0 THEN Start.r ELSE (2 * f[k - 1]) % RepsModulus
            Table(f, n) == f = [k \in 0 .. n |-> Step(f, k)]
            Bad == {n \in Nat : ~\E f : Table(f, n)}
<1>m. RepsModulus \in Nat
  BY ConstantsAssumption
<1>1. Bad = {}
  <2>. SUFFICES ASSUME Bad # {}  PROVE FALSE
    OBVIOUS
  <2>1. PICK n \in Bad : \A k \in Bad : n <= k
    <3>1. Bad \subseteq Nat
      OBVIOUS
    <3>. HIDE DEF Bad
    <3>. QED  BY <3>1, LeastNatural
  <2>2. n \in Nat /\ ~\E f : Table(f, n)
    OBVIOUS
  <2>3. PICK f : \A k \in 0 .. n - 1 : f[k] = Step(f, k)
    <3>1. CASE n = 0
      BY <3>1
    <3>2. CASE n # 0
      <4>1. n - 1 \in Nat /\ ~(n <= n - 1)
        BY <2>2, <3>2
      <4>2. n - 1 \notin Bad
        <5>. HIDE DEF Bad
        <5>. QED  BY <2>1, <4>1
      <4>3. PICK f : Table(f, n - 1)
        BY <4>1, <4>2
      <4>. HIDE DEF Step
      <4>4. \A k \in 0 .. n - 1 : f[k] = Step(f, k)
        BY <4>3
      <4>. QED  BY <4>4
    <3>. QED  BY <3>1, <3>2
  <2>. DEFINE g == [k \in 0 .. n |-> Step(f, k)]
  <2>4. \A k \in 0 .. n : Step(g, k) = Step(f, k)
    <3>. SUFFICES ASSUME NEW k \in 0 .. n  PROVE Step(g, k) = Step(f, k)
      OBVIOUS
    <3>1. k # 0 => k - 1 \in 0 .. n /\ k - 1 \in 0 .. n - 1
      BY <2>2
    <3>2. k # 0 => g[k - 1] = f[k - 1]
      <4>1. k # 0 => g[k - 1] = Step(f, k - 1)
        <5>. HIDE DEF Step
        <5>. QED  BY <3>1
      <4>. HIDE DEF Step, g
      <4>. QED  BY <2>3, <3>1, <4>1
    <3>. HIDE DEF g
    <3>. QED  BY <3>2
  <2>5. Table(g, n)
    <3>. HIDE DEF Step
    <3>. QED  BY <2>4
  <2>. QED  BY <2>2, <2>5
<1>2. Doubled = CHOOSE f : Table(f, RepsModulus)
  BY Zenon DEF Doubled
<1>3. Table(Doubled, RepsModulus)
  <2>1. \E f : Table(f, RepsModulus)
    BY <1>1, <1>m
  <2>. HIDE DEF Table
  <2>. QED  BY <1>2, <2>1
<1>4. \A k \in 0 .. RepsModulus : Doubled[k] = Step(Doubled, k)
  <2>. HIDE DEF Step
  <2>. QED  BY <1>3
<1>5. 0 \in 0 .. RepsModulus /\ \A k \in 1 .. RepsModulus : k \in 0 .. RepsModulus /\ k # 0
  BY <1>m
<1>. QED  BY <1>4, <1>5

\* The steps that are printed.
Shown == {n \in 0 .. RepsModulus : \A j \in 0 .. n : StepFits(j)}

LEMMA PlannedShown == Planned = {[r |-> Doubled[k], v |-> V0] : k \in Shown}
BY DEF Planned, Shown

\* Once the loop has wrapped it stays at 0.
LEMMA StaysWrapped ==
  ASSUME NEW z \in 0 .. RepsModulus, Doubled[z] = 0
  PROVE  \A k \in z .. RepsModulus : Doubled[k] = 0
<1>. DEFINE Bad == {k \in z .. RepsModulus : Doubled[k] # 0}
<1>. SUFFICES ASSUME Bad # {}  PROVE FALSE
  OBVIOUS
<1>m. RepsModulus \in Nat \ {0}
  BY ConstantsAssumption
<1>1. PICK k \in Bad : \A j \in Bad : k <= j
  <2>1. Bad \subseteq Nat
    BY <1>m
  <2>. HIDE DEF Bad
  <2>. QED  BY <2>1, LeastNatural
<1>2. k \in z .. RepsModulus /\ Doubled[k] # 0 /\ k # z
  OBVIOUS
<1>3. k - 1 \in z .. RepsModulus /\ k \in 1 .. RepsModulus /\ ~(k <= k - 1)
  BY <1>2, <1>m
<1>4. Doubled[k - 1] = 0
  BY <1>1, <1>3
<1>5. (2 * 0) % RepsModulus = 0
  BY <1>m
<1>. QED  BY <1>2, <1>3, <1>4, <1>5, DoubledSteps

\* A step of the loop is a uint32.
LEMMA DoubledType == \A k \in 0 .. RepsModulus : Doubled[k] \in Nat /\ Doubled[k] < RepsModulus
<1>. DEFINE Bad == {k \in 0 .. RepsModulus : ~(Doubled[k] \in Nat /\ Doubled[k] < RepsModulus)}
<1>. SUFFICES ASSUME Bad # {}  PROVE FALSE
  OBVIOUS
<1>m. RepsModulus \in Nat \ {0} /\ RepsModulus > 2
  BY ConstantsAssumption, ModulusAssumption DEF Start
<1>1. PICK k \in Bad : \A j \in Bad : k <= j
  <2>1. Bad \subseteq Nat
    BY <1>m
  <2>. HIDE DEF Bad
  <2>. QED  BY <2>1, LeastNatural
<1>2. k \in 0 .. RepsModulus /\ ~(Doubled[k] \in Nat /\ Doubled[k] < RepsModulus)
  OBVIOUS
<1>3. k # 0
  BY <1>2, <1>m, DoubledSteps DEF Start
<1>4. k - 1 \in 0 .. RepsModulus /\ k \in 1 .. RepsModulus /\ ~(k <= k - 1)
  BY <1>2, <1>3, <1>m
<1>5. Doubled[k - 1] \in Nat
  BY <1>1, <1>4
<1>6. (2 * Doubled[k - 1]) % RepsModulus \in 0 .. RepsModulus - 1
  <2>1. PICK j \in Nat : j = Doubled[k - 1]
    BY <1>5
  <2>. QED  BY <1>m, <2>1
<1>. QED  BY <1>2, <1>4, <1>6, <1>m, DoubledSteps

\* The plan that ends climbs: each step it prints is a power of two that did not wrap,
\* and more than every step before.
LEMMA ShownAscends ==
  ASSUME PlanEnds
  PROVE  \A n \in Shown : /\ Rung(Doubled[n]) /\ Doubled[n] \in Nat /\ n + 1 \in 1 .. RepsModulus
                          /\ \A j \in 0 .. n - 1 : j \in Shown /\ Doubled[j] < Doubled[n]
<1>. DEFINE Good(n) == /\ Rung(Doubled[n]) /\ Doubled[n] \in Nat /\ n < Doubled[n]
                       /\ \A j \in 0 .. n - 1 : Doubled[j] < Doubled[n]
            Bad == {n \in Shown : ~Good(n)}
<1>m. RepsModulus \in Nat \ {0} /\ MaxProduct \in Int /\ V0 \in Nat \ {0}
  BY ConstantsAssumption, V0Type
<1>s. Shown \subseteq 0 .. RepsModulus /\ \A n \in Shown : \A j \in 0 .. n - 1 : j \in Shown
  <2>. SUFFICES ASSUME NEW n \in Shown, NEW j \in 0 .. n - 1  PROVE j \in Shown
    BY DEF Shown
  <2>1. j \in 0 .. RepsModulus /\ \A i \in 0 .. j : i \in 0 .. n
    BY <1>m DEF Shown
  <2>. QED  BY <2>1 DEF Shown
<1>0. \A n \in Shown : Doubled[n] # 0
  <2>. SUFFICES ASSUME NEW n \in Shown, Doubled[n] = 0  PROVE FALSE
    OBVIOUS
  <2>1. PICK k \in 0 .. RepsModulus : ~StepFits(k)
    BY DEF PlanEnds
  <2>2. n \in 0 .. RepsModulus /\ \A j \in 0 .. n : StepFits(j)
    BY DEF Shown
  <2>3. k \in n .. RepsModulus /\ n \in 0 .. n
    BY <2>1, <2>2, <1>m
  <2>4. Doubled[k] = 0
    BY <2>2, <2>3, StaysWrapped
  <2>. QED  BY <2>1, <2>2, <2>3, <2>4 DEF StepFits
<1>1. Bad = {}
  <2>. SUFFICES ASSUME Bad # {}  PROVE FALSE
    OBVIOUS
  <2>1. PICK n \in Bad : \A k \in Bad : n <= k
    <3>1. Bad \subseteq Shown
      <4>. HIDE DEF Good
      <4>. QED  OBVIOUS
    <3>2. Bad \subseteq Nat
      <4>. HIDE DEF Bad
      <4>. QED  BY <1>m, <1>s, <3>1
    <3>. HIDE DEF Bad
    <3>. QED  BY <3>2, LeastNatural
  <2>2. n \in Shown /\ n \in 0 .. RepsModulus /\ ~Good(n)
    BY <1>s
  <2>3. CASE n = 0
    <3>1. Rung(Doubled[0]) /\ Doubled[0] = 2
      BY StartIsRung, DoubledSteps DEF Start
    <3>. QED  BY <2>2, <2>3, <3>1
  <2>4. CASE n # 0
    <3>1. n - 1 \in Shown /\ n - 1 \in Nat /\ n \in 1 .. RepsModulus /\ ~(n <= n - 1)
      BY <1>s, <2>2, <2>4
    <3>2. Good(n - 1)
      <4>. HIDE DEF Good
      <4>. QED  BY <2>1, <3>1
    <3>. DEFINE d == Doubled[n - 1]
    <3>3. Doubled[n] = 2 * d /\ Rung(2 * d)
      <4>1. d \in Nat /\ Rung(d)
        BY <3>2
      <4>2. Doubled[n] = (2 * d) % RepsModulus /\ Doubled[n] # 0
        BY <1>0, <2>2, <3>1, DoubledSteps
      <4>. HIDE DEF d
      <4>. QED  BY <4>1, <4>2, Doubling
    <3>4. d \in Nat /\ n - 1 < d /\ \A j \in 0 .. n - 2 : Doubled[j] < d
      BY <3>1, <3>2
    <3>5. ASSUME NEW j \in 0 .. n - 1  PROVE Doubled[j] < Doubled[n]
      <4>1. j = n - 1 \/ j \in 0 .. n - 2
        BY <3>1
      <4>2. j \in 0 .. n - 2 => Doubled[j] \in Nat
        <5>1. j \in 0 .. n - 2 => j \in Shown /\ j \in Nat /\ ~(n <= j)
          BY <1>s, <2>2, <3>5
        <5>2. j \in 0 .. n - 2 => Good(j)
          <6>. HIDE DEF Good
          <6>. QED  BY <2>1, <5>1
        <5>. QED  BY <5>2
      <4>. HIDE DEF d
      <4>3. CASE j = n - 1
        BY <3>3, <3>4, <4>3 DEF d
      <4>4. CASE j \in 0 .. n - 2
        BY <3>3, <3>4, <4>2, <4>4
      <4>. QED  BY <4>1, <4>3, <4>4
    <3>. HIDE DEF d
    <3>6. Doubled[n] \in Nat /\ n < Doubled[n] /\ Rung(Doubled[n])
      BY <3>1, <3>3, <3>4
    <3>. QED  BY <2>2, <3>5, <3>6
  <2>. QED  BY <2>3, <2>4
<1>2. \A n \in Shown : Good(n)
  <2>. HIDE DEF Good
  <2>. QED  BY <1>1
<1>. QED
  <2>. SUFFICES ASSUME NEW n \in Shown
                PROVE  /\ Rung(Doubled[n]) /\ Doubled[n] \in Nat /\ n + 1 \in 1 .. RepsModulus
                       /\ \A j \in 0 .. n - 1 : j \in Shown /\ Doubled[j] < Doubled[n]
    OBVIOUS
  <2>1. Good(n)
    <3>. HIDE DEF Good
    <3>. QED  BY <1>2
  <2>2. n \in Nat /\ n < Doubled[n] /\ Doubled[n] < RepsModulus /\ Doubled[n] \in Nat
    BY <1>s, <2>1 DEF Rung
  <2>. QED  BY <1>m, <1>s, <2>1, <2>2

\* So does the step after those that are printed.
LEMMA NextAscends ==
  ASSUME PlanEnds, NEW k \in 0 .. RepsModulus, \A j \in 0 .. k - 1 : j \in Shown
  PROVE  Doubled[k] \in Nat /\ \A j \in 0 .. k - 1 : Doubled[j] < Doubled[k]
<1>m. RepsModulus \in Nat /\ MaxProduct \in Int /\ V0 \in Nat \ {0}
  BY ConstantsAssumption, V0Type
<1>1. CASE k = 0
  <2>1. Doubled[0] = 2
    BY DoubledSteps DEF Start
  <2>. QED  BY <1>1, <2>1
<1>2. CASE k \in Shown
  BY <1>2, ShownAscends
<1>3. CASE k # 0 /\ k \notin Shown
  <2>1. k - 1 \in Shown /\ k \in 1 .. RepsModulus /\ k - 1 \in Nat
    BY <1>3, <1>m
  <2>. DEFINE d == Doubled[k - 1]
  <2>2. /\ Rung(d) /\ d \in Nat /\ \A j \in 0 .. k - 2 : Doubled[j] < d
        /\ \A j \in 0 .. k - 1 : Doubled[j] \in Nat
    <3>1. \A j \in 0 .. (k - 1) - 1 : Doubled[j] < d
      BY <2>1, ShownAscends
    <3>2. (k - 1) - 1 = k - 2
      BY <2>1
    <3>. QED  BY <2>1, <3>1, <3>2, ShownAscends
  <2>3. Doubled[k] = (2 * d) % RepsModulus
    BY <2>1, DoubledSteps
  <2>. HIDE DEF d
  <2>4. Doubled[k] # 0
    <3>. SUFFICES ASSUME Doubled[k] = 0  PROVE k \in Shown
      BY <1>3
    <3>1. \A j \in 0 .. k - 1 : StepFits(j)
      <4>1. ASSUME NEW j \in 0 .. k - 1  PROVE j \in 0 .. j
        OBVIOUS
      <4>. QED  BY <4>1 DEF Shown
    <3>2. StepFits(k)
      <4>1. d * V0 <= MaxProduct /\ d * V0 \in Nat
        <5>1. k - 1 \in 0 .. k - 1
          BY <2>1
        <5>. QED  BY <1>m, <2>2, <3>1, <5>1 DEF StepFits, d
      <4>. QED  BY <1>m, <4>1 DEF StepFits
    <3>3. \A j \in 0 .. k : j = k \/ j \in 0 .. k - 1
      BY <2>1
    <3>. QED  BY <3>1, <3>2, <3>3 DEF Shown
  <2>5. Doubled[k] = 2 * d
    BY <2>2, <2>3, <2>4, Doubling
  <2>6. d > 0
    BY <2>2 DEF Rung
  <2>7. ASSUME NEW j \in 0 .. k - 1  PROVE Doubled[j] < Doubled[k]
    <3>1. j = k - 1 \/ j \in 0 .. k - 2
      BY <2>1
    <3>2. Doubled[j] <= d /\ Doubled[j] \in Nat
      <4>1. CASE j = k - 1
        BY <2>2, <4>1 DEF d
      <4>. QED  BY <2>2, <3>1, <4>1
    <3>. QED  BY <2>2, <2>5, <2>6, <3>2
  <2>. QED  BY <2>2, <2>5, <2>7
<1>. QED  BY <1>1, <1>2, <1>3

\* The steps of the ladder below step k, and what the plan shows of a setting.
StepsBelow(k) == {[r |-> Doubled[j], v |-> V0] : j \in 0 .. k - 1}
Foreseen(s) == s.v \in PlannedVars /\ \E p \in Planned : Product(s) <= Product(p)

\* The search is at step k of the ladder, with those below it measured.
AtStep(k) ==
  /\ reps = Doubled[k] /\ \A j \in 0 .. k - 1 : j \in Shown
  /\ InCall => k \in Shown
  /\ pc \in {"next", "trial"} => measured = StepsBelow(k)
  /\ InTrial \/ (pc = "return" /\ got # "nil") => measured = StepsBelow(k + 1)
Climbs == phase = "escalate" => \E k \in 0 .. RepsModulus : AtStep(k)

\* What is in the log, and what trial() is called with, was foreseen.
LogForeseen == (\A i \in DOMAIN trials : Foreseen(trials[i].s)) /\ (InCall => Foreseen(cur))

\* Until something is in the log the first step is pending, and open to the ceiling.
First == [r |-> Start.r, v |-> V0]
FirstPending ==
  /\ phase = "escalate" /\ reps = Start.r /\ StartProduct < ceiling
  /\ pc = "next" \/ Open
  /\ pc \in {"next", "trial"} => measured = {}
FirstLogged ==
  Planned # {} => IF trials = <<>> THEN Whole => FirstPending ELSE trials[1].s = First

PlanInv == Searching /\ PlanEnds => Climbs /\ LogForeseen /\ FirstLogged

\* The next step of the ladder adds itself to those measured.
LEMMA BelowGrows ==
  ASSUME NEW k \in Nat
  PROVE  StepsBelow(k + 1) = StepsBelow(k) \cup {[r |-> Doubled[k], v |-> V0]}
<1>1. 0 .. (k + 1) - 1 = (0 .. k - 1) \cup {k}
  OBVIOUS
<1>. QED  BY <1>1 DEF StepsBelow

LEMMA ClimbStep ==
  ASSUME TypeInv, PhaseInv, PlanEnds, Climbs, [Next]_vars
  PROVE  Climbs'
<1>. USE DEF ladder, runner, verdict, Return, Stop
<1>. SUFFICES ASSUME phase' = "escalate"
              PROVE  \E k \in 0 .. RepsModulus : AtStep(k)'
  BY DEF Climbs
<1>m. RepsModulus \in Nat \ {0}
  BY ConstantsAssumption
<1>c. \A k : Shown' = Shown /\ StepsBelow(k)' = StepsBelow(k)
  BY DEF Shown, StepsBelow, V0, StepFits
<1>p. phase = "escalate"
  <2>1. CASE Choose
    BY <2>1 DEF Choose, EscalateStep, EscalateCap, EscalateVetoed, EscalateFailed,
       EscalateClean, BisectStep, BisectReturn, BisectEnd, SplitStep, SplitEnd, TryStep,
       TryEnd, ListReturn, Proceed
  <2>2. CASE ~Choose
    BY <2>2, OtherKeeps
  <2>. QED  BY <2>1, <2>2
<1>1. PICK k \in 0 .. RepsModulus : AtStep(k)
  BY <1>p DEF Climbs
<1>2. CASE EscalateStep
  <2>1. StepFits(k)
    BY <1>1, <1>2 DEF EscalateStep, AtStep, Product, StepFits
  <2>2. \A j \in 0 .. k : j = k \/ j \in 0 .. k - 1
    BY <1>m
  <2>3. \A j \in 0 .. k - 1 : StepFits(j)
    <3>1. ASSUME NEW j \in 0 .. k - 1  PROVE j \in 0 .. j
      OBVIOUS
    <3>. QED  BY <1>1, <3>1 DEF AtStep, Shown
  <2>4. k \in Shown
    BY <2>1, <2>2, <2>3 DEF Shown
  <2>5. reps' = reps /\ pc = "next" /\ pc' = "trial" /\ measured' = measured
    BY <1>2 DEF EscalateStep, Call
  <2>6. AtStep(k)'
    BY <1>1, <1>c, <2>4, <2>5 DEF AtStep, InTrial
  <2>. QED  BY <2>6
<1>3. CASE EscalateClean
  <2>1. reps' = (2 * reps) % RepsModulus /\ pc' = "next" /\ measured' = measured
    BY <1>3 DEF EscalateClean, Proceed
  <2>2. k \in Shown /\ measured = StepsBelow(k + 1)
    BY <1>1, <1>3 DEF EscalateClean, AtStep, InCall
  <2>3. k + 1 \in 1 .. RepsModulus /\ k + 1 \in 0 .. RepsModulus
    BY <1>m, <2>2, ShownAscends
  <2>4. reps' = Doubled[k + 1]
    BY <1>1, <2>1, <2>3, DoubledSteps DEF AtStep
  <2>5. \A j \in 0 .. (k + 1) - 1 : j \in Shown
    <3>1. \A j \in 0 .. (k + 1) - 1 : j = k \/ j \in 0 .. k - 1
      BY <1>m
    <3>. QED  BY <1>1, <2>2, <3>1 DEF AtStep
  <2>6. AtStep(k + 1)'
    BY <1>c, <2>1, <2>2, <2>4, <2>5 DEF AtStep, InTrial, InCall, Open
  <2>. QED  BY <2>3, <2>6
<1>4. CASE Admit
  <2>1. pc = "trial" /\ pc' = "cool" /\ reps' = reps /\ measured' = measured \cup {cur}
    BY <1>4 DEF Admit
  <2>2. cur = [r |-> Doubled[k], v |-> V0] /\ k \in Shown /\ measured = StepsBelow(k)
    BY <1>1, <1>p, <2>1 DEF PhaseInv, CallInv, AtStep, InCall, Open
  <2>3. measured' = StepsBelow(k + 1)
    <3>1. k \in Nat
      BY <1>m
    <3>. QED  BY <2>1, <2>2, <3>1, BelowGrows
  <2>4. AtStep(k)'
    BY <1>1, <1>c, <2>1, <2>2, <2>3 DEF AtStep
  <2>. QED  BY <2>4
<1>5. CASE ~EscalateStep /\ ~EscalateClean /\ ~Admit
  <2>1. ~Choose
    BY <1>5, <1>p DEF Choose, EscalateCap, EscalateVetoed, EscalateFailed,
       BisectStep, BisectReturn, BisectEnd, SplitStep, SplitEnd, TryStep,
       TryEnd, ListReturn, Proceed
  <2>2. reps' = reps /\ (InCall' => InCall)
    BY <2>1, OtherKeeps
  <2>3. /\ measured' = measured
        /\ pc' \in {"next", "trial"} => pc' = pc
        /\ InTrial' \/ (pc' = "return" /\ got' # "nil")
             => InTrial \/ (pc = "return" /\ got # "nil")
    BY <1>5, <2>1 DEF Next, RunStep, TrialStep, Terminated, Skip, Interrupted, Exhausted,
       Cooldown, ProbeAborts, ProbeStressed, ProbeOk, WalkClean, TrialClean, TrialFailed,
       TransportError, FinalSkipped, FinalAsk, FinalProbe, Proceed, ContextDone, vars,
       InTrial
  <2>4. AtStep(k)'
    BY <1>1, <1>c, <2>2, <2>3 DEF AtStep
  <2>. QED  BY <2>4
<1>. QED  BY <1>2, <1>3, <1>4, <1>5

\* What trial() is called with was foreseen: it is a step of the plan, or asks for less
\* than one that is in the log.
LEMMA CallForeseen ==
  ASSUME TypeInv, LogInv, PhaseInv, PlanEnds, Searching, Climbs, LogForeseen, [Next]_vars,
         InCall'
  PROVE  Foreseen(cur')
<1>. USE DEF PhaseInv
<1>t. /\ reps \in Nat /\ lastGoodR \in Nat /\ firstBadR \in Nat /\ V0 \in Nat \ {0}
      /\ pc' # "done"
  BY V0Type DEF TypeInv, TypeOK, InCall, Open
<1>s. Searching'
  BY SameSearch
<1>d. CallInv' /\ Climbs'
  BY CallStep, ClimbStep
<1>c. Shown' = Shown /\ V0' = V0 /\ SplitCandidates' = SplitCandidates
  BY DEF Shown, V0, StepFits, SplitCandidates
<1>1. CASE EscalateStep
  <2>1. phase' = "escalate" /\ cur' = [r |-> reps', v |-> V0]
    BY <1>1 DEF EscalateStep, Call, ladder
  <2>2. PICK k \in 0 .. RepsModulus : reps' = Doubled[k] /\ k \in Shown
    BY <1>c, <1>d, <2>1 DEF Climbs, AtStep
  <2>3. cur' \in Planned
    BY <2>1, <2>2, PlannedShown
  <2>4. Doubled[k] \in Nat
    BY <2>2, ShownAscends
  <2>5. Product(cur') <= Product(cur')
    BY <1>t, <2>1, <2>2, <2>4 DEF Product
  <2>. QED  BY <2>1, <2>3, <2>5 DEF Foreseen, PlannedVars
<1>2. CASE BisectStep
  <2>1. /\ cur'.v = V0 /\ cur'.r = (lastGoodR + firstBadR) \div 2 /\ cur'.r < firstBadR
        /\ firstBadR > 0 /\ cur'.r \in Nat
    <3>1. phase' = "bisect" /\ firstBadR' = firstBadR /\ firstBadR > 0
      BY <1>2 DEF BisectStep, Wide, ladder
    <3>2. cur' = [r |-> (lastGoodR + firstBadR) \div 2, v |-> V0]
      BY <1>2 DEF BisectStep, Call
    <3>. QED  BY <1>t, <1>d, <3>1, <3>2 DEF CallInv
  <2>2. PICK i \in DOMAIN trials : trials[i].s = [r |-> firstBadR, v |-> V0]
    <3>1. pc # "done"
      BY <1>2 DEF BisectStep
    <3>2. Measured(firstBadR, FALSE)
      BY <2>1, <3>1 DEF BracketInv
    <3>. QED  BY <3>2 DEF Measured
  <2>3. PICK p \in Planned : firstBadR * V0 <= Product(p)
    <3>1. Foreseen([r |-> firstBadR, v |-> V0])
      BY <2>2 DEF LogForeseen
    <3>. QED  BY <3>1 DEF Foreseen, Product
  <2>4. Product(p) \in Nat
    <3>1. PICK k \in Shown : p = [r |-> Doubled[k], v |-> V0]
      BY PlannedShown
    <3>. QED  BY <1>t, <3>1, ShownAscends DEF Product
  <2>5. cur'.r * V0 <= firstBadR * V0 /\ cur'.r * V0 \in Nat /\ firstBadR * V0 \in Nat
    <3>1. \A a, b, c \in Nat : a < b => a * c <= b * c /\ a * c \in Nat /\ b * c \in Nat
      OBVIOUS
    <3>. QED  BY <1>t, <2>1, <3>1
  <2>6. Product(cur') <= Product(p)
    BY <2>1, <2>3, <2>4, <2>5 DEF Product
  <2>. QED  BY <2>1, <2>6 DEF Foreseen, PlannedVars
<1>3. CASE SplitStep
  <2>1. PICK v \in SplitLeft : cur' = [r |-> SplitReps(v), v |-> v]
    BY <1>3 DEF SplitStep, Call, SplitSetting
  <2>2. v \in SplitCandidates /\ v \in Nat \ {0} /\ lastGoodR > 0
    BY CandidatesType DEF SplitLeft, SplitFits
  <2>3. Product(cur') <= lastGoodR * V0 /\ Product(cur') \in Nat /\ lastGoodR * V0 \in Nat
    <3>1. SplitReps(v) \in Nat /\ SplitReps(v) * v <= lastGoodR * V0
      BY <2>2, SplitDivides DEF TypeInv
    <3>2. lastGoodR * V0 \in Nat /\ SplitReps(v) * v \in Nat
      BY <1>t, <2>2, <3>1
    <3>. QED  BY <2>1, <3>1, <3>2 DEF Product
  <2>4. PICK i \in DOMAIN trials : trials[i].s = [r |-> lastGoodR, v |-> V0]
    <3>1. pc # "done"
      BY <1>3 DEF SplitStep
    <3>2. Measured(lastGoodR, TRUE)
      BY <2>2, <3>1 DEF BracketInv
    <3>. QED  BY <3>2 DEF Measured
  <2>5. PICK p \in Planned : lastGoodR * V0 <= Product(p)
    <3>1. Foreseen([r |-> lastGoodR, v |-> V0])
      BY <2>4 DEF LogForeseen
    <3>. QED  BY <3>1 DEF Foreseen, Product
  <2>6. Product(p) \in Nat
    <3>1. PICK k \in Shown : p = [r |-> Doubled[k], v |-> V0]
      BY PlannedShown
    <3>. QED  BY <1>t, <3>1, ShownAscends DEF Product
  <2>7. Product(cur') <= Product(p)
    BY <2>3, <2>5, <2>6
  <2>. QED  BY <2>1, <2>2, <2>7 DEF Foreseen, PlannedVars
<1>4. CASE Choose /\ ~EscalateStep /\ ~BisectStep /\ ~SplitStep
  <2>1. ~InCall' \/ phase' = "try"
    BY <1>4 DEF Choose, EscalateCap, EscalateVetoed, EscalateFailed, EscalateClean,
       BisectReturn, BisectEnd, SplitEnd, TryStep, TryEnd, ListReturn, Proceed,
       InCall, Open
  <2>. QED  BY <1>s, <2>1 DEF Searching
<1>5. CASE ~Choose
  BY <1>5, OtherKeeps DEF LogForeseen
<1>. QED  BY <1>1, <1>2, <1>3, <1>4, <1>5

LEMMA ForeseenStep ==
  ASSUME TypeInv, LogInv, PhaseInv, PlanEnds, Searching, Climbs, LogForeseen, [Next]_vars
  PROVE  LogForeseen'
<1>c. \A s : Foreseen(s)' = Foreseen(s)
  BY DEF Foreseen, Planned, PlannedVars, SplitCandidates, V0, StepFits, Product
<1>1. InCall' => Foreseen(cur')
  BY CallForeseen
<1>2. \A i \in DOMAIN trials' : Foreseen(trials'[i].s)
  <2>1. CASE trials' = trials
    BY <2>1 DEF LogForeseen
  <2>2. CASE Noted
    <3>1. PICK ok \in BOOLEAN, score \in Nat, n \in 1 .. Repeats :
            NoteTrial(ok, score, n) /\ InTrial
      BY <2>2 DEF Noted
    <3>2. /\ DOMAIN trials' = 1 .. Len(trials) + 1 /\ DOMAIN trials = 1 .. Len(trials)
          /\ \A j \in 1 .. Len(trials) : trials'[j] = trials[j]
          /\ trials'[Len(trials) + 1].s = cur /\ Len(trials) \in Nat
      BY <3>1, NoteTrialEffect DEF TypeInv
    <3>3. Foreseen(cur)
      BY <3>1 DEF LogForeseen, InTrial, InCall, Open
    <3>4. \A i \in DOMAIN trials' : i = Len(trials) + 1 \/ i \in DOMAIN trials
      BY <3>2
    <3>. QED  BY <3>2, <3>3, <3>4 DEF LogForeseen
  <2>3. CASE Condemned
    BY <2>3, CondemnEffect DEF LogForeseen
  <2>. QED  BY <2>1, <2>2, <2>3, LogShape
<1>. QED  BY <1>c, <1>1, <1>2 DEF LogForeseen

\* A max-product with which the plan ends is no int that a ladder overflows.
LEMMA PlanBudget == PlanEnds => MaxProduct < MaxInt
<1>. SUFFICES ASSUME PlanEnds  PROVE MaxProduct < MaxInt
  OBVIOUS
<1>m. /\ RepsModulus \in Nat \ {0} /\ MaxProduct \in Int /\ MaxInt \in Nat /\ V0 \in Nat
      /\ V0 <= 10 /\ RepsModulus > 2 /\ 10 * RepsModulus <= MaxInt
  BY ConstantsAssumption, ModulusAssumption, IntAssumption, V0Type DEF V0, AtMost, Start
<1>k. PICK k \in 0 .. RepsModulus : ~(Doubled[k] * V0 <= MaxProduct)
  BY DEF PlanEnds, StepFits
<1>2. Doubled[k] \in Nat /\ Doubled[k] < RepsModulus
  BY DoubledType
<1>3. \A a, b, c \in Nat : a < b /\ c <= 10 => a * c <= 10 * b
  OBVIOUS
<1>4. Doubled[k] * V0 <= 10 * RepsModulus /\ Doubled[k] * V0 \in Nat
  BY <1>m, <1>2, <1>3
<1>. QED  BY <1>k, <1>m, <1>4

LEMMA FirstWithin == Planned # {} => Product(First) <= MaxProduct /\ Product(First) = StartProduct
<1>. SUFFICES ASSUME Planned # {}  PROVE Doubled[0] * V0 <= MaxProduct
  BY DoubledSteps DEF First, Product, StartProduct
<1>1. PICK k \in 0 .. RepsModulus : \A j \in 0 .. k : StepFits(j)
  BY DEF Planned
<1>2. 0 \in 0 .. k
  OBVIOUS
<1>. QED  BY <1>1, <1>2 DEF StepFits

LEMMA FirstStep ==
  ASSUME TypeInv, LogInv, PhaseInv, WholeInv, FirstLogged, [Next]_vars
  PROVE  FirstLogged'
<1>. USE DEF ladder, runner, verdict, Return, InTrial, Open
<1>t. /\ ceiling \in Int /\ MaxProduct \in Int /\ lastGood \in Nat
      /\ trials \in Seq(Trial) /\ StartProduct \in Nat
  BY V0Type, ConstantsAssumption DEF TypeInv, TypeOK
<1>c. Planned' = Planned /\ First' = First /\ StartProduct' = StartProduct
  BY DEF Planned, V0, StepFits, First, StartProduct
<1>. SUFFICES ASSUME Planned # {}
              PROVE  IF trials' = <<>> THEN Whole' => FirstPending' ELSE trials'[1].s = First
  BY <1>c DEF FirstLogged
<1>f. Product(First) <= MaxProduct /\ Product(First) = StartProduct
  BY FirstWithin
<1>1. CASE trials # <<>>
  <2>1. 1 \in DOMAIN trials /\ trials[1].s = First
    BY <1>1, <1>t DEF FirstLogged
  <2>2. 1 \in DOMAIN trials' /\ trials'[1].s = First
    BY <2>1, LogKeeps
  <2>3. trials' # <<>>
    BY <2>2
  <2>. QED  BY <2>2, <2>3
<1>. SUFFICES ASSUME trials = <<>>
              PROVE  IF trials' = <<>> THEN Whole' => FirstPending' ELSE trials'[1].s = First
  BY <1>1
<1>2. Whole => FirstPending
  BY DEF FirstLogged
<1>3. FirstPending /\ (Open \/ pc = "return") => cur = First
  BY DEF FirstPending, PhaseInv, CallInv, InCall, First
<1>4. CASE Noted
  <2>1. PICK ok \in BOOLEAN, score \in Nat, n \in 1 .. Repeats :
          NoteTrial(ok, score, n) /\ InTrial
    BY <1>4 DEF Noted
  <2>2. /\ DOMAIN trials' = 1 .. Len(trials) + 1 /\ trials'[Len(trials) + 1].s = cur
        /\ Len(trials) = 0
    BY <2>1, NoteTrialEffect DEF TypeInv
  <2>3. cur = First
    BY <1>2, <1>3, <2>1 DEF WholeInv
  <2>. QED  BY <2>2, <2>3
<1>5. ASSUME trials' = <<>>, Whole'  PROVE FirstPending'
  <2>w. Whole /\ ~Interrupted /\ ~Exhausted /\ ~ProbeAborts /\ ~TransportError
    BY <1>5, WholeStep
  <2>p. FirstPending
    BY <1>2, <2>w
  <2>n. ~TrialClean /\ ~TrialFailed
    <3>1. ASSUME NEW ok \in BOOLEAN, NEW score \in Nat, NEW n \in 1 .. Repeats,
                 NoteTrial(ok, score, n)
          PROVE  FALSE
      BY <1>5, <3>1, NoteTrialEffect DEF TypeInv
    <3>2. TrialClean \/ TrialFailed =>
            \E ok \in BOOLEAN, score \in Nat, n \in 1 .. Repeats : NoteTrial(ok, score, n)
      <4>1. runs + 1 \in 1 .. Repeats /\ 0 \in Nat /\ Scores \subseteq Nat
        BY ConstantsAssumption DEF TypeInv, TypeOK
      <4>. QED  BY <4>1 DEF TrialClean, TrialFailed
    <3>. QED  BY <3>1, <3>2
  <2>s. ~Skip
    BY <1>f, <1>t, <1>3, <2>p DEF Skip, Skipped, FirstPending
  <2>1. CASE Choose
    <3>1. EscalateStep
      <4>1. ~EscalateCap
        BY <1>f, <1>t, <2>p DEF EscalateCap, FirstPending, First, Product
      <4>. QED  BY <2>1, <2>p, <4>1 DEF FirstPending, Choose, EscalateVetoed,
                   EscalateFailed, EscalateClean, BisectStep, BisectReturn, BisectEnd,
                   SplitStep, SplitEnd, TryStep, TryEnd, ListReturn
    <3>. QED  BY <1>c, <2>p, <3>1 DEF EscalateStep, Call, FirstPending
  <2>2. CASE ProbeStressed
    <3>1. phase = "escalate" /\ pc = "probe" /\ phase' = phase /\ reps' = reps
      BY <2>2, <2>p DEF ProbeStressed, FirstPending
    <3>2. StartProduct < ceiling' /\ ceiling' \in Int
      BY <1>t, <2>2, <2>p, <3>1 DEF ProbeStressed, StressCeiling, AtMost, AtLeast, FirstPending
    <3>3. pc' = "walk"
      <4>1. Product(cur) = StartProduct
        BY <1>f, <1>3, <2>p, <3>1
      <4>2. ~(Product(cur) >= ceiling')
        BY <1>t, <3>2, <4>1
      <4>. QED  BY <2>2, <4>2 DEF ProbeStressed
    <3>. QED  BY <1>c, <2>p, <3>1, <3>2, <3>3 DEF FirstPending
  <2>3. CASE ~Choose /\ ~ProbeStressed
    <3>1. /\ UNCHANGED <<phase, ladder, ceiling>>
          /\ pc' = "next" \/ Open'
          /\ pc' \in {"next", "trial"} => pc' = pc /\ measured' = measured
      BY <2>3, <2>w, <2>n, <2>s, <2>p DEF FirstPending, Next, RunStep, TrialStep, Terminated,
         Admit, Cooldown, ProbeOk, WalkClean, FinalSkipped, FinalAsk, FinalProbe,
         ContextDone, vars
    <3>. QED  BY <1>c, <2>p, <3>1 DEF FirstPending
  <2>. QED  BY <2>1, <2>2, <2>3
<1>6. CASE trials' = trials
  BY <1>5, <1>6
<1>7. CASE Condemned
  <2>1. Len(trials') = 0 /\ trials' = <<>>
    BY <1>7, CondemnEffect DEF Condemned, Condemn
  <2>. QED  BY <1>5, <2>1
<1>. QED  BY <1>4, <1>6, <1>7, LogShape

LEMMA PlanInvariant == Spec => [](TypeInv /\ PhaseInv /\ SweepInv /\ PlanInv)
<1>1. Init => PlanInv
  <2>. SUFFICES ASSUME Init, Searching, PlanEnds  PROVE Climbs /\ LogForeseen /\ FirstLogged
    BY DEF PlanInv
  <2>0. pc = "next" /\ measured = {} /\ trials = <<>> /\ reps = Start.r /\ phase = "escalate"
    BY DEF Init, Searching
  <2>1. Climbs
    <3>1. 0 \in 0 .. RepsModulus /\ 0 .. 0 - 1 = {}
      BY ConstantsAssumption
    <3>2. StepsBelow(0) = {}
      BY <3>1 DEF StepsBelow
    <3>3. AtStep(0)
      BY <2>0, <3>1, <3>2, DoubledSteps DEF AtStep, InCall, Open, InTrial
    <3>. QED  BY <3>1, <3>3 DEF Climbs
  <2>2. LogForeseen
    BY <2>0 DEF LogForeseen, InCall, Open
  <2>3. FirstLogged
    <3>. SUFFICES ASSUME Planned # {}  PROVE StartProduct < ceiling
      BY <2>0 DEF FirstLogged, FirstPending
    <3>1. ceiling = MaxProduct + 1
      BY PlanBudget, ConstantsAssumption DEF Init, FirstCeiling, Searching
    <3>. QED  BY <3>1, FirstWithin, V0Type, ConstantsAssumption
  <2>. QED  BY <2>1, <2>2, <2>3
<1>2. TypeInv /\ LogInv /\ PhaseInv /\ SweepInv /\ PlanInv /\ [Next]_vars => PlanInv'
  <2>. SUFFICES ASSUME TypeInv, LogInv, PhaseInv, SweepInv, PlanInv, [Next]_vars,
                       Searching', PlanEnds'
                PROVE  Climbs' /\ LogForeseen' /\ FirstLogged'
    BY DEF PlanInv
  <2>1. Searching /\ PlanEnds
    BY SameSearch DEF PlanEnds, StepFits, V0
  <2>. QED  BY <2>1, ClimbStep, ForeseenStep, FirstStep DEF PlanInv, SweepInv, LogFacts
<1>. QED  BY <1>1, <1>2, SweepInvariant, PhaseInvariant, PTL DEF Spec

\* The dry run keeps its word: the search climbs the ladder of the plan step by step,
\* begins with its first step, and asks for nothing the plan does not cover.
THEOREM PlanKeptHolds == Spec => []PlanKept
<1>1. ASSUME TypeInv, PhaseInv, SweepInv, PlanInv, Searching, PlanEnds
      PROVE  /\ phase = "escalate" /\ pc = "next" => measured = {s \in Planned : s.r < reps}
             /\ pc = "done" /\ Whole /\ Planned # {} =>
                  trials # <<>> /\ trials[1].s = [r |-> Start.r, v |-> V0]
             /\ \A i \in DOMAIN trials : Foreseen(trials[i].s)
  <2>1. ASSUME phase = "escalate", pc = "next"
        PROVE  measured = {s \in Planned : s.r < reps}
    <3>1. PICK k \in 0 .. RepsModulus :
            reps = Doubled[k] /\ measured = StepsBelow(k) /\ \A j \in 0 .. k - 1 : j \in Shown
      BY <1>1, <2>1 DEF PlanInv, Climbs, AtStep
    <3>n. k \in Nat /\ Shown \subseteq Nat /\ \A j \in Shown : Doubled[j] \in Nat
      BY <1>1, ConstantsAssumption, ShownAscends DEF Shown
    <3>2. \A j \in Shown : Doubled[j] < Doubled[k] <=> j \in 0 .. k - 1
      <4>. SUFFICES ASSUME NEW j \in Shown  PROVE Doubled[j] < Doubled[k] <=> j \in 0 .. k - 1
        OBVIOUS
      <4>n. j \in Nat /\ Doubled[j] \in Nat
        BY <3>n
      <4>1. j \in 0 .. k - 1 => Doubled[j] < Doubled[k]
        BY <1>1, <3>1, NextAscends
      <4>2. k \in 0 .. j - 1 => Doubled[k] < Doubled[j]
        BY <1>1, ShownAscends
      <4>3. j \in 0 .. k - 1 \/ j = k \/ k \in 0 .. j - 1
        BY <3>n, <4>n
      <4>4. Doubled[k] \in Nat
        BY <1>1, <3>1, NextAscends
      <4>. QED  BY <4>n, <4>1, <4>2, <4>3, <4>4
    <3>. QED  BY <3>1, <3>2, PlannedShown DEF StepsBelow
  <2>2. ASSUME pc = "done", Whole, Planned # {}
        PROVE  trials # <<>> /\ trials[1].s = [r |-> Start.r, v |-> V0]
    BY <1>1, <2>2 DEF PlanInv, FirstLogged, FirstPending, First, Open
  <2>3. \A i \in DOMAIN trials : Foreseen(trials[i].s)
    BY <1>1 DEF PlanInv, LogForeseen
  <2>. QED  BY <2>1, <2>2, <2>3
<1>2. TypeInv /\ PhaseInv /\ SweepInv /\ PlanInv => PlanKept
  BY <1>1 DEF PlanKept, Whole, Foreseen
<1>. QED  BY <1>2, PlanInvariant, PTL
=============================================================================
