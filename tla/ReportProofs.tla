---------------------------- MODULE ReportProofs ----------------------------
(***************************************************************************)
(* What a recommendation may rely on in the outcome of a search: how the   *)
(* clean and the failed trials of a width lie, and how far apart two clean *)
(* trials of the ladder are.                                               *)
(***************************************************************************)
EXTENDS Report, SearchProofs, NaturalLemmas

\* A trial at the width of the ladder, not at one that the split chose.
OnLadder(i) == trials[i].s.v = V0

\* A clean trial of the ladder has returned, and its loop has yet to look at it.
ReturnedOk == pc = "return" /\ got = "ok" /\ phase \in {"escalate", "bisect"}

\* A walk that asks for no repetitions is refused.
RunsWalked == runs > 0 => cur.r > 0

-----------------------------------------------------------------------------
(* What a step adds to the log.                                            *)

\* The trial that is open ends, and is in the log.
Grown(ok) ==
  /\ Open /\ pc' \in {"return", "done"} /\ UNCHANGED <<phase, ladder, cur>>
  /\ cur.r > 0
  /\ Len(trials) \in Nat /\ Len(trials') = Len(trials) + 1
  /\ DOMAIN trials = 1 .. Len(trials) /\ DOMAIN trials' = 1 .. Len(trials) + 1
  /\ \A i \in 1 .. Len(trials) : trials'[i] = trials[i]
  /\ trials'[Len(trials) + 1].s = cur /\ trials'[Len(trials) + 1].ok = ok
  /\ ok => pc' = "return" /\ got' = "ok"
  /\ ~ok => pc' = "done" \/ got' # "ok"

LEMMA LogCases ==
  ASSUME TypeInv, LogInv, RunsWalked, [Next]_vars
  PROVE  trials' = trials \/ Grown(TRUE) \/ Grown(FALSE) \/ Condemned
<1>. USE DEF runner, verdict, Return, Stop, ladder
<1>t. TypeOK
  BY DEF TypeInv
<1>1. ASSUME NEW ok \in BOOLEAN, NEW score \in Nat, NEW n \in 1 .. Repeats,
             NoteTrial(ok, score, n), Open, UNCHANGED <<phase, ladder, cur>>, cur.r > 0,
             pc' \in {"return", "done"},
             ok => pc' = "return" /\ got' = "ok", ~ok => pc' = "done" \/ got' # "ok"
      PROVE  Grown(ok)
  BY <1>t, <1>1, NoteTrialEffect, Zenon DEF Grown
<1>2. ASSUME RecordPartial, Open, UNCHANGED <<phase, ladder, cur>>,
             pc' \in {"return", "done"}, pc' = "done" \/ got' # "ok"
      PROVE  trials' = trials \/ Grown(FALSE)
  <2>1. CASE runs > 0
    <3>1. runs \in 1 .. Repeats /\ 0 \in Nat /\ FALSE \in BOOLEAN /\ cur.r > 0
      BY <1>t, <2>1, ConstantsAssumption DEF TypeOK, RunsWalked
    <3>2. NoteTrial(FALSE, 0, runs)
      BY <1>2, <2>1 DEF RecordPartial
    <3>. QED  BY <1>1, <1>2, <3>1, <3>2
  <2>2. CASE ~(runs > 0)
    BY <1>2, <2>2 DEF RecordPartial
  <2>. QED  BY <2>1, <2>2
<1>3. CASE TrialClean
  <2>1. PICK score \in Scores : NoteTrial(TRUE, score, runs + 1)
    BY <1>3 DEF TrialClean
  <2>2. score \in Nat /\ runs + 1 \in 1 .. Repeats /\ TRUE \in BOOLEAN
    BY <1>t, ConstantsAssumption DEF TypeOK
  <2>3. /\ Open /\ UNCHANGED <<phase, ladder, cur>> /\ cur.r > 0
        /\ pc' = "return" /\ got' = "ok"
    BY <1>3 DEF TrialClean, Open
  <2>. QED  BY <1>1, <2>1, <2>2, <2>3
<1>4. CASE TrialFailed
  <2>1. runs + 1 \in 1 .. Repeats /\ 0 \in Nat /\ FALSE \in BOOLEAN
    BY <1>t, ConstantsAssumption DEF TypeOK
  <2>2. /\ Open /\ UNCHANGED <<phase, ladder, cur>> /\ cur.r > 0
        /\ pc' = "return" /\ got' = "failed" /\ NoteTrial(FALSE, 0, runs + 1)
    BY <1>4 DEF TrialFailed, Open
  <2>. QED  BY <1>1, <2>1, <2>2
<1>5. CASE ProbeAborts \/ Interrupted
  <2>1. CASE Open
    <3>1. RecordPartial /\ UNCHANGED <<phase, ladder, cur>> /\ pc' = "done"
      BY <1>5 DEF ProbeAborts, Interrupted
    <3>. QED  BY <1>2, <2>1, <3>1
  <2>2. CASE ~Open
    BY <1>5, <2>2 DEF Open, ProbeAborts, Interrupted, AsksContext
  <2>. QED  BY <2>1, <2>2
<1>6. CASE ProbeStressed
  <2>1. CASE Product(cur) >= ceiling'
    <3>1. /\ RecordPartial /\ UNCHANGED <<phase, ladder, cur>> /\ pc' = "return" /\ got' = "nil"
          /\ Open
      BY <1>6, <2>1 DEF ProbeStressed, Open
    <3>. QED  BY <1>2, <3>1
  <2>2. CASE ~(Product(cur) >= ceiling')
    BY <1>6, <2>2 DEF ProbeStressed
  <2>. QED  BY <2>1, <2>2
<1>7. CASE FinalProbe
  BY <1>7 DEF FinalProbe, Condemned
<1>8. CASE Choose
  BY <1>8, ChooseKeeps
<1>9. CASE \/ Skip \/ Exhausted \/ Admit \/ Cooldown \/ ProbeOk \/ WalkClean
           \/ TransportError \/ FinalSkipped \/ FinalAsk \/ ContextDone \/ UNCHANGED vars
  BY <1>9 DEF Skip, Exhausted, Admit, Cooldown, ProbeOk, WalkClean, TransportError,
     FinalSkipped, FinalAsk, Proceed, ContextDone, vars
<1>. QED  BY <1>3, <1>4, <1>5, <1>6, <1>7, <1>8, <1>9 DEF Next, RunStep, TrialStep, Terminated

\* Between the return of a trial and its loop nothing else moves.
LEMMA ReturnWaits ==
  ASSUME [Next]_vars, ~Choose, pc = "return"
  PROVE  pc' = pc /\ got' = got /\ trials' = trials
BY DEF Next, RunStep, TrialStep, Terminated, Skip, Interrupted, AsksContext, Exhausted,
   Admit, Cooldown, ProbeAborts, ProbeStressed, ProbeOk, WalkClean, TrialClean,
   TrialFailed, TransportError, Return, Stop, FinalSkipped, FinalAsk, FinalProbe, Proceed,
   ContextDone, vars, Open, runner

\* A run is a search from its start, or never.
LEMMA SearchStays ==
  ASSUME [Next]_vars, Searching'
  PROVE  Searching
<1>1. CASE Choose
  BY <1>1 DEF Choose, EscalateStep, EscalateCap, EscalateVetoed, EscalateFailed, EscalateClean,
     BisectStep, BisectReturn, BisectEnd, SplitStep, SplitEnd, TryStep, TryEnd, ListReturn,
     Proceed, Call, Searching
<1>2. CASE ~Choose
  BY <1>2, OtherKeeps DEF Searching
<1>. QED  BY <1>1, <1>2

LEMMA RunsWalkedStep ==
  ASSUME TypeInv, LogInv, RunsWalked, [Next]_vars
  PROVE  RunsWalked'
<1>t. runs \in Nat /\ cur \in Setting
  BY ConstantsAssumption DEF TypeInv, TypeOK
<1>1. CASE Choose
  <2>1. runs' = 0
    <3>1. runs' = runs /\ ~InTrial
      BY <1>1, ChooseKeeps DEF InTrial
    <3>. QED  BY <1>t, <3>1 DEF LogInv, RunsInTrial
  <2>. QED  BY <2>1 DEF RunsWalked
<1>2. CASE ~Choose
  <2>1. cur' = cur
    BY <1>2, OtherKeeps
  <2>2. runs' = runs \/ runs' = 0 \/ cur.r > 0
    BY <1>2 DEF Next, RunStep, TrialStep, Terminated, Skip, Interrupted, AsksContext, Exhausted,
       Admit, Cooldown, ProbeAborts, ProbeStressed, ProbeOk, WalkClean, TrialClean,
       TrialFailed, TransportError, Return, Stop, FinalSkipped, FinalAsk, FinalProbe, Proceed,
       ContextDone, vars
  <2>. QED  BY <2>1, <2>2 DEF RunsWalked
<1>. QED  BY <1>1, <1>2
-----------------------------------------------------------------------------
(* The trials of one width.                                                *)

\* The clean trials of the ladder lie at or below its last clean step.
CleanBelow ==
  Searching => \A i \in Clean : OnLadder(i) =>
    trials[i].s.r <= lastGoodR \/ (ReturnedOk /\ trials[i].s = cur)

\* Its failed trials lie above that step, and at or above the upper end of the
\* bracket, but for one that its loop has yet to look at.
FailedAbove ==
  Searching /\ pc # "done" => \A i \in Failed : OnLadder(i) =>
    /\ lastGoodR < trials[i].s.r
    /\ phase \in {"escalate", "bisect"} =>
         \/ phase = "bisect" /\ firstBadR <= trials[i].s.r
         \/ pc = "return" /\ got # "ok" /\ trials[i].s = cur

\* Every other width is the split's, and tried once.
SplitOnce ==
  Searching => \A j \in DOMAIN trials : ~OnLadder(j) =>
    /\ phase = "split"
    /\ trials[j].s.v < at \/ (trials[j].s.v = at /\ ~Open)
    /\ \A i \in DOMAIN trials : trials[i].s.v = trials[j].s.v => i = j

\* No trial comes after a clean one as large and as wide.
Ascending ==
  Searching => \A i \in Clean, j \in DOMAIN trials :
    i < j /\ trials[i].s.v = trials[j].s.v => trials[i].s.r < trials[j].s.r

\* The clean trials of a width are smaller than its failed ones.
Separated ==
  Searching => \A i \in Clean, j \in Failed :
    trials[i].s.v = trials[j].s.v => trials[i].s.r < trials[j].s.r

WidthInv == RunsWalked /\ CleanBelow /\ FailedAbove /\ SplitOnce /\ Ascending /\ Separated

LEMMA LogType ==
  ASSUME TypeInv
  PROVE  /\ Len(trials) \in Nat /\ DOMAIN trials = 1 .. Len(trials)
         /\ \A i \in DOMAIN trials : /\ trials[i] \in Trial
                                     /\ trials[i].s \in Setting /\ trials[i].s.r \in Nat
                                     /\ trials[i].s.v \in Nat /\ trials[i].ok \in BOOLEAN
                                     /\ trials[i].score \in Nat /\ trials[i].bytes \in Nat
<1>1. trials \in Seq(Trial) /\ Len(trials) \in Nat /\ DOMAIN trials = 1 .. Len(trials)
  BY LenProperties DEF TypeInv, TypeOK
<1>2. \A i \in DOMAIN trials : trials[i] \in Trial
  BY <1>1, ElementOfSeq
<1>. QED  BY <1>1, <1>2 DEF Trial, Setting

\* Where the setting of an open trial lies.
LEMMA OpenPlace ==
  ASSUME TypeInv, PhaseInv, Open, Searching, cur.r > 0
  PROVE  /\ phase \in {"escalate", "bisect"} => cur.v = V0 /\ lastGoodR < cur.r
         /\ phase = "bisect" => cur.r < firstBadR
         /\ phase = "split" => /\ cur.v = at /\ cur.v # V0
                               /\ lastGoodR > 0 /\ cur.r = SplitReps(at)
         /\ phase \in {"escalate", "bisect", "split"}
<1>1. phase \in {"escalate", "bisect", "split"}
  BY DEF TypeInv, TypeOK, Phases, Searching
<1>2. lastGoodR \in Nat /\ reps \in Nat /\ V0 \in Nat /\ Widest \in Nat
  BY V0Type, ConstantsAssumption DEF TypeInv, TypeOK
<1>3. CASE phase = "escalate"
  BY <1>2, <1>3 DEF PhaseInv, CallInv, LadderInv, InCall
<1>4. CASE phase = "bisect"
  BY <1>2, <1>4 DEF PhaseInv, CallInv, InCall
<1>5. CASE phase = "split"
  <2>1. /\ at \in SplitCandidates /\ lastGoodR > 0
        /\ cur = [r |-> SplitReps(at), v |-> at]
    BY <1>5 DEF PhaseInv, CallInv, InCall, SplitSetting
  <2>2. at # V0
    BY <1>2, <2>1 DEF SplitCandidates
  <2>. QED  BY <1>5, <2>1, <2>2
<1>. QED  BY <1>1, <1>3, <1>4, <1>5

\* What the loops do when a trial of the ladder has returned.
LEMMA LoopTurns ==
  ASSUME TypeInv, PhaseInv, Choose
  PROVE  \/ /\ ReturnedOk /\ lastGoodR' = cur.r /\ lastGoodR < cur.r
            /\ \/ phase = "escalate" /\ phase' \in {"escalate", "bisect"} /\ firstBadR' = 0
               \/ /\ phase = "bisect" /\ phase' = "bisect"
                  /\ firstBadR' = firstBadR /\ cur.r < firstBadR
         \/ /\ ~ReturnedOk /\ lastGoodR' = lastGoodR /\ firstBadR' = cur.r /\ lastGoodR < cur.r
            /\ phase' = "bisect"
            /\ phase = "escalate" \/ (phase = "bisect" /\ cur.r < firstBadR)
         \/ /\ ~ReturnedOk /\ lastGoodR' = lastGoodR /\ firstBadR' = firstBadR
            /\ \/ phase' = phase /\ (phase \in {"escalate", "bisect"} => pc = "next")
               \/ phase = "escalate" /\ phase' = "bisect" /\ firstBadR = 0
               \/ phase' \notin {"escalate", "bisect"}
<1>t. lastGoodR \in Nat /\ reps \in Nat /\ firstBadR \in Nat /\ got \in {"nil", "ok", "failed"}
  BY DEF TypeInv, TypeOK
<1>. USE DEF Proceed, Call, ladder
<1>1. CASE EscalateClean
  <2>1. reps = cur.r /\ reps > 0 /\ lastGoodR < reps /\ firstBadR = 0
    BY <1>1, <1>t DEF EscalateClean, PhaseInv, CallInv, ReturnInv, LadderInv, InCall
  <2>. QED  BY <1>1, <2>1 DEF EscalateClean, ReturnedOk
<1>2. CASE EscalateFailed
  <2>1. reps = cur.r /\ reps > 0 /\ lastGoodR < reps
    BY <1>2, <1>t DEF EscalateFailed, PhaseInv, CallInv, ReturnInv, LadderInv, InCall
  <2>. QED  BY <1>2, <2>1 DEF EscalateFailed, ReturnedOk
<1>3. CASE BisectReturn
  <2>1. lastGoodR < cur.r /\ cur.r < firstBadR /\ phase = "bisect" /\ pc = "return"
    BY <1>3 DEF BisectReturn, PhaseInv, CallInv, InCall
  <2>2. CASE got = "ok"
    BY <1>3, <2>1, <2>2 DEF BisectReturn, Narrowed, ReturnedOk
  <2>3. CASE got = "failed"
    BY <1>3, <2>1, <2>3 DEF BisectReturn, Narrowed, ReturnedOk
  <2>. QED  BY <1>t, <1>3, <2>2, <2>3 DEF BisectReturn
<1>4. CASE EscalateCap \/ EscalateVetoed
  BY <1>4 DEF EscalateCap, EscalateVetoed, PhaseInv, LadderInv, ReturnedOk
<1>5. CASE \/ EscalateStep \/ BisectStep \/ BisectEnd \/ SplitStep \/ SplitEnd
           \/ TryStep \/ TryEnd \/ ListReturn
  BY <1>5 DEF EscalateStep, BisectStep, BisectEnd, SplitStep, SplitEnd, TryStep, TryEnd,
     ListReturn, ReturnedOk
<1>. QED  BY <1>1, <1>2, <1>3, <1>4, <1>5 DEF Choose

LEMMA CleanBelowStep ==
  ASSUME TypeInv, LogInv, PhaseInv, WidthInv, [Next]_vars
  PROVE  CleanBelow'
<1>. SUFFICES ASSUME Searching', NEW i \in DOMAIN trials', trials'[i].ok, trials'[i].s.v = V0
              PROVE  trials'[i].s.r <= lastGoodR' \/ (ReturnedOk' /\ trials'[i].s = cur')
  BY DEF CleanBelow, Clean, OnLadder, V0
<1>s. Searching
  BY SearchStays
<1>t. lastGoodR \in Nat /\ \A k \in DOMAIN trials : trials[k].s.r \in Nat
  BY LogType DEF TypeInv, TypeOK
<1>i. i \in DOMAIN trials /\ trials[i].ok /\ trials[i].s.v = V0 =>
        trials[i].s.r <= lastGoodR \/ (ReturnedOk /\ trials[i].s = cur)
  BY <1>s DEF WidthInv, CleanBelow, Clean, OnLadder
<1>1. CASE Choose
  <2>1. trials' = trials
    BY <1>1, ChooseKeeps DEF runner
  <2>2. ReturnedOk => lastGoodR' = cur.r /\ lastGoodR < cur.r
    BY <1>1, LoopTurns
  <2>3. ~ReturnedOk => lastGoodR' = lastGoodR
    BY <1>1, LoopTurns
  <2>4. cur.r \in Nat
    BY DEF TypeInv, TypeOK, Setting
  <2>. QED  BY <1>i, <1>t, <2>1, <2>2, <2>3, <2>4
<1>2. CASE ~Choose
  <2>k. lastGoodR' = lastGoodR /\ cur' = cur /\ phase' = phase
    BY <1>2, OtherKeeps DEF ladder
  <2>1. CASE trials' = trials
    <3>1. ReturnedOk => ReturnedOk'
      <4>1. pc = "return" => pc' = pc /\ got' = got
        BY <1>2, ReturnWaits, Zenon
      <4>. QED  BY <2>k, <4>1 DEF ReturnedOk
    <3>. QED  BY <1>i, <2>k, <2>1, <3>1
  <2>2. ASSUME NEW ok \in BOOLEAN, Grown(ok)
        PROVE  trials'[i].s.r <= lastGoodR' \/ (ReturnedOk' /\ trials'[i].s = cur')
    <3>1. CASE i \in 1 .. Len(trials)
      <4>1. ~ReturnedOk
        BY <2>2 DEF Grown, Open, ReturnedOk
      <4>. QED  BY <1>i, <2>k, <2>2, <3>1, <4>1 DEF Grown
    <3>2. CASE i = Len(trials) + 1
      <4>1. ok /\ trials'[i].s = cur /\ pc' = "return" /\ got' = "ok" /\ Open /\ cur.r > 0
        BY <2>2, <3>2 DEF Grown
      <4>2. phase \in {"escalate", "bisect"}
        BY <1>s, <4>1, OpenPlace
      <4>. QED  BY <2>k, <4>1, <4>2 DEF ReturnedOk
    <3>. QED  BY <2>2, <3>1, <3>2 DEF Grown
  <2>3. CASE Condemned
    <3>1. i \in DOMAIN trials /\ trials'[i].s = trials[i].s /\ trials[i].ok
      BY <2>3, CondemnEffect
    <3>2. ~ReturnedOk
      BY <2>3 DEF Condemned, ReturnedOk
    <3>. QED  BY <1>i, <2>k, <3>1, <3>2
  <2>. QED  BY <2>1, <2>2, <2>3, LogCases DEF WidthInv
<1>. QED  BY <1>1, <1>2

LEMMA FailedAboveStep ==
  ASSUME TypeInv, LogInv, PhaseInv, WidthInv, [Next]_vars
  PROVE  FailedAbove'
<1>. DEFINE Above(i) == /\ lastGoodR' < trials'[i].s.r
                        /\ phase' \in {"escalate", "bisect"} =>
                             \/ phase' = "bisect" /\ firstBadR' <= trials'[i].s.r
                             \/ pc' = "return" /\ got' # "ok" /\ trials'[i].s = cur'
<1>. SUFFICES ASSUME Searching', pc' # "done",
                     NEW i \in DOMAIN trials', ~trials'[i].ok, trials'[i].s.v = V0
              PROVE  Above(i)
  BY DEF FailedAbove, Failed, OnLadder, V0
<1>s. Searching /\ pc # "done"
  BY SearchStays, ChooseKeeps, OtherKeeps
<1>t. /\ lastGoodR \in Nat /\ firstBadR \in Nat /\ cur.r \in Nat
      /\ \A k \in DOMAIN trials : trials[k].s.r \in Nat
  BY LogType DEF TypeInv, TypeOK, Setting
<1>i. i \in DOMAIN trials /\ ~trials[i].ok /\ trials[i].s.v = V0 =>
        /\ lastGoodR < trials[i].s.r
        /\ phase \in {"escalate", "bisect"} =>
             \/ phase = "bisect" /\ firstBadR <= trials[i].s.r
             \/ pc = "return" /\ got # "ok" /\ trials[i].s = cur
  BY <1>s DEF WidthInv, FailedAbove, Failed, OnLadder
<1>1. CASE Choose
  <2>1. trials' = trials
    BY <1>1, ChooseKeeps DEF runner
  <2>2. ASSUME ReturnedOk, lastGoodR' = cur.r, lastGoodR < cur.r,
               \/ phase = "escalate"
               \/ phase = "bisect" /\ phase' = "bisect" /\ firstBadR' = firstBadR /\ cur.r < firstBadR
        PROVE  Above(i)
    <3>1. phase = "bisect" /\ firstBadR <= trials[i].s.r
      BY <1>i, <2>1, <2>2 DEF ReturnedOk
    <3>. QED  BY <1>t, <2>1, <2>2, <3>1
  <2>3. ASSUME lastGoodR' = lastGoodR, firstBadR' = cur.r, lastGoodR < cur.r, phase' = "bisect",
               phase = "escalate" \/ (phase = "bisect" /\ cur.r < firstBadR)
        PROVE  Above(i)
    BY <1>i, <1>t, <2>1, <2>3
  <2>4. ASSUME lastGoodR' = lastGoodR, firstBadR' = firstBadR,
               \/ phase' = phase /\ (phase \in {"escalate", "bisect"} => pc = "next")
               \/ phase = "escalate" /\ phase' = "bisect" /\ firstBadR = 0
               \/ phase' \notin {"escalate", "bisect"}
        PROVE  Above(i)
    BY <1>i, <1>t, <2>1, <2>4
  <2>. HIDE DEF Above
  <2>. QED  BY <1>1, <2>2, <2>3, <2>4, LoopTurns
<1>2. CASE ~Choose
  <2>k. /\ lastGoodR' = lastGoodR /\ firstBadR' = firstBadR /\ cur' = cur
        /\ phase' = phase
    BY <1>2, OtherKeeps DEF ladder
  <2>1. CASE trials' = trials
    <3>1. pc = "return" => pc' = pc /\ got' = got
      BY <1>2, ReturnWaits, Zenon
    <3>. QED  BY <1>i, <2>k, <2>1, <3>1
  <2>2. ASSUME NEW ok \in BOOLEAN, Grown(ok)
        PROVE  Above(i)
    <3>1. CASE i \in 1 .. Len(trials)
      <4>1. i \in DOMAIN trials /\ trials'[i] = trials[i] /\ pc # "return"
        BY <2>2, <3>1 DEF Grown, Open
      <4>. QED  BY <1>i, <2>k, <4>1
    <3>2. CASE i = Len(trials) + 1
      <4>1. /\ ~ok /\ trials'[i].s = cur /\ pc' = "return" /\ got' # "ok"
            /\ Open /\ cur.r > 0
        BY <2>2, <3>2 DEF Grown
      <4>2. lastGoodR < cur.r
        BY <1>s, <4>1, OpenPlace
      <4>. QED  BY <2>k, <4>1, <4>2
    <3>. QED  BY <2>2, <3>1, <3>2 DEF Grown
  <2>3. CASE Condemned
    BY <2>3 DEF Condemned
  <2>. QED  BY <2>1, <2>2, <2>3, LogCases DEF WidthInv
<1>. QED  BY <1>1, <1>2

LEMMA SplitOnceStep ==
  ASSUME TypeInv, LogInv, PhaseInv, WidthInv, [Next]_vars
  PROVE  SplitOnce'
<1>. DEFINE Once(j) ==
       /\ phase' = "split"
       /\ trials'[j].s.v < at' \/ (trials'[j].s.v = at' /\ ~Open')
       /\ \A i \in DOMAIN trials' : trials'[i].s.v = trials'[j].s.v => i = j
<1>. SUFFICES ASSUME Searching', NEW j \in DOMAIN trials', trials'[j].s.v # V0
              PROVE  Once(j)
  BY DEF SplitOnce, OnLadder, V0
<1>s. Searching
  BY SearchStays
<1>t. at \in Nat /\ \A k \in DOMAIN trials : trials[k].s.v \in Nat
  BY LogType DEF TypeInv, TypeOK
<1>j. \A k \in DOMAIN trials : trials[k].s.v # V0 =>
        /\ phase = "split"
        /\ trials[k].s.v < at \/ (trials[k].s.v = at /\ ~Open)
        /\ \A i \in DOMAIN trials : trials[i].s.v = trials[k].s.v => i = k
  BY <1>s DEF WidthInv, SplitOnce, OnLadder
<1>1. CASE Choose
  <2>1. trials' = trials
    BY <1>1, ChooseKeeps DEF runner
  <2>2. phase = "split"
    BY <1>j, <2>1
  <2>3. phase' = "split" /\ ((at' = at /\ ~Open') \/ at' > at)
    BY <1>1, <2>2 DEF Choose, EscalateStep, EscalateCap, EscalateVetoed, EscalateFailed,
       EscalateClean, BisectStep, BisectReturn, BisectEnd, SplitStep, SplitLeft, SplitEnd,
       TryStep, TryEnd, ListReturn, Proceed, Open, ladder
  <2>4. at' \in Nat
    BY TypeStep DEF TypeInv, TypeOK
  <2>5. trials[j].s.v < at' \/ (trials[j].s.v = at' /\ ~Open')
    BY <1>j, <1>t, <2>1, <2>3, <2>4
  <2>. QED  BY <1>j, <2>1, <2>3, <2>5
<1>2. CASE ~Choose
  <2>k. at' = at /\ phase' = phase /\ (Open' => Open)
    BY <1>2, OtherKeeps DEF ladder
  <2>1. CASE trials' = trials
    BY <1>j, <2>k, <2>1
  <2>2. ASSUME NEW ok \in BOOLEAN, Grown(ok)
        PROVE  Once(j)
    <3>g. /\ Open /\ ~Open' /\ cur.r > 0 /\ Len(trials) \in Nat
          /\ DOMAIN trials = 1 .. Len(trials) /\ DOMAIN trials' = 1 .. Len(trials) + 1
          /\ \A i \in 1 .. Len(trials) : trials'[i] = trials[i]
          /\ trials'[Len(trials) + 1].s = cur
      BY <2>2 DEF Grown, Open
    <3>d. \A i \in DOMAIN trials' : i \in 1 .. Len(trials) \/ i = Len(trials) + 1
      BY <3>g
    <3>1. CASE j \in 1 .. Len(trials)
      <4>1. phase = "split" /\ trials[j].s.v < at
        BY <1>j, <3>1, <3>g
      <4>2. cur.v = at
        BY <1>s, <3>g, <4>1, OpenPlace
      <4>3. trials[j].s.v # cur.v
        BY <1>t, <3>1, <3>g, <4>1, <4>2
      <4>. QED  BY <1>j, <2>k, <3>1, <3>d, <3>g, <4>1, <4>3
    <3>2. CASE j = Len(trials) + 1
      <4>1. phase = "split" /\ cur.v = at
        BY <1>s, <3>2, <3>g, OpenPlace
      <4>2. \A i \in 1 .. Len(trials) : trials[i].s.v # at
        BY <1>j, <1>t, <3>2, <3>g, <4>1
      <4>. QED  BY <2>k, <3>2, <3>d, <3>g, <4>1, <4>2
    <3>. QED  BY <3>1, <3>2, <3>d
  <2>3. CASE Condemned
    <3>1. DOMAIN trials' = DOMAIN trials /\ \A i \in DOMAIN trials : trials'[i].s = trials[i].s
      BY <2>3, CondemnEffect
    <3>. QED  BY <1>j, <2>k, <3>1
  <2>. QED  BY <2>1, <2>2, <2>3, LogCases DEF WidthInv
<1>. QED  BY <1>1, <1>2

\* The trial that is open is larger than the clean ones of its width, and smaller
\* than the failed ones.
LEMMA OpenLies ==
  ASSUME TypeInv, PhaseInv, WidthInv, Open, Searching, cur.r > 0
  PROVE  /\ \A i \in Clean : trials[i].s.v = cur.v => trials[i].s.r < cur.r
         /\ \A i \in Failed : trials[i].s.v = cur.v => cur.r < trials[i].s.r
<1>t. /\ lastGoodR \in Nat /\ firstBadR \in Nat /\ cur.r \in Nat /\ at \in Nat
      /\ \A k \in DOMAIN trials : trials[k].s.r \in Nat /\ trials[k].s.v \in Nat
  BY LogType DEF TypeInv, TypeOK, Setting
<1>p. /\ phase \in {"escalate", "bisect"} => cur.v = V0 /\ lastGoodR < cur.r
      /\ phase = "bisect" => cur.r < firstBadR
      /\ phase = "split" => cur.v = at /\ cur.v # V0
      /\ phase \in {"escalate", "bisect", "split"}
  BY OpenPlace
<1>o. pc # "return" /\ pc # "done"
  BY DEF Open
<1>1. CASE phase = "split"
  <2>1. \A i \in DOMAIN trials : trials[i].s.v # at
    <3>1. \A i \in DOMAIN trials : trials[i].s.v # V0 => trials[i].s.v < at
      BY DEF WidthInv, SplitOnce, OnLadder
    <3>2. at # V0
      BY <1>1, <1>p
    <3>. QED  BY <1>t, <3>1, <3>2
  <2>. QED  BY <1>1, <1>p, <2>1 DEF Clean, Failed
<1>2. CASE phase \in {"escalate", "bisect"}
  <2>1. \A i \in Clean : trials[i].s.v = V0 => trials[i].s.r <= lastGoodR
    BY <1>o DEF WidthInv, CleanBelow, OnLadder, ReturnedOk
  <2>2. \A i \in Failed : trials[i].s.v = V0 =>
          phase = "bisect" /\ firstBadR <= trials[i].s.r
    BY <1>o, <1>2 DEF WidthInv, FailedAbove, OnLadder
  <2>. QED  BY <1>t, <1>2, <1>p, <2>1, <2>2 DEF Clean, Failed
<1>. QED  BY <1>p, <1>1, <1>2

LEMMA AscendingStep ==
  ASSUME TypeInv, LogInv, PhaseInv, WidthInv, [Next]_vars
  PROVE  Ascending'
<1>. SUFFICES ASSUME Searching', NEW i \in DOMAIN trials', NEW j \in DOMAIN trials',
                     trials'[i].ok, i < j, trials'[i].s.v = trials'[j].s.v
              PROVE  trials'[i].s.r < trials'[j].s.r
  BY DEF Ascending, Clean
<1>s. Searching
  BY SearchStays
<1>i. \A k, l \in DOMAIN trials : trials[k].ok /\ k < l /\ trials[k].s.v = trials[l].s.v
        => trials[k].s.r < trials[l].s.r
  BY <1>s DEF WidthInv, Ascending, Clean
<1>1. CASE trials' = trials
  BY <1>i, <1>1
<1>2. ASSUME NEW ok \in BOOLEAN, Grown(ok)  PROVE trials'[i].s.r < trials'[j].s.r
  <2>g. /\ Open /\ cur.r > 0 /\ Len(trials) \in Nat
        /\ DOMAIN trials = 1 .. Len(trials) /\ DOMAIN trials' = 1 .. Len(trials) + 1
        /\ \A k \in 1 .. Len(trials) : trials'[k] = trials[k]
        /\ trials'[Len(trials) + 1].s = cur
    BY <1>2 DEF Grown
  <2>1. i \in 1 .. Len(trials)
    BY <2>g
  <2>2. CASE j \in 1 .. Len(trials)
    BY <1>i, <2>g, <2>1, <2>2
  <2>3. CASE j = Len(trials) + 1
    <3>1. i \in Clean /\ trials[i].s.v = cur.v
      BY <2>g, <2>1, <2>3 DEF Clean
    <3>2. trials[i].s.r < cur.r
      BY <1>s, <2>g, <3>1, OpenLies
    <3>. QED  BY <2>g, <2>1, <2>3, <3>2
  <2>. QED  BY <2>g, <2>2, <2>3
<1>3. CASE Condemned
  <2>1. /\ i \in DOMAIN trials /\ j \in DOMAIN trials /\ trials[i].ok
        /\ trials'[i].s = trials[i].s /\ trials'[j].s = trials[j].s
    BY <1>3, CondemnEffect
  <2>. QED  BY <1>i, <2>1
<1>. QED  BY <1>1, <1>2, <1>3, LogCases DEF WidthInv

LEMMA SeparatedStep ==
  ASSUME TypeInv, LogInv, PhaseInv, WidthInv, [Next]_vars
  PROVE  Separated'
<1>. SUFFICES ASSUME Searching', NEW i \in DOMAIN trials', NEW j \in DOMAIN trials',
                     trials'[i].ok, ~trials'[j].ok, trials'[i].s.v = trials'[j].s.v
              PROVE  trials'[i].s.r < trials'[j].s.r
  BY DEF Separated, Clean, Failed
<1>s. Searching
  BY SearchStays
<1>i. \A k, l \in DOMAIN trials :
        trials[k].ok /\ ~trials[l].ok /\ trials[k].s.v = trials[l].s.v
        => trials[k].s.r < trials[l].s.r
  BY <1>s DEF WidthInv, Separated, Clean, Failed
<1>1. CASE trials' = trials
  BY <1>i, <1>1
<1>2. ASSUME NEW ok \in BOOLEAN, Grown(ok)  PROVE trials'[i].s.r < trials'[j].s.r
  <2>g. /\ Open /\ cur.r > 0 /\ Len(trials) \in Nat
        /\ DOMAIN trials = 1 .. Len(trials) /\ DOMAIN trials' = 1 .. Len(trials) + 1
        /\ \A k \in 1 .. Len(trials) : trials'[k] = trials[k]
        /\ trials'[Len(trials) + 1].s = cur
    BY <1>2 DEF Grown
  <2>d. \A k \in DOMAIN trials' : k \in 1 .. Len(trials) \/ k = Len(trials) + 1
    BY <2>g
  <2>l. /\ \A k \in Clean : trials[k].s.v = cur.v => trials[k].s.r < cur.r
        /\ \A k \in Failed : trials[k].s.v = cur.v => cur.r < trials[k].s.r
    BY <1>s, <2>g, OpenLies
  <2>1. CASE i \in 1 .. Len(trials) /\ j \in 1 .. Len(trials)
    BY <1>i, <2>g, <2>1
  <2>2. CASE i \in 1 .. Len(trials) /\ j = Len(trials) + 1
    <3>1. i \in Clean /\ trials[i].s.v = cur.v
      BY <2>g, <2>2 DEF Clean
    <3>. QED  BY <2>g, <2>l, <2>2, <3>1
  <2>3. CASE i = Len(trials) + 1 /\ j \in 1 .. Len(trials)
    <3>1. j \in Failed /\ trials[j].s.v = cur.v
      BY <2>g, <2>3 DEF Failed
    <3>. QED  BY <2>g, <2>l, <2>3, <3>1
  <2>. QED  BY <2>d, <2>1, <2>2, <2>3
<1>3. CASE Condemned
  <2>1. /\ i \in DOMAIN trials /\ j \in DOMAIN trials /\ trials[i].ok
        /\ trials'[i].s = trials[i].s /\ trials'[j].s = trials[j].s
        /\ Len(trials) \in Nat /\ DOMAIN trials = 1 .. Len(trials)
        /\ j # Len(trials) => trials'[j] = trials[j]
        /\ trials # <<>> => ~trials'[Len(trials)].ok
    BY <1>3, CondemnEffect
  <2>2. CASE ~trials[j].ok
    BY <1>i, <2>1, <2>2
  <2>3. CASE trials[j].ok
    <3>1. j = Len(trials) /\ i # j
      BY <2>1, <2>3
    <3>2. i < j
      BY <2>1, <3>1
    <3>. QED  BY <1>s, <2>1, <3>2 DEF WidthInv, Ascending, Clean
  <2>. QED  BY <2>2, <2>3
<1>. QED  BY <1>1, <1>2, <1>3, LogCases DEF WidthInv

LEMMA WidthStep ==
  TypeInv /\ LogInv /\ PhaseInv /\ WidthInv /\ [Next]_vars => WidthInv'
BY RunsWalkedStep, CleanBelowStep, FailedAboveStep, SplitOnceStep, AscendingStep, SeparatedStep
   DEF WidthInv
-----------------------------------------------------------------------------
(* How far apart the clean trials are.                                     *)

\* The ladder doubles, and the bracket is never wider than one doubling.
Ratio ==
  /\ phase = "escalate" =>
       reps = 0 \/ (lastGoodR = 0 /\ reps = Start.r) \/ reps = 2 * lastGoodR
  /\ phase \in {"escalate", "bisect"} /\ firstBadR > 0 =>
       firstBadR <= AtLeast(Start.r, 2 * lastGoodR)

AllRepeat == \A i \in DOMAIN trials : trials[i].s.r > 0

\* From any clean trial of the ladder up to a larger one there is a last notch,
\* of a doubling at most.
Notches ==
  Searching => \A i, j \in Clean :
    OnLadder(i) /\ OnLadder(j) /\ trials[i].s.r < trials[j].s.r =>
      \E h \in Clean : /\ OnLadder(h)
                       /\ trials[i].s.r <= trials[h].s.r /\ trials[h].s.r < trials[j].s.r
                       /\ trials[j].s.r <= 2 * trials[h].s.r

\* The split keeps more than half of the product of the ladder's last clean step,
\* which is before it in the log.
SplitNotch ==
  Searching => \A j \in DOMAIN trials : ~OnLadder(j) =>
    /\ Product(trials[j].s) <= lastGoodR * V0 /\ lastGoodR * V0 < 2 * Product(trials[j].s)
    /\ Measured(lastGoodR, TRUE)
    /\ \A i \in DOMAIN trials : OnLadder(i) => i < j

\* A clean step of the ladder is in the lower half of the uint32: the split can
\* double its max-repetitions to a number that wraps to 0 and to no other.
LowerHalf == 2 * lastGoodR <= RepsModulus /\ 2 * firstBadR <= RepsModulus

NotchInv == Ratio /\ AllRepeat /\ Notches /\ SplitNotch /\ LowerHalf

LEMMA LowerHalfStep ==
  ASSUME TypeInv, PhaseInv, LowerHalf, [Next]_vars
  PROVE  LowerHalf'
<1>t. reps \in Nat /\ lastGoodR \in Nat /\ firstBadR \in Nat /\ cur.r \in Nat
  BY DEF TypeInv, TypeOK, Setting
<1>h. ASSUME NEW n \in Nat, Rung(n)  PROVE 2 * n <= RepsModulus
  <2>1. PICK q \in Nat : n * q = RepsModulus
    BY <1>h DEF Rung
  <2>2. n < n * q
    BY <1>h, <2>1 DEF Rung
  <2>3. q >= 2
    BY <2>2
  <2>4. n * q >= n * 2
    BY <2>3
  <2>. QED  BY <2>1, <2>4
<1>1. CASE EscalateClean \/ EscalateFailed
  <2>1. reps = cur.r /\ reps > 0
    BY <1>1 DEF EscalateClean, EscalateFailed, PhaseInv, CallInv, ReturnInv, InCall
  <2>2. 2 * reps <= RepsModulus
    BY <1>t, <1>h, <2>1 DEF PhaseInv, LadderInv
  <2>3. lastGoodR' \in {lastGoodR, reps} /\ firstBadR' \in {firstBadR, reps}
    BY <1>1 DEF EscalateClean, EscalateFailed
  <2>. QED  BY <2>2, <2>3 DEF LowerHalf
<1>2. CASE BisectReturn
  <2>1. cur.r < firstBadR
    BY <1>2 DEF BisectReturn, PhaseInv, CallInv, InCall
  <2>2. lastGoodR' \in {lastGoodR, cur.r} /\ firstBadR' \in {firstBadR, cur.r}
    BY <1>2 DEF BisectReturn, Narrowed
  <2>3. \A a, b, m \in Nat : a < b /\ 2 * b <= m => 2 * a <= m
    OBVIOUS
  <2>4. 2 * lastGoodR <= RepsModulus /\ 2 * firstBadR <= RepsModulus /\ RepsModulus \in Nat
    BY ConstantsAssumption DEF LowerHalf
  <2>5. 2 * cur.r <= RepsModulus
    BY <1>t, <2>1, <2>3, <2>4
  <2>. QED  BY <2>2, <2>4, <2>5 DEF LowerHalf
<1>3. CASE ~EscalateClean /\ ~EscalateFailed /\ ~BisectReturn
  <2>1. lastGoodR' = lastGoodR /\ firstBadR' = firstBadR
    <3>1. CASE Choose
      BY <1>3, <3>1 DEF Choose, EscalateStep, EscalateCap, EscalateVetoed, BisectStep,
         BisectEnd, SplitStep, SplitEnd, TryStep, TryEnd, ListReturn, ladder
    <3>2. CASE ~Choose
      BY <3>2, OtherKeeps DEF ladder
    <3>. QED  BY <3>1, <3>2
  <2>. QED  BY <2>1 DEF LowerHalf
<1>. QED  BY <1>1, <1>2, <1>3

LEMMA RatioStep ==
  ASSUME TypeInv, PhaseInv, NotchInv, [Next]_vars
  PROVE  Ratio'
<1>t. reps \in Nat /\ lastGoodR \in Nat /\ firstBadR \in Nat /\ cur.r \in Nat
  BY DEF TypeInv, TypeOK, Setting
<1>. USE DEF Start, AtLeast
<1>1. CASE EscalateClean
  <2>1. reps = cur.r /\ reps > 0 /\ phase = "escalate"
    BY <1>1 DEF EscalateClean, PhaseInv, CallInv, ReturnInv, InCall
  <2>2. Rung(reps)
    BY <2>1 DEF PhaseInv, LadderInv
  <2>3. firstBadR' = 0 /\ lastGoodR' = reps
    BY <1>1, <2>1 DEF EscalateClean, PhaseInv, LadderInv
  <2>4. phase' = "bisect" \/ (reps' = (2 * reps) % RepsModulus)
    BY <1>1 DEF EscalateClean, Proceed
  <2>5. (2 * reps) % RepsModulus = 0 \/ (2 * reps) % RepsModulus = 2 * reps
    BY <1>t, <2>2, Doubling
  <2>. QED  BY <2>3, <2>4, <2>5 DEF Ratio
<1>2. CASE EscalateFailed
  <2>1. reps = cur.r /\ reps > 0 /\ phase = "escalate"
    BY <1>2 DEF EscalateFailed, PhaseInv, CallInv, ReturnInv, InCall
  <2>2. firstBadR' = reps /\ lastGoodR' = lastGoodR /\ phase' = "bisect"
    BY <1>2 DEF EscalateFailed, Proceed
  <2>3. reps <= AtLeast(2, 2 * lastGoodR)
    BY <1>t, <2>1 DEF NotchInv, Ratio
  <2>. QED  BY <2>2, <2>3 DEF Ratio
<1>3. CASE BisectReturn
  <2>1. lastGoodR < cur.r /\ cur.r < firstBadR /\ phase = "bisect" /\ phase' = "bisect"
    BY <1>3 DEF BisectReturn, PhaseInv, CallInv, InCall, Proceed
  <2>2. \/ lastGoodR' = lastGoodR /\ firstBadR' = cur.r
        \/ lastGoodR' = cur.r /\ firstBadR' = firstBadR
    BY <1>3 DEF BisectReturn, Narrowed
  <2>3. firstBadR <= AtLeast(2, 2 * lastGoodR)
    BY <1>t, <2>1 DEF NotchInv, Ratio
  <2>. QED  BY <1>t, <2>1, <2>2, <2>3 DEF Ratio
<1>4. CASE ~EscalateClean /\ ~EscalateFailed /\ ~BisectReturn
  <2>1. /\ reps' = reps /\ lastGoodR' = lastGoodR /\ firstBadR' = firstBadR
        /\ phase' = "escalate" => phase = "escalate"
        /\ phase' \in {"escalate", "bisect"} => phase \in {"escalate", "bisect"}
    <3>1. CASE Choose
      BY <1>4, <3>1 DEF Choose, EscalateStep, EscalateCap, EscalateVetoed, BisectStep,
         BisectEnd, SplitStep, SplitEnd, TryStep, TryEnd, ListReturn, Proceed, ladder
    <3>2. CASE ~Choose
      BY <3>2, OtherKeeps DEF ladder
    <3>. QED  BY <3>1, <3>2
  <2>. QED  BY <2>1 DEF NotchInv, Ratio
<1>. QED  BY <1>1, <1>2, <1>3, <1>4

LEMMA AllRepeatStep ==
  ASSUME TypeInv, LogInv, WidthInv, AllRepeat, [Next]_vars
  PROVE  AllRepeat'
<1>1. CASE trials' = trials
  BY <1>1 DEF AllRepeat
<1>2. ASSUME NEW ok \in BOOLEAN, Grown(ok)  PROVE AllRepeat'
  BY <1>2 DEF Grown, AllRepeat
<1>3. CASE Condemned
  BY <1>3, CondemnEffect DEF AllRepeat
<1>. QED  BY <1>1, <1>2, <1>3, LogCases DEF WidthInv

\* A trial of the ladder is at most a doubling above its last clean step.
LEMMA OpenNotch ==
  ASSUME TypeInv, PhaseInv, NotchInv, Open, cur.r > 0, phase \in {"escalate", "bisect"}
  PROVE  lastGoodR = 0 \/ cur.r <= 2 * lastGoodR
<1>t. reps \in Nat /\ lastGoodR \in Nat /\ firstBadR \in Nat /\ cur.r \in Nat
  BY DEF TypeInv, TypeOK, Setting
<1>1. CASE phase = "escalate"
  <2>1. cur.r = reps
    BY <1>1 DEF PhaseInv, CallInv, InCall
  <2>. QED  BY <1>1, <1>t, <2>1 DEF NotchInv, Ratio
<1>2. CASE phase = "bisect"
  <2>1. cur.r < firstBadR
    BY <1>2 DEF PhaseInv, CallInv, InCall
  <2>2. firstBadR <= AtLeast(Start.r, 2 * lastGoodR)
    BY <1>2, <1>t, <2>1 DEF NotchInv, Ratio
  <2>. QED  BY <1>t, <2>1, <2>2 DEF AtLeast, Start
<1>. QED  BY <1>1, <1>2

LEMMA NotchesStep ==
  ASSUME TypeInv, LogInv, PhaseInv, WidthInv, NotchInv, [Next]_vars
  PROVE  Notches'
<1>. DEFINE Notch(i, j) ==
       \E h \in DOMAIN trials' :
         /\ trials'[h].ok /\ trials'[h].s.v = V0
         /\ trials'[i].s.r <= trials'[h].s.r /\ trials'[h].s.r < trials'[j].s.r
         /\ trials'[j].s.r <= 2 * trials'[h].s.r
<1>. SUFFICES ASSUME Searching', NEW i \in DOMAIN trials', NEW j \in DOMAIN trials',
                     trials'[i].ok, trials'[j].ok, trials'[i].s.v = V0, trials'[j].s.v = V0,
                     trials'[i].s.r < trials'[j].s.r
              PROVE  Notch(i, j)
  BY DEF Notches, Clean, OnLadder, V0
<1>s. Searching
  BY SearchStays
<1>t. lastGoodR \in Nat /\ cur.r \in Nat /\ \A k \in DOMAIN trials : trials[k].s.r \in Nat
  BY LogType DEF TypeInv, TypeOK, Setting
<1>i. ASSUME i \in DOMAIN trials, j \in DOMAIN trials, trials[i].ok, trials[j].ok,
             trials[i].s.v = V0, trials[j].s.v = V0, trials[i].s.r < trials[j].s.r
      PROVE  \E h \in DOMAIN trials :
               /\ trials[h].ok /\ trials[h].s.v = V0
               /\ trials[i].s.r <= trials[h].s.r /\ trials[h].s.r < trials[j].s.r
               /\ trials[j].s.r <= 2 * trials[h].s.r
  BY <1>s, <1>i DEF NotchInv, Notches, Clean, OnLadder
<1>1. CASE trials' = trials
  BY <1>i, <1>1
<1>2. ASSUME NEW ok \in BOOLEAN, Grown(ok)  PROVE Notch(i, j)
  <2>g. /\ Open /\ cur.r > 0 /\ Len(trials) \in Nat
        /\ DOMAIN trials = 1 .. Len(trials) /\ DOMAIN trials' = 1 .. Len(trials) + 1
        /\ \A k \in 1 .. Len(trials) : trials'[k] = trials[k]
        /\ trials'[Len(trials) + 1].s = cur
    BY <1>2 DEF Grown
  <2>d. \A k \in DOMAIN trials' : k \in 1 .. Len(trials) \/ k = Len(trials) + 1
    BY <2>g
  <2>1. CASE i \in 1 .. Len(trials) /\ j \in 1 .. Len(trials)
    <3>1. PICK h \in DOMAIN trials :
            /\ trials[h].ok /\ trials[h].s.v = V0
            /\ trials[i].s.r <= trials[h].s.r /\ trials[h].s.r < trials[j].s.r
            /\ trials[j].s.r <= 2 * trials[h].s.r
      BY <1>i, <2>g, <2>1
    <3>2. h \in DOMAIN trials' /\ trials'[h] = trials[h]
      BY <2>g
    <3>. QED  BY <2>g, <2>1, <3>1, <3>2
  <2>2. CASE i \in 1 .. Len(trials) /\ j = Len(trials) + 1
    <3>1. /\ i \in DOMAIN trials /\ trials'[i] = trials[i] /\ trials'[j].s = cur /\ cur.v = V0
      BY <2>g, <2>2
    <3>2. phase \in {"escalate", "bisect"} /\ lastGoodR < cur.r
      BY <1>s, <2>g, <3>1, OpenPlace
    <3>3. trials[i].s.r <= lastGoodR /\ lastGoodR > 0
      <4>1. ~ReturnedOk
        BY <2>g DEF Open, ReturnedOk
      <4>2. trials[i].s.r <= lastGoodR
        BY <1>s, <3>1, <4>1 DEF WidthInv, CleanBelow, Clean, OnLadder
      <4>3. trials[i].s.r > 0
        BY <3>1 DEF NotchInv, AllRepeat
      <4>. QED  BY <1>t, <3>1, <4>2, <4>3
    <3>4. cur.r <= 2 * lastGoodR
      BY <2>g, <3>2, <3>3, OpenNotch
    <3>5. PICK h \in DOMAIN trials : trials[h].s = [r |-> lastGoodR, v |-> V0] /\ trials[h].ok = TRUE
      BY <2>g, <3>3 DEF PhaseInv, BracketInv, Measured, Open
    <3>6. h \in DOMAIN trials' /\ trials'[h] = trials[h]
      BY <2>g
    <3>7. trials'[h].ok /\ trials'[h].s.v = V0 /\ trials'[h].s.r = lastGoodR
      BY <3>5, <3>6
    <3>. QED  BY <3>1, <3>2, <3>3, <3>4, <3>6, <3>7
  <2>3. CASE i = Len(trials) + 1 /\ j \in 1 .. Len(trials)
    <3>1. j \in Clean /\ trials[j].s.v = cur.v /\ trials'[j] = trials[j] /\ trials'[i].s = cur
      BY <2>g, <2>3 DEF Clean
    <3>2. trials[j].s.r < cur.r
      BY <1>s, <2>g, <3>1, OpenLies
    <3>. QED  BY <1>t, <2>g, <2>3, <3>1, <3>2
  <2>4. CASE i = Len(trials) + 1 /\ j = Len(trials) + 1
    BY <1>t, <2>g, <2>4
  <2>. QED  BY <2>d, <2>1, <2>2, <2>3, <2>4
<1>3. CASE Condemned
  <2>c. /\ DOMAIN trials' = DOMAIN trials /\ Len(trials) \in Nat /\ DOMAIN trials = 1 .. Len(trials)
        /\ \A k \in DOMAIN trials :
             /\ trials'[k].s = trials[k].s
             /\ trials'[k].ok => trials[k].ok
             /\ k # Len(trials) => trials'[k] = trials[k]
        /\ trials # <<>> => ~trials'[Len(trials)].ok
    BY <1>3, CondemnEffect
  <2>1. PICK h \in DOMAIN trials :
          /\ trials[h].ok /\ trials[h].s.v = V0
          /\ trials[i].s.r <= trials[h].s.r /\ trials[h].s.r < trials[j].s.r
          /\ trials[j].s.r <= 2 * trials[h].s.r
    BY <1>i, <2>c
  <2>2. h # Len(trials)
    <3>. SUFFICES ASSUME h = Len(trials)  PROVE FALSE
      OBVIOUS
    <3>1. j # Len(trials) /\ j < h
      BY <2>c
    <3>2. trials[j].s.r < trials[h].s.r
      BY <1>s, <2>c, <2>1, <3>1 DEF WidthInv, Ascending, Clean
    <3>. QED  BY <1>t, <2>c, <2>1, <3>2
  <2>. QED  BY <2>c, <2>1, <2>2
<1>. QED  BY <1>1, <1>2, <1>3, LogCases DEF WidthInv

\* No candidate of the split is narrower than half of the ladder's width.
LEMMA CandidateWidth == \A v \in SplitCandidates : V0 <= 2 * v
<1>. SUFFICES ASSUME NEW v \in SplitCandidates  PROVE V0 <= 2 * v
  OBVIOUS
<1>1. Widest \in Nat
  BY ConstantsAssumption
<1>2. CASE v \in SplitVars
  BY <1>1, <1>2 DEF SplitVars, V0, Start, AtMost
<1>3. CASE v = Widest /\ Widest > 0
  BY <1>1, <1>3 DEF V0, Start, AtMost
<1>. QED  BY <1>2, <1>3 DEF SplitCandidates

\* Max-repetitions that do not wrap to 0 do not wrap at all.
LEMMA SplitWraps ==
  ASSUME TypeInv, LowerHalf, NEW v \in SplitCandidates, SplitReps(v) >= 1
  PROVE  SplitReps(v) = SplitQuotient(v)
<1>. DEFINE P == lastGoodR * V0
            q == SplitQuotient(v)
<1>t. /\ lastGoodR \in Nat /\ V0 \in Nat /\ v \in Nat \ {0} /\ RepsModulus \in Nat \ {0}
      /\ 2 * lastGoodR <= RepsModulus /\ V0 <= 2 * v
  BY V0Type, CandidatesType, CandidateWidth, ConstantsAssumption DEF TypeInv, TypeOK, LowerHalf
<1>1. \A a, b, c \in Nat : a <= b => a * c <= b * c /\ a * c \in Nat /\ b * c \in Nat
  OBVIOUS
<1>2. P <= (2 * v) * lastGoodR /\ (2 * lastGoodR) * v <= RepsModulus * v
  <2>1. V0 * lastGoodR <= (2 * v) * lastGoodR
    BY <1>t, <1>1
  <2>2. (2 * lastGoodR) * v <= RepsModulus * v
    BY <1>t, <1>1
  <2>. QED  BY <1>t, <2>1, <2>2
<1>3. P \in Nat /\ P <= RepsModulus * v
  BY <1>t, <1>2
<1>4. q \in Nat /\ q * v <= P
  <2>1. ASSUME NEW n \in Nat  PROVE n \div v \in Nat /\ (n \div v) * v <= n
    BY <1>t
  <2>. QED  BY <1>3, <2>1 DEF SplitQuotient
<1>. HIDE DEF P
<1>5. q <= RepsModulus
  <2>. SUFFICES ASSUME RepsModulus + 1 <= q  PROVE FALSE
    BY <1>t, <1>4
  <2>. HIDE DEF q
  <2>1. (RepsModulus + 1) * v <= q * v
    BY <1>t, <1>1, <1>4
  <2>2. (RepsModulus + 1) * v = RepsModulus * v + v /\ RepsModulus * v \in Nat /\ q * v \in Nat
    BY <1>t, <1>4
  <2>. QED  BY <1>t, <1>3, <1>4, <2>1, <2>2
<1>6. SplitReps(v) = q % RepsModulus
  BY DEF SplitReps
<1>. HIDE DEF q
<1>7. q # RepsModulus
  BY <1>t, <1>6
<1>8. q % RepsModulus = q
  BY <1>t, <1>4, <1>5, <1>7
<1>. QED  BY <1>6, <1>8 DEF q

\* Rounding down loses less than half of a product that has room for one repetition.
LEMMA SplitKeepsHalf ==
  ASSUME TypeInv, LowerHalf, NEW v \in SplitCandidates, SplitReps(v) >= 1
  PROVE  /\ SplitReps(v) \in Nat /\ SplitReps(v) * v <= lastGoodR * V0
         /\ lastGoodR * V0 < 2 * (SplitReps(v) * v)
<1>. DEFINE P == lastGoodR * V0
            q == SplitReps(v)
<1>v. v \in Nat \ {0}
  BY CandidatesType
<1>1. P \in Nat
  BY V0Type DEF TypeInv, TypeOK
<1>2. q = P \div v
  BY SplitWraps DEF SplitQuotient
<1>3. q \in Nat /\ q * v <= P
  BY <1>v, SplitDivides DEF TypeInv
<1>. HIDE DEF P
<1>4. P < (q + 1) * v
  BY <1>v, <1>1, <1>2
<1>. HIDE DEF q
<1>5. (q + 1) * v <= 2 * (q * v)
  <2>1. v <= q * v
    BY <1>v, <1>3 DEF q
  <2>2. (q + 1) * v = q * v + v /\ q * v \in Nat
    BY <1>v, <1>3
  <2>. QED  BY <1>v, <2>1, <2>2
<1>6. q * v \in Nat /\ (q + 1) * v \in Nat
  BY <1>v, <1>3
<1>7. P < 2 * (q * v)
  BY <1>1, <1>4, <1>5, <1>6
<1>. QED  BY <1>3, <1>7 DEF P, q

LEMMA SplitNotchStep ==
  ASSUME TypeInv, LogInv, PhaseInv, WidthInv, NotchInv, [Next]_vars
  PROVE  SplitNotch'
<1>. DEFINE Good == \E k \in DOMAIN trials' :
                      trials'[k].s = [r |-> lastGoodR', v |-> V0] /\ trials'[k].ok = TRUE
            Kept(j) == /\ Product(trials'[j].s) <= lastGoodR' * V0
                       /\ lastGoodR' * V0 < 2 * Product(trials'[j].s)
            Before(j) == \A i \in DOMAIN trials' : trials'[i].s.v = V0 => i < j
<1>. SUFFICES ASSUME Searching', NEW j \in DOMAIN trials', trials'[j].s.v # V0
              PROVE  Kept(j) /\ Good /\ Before(j)
  BY DEF SplitNotch, OnLadder, Measured, V0, Product
<1>s. Searching
  BY SearchStays
<1>i. ASSUME j \in DOMAIN trials, trials[j].s.v # V0
      PROVE  /\ phase = "split"
             /\ Product(trials[j].s) <= lastGoodR * V0
             /\ lastGoodR * V0 < 2 * Product(trials[j].s)
             /\ Measured(lastGoodR, TRUE)
             /\ \A i \in DOMAIN trials : trials[i].s.v = V0 => i < j
  BY <1>s, <1>i DEF NotchInv, SplitNotch, WidthInv, SplitOnce, OnLadder
<1>l. /\ Len(trials) \in Nat /\ DOMAIN trials = 1 .. Len(trials)
  BY LogType
<1>g. lastGoodR' = lastGoodR \/ (Choose /\ trials' = trials)
  BY ChooseKeeps, OtherKeeps DEF ladder, runner
<1>1. CASE trials' = trials
  <2>1. lastGoodR' = lastGoodR
    <3>1. phase = "split"
      BY <1>i, <1>1
    <3>. QED  BY <1>g, <3>1, LoopTurns
  <2>2. Good
    BY <1>i, <1>1, <2>1 DEF Measured
  <2>. HIDE DEF Good
  <2>. QED  BY <1>i, <1>1, <2>1, <2>2
<1>2. ASSUME NEW ok \in BOOLEAN, Grown(ok)  PROVE Kept(j) /\ Good /\ Before(j)
  <2>g. /\ Open /\ cur.r > 0 /\ lastGoodR' = lastGoodR
        /\ DOMAIN trials' = 1 .. Len(trials) + 1
        /\ \A k \in 1 .. Len(trials) : trials'[k] = trials[k]
        /\ trials'[Len(trials) + 1].s = cur
    BY <1>2 DEF Grown, ladder
  <2>d. \A k \in DOMAIN trials' : k \in 1 .. Len(trials) \/ k = Len(trials) + 1
    BY <1>l, <2>g
  <2>p. phase = "split" => cur.v = at /\ cur.v # V0 /\ lastGoodR > 0 /\ cur.r = SplitReps(at)
    BY <1>s, <2>g, OpenPlace
  <2>m. Measured(lastGoodR, TRUE) => Good
    BY <1>l, <2>g DEF Measured
  <2>. HIDE DEF Good
  <2>1. CASE j \in 1 .. Len(trials)
    <3>1. j \in DOMAIN trials /\ trials'[j] = trials[j] /\ trials[j].s.v # V0
      BY <1>l, <2>g, <2>1
    <3>2. Kept(j) /\ Good
      BY <1>i, <2>g, <2>m, <3>1
    <3>3. Before(j)
      BY <1>i, <1>l, <2>g, <2>d, <2>p, <3>1
    <3>. QED  BY <3>2, <3>3
  <2>2. CASE j = Len(trials) + 1
    <3>1. phase = "split"
      BY <1>s, <2>g, <2>2, OpenPlace
    <3>2. at \in SplitCandidates /\ SplitReps(at) >= 1
      <4>1. at \in SplitCandidates
        BY <3>1, <2>g DEF PhaseInv, CallInv, InCall
      <4>2. cur.r \in Nat
        BY DEF TypeInv, TypeOK, Setting
      <4>. QED  BY <3>1, <2>g, <2>p, <4>1, <4>2
    <3>3. Product(trials'[j].s) = SplitReps(at) * at
      BY <2>g, <2>2, <2>p, <3>1 DEF Product
    <3>4. Kept(j)
      BY <2>g, <3>2, <3>3, SplitKeepsHalf DEF NotchInv
    <3>5. Measured(lastGoodR, TRUE)
      BY <2>g, <2>p, <3>1 DEF PhaseInv, BracketInv, Open
    <3>6. Before(j)
      BY <1>l, <2>g, <2>d, <2>2
    <3>. QED  BY <2>m, <3>4, <3>5, <3>6
  <2>. QED  BY <2>d, <2>1, <2>2
<1>3. CASE Condemned
  <2>c. /\ DOMAIN trials' = DOMAIN trials
        /\ \A k \in DOMAIN trials :
             /\ trials'[k].s = trials[k].s
             /\ k # Len(trials) => trials'[k] = trials[k]
    BY <1>3, CondemnEffect
  <2>g. lastGoodR' = lastGoodR
    BY <1>3, ChooseKeeps, OtherKeeps DEF Condemned, ladder
  <2>j. j \in DOMAIN trials /\ trials'[j].s = trials[j].s /\ trials[j].s.v # V0
    BY <2>c
  <2>i. /\ Product(trials[j].s) <= lastGoodR * V0
        /\ lastGoodR * V0 < 2 * Product(trials[j].s)
        /\ Measured(lastGoodR, TRUE)
        /\ \A i \in DOMAIN trials : trials[i].s.v = V0 => i < j
    BY <1>i, <2>j
  <2>1. PICK k \in DOMAIN trials : trials[k].s = [r |-> lastGoodR, v |-> V0] /\ trials[k].ok = TRUE
    BY <2>i DEF Measured
  <2>2. k # Len(trials)
    <3>1. trials[k].s.v = V0
      BY <2>1
    <3>2. k < j
      BY <2>i, <3>1
    <3>. QED  BY <1>l, <2>j, <3>2
  <2>3. Good
    BY <2>c, <2>g, <2>1, <2>2
  <2>. HIDE DEF Good
  <2>4. Kept(j)
    BY <2>g, <2>i, <2>j
  <2>5. Before(j)
    BY <2>c, <2>i
  <2>. QED  BY <2>3, <2>4, <2>5
<1>. HIDE DEF Good, Kept, Before
<1>. QED  BY <1>1, <1>2, <1>3, LogCases DEF WidthInv

LEMMA NotchStep ==
  TypeInv /\ LogInv /\ PhaseInv /\ WidthInv /\ NotchInv /\ [Next]_vars => NotchInv'
BY RatioStep, AllRepeatStep, NotchesStep, SplitNotchStep, LowerHalfStep DEF NotchInv

LEMMA OutcomeInit == Init => WidthInv /\ NotchInv
<1>. SUFFICES ASSUME Init  PROVE WidthInv /\ NotchInv
  OBVIOUS
<1>1. trials = <<>> /\ runs = 0 /\ reps = Start.r /\ lastGoodR = 0 /\ firstBadR = 0
  BY DEF Init
<1>2. DOMAIN trials = {}
  BY <1>1
<1>3. LowerHalf
  BY <1>1, ConstantsAssumption DEF LowerHalf
<1>. QED  BY <1>1, <1>2, <1>3 DEF WidthInv, RunsWalked, CleanBelow, FailedAbove, SplitOnce, Ascending,
       Separated, NotchInv, Ratio, AllRepeat, Notches, SplitNotch, Clean, Failed

\* The search that a report looks at.
OutcomeInv == TypeInv /\ LogInv /\ PhaseInv /\ WidthInv /\ NotchInv

LEMMA OutcomeInvariant == Spec => []OutcomeInv
<1>1. Init => OutcomeInv
  BY TypeInit, LogInit, PhaseInit, OutcomeInit DEF OutcomeInv
<1>2. OutcomeInv /\ [Next]_vars => OutcomeInv'
  <2>. SUFFICES ASSUME OutcomeInv, [Next]_vars  PROVE OutcomeInv'
    OBVIOUS
  <2>1. PhaseInv'
    BY LadderStep, CallStep, ReturnStep, BracketStep DEF PhaseInv, OutcomeInv
  <2>. QED  BY <2>1, TypeStep, LogStep, WidthStep, NotchStep DEF OutcomeInv
<1>. QED  BY <1>1, <1>2, PTL DEF Spec
-----------------------------------------------------------------------------
(* What recommend() picks.                                                 *)

\* Among trials there is a best one, and it is one of them.
LEMMA BestIn ==
  ASSUME TypeInv, NEW S, S \subseteq DOMAIN trials, S # {}
  PROVE  Best(S) \in S
<1>. DEFINE n == Len(trials)
            R == {q \in (1 .. n) \X (1 .. n) : Better(q[1], q[2])}
<1>1. n \in Nat /\ DOMAIN trials = 1 .. n /\ \A i \in 1 .. n : trials[i].score \in Nat
  BY LogType
<1>2. \A i, j \in 1 .. n : <<i, j>> \in R <=> Better(i, j)
  OBVIOUS
<1>3. \A i, j \in 1 .. n : Better(i, j) \/ Better(j, i)
  BY <1>1 DEF Better
<1>4. \A i, j, k \in 1 .. n : Better(i, j) /\ Better(j, k) => Better(i, k)
  BY <1>1 DEF Better
<1>. HIDE DEF R, n
<1>5. S \subseteq 1 .. n
  BY <1>1
<1>6. \A i, j \in S : <<i, j>> \in R \/ <<j, i>> \in R
  BY <1>2, <1>3, <1>5, Zenon
<1>7. \A i, j, k \in S : <<i, j>> \in R /\ <<j, k>> \in R => <<i, k>> \in R
  BY <1>2, <1>4, <1>5, Zenon
<1>8. \E m \in S : \A i \in S : <<m, i>> \in R
  BY <1>1, <1>5, <1>6, <1>7, FirstOf, Zenon
<1>9. \E m \in S : \A i \in S : Better(m, i)
  BY <1>2, <1>5, <1>8, Zenon
<1>. QED  BY <1>9, Zenon DEF Best

\* Among trials there is one of the largest product.
LEMMA LargestIn ==
  ASSUME TypeInv, NEW S, S \subseteq DOMAIN trials, S # {}
  PROVE  Largest(S) # {} /\ Largest(S) \subseteq S
<1>. DEFINE n == Len(trials)
            P(i) == Product(trials[i].s)
            R == {q \in (1 .. n) \X (1 .. n) : P(q[2]) <= P(q[1])}
<1>1. n \in Nat /\ DOMAIN trials = 1 .. n /\ \A i \in 1 .. n : P(i) \in Nat
  BY LogType, ProductType
<1>2. \A i, j \in 1 .. n : <<i, j>> \in R <=> P(j) <= P(i)
  OBVIOUS
<1>3. \A i, j \in 1 .. n : P(j) <= P(i) \/ P(i) <= P(j)
  BY <1>1
<1>4. \A i, j, k \in 1 .. n : P(j) <= P(i) /\ P(k) <= P(j) => P(k) <= P(i)
  BY <1>1
<1>. HIDE DEF R, n
<1>5. S \subseteq 1 .. n
  BY <1>1
<1>6. \A i, j \in S : <<i, j>> \in R \/ <<j, i>> \in R
  BY <1>2, <1>3, <1>5, Zenon
<1>7. \A i, j, k \in S : <<i, j>> \in R /\ <<j, k>> \in R => <<i, k>> \in R
  BY <1>2, <1>4, <1>5, Zenon
<1>8. \E m \in S : \A i \in S : <<m, i>> \in R
  BY <1>1, <1>5, <1>6, <1>7, FirstOf, Zenon
<1>9. \E m \in S : \A i \in S : P(i) <= P(m)
  BY <1>2, <1>5, <1>8, Zenon
<1>. QED  BY <1>9, Zenon DEF Largest

\* Some trial is recommended whenever one is clean; it is the peak, or the largest
\* clean trial below the peak, and both fit a datagram when any does.
LEMMA ChosenIn ==
  ASSUME TypeInv, Recommends
  PROVE  /\ Peak \in Clean /\ Chosen \in Clean
         /\ Within # {} => Peak \in Within /\ Chosen \in Within
         /\ Chosen = Peak \/ (Below # {} /\ Chosen \in Largest(Below))
<1>1. Clean \subseteq DOMAIN trials /\ Within \subseteq Clean /\ Below \subseteq Within
  BY DEF Clean, Within, Below
<1>2. Peak \in (IF Fragmented THEN Clean ELSE Within)
  <2>1. (IF Fragmented THEN Clean ELSE Within) # {}
    BY DEF Fragmented, Recommends
  <2>2. (IF Fragmented THEN Clean ELSE Within) \subseteq DOMAIN trials
    BY <1>1
  <2>. QED  BY <2>1, <2>2, BestIn DEF Peak
<1>3. ASSUME Below # {}  PROVE Headroom \in Largest(Below) /\ Headroom \in Below
  <2>1. Largest(Below) # {} /\ Largest(Below) \subseteq Below
    BY <1>1, <1>3, LargestIn
  <2>2. Best(Largest(Below)) \in Largest(Below)
    BY <1>1, <2>1, BestIn
  <2>. QED  BY <2>1, <2>2 DEF Headroom
<1>4. Chosen = Peak \/ (Below # {} /\ Chosen = Headroom)
  BY DEF Chosen
<1>. QED  BY <1>1, <1>2, <1>3, <1>4 DEF Fragmented

\* Neither the peak nor the headroom below it leaves the limit of one datagram while
\* some clean trial keeps it.
THEOREM OneDatagramHolds == Spec => []OneDatagram
<1>1. OutcomeInv => OneDatagram
  <2>. SUFFICES ASSUME TypeInv, Within # {}  PROVE {Peak, Chosen} \subseteq Within
    BY DEF OutcomeInv, OneDatagram
  <2>1. Recommends
    BY DEF Recommends, Within
  <2>. QED  BY <2>1, ChosenIn
<1>. QED  BY <1>1, OutcomeInvariant, PTL

\* What a search recommends is smaller than all that failed with its width, in every
\* state of the search and after it.
THEOREM BelowFailuresHolds == Spec => []BelowFailuresOfItsWidth
<1>1. OutcomeInv => BelowFailuresOfItsWidth
  <2>. SUFFICES ASSUME TypeInv, Separated, Searching, Recommends,
                       NEW i \in Failed, trials[i].s.v = Recommended.v
                PROVE  Recommended.r < trials[i].s.r
    BY DEF OutcomeInv, WidthInv, BelowFailuresOfItsWidth
  <2>1. Chosen \in Clean
    BY ChosenIn
  <2>. QED  BY <2>1 DEF Separated, Recommended
<1>. QED  BY <1>1, OutcomeInvariant, PTL

\* Below a clean trial, where there is any clean one, there is one of at least half
\* its product.
LEMMA NotchBelow ==
  ASSUME OutcomeInv, Searching, NEW p \in Clean, NEW b \in Clean,
         Product(trials[b].s) < Product(trials[p].s)
  PROVE  \E h \in Clean : /\ Product(trials[h].s) < Product(trials[p].s)
                          /\ Product(trials[p].s) <= 2 * Product(trials[h].s)
<1>. USE DEF OutcomeInv
<1>. DEFINE P(i) == Product(trials[i].s)
            r(i) == trials[i].s.r
<1>1. /\ Clean \subseteq DOMAIN trials /\ V0 \in Nat /\ V0 > 0 /\ lastGoodR \in Nat
      /\ \A i \in DOMAIN trials : P(i) \in Nat /\ r(i) \in Nat
  BY V0Type, ProductType, LogType DEF Clean, TypeInv, TypeOK
<1>2. \A i \in DOMAIN trials : OnLadder(i) => P(i) = r(i) * V0
  BY DEF OnLadder, Product
<1>3. \A m, n \in Nat : /\ m * V0 < n * V0 <=> m < n
                        /\ m <= n => m * V0 <= n * V0
                        /\ m <= 2 * n => m * V0 <= 2 * (n * V0)
  <2>. SUFFICES ASSUME NEW m \in Nat, NEW n \in Nat
                PROVE  /\ m * V0 < n * V0 <=> m < n
                       /\ m <= n => m * V0 <= n * V0
                       /\ m <= 2 * n => m * V0 <= 2 * (n * V0)
    OBVIOUS
  <2>1. m <= n => m * V0 <= n * V0
    BY <1>1
  <2>2. m < n => m * V0 < n * V0
    BY <1>1
  <2>3. n <= m => n * V0 <= m * V0
    BY <1>1
  <2>4. m <= 2 * n => m * V0 <= (2 * n) * V0
    BY <1>1
  <2>5. (2 * n) * V0 = 2 * (n * V0) /\ m * V0 \in Nat /\ n * V0 \in Nat
    BY <1>1
  <2>. QED  BY <2>1, <2>2, <2>3, <2>4, <2>5
<1>4. \A i, j \in Clean : OnLadder(i) /\ OnLadder(j) /\ P(i) < P(j) =>
        \E h \in Clean : OnLadder(h) /\ P(h) < P(j) /\ P(j) <= 2 * P(h) /\ r(h) < r(j)
  <2>. SUFFICES ASSUME NEW i \in Clean, NEW j \in Clean, OnLadder(i), OnLadder(j), P(i) < P(j)
                PROVE  \E h \in Clean : OnLadder(h) /\ P(h) < P(j) /\ P(j) <= 2 * P(h) /\ r(h) < r(j)
    OBVIOUS
  <2>1. r(i) < r(j)
    BY <1>1, <1>2, <1>3
  <2>2. PICK h \in Clean : OnLadder(h) /\ r(h) < r(j) /\ r(j) <= 2 * r(h)
    BY <2>1 DEF NotchInv, Notches
  <2>3. P(h) = r(h) * V0 /\ P(j) = r(j) * V0 /\ r(h) \in Nat /\ r(j) \in Nat
    BY <1>1, <1>2, <2>2
  <2>4. P(h) < P(j) /\ P(j) <= 2 * P(h)
    BY <1>3, <2>2, <2>3
  <2>. QED  BY <2>2, <2>4
<1>5. CASE ~OnLadder(b)
  <2>1. phase = "split" /\ lastGoodR * V0 < 2 * P(b)
    BY <1>1, <1>5 DEF NotchInv, SplitNotch, WidthInv, SplitOnce
  <2>2. P(p) <= lastGoodR * V0
    <3>1. CASE OnLadder(p)
      <4>1. r(p) <= lastGoodR
        BY <2>1, <3>1 DEF WidthInv, CleanBelow, ReturnedOk
      <4>. QED  BY <1>1, <1>2, <1>3, <3>1, <4>1
    <3>2. CASE ~OnLadder(p)
      BY <1>1, <3>2 DEF NotchInv, SplitNotch
    <3>. QED  BY <3>1, <3>2
  <2>3. P(p) <= 2 * P(b)
    <3>1. P(p) \in Nat /\ P(b) \in Nat /\ lastGoodR * V0 \in Nat
      BY <1>1
    <3>. QED  BY <2>1, <2>2, <3>1
  <2>. QED  BY <2>3
<1>6. CASE OnLadder(b) /\ OnLadder(p)
  BY <1>4, <1>6
<1>7. CASE OnLadder(b) /\ ~OnLadder(p)
  <2>1. PICK m \in Clean : OnLadder(m) /\ P(p) <= P(m)
    <3>1. Measured(lastGoodR, TRUE) /\ P(p) <= lastGoodR * V0
      BY <1>1, <1>7 DEF NotchInv, SplitNotch
    <3>2. PICK m \in DOMAIN trials : trials[m].s = [r |-> lastGoodR, v |-> V0] /\ trials[m].ok = TRUE
      BY <3>1 DEF Measured
    <3>3. m \in Clean /\ OnLadder(m) /\ P(m) = lastGoodR * V0
      BY <3>2 DEF Clean, OnLadder, Product
    <3>. QED  BY <3>1, <3>3
  <2>. DEFINE G == {P(k) : k \in {k \in Clean : OnLadder(k) /\ P(p) <= P(k)}}
  <2>2. G \subseteq Nat /\ G # {}
    BY <1>1, <2>1
  <2>3. PICK least \in G : \A x \in G : least <= x
    <3>. HIDE DEF G
    <3>. QED  BY <2>2, LeastNatural
  <2>4. PICK g \in Clean : OnLadder(g) /\ P(p) <= P(g) /\ P(g) = least
    OBVIOUS
  <2>5. P(b) < P(g)
    BY <1>1, <2>4
  <2>6. PICK h \in Clean : OnLadder(h) /\ P(h) < P(g) /\ P(g) <= 2 * P(h)
    BY <1>4, <1>7, <2>4, <2>5
  <2>7. P(h) < P(p)
    <3>. SUFFICES ASSUME ~(P(h) < P(p))  PROVE FALSE
      OBVIOUS
    <3>1. P(p) <= P(h)
      BY <1>1
    <3>2. P(h) \in G
      BY <2>6, <3>1
    <3>3. P(g) <= P(h)
      <4>. HIDE DEF G
      <4>. QED  BY <2>3, <2>4, <3>2
    <3>. QED  BY <1>1, <2>6, <3>3
  <2>8. P(p) <= 2 * P(h)
    BY <1>1, <2>4, <2>6
  <2>. QED  BY <2>7, <2>8
<1>. QED  BY <1>5, <1>6, <1>7

\* Headroom costs at most half of the peak, in every search whose responses grow with
\* its requests.
THEOREM OneNotchHolds == Spec => []OneNotch
<1>1. OutcomeInv => OneNotch
  <2>. SUFFICES ASSUME OutcomeInv, Recommends, Searching,
                       \A i, j \in Clean : Product(trials[i].s) <= Product(trials[j].s)
                                             => trials[i].bytes <= trials[j].bytes
                PROVE  2 * Product(Recommended) >= Product(trials[Peak].s)
    BY DEF OneNotch
  <2>. DEFINE P(i) == Product(trials[i].s)
  <2>1. /\ Clean \subseteq DOMAIN trials /\ Within \subseteq Clean /\ Below \subseteq Within
        /\ \A i \in DOMAIN trials : P(i) \in Nat /\ trials[i].bytes \in Nat
        /\ Limit \in Nat
    <3>1. \A i \in DOMAIN trials : P(i) \in Nat /\ trials[i].bytes \in Nat
      BY LogType, ProductType DEF OutcomeInv
    <3>. QED  BY <3>1, LimitAssumption DEF Clean, Within, Below
  <2>2. /\ Peak \in Clean /\ Chosen \in Clean
        /\ Within # {} => Peak \in Within
        /\ Chosen = Peak \/ (Below # {} /\ Chosen \in Largest(Below))
    BY ChosenIn DEF OutcomeInv
  <2>3. CASE Chosen = Peak
    BY <2>1, <2>2, <2>3 DEF Recommended
  <2>4. CASE Below # {} /\ Chosen \in Largest(Below)
    <3>1. PICK b \in Below : TRUE
      BY <2>4
    <3>2. b \in Clean /\ P(b) < P(Peak) /\ Peak \in Within
      BY <2>1, <2>2, <3>1 DEF Below
    <3>3. PICK h \in Clean : P(h) < P(Peak) /\ P(Peak) <= 2 * P(h)
      BY <2>2, <3>2, NotchBelow
    <3>4. trials[h].bytes <= trials[Peak].bytes /\ trials[Peak].bytes <= Limit
      BY <2>1, <2>2, <3>2, <3>3 DEF Within
    <3>5. h \in Below
      BY <2>1, <2>2, <3>3, <3>4 DEF Within, Below
    <3>6. P(h) <= P(Chosen)
      BY <2>4, <3>5 DEF Largest
    <3>7. 2 * P(Chosen) >= P(Peak)
      BY <2>1, <2>2, <3>3, <3>6
    <3>. QED  BY <3>7 DEF Recommended
  <2>. QED  BY <2>2, <2>3, <2>4
<1>. QED  BY <1>1, OutcomeInvariant, PTL

-----------------------------------------------------------------------------
(* The final probe.                                                        *)

\* A canary that dies on the final probe condemns every trial of the last setting
\* walked, so what is recommended afterwards is another setting.
THEOREM CondemnedNotRecommendedHolds == Spec => CondemnedNotRecommended
<1>1. ASSUME OutcomeInv, OutcomeInv', AbortInv, [Next]_vars,
             pc = "finalProbe", aborted' # NotAborted, Recommends'
      PROVE  Recommended' # aborted'.s
  <2>1. FinalProbe
    <3>1. aborted' # aborted
      BY <1>1 DEF AbortInv
    <3>2. CASE Choose
      <4>1. aborted' = aborted
        BY <3>2 DEF Choose, EscalateStep, EscalateCap, EscalateVetoed, EscalateFailed,
           EscalateClean, BisectStep, BisectReturn, BisectEnd, SplitStep, SplitEnd, TryStep,
           TryEnd, ListReturn, Proceed, Call, runner, verdict
      <4>. QED  BY <3>1, <4>1
    <3>3. CASE ContextDone \/ UNCHANGED vars
      BY <3>1, <3>3 DEF ContextDone, vars, runner, verdict
    <3>. QED  BY <1>1, <3>2, <3>3 DEF Next, RunStep, TrialStep, Terminated, Skip,
              Interrupted, AsksContext, Exhausted, Admit, Cooldown, ProbeAborts, ProbeStressed,
              ProbeOk, WalkClean, TrialClean, TrialFailed, TransportError, FinalSkipped, FinalAsk
  <2>2. trials' = Condemn(lastSet) /\ aborted'.s = lastSet
    BY <1>1, <2>1 DEF FinalProbe, AbortInv
  <2>3. \A i \in DOMAIN trials : trials[i] \in Trial
    BY <1>1, LogType DEF OutcomeInv, TypeInv, TypeOK
  <2>4. \A i \in DOMAIN trials' : trials'[i].ok => trials'[i].s # lastSet
    BY <2>2, <2>3 DEF Condemn, Trial
  <2>5. (Chosen \in Clean)'
    BY <1>1, ChosenIn, PTL DEF OutcomeInv
  <2>. QED  BY <2>2, <2>4, <2>5 DEF Clean, Recommended
<1>2. Init => AbortInv
  BY DEF Init, AbortInv, AbortNamesLastTrial, NotAborted
<1>3. OutcomeInv /\ AbortInv /\ [Next]_vars => AbortInv'
  BY AbortStep DEF OutcomeInv
<1>. QED  BY <1>1, <1>2, <1>3, OutcomeInvariant, PTL DEF Spec, CondemnedNotRecommended
=============================================================================
