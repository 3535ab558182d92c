------------------------------- MODULE Canary -------------------------------
(***************************************************************************)
(* The canary of package safety against an agent whose sysUpTime counts    *)
(* ticks, wraps and starts again at a reboot: the baseline probes of       *)
(* NewCanary, then Probe until a verdict ends the run.                     *)
(***************************************************************************)
EXTENDS Safety, Sequences, FiniteSets, Functions

CONSTANTS
  Modulus,       \* 2^32: sysUpTime is a uint32 of hundredths of a second
  Rtts,          \* round-trip times, milliseconds
  MaxReboots,    \* bound on the reboots of the agent
  MaxPause       \* bound on the ticks between two answers

ASSUME CanaryAssumption ==
  /\ Modulus \in Nat \ {0}
  /\ Rtts \subseteq Nat
  /\ MaxReboots \in Nat /\ MaxPause \in Nat

BaselineProbes == 5
StressFactor == 3
StressFloor == 10    \* milliseconds

VARIABLES
  \* the agent: its clock, and its reboots so far
  up, reboots,
  \* NewCanary: probes sent, round-trip times of the answered ones
  sent, rtts,
  \* the Canary, and the verdict of its last Probe
  baseline, lastUptime, seen, lost, verdict,
  \* "preflight", "running", "refused" or "over"
  stage,
  \* since the agent last answered: ticks passed, and whether it rebooted,
  \* its clock wrapped, or its last answer had no time in it.  Not in the code.
  pause, rebooted, wrapped, timeless

agent == <<up, reboots>>
canary == <<baseline, lastUptime, seen, lost, verdict>>
since == <<pause, rebooted, wrapped, timeless>>
vars == <<agent, sent, rtts, canary, stage, since>>

Init ==
  /\ up \in 0 .. Modulus - 1 /\ reboots = 0
  /\ sent = 0 /\ rtts = <<>>
  /\ baseline = 0 /\ lastUptime = 0 /\ seen = FALSE /\ lost = 0 /\ verdict = "ok"
  /\ stage = "preflight"
  /\ pause = 0 /\ rebooted = FALSE /\ wrapped = FALSE /\ timeless = FALSE

\* uptime(): what the canary reads in an answer.  One without a varbind, or
\* with a value that is no number, such as noSuchObject, reads as zero.
Uptime(withTime) == IF withTime THEN up ELSE 0

\* noteUptime, and the history of the agent starts again with this answer.
NoteUptime(withTime) ==
  /\ lastUptime' = Uptime(withTime)
  /\ seen' = TRUE
  /\ pause' = 0 /\ rebooted' = FALSE /\ wrapped' = FALSE /\ timeless' = ~withTime
-----------------------------------------------------------------------------
(* NewCanary.                                                              *)

BaselineAnswered ==
  /\ stage = "preflight" /\ sent < BaselineProbes
  /\ sent' = sent + 1
  /\ \E rtt \in Rtts : rtts' = Append(rtts, rtt)
  /\ \E withTime \in BOOLEAN : NoteUptime(withTime)
  /\ UNCHANGED <<agent, baseline, lost, verdict, stage>>

\* An unanswered baseline probe is passed over: it does not count as lost.
BaselineUnanswered ==
  /\ stage = "preflight" /\ sent < BaselineProbes
  /\ sent' = sent + 1
  /\ UNCHANGED <<agent, rtts, canary, stage, since>>

\* slices.Sort: the order in which no time comes before a smaller one.
SortOrder(s) ==
  CHOOSE p \in [1 .. Len(s) -> 1 .. Len(s)] :
    IsInjective(p) /\ \A i, j \in 1 .. Len(s) : i <= j => s[p[i]] <= s[p[j]]

\* The middle of the sorted times, the upper one of two.
Median_unsorted(s) == s[Len(s) \div 2 + 1]
Median(s) == s[SortOrder(s)[Len(s) \div 2 + 1]]

BaselineDone ==
  /\ stage = "preflight" /\ sent = BaselineProbes
  /\ IF rtts = <<>>
       THEN stage' = "refused" /\ UNCHANGED baseline
       ELSE stage' = "running" /\ baseline' = Median(rtts)
  /\ rtts' = <<>>
  /\ UNCHANGED <<agent, sent, lastUptime, seen, lost, verdict, since>>
-----------------------------------------------------------------------------
(* Probe.  The run ends with the verdicts that abort it.                   *)

After_lostOnly(v) == IF v = "lost" THEN "over" ELSE "running"
After(v) == IF v \in {"restarted", "lost"} THEN "over" ELSE "running"

SilenceVerdict_late(n) == IF n > LostLimit THEN "lost" ELSE "ok"
SilenceVerdict(n) == IF n >= LostLimit THEN "lost" ELSE "ok"

\* Any error counts: a timeout, an error status of the agent, a done context.
ProbeUnanswered ==
  /\ stage = "running"
  /\ lost' = lost + 1
  /\ verdict' = SilenceVerdict(lost + 1)
  /\ stage' = After(verdict')
  /\ UNCHANGED <<agent, sent, rtts, baseline, lastUptime, seen, since>>

\* An uptime that went backwards comes before everything else; the time of a
\* retried answer includes a timeout, and says nothing of the agent.
AnswerVerdict_notAfter(withTime, retried, rtt) ==
  IF seen /\ Uptime(withTime) <= lastUptime THEN "restarted"
  ELSE IF ~retried /\ rtt > StressFactor * baseline /\ rtt > StressFloor THEN "stressed"
  ELSE "ok"
AnswerVerdict_retriedFirst(withTime, retried, rtt) ==
  IF retried THEN "ok"
  ELSE IF seen /\ Uptime(withTime) < lastUptime THEN "restarted"
  ELSE IF rtt > StressFactor * baseline /\ rtt > StressFloor THEN "stressed"
  ELSE "ok"
AnswerVerdict(withTime, retried, rtt) ==
  IF seen /\ Uptime(withTime) < lastUptime THEN "restarted"
  ELSE IF ~retried /\ rtt > StressFactor * baseline /\ rtt > StressFloor THEN "stressed"
  ELSE "ok"

ProbeAnswered ==
  /\ stage = "running"
  /\ \E withTime, retried \in BOOLEAN, rtt \in Rtts :
       /\ verdict' = AnswerVerdict(withTime, retried, rtt)
       /\ NoteUptime(withTime)
  /\ lost' = 0
  /\ stage' = After(verdict')
  /\ UNCHANGED <<agent, sent, rtts, baseline>>
-----------------------------------------------------------------------------
(* The agent.                                                              *)

Tick ==
  /\ stage \in {"preflight", "running"} /\ pause < MaxPause
  /\ up' = (up + 1) % Modulus
  /\ pause' = pause + 1
  /\ wrapped' = (wrapped \/ up' = 0)
  /\ UNCHANGED <<reboots, sent, rtts, canary, stage, rebooted, timeless>>

Reboot ==
  /\ stage \in {"preflight", "running"} /\ reboots < MaxReboots
  /\ up' = 0
  /\ reboots' = reboots + 1
  /\ rebooted' = TRUE
  /\ UNCHANGED <<sent, rtts, canary, stage, pause, wrapped, timeless>>

Stopped == stage \in {"refused", "over"} /\ UNCHANGED vars

Next == \/ BaselineAnswered \/ BaselineUnanswered \/ BaselineDone
        \/ ProbeUnanswered \/ ProbeAnswered
        \/ Tick \/ Reboot \/ Stopped

Spec == Init /\ [][Next]_vars
-----------------------------------------------------------------------------
(* What the canary promises.                                               *)

\* Every variable has its type; the verdict and the stage agree.
TypeOK ==
  /\ up \in 0 .. Modulus - 1 /\ reboots \in 0 .. MaxReboots
  /\ sent \in 0 .. BaselineProbes /\ rtts \in Seq(Rtts) /\ Len(rtts) <= sent
  /\ baseline \in Nat /\ lastUptime \in 0 .. Modulus - 1 /\ seen \in BOOLEAN
  /\ lost \in 0 .. LostLimit /\ verdict \in Verdicts
  /\ stage \in {"preflight", "running", "refused", "over"}
  /\ (stage = "over") = (verdict \in {"restarted", "lost"})
  /\ pause \in 0 .. MaxPause
  /\ rebooted \in BOOLEAN /\ wrapped \in BOOLEAN /\ timeless \in BOOLEAN

\* The clock of the agent since its last answer: without a wrap it has moved on
\* by the pause, or it started again and is no further than the pause.
ClockMovesOn ==
  seen /\ ~wrapped /\ ~timeless =>
    IF rebooted THEN up <= pause ELSE up = lastUptime + pause

\* The canary calls an agent restarted only when since its last answer it did
\* reboot, its uptime wrapped, or this answer had no uptime in it: a slow, a
\* retried or a repeated answer is never taken for a restart.
RestartIsReal ==
  [][stage = "running" /\ verdict' = "restarted" => rebooted \/ wrapped \/ timeless']_vars

\* A reboot is found by the first answer after it, whether that answer was slow,
\* retried or preceded by a lost probe, unless the agent has by then been up as
\* long as when it last answered.
RebootFound ==
  [][ProbeAnswered /\ rebooted /\ ~wrapped /\ pause < lastUptime
       => verdict' = "restarted"]_vars

\* The baseline is a median of the baseline probes that were answered: half of
\* them and more are no slower, half of them and more no faster.
BaselineIsMedian ==
  [][stage = "preflight" /\ stage' = "running" =>
       LET n == Len(rtts)
       IN /\ 2 * Cardinality({i \in 1 .. n : rtts[i] <= baseline'}) > n
          /\ 2 * Cardinality({i \in 1 .. n : rtts[i] >= baseline'}) >= n]_vars

\* The search may look at the canary as a probe whose answer is of one of four
\* classes: what Probe computes from uptimes, round-trip times and retries is
\* what CanaryView says of those classes.
View == INSTANCE CanaryView
SeenAsView == View!Spec
=============================================================================
