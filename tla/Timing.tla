------------------------------- MODULE Timing -------------------------------
(***************************************************************************)
(* Package report: the timeout of a recommendation, from the telemetry of  *)
(* the chosen trial.  That trial is clean: each of its requests was        *)
(* answered, after a retry, with a misordered row that table() marks as an *)
(* error, or with neither.                                                 *)
(***************************************************************************)
EXTENDS Integers, FiniteSetsExt

\* PDU.Retries above 0, PDU.Error, or neither.
Marks == {"retried", "misordered", "clean"}

CONSTANTS
  RTTs,                \* round-trip times, in ticks
  MostOf,              \* how many answers of each, by what is marked of them
  TicksPerMs

ASSUME TimingAssumption ==
  /\ RTTs \subseteq Nat /\ IsFiniteSet(RTTs) /\ TicksPerMs \in Nat \ {0}
  /\ MostOf \in [Marks -> [RTTs -> Nat]]

VARIABLE answers      \* Result.PDUs, counted by their mark and their RTT

timingVars == answers

Init == answers = [mark \in Marks |-> [d \in RTTs |-> 0]]

\* send and table: a request is answered.
Answered(mark, d) ==
  /\ answers[mark][d] < MostOf[mark][d]
  /\ answers' = [answers EXCEPT ![mark][d] = @ + 1]

\* The trial is over.
Ended == UNCHANGED timingVars

Next == (\E mark \in Marks, d \in RTTs : Answered(mark, d)) \/ Ended

Spec == Init /\ [][Next]_timingVars
-----------------------------------------------------------------------------
CeilDiv(a, b) == (a + b - 1) \div b

\* rtts: the time of an answer that took a retry is not the agent's; one that is
\* marked with an error does not count either.
Measured_all(d) == answers["clean"][d] + answers["retried"][d]
Measured(d) == answers["clean"][d]

Total == MapThenSumSet(Measured, RTTs)

\* percentile: the answer at the nearest rank, zero when there is none.
Rank_floor(pct, n) == IF pct * n < 100 THEN 1 ELSE (pct * n) \div 100
Rank(pct, n) == CeilDiv(pct * n, 100)
Percentile(pct) ==
  IF Total = 0 THEN 0
  ELSE Min({d \in RTTs : MapThenSumSet(Measured, {e \in RTTs : e <= d}) >= Rank(pct, Total)})

\* SuggestTimeout: three times the whole milliseconds of p99, in steps of 100.
WholeMs(d) == d \div TicksPerMs
SuggestTimeout(p99) == Max({100 * CeilDiv(3 * WholeMs(p99), 100), 500})

TimeoutMs == SuggestTimeout(Percentile(99))
-----------------------------------------------------------------------------
(* What the timeout promises.                                              *)

\* The answers in D that took no retry and misordered nothing.
CleanIn(D) == MapThenSumSet(LAMBDA d : answers["clean"][d], D)

\* At most one in a hundred of these needed more than the timeout gives, a third of it
\* each: 3 ms more, as SuggestTimeout drops the fraction of p99's last millisecond (that
\* it does is the claim that TimingClaims refutes).
TimeoutFits ==
  100 * CleanIn({d \in RTTs : 3 * d >= TicksPerMs * (TimeoutMs + 3)}) <= CleanIn(RTTs)

\* A timeout above the floor is earned by them, whatever the others took: one in
\* a hundred came within 100 ms of a third of it, or above.
TimeoutEarned ==
  TimeoutMs > 500 =>
    /\ CleanIn(RTTs) > 0
    /\ 100 * CleanIn({d \in RTTs : 3 * WholeMs(d) > TimeoutMs - 100}) >= CleanIn(RTTs)
=============================================================================
