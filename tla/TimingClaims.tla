---------------------------- MODULE TimingClaims ----------------------------
(***************************************************************************)
(* What the README and a comment of package report say of the timeout,     *)
(* where the code does something else.                                     *)
(***************************************************************************)
EXTENDS MCTiming

\* README and SuggestTimeout: "three times the p99 round-trip time, rounded up to
\* 100 ms".  The code multiplies the whole milliseconds of p99, so the timeout falls
\* short of it when only the fraction lifts the product over a multiple of 100 ms.
TimeoutCoversP99 == 3 * Percentile(99) <= TicksPerMs * TimeoutMs
=============================================================================
