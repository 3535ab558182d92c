------------------------------- MODULE Report -------------------------------
(***************************************************************************)
(* Package report: what recommend() makes of the outcome of a search.  It  *)
(* has no state of its own: it is asked for a recommendation in every      *)
(* state of the search.                                                    *)
(***************************************************************************)
EXTENDS Search

CONSTANT Limit        \* DatagramLimit(mtu)

ASSUME LimitAssumption == Limit \in Nat

-----------------------------------------------------------------------------
(* recommend().  It speaks of trials by their place in the outcome.        *)

\* The clean trials whose responses fit one datagram.
Within_failed == {i \in DOMAIN trials : trials[i].bytes <= Limit}
Within == {i \in Clean : trials[i].bytes <= Limit}

\* The best of the trials in S; among equals the first.
Better(i, j) == trials[i].score > trials[j].score \/ (trials[i].score = trials[j].score /\ i <= j)
Best(S) == CHOOSE i \in S : \A j \in S : Better(i, j)

\* bestWithin, or Outcome.Peak when no clean trial fits.
Recommends == Clean # {}
Fragmented == Within = {}
Peak_any == Best(Clean)
Peak == Best(IF Fragmented THEN Clean ELSE Within)

\* allRequested: the trials of a run come from --try or none of them does.
AllRequested == phase = "try"

\* The clean trials below the peak, and the largest of them, the better of two
\* as large.
Below == {i \in Within : Product(trials[i].s) < Product(trials[Peak].s)}

Largest(S) == {i \in S : \A j \in S : Product(trials[j].s) <= Product(trials[i].s)}
Smallest(S) == {i \in S : \A j \in S : Product(trials[i].s) <= Product(trials[j].s)}

Headroom_most == Best(Smallest(Below))
Headroom == Best(Largest(Below))

Chosen == IF AllRequested \/ trials[Peak].s = Start \/ Below = {} THEN Peak ELSE Headroom

\* Recommendation.Settings.
Recommended == trials[Chosen].s
-----------------------------------------------------------------------------
(* What a recommendation promises.                                         *)

\* A trial condemned by the final probe, the one that made the agent restart or
\* fall silent, is not what the report recommends for production (bestWithin and
\* recommend read an outcome that finalProbe has rewritten).
CondemnedNotRecommended ==
  [][pc = "finalProbe" /\ aborted' # NotAborted /\ Recommends' =>
       Recommended' # aborted'.s]_vars

\* With its width, the setting that a search recommends is smaller than any that
\* failed, at whatever point of the search, by interrupt or stress or walk.
BelowFailuresOfItsWidth ==
  Searching /\ Recommends =>
    \A i \in Failed : trials[i].s.v = Recommended.v => Recommended.r < trials[i].s.r

\* README: "The recommendation only considers settings within one datagram
\* unless nothing else passed."  Neither the peak nor the step below it exceeds
\* the limit while some clean trial does not.
OneDatagram == Within # {} => {Peak, Chosen} \subseteq Within

\* When larger requests bring larger responses, headroom costs at most half of
\* the peak: the doublings and the bisection have left a clean trial that large.
OneNotch ==
  /\ Recommends /\ Searching
  /\ \A i, j \in Clean : Product(trials[i].s) <= Product(trials[j].s) => trials[i].bytes <= trials[j].bytes
  => 2 * Product(Recommended) >= Product(trials[Peak].s)
=============================================================================
