---------------------------- MODULE SearchClaims ----------------------------
(***************************************************************************)
(* What the README, the comments and the tests of snmptune say of a run,   *)
(* where the code does something else.  Each claim is refuted by a run of  *)
(* its own.                                                                *)
(***************************************************************************)
EXTENDS MCSearch

\* README: "A canary probe runs before every repeat and once after the last
\* trial."  A search that max-trials ends returns from trial() at once.
ProbeAfterLastTrial ==
  [][pc # "done" /\ pc' = "done" /\ aborted' = NotAborted /\ ctx = "live" /\ trials # <<>>
       => pc = "finalProbe"]_vars

\* search_test.go: "the trial that preceded the restart must not stay ok".
\* That holds of the final probe only: a restart that the first probe of the next
\* trial finds leaves the trial before it clean, and a candidate for the peak.
RestartedTrialFails ==
  aborted.why = "restarted" /\ trials # <<>> => ~trials[Len(trials)].ok

\* search.go: "Measure runs exactly the given settings, in order"; README: "--try R:V
\* skips the search and measures the named settings".  A setting no smaller than one
\* that failed is dropped, and nothing in the outcome tells.
AllRequestedTried ==
  pc = "done" /\ aborted = NotAborted /\ limited = "none" =>
    \A i \in DOMAIN Requested : \E j \in DOMAIN trials : trials[j].s = Requested[i]
=============================================================================
