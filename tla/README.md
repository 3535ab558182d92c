# A specification of snmptune

snmptune measures one SNMP agent and recommends `max-repetitions` and
`max-vars-per-pdu` for OpenNMS. It is a load generator pointed at production
gear, so what it must never do (drive an agent above what already failed, go on
after the agent restarted, report a half-made trial as clean) matters as much as
what it finds. These TLA+ modules model the parts of the program that decide
that, TLC checks them on small instances, and TLAPS proves the properties that
matter most for every value of the constants.

## The system

The program is sequential: one goroutine, one request in flight. What makes it
hard is everything that may happen between two of its steps: the agent
restarts, slows down, drops a packet or answers wrongly, the operator presses
Ctrl-C, the deadline of the run passes.

| Part | Source | State it keeps | Operations | Must guarantee |
| --- | --- | --- | --- | --- |
| search | `internal/search/search.go` | the outcome (trials, abort, budget limit, stress), `ceiling`, `lastGood`, `measured`, `lastSet`; the ladder's variables | `Run`: escalate, bisect, split; `Measure` (`--try`); `trial`, `interrupted`, `record`, `abort`, `finalProbe` | never at or above a failed product; no escalation under stress; budgets; one trial per setting; only complete trials are clean; the bracket converges; the run ends |
| canary | `internal/safety/safety.go` | baseline, last uptime, probes lost in a row | `NewCanary`, `Probe` | a reboot is found, nothing else is taken for one; loss, stress and retries are told apart |
| budgets | `internal/safety/safety.go` | trials so far, start time | `NoteTrial`, `Exhausted`, `Cooldown` | partial trials count; the limits hold |
| walk | `internal/walk/walk.go` | a cursor per column, the active columns of a chunk, the result | `Run`, `table`, `scalars`, `send` | every column is read to its end, no row twice; truncation is noticed; it ends on misordered agents |
| oid | `internal/oid/oid.go` | none | `Compare`, `HasPrefix`, `SkipTarget` | a skip moves forward |
| inventory | `internal/inventory/inventory.go` | cursor, OIDs per subtree, total | `Walk`, `inferColumns` | stops at `max-oids` and the deadline, and says which subtrees are partial |
| workload | `internal/workload/workload.go` | none | `FromInventory`, `FromDatacollection`, `WidestTable` | columns of complete subtrees only |
| transport | `internal/agent/gosnmp.go` | the retries of the current request | `do` | timeouts, error statuses and a done context are told apart |
| report | `internal/report/report.go` | none | `recommend`, `bestWithin`, `SuggestTimeout` | a clean setting with headroom below the peak |
| main | `cmd/snmptune/main.go` | the phases of a run | `run` | partial subtrees leave the trials; the deadline covers every phase |
| sim | `internal/agent/sim/sim.go` | a simulated agent | test double | none of its own |

How they interact: `main.run` makes a context with the deadline, builds the
canary, walks the inventory and hands both to a `Runner`. `Runner.trial` asks
the context, then the tracker, sleeps, asks the context again, probes the
canary, walks the workload. Each of these calls goes through the one transport,
under the one context.

The hazards are in `PROJECT.json`, each at its line with the properties that
would notice it: the context done while a probe or a walk is out, stress between
two repeats of a trial, an abort after some of them, a restart found one probe
late, a bisection ended by the ceiling or the measured set, `uint32` arithmetic
in the ladder, limits at zero, a lost probe or a retried answer taken for
something else; a reference walk cut short at a root that is walked twice, a
budget shared by all roots, two walks that have to agree on what an agent that
misorders has.

## The modules

| Module | Models | Correspondence |
| --- | --- | --- |
| `Safety` | the verdicts of a probe and the trial budget | operators; an answer is one of four classes: none, back, slow, fine |
| `Search` | `Runner.Run`, `Measure`, `trial`, `finalProbe`, the tracker, the context | one action per piece of code between two points where the context can become done |
| `Canary` | `NewCanary`, `Probe`, and an agent with a clock that ticks, wraps and restarts | one action per call, with and without an answer, and the agent's steps |
| `CanaryView` | the canary as `Search` uses it | `Canary` implements it (`SeenAsView`), which is why `Search` needs no uptimes |
| `LoadGuard` | what a run promises the agent: a log of loads, each tried and judged once | `Search` implements it (`KeepsPromise`) with loads for settings |
| `Oid` | package `oid`: the order of OIDs, `HasPrefix`, `SkipTarget` | operators on sequences of arcs; the arc that `SkipTarget` increments wraps as a `uint32` does |
| `Transport` | package `agent`: replies, and `GoSNMP.do` on errors | operators; a varbind is an OID or the end of the MIB |
| `Column` | how a response is read for one cursor | operators that `Walk` and `Inventory` share, as the code has the same rules twice |
| `Listing` | lists made of other lists: numbers in order, what passes a test, each element once | operators of `Walk`, `Inventory`, `Workload` and `Session` for the loops that build slices; without recursive operators, so that all of these can be proved about |
| `Walk` | `walk.Run`, `table`, `scalars`, `send`; `referenceOIDs` and `Missing` of the search | one action per request and its answer, and per turn of a loop; the answer is a parameter |
| `WalkAgents` | `Walk` against an agent with an order of its own, and one that answers anything | the agent's answers and the specification of one walk |
| `Inventory` | `inventory.Walk`, `parentOf`, `inferColumns` | one action per turn of its loop; the answer, and whether the context is done, are parameters |
| `Workload` | `FromDatacollection`, `Roots`, `FromInventory` | operators on the objects of a group and on subtrees |
| `Sim` | the simulated agent's `GetBulk` | operators on a profile: its OIDs, where it errs, its caps |
| `Session` | `main.run` from the first packet to the exit code, with one requested setting | composes `Inventory`, `Workload`, `Walk` and `Sim` under one context; one action per phase, and the actions of the walks |
| `Plan` | the ladder and the widths that `--dry-run` prints | operators over the constants of `Search`, compared with what `Search` does |
| `Timing` | `rtts`, `percentile`, `SuggestTimeout` | the answers of a trial counted by their round-trip time |
| `Report` | `recommend`, `bestWithin`, `Outcome.Peak` on the outcome that `Search` has built so far | operators for the choices, over the trials of `Search`, each with the size of its largest response |
| `MCSearch`, `MCWalk`, `MCSession`, `MCReport`, `MCTiming` | values for TLC | |
| `SearchClaims`, `TimingClaims`, `SessionClaims` | claims of the documentation that a run refutes | |
| `SearchProofs` | theorems about `Search` and `Plan` | the log and its budgets; stress, complete trials and the refinement of `LoadGuard`; ladder, bisection and split; the dry run |
| `ReportProofs` | theorems about `Report` | on top of `SearchProofs` |
| `TimingProofs` | theorems about `Timing` | sums over finite sets, and the percentile they count |
| `CanaryProofs`, `WalkProofs` | theorems about `Canary`, `WalkAgents` | |
| `OidProofs` | theorems about `Oid`, lemmas about `Column` and `Listing` | how a response moves a cursor, and what the lists hold: shared by the two walks |
| `SessionProofs` | theorems about `Session` | agent, reference walk, workload, the phases of a run |
| `NaturalLemmas` | lemmas on least numbers, quotients, sorted sequences and finite linear orders | what the provers do not find by themselves and the proofs above share |

In `Search`, `phase` and `pc` say where control is: `next` in a loop of `Run` or
`Measure`, `trial` at the head of `trial()`, `cool` in the cooldown, `probe` and
`walk` with a request out, `return` back in the loop, `final` and `finalProbe`
after it. `runner` and `verdict` are the fields of `Runner` and `Outcome` under
their names; `noted` is `Tracker.Trials`, `lost` is `Canary.lost`, `ctx` is what
`ctx.Err()` says. `Trial.runs` counts the repeats in `Trial.Runs`; a trial's
failure text is `ok = FALSE`. A walk ends clean, failed or with a transport
error as the environment likes; the score of a clean trial, the median of the
throughputs of its walks, is any member of `Scores`. The order of the checks is
the code's, and the trailing work of `trial()` (the log entry, the tracker, the
ceiling) is part of the action of the walk that ends it.

In `Walk`, `pc` is `chunk` in the loops of `Run` over tables and chunks, `loop`
at the head of the loop of `table()`, `bulk` with a GetBulk out, `scalars` in the
loop over the scalars. `active` is the slice of columns not finished. `table()`
goes through a response varbind by varbind and keeps, for each column, whether
it finished or jumped; each column sees only its own varbinds, so the model
takes them column by column (`CellsOf`): rows are read up to the first that does
not follow (`RowsRead`), and that row decides whether the column is finished or
skips (`Misordered`, `Finished`, `CursorAfter`). `failures` holds the kinds of
the failure texts in place of the texts. The agent of `WalkAgents` is one of two: it sorts the
arcs of a row's index by an order of its own and answers any part of the full
response, or it answers any varbinds at all. It never answers more varbinds than
asked for, and no column of the instances lies under another: a column listed
in two groups would be read twice. The history variables `again` and `wrapped`
are not in the code: OIDs read a second time, and whether a skip wrapped.

In `Session`, `phase` follows `main.run`: `preflight`, `reference`, `tree` for the
walk of `--reference-tree`, `trial`, `exit`. `line` is what the command line
asks: roots, objects of a group, a reference tree, `--max-oids`. In each phase
the actions are those of the component that runs there, and `ctx` and `agent` are
the ones `Walk` has. `Inventory.refPc` is the place in the reference walk, `root`,
`cursor`, `total` and `subtrees` are its variables; `found` and `skipped` are
fields of the `Subtree` it is at. `given` is what `search.Runner` gets of it: the
tables, the number of scalars and the complete subtrees, each under its own root,
so that an OID found under two roots counts twice in the tolerance as it does in
`referenceOIDs`. `shown` is the inventory of the report. A profile of the agent
combines its OIDs, one cursor behind which it answers wrongly, caps in rows and
in varbinds, a size it refuses and a size it is too slow for. `Session` makes one
trial of one repeat; what the canary does in between is `Search`'s, so here a run
may be aborted before the trial or after it (`Report`).

`Timing` counts the answers of one clean trial by round-trip time and by what the
telemetry marks of them, a retry or a misordered row; in every state the report
could be written. `Plan` has the loop of
`search.Plan` as the function of its doublings, a `uint32` as in the code, and
the settings that the loop prints.

Four abstractions need a word:

- *The clock.* `Tracker.Exhausted` also compares elapsed time with
  `max-duration`. The tracker is started after the context got its deadline
  (`main.go:206`, `main.go:225`), and `trial()` asks the context first, so what
  the tracker would say of time the context has said already. The model has the
  context's deadline only.
- *The wrap.* `reps *= 2` is a `uint32` product: `(2 * reps) % RepsModulus`.
  With `RepsModulus` at 2^32 the other arithmetic of the ladder stays below the
  modulus. A wrapped ladder proposes `R = 0`, which `walk.Run` refuses: this is
  the guard `cur.r > 0` of the walks and the reason `TransportError` has none.
- *The wrap of a skip.* `SkipTarget` increments a `uint32` arc. An agent that
  answers the column's largest index arc, or anything after it, out of order
  sends the cursor back to arc 0: rows are read twice, and a walk can then go
  round for ever, until the deadline. `NoRowTwice` and `WalkEnds` hold up to that
  point (`wrapped`), and neither holds without that exception.
- *Done contexts.* Nobody but `interrupted`, `table` and `finalProbe` asks the
  context; a reply that comes for the request that is out counts whether the
  context is done or not (`GoSNMP.do` looks at it only behind an error, `trial()`
  after the last repeat not at all). So a walk under a done context may still end
  clean or failed and complete its trial, a probe may still be answered, and
  Ctrl-C may come too late to change anything. `Search` lets every call end in any
  way at any time: under a done context that is more than the code can do (a
  canary probe that has not been sent yet fails at once, and a walk ends at its
  next request), and what holds of it holds of the code.

Integers. `max-repetitions` is a `uint32` in the ladder and in the split
(`SplitReps`); `max-product` is an `int`, and adding 1 to the largest one wraps
(`FirstCeiling`), so that such a search passes over every setting. The products
are `int`s as well, which `IntAssumption` keeps in range: ten times the modulus
of the ladder is an `int` of 64 bits.

Definitions whose names carry an underscore (`Wide_half`) are not the program:
they are slips it could have had, kept beside the definition they change.
`PROJECT.json` pairs each with the property that notices it.

## The runs

Passing runs:

| Run | Instance | Shows |
| --- | --- | --- |
| `search_report` | a table of 15 columns, two repeats, 6 trials, product 80, Ctrl-C at any moment, three scores within and beyond a plateau, responses within and beyond a datagram | the invariants of the log, the ceiling, the bracket, the split, the abort; that the table's width is tried; that a run which was cut short names a reason; that the ladder of `--dry-run` is climbed, each step of it in turn and no load above it. In every state of it, of the recommendation: what the final probe condemned is not recommended, nor a setting at or above one of its width that failed, nor a fragmented one without need; headroom costs at most half of the peak |
| `search_ladder` | a one-column table, one repeat, product 40, modulus 64, five scores | the ladder reaches 32 and wraps, the bisection takes up to three steps; the bracket closes, the run ends, `LoadGuard` is implemented |
| `search_try` | four requested settings: a setting and a product twice, a larger after a smaller; 4 trials, deadline and Ctrl-C | one trial per setting; none left out but for a reason |
| `walk` | three ragged columns with indices of one and two arcs, two per request, two rows per request, and an object of the table that is not asked for; arcs below 4 | cursors only move forward, no row is read twice, a row is lost only in a column listed as skipped, an agent that keeps the order is not blamed, the walk ends |
| `survey` | seven command lines with up to two roots, a group, a reference tree and budgets of 1, 3, 4 and 40 OIDs; 180 simulated agents; a deadline anywhere | no table is walked without a ground truth, an inventory not marked partial is whole, an agent that answers both walks alike is not blamed, a successful run has read what it shows, the budget of OIDs is kept, the run ends |
| `timing` | up to 107 answers of four round-trip times, two more after a retry, one with a misordered row | at most one answer in a hundred took more than a third of the timeout and 1 ms; a timeout above the floor is due to answers without a mark |
| `canary` | a clock of 6 ticks, three round-trip times, one reboot, pauses up to 3 | restarts, reboots, the median baseline, the four classes of answers |

Bounds. Six trials and product 80 are enough for two doublings, a failure, a
bisection step inside the bracket and two splits, with stress or an abort at any
probe of any of them; two repeats are the least with a probe inside a trial. The
ladder's run gives up on repeats, budgets and interrupts to go deep in the
arithmetic: 2, 4, ..., 32, 0, and brackets of width 16. Its one column leaves
the split nothing to do, and a `max-product` with a plan that ends keeps the
quotient of the split below the modulus: the wrap of `SplitReps` is in reach of
the proofs, which are for every modulus and `max-product`, and not of a run. With
15 columns the clean products 20, 40 and 80 and those of the bisection leave room
for the width in some runs and not in others, and the quotients by 15 and by 20
round to products that differ, or do not. Two doublings that both gain more than
the plateau need three scores. `search_try` has no `max-product` to observe: the
one of its instance, 40, only tells loads apart. For the
canary, a clock of 6 ticks with pauses up to 3 reaches a wrap, a reboot, and both
in a row; five baseline probes of three times give every shape of median.
Baseline times 1, 9 and 40 make 9 larger than three times the baseline of 1 and
below the floor of 10 ms, and 40 stressed for both.

For the walk, three columns with `MaxVars` 2 give a full and a partial chunk, a
column that ends before its neighbour, and rows whose index has two arcs;
two rows per request give rows in part, in full and one short; three orders (up,
down, 2 before 1) reach skips inside a column and skips that leave it; four arcs
let a skip wrap. An agent that answers anything has four OIDs to choose from, in
responses of up to four varbinds.

For the session, the MIB is a table of two columns, one of three of which the
group asks two, and an object that is no table. Budgets of 3 and 4 end the
reference walk inside a table, between two roots, and between the two walks of a
root that the operator and the group both name; the four wrong answers stay in
the column, go to the column before, to the row itself, and out of the root; caps
of 0 and 3 varbinds give empty responses and rows in part; 3 of `above` and of
`slow` let the reference walk pass (its three varbinds) where a trial of four
fails. For the timing, 107 answers put the hundredth one on both sides of the
rank, and 200.9 and 730 ms are above the floor with and without a part of a
millisecond.

Refuting runs. Each checks one sentence of the documentation or the tests, and
TLC finds the run that breaks it.

| Run | Sentence | What happens |
| --- | --- | --- |
| `claim_final_probe` | README: a probe runs "once after the last trial" | when `max-trials` ends the search, `Run` returns without `finalProbe` |
| `claim_restarted_trial` | `search_test.go`: "the trial that preceded the restart must not stay ok" | a restart that the first probe of the next trial finds leaves that trial clean, and a candidate for the recommendation |
| `claim_skip_target` | README: a walk that meets an OID out of order "lists the skipped columns in the report" | after an answer equal to its request the reference walk asks behind the OID's next sibling; when that is a row it is never read, and `Skipped` lists the row before it instead |

| `claim_timeout` | README: "three times the p99 round-trip time ..., rounded up to 100 ms" | `SuggestTimeout` drops the fraction of the p99's last millisecond first: 200.9 ms gives 600 ms, less than three times itself, where 700 ms is due |
| `claim_try_dropped` | comment of `Measure`: it "runs exactly the given settings, in order" | after a failure the settings no smaller than the failed one are passed over, and nothing in the outcome says so |

More differences show in the same models and have no run of their own.

In the search:

- A probe that Ctrl-C cuts off counts as lost, and when it is the second in a row
  the report says that the agent stopped answering (`safety.go:76`), where README
  has it say "it was interrupted".
- Ctrl-C during the very last request of the last trial, or during the final
  probe, leaves no trace in the report: nothing is missing from the run.
- A restart before the first trial is reported after the zero setting.
- One unanswered final probe is no loss, so a loss caused by the last trial alone
  is not caught (`search.go:258`).
- `--max-product` says "never request more than R x V varbinds per PDU"
  (`main.go:94`), but `Measure` begins with a ceiling of the largest `int`
  (`search.go:135`): a setting named with `--try` is measured above it. `LoadGuard`
  therefore has the loads of `--try` from its list (`KeepsPromiseHolds` covers both), and `BudgetsHold` speaks of
  `max-product` for a search only.
- With the largest `int` as `--max-product` the ceiling wraps to the smallest one
  and the search measures nothing.
- The split leaves out the table's width when the product is smaller than it, or
  when another way to split the same product failed before and brought the ceiling
  down to it (`search.go:222` says it "is always measured"), which is why
  `WidthMeasured` has these conditions.
- When every clean trial exceeds a datagram, the search for headroom still leaves
  them out (`report.go:123`) and the peak is recommended, for the reason that
  nothing below it was measured; the comment of `recommend` has fragmented settings
  "considered when nothing else passed".

In the walks:

- A skip goes on behind the deepest arc that request and answer share, so with
  indices of several arcs it may stay in the column, where README says the walk
  "skips the rest of that column".
- A response that stops in the middle of a row of ends of the MIB passes for the
  end of every repeater, although a column behind may have rows (`walk.go:227` says
  "Anything else is a cap", and README calls that truncated). The column is asked
  again, so no row is lost by it.
- An empty response, or one that leaves the root, closes a root of the reference
  walk as complete (`inventory.go:100`). `GroundTruth` and `ShownIsHonest` leave
  out such agents (`Accountable`), `SessionEnds` needs the rule. They leave out
  roots that are themselves OIDs of the agent as well: a walk begins behind its
  root.
- An agent that answers out of order may pass over rows that lie under no prefix
  listed in `Skipped`, when its order differs inside an index of several arcs; the
  simulated agent errs at one cursor and then knows the right order.
- `parentOf` gives the prefix of its argument with the last arc one lower, not the
  "OID one arc shorter" of its comment (`inventory.go:131`).

In the session: `--max-oids` counts anew for `--reference-tree`; a root that is
both an `--oid` and the base of a group's table leaves the trials when either of
its two walks was cut short. In the timing: because of what `claim_timeout` shows,
`TimeoutFits` leaves each answer a third of the timeout and 1 ms. Answers with a
misordered row do not count either, since `table` marks them as
errors (`walk.go:215`, `report.go:177`); a trial whose answers all took a retry
or misordered has no round-trip times, and gets the floor of 500 ms. In the dry run, the ladder's loop ends only if doubling passes
`max-product` before it wraps; and an `--oid` subtree counts as one column, as
the program says under the plan.

Fairness. `Terminates` assumes `WF_vars(RunStep)`: every request returns, by
its timeout and retries at the latest, every cooldown is a timer, and one
goroutine does nothing else. `WalkEnds` assumes the same of `WalkStep`, and
`SessionEnds` of `Step`, against agents none of which makes a skip wrap. `ContextDone` is not fair: the operator need not
interrupt and a deadline need not exist. Deadlock is checked in every run; the
end of a run is the stuttering step `Terminated`, `Stopped`, `Exited` or `Ended`.

## The proofs

Assumptions on the constants, each evaluated by TLC on the instances of the runs:

- `ConstantsAssumption`: at least one repeat, requested settings of at least 1,
  which `parse` enforces; any integers as budgets; any width and scores.
- `ModulusAssumption`: the modulus of the ladder is a power of two greater than
  the default of `max-repetitions`, as 2^32 is. `Bracket` needs it: a power of two
  doubles until it wraps to exactly 0, which is no end of a bracket. With any
  other modulus a wrapped ladder would go on with a small number, below a step
  that was clean.
- `IntAssumption`: `max-product` and ten times the modulus of the ladder are
  within `int`.
- `CanaryAssumption`: a clock modulus of at least one.
- `WalkAssumption`, `ArcAssumption`: `MaxVars` and `Reps` of at least 1, which
  `walk.Run` checks; arcs below a modulus of at least one.
- `AgentsAssumption`: OIDs are not empty, the MIB is finite, and an agent's own
  order is an injective ranking of the arcs. Nothing is assumed of the shape of
  its tables, of the workload or of the inventory beyond their types.
- `TimingAssumption`: finitely many round-trip times, as a trial has finitely many
  answers, and the types of the counts.
- `SessionAssumption`: the types of command lines and of the simulated agents, a
  finite MIB without the empty OID, at least one row per response. A wrong
  answer is an OID of the agent that does not come after its request, as an OID
  that is not increasing is what the simulated agent is told to err with.

Two hypotheses on the workload stand in the theorems that need them, and TLC
evaluates them on the walk's instance (`InstanceAssumption`): `ColumnsApart` (no
column is listed twice or lies under another) and `ColumnsAreNotRows` (no column
is itself an OID of the agent; a walk begins behind its column and would pass
over it). For the session the second one is only needed of the objects of a
group (`ObjectsAreNoRows`, evaluated on its instance as `ColumnObjects`); of inferred
columns it is proved.

| Theorem | States |
| --- | --- |
| `TypeCorrect` | `TypeOK` of `Search`, with `Canary.lost` within its limit and the repeats of a trial within `Repeats` |
| `NeverAboveFailedHolds` | no trial and no walk at or above an earlier failure |
| `BudgetsHoldAlways` | `max-trials`, `max-product`, and the tracker's count |
| `OncePerSettingHolds` | no setting twice |
| `AbortNamesLastTrialHolds` | an abort names the last trial |
| `CleanIsCompleteHolds` | a clean trial made all its repeats |
| `WholeUnlessToldHolds` | a run that names no abort and no spent budget left out no candidate of its split and no setting of `--try`, but those no smaller than one that failed |
| `NoEscalationUnderStressHolds` | after stress nothing larger than what was clean is walked |
| `KeepsPromiseHolds` | `Search` refines `LoadGuard` |
| `BracketHolds`, `BisectConvergesHolds` | both ends of the bisection's bracket were measured; without stress it ends with the gap closed |
| `SplitWithinCleanHolds`, `WidthMeasuredHolds` | the split stays within a clean product; a whole search tried the table's width or has the reason not to |
| `BelowFailuresHolds` | the recommendation is smaller than what failed with its width |
| `OneDatagramHolds`, `OneNotchHolds` | no fragmented setting without need; headroom costs at most half of the peak |
| `CondemnedNotRecommendedHolds` | what the final probe condemned is not recommended |
| `RestartIsRealHolds`, `RebootFoundHolds` | what the canary calls a restart, both ways |
| `CanaryImplementsView` | `Canary` refines `CanaryView` |
| `BaselineIsMedianHolds`, `TypeHolds` of `CanaryProofs` | the baseline is a median; the types of the canary |
| `PlanKeptHolds` | the search climbs the ladder of the dry run, from its first step, and asks for no more than it shows |
| `TimeoutFitsHolds`, `TimeoutEarnedHolds` | at most one answer in a hundred took more than a third of the timeout and 1 ms; a timeout above the floor is due to answers without a mark |
| `LessIsStrict` | the comparison of OIDs is irreflexive and transitive |
| `SkipMovesForward` | a skip goes forward from every request and answer, unless its arc wraps |
| `SkipLeavesOneBranch` | what a skip passes over lies under the arcs that request and answer share |
| `TypeHolds` of `WalkProofs` | the types of a walk, whatever the agent answers |
| `AdvancesHolds` | each answer moves a cursor, finishes a column or gives up the chunk |
| `NoRowTwiceHolds` | no OID is read twice until a skip wraps, if `ColumnsApart` |
| `LossIsReportedHolds` | a row is lost only in a skipped column, if `ColumnsAreNotRows` |
| `HonestNotBlamedHolds` | no skip and nothing missing for an agent in the order of OIDs, if `ColumnsAreNotRows` |
| `TypeHolds` of `SessionProofs` | the types of a run; both walks read OIDs of the agent only |
| `GroundTruthHolds` | each table of the trials has a subtree that accounts for every row under it |
| `ShownIsHonestHolds` | an inventory that is not marked partial accounts for every row it is about |
| `BudgetIsSpentHolds` | `--max-oids` is overshot by less than a response; a subtree is partial only for a reason |
| `SameAgentNotBlamedHolds` | a trial of an agent that stays the same has nothing missing, if `ObjectsAreNoRows`, and times out only when the agent is slow |
| `NothingLeftOutHolds` | success means that the trial read all that is shown of a root that was named |

### The search

`TypeOK` is not inductive: that the run goes on only below the limit of lost
probes, and that a trial which returned clean is in the log, has to be carried
along (`TypeInv`).

`NeverAboveFailed` speaks of the log; the code keeps no such log but a number,
the ceiling. `LogInv` connects them: until the run is over the ceiling is at or
below every failed product, the setting of an open trial is below the ceiling,
measured, and new to the log, the log is within `measured`, and its failures
descend. The final probe is the delicate step: it turns the last trial into a
failure without lowering the ceiling. It keeps `FailuresDescend` only because
no trial follows the last, and condemns only that one because `OncePerSetting`
holds and `lastSet` is its setting (`LastWalked`); and it leaves the ceiling
above a failed product, which is why `CeilingBelowFailed` is claimed only until
the run is over. From `LogInv` the three properties follow in each state
(`LogInvImplies`), and `LastWalked` gives `AbortNamesLastTrial`.

`LogShape` says what any step may do to the log: nothing, note one trial (clean
only with all repeats made), or condemn the last one. `CleanIsComplete` follows
from it.
`NoEscalationUnderStress` needs `StressInv`: after stress the ceiling is at most
one above the larger of the first product and `lastGood` (`StressCap`), and
`lastGood` is the product of a clean trial of the log until the final probe may
condemn that very trial (`LastGoodClean`).

`KeepsPromise` is proved as a refinement: the initial states map to initial
states, and `GuardStep` has one case for each thing a step may do: `LogShape`
for the log, `StressShows` for the stress, which only a probe raises. The load
that `LoadGuard` admits is the product of the open trial's setting
(`LoadAllowed`, from `LogInv`, `StressInv`, and `AskedInv`: under `--try` the
setting is one of those requested).

`PhaseInv` carries what the loops know of the trials they called: the ladder is
at 0 or at a power of two above its last clean step (`LadderInv`), the setting of
the open call is the one that its loop computed (`CallInv`), a trial that
returned is the last of the log with that result (`ReturnInv`), and the ends of
the bracket were measured (`BracketInv`, which gives `Bracket`). That the
bisection is not ended early without stress (`BisectInv`) needs that no measured
setting lies inside the bracket (`Untried`) and that the ceiling is not below its
upper end (`CeilingAtBracket`). `SweepInv` follows the split through its
candidates, and `--try` through its list: each one up to `at` was tried or a trial
failed with no more (`Swept`, `TrySwept`), which in turn needs that a ceiling below
its first value is the product of a failed trial (`CeilingIsFailure`), and that what is
measured is in the log. `WidthMeasured` and `WholeUnlessTold` are what is left of
it at the end (`EndInv`): a run without an abort or a spent budget came through
the whole list, whenever the context was done.

`PlanKept` compares two loops that the code writes twice. `DoubledSteps` unfolds
the recursive function of the dry run's loop: a table of its first n values
exists for every n, by a least counterexample. With a plan that ends no step it
prints has wrapped, so the steps ascend (`ShownAscends`, `NextAscends`) and are
fewer than the modulus. `PlanInv` then says that the search stands at a step of
that function with exactly the steps below it measured (`Climbs`), that each
trial of the log and the open one is no larger than a printed step (`LogForeseen`:
the bisection and the split stay below what is in the log), and that until the
log has its first entry the first step is pending below the ceiling
(`FirstPending`), which stress cannot lower to it. Of a plan without an end
`PlanKept` says nothing: with a `--max-product` at or above 2^31 times the first
width (21474836480 for 10) the doubled `uint32` wraps to 0 and stays there, and
the loop of `Plan` never ends.

### The report

`Report` looks at the outcome in every state. `WidthInv` orders the trials of
one width: the clean ones ascend and are smaller than the failed ones; on the
ladder the bracket separates them, every other width is tried once. `NotchInv`
bounds the gaps: the ladder doubles, the bracket is never wider than one doubling
(`Ratio`), so between two clean trials of the ladder there is always one within a
factor of two (`Notches`), and the split's rounding keeps more than half of the
product that it divides (`SplitNotch`). The last clean step of the ladder is in
the lower half of the `uint32` (`LowerHalf`), so the repetitions of the split wrap
to 0, which no walk takes, or not at all (`SplitWraps`). Both invariants are about
the trials alone; `OneNotch` combines them with the choices of `recommend`.

### The timeout

The counts of `Timing` are folds over sets of times. What a fold computes would
need an induction that the provers cannot make; the table of partial sums that
the fold is read from is instead shown to exist by a least counterexample
(`SumsExist`), and to be the same for every superset (`SumsAgree`). So a sum may
be split at any element and over any two parts (`SumAny`, `SumSplits`), and grows
with its set (`SumGrows`). `PercentileShape` is the argument of the code's
`percentile`: of n sorted times, the one at 99 n / 100 has at most n / 100 behind
it, and as many at or behind it. `TimeoutShape` carries that through the dropped
fraction of a millisecond, the rounding to 100 ms and the floor of 500 ms.

### The canary

The invariant is `ClockMovesOn`: relative to the last answer the agent's clock
has moved on by the pause, or it restarted and is no further than the pause, or
it wrapped, or that answer had no time in it. The median is a matter of counting:
in sorted order the k-th time has k that are no larger and all but k - 1 that are
no smaller (`SortedRank`), and an order that sorts exists (`SortExists`,
by putting the largest value last; `SortOrder` is any such order, as equal times
cannot be told apart).

### OIDs and the walk

The lemma behind the order of OIDs is `LessIsBelow`: to sort before is to be
below at the one place where two OIDs part, which exists as the least length at
which they stop to agree (`SharedApart`).

The walk is taken column by column. `CursorMoves`: a column that goes on does so
behind its old cursor and every row it read, unless a skip wraps, whatever the
varbinds were. `RankParts`: two OIDs part at the same place in the agent's order
as in the true one, so its ranking is injective, and the rows behind a cursor
come each once and in that order (`RowsBehindCursor`). `AnswerShape` and `WentOn`
say what an answer does to the columns of a chunk, and `InOrderLists` that the
columns that go on are those not finished, each once.

- `TypeInv` adds to the types that every column is at or under itself.
- `ReadInv`, for `NoRowTwice`: every OID read lies under a column that was asked
  (`Opened`), the columns of a chunk lie apart, and no cursor is before an OID of
  its column that was read. The first part is what a new chunk needs: nothing
  under its columns can have been read, since an OID lies under one column only.
- `LossInv`, for `LossIsReported`: while nothing failed, a row of a column that
  was asked is read, or its column is skipped, or the column is still active with
  its cursor before the row. An answer keeps that (`RowKept`) because a column is
  in one piece in any agent's order (`Contiguous`): a varbind outside of it cannot
  come before one of its rows. At the last scalar no column is active.
- `HonestInv`, for `HonestNotBlamed`: no skip and nothing missing. An agent in the
  order of OIDs answers no row out of order (`HonestAnswers`); and when `Finish`
  looks for missing OIDs no other failure was noted, so `LossInv` says that all
  were read.

### The session

The argument begins at the agent and ends at the report.

- *The agent.* Of finitely many OIDs one comes first (`FirstOID`), so what the
  simulated agent answers is the next OID, or the wrong one it is told to answer
  (`NextShape`), and the rows of a response follow one another (`RowsFollow`).
  `AnswerShape` keeps this through the caps on rows and varbinds.
- *One response.* In the rows of it that are read nothing of the agent is passed
  over (`RowsComplete`); a response that finishes the root without a row out of
  order does so because nothing under the root is left (`EndIsEnd`). What a skip
  passes over lies under the prefix that `parentOf` makes of its target, or is
  the OID next to that (`SkipAccounts`); a skip that leaves the root has listed a
  prefix of all of it (`SkipOut`). This is where `Accounted` got its last case:
  without `NextSibling` the lemma is false, and the row it then misses is what
  `claim_skip_target` shows.
- *The walk.* Together (`ResponseAccounts`): if each row up to the cursor was read
  or is listed (`KnownTo`), a response leaves it so, and closes the root only when
  the root is accounted for. `AccountInv` says this of the root that is open and of
  each closed subtree that is not partial; `BudgetInv` that requests are made only
  below the budget, so that the last one overshoots by less than its rows;
  `WalkInv` that there is one subtree for each root left, under the root's name.
- *The run.* `GroundTruth` needs that each table's base was a root: those of a group
  by `Roots`, those of an `--oid` by `FromInventory`; and that no subtree of that
  root is partial, which `Tables` sees to (`TablesShape`). A root walked twice is
  the delicate case. `ShownInv` and `GivenInv` then carry what `Assemble` made of
  the reference walk past the walk of `--reference-tree`, which starts anew
  (`StartStep`), through the trial to the exit.

`SameAgentNotBlamed` and `NothingLeftOut` compare what two walks read of one agent:
the reference walk asks one cursor with its own repetitions, the trial several
columns at a time with others, and their responses end at different rows. Nothing
is proved by induction over the rows; both walks are compared with a third thing,
a set.

- *A walk as a set.* The cursors a walk of a root comes by are a set that holds the
  root and, with each cursor, the row or the skip target that the walk goes on to
  (`WalkOf`). A root is `Whole` in what was read when some such set has all of its
  rows read; that is what a walk leaves behind that ends its root
  (`ResponseWalks`), whatever its width and repetitions. A row is `Sure` when
  every such set comes by it. So a sure row is read by every walk that ends
  (`SureIsRead`).
- *Rows are sure, of every column.* What the reference walk reads of a root is
  sure, not only of the root but of each column under it (`Rows`,
  `ResponseIsSure`): a walk of the column joins the walk of the root at its first
  row there (`Enters`) and a skip leads both on alike (`SkipStays`). The exception
  is a column that is itself a row, which only the walk of the root reads. Hence
  two complete walks of a root read the same rows (`SameRows`), also when one
  of them is that of `--reference-tree`.
- *The workload.* Of a chained subtree the inferred columns cover every row and
  are none themselves (`SubtreeColumns`). Of a group's columns the code cannot
  know that: `ObjectsAreNoRows` assumes it of the objects that are no scalars, as
  SMI does, whose instances have an index behind the column. With an object that
  is a row, the row is in the reference and no trial reads it, and every trial
  notes it as missing; TLC shows that when `MCSession` is given such an object.
- *The trial.* `ChunkInv`: while nothing failed each column that was opened is
  `Whole` in what the trial has read, or still active with a walk that `Began`.
  At the last scalar all are whole (`AllIsRead`), so nothing is missing
  (`NothingIsMissing`). A failure or an error of `Run` is not a success. A
  timeout under a live context needs an answer larger than the agent can give in
  time (`LateBulk`, `LateScalars`), and the largest is `MaxVars * Reps`.
- *The run.* `NamedInv` says that each root that was named has a table that covers
  a subtree of it, or is shown as partial (`NamedTables`). `ChainInv` puts these
  together; it stands beside `SessionInv`, which its steps use.

### Only model-checked

- `Terminates`, `WalkEnds` and `SessionEnds`: liveness is out of the prover's
  reach. `AdvancesHolds` is the step of the argument for `WalkEnds`.

## The plan

1. `Search`, `Safety`, `Canary` and their views: done, as above.
2. `Oid`, `Column`, `Walk` and its agents: done.
3. `Report`, `Timing`: done. Left: refuting runs for the width that is not "always
   measured", for `--max-product` under `--try`, for fragmented headroom.
4. `Inventory`, `Workload`, `Session`: done, with one trial. Left: the trials of
   `Search` in place of it, for which the state space is too large as it stands.
5. Proofs: done for every invariant and every action property that the runs check.
   Liveness stays with TLC.

## Not modelled

Text, JSON, colours and XML layout of the report, the XML reader of
datacollection groups, parsing and checking of flags, `Progress` and
`Outcome.Note` (wording), the telemetry of a request (bytes, PDUs, durations, its
log line), connecting and the conversion of values in `GoSNMP`, the simulated
agent's `Get`, `GetNext` and restart (a test double; `Canary` has restarts of its
own), build and CI files. In `Search` the verdict of a walk is the environment's
choice, and so is the size of its largest response; `Session` has the walk itself
but one trial, and no probes.
