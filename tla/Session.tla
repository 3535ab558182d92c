------------------------------ MODULE Session -------------------------------
(***************************************************************************)
(* main.run, from the first packet to the exit code, for a run that        *)
(* measures one requested setting once: preflight, reference walk,         *)
(* workload, the walk of --reference-tree, the trial, the report, under    *)
(* one context.  The agent is the simulated one.  Probes and their         *)
(* verdicts belong to Search.                                              *)
(***************************************************************************)
EXTENDS Walk, Inventory, Sim, Workload

CONSTANTS
  Lines,         \* command lines: oids, objs of the group, tree or NoTree, limit
  Profiles       \* simulated agents

NoTree == <<>>

ASSUME SessionAssumption ==
  /\ \A l \in Lines :
       /\ l.oids \in Seq(Seq(Arc) \ {<<>>}) /\ l.tree \in Seq(Arc) /\ l.limit \in Nat
       /\ l.objs \in Seq([oid : Seq(Arc), instance : Seq(Arc)])
  /\ \A a \in Profiles :
       /\ a.mib \subseteq Seq(Arc) \ {<<>>} /\ IsFiniteSet(a.mib) /\ DOMAIN a.wrong \subseteq a.mib
       /\ \A o \in DOMAIN a.wrong : a.wrong[o] \in a.mib /\ ~Less(o, a.wrong[o])
       /\ a.rows \in Nat \ {0} /\ {a.most, a.above, a.slow} \subseteq Nat

VARIABLES
  phase,         \* "preflight", "reference", "tree", "trial" or "exit"
  line,          \* the command line
  shown,         \* the Inventory of the report
  exit           \* the exit code, or NoExit

mainVars == <<phase, line, shown, exit>>
sessionVars == <<mainVars, refVars, vars>>

NoExit == 3

Init ==
  /\ phase = "preflight" /\ exit = NoExit
  /\ line \in Lines /\ agent \in Profiles /\ ctx = "live"
  /\ shown = [subtrees |-> <<>>, partial |-> FALSE]
  /\ Fresh /\ given = [tables |-> <<>>, scalars |-> 0, reference |-> <<>>]
  /\ roots = <<>> /\ maxOIDs = 0 /\ refPc = "done" /\ root = 1 /\ cursor = <<>>
  /\ total = 0 /\ found = {} /\ skipped = {} /\ subtrees = <<>>

Done == ctx # "live"

Exit(code) == phase' = "exit" /\ exit' = code
Exits(code) == Exit(code) /\ UNCHANGED <<line, shown, refVars, vars>>

\* What may go wrong with a request: it is refused, it comes too late, or anything
\* else.  Under a context that is done the library may call that a timeout.
GoesWrong(what, refused, late) ==
  CASE what = "other" -> TRUE
    [] what = "status" -> refused
    [] what = "timeout" -> late \/ Done
-----------------------------------------------------------------------------
(* Preflight and reference walk.                                           *)

\* The workload of the group, made before the first packet.
Groups == [l \in Lines |-> [tables |-> GroupTables(l.objs), scalars |-> Scalars(l.objs)]]
Group == Groups[line]

Roots == line.oids \o Bases(Group.tables)

Preflight ==
  /\ phase = "preflight"
  /\ phase' = "reference"
  /\ StartWalk(Roots, line.limit)
  /\ UNCHANGED <<line, shown, exit, vars>>

PreflightFails == phase = "preflight" /\ Exits(1)

ReferenceStep ==
  /\ phase \in {"reference", "tree"}
  /\ \/ OutOfBudget(Done)
     \/ AskNext(Done)
     \/ RequestFails(Done)
     \/ refPc = "bulk" /\ \E resp \in Replies(agent, <<cursor>>, ReferenceRepetitions) : Collect(resp)
  /\ UNCHANGED <<mainVars, vars>>

ReferenceFails == phase \in {"reference", "tree"} /\ refPc = "error" /\ Exits(1)
-----------------------------------------------------------------------------
(* The workload of the trials, and the inventory that is shown.            *)

IsPartial(sts) == \E i \in DOMAIN sts : sts[i].partial

\* Subtrees the reference walk finished, and the tables walked in the trials: a
\* root walked twice is out when either walk of it was partial.
Complete == Keep(subtrees, LAMBDA st : ~st.partial)
Partial == {subtrees[i].root : i \in {i \in DOMAIN subtrees : subtrees[i].partial}}
Tables ==
  LET requested == Keep(Complete, LAMBDA st : st.root \in ToSet(line.oids))
  IN Keep(FromInventory(requested) \o Group.tables, LAMBDA t : t.base \notin Partial)

Assemble ==
  /\ phase = "reference" /\ refPc = "done"
  /\ shown' = [subtrees |-> subtrees, partial |-> IsPartial(subtrees)]
  /\ IF Tables = <<>> /\ Group.scalars = <<>>
       THEN Exit(1) /\ UNCHANGED <<given, refVars>>
       ELSE /\ given' = [tables |-> Tables, scalars |-> Len(Group.scalars),
                         reference |-> Complete]
            /\ exit' = exit
            /\ IF line.tree = NoTree
                 THEN phase' = "trial" /\ UNCHANGED refVars
                 ELSE phase' = "tree" /\ StartWalk(<<line.tree>>, line.limit)
  /\ UNCHANGED <<line, walkVars, ctx, agent>>

Joined_last(before, sts) ==
  [subtrees |-> before.subtrees \o sts, partial |-> IsPartial(sts)]
Joined(before, sts) ==
  [subtrees |-> before.subtrees \o sts, partial |-> before.partial \/ IsPartial(sts)]

TreeDone ==
  /\ phase = "tree" /\ refPc = "done"
  /\ phase' = "trial" /\ shown' = Joined(shown, subtrees)
  /\ UNCHANGED <<line, exit, refVars, vars>>
-----------------------------------------------------------------------------
(* The trial and the exit code.                                            *)

Cursors == [i \in DOMAIN active |-> active[i].cursor]
RepliesToBulk == Replies(agent, Cursors, Reps)
BulkGoesWrong(what) ==
  LET refused == Refuses(agent, Cursors, Reps)
  IN GoesWrong(what, refused, ~refused /\ RepliesToBulk = {})

LateGet == ~InTime(agent, Capped(given.scalars - scalar, MaxVars))

TrialStep ==
  /\ phase = "trial"
  /\ \/ WalkTurns /\ (pc = "scalars" /\ scalar < given.scalars => ~LateGet)
     \/ \E what \in Mishaps :
          \/ pc = "bulk" /\ BulkGoesWrong(what) /\ BulkFails(Classified(ctx, what))
          \/ GoesWrong(what, FALSE, LateGet) /\ ScalarsFail(Classified(ctx, what))
     \/ pc = "bulk" /\ \E resp \in RepliesToBulk : Answer(resp)
  /\ UNCHANGED <<env, mainVars, refVars>>

\* A clean trial is the recommendation, if the canary does not abort the run.
Report ==
  /\ phase = "trial"
  /\ \/ pc = "done" /\ failures = {} /\ err = "none" /\ Exits(0)
     \/ pc = "done" /\ Exits(1)
     \/ pc = "chunk" /\ table = 1 /\ chunk = 1 /\ Exits(1)
-----------------------------------------------------------------------------
Step == \/ Preflight \/ PreflightFails \/ ReferenceStep \/ ReferenceFails
        \/ Assemble \/ TreeDone \/ TrialStep \/ Report

Deadline == phase # "exit" /\ ContextDone /\ UNCHANGED <<mainVars, refVars>>

Exited == phase = "exit" /\ UNCHANGED sessionVars

Next == Step \/ Deadline \/ Exited

\* Every request returns, by its timeout at the latest.
Fairness == WF_sessionVars(Step)

Spec == Init /\ [][Next]_sessionVars /\ Fairness
-----------------------------------------------------------------------------
(* What a run promises.                                                    *)

\* Every variable has its type; while the reference walk runs it is at a root.
TypeOK ==
  /\ phase \in {"preflight", "reference", "tree", "trial", "exit"}
  /\ exit \in {0, 1, NoExit} /\ (exit = NoExit <=> phase # "exit")
  /\ line \in Lines /\ agent \in Profiles /\ ctx \in {"live", "done"}
  /\ refPc \in {"loop", "bulk", "done", "error"}
  /\ refPc # "done" => root \in DOMAIN roots /\ HasPrefix(cursor, roots[root])
  /\ found \subseteq agent.mib /\ total \in Nat
  /\ oids \subseteq agent.mib /\ shown.partial \in BOOLEAN

\* Every row of the agent under the root was read, or lies under a prefix that is
\* listed as skipped, or is the OID next to it: a walk goes on behind that one.
NextSibling(p) == [p EXCEPT ![Len(p)] = (@ + 1) % ArcModulus]
Listed(st, o) == \E p \in st.skipped : HasPrefix(o, p)
Accounted(st) ==
  \A o \in agent.mib :
    HasPrefix(o, st.root) =>
      o \in st.oids \/ Listed(st, o) \/ \E p \in st.skipped : o = NextSibling(p)

\* The agent answers with a varbind, and one within the root while there are any:
\* a walk takes the opposite for the end of the root.  No root is itself an OID of
\* the agent: a walk begins behind its root.
Accountable ==
  /\ agent.most > 0
  /\ \A r \in ToSet(Append(Roots, line.tree)) :
       /\ r \notin agent.mib
       /\ \A o \in DOMAIN agent.wrong : HasPrefix(o, r) => HasPrefix(agent.wrong[o], r)

\* The trials walk no table without a ground truth: whatever cut the reference
\* walk short, and however often its root was walked, each table has a subtree
\* that accounts for every row.
GroundTruth ==
  Accountable =>
    \A t \in DOMAIN given.tables : \E s \in DOMAIN given.reference :
      given.reference[s].root = given.tables[t].base /\ Accounted(given.reference[s])

\* An inventory that is not marked partial accounts for all that it shows, the
\* walk of --reference-tree included.
ShownIsHonest ==
  ~shown.partial /\ Accountable =>
    \A i \in DOMAIN shown.subtrees : Accounted(shown.subtrees[i])

\* A column object of the group is no row of the agent: of a column that is one the
\* reference walk finds that row, and the walk of the column begins behind it.
ObjectsAreNoRows ==
  \A l \in Lines, a \in Profiles : \A i \in DOMAIN l.objs :
    ~IsScalar(l.objs[i]) => l.objs[i].oid \notin a.mib

\* An agent that answers the trial as it answered the reference walk is not said
\* to have lost OIDs; it is said to time out only when it is slow, never because
\* the run was interrupted.
SameAgentNotBlamed ==
  /\ "missing" \notin failures
  /\ "timeout" \in failures => agent.slow < MaxVars * Reps

\* Success means that the trial read all that is shown of a root the operator
\* named: columns and workload lose no OID of it, unless it is shown as partial.
NothingLeftOut ==
  exit = 0 => \A r \in ToSet(line.oids) :
    LET of == {i \in DOMAIN shown.subtrees : shown.subtrees[i].root = r}
    IN \/ \E i \in of : shown.subtrees[i].partial
       \/ \A i \in of : shown.subtrees[i].oids \subseteq oids

\* A reference walk overshoots --max-oids by less than one response, over all of
\* its roots, and drops a subtree only when that budget or the context was spent.
BudgetIsSpent ==
  line.limit > 0 =>
    /\ total < line.limit + ReferenceRepetitions
    /\ IsPartial(subtrees) => Done \/ total >= line.limit

\* The run comes to its exit code against each of the simulated agents: one that
\* loops, misorders, refuses or stays silent among them.  (None makes a skip wrap.)
SessionEnds == <>(phase = "exit")
=============================================================================
