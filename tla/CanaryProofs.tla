---------------------------- MODULE CanaryProofs ----------------------------
(***************************************************************************)
(* What holds of every canary, for every width of sysUpTime and all        *)
(* round-trip times.                                                       *)
(***************************************************************************)
EXTENDS Canary, NaturalLemmas

LEMMA ModulusType == Modulus \in Nat /\ Modulus > 0 /\ 0 \in 0 .. Modulus - 1
<1>1. Modulus \in Nat \ {0}
  BY CanaryAssumption
<1>. QED  BY <1>1

\* A clock of the agent moves on by one, or wraps to zero.
LEMMA TickWraps ==
  ASSUME NEW n \in 0 .. Modulus - 1
  PROVE  (n + 1) % Modulus = IF n + 1 = Modulus THEN 0 ELSE n + 1
<1>1. Modulus \in Nat /\ Modulus > 0 /\ n \in Nat /\ n < Modulus
  BY ModulusType
<1>2. CASE n + 1 = Modulus
  BY <1>1, <1>2
<1>3. CASE n + 1 < Modulus
  BY <1>1, <1>3
<1>. QED  BY <1>1, <1>2, <1>3

\* What makes ClockMovesOn inductive: the ranges of the clocks, and that an answer
\* without a time was noted as zero.
ClockInv ==
  /\ up \in 0 .. Modulus - 1 /\ lastUptime \in 0 .. Modulus - 1
  /\ pause \in Nat /\ seen \in BOOLEAN /\ rebooted \in BOOLEAN
  /\ wrapped \in BOOLEAN /\ timeless \in BOOLEAN
  /\ timeless => lastUptime = 0
  /\ ~seen => lastUptime = 0
  /\ stage \in {"preflight", "running"} => verdict \in {"ok", "stressed"}
  /\ ClockMovesOn

LEMMA ClockInit == Init => ClockInv
<1>. SUFFICES ASSUME Init  PROVE ClockInv
  OBVIOUS
<1>1. /\ up \in 0 .. Modulus - 1 /\ lastUptime = 0 /\ pause = 0 /\ seen = FALSE
      /\ rebooted = FALSE /\ wrapped = FALSE /\ timeless = FALSE
      /\ stage = "preflight" /\ verdict = "ok"
  BY DEF Init
<1>. QED  BY <1>1, ModulusType DEF ClockInv, ClockMovesOn

\* noteUptime starts the history of the agent again.
LEMMA NoteKeepsClock ==
  ASSUME ClockInv, NEW withTime \in BOOLEAN, NoteUptime(withTime), up' = up,
         stage' \in {"preflight", "running"} => verdict' \in {"ok", "stressed"}
  PROVE  ClockInv'
<1>1. CASE withTime = TRUE
  <2>1. /\ lastUptime' = up /\ seen' = TRUE /\ pause' = 0 /\ rebooted' = FALSE
        /\ wrapped' = FALSE /\ timeless' = FALSE
    BY <1>1 DEF NoteUptime, Uptime
  <2>2. up' = lastUptime' + pause' /\ lastUptime' \in 0 .. Modulus - 1 /\ up' \in 0 .. Modulus - 1
    BY <2>1, ModulusType DEF ClockInv
  <2>3. ClockMovesOn'
    BY <2>1, <2>2, Zenon DEF ClockMovesOn
  <2>4. pause' \in Nat
    BY <2>1
  <2>. QED  BY <2>1, <2>2, <2>3, <2>4, Zenon DEF ClockInv
<1>2. CASE withTime = FALSE
  <2>1. /\ lastUptime' = 0 /\ seen' = TRUE /\ pause' = 0 /\ rebooted' = FALSE
        /\ wrapped' = FALSE /\ timeless' = TRUE
    BY <1>2 DEF NoteUptime, Uptime
  <2>. QED  BY <2>1, ModulusType DEF ClockInv, ClockMovesOn
<1>. QED  BY <1>1, <1>2

LEMMA ClockStep == ClockInv /\ [Next]_vars => ClockInv'
<1>. SUFFICES ASSUME ClockInv, [Next]_vars  PROVE ClockInv'
  OBVIOUS
<1>. USE DEF agent, canary, since
<1>1. CASE BaselineAnswered
  <2>1. PICK withTime \in BOOLEAN : NoteUptime(withTime)
    BY <1>1 DEF BaselineAnswered
  <2>2. up' = up /\ verdict' = verdict /\ stage' = stage
    BY <1>1 DEF BaselineAnswered
  <2>. QED  BY <2>1, <2>2, NoteKeepsClock DEF ClockInv
<1>2. CASE ProbeAnswered
  <2>1. PICK withTime \in BOOLEAN, retried \in BOOLEAN, rtt \in Rtts :
          /\ verdict' \in {"restarted", "ok", "stressed"}
          /\ NoteUptime(withTime)
    BY <1>2 DEF ProbeAnswered, AnswerVerdict
  <2>2. up' = up /\ stage' = After(verdict')
    BY <1>2 DEF ProbeAnswered
  <2>. QED  BY <2>1, <2>2, NoteKeepsClock DEF After
<1>3. CASE BaselineUnanswered \/ BaselineDone \/ UNCHANGED vars
  BY <1>3 DEF BaselineUnanswered, BaselineDone, vars, ClockInv, ClockMovesOn
<1>4. CASE ProbeUnanswered
  BY <1>4 DEF ProbeUnanswered, SilenceVerdict, After, ClockInv, ClockMovesOn
<1>5. CASE Tick
  <2>1. up' = IF up + 1 = Modulus THEN 0 ELSE up + 1
    BY <1>5, TickWraps DEF Tick, ClockInv
  <2>2. wrapped' = (wrapped \/ up' = 0) /\ wrapped' \in BOOLEAN
    BY <1>5 DEF Tick
  <2>. QED  BY <1>5, <2>1, <2>2, ModulusType DEF Tick, ClockInv, ClockMovesOn
<1>6. CASE Reboot
  BY <1>6, ModulusType DEF Reboot, ClockInv, ClockMovesOn
<1>. QED  BY <1>1, <1>2, <1>3, <1>4, <1>5, <1>6 DEF Next, Stopped

LEMMA ClockInvariant == Spec => []ClockInv
BY ClockInit, ClockStep, PTL DEF Spec

\* A verdict of restarted is never the work of a slow, retried or repeated
\* answer: the agent rebooted, its uptime wrapped, or the answer had no uptime.
THEOREM RestartIsRealHolds == Spec => RestartIsReal
<1>1. ASSUME ClockInv, [Next]_vars, stage = "running", verdict' = "restarted"
      PROVE  rebooted \/ wrapped \/ timeless'
  <2>. USE DEF agent, canary, since
  <2>1. verdict # "restarted"
    BY <1>1 DEF ClockInv
  <2>2. ProbeAnswered
    BY <1>1, <2>1 DEF Next, BaselineAnswered, BaselineUnanswered, BaselineDone,
         ProbeUnanswered, SilenceVerdict, Tick, Reboot, Stopped, vars
  <2>3. PICK withTime \in BOOLEAN :
          seen /\ Uptime(withTime) < lastUptime /\ timeless' = ~withTime
    BY <1>1, <2>2 DEF ProbeAnswered, AnswerVerdict, NoteUptime
  <2>4. CASE withTime = FALSE
    BY <2>3, <2>4
  <2>5. CASE withTime = TRUE
    <3>1. up < lastUptime
      BY <2>3, <2>5 DEF Uptime
    <3>. QED  BY <1>1, <2>3, <3>1 DEF ClockInv, ClockMovesOn
  <2>. QED  BY <2>4, <2>5
<1>. QED  BY <1>1, ClockInvariant, PTL DEF Spec, RestartIsReal

\* A reboot is found by the first answer after it, unless the agent has by then
\* been up as long as when it last answered.
THEOREM RebootFoundHolds == Spec => RebootFound
<1>1. ASSUME ClockInv, ProbeAnswered, rebooted, ~wrapped, pause < lastUptime
      PROVE  verdict' = "restarted"
  <2>1. seen /\ ~timeless
    BY <1>1 DEF ClockInv
  <2>2. up < lastUptime /\ 0 < lastUptime
    BY <1>1, <2>1 DEF ClockInv, ClockMovesOn
  <2>3. \A withTime \in BOOLEAN : Uptime(withTime) < lastUptime
    BY <2>2 DEF Uptime
  <2>. QED  BY <1>1, <2>1, <2>3 DEF ProbeAnswered, AnswerVerdict
<1>2. ClockInv /\ [Next]_vars =>
        [ProbeAnswered /\ rebooted /\ ~wrapped /\ pause < lastUptime
           => verdict' = "restarted"]_vars
  <2>. SUFFICES ASSUME ClockInv
                PROVE  ProbeAnswered /\ rebooted /\ ~wrapped /\ pause < lastUptime
                         => verdict' = "restarted"
    OBVIOUS
  <2>. QED  BY <1>1
<1>. QED  BY <1>2, ClockInvariant, PTL DEF Spec, RebootFound

\* What Probe computes from uptimes, times and retries is always a verdict that
\* CanaryView gives for one of the four classes of answers.
THEOREM CanaryImplementsView == Spec => SeenAsView
<1>1. Init => View!Init
  BY DEF Init, View!Init
<1>2. [Next]_vars => [View!Next]_<<lost, verdict>>
  <2>. SUFFICES ASSUME [Next]_vars  PROVE View!Next \/ UNCHANGED <<lost, verdict>>
    OBVIOUS
  <2>. USE DEF View!Next, View!Probe, View!Answers, View!Verdict, View!LostAfter, View!LostLimit,
             LostLimit
  <2>1. CASE ProbeUnanswered
    <3>1. View!Probe("none")
      BY <2>1 DEF ProbeUnanswered, SilenceVerdict
    <3>. QED  BY <3>1
  <2>2. CASE ProbeAnswered
    <3>1. lost' = 0 /\ verdict' \in {"restarted", "ok", "stressed"}
      BY <2>2 DEF ProbeAnswered, AnswerVerdict
    <3>2. View!Probe("back") \/ View!Probe("fine") \/ View!Probe("slow")
      BY <3>1
    <3>. QED  BY <3>2
  <2>3. CASE ~ProbeUnanswered /\ ~ProbeAnswered
    BY <2>3 DEF Next, BaselineAnswered, BaselineUnanswered, BaselineDone, Tick, Reboot,
         Stopped, vars, canary
  <2>. QED  BY <2>1, <2>2, <2>3
<1>. QED  BY <1>1, <1>2, PTL DEF Spec, View!Spec, SeenAsView
-----------------------------------------------------------------------------
(* The baseline.                                                           *)

\* The order that the code sorts the times in exists, and sorts them.
LEMMA SortOrderSorts ==
  ASSUME NEW s \in Seq(Nat)
  PROVE  Sorts(s, SortOrder(s))
<1>1. \E p \in [1 .. Len(s) -> 1 .. Len(s)] :
        IsInjective(p) /\ \A i, j \in 1 .. Len(s) : i <= j => s[p[i]] <= s[p[j]]
  BY SortExists, Zenon DEF Sorts
<1>. QED  BY <1>1, Zenon DEF SortOrder, Sorts

\* In sorted order, the k-th value has k values that are no larger, itself one of
\* them, and from it to the end values that are no smaller.
LEMMA SortedRank ==
  ASSUME NEW s \in Seq(Nat), NEW p, Sorts(s, p), NEW k \in 1 .. Len(s)
  PROVE  /\ Cardinality({i \in 1 .. Len(s) : s[i] <= s[p[k]]}) >= k
         /\ Cardinality({i \in 1 .. Len(s) : s[i] >= s[p[k]]}) >= Len(s) - k + 1
         /\ Cardinality({i \in 1 .. Len(s) : s[i] <= s[p[k]]}) \in Nat
         /\ Cardinality({i \in 1 .. Len(s) : s[i] >= s[p[k]]}) \in Nat
<1>. DEFINE n == Len(s)
            Down == {i \in 1 .. n : s[i] <= s[p[k]]}
            Up == {i \in 1 .. n : s[i] >= s[p[k]]}
<1>1. n \in Nat /\ k \in Nat /\ 1 <= k /\ k <= n
  OBVIOUS
<1>2. /\ \A i \in 1 .. n : p[i] \in 1 .. n
      /\ \A i, j \in 1 .. n : p[i] = p[j] => i = j
      /\ \A i, j \in 1 .. n : i <= j => s[p[i]] <= s[p[j]]
  BY DEF Sorts, IsInjective
<1>3. \A i \in 1 .. n : s[i] \in Nat
  OBVIOUS
<1>4. IsFiniteSet(Down) /\ IsFiniteSet(Up)
  <2>1. IsFiniteSet(1 .. n)
    BY <1>1, FS_Interval
  <2>2. Down \in SUBSET (1 .. n) /\ Up \in SUBSET (1 .. n)
    OBVIOUS
  <2>. QED  BY <2>1, <2>2, FS_Subset
<1>5. Cardinality(Down) \in Nat /\ Cardinality(Up) \in Nat
  BY <1>4, FS_CardinalityType
<1>6. k <= Cardinality(Down)
  <2>. DEFINE f == [i \in 1 .. k |-> p[i]]
  <2>1. \A i \in 1 .. k : p[i] \in Down
    <3>1. \A i \in 1 .. k : i \in 1 .. n /\ k \in 1 .. n /\ i <= k
      BY <1>1
    <3>. QED  BY <1>2, <3>1
  <2>2. \A i, j \in 1 .. k : p[i] = p[j] => i = j
    BY <1>1, <1>2
  <2>3. f \in Injection(1 .. k, Down)
    <3>1. f \in [1 .. k -> Down]
      BY <2>1, Zenon
    <3>2. \A i, j \in 1 .. k : f[i] = f[j] => i = j
      BY <2>2
    <3>. QED  BY <3>1, <3>2 DEF Injection, IsInjective
  <2>4. Cardinality(1 .. k) <= Cardinality(Down)
    BY <1>4, <2>3, FS_Injection
  <2>5. Cardinality(1 .. k) = k
    BY <1>1, FS_Interval
  <2>. QED  BY <2>4, <2>5
<1>7. n - k + 1 <= Cardinality(Up)
  <2>. DEFINE f == [i \in k .. n |-> p[i]]
  <2>1. \A i \in k .. n : p[i] \in Up
    <3>1. \A i \in k .. n : i \in 1 .. n /\ k \in 1 .. n /\ k <= i
      BY <1>1
    <3>2. \A i \in k .. n : p[i] \in 1 .. n /\ s[p[k]] <= s[p[i]]
      BY <1>2, <3>1
    <3>3. \A i \in k .. n : s[p[i]] \in Nat /\ s[p[k]] \in Nat
      BY <1>2, <1>3, <3>1
    <3>. QED  BY <3>2, <3>3
  <2>2. \A i, j \in k .. n : p[i] = p[j] => i = j
    BY <1>1, <1>2
  <2>3. f \in Injection(k .. n, Up)
    <3>1. f \in [k .. n -> Up]
      BY <2>1, Zenon
    <3>2. \A i, j \in k .. n : f[i] = f[j] => i = j
      BY <2>2
    <3>. QED  BY <3>1, <3>2 DEF Injection, IsInjective
  <2>4. Cardinality(k .. n) <= Cardinality(Up)
    BY <1>4, <2>3, FS_Injection
  <2>5. Cardinality(k .. n) = n - k + 1
    BY <1>1, FS_Interval
  <2>. QED  BY <2>4, <2>5
<1>. QED  BY <1>1, <1>5, <1>6, <1>7

LEMMA MedianRank ==
  ASSUME NEW s \in Seq(Nat), s # <<>>
  PROVE  LET n == Len(s)
         IN /\ 2 * Cardinality({i \in 1 .. n : s[i] <= Median(s)}) > n
            /\ 2 * Cardinality({i \in 1 .. n : s[i] >= Median(s)}) >= n
<1>. DEFINE n == Len(s)
            k == n \div 2 + 1
<1>1. n \in Nat /\ n > 0 /\ k \in 1 .. n /\ 2 * k > n /\ 2 * (n - k + 1) >= n
  OBVIOUS
<1>2. Sorts(s, SortOrder(s))
  BY SortOrderSorts
<1>3. Median(s) = s[SortOrder(s)[k]]
  BY DEF Median
<1>. HIDE DEF k
<1>4. /\ Cardinality({i \in 1 .. n : s[i] <= Median(s)}) >= k
      /\ Cardinality({i \in 1 .. n : s[i] >= Median(s)}) >= n - k + 1
      /\ Cardinality({i \in 1 .. n : s[i] <= Median(s)}) \in Nat
      /\ Cardinality({i \in 1 .. n : s[i] >= Median(s)}) \in Nat
  BY <1>1, <1>2, <1>3, SortedRank
<1>. QED  BY <1>1, <1>4

LEMMA TimesAreNaturals ==
  ASSUME NEW s \in Seq(Rtts)
  PROVE  s \in Seq(Nat)
<1>1. Rtts \subseteq Nat
  BY CanaryAssumption
<1>2. \A i \in 1 .. Len(s) : s[i] \in Nat
  <2>1. \A i \in 1 .. Len(s) : s[i] \in Rtts
    OBVIOUS
  <2>. QED  BY <1>1, <2>1
<1>3. Len(s) \in Nat /\ s = [i \in 1 .. Len(s) |-> s[i]]
  OBVIOUS
<1>. QED  BY <1>2, <1>3

LEMMA MedianType ==
  ASSUME NEW s \in Seq(Rtts), s # <<>>
  PROVE  Median(s) \in Rtts
<1>1. s \in Seq(Nat)
  BY TimesAreNaturals
<1>2. SortOrder(s) \in [1 .. Len(s) -> 1 .. Len(s)]
  BY <1>1, SortOrderSorts DEF Sorts
<1>3. Len(s) \div 2 + 1 \in 1 .. Len(s)
  OBVIOUS
<1>4. SortOrder(s)[Len(s) \div 2 + 1] \in 1 .. Len(s)
  BY <1>2, <1>3
<1>. QED  BY <1>4 DEF Median
\* What makes the types inductive: while the run goes on one more lost probe is
\* within the limit.
Typed == TypeOK /\ (stage # "over" => lost < LostLimit)

LEMMA TypedInit == Init => Typed
<1>. SUFFICES ASSUME Init  PROVE Typed
  OBVIOUS
<1>1. reboots \in 0 .. MaxReboots /\ pause \in 0 .. MaxPause
  BY CanaryAssumption DEF Init
<1>2. rtts \in Seq(Rtts) /\ Len(rtts) <= sent
  BY DEF Init
<1>3. /\ sent \in 0 .. BaselineProbes /\ baseline \in Nat /\ lost \in 0 .. LostLimit
      /\ lost < LostLimit
  BY DEF Init, BaselineProbes, LostLimit
<1>4. up \in 0 .. Modulus - 1 /\ lastUptime \in 0 .. Modulus - 1
  BY ModulusType DEF Init
<1>5. /\ seen \in BOOLEAN /\ rebooted \in BOOLEAN /\ wrapped \in BOOLEAN /\ timeless \in BOOLEAN
      /\ stage = "preflight" /\ verdict = "ok"
  BY DEF Init
<1>. QED  BY <1>1, <1>2, <1>3, <1>4, <1>5 DEF Typed, TypeOK, Verdicts

LEMMA NoteTypes ==
  ASSUME TypeOK, NEW withTime \in BOOLEAN, NoteUptime(withTime)
  PROVE  /\ lastUptime' \in 0 .. Modulus - 1 /\ seen' \in BOOLEAN
         /\ pause' \in 0 .. MaxPause
         /\ rebooted' \in BOOLEAN /\ wrapped' \in BOOLEAN /\ timeless' \in BOOLEAN
<1>1. 0 \in 0 .. MaxPause
  BY CanaryAssumption
<1>. QED  BY <1>1, ModulusType DEF TypeOK, NoteUptime, Uptime

LEMMA TypedStep == Typed /\ [Next]_vars => Typed'
<1>. SUFFICES ASSUME Typed, [Next]_vars  PROVE Typed'
  OBVIOUS
<1>. USE DEF agent, canary, since
<1>1. TypeOK /\ (stage # "over" => lost < LostLimit)
  BY DEF Typed
<1>2. CASE BaselineAnswered
  <2>1. PICK withTime \in BOOLEAN : NoteUptime(withTime)
    BY <1>2 DEF BaselineAnswered
  <2>2. PICK rtt \in Rtts : rtts' = Append(rtts, rtt)
    BY <1>2 DEF BaselineAnswered
  <2>3. rtts' \in Seq(Rtts) /\ Len(rtts') <= sent' /\ sent' \in 0 .. BaselineProbes
    BY <1>1, <1>2, <2>2 DEF BaselineAnswered, TypeOK, BaselineProbes
  <2>4. UNCHANGED <<agent, baseline, lost, verdict, stage>>
    BY <1>2 DEF BaselineAnswered
  <2>. QED  BY <1>1, <2>1, <2>3, <2>4, NoteTypes DEF TypeOK, Typed
<1>3. CASE BaselineUnanswered
  <2>1. Len(rtts') <= sent' /\ sent' \in 0 .. BaselineProbes
    BY <1>1, <1>3 DEF BaselineUnanswered, TypeOK, BaselineProbes
  <2>. QED  BY <1>1, <1>3, <2>1 DEF BaselineUnanswered, TypeOK, Typed
<1>4. CASE BaselineDone
  <2>1. rtts' = <<>> /\ rtts' \in Seq(Rtts) /\ Len(rtts') <= sent'
    BY <1>1, <1>4 DEF BaselineDone, TypeOK, BaselineProbes
  <2>2. baseline' \in Nat
    <3>1. CASE rtts = <<>>
      BY <1>1, <1>4, <3>1 DEF BaselineDone, TypeOK
    <3>2. CASE rtts # <<>>
      <4>1. baseline' = Median(rtts) /\ rtts \in Seq(Rtts)
        BY <1>1, <1>4, <3>2 DEF BaselineDone, TypeOK
      <4>2. Median(rtts) \in Rtts
        BY <3>2, <4>1, MedianType
      <4>3. Rtts \subseteq Nat
        BY CanaryAssumption
      <4>. QED  BY <4>1, <4>2, <4>3
    <3>. QED  BY <3>1, <3>2
  <2>3. stage = "preflight" /\ stage' \in {"running", "refused"}
    BY <1>4 DEF BaselineDone
  <2>4. UNCHANGED <<agent, sent, lastUptime, seen, lost, verdict, since>>
    BY <1>4 DEF BaselineDone
  <2>. QED  BY <1>1, <2>1, <2>2, <2>3, <2>4 DEF TypeOK, Typed
<1>5. CASE ProbeUnanswered
  <2>1. lost' \in 0 .. LostLimit /\ verdict' \in {"lost", "ok"} /\ (verdict' = "ok" => lost' < LostLimit)
    BY <1>1, <1>5 DEF ProbeUnanswered, SilenceVerdict, TypeOK, LostLimit
  <2>2. stage' = After(verdict')
    BY <1>5 DEF ProbeUnanswered
  <2>3. UNCHANGED <<agent, sent, rtts, baseline, lastUptime, seen, since>>
    BY <1>5 DEF ProbeUnanswered
  <2>. QED  BY <1>1, <2>1, <2>2, <2>3 DEF TypeOK, Typed, After, Verdicts
<1>6. CASE ProbeAnswered
  <2>1. PICK withTime \in BOOLEAN, retried \in BOOLEAN, rtt \in Rtts :
          /\ verdict' \in {"restarted", "ok", "stressed"}
          /\ NoteUptime(withTime)
    BY <1>6 DEF ProbeAnswered, AnswerVerdict
  <2>2. lost' = 0 /\ stage' = After(verdict')
    BY <1>6 DEF ProbeAnswered
  <2>3. UNCHANGED <<agent, sent, rtts, baseline>>
    BY <1>6 DEF ProbeAnswered
  <2>. QED  BY <1>1, <2>1, <2>2, <2>3, NoteTypes DEF TypeOK, Typed, After, Verdicts, LostLimit
<1>7. CASE Tick
  <2>1. up' \in 0 .. Modulus - 1 /\ pause' \in 0 .. MaxPause
    <3>1. up \in 0 .. Modulus - 1 /\ pause \in 0 .. MaxPause
      BY <1>1 DEF TypeOK
    <3>2. up' = IF up + 1 = Modulus THEN 0 ELSE up + 1
      BY <1>7, <3>1, TickWraps DEF Tick
    <3>. QED  BY <1>7, <3>1, <3>2, ModulusType, CanaryAssumption DEF Tick
  <2>2. wrapped' \in BOOLEAN
    BY <1>7 DEF Tick
  <2>3. UNCHANGED <<reboots, sent, rtts, canary, stage, rebooted, timeless>>
    BY <1>7 DEF Tick
  <2>. QED  BY <1>1, <2>1, <2>2, <2>3 DEF TypeOK, Typed
<1>8. CASE Reboot
  <2>1. up' = 0 /\ reboots' \in 0 .. MaxReboots /\ rebooted' = TRUE
    BY <1>1, <1>8, CanaryAssumption DEF Reboot, TypeOK
  <2>2. UNCHANGED <<sent, rtts, canary, stage, pause, wrapped, timeless>>
    BY <1>8 DEF Reboot
  <2>. QED  BY <1>1, <2>1, <2>2, ModulusType DEF TypeOK, Typed
<1>9. CASE UNCHANGED vars
  BY <1>1, <1>9 DEF vars, TypeOK, Typed
<1>. QED  BY <1>2, <1>3, <1>4, <1>5, <1>6, <1>7, <1>8, <1>9 DEF Next, Stopped

LEMMA TypedInvariant == Spec => []Typed
BY TypedInit, TypedStep, PTL DEF Spec

\* Every variable of the canary has its type; the run is over with the verdicts
\* that end it and with no other, and never later than the limit of lost probes.
THEOREM TypeHolds == Spec => []TypeOK
<1>1. Typed => TypeOK
  BY DEF Typed
<1>. QED  BY <1>1, TypedInvariant, PTL

\* The baseline of NewCanary is a median of the round-trip times that the
\* preflight saw, however many of its probes were answered and in which order.
THEOREM BaselineIsMedianHolds == Spec => BaselineIsMedian
<1>1. ASSUME TypeOK, [Next]_vars, stage = "preflight", stage' = "running"
      PROVE  LET n == Len(rtts)
             IN /\ 2 * Cardinality({i \in 1 .. n : rtts[i] <= baseline'}) > n
                /\ 2 * Cardinality({i \in 1 .. n : rtts[i] >= baseline'}) >= n
  <2>1. BaselineDone
    BY <1>1 DEF Next, BaselineAnswered, BaselineUnanswered, ProbeUnanswered, ProbeAnswered,
         Tick, Reboot, Stopped, vars
  <2>2. rtts # <<>> /\ baseline' = Median(rtts) /\ rtts \in Seq(Rtts)
    BY <1>1, <2>1 DEF BaselineDone, TypeOK
  <2>3. rtts \in Seq(Nat)
    BY <2>2, TimesAreNaturals
  <2>. QED  BY <2>2, <2>3, MedianRank
<1>. QED  BY <1>1, TypeHolds, PTL DEF Spec, BaselineIsMedian
=============================================================================
