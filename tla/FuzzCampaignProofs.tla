-------------------------- MODULE FuzzCampaignProofs --------------------------
(***************************************************************************)
(* Proofs about FuzzCampaign for any plan, policy, limits and length of    *)
(* the campaign.                                                           *)
(***************************************************************************)
EXTENDS FuzzCampaign, FiniteSetTheorems, TLAPS

\* The number of executions a plan asks for is a number.
LEMMA PlannedIsNatural ==
    /\ Corpus \in Seq(Classes) /\ Len(Corpus) \in Nat \ {0}
    /\ PlannedTotal \in Nat
<1>1. ASSUME NEW class
      PROVE  Planned(class) \in Nat /\ (Planned(class) > 0 => Len(Corpus) # 0)
  <2> DEFINE Cases == {c \in DOMAIN Corpus : Corpus[c] = class}
  <2>1. IsFiniteSet(1 .. Len(Corpus)) /\ DOMAIN Corpus = 1 .. Len(Corpus)
    BY PlanAssumption, FS_Interval
  <2>2. Cardinality(Cases) \in Nat
    BY <2>1, FS_Subset, FS_CardinalityType
  <2>3. Len(Corpus) = 0 => Cases = {}
    BY <2>1, PlanAssumption
  <2>4. Cases = {} => Cardinality(Cases) = 0
    BY FS_EmptySet
  <2>5. Planned(class) = Repetitions * Cardinality(Cases) /\ Repetitions \in Nat
    BY PlanAssumption DEF Planned
  <2> HIDE DEF Cases
  <2> QED BY <2>2, <2>3, <2>4, <2>5
<1>2. Corpus \in Seq(Classes) /\ Planned("valid") > 0
  BY PlanAssumption
<1> QED BY <1>1, <1>2 DEF PlannedTotal

\* The next case has one of the two classes.
LEMMA NextIsCase == ASSUME TypeOK PROVE NextCase \in Classes
<1>1. counters["total"] \in Nat
  BY DEF TypeOK, Counters
<1>2. counters["total"] % Len(Corpus) \in 0 .. Len(Corpus) - 1
  BY <1>1, PlannedIsNatural
<1>3. (counters["total"] % Len(Corpus)) + 1 \in 1 .. Len(Corpus)
  BY <1>2, PlannedIsNatural
<1> QED BY <1>3, PlannedIsNatural DEF NextCase

\* An execution without findings that is counted as right was flawless: a signal, a
\* kill, a limit or an answer of the wrong kind each leaves a finding or a wrong count.
LEMMA RightIsFlawless ==
    ASSUME NEW o, NEW assessment, NEW class,
           o \in [termination : Terminations, marks : SUBSET Marks, duration : Nat],
           deadline \in Nat,
           assessment \in OracleMaySay(o, deadline),
           Safety(o, deadline, assessment) = {},
           assessment.disposition = Rewarded(class)
    PROVE  IsFlawless(o, assessment, class)
<1>1. NativeFindings(o, deadline) = {}
  BY DEF Safety
<1>2. \A f \in Findings : f \notin NativeFindings(o, deadline)
  BY <1>1
<1>3. /\ o.termination # "crashed" /\ ~Late(o, deadline) /\ "sanitizer" \notin o.marks
      /\ o.termination # "memoryLimitKilled" /\ "overMemory" \notin o.marks
      /\ "stdoutLimit" \notin o.marks /\ "stdoutProtocol" \notin o.marks
      /\ "stderrLimit" \notin o.marks /\ "unreaped" \notin o.marks
  BY <1>2 DEF NativeFindings, Findings
<1>4. o.termination = "exited" /\ o.duration <= deadline
  BY <1>3 DEF Late, Terminations
<1>5. o.marks = {}
  BY <1>3 DEF Marks
<1>6. assessment \in Assessments
  BY <1>1 DEF OracleMaySay
<1>7. assessment.protocolBreak = FALSE
  BY <1>6 DEF Safety, Assessments
<1>8. assessment = [disposition |-> Rewarded(class), protocolBreak |-> FALSE]
  BY <1>6, <1>7 DEF Assessments
<1> QED BY <1>4, <1>5, <1>8 DEF IsFlawless

\* A campaign that has not begun has nothing to answer for.
LEMMA InitEstablishes == Init => CampaignIInv
<1> SUFFICES ASSUME Init PROVE CampaignIInv
  OBVIOUS
<1>1. TypeOK
  <2>1. counters \in [Counters -> Nat] /\ safety \in [Findings -> Nat]
    BY DEF Init
  <2>2. pinned \in BOOLEAN /\ covered \in BOOLEAN
    BY DEF Init
  <2>3. now \in Nat /\ mark \in 0 .. now /\ begun \in Nat /\ deadline \in Nat
    BY DEF Init
  <2>4. pc \in Places /\ duration \in Nat /\ flawed \in Nat
    BY DEF Init, Places
  <2> QED BY <2>1, <2>2, <2>3, <2>4 DEF TypeOK
<1>2. CountsInv
  BY DEF Init, CountsInv, Counters
<1>3. safety["unreaped"] = 0
  BY DEF Init, Findings
<1>4. StopInv /\ VerdictInv
  BY <1>3 DEF Init, StopInv, VerdictInv
<1> QED BY <1>1, <1>2, <1>4 DEF CampaignIInv

\* An execution is counted so that a flaw shows, and stops the campaign when its
\* process could not be reaped.
LEMMA FinishKeeps ==
    ASSUME CampaignIInv, FinishExecution
    PROVE  CampaignIInv'
<1>1. /\ TypeOK /\ CountsInv /\ pc = "executing" /\ safety["unreaped"] = 0
      /\ deadline \in Nat /\ begun \in Nat /\ now \in Nat /\ NextCase \in Classes
  BY NextIsCase DEF CampaignIInv, FinishExecution, StopInv, TypeOK, Findings
<1>2. PICK o \in Observed : \E assessment \in OracleMaySay(o, deadline) :
          LET found == Safety(o, deadline, assessment)
          IN  /\ Record(NextCase, Disposition(found, assessment), found)
              /\ flawed' = flawed + (IF IsFlawless(o, assessment, NextCase) THEN 0 ELSE 1)
              /\ pc' = IF StopsCampaign(found) THEN "measuring" ELSE "looping"
  BY DEF FinishExecution
<1>3. PICK assessment \in OracleMaySay(o, deadline) :
          /\ Record(NextCase, Disposition(Safety(o, deadline, assessment), assessment),
                    Safety(o, deadline, assessment))
          /\ flawed' = flawed + (IF IsFlawless(o, assessment, NextCase) THEN 0 ELSE 1)
          /\ pc' = IF StopsCampaign(Safety(o, deadline, assessment))
                   THEN "measuring" ELSE "looping"
  BY <1>2
<1> DEFINE found == Safety(o, deadline, assessment)
           disposition == Disposition(found, assessment)
<1>4. o \in [termination : Terminations, marks : SUBSET Marks, duration : Nat]
  BY <1>1 DEF Observed, FewMarks
<1>5. found = {} /\ disposition = Rewarded(NextCase) => IsFlawless(o, assessment, NextCase)
  BY <1>1, <1>4, RightIsFlawless DEF Disposition
<1>6. found # {} => disposition # Rewarded(NextCase)
  BY DEF Disposition, Rewarded
<1> HIDE DEF found, disposition
<1>7. /\ \A c \in Counters : counters'[c] = counters[c] +
             (IF \/ c \in {"total", NextCase}
                 \/ c = RightCounter(NextCase) /\ disposition = Rewarded(NextCase)
              THEN 1 ELSE 0)
      /\ \A f \in Findings : safety'[f] = safety[f] + (IF f \in found THEN 1 ELSE 0)
      /\ counters' \in [Counters -> Nat] /\ safety' \in [Findings -> Nat]
  BY <1>1, <1>3 DEF Record, found, disposition, TypeOK
<1>8. /\ flawed' = flawed + (IF IsFlawless(o, assessment, NextCase) THEN 0 ELSE 1)
      /\ flawed \in Nat /\ flawed' \in Nat
      /\ pc' = IF "unreaped" \in found THEN "measuring" ELSE "looping"
      /\ UNCHANGED <<now, pinned, mark, covered, duration>> /\ begun' = 0 /\ deadline' = 0
  BY <1>1, <1>3 DEF found, StopsCampaign, TypeOK, FinishExecution, measures
<1>9. TypeOK'
  BY <1>1, <1>7, <1>8 DEF TypeOK, Places
<1>10. CountsInv'
  <2>1. /\ \A c \in Counters : counters[c] \in Nat
        /\ \A f \in Findings : safety[f] \in Nat
    BY <1>1 DEF TypeOK
  <2>2. /\ counters'["validAccepted"] <= counters'["valid"]
        /\ counters'["malformedRejected"] <= counters'["malformed"]
    BY <1>1, <1>7, <2>1 DEF CountsInv, Counters, RightCounter, Classes
  <2>3. ASSUME AllRight'
        PROVE  AllRight /\ found = {} /\ disposition = Rewarded(NextCase)
    <3>1. \A f \in Findings : safety[f] = 0 /\ f \notin found
      BY <1>7, <2>1, <2>3 DEF AllRight
    <3>2. found \subseteq Findings
      BY DEF found, Safety, NativeFindings, Findings
    <3>3. /\ counters["validAccepted"] = counters["valid"]
          /\ counters["malformedRejected"] = counters["malformed"]
          /\ disposition = Rewarded(NextCase)
      BY <1>1, <1>7, <2>1, <2>3 DEF AllRight, CountsInv, Counters, RightCounter, Classes
    <3> QED BY <3>1, <3>2, <3>3 DEF AllRight
  <2>4. AllRight' => flawed' = 0
    BY <1>1, <1>5, <1>8, <2>3 DEF CountsInv
  <2> QED BY <2>2, <2>4 DEF CountsInv
<1>11. StopInv'
  BY <1>1, <1>7, <1>8 DEF StopInv, Findings
<1>12. VerdictInv'
  BY <1>8 DEF VerdictInv
<1> QED BY <1>9, <1>10, <1>11, <1>12 DEF CampaignIInv

\* Every other step of the worker, the clocks and the driver.
LEMMA OthersKeep ==
    ASSUME CampaignIInv, [Next]_campaignVars, ~FinishExecution
    PROVE  CampaignIInv'
<1>1. /\ UNCHANGED <<counters, safety, flawed>>
  BY DEF Next, Worker, ReadWallClock, Mark, BeginExecution, EndLoop, MeasureCoverage, Abandon,
         MeasureDuration, Complete, Tick, StepWallClock, DriftProfile, results, campaignVars
<1>2. /\ pc \in Places /\ now \in Nat /\ mark \in 0 .. now /\ duration \in Nat
      /\ counters["total"] \in Nat /\ safety["unreaped"] \in Nat
      /\ MaxDuration \in Nat /\ MaxExecution \in Nat /\ PlannedTotal \in Nat
      /\ MaxDuration \in 1 .. MaxWorkerDuration /\ MaxWorkerDuration \in Nat
  BY PlanAssumption, PlannedIsNatural DEF CampaignIInv, TypeOK, Counters, Findings
<1>3. CountsInv'
  BY <1>1 DEF CampaignIInv, CountsInv, AllRight
<1>4. TypeOK' /\ StopInv' /\ VerdictInv'
  <2> USE DEF CampaignIInv, measures, results
  <2>1. CASE ReadWallClock \/ Mark
    BY <1>1, <1>2, <2>1 DEF ReadWallClock, Mark, TypeOK, Places, StopInv, VerdictInv
  <2>2. CASE BeginExecution
    BY <1>1, <1>2, <2>2
    DEF BeginExecution, NarrowedDeadline, TimeIsUp, Elapsed, TypeOK, Places, StopInv, VerdictInv
  <2>3. CASE EndLoop
    BY <1>1, <1>2, <2>3
    DEF EndLoop, LoopDone, TimeIsUp, Elapsed, TypeOK, Places, StopInv, VerdictInv
  <2>4. CASE MeasureCoverage
    BY <1>1, <1>2, <2>4
    DEF MeasureCoverage, ProfileHolds, Elapsed, TypeOK, Places, StopInv, VerdictInv
  <2>5. CASE Abandon
    BY <1>1, <1>2, <2>5 DEF Abandon, TypeOK, Places, StopInv, VerdictInv
  <2>6. CASE MeasureDuration
    BY <1>1, <1>2, <2>6 DEF MeasureDuration, Elapsed, TypeOK, Places, StopInv, VerdictInv
  <2>7. CASE Complete
    <3>1. /\ pc = "completing" /\ pc' \in {"abandoned", "refused", "passed", "failed"}
          /\ pc' = "passed" => MeetsPolicy
          /\ UNCHANGED <<now, pinned, mark, begun, deadline, covered, duration>>
      BY <2>7 DEF Complete
    <3>2. MeetsPolicy' = MeetsPolicy
      BY <1>1, <3>1 DEF MeetsPolicy, WithinDuration
    <3>3. TypeOK' /\ StopInv'
      BY <1>1, <1>2, <3>1 DEF TypeOK, Places, StopInv
    <3>4. VerdictInv'
      BY <3>1, <3>2 DEF VerdictInv
    <3> QED BY <3>3, <3>4
  <2>8. CASE Tick \/ StepWallClock \/ DriftProfile \/ UNCHANGED campaignVars
    <3>1. /\ pc' = pc /\ (now' = now \/ now' = now + 1)
          /\ UNCHANGED <<mark, begun, deadline, covered, duration>>
          /\ \/ pinned' = pinned
             \/ /\ pinned' = FALSE
                /\ pc \in {"starting", "marking", "looping", "executing", "measuring"}
      BY <2>8 DEF Tick, StepWallClock, DriftProfile, campaignVars
    <3>2. MeetsPolicy' = MeetsPolicy
      BY <1>1, <3>1 DEF MeetsPolicy, WithinDuration
    <3>3. TypeOK' /\ StopInv'
      <4>1. now' \in Nat /\ mark' \in 0 .. now'
        BY <1>2, <3>1
      <4>0. pinned' \in BOOLEAN
        BY <3>1 DEF TypeOK
      <4>2. TypeOK'
        BY <1>1, <3>1, <4>0, <4>1 DEF TypeOK
      <4>3. Elapsed >= MaxDuration => Elapsed' >= MaxDuration
        BY <1>2, <3>1 DEF Elapsed
      <4> QED BY <1>1, <3>1, <4>2, <4>3 DEF StopInv
    <3>4. VerdictInv'
      BY <3>1, <3>2 DEF VerdictInv
    <3> QED BY <3>3, <3>4
  <2> QED BY <2>1, <2>2, <2>3, <2>4, <2>5, <2>6, <2>7, <2>8 DEF Next, Worker
<1> QED BY <1>3, <1>4 DEF CampaignIInv

-------------------------------------------------------------------------------
(* The theorems *)

\* What the counters of run_with_clock say of every execution behind them, what ended
\* its loop, and what a verdict was measured under.
THEOREM Invariance == Spec => []CampaignIInv
<1>1. CampaignIInv /\ [Next]_campaignVars => CampaignIInv'
  BY FinishKeeps, OthersKeep
<1> QED BY <1>1, InitEstablishes, PTL DEF Spec

\* However long the campaign, evidence that passes has no execution behind it that was
\* wrong, unconfined, late or left unreaped.
THEOREM PassesAreEarned == Spec => []PassIsEarned
<1>1. CampaignIInv => PassIsEarned
  BY DEF CampaignIInv, CountsInv, VerdictInv, MeetsPolicy, AllRight, PassIsEarned
<1> QED BY <1>1, Invariance, PTL

\* A campaign that stopped before the end of its plan passes on the very millisecond of
\* its deadline or not at all.
THEOREM ShortCampaignsFail == Spec => []ShortCampaignFails
<1>1. CampaignIInv => ShortCampaignFails
  <2> SUFFICES ASSUME CampaignIInv, pc = "passed", counters["total"] < PlannedTotal
               PROVE  duration = MaxDuration
    BY DEF ShortCampaignFails
  <2>1. duration <= MaxDuration /\ safety["unreaped"] = 0
    BY DEF CampaignIInv, VerdictInv, MeetsPolicy, WithinDuration, Findings
  <2>2. duration >= MaxDuration
    BY <2>1 DEF CampaignIInv, StopInv
  <2> QED BY <2>1, <2>2, PlanAssumption DEF CampaignIInv, TypeOK
<1> QED BY <1>1, Invariance, PTL

\* A profile that drifted before the coverage was measured leaves no evidence.
THEOREM NoEvidenceAfterDrift == Spec => []DriftLeavesNoEvidence
<1>1. CampaignIInv => DriftLeavesNoEvidence
  BY DEF CampaignIInv, VerdictInv, DriftLeavesNoEvidence
<1> QED BY <1>1, Invariance, PTL

\* Once a process could not be reaped the worker begins no further execution.
THEOREM StopsWhenUnreaped == Spec => NoExecutionAfterUnreaped
<1>1. CampaignIInv /\ [Next]_campaignVars
          => [safety["unreaped"] > 0 => pc' # "executing"]_campaignVars
  <2> SUFFICES ASSUME CampaignIInv, Next, safety["unreaped"] > 0
               PROVE  pc' # "executing"
    OBVIOUS
  <2>1. pc \notin {"starting", "marking", "looping", "executing"}
    BY DEF CampaignIInv, StopInv
  <2> QED BY <2>1 DEF Next, Worker, ReadWallClock, Mark, BeginExecution, EndLoop, FinishExecution,
          MeasureCoverage, Abandon, MeasureDuration, Complete, Tick, StepWallClock, DriftProfile,
          campaignVars
<1> QED BY <1>1, Invariance, PTL DEF Spec, NoExecutionAfterUnreaped

-------------------------------------------------------------------------------
(* The counts of the report *)

\* Quotient and remainder are what they are.
LEMMA DivisionIsUnique ==
    ASSUME NEW t \in Nat, NEW L \in Nat \ {0}, NEW q \in Int, NEW r \in 0 .. L - 1, t = q * L + r
    PROVE  t \div L = q /\ (t % L) = r
<1> DEFINE a == t \div L
           b == t % L
<1>1. a \in Int /\ b \in 0 .. L - 1 /\ t = a * L + b
  OBVIOUS
<1> HIDE DEF a, b
<1>2. (a - q) * L = r - b
  BY <1>1
<1>3. a - q \in Int /\ r - b < L /\ r - b > -L
  BY <1>1
<1>4. ASSUME NEW d \in Int, d * L < L, d * L > -L PROVE d = 0
  <2>1. d >= 1 => d * L >= L
    OBVIOUS
  <2>2. d <= -1 => d * L <= -L
    OBVIOUS
  <2> QED
    BY <1>4, <2>1, <2>2
<1>5. a - q = 0
  BY <1>2, <1>3, <1>4
<1>6. a = q /\ b = r
  BY <1>1, <1>5
<1> QED
  BY <1>6 DEF a, b

\* The next of a loop of L: one further, or at the beginning of the next round.
LEMMA DivisionOfNext ==
    ASSUME NEW t \in Nat, NEW L \in Nat \ {0}
    PROVE  /\ t \div L \in Nat /\ (t % L) \in 0 .. L - 1
           /\ (t % L) + 1 < L => (t + 1) \div L = t \div L /\ ((t + 1) % L) = (t % L) + 1
           /\ (t % L) + 1 = L => (t + 1) \div L = (t \div L) + 1 /\ ((t + 1) % L) = 0
<1> DEFINE a == t \div L
           b == t % L
<1>1. a \in Int /\ b \in 0 .. L - 1 /\ t = a * L + b
  OBVIOUS
<1>2. a \in Nat
  OBVIOUS
<1> HIDE DEF a, b
<1>3. ASSUME b + 1 < L PROVE (t + 1) \div L = a /\ ((t + 1) % L) = b + 1
  <2>1. t + 1 \in Nat /\ b + 1 \in 0 .. L - 1 /\ t + 1 = a * L + (b + 1)
    BY <1>1, <1>3
  <2> QED
    BY <1>1, <2>1, DivisionIsUnique
<1>4. ASSUME b + 1 = L PROVE (t + 1) \div L = a + 1 /\ ((t + 1) % L) = 0
  <2>1. t + 1 \in Nat /\ 0 \in 0 .. L - 1 /\ t + 1 = (a + 1) * L + 0 /\ a + 1 \in Int
    BY <1>1, <1>4
  <2> QED
    BY <2>1, DivisionIsUnique
<1> QED
  BY <1>1, <1>2, <1>3, <1>4 DEF a, b

\* The cases of a class, one case further.
LEMMA CasesOfNext ==
    ASSUME NEW class, NEW n \in Nat
    PROVE  /\ CasesUpTo(class, n) \in Nat /\ CasesUpTo(class, 0) = 0
           /\ CasesUpTo(class, n + 1) =
                  CasesUpTo(class, n) + (IF Corpus[n + 1] = class THEN 1 ELSE 0)
<1> DEFINE S(k) == {c \in 1 .. k : Corpus[c] = class}
<1>1. IsFiniteSet(1 .. n)
  BY FS_Interval
<1>2. IsFiniteSet(S(n)) /\ Cardinality(S(n)) \in Nat
  BY <1>1, FS_Subset, FS_CardinalityType
<1>3. S(0) = {} /\ Cardinality(S(0)) = 0
  BY FS_EmptySet
<1>4. CASE Corpus[n + 1] = class
  <2>1. S(n + 1) = S(n) \union {n + 1} /\ n + 1 \notin S(n)
    BY <1>4
  <2>2. Cardinality(S(n) \union {n + 1}) = Cardinality(S(n)) + 1
    <3> HIDE DEF S
    <3> QED
      BY <1>2, <2>1, FS_AddElement
  <2> QED
    BY <1>2, <1>3, <1>4, <2>1, <2>2 DEF CasesUpTo
<1>5. CASE Corpus[n + 1] # class
  <2>1. S(n + 1) = S(n)
    BY <1>5
  <2> QED
    BY <1>2, <1>3, <1>5, <2>1 DEF CasesUpTo
<1> QED
  BY <1>4, <1>5

\* The first of the corpus have no more cases of a class than all of it.
LEMMA CasesGrow ==
    ASSUME NEW class, NEW m \in Nat, NEW n \in Nat, m <= n
    PROVE  CasesUpTo(class, m) <= CasesUpTo(class, n)
<1> DEFINE S(k) == {c \in 1 .. k : Corpus[c] = class}
<1>1. IsFiniteSet(1 .. n) /\ S(m) \subseteq S(n)
  BY FS_Interval
<1>2. IsFiniteSet(S(n))
  BY <1>1, FS_Subset
<1>3. Cardinality(S(m)) <= Cardinality(S(n))
  <2> HIDE DEF S
  <2> QED
    BY <1>1, <1>2, FS_Subset
<1> QED
  BY <1>3 DEF CasesUpTo

\* A plan repeats the cases of the corpus, each of which has one of the two classes.
LEMMA PlannedIsRepeated ==
    /\ \A class : Planned(class) = Repetitions * CasesUpTo(class, Len(Corpus))
    /\ CasesUpTo("valid", Len(Corpus)) + CasesUpTo("malformed", Len(Corpus)) = Len(Corpus)
    /\ PlannedTotal = Repetitions * Len(Corpus)
<1> DEFINE L == Len(Corpus)
           S(class) == {c \in 1 .. L : Corpus[c] = class}
<1>1. DOMAIN Corpus = 1 .. L /\ L \in Nat /\ \A c \in 1 .. L : Corpus[c] \in Classes
  BY PlannedIsNatural
<1>2. \A class : Planned(class) = Repetitions * CasesUpTo(class, L)
  BY <1>1 DEF Planned, CasesUpTo
<1>3. CasesUpTo("valid", L) + CasesUpTo("malformed", L) = L
  <2>1. IsFiniteSet(1 .. L) /\ Cardinality(1 .. L) = L
    BY <1>1, FS_Interval
  <2>2. S("valid") \union S("malformed") = 1 .. L /\ S("valid") \intersect S("malformed") = {}
    BY <1>1 DEF Classes
  <2>3. IsFiniteSet(S("valid")) /\ IsFiniteSet(S("malformed"))
    BY <2>1, FS_Subset
  <2>4. Cardinality(S("valid")) \in Nat /\ Cardinality(S("malformed")) \in Nat
    BY <2>3, FS_CardinalityType
  <2>5. Cardinality({}) = 0
    BY FS_EmptySet
  <2> DEFINE V == S("valid")
             M == S("malformed")
  <2>6. CasesUpTo("valid", L) = Cardinality(V) /\ CasesUpTo("malformed", L) = Cardinality(M)
    BY DEF CasesUpTo
  <2> HIDE DEF V, M
  <2>7. Cardinality(V \union M) = Cardinality(V) + Cardinality(M) - Cardinality(V \intersect M)
    BY <2>3, FS_Union DEF V, M
  <2>8. V \union M = 1 .. L /\ V \intersect M = {}
    BY <2>2 DEF V, M
  <2>9. Cardinality(V) \in Nat /\ Cardinality(M) \in Nat
    BY <2>4 DEF V, M
  <2>10. Cardinality(V \union M) = L /\ Cardinality(V \intersect M) = 0
    BY <2>1, <2>5, <2>8
  <2>11. Cardinality(V) + Cardinality(M) = L
    <3> DEFINE a == Cardinality(V)
               b == Cardinality(M)
    <3>1. a \in Nat /\ b \in Nat /\ L = a + b - 0
      BY <2>7, <2>9, <2>10
    <3> HIDE DEF a, b, L
    <3>2. a + b = L
      BY <3>1
    <3> QED
      BY <3>2 DEF a, b
  <2> QED
    BY <2>6, <2>11
<1>4. Repetitions \in Nat /\ CasesUpTo("valid", L) \in Nat /\ CasesUpTo("malformed", L) \in Nat
  BY <1>1, PlanAssumption, CasesOfNext
<1>5. PlannedTotal = Repetitions * L
  <2>1. \A r, v, m \in Nat : r * v + r * m = r * (v + m)
    OBVIOUS
  <2> HIDE DEF L
  <2> QED
    BY <1>2, <1>3, <1>4, <2>1 DEF PlannedTotal
<1> QED
  BY <1>2, <1>3, <1>5

\* What has been executed of a plan is, class by class, not more than was planned.
LEMMA SharesAreBounded ==
    ASSUME NEW t \in Nat, t <= PlannedTotal, NEW class
    PROVE  (t \div Len(Corpus)) * CasesUpTo(class, Len(Corpus)) + CasesUpTo(class, t % Len(Corpus))
               <= Planned(class)
<1> DEFINE L == Len(Corpus)
           q == t \div L
           i == t % L
           U(n) == CasesUpTo(class, n)
           R == Repetitions
<1>1. L \in Nat \ {0} /\ R \in Nat
  BY PlannedIsNatural, PlanAssumption
<1>2. q \in Nat /\ i \in 0 .. L - 1 /\ t = q * L + i
  <2> HIDE DEF L
  <2>1. q \in Nat /\ i \in 0 .. L - 1
    BY <1>1, DivisionOfNext
  <2>2. t = q * L + i
    BY <1>1
  <2> QED
    BY <2>1, <2>2
<1>3. U(L) \in Nat /\ U(i) \in Nat /\ U(0) = 0 /\ U(i) <= U(L)
  <2> HIDE DEF L, i
  <2> QED
    BY <1>1, <1>2, CasesOfNext, CasesGrow
<1>4. PlannedTotal = R * L /\ Planned(class) = R * U(L)
  BY PlannedIsRepeated
<1> DEFINE u == U(L)
           w == U(i)
<1>5. u \in Nat /\ w \in Nat /\ w <= u /\ (i = 0 => w = 0) /\ Planned(class) = R * u
      /\ q * L + i <= R * L
  BY <1>2, <1>3, <1>4
<1>6. q * u + w <= R * u
  <2> HIDE DEF L, q, i, u, w, R
  <2>1. CASE q >= R + 1
    <3>1. q * L >= (R + 1) * L
      BY <1>1, <1>2, <2>1
    <3>2. (R + 1) * L = R * L + L
      BY <1>1
    <3> QED
      BY <1>1, <1>2, <1>5, <3>1, <3>2
  <2>2. CASE q = R
    <3>1. i = 0
      BY <1>1, <1>2, <1>5, <2>2
    <3> QED
      BY <1>1, <1>5, <2>2, <3>1
  <2>3. CASE q + 1 <= R
    <3>1. (q + 1) * u <= R * u
      BY <1>1, <1>2, <1>5, <2>3
    <3>2. (q + 1) * u = q * u + u
      BY <1>2, <1>5
    <3> QED
      BY <1>1, <1>2, <1>5, <3>1, <3>2
  <2> QED
    BY <1>1, <1>2, <2>1, <2>2, <2>3
<1> QED
  BY <1>5, <1>6

\* An execution is one of the plan, and counted as one of its class.
LEMMA FinishShares ==
    ASSUME CampaignIInv, SharesInv, FinishExecution
    PROVE  SharesInv'
<1> DEFINE t == counters["total"]
           L == Len(Corpus)
           q == t \div L
           i == t % L
<1>1. /\ TypeOK /\ pc = "executing" /\ NextCase \in Classes /\ L \in Nat \ {0}
      /\ NextCase = Corpus[i + 1] /\ t \in Nat /\ t < PlannedTotal /\ PlannedTotal \in Nat
  BY NextIsCase, PlannedIsNatural DEF CampaignIInv, FinishExecution, SharesInv, TypeOK, Counters,
     NextCase
<1>2. PICK disposition, found : Record(NextCase, disposition, found)
  BY DEF FinishExecution
<1>3. /\ pc' \in {"measuring", "looping"}
  BY DEF FinishExecution
<1>4. /\ \A c \in Counters : counters[c] \in Nat
      /\ \A f \in Findings : safety[f] \in Nat
  BY <1>1 DEF TypeOK
<1>5. /\ counters'["total"] = t + 1
      /\ \A class \in Classes :
            counters'[class] = counters[class] + (IF class = NextCase THEN 1 ELSE 0)
  <2>1. \A c \in Counters : counters'[c] = counters[c] +
             (IF \/ c \in {"total", NextCase}
                 \/ c = RightCounter(NextCase) /\ disposition = Rewarded(NextCase)
              THEN 1 ELSE 0)
    BY <1>2 DEF Record
  <2> QED
    BY <1>1, <2>1 DEF Counters, Classes, RightCounter
<1>6. \A f \in Findings : safety'[f] \in {safety[f], safety[f] + 1}
  BY <1>2, <1>4 DEF Record
<1>7. counters'["total"] = counters'["valid"] + counters'["malformed"]
  <2>1. t = counters["valid"] + counters["malformed"]
    BY DEF SharesInv
  <2>2. /\ counters["valid"] \in Nat /\ counters["malformed"] \in Nat
        /\ counters'["total"] = t + 1
        /\ counters'["valid"] = counters["valid"] + (IF NextCase = "valid" THEN 1 ELSE 0)
        /\ counters'["malformed"] =
              counters["malformed"] + (IF NextCase = "malformed" THEN 1 ELSE 0)
    BY <1>4, <1>5 DEF Classes, Counters
  <2>3. NextCase = "valid" \/ NextCase = "malformed"
    BY <1>1 DEF Classes
  <2> HIDE DEF t
  <2>4. CASE NextCase = "valid"
    BY <2>1, <2>2, <2>4
  <2>5. CASE NextCase = "malformed"
    BY <2>1, <2>2, <2>5
  <2> QED
    BY <2>3, <2>4, <2>5
<1>8. counters'["total"] <= PlannedTotal
  BY <1>1, <1>5
<1>9. \A f \in Findings : safety'[f] <= counters'["total"]
  BY <1>1, <1>4, <1>5, <1>6 DEF SharesInv
<1>10. ASSUME NEW class \in Classes
       PROVE  counters'[class] = ((t + 1) \div L) * CasesUpTo(class, L)
                                     + CasesUpTo(class, (t + 1) % L)
  <2> DEFINE u == CasesUpTo(class, L)
             w == CasesUpTo(class, i)
             more == IF class = NextCase THEN 1 ELSE 0
  <2> SUFFICES counters'[class] = ((t + 1) \div L) * u + CasesUpTo(class, (t + 1) % L)
    OBVIOUS
  <2>1. counters'[class] = q * u + w + more
    BY <1>5 DEF SharesInv
  <2>2. /\ q \in Nat /\ i \in 0 .. L - 1
        /\ i + 1 < L => (t + 1) \div L = q /\ ((t + 1) % L) = i + 1
        /\ i + 1 = L => (t + 1) \div L = q + 1 /\ ((t + 1) % L) = 0
    <3> HIDE DEF t, L
    <3> QED
      BY <1>1, DivisionOfNext
  <2>3. /\ u \in Nat /\ w \in Nat /\ more \in Nat /\ CasesUpTo(class, 0) = 0
        /\ CasesUpTo(class, i + 1) = w + more
    <3> HIDE DEF i, L
    <3> QED
      BY <1>1, <2>2, CasesOfNext
  <2>4. i + 1 = L => u = w + more
    BY <2>3
  <2> DEFINE p == q * u
             x == w + more
             d == (t + 1) \div L
             e == (t + 1) % L
  <2>5. p \in Nat /\ x \in Nat /\ (q + 1) * u = p + u /\ counters'[class] = p + x
    <3>1. p \in Nat /\ x \in Nat /\ (q + 1) * u = p + u
      <4> HIDE DEF q, u, w, more
      <4> QED
        BY <2>2, <2>3
    <3>2. counters'[class] = p + w + more
      BY <2>1
    <3> QED
      <4> HIDE DEF p, w, more
      <4> QED
        BY <2>3, <3>1, <3>2
  <2>6. /\ i + 1 < L => d = q /\ e = i + 1
        /\ i + 1 = L => d = q + 1 /\ e = 0
        /\ L \in Nat /\ i \in 0 .. L - 1
    BY <1>1, <2>2
  <2>7. CasesUpTo(class, 0) = 0 /\ CasesUpTo(class, i + 1) = x
    BY <2>3
  <2>8. p = q * u
    OBVIOUS
  <2> HIDE DEF i, L, d, e, p, q, u, x, w, more
  <2>9. ASSUME i + 1 < L PROVE counters'[class] = d * u + CasesUpTo(class, e)
    BY <2>5, <2>6, <2>7, <2>8, <2>9
  <2>10. ASSUME i + 1 = L PROVE counters'[class] = d * u + CasesUpTo(class, e)
    <3>1. d * u = p + u /\ CasesUpTo(class, e) = 0 /\ u = x
      BY <2>3, <2>4, <2>5, <2>6, <2>7, <2>10 DEF x
    <3> QED
      BY <2>5, <3>1
  <2>11. counters'[class] = d * u + CasesUpTo(class, e)
    BY <2>6, <2>9, <2>10
  <2> QED
    BY <2>11 DEF d, e
<1> HIDE DEF t, L
<1> QED
  BY <1>3, <1>5, <1>7, <1>8, <1>9, <1>10 DEF SharesInv, L

\* No other step counts, and none begins an execution after the last.
LEMMA OthersShare ==
    ASSUME CampaignIInv, SharesInv, [Next]_campaignVars, ~FinishExecution
    PROVE  SharesInv'
<1>1. counters' = counters /\ safety' = safety
  BY DEF Next, Worker, ReadWallClock, Mark, BeginExecution, EndLoop, MeasureCoverage, Abandon,
         MeasureDuration, Complete, Tick, StepWallClock, DriftProfile, results, campaignVars
<1>2. pc' = "executing" => counters["total"] # PlannedTotal \/ pc = "executing"
  BY DEF Next, Worker, ReadWallClock, Mark, BeginExecution, EndLoop, MeasureCoverage, Abandon,
         MeasureDuration, Complete, Tick, StepWallClock, DriftProfile, LoopDone, campaignVars
<1>3. counters["total"] \in Nat /\ PlannedTotal \in Nat
  BY PlannedIsNatural DEF CampaignIInv, TypeOK, Counters
<1> QED
  BY <1>1, <1>2, <1>3 DEF SharesInv

-------------------------------------------------------------------------------
(* The times of the report *)

\* A report of a worker whose wall clock was left alone is consistent: what was executed is
\* of the plan, and the duration fits between the two readings of a clock that shows seconds.
LEMMA HonestIsConsistent ==
    ASSUME CampaignIInv, SharesInv, ClocksInv, ~stepped, pc = "completing",
           Unix \in Int, now + offset <= Unix * Second + (Second - 1)
    PROVE  ReportConsistent(Unix)
<1>1. /\ TypeOK /\ CountsInv /\ Second \in Nat \ {0}
  BY BoundsAssumption DEF CampaignIInv
<1>2. /\ now \in Nat /\ mark \in 0 .. now /\ duration \in Nat
      /\ offset \in Int /\ startedAt \in Int
  BY <1>1 DEF TypeOK, ClocksInv
<1>3. duration <= MaxWorkerDuration
  BY DEF ClocksInv
<1>4. TimingConsistent(startedAt, Unix)
  <2> DEFINE x == Unix
             a == startedAt * Second
             b == x * Second
  <2>1. a \in Int /\ b \in Int /\ (x - startedAt) * Second = b - a
    <3> HIDE DEF x
    <3>1. x \in Int /\ startedAt \in Int /\ Second \in Int
      BY <1>1, <1>2 DEF x
    <3> QED
      BY <3>1
  <2>2. a <= mark + offset /\ duration <= now - mark
    BY DEF ClocksInv, Elapsed
  <2>3. now + offset <= b + (Second - 1)
    OBVIOUS
  <2>4. (x - startedAt) * Second + (Second - 1) = b - a + (Second - 1)
    BY <2>1
  <2> HIDE DEF a, b, x
  <2>5. duration <= b - a + (Second - 1)
    BY <1>1, <1>2, <2>1, <2>2, <2>3
  <2>6. duration <= (x - startedAt) * Second + (Second - 1)
    BY <2>4, <2>5
  <2> QED
    BY <2>6 DEF TimingConsistent, x
<1>5. /\ counters["total"] \in Nat /\ counters["total"] <= PlannedTotal
      /\ counters["valid"] <= Planned("valid") /\ counters["malformed"] <= Planned("malformed")
  <2>1. counters["total"] \in Nat /\ counters["total"] <= PlannedTotal
    BY <1>1 DEF TypeOK, Counters, SharesInv
  <2>2. ASSUME NEW class \in Classes PROVE counters[class] <= Planned(class)
    <3> DEFINE t == counters["total"]
    <3>1. counters[class] = (t \div Len(Corpus)) * CasesUpTo(class, Len(Corpus))
                                + CasesUpTo(class, t % Len(Corpus))
      BY DEF SharesInv
    <3> HIDE DEF t
    <3>2. t \in Nat /\ t <= PlannedTotal
      BY <2>1 DEF t
    <3>3. (t \div Len(Corpus)) * CasesUpTo(class, Len(Corpus)) + CasesUpTo(class, t % Len(Corpus))
              <= Planned(class)
      BY <3>2, SharesAreBounded
    <3> QED
      BY <3>1, <3>3
  <2> QED
    BY <2>1, <2>2 DEF Classes
<1> QED
  BY <1>1, <1>3, <1>4, <1>5 DEF ReportConsistent, SharesInv, CountsInv

\* The wall clock is read before the mark is taken, and the duration before it is read again.
LEMMA ClocksKeep ==
    ASSUME CampaignIInv, CampaignIInv', SharesInv, ClocksInv, [Next]_campaignVars
    PROVE  ClocksInv'
<1>1. /\ TypeOK /\ CountsInv /\ Second \in Nat \ {0} /\ MaxDuration \in Nat
      /\ MaxWorkerDuration \in Nat /\ TypeOK'
  BY PlanAssumption, BoundsAssumption DEF CampaignIInv
<1>2. /\ now \in Nat /\ mark \in 0 .. now /\ duration \in Nat /\ pc \in Places
  BY <1>1 DEF TypeOK
<1>3. /\ offset \in Int /\ startedAt \in Int /\ stepped \in BOOLEAN /\ startedAt * Second \in Int
  BY <1>1 DEF ClocksInv
<1>4. /\ Unix \in Int /\ Unix * Second \in Int /\ Unix * Second <= now + offset
      /\ now + offset <= Unix * Second + (Second - 1)
  <2> DEFINE n == now + offset
             m == n % Second
             x == Unix
  <2>1. n \in Int
    BY <1>2, <1>3
  <2>2. x \in Int /\ m \in 0 .. Second - 1 /\ n = x * Second + m
    <3> HIDE DEF n
    <3>1. /\ n \div Second \in Int /\ m \in 0 .. Second - 1
          /\ n = (n \div Second) * Second + m
      BY <1>1, <2>1
    <3> QED
      BY <3>1 DEF Unix, n
  <2>3. x * Second \in Int
    BY <1>1, <2>2
  <2> HIDE DEF m, x
  <2>4. x * Second <= n /\ n <= x * Second + (Second - 1)
    BY <1>1, <2>1, <2>2, <2>3
  <2> QED
    BY <2>2, <2>3, <2>4 DEF x
<1> DEFINE Started == startedAt * Second
<1>5. CASE ReadWallClock
  BY <1>1, <1>2, <1>3, <1>4, <1>5 DEF ReadWallClock, ClocksInv
<1>6. CASE Mark
  BY <1>1, <1>2, <1>3, <1>6 DEF Mark, ClocksInv, results
<1>7. CASE BeginExecution
  BY <1>1, <1>2, <1>3, <1>7 DEF BeginExecution, ClocksInv, measures
<1>8. CASE EndLoop
  BY <1>1, <1>2, <1>3, <1>8 DEF EndLoop, ClocksInv, measures
<1>9. CASE FinishExecution
  BY <1>1, <1>2, <1>3, <1>9 DEF FinishExecution, ClocksInv, measures
<1>10. CASE MeasureCoverage
  BY <1>1, <1>2, <1>3, <1>10 DEF MeasureCoverage, ClocksInv
<1>11. CASE Abandon
  BY <1>1, <1>2, <1>3, <1>11 DEF Abandon, ClocksInv, measures
<1>12. CASE MeasureDuration
  BY <1>1, <1>2, <1>3, <1>12 DEF MeasureDuration, ClocksInv, Elapsed
<1>13. CASE Complete
  <2>1. ASSUME ~stepped, pc = "completing" PROVE ReportConsistent(Unix)
    BY <1>1, <1>2, <1>3, <1>4, <2>1, HonestIsConsistent
  <2> QED
    BY <1>1, <1>2, <1>3, <1>13, <2>1 DEF Complete, ClocksInv, measures
<1>14. CASE Tick
  BY <1>1, <1>2, <1>3, <1>14 DEF Tick, ClocksInv, measures, Elapsed, Finished
<1>15. CASE StepWallClock
  BY <1>1, <1>2, <1>3, <1>15 DEF StepWallClock, ClocksInv, measures, Elapsed
<1>16. CASE DriftProfile
  BY <1>1, <1>2, <1>3, <1>16 DEF DriftProfile, ClocksInv, measures, Elapsed
<1>17. CASE UNCHANGED campaignVars
  BY <1>1, <1>2, <1>3, <1>17 DEF campaignVars, ClocksInv, Elapsed
<1> QED
  BY <1>5, <1>6, <1>7, <1>8, <1>9, <1>10, <1>11, <1>12, <1>13, <1>14, <1>15, <1>16, <1>17
     DEF Next, Worker

\* Every count of a report is the share of the plan that was executed, and its times are
\* readings in their order.
THEOREM ReportsInvariance == Spec => []ReportIInv
<1>1. Init => ReportIInv
  <2> SUFFICES ASSUME Init PROVE ReportIInv
    OBVIOUS
  <2>1. /\ Len(Corpus) \in Nat \ {0} /\ PlannedTotal \in Nat /\ PlannedTotal > 0
    BY PlannedIsNatural, PlanAssumption DEF PlannedTotal
  <2>2. 0 \div Len(Corpus) = 0 /\ (0 % Len(Corpus)) = 0
    BY <2>1
  <2>3. \A class : CasesUpTo(class, 0) = 0 /\ CasesUpTo(class, Len(Corpus)) \in Nat
    BY <2>1, CasesOfNext
  <2>4. SharesInv
    <3> DEFINE L == Len(Corpus)
    <3>1. \A class : (0 \div L) * CasesUpTo(class, L) + CasesUpTo(class, 0 % L) = 0
      <4> HIDE DEF L
      <4> QED
        BY <2>2, <2>3 DEF L
    <3>2. \A c \in Counters : counters[c] = 0
      BY DEF Init
    <3>3. \A f \in Findings : safety[f] = 0
      BY DEF Init
    <3> QED
      BY <2>1, <3>1, <3>2, <3>3 DEF SharesInv, Counters, Classes, Init
  <2>5. ClocksInv
    <3>1. offset \in Int
      BY BoundsAssumption DEF Init
    <3>2. startedAt \in Int /\ stepped \in BOOLEAN
      <4>1. startedAt = 0
        BY DEF Init
      <4>2. stepped = FALSE
        BY Zenon DEF Init
      <4>3. startedAt \in Int
        BY <4>1
      <4>4. stepped \in BOOLEAN
        BY <4>2, Zenon
      <4> QED
        BY <4>3, <4>4
    <3>3. pc \notin {"marking", "looping", "executing", "measuring", "timing",
                     "completing", "refused"}
      BY DEF Init
    <3> QED
      BY <3>1, <3>2, <3>3 DEF ClocksInv
  <2> QED
    BY <2>4, <2>5 DEF ReportIInv
<1>2. CampaignIInv /\ CampaignIInv' /\ ReportIInv /\ [Next]_campaignVars => ReportIInv'
  BY FinishShares, OthersShare, ClocksKeep DEF ReportIInv
<1> QED
  BY <1>1, <1>2, Invariance, PTL DEF Spec

\* No honest report is refused, at whatever moment of a second the campaign began and however
\* long it took.
THEOREM HonestReportsAreEvaluated == Spec => []HonestReportIsEvaluated
<1>1. ReportIInv => HonestReportIsEvaluated
  BY DEF ReportIInv, ClocksInv, HonestReportIsEvaluated
<1> QED
  BY <1>1, ReportsInvariance, PTL
===============================================================================
