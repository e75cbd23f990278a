------------------------------ MODULE FuzzCampaign ------------------------------
(***************************************************************************)
(* run_certification_fuzz_worker: a campaign executes the corpus, case by  *)
(* case and repetition by repetition, each time in a fresh confined        *)
(* process; it counts what the adapter reports, and evaluates the counts   *)
(* as the evidence of the protocol-fuzzing stage.                          *)
(*                                                                         *)
(* Time is in milliseconds of a scaled second.  The wall clock is the      *)
(* monotonic one plus an offset, which an administrator may change.  Plan, *)
(* artifact and engine are taken to have passed their validation; their    *)
(* failure ends the campaign before it begins.                             *)
(***************************************************************************)
EXTENDS ConfinementAdapter, Integers, Sequences

CONSTANTS Corpus,        \* the classes of corpus.cases, in order
          Repetitions,   \* corpus.repetitions
          MaxExecution,  \* limits.maximum_execution_milliseconds
          MaxDuration,   \* policy.maximum_duration_milliseconds
          MinExecutions, MinValid, MinMalformed,    \* thresholds of the policy
          MaxWorkerDuration,  \* MAX_WORKER_DURATION_MILLISECONDS, seven days
          Second,        \* milliseconds in a second, 1000 in the code
          MaxTime,       \* bound on the clock
          MaxMarks,      \* bound on the marks of one observation
          MaxFlawed      \* bound on the executions that are not flawless

Planned(class) ==
    Repetitions * Cardinality({c \in DOMAIN Corpus : Corpus[c] = class})
PlannedTotal == Planned("valid") + Planned("malformed")

\* What validate_certification_fuzz_plan has established.
ASSUME PlanAssumption ==
    /\ Corpus \in Seq(Classes) /\ Repetitions \in Nat \ {0}
    /\ Planned("valid") > 0 /\ Planned("malformed") > 0
    /\ MaxExecution \in Nat \ {0} /\ MaxWorkerDuration \in Nat
    /\ MaxDuration \in 1 .. MaxWorkerDuration
    /\ MinExecutions \in 1 .. PlannedTotal
    /\ MinValid \in 1 .. Planned("valid")
    /\ MinMalformed \in 1 .. Planned("malformed")

ASSUME BoundsAssumption ==
    /\ Second \in Nat \ {0} /\ MaxTime \in Nat
    /\ MaxMarks \in Nat /\ MaxFlawed \in Nat

VARIABLES pc,            \* where the worker is
          now,           \* the monotonic clock
          offset,        \* what the wall clock is ahead of it
          stepped,       \* ghost: the wall clock has been set back or forward
          pinned,        \* the driver still reports the profile of the start
          startedAt,     \* started_at_unix
          mark,          \* started
          begun,         \* when the running execution was begun
          deadline,      \* execution_deadline_milliseconds
          counters,      \* total_executions, and per class inputs and right answers
          safety,        \* the eight safety counters
          covered,       \* the measured coverage meets the policy
          duration,      \* duration_milliseconds
          flawed         \* ghost: executions that were wrong, unconfined or late

campaignVars == <<pc, now, offset, stepped, pinned, startedAt, mark, begun, deadline,
                  counters, safety, covered, duration, flawed>>
results == <<counters, safety, flawed>>
measures == <<startedAt, mark, covered, duration>>

Counters == {"total", "valid", "validAccepted", "malformed", "malformedRejected"}

Init ==
    /\ pc = "starting"
    /\ now = 0 /\ offset \in Second .. 2 * Second - 1
    /\ stepped = FALSE /\ pinned = TRUE
    /\ startedAt = 0 /\ mark = 0 /\ begun = 0 /\ deadline = 0
    /\ counters = [c \in Counters |-> 0]
    /\ safety = [f \in Findings |-> 0]
    /\ covered = FALSE /\ duration = 0
    /\ flawed = 0

-------------------------------------------------------------------------------
Unix == (now + offset) \div Second
Elapsed == now - mark

\* The next case, in the order of the two nested loops.
NextCase == Corpus[(counters["total"] % Len(Corpus)) + 1]

LoopDone == counters["total"] = PlannedTotal

\* now_unix, then mark: two readings with time between them.
ReadWallClock ==
    /\ pc = "starting"
    /\ startedAt' = Unix
    /\ pc' = IF Unix > 0 THEN "marking" ELSE "abandoned"
    /\ UNCHANGED <<now, offset, stepped, pinned, mark, begun, deadline, results,
                   covered, duration>>

Mark ==
    /\ pc = "marking"
    /\ mark' = now
    /\ pc' = "looping"
    /\ UNCHANGED <<now, offset, stepped, pinned, startedAt, begun, deadline, results,
                   covered, duration>>

\* checked_sub gives nothing, or zero: no time is left.
TimeIsUp == Elapsed >= MaxDuration

NarrowedDeadline ==
    IF MaxDuration - Elapsed < MaxExecution THEN MaxDuration - Elapsed ELSE MaxExecution

\* Fault: the driver's profile is looked at only when the adapter is made.
NeverRechecked == TRUE

\* current_profile of the adapter, before each of its operations.
ProfileHolds == pinned

\* The adapter compares the profile, and has the driver start a process.
BeginExecution ==
    /\ pc = "looping" /\ ~LoopDone /\ ~TimeIsUp
    /\ deadline' = NarrowedDeadline
    /\ begun' = now
    /\ pc' = IF ProfileHolds THEN "executing" ELSE "abandoned"
    /\ UNCHANGED <<now, offset, stepped, pinned, measures, results>>

EndLoop ==
    /\ pc = "looping" /\ (LoopDone \/ TimeIsUp)
    /\ pc' = "measuring"
    /\ UNCHANGED <<now, offset, stepped, pinned, measures, begun, deadline, results>>

\* Counters::record for the outcome of one execution.
Rewarded(class) == IF class = "valid" THEN "accepted" ELSE "rejected"
RightCounter(class) == IF class = "valid" THEN "validAccepted" ELSE "malformedRejected"

Record(class, disposition, found) ==
    /\ counters' = [c \in Counters |-> counters[c] +
           (IF \/ c \in {"total", class}
               \/ c = RightCounter(class) /\ disposition = Rewarded(class)
            THEN 1 ELSE 0)]
    /\ safety' = [f \in Findings |-> safety[f] + (IF f \in found THEN 1 ELSE 0)]

FewMarks == {m \in SUBSET Marks : Cardinality(m) <= MaxMarks}

\* What a driver can have observed by now of the execution begun before.
Observed ==
    {o \in [termination : Terminations, marks : FewMarks,
            duration : 0 .. now - begun] :
        o.termination = "deadlineKilled" => o.duration >= deadline}

\* What a flawless execution is, without regard to how it is counted.
IsFlawless(o, assessment, class) ==
    /\ o.termination = "exited" /\ o.marks = {}
    /\ o.duration <= deadline
    /\ assessment = [disposition |-> Rewarded(class), protocolBreak |-> FALSE]

\* Fault: the campaign goes on past a process that could not be reaped.
GoesOn(found) == FALSE

StopsCampaign(found) == "unreaped" \in found

FinishExecution ==
    /\ pc = "executing"
    /\ \E o \in Observed : \E assessment \in OracleMaySay(o, deadline) :
          LET found == Safety(o, deadline, assessment)
          IN  /\ Record(NextCase, Disposition(found, assessment), found)
              /\ flawed' = flawed +
                     (IF IsFlawless(o, assessment, NextCase) THEN 0 ELSE 1)
              /\ flawed' <= MaxFlawed
              /\ pc' = IF StopsCampaign(found) THEN "measuring" ELSE "looping"
    /\ begun' = 0 /\ deadline' = 0
    /\ UNCHANGED <<now, offset, stepped, pinned, measures>>

\* Coverage is measured once, after the last execution.
MeasureCoverage ==
    /\ pc = "measuring"
    /\ covered' \in BOOLEAN
    /\ pc' = IF ProfileHolds THEN "timing" ELSE "abandoned"
    /\ UNCHANGED <<now, offset, stepped, pinned, startedAt, mark, begun, deadline,
                   results, duration>>

\* The clock, the driver, the oracle or the coverage backend fails, or an
\* observation is not one of this attempt: an error without evidence.
Abandon ==
    /\ pc \in {"starting", "executing", "measuring"}
    /\ pc' = "abandoned"
    /\ UNCHANGED <<now, offset, stepped, pinned, measures, begun, deadline, results>>

MeasureDuration ==
    /\ pc = "timing"
    /\ duration' = Elapsed
    /\ pc' = IF Elapsed > MaxWorkerDuration THEN "abandoned" ELSE "completing"
    /\ UNCHANGED <<now, offset, stepped, pinned, startedAt, mark, begun, deadline,
                   results, covered>>

-------------------------------------------------------------------------------
(* evaluate_protocol_fuzzing *)

\* Fault: the start and end of a second are taken to be the same instant.
WholeSeconds(from, to) == duration <= (to - from) * Second

\* The duration fits between two readings of a clock that shows seconds.
TimingConsistent(from, to) == duration <= (to - from) * Second + (Second - 1)

\* validate_fuzz_report and validate_report_corpus.
ReportConsistent(completedAt) ==
    /\ duration <= MaxWorkerDuration
    /\ TimingConsistent(startedAt, completedAt)
    /\ counters["total"] = counters["valid"] + counters["malformed"]
    /\ counters["validAccepted"] <= counters["valid"]
    /\ counters["malformedRejected"] <= counters["malformed"]
    /\ \A f \in Findings : safety[f] <= counters["total"]
    /\ counters["valid"] <= Planned("valid")
    /\ counters["malformed"] <= Planned("malformed")

\* Fault: time is not part of the verdict.
AnyDuration == TRUE

WithinDuration == duration <= MaxDuration

MeetsPolicy ==
    /\ counters["total"] >= MinExecutions
    /\ counters["valid"] >= MinValid
    /\ counters["malformed"] >= MinMalformed
    /\ covered
    /\ WithinDuration
    /\ counters["validAccepted"] = counters["valid"]
    /\ counters["malformedRejected"] = counters["malformed"]
    /\ \A f \in Findings : safety[f] = 0

\* completed_at_unix is read, and the report evaluated.
Complete ==
    /\ pc = "completing"
    /\ pc' = IF Unix < startedAt THEN "abandoned"
             ELSE IF ~ReportConsistent(Unix) THEN "refused"
             ELSE IF MeetsPolicy THEN "passed" ELSE "failed"
    /\ UNCHANGED <<now, offset, stepped, pinned, measures, begun, deadline, results>>

Worker ==
    \/ ReadWallClock \/ Mark \/ BeginExecution \/ EndLoop \/ FinishExecution
    \/ MeasureCoverage \/ Abandon \/ MeasureDuration \/ Complete

-------------------------------------------------------------------------------
(* The world around the worker *)

Finished == pc \in {"passed", "failed", "refused", "abandoned"}

Tick ==
    /\ now < MaxTime /\ ~Finished
    /\ now' = now + 1
    /\ UNCHANGED <<pc, offset, stepped, pinned, measures, begun, deadline, results>>

\* The wall clock is set, once.
StepWallClock ==
    /\ ~stepped /\ ~Finished
    /\ offset' \in {offset - Second, offset + Second}
    /\ stepped' = TRUE
    /\ UNCHANGED <<pc, now, pinned, measures, begun, deadline, results>>

\* The sandbox no longer is, and never again will be, what it was when the
\* adapter was made.
DriftProfile ==
    /\ pinned /\ pc \in {"starting", "marking", "looping", "executing", "measuring"}
    /\ pinned' = FALSE
    /\ UNCHANGED <<pc, now, offset, stepped, measures, begun, deadline, results>>

Next ==
    \/ Worker \/ Tick \/ StepWallClock \/ DriftProfile
    \/ Finished /\ UNCHANGED campaignVars

Spec == Init /\ [][Next]_campaignVars

-------------------------------------------------------------------------------
(* The inductive invariant behind the properties *)

Places == {"starting", "marking", "looping", "executing", "measuring", "timing",
           "completing", "passed", "failed", "refused", "abandoned"}

TypeOK ==
    /\ pc \in Places /\ pinned \in BOOLEAN /\ covered \in BOOLEAN
    /\ now \in Nat /\ mark \in 0 .. now /\ begun \in Nat /\ deadline \in Nat
    /\ counters \in [Counters -> Nat] /\ safety \in [Findings -> Nat]
    /\ duration \in Nat /\ flawed \in Nat

\* Whatever was wrong with an execution is in some counter.
AllRight ==
    /\ counters["validAccepted"] = counters["valid"]
    /\ counters["malformedRejected"] = counters["malformed"]
    /\ \A f \in Findings : safety[f] = 0

CountsInv ==
    /\ counters["validAccepted"] <= counters["valid"]
    /\ counters["malformedRejected"] <= counters["malformed"]
    /\ AllRight => flawed = 0

\* Where a loop that ended early was stopped: by a process that stays, or by time.
StopInv ==
    /\ safety["unreaped"] > 0 => pc \notin {"starting", "marking", "looping", "executing"}
    /\ safety["unreaped"] = 0 /\ counters["total"] < PlannedTotal =>
           /\ pc \in {"measuring", "timing"} => Elapsed >= MaxDuration
           /\ pc \in {"completing", "passed"} => duration >= MaxDuration

\* What has a verdict was measured under the profile of the start.
VerdictInv ==
    /\ pc \in {"timing", "completing", "passed", "failed", "refused"} => pinned
    /\ pc = "passed" => MeetsPolicy

CampaignIInv == TypeOK /\ CountsInv /\ StopInv /\ VerdictInv

\* The cases of a class among the first of the corpus.
CasesUpTo(class, n) == Cardinality({c \in 1 .. n : Corpus[c] = class})

\* Each class has been executed as often as the loops have come by it: once for every
\* repetition done, and for the cases done of the one under way.
SharesInv ==
    LET total == counters["total"] IN
    /\ total = counters["valid"] + counters["malformed"]
    /\ total <= PlannedTotal /\ (pc = "executing" => total < PlannedTotal)
    /\ \A class \in Classes :
           counters[class] = (total \div Len(Corpus)) * CasesUpTo(class, Len(Corpus))
                                 + CasesUpTo(class, total % Len(Corpus))
    /\ \A f \in Findings : safety[f] <= total

\* The wall clock, left alone, shows a start that is not after the mark, and the duration
\* was over when the clock is read again.
ClocksInv ==
    /\ offset \in Int /\ startedAt \in Int /\ stepped \in BOOLEAN
    /\ ~stepped /\ pc = "marking" => startedAt * Second <= now + offset
    /\ ~stepped /\ pc \in {"looping", "executing", "measuring", "timing", "completing"}
           => startedAt * Second <= mark + offset
    /\ pc = "completing" => duration <= MaxWorkerDuration /\ duration <= Elapsed
    /\ pc = "refused" => stepped

ReportIInv == SharesInv /\ ClocksInv

-------------------------------------------------------------------------------
(* Properties *)

\* Evidence that passes was earned: no execution behind it crashed, was
\* killed, exceeded a limit, answered wrongly, or was left unreaped.
PassIsEarned == pc = "passed" => flawed = 0 /\ covered

\* A campaign that stopped before the end of its plan never passes, but for
\* one whose last clock readings fall on the very millisecond of its deadline.
ShortCampaignFails ==
    pc = "passed" /\ counters["total"] < PlannedTotal => duration = MaxDuration

\* A worker whose wall clock was left alone never builds a report that the
\* evaluator refuses as inconsistent, wherever in a second it began.
HonestReportIsEvaluated == pc = "refused" => stepped

\* A profile that drifts at any time until the coverage is measured, also
\* while an execution runs, leaves no evidence.
DriftLeavesNoEvidence == pc \in {"passed", "failed"} => pinned

\* Once a process could not be reaped no further execution begins.
NoExecutionAfterUnreaped ==
    [][safety["unreaped"] > 0 => pc' # "executing"]_campaignVars
===============================================================================
