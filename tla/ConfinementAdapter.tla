--------------------------- MODULE ConfinementAdapter ---------------------------
(***************************************************************************)
(* NativeCertificationFuzzExecutor: how what a confinement driver observed *)
(* of one execution becomes safety findings and a disposition.  An         *)
(* observation is a record of termination, marks and duration: sizes are   *)
(* kept as the answer to the comparison the adapter makes of them.         *)
(***************************************************************************)
EXTENDS Naturals, FiniteSets

Classes == {"valid", "malformed"}
Dispositions == {"accepted", "rejected", "noDecision"}

\* The counters of CertificationFuzzSafetyObservations.
Findings == {"crash", "hang", "sanitizer", "memory", "stdout", "stderr",
             "deadline", "unreaped"}

\* exited stands for every exit code, crashed for a signal or an exception.
Terminations == {"exited", "crashed", "deadlineKilled", "memoryLimitKilled"}

\* What an observation may report beside its termination; overMemory is a
\* peak above the limit.
Marks == {"sanitizer", "overMemory", "stdoutLimit", "stdoutProtocol",
          "stderrLimit", "unreaped"}

\* CertificationProtocolAssessment, what the oracle says of an execution.
Assessments == [disposition : Dispositions, protocolBreak : BOOLEAN]
NotAsked == [disposition |-> "noDecision", protocolBreak |-> FALSE]

\* Fault: only what was killed for its deadline is late.
OnlyKilled(o, deadline) == o.termination = "deadlineKilled"

Late(o, deadline) == o.termination = "deadlineKilled" \/ o.duration > deadline

\* The flags of safety, before the oracle is asked.
NativeFindings(o, deadline) ==
    {f \in Findings :
        \/ f = "crash" /\ o.termination = "crashed"
        \/ f \in {"hang", "deadline"} /\ Late(o, deadline)
        \/ f = "sanitizer" /\ "sanitizer" \in o.marks
        \/ f = "memory" /\ (o.termination = "memoryLimitKilled" \/ "overMemory" \in o.marks)
        \/ f = "stdout" /\ o.marks \cap {"stdoutLimit", "stdoutProtocol"} # {}
        \/ f = "stderr" /\ "stderrLimit" \in o.marks
        \/ f = "unreaped" /\ "unreaped" \in o.marks}

\* The oracle judges only what has no finding of its own.
OracleMaySay(o, deadline) ==
    IF NativeFindings(o, deadline) = {} THEN Assessments ELSE {NotAsked}

Safety(o, deadline, assessment) ==
    NativeFindings(o, deadline) \union
        {f \in {"stdout"} : assessment.protocolBreak}

Disposition(found, assessment) ==
    IF found = {} THEN assessment.disposition ELSE "noDecision"
===============================================================================
