SPECIFICATION Spec
CONSTANTS
    Corpus <- AlternatingCorpus
    Repetitions = 2
    MaxExecution = 2
    MaxDuration = 3
    MaxWorkerDuration = 4
    MinExecutions = 2
    MinValid = 1
    MinMalformed = 1
    Second = 2
    MaxTime = 5
    MaxMarks = 1
    MaxFlawed = 1
INVARIANTS
    PassIsEarned
    ShortCampaignFails
    HonestReportIsEvaluated
    DriftLeavesNoEvidence
PROPERTIES
    NoExecutionAfterUnreaped
