SPECIFICATION Spec
CONSTANT
    MaxChanges = 1
    MaxReruns = 1
    MaxFailed = 1
    MaxBytes = 5
INVARIANTS
    PassIsEarned
    SignedIsEarned
    UndisturbedJobReports
    
CHECK_DEADLOCK FALSE
