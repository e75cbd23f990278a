SPECIFICATION Spec
CONSTANT
    MaxChanges = 0
    MaxReruns = 0
    MaxFailed = 0
    MaxBytes = 5
INVARIANT
    TwentyPercentIsEnough
CHECK_DEADLOCK FALSE
