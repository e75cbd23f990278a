SPECIFICATION FairDriverSpec
CONSTANTS
    MaxFailures = 1
    Platforms = {"linux", "macos", "windows"}
    MaxOutput = 2
INVARIANTS
    DriverIInv
    AttemptRemovesItsFiles
    ExitedMeansExecuted
    OwnEndIsOwn
    TruncationIsReported
    ReportedForTheRightFile
PROPERTIES
    OthersUntouched
    ImplementsContract
    EveryCallReturns
