SPECIFICATION Spec
CONSTANTS
    i1 = i1
    i2 = i2
    j1 = j1
    Instances = {i1, i2}
    NoInstance = NoInstance
    Jobs = {j1}
    NoJob = NoJob
    PageCount <- TwoPages
    Reconcilers = {i1}
    Deletable = {j1}
    MaxAttempts = 2
    MaxCrashes = 1
    MaxLapses = 2
    MaxLosses = 1
    MaxFaults = 0
    MkdtempMayFail = TRUE
CONSTRAINT FewFaults
INVARIANTS
    TypeOK
    PagesContiguous
    ResultsComplete
    FailureExplained
    SingleWorker
    CountersMatchPages
PROPERTIES
    TerminalRowFrozen
    AttemptsUsedUp
    PagesWrittenOnce
    ProgressNeverFalls
    ImplementsLifecycle
