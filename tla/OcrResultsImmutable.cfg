SPECIFICATION Spec
CONSTANTS
    i1 = i1
    i2 = i2
    j1 = j1
    Instances = {i1, i2}
    NoInstance = NoInstance
    Jobs = {j1}
    NoJob = NoJob
    PageCount <- TwoPages
    Reconcilers = {i1}
    Deletable = {}
    MaxAttempts = 2
    MaxCrashes = 0
    MaxLapses = 2
    MaxLosses = 0
    MaxFaults = 0
    MkdtempMayFail = FALSE
PROPERTY
    ResultsImmutable
