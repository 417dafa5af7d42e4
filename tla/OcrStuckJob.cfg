SPECIFICATION FairSpec
CONSTANTS
    i1 = i1
    j1 = j1
    Instances = {i1}
    NoInstance = NoInstance
    Jobs = {j1}
    NoJob = NoJob
    PageCount <- TwoPages
    Reconcilers = {i1}
    Deletable = {j1}
    MaxAttempts = 2
    MaxCrashes = 0
    MaxLapses = 0
    MaxLosses = 0
    MaxFaults = 0
    MkdtempMayFail = TRUE
PROPERTIES
    EveryJobEnds
