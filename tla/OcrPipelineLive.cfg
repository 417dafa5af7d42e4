SPECIFICATION FairSpec
CONSTANTS
    i1 = i1
    j1 = j1
    Instances = {i1}
    NoInstance = NoInstance
    Jobs = {j1}
    NoJob = NoJob
    PageCount <- OnePage
    Reconcilers = {i1}
    Deletable = {}
    MaxAttempts = 2
    MaxCrashes = 1
    MaxLapses = 1
    MaxLosses = 1
    MaxFaults = 1
    MkdtempMayFail = FALSE
PROPERTIES
    EveryJobEnds
    QueueDrains
