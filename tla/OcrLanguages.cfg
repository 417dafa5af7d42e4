SPECIFICATION LFairSpec
CONSTANTS
    d1 = d1
    u1 = u1
    eng = eng
    fra = fra
    deu = deu
    h1 = h1
    h2 = h2
    Docs = {d1}
    Users = {u1}
    OwnerOf <- OneOwner
    Langs <- MCLangs
    Handlers = {h1, h2}
    NoHandler = NoHandler
    NoDoc = NoDoc
    NoLang = NoLang
    MaxActiveJobsPerUser = 2
    MaxJobsPerDocument = 2
    Inputs <- MCInputs
    DefaultLanguage <- MCDefault
    Configured = {eng, fra}
    MaxLanguagesPerJob = 2
    InstalledSets <- MCInstalled
INVARIANTS
    OnlyLatestActive
    DocumentQuota
    LanguagesTypeOK
    JobsCanonical
    JobsOffered
PROPERTIES
    CreationPolicy
    EveryRequestAnswered
    RefusalsEnd
