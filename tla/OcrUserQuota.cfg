SPECIFICATION Spec
CONSTANTS
    d1 = d1
    d2 = d2
    u1 = u1
    l1 = l1
    h1 = h1
    h2 = h2
    Docs = {d1, d2}
    Users = {u1}
    OwnerOf <- OneOwner
    Langs = {l1}
    Handlers = {h1, h2}
    NoHandler = NoHandler
    NoDoc = NoDoc
    NoLang = NoLang
    MaxActiveJobsPerUser = 1
    MaxJobsPerDocument = 2
INVARIANT UserQuota
