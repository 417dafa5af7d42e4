SPECIFICATION Spec
CONSTANTS
    a1 = a1
    a2 = a2
    t1 = t1
    t2 = t2
    t3 = t3
    t4 = t4
    h1 = h1
    h2 = h2
    Accounts = {a1, a2}
    NoAccount = NoAccount
    Tokens = {t1, t2, t3, t4}
    NoToken = NoToken
    Handlers = {h1, h2}
SYMMETRY SessionSymmetry
INVARIANTS
    TypeOK
    ExchangedOnce
    OneLivePerSession
PROPERTIES
    RevokedForGood
