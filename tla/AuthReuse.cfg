SPECIFICATION Spec
CONSTANTS
    a1 = a1
    t1 = t1
    t2 = t2
    t3 = t3
    h1 = h1
    h2 = h2
    Accounts = {a1}
    NoAccount = NoAccount
    Tokens = {t1, t2, t3}
    NoToken = NoToken
    Handlers = {h1, h2}
PROPERTIES
    ReuseEndsSessions
