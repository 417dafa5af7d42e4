------------------------ MODULE AuthSessionsProofs --------------------------
(***************************************************************************)
(* Sessions for every number of accounts, tokens and concurrent requests.  *)
(* The safety properties are not inductive by themselves: what a request   *)
(* has read (WorkTyped) and that only revoked tokens have successors       *)
(* (OneLivePerSession) are needed together.                                *)
(***************************************************************************)
EXTENDS AuthSessions, TLAPS

\* What a request in progress carries: an account that can be given a token,
\* a token that has been issued.
WorkTyped ==
    \A h \in Handlers :
        /\ handlers[h].pc # "idle" => handlers[h].account \in Accounts
        /\ handlers[h].pc \notin {"idle", "create"} => users[handlers[h].account] # "none"
        /\ handlers[h].pc \in {"revoke", "rotate", "reuse", "revokeAll"} =>
              handlers[h].token \in Tokens
        /\ handlers[h].pc \in {"revoke", "rotate"} => tokens[handlers[h].token].state # "unused"

\* A token that was never issued has no successor.
SuccessorsOfIssued ==
    \A t \in Tokens : tokens[t].prev # NoToken =>
        /\ tokens[t].state # "unused"
        /\ tokens[tokens[t].prev].state # "unused"

Inv ==
    /\ TypeOK
    /\ WorkTyped
    /\ SuccessorsOfIssued
    /\ ExchangedOnce
    /\ OneLivePerSession

\* What every step may do to the rows of refresh_tokens: keep them, revoke
\* some, let some expire, or issue one, to a user, in exchange for a live one
\* or for none.
Kept(row, new) ==
    /\ new.state = row.state \/ (row.state = "live" /\ new.state = "revoked")
    /\ new.owner = row.owner
    /\ new.prev = row.prev

RowsKept == \A t \in Tokens : Kept(tokens[t], tokens'[t])

Issued(new, a, old) ==
    /\ tokens[new].state = "unused"
    /\ tokens'[new] = NewToken(a, old)
    /\ a \in Accounts /\ users'[a] # "none"
    /\ \A t \in Tokens \ {new} : Kept(tokens[t], tokens'[t])
    /\ old # NoToken =>
          old \in Tokens /\ tokens[old].state = "live" /\ tokens'[old].state = "revoked"

RowsStep ==
    \/ RowsKept
    \/ \E new \in Tokens, a \in Accounts, old \in Tokens \union {NoToken} : Issued(new, a, old)

\* The start of the induction: nothing is stored and nobody works.
LEMMA InitInv == Init => Inv
BY AuthAssumption DEF Init, Inv, TypeOK, WorkTyped, SuccessorsOfIssued, ExchangedOnce,
    OneLivePerSession, Token, Handler, NoRow, IdleHandler

\* A request is given a new record: the others keep theirs.
LEMMA SetHandlerFrame ==
    ASSUME handlers \in [Handlers -> Handler], NEW h \in Handlers, NEW r \in Handler,
           SetHandler(h, r)
    PROVE  /\ handlers' \in [Handlers -> Handler]
           /\ handlers'[h] = r
           /\ \A k \in Handlers \ {h} : handlers'[k] = handlers[k]
BY DEF SetHandler

\* An idle request is a request.
LEMMA IdleTyped == IdleHandler \in Handler
BY DEF IdleHandler, Handler

\* A new token is a row.
LEMMA NewTokenTyped ==
    ASSUME NEW a \in Accounts, NEW old \in Tokens \union {NoToken}
    PROVE  /\ NewToken(a, old) \in Token
           /\ NewToken(a, old).state = "live"
           /\ NewToken(a, old).owner = a
           /\ NewToken(a, old).prev = old
BY DEF NewToken, Token

\* The conditional update keeps a row or revokes it.
LEMMA RevokedKeeps ==
    ASSUME NEW row \in Token
    PROVE  /\ Revoked(row) \in Token
           /\ Kept(row, Revoked(row))
           /\ Revoked(row).state # "live"
BY DEF Revoked, Token, Kept

\* Rows that change as RowsStep says keep their type, once they are rows.
LEMMA RowsInv ==
    ASSUME Inv, RowsStep, tokens' \in [Tokens -> Token],
           \A a \in Accounts : users[a] # "none" => users'[a] # "none"
    PROVE  /\ \A t \in Tokens : tokens'[t].state # "unused" =>
                  tokens'[t].owner \in Accounts /\ users'[tokens'[t].owner] # "none"
           /\ \A t \in Tokens : tokens[t].state # "unused" => tokens'[t].state # "unused"
           /\ SuccessorsOfIssued' /\ ExchangedOnce' /\ OneLivePerSession'
<1> USE AuthAssumption
<1>0. \A t \in Tokens : tokens[t] \in Token /\ tokens'[t] \in Token
  BY DEF Inv, TypeOK
<1>1. CASE RowsKept
  <2>1. \A t \in Tokens : Kept(tokens[t], tokens'[t])
    BY <1>1 DEF RowsKept
  <2>2. \A t \in Tokens : /\ tokens'[t].owner = tokens[t].owner
                          /\ tokens'[t].prev = tokens[t].prev
                          /\ tokens'[t].state = "unused" <=> tokens[t].state = "unused"
                          /\ tokens[t].state = "revoked" => tokens'[t].state = "revoked"
    BY <2>1, <1>0 DEF Kept, Token
  <2>3. \A t \in Tokens : tokens[t].prev \in Tokens \union {NoToken}
    BY <1>0 DEF Token
  <2>4. QED
    BY <2>2, <2>3 DEF Inv, TypeOK, SuccessorsOfIssued, ExchangedOnce, OneLivePerSession
<1>2. CASE \E new \in Tokens, a \in Accounts, old \in Tokens \union {NoToken} : Issued(new, a, old)
  <2>1. PICK new \in Tokens, a \in Accounts, old \in Tokens \union {NoToken} : Issued(new, a, old)
    BY <1>2
  <2>2. /\ tokens[new].state = "unused"
        /\ tokens'[new].state = "live"
        /\ tokens'[new].owner = a
        /\ tokens'[new].prev = old
        /\ users'[a] # "none"
    BY <2>1, NewTokenTyped DEF Issued
  <2>3. \A t \in Tokens \ {new} :
            /\ tokens'[t].owner = tokens[t].owner
            /\ tokens'[t].prev = tokens[t].prev
            /\ tokens'[t].state = "unused" <=> tokens[t].state = "unused"
            /\ tokens[t].state = "revoked" => tokens'[t].state = "revoked"
    BY <2>1, <1>0 DEF Issued, Kept, Token
  <2>4. old # NoToken => old \in Tokens /\ tokens[old].state = "live" /\ tokens'[old].state = "revoked"
    BY <2>1 DEF Issued
  <2>5. \A t \in Tokens : tokens[t].prev \in Tokens \union {NoToken}
    BY <1>0 DEF Token
  \* The new row has no successor, and the old one had none before.
  <2>6. \A t \in Tokens : tokens[t].prev # new \/ new = NoToken
    BY <2>2, <2>5 DEF Inv, SuccessorsOfIssued
  <2>7. old # NoToken => \A t \in Tokens : tokens[t].prev # old
    BY <2>4 DEF Inv, OneLivePerSession
  <2>8. SuccessorsOfIssued'
    BY <2>2, <2>3, <2>4, <2>5, <2>6 DEF Inv, SuccessorsOfIssued
  <2>9. ExchangedOnce'
    BY <2>2, <2>3, <2>7 DEF Inv, ExchangedOnce
  <2>10. OneLivePerSession'
    BY <2>2, <2>3, <2>4, <2>5, <2>6 DEF Inv, OneLivePerSession
  <2>11. QED
    BY <2>2, <2>3, <2>8, <2>9, <2>10 DEF Inv, TypeOK
<1>3. QED
  BY <1>1, <1>2 DEF RowsStep

\* A record that meets WorkTyped, in the rows of the next state.
WorkOk(r) ==
    /\ r \in Handler
    /\ r.pc # "idle" => r.account \in Accounts
    /\ r.pc \notin {"idle", "create"} => users[r.account] # "none"
    /\ r.pc \in {"revoke", "rotate", "reuse", "revokeAll"} => r.token \in Tokens
    /\ r.pc \in {"revoke", "rotate"} => tokens[r.token].state # "unused"

\* A step that changes the rows as RowsStep says and gives one request a new
\* record keeps the invariant.
LEMMA StepInv ==
    ASSUME Inv, RowsStep, tokens' \in [Tokens -> Token],
           users' \in [Accounts -> {"none", "ACTIVE", "INACTIVE"}],
           \A a \in Accounts : users[a] # "none" => users'[a] # "none",
           \/ UNCHANGED handlers
           \/ \E h \in Handlers : \E r \in Handler : SetHandler(h, r) /\ (WorkOk(r))'
    PROVE  Inv'
<1>1. /\ \A t \in Tokens : tokens'[t].state # "unused" =>
               tokens'[t].owner \in Accounts /\ users'[tokens'[t].owner] # "none"
      /\ \A t \in Tokens : tokens[t].state # "unused" => tokens'[t].state # "unused"
      /\ SuccessorsOfIssued' /\ ExchangedOnce' /\ OneLivePerSession'
  BY RowsInv
<1>2. handlers' \in [Handlers -> Handler] /\ WorkTyped'
  <2>1. CASE UNCHANGED handlers
    BY <2>1, <1>1 DEF Inv, TypeOK, WorkTyped, Handler
  <2>2. CASE \E h \in Handlers : \E r \in Handler : SetHandler(h, r) /\ (WorkOk(r))'
    <3>1. PICK h \in Handlers : \E r \in Handler : SetHandler(h, r) /\ (WorkOk(r))'
      BY <2>2
    <3>2. PICK r \in Handler : SetHandler(h, r) /\ (WorkOk(r))'
      BY <3>1
    <3>3. /\ handlers' \in [Handlers -> Handler]
          /\ handlers'[h] = r
          /\ \A k \in Handlers \ {h} : handlers'[k] = handlers[k]
      BY <3>2, SetHandlerFrame DEF Inv, TypeOK
    <3>4. QED
      BY <3>2, <3>3, <1>1 DEF Inv, TypeOK, WorkTyped, WorkOk, Handler
  <2>3. QED
    BY <2>1, <2>2
<1>3. QED
  BY <1>1, <1>2 DEF Inv, TypeOK

\* Steps that leave the rows alone are steps of the rows.
LEMMA UnchangedRows ==
    ASSUME Inv, UNCHANGED <<users, tokens>>
    PROVE  /\ RowsStep
           /\ tokens' \in [Tokens -> Token]
           /\ users' \in [Accounts -> {"none", "ACTIVE", "INACTIVE"}]
           /\ \A a \in Accounts : users[a] # "none" => users'[a] # "none"
BY DEF Inv, TypeOK, RowsStep, RowsKept, Kept

\* What StepInv asks of the rows and the users, for every action.
LEMMA NextRows ==
    ASSUME Inv, Next
    PROVE  /\ RowsStep
           /\ tokens' \in [Tokens -> Token]
           /\ users' \in [Accounts -> {"none", "ACTIVE", "INACTIVE"}]
           /\ \A a \in Accounts : users[a] # "none" => users'[a] # "none"
<1> DEFINE Goal == /\ RowsStep
                   /\ tokens' \in [Tokens -> Token]
                   /\ users' \in [Accounts -> {"none", "ACTIVE", "INACTIVE"}]
                   /\ \A a \in Accounts : users[a] # "none" => users'[a] # "none"
<1>0. /\ users \in [Accounts -> {"none", "ACTIVE", "INACTIVE"}]
      /\ tokens \in [Tokens -> Token]
      /\ \A t \in Tokens : tokens[t] \in Token
      /\ \A h \in Handlers : handlers[h] \in Handler
  BY DEF Inv, TypeOK
<1>1. ASSUME NEW h \in Handlers, NEW t \in Tokens, CreateUser(h, t) PROVE Goal
  <2>1. handlers[h].account \in Accounts
    BY <1>1 DEF Inv, WorkTyped, CreateUser
  <2>2. CASE users[handlers[h].account] = "none"
    <3>1. /\ users' = [users EXCEPT ![handlers[h].account] = "ACTIVE"]
          /\ tokens' = [tokens EXCEPT ![t] = NewToken(handlers[h].account, NoToken)]
          /\ tokens[t].state = "unused"
      BY <1>1, <2>2 DEF CreateUser
    <3>2. Issued(t, handlers[h].account, NoToken)
      BY <3>1, <2>1, <1>0 DEF Issued, Kept
    <3>3. tokens' \in [Tokens -> Token]
      BY <3>1, <2>1, <1>0, NewTokenTyped
    <3>4. QED
      BY <3>1, <3>2, <3>3, <2>1, <1>0 DEF RowsStep
  <2>3. CASE users[handlers[h].account] # "none"
    <3>1. UNCHANGED <<users, tokens>>
      BY <1>1, <2>3 DEF CreateUser
    <3>2. QED
      BY <3>1, UnchangedRows
  <2>4. QED
    BY <2>2, <2>3
<1>2. ASSUME NEW h \in Handlers, NEW t \in Tokens, IssueToken(h, t) PROVE Goal
  <2>1. /\ handlers[h].account \in Accounts /\ users[handlers[h].account] # "none"
        /\ UNCHANGED users
        /\ tokens' = [tokens EXCEPT ![t] = NewToken(handlers[h].account, NoToken)]
        /\ tokens[t].state = "unused"
    BY <1>2 DEF Inv, WorkTyped, IssueToken
  <2>2. Issued(t, handlers[h].account, NoToken)
    BY <2>1, <1>0 DEF Issued, Kept
  <2>3. tokens' \in [Tokens -> Token]
    BY <2>1, <1>0, NewTokenTyped
  <2>4. QED
    BY <2>1, <2>2, <2>3, <1>0 DEF RowsStep
<1>3. ASSUME NEW h \in Handlers, RevokeToken(h) PROVE Goal
  <2>1. /\ handlers[h].token \in Tokens
        /\ UNCHANGED users
        /\ tokens' = [tokens EXCEPT ![handlers[h].token] = Revoked(tokens[handlers[h].token])]
    BY <1>3 DEF Inv, WorkTyped, RevokeToken
  <2>2. tokens' \in [Tokens -> Token] /\ RowsKept
    BY <2>1, <1>0, RevokedKeeps DEF RowsKept, Kept
  <2>3. QED
    BY <2>1, <2>2, <1>0 DEF RowsStep
<1>4. ASSUME NEW h \in Handlers, NEW new \in Tokens, Rotate(h, new) PROVE Goal
  <2> DEFINE t == handlers[h].token
             a == handlers[h].account
  <2>1. t \in Tokens /\ a \in Accounts /\ users[a] # "none" /\ UNCHANGED users
    BY <1>4 DEF Inv, WorkTyped, Rotate
  <2>2. CASE tokens[t].state = "live"
    <3>1. /\ tokens' = [tokens EXCEPT ![t] = Revoked(tokens[t]), ![new] = NewToken(a, t)]
          /\ tokens[new].state = "unused"
      BY <1>4, <2>2 DEF Rotate
    <3>2. tokens' \in [Tokens -> Token]
      BY <3>1, <2>1, <1>0, NewTokenTyped, RevokedKeeps
    <3>3. t # new
      BY <3>1, <2>2
    <3>4. /\ tokens'[t] = Revoked(tokens[t])
          /\ tokens'[new] = NewToken(a, t)
          /\ \A u \in Tokens \ {t, new} : tokens'[u] = tokens[u]
      BY <3>1, <3>3, <2>1, <1>0
    <3>5. Kept(tokens[t], tokens'[t]) /\ tokens'[t].state = "revoked"
      BY <3>4, <2>1, <2>2, <1>0, RevokedKeeps DEF Kept
    <3>6. \A u \in Tokens \ {new} : Kept(tokens[u], tokens'[u])
      BY <3>4, <3>5 DEF Kept
    <3>7. Issued(new, a, t)
      BY <3>1, <3>4, <3>5, <3>6, <2>1, <2>2 DEF Issued
    <3>8. QED
      BY <3>2, <3>7, <2>1, <1>0 DEF RowsStep
  <2>3. CASE tokens[t].state # "live"
    <3>1. UNCHANGED <<users, tokens>>
      BY <1>4, <2>3 DEF Rotate
    <3>2. QED
      BY <3>1, UnchangedRows
  <2>4. QED
    BY <2>2, <2>3
<1>5. ASSUME NEW h \in Handlers, RevokeSessions(h) PROVE Goal
  <2>1. /\ UNCHANGED users
        /\ tokens' = [t \in Tokens |-> IF t \in handlers[h].scan THEN Revoked(tokens[t])
                                                                 ELSE tokens[t]]
    BY <1>5 DEF RevokeSessions
  <2>2. tokens' \in [Tokens -> Token] /\ RowsKept
    BY <2>1, <1>0, RevokedKeeps DEF RowsKept, Kept
  <2>3. QED
    BY <2>1, <2>2, <1>0 DEF RowsStep
<1>6. ASSUME NEW t \in Tokens, TokenExpires(t) PROVE Goal
  <2>1. UNCHANGED users /\ tokens' = [tokens EXCEPT ![t].expired = TRUE]
    BY <1>6 DEF TokenExpires
  <2>2. tokens' \in [Tokens -> Token] /\ RowsKept
    BY <2>1, <1>0 DEF RowsKept, Kept, Token
  <2>3. QED
    BY <2>1, <2>2, <1>0 DEF RowsStep
<1>7. ASSUME NEW a \in Accounts, Deactivate(a) PROVE Goal
  BY <1>7, <1>0 DEF Deactivate, RowsStep, RowsKept, Kept
<1>8. ASSUME NEW h \in Handlers,
             \/ \E a \in Accounts : BeginRegister(h, a) \/ BeginLogin(h, a)
             \/ \E t \in Tokens : BeginRefresh(h, t) \/ BeginLogout(h, t)
             \/ Reject(h) \/ ScanSessions(h) \/ Abort(h)
      PROVE  Goal
  <2>1. UNCHANGED <<users, tokens>>
    BY <1>8 DEF BeginRegister, BeginLogin, BeginRefresh, BeginLogout, Reject, ScanSessions,
        Abort, vars
  <2>2. QED
    BY <2>1, UnchangedRows
<1>9. QED
  BY <1>1, <1>2, <1>3, <1>4, <1>5, <1>6, <1>7, <1>8 DEF Next

\* What StepInv asks of the requests: every action gives at most one request a
\* new record, which it may have in the next state.
LEMMA NextWork ==
    ASSUME Inv, Next
    PROVE  \/ UNCHANGED handlers
           \/ \E h \in Handlers : \E r \in Handler : SetHandler(h, r) /\ (WorkOk(r))'
<1> DEFINE Goal == \/ UNCHANGED handlers
                   \/ \E h \in Handlers : \E r \in Handler : SetHandler(h, r) /\ (WorkOk(r))'
<1>0. /\ users \in [Accounts -> {"none", "ACTIVE", "INACTIVE"}]
      /\ \A t \in Tokens : tokens[t] \in Token
      /\ \A h \in Handlers : handlers[h] \in Handler
      /\ \A t \in Tokens : tokens[t].state # "unused" =>
            tokens[t].owner \in Accounts /\ users[tokens[t].owner] # "none"
  BY DEF Inv, TypeOK
<1>1. ASSUME NEW h \in Handlers, SetHandler(h, IdleHandler) PROVE Goal
  <2>1. (WorkOk(IdleHandler))'
    BY IdleTyped DEF WorkOk, IdleHandler
  <2>2. QED
    BY <1>1, <2>1, IdleTyped
<1>2. ASSUME NEW h \in Handlers, NEW a \in Accounts, BeginRegister(h, a) \/ BeginLogin(h, a)
      PROVE  Goal
  <2>1. PICK pc \in {"create", "issue"} :
            /\ SetHandler(h, [IdleHandler EXCEPT !.pc = pc, !.account = a])
            /\ pc = "issue" => users[a] # "none"
    BY <1>2 DEF BeginRegister, BeginLogin
  <2>2. PICK r : r = [IdleHandler EXCEPT !.pc = pc, !.account = a]
    OBVIOUS
  <2>3. r = [pc |-> pc, account |-> a, token |-> NoToken, scan |-> {}]
    BY <2>2 DEF IdleHandler
  <2>4. r \in Handler /\ r.pc = pc /\ r.account = a
    BY <2>3 DEF Handler
  <2>5. UNCHANGED <<users, tokens>>
    BY <1>2 DEF BeginRegister, BeginLogin
  <2>6. (WorkOk(r))'
    BY <2>1, <2>4, <2>5 DEF WorkOk
  <2>7. QED
    BY <2>1, <2>2, <2>4, <2>6
<1>3. ASSUME NEW h \in Handlers, NEW t \in Tokens, BeginRefresh(h, t) \/ BeginLogout(h, t)
      PROVE  Goal
  <2>1. PICK pc \in {"reuse", "revoke", "rotate"} :
            SetHandler(h, [IdleHandler EXCEPT !.token = t, !.account = tokens[t].owner, !.pc = pc])
    <3>1. CASE BeginRefresh(h, t)
      BY <3>1 DEF BeginRefresh
    <3>2. CASE BeginLogout(h, t)
      <4>1. [IdleHandler EXCEPT !.pc = "revoke", !.token = t, !.account = tokens[t].owner]
            = [IdleHandler EXCEPT !.token = t, !.account = tokens[t].owner, !.pc = "revoke"]
        BY DEF IdleHandler
      <4>2. QED
        BY <3>2, <4>1 DEF BeginLogout
    <3>3. QED
      BY <1>3, <3>1, <3>2
  <2>2. PICK r : r = [IdleHandler EXCEPT !.token = t, !.account = tokens[t].owner, !.pc = pc]
    OBVIOUS
  <2>3. r = [pc |-> pc, account |-> tokens[t].owner, token |-> t, scan |-> {}]
    BY <2>2 DEF IdleHandler
  <2>4. /\ tokens[t].state # "unused"
        /\ tokens[t].owner \in Accounts /\ users[tokens[t].owner] # "none"
    BY <1>3, <1>0 DEF BeginRefresh, BeginLogout
  <2>5. r \in Handler /\ r.pc = pc /\ r.account = tokens[t].owner /\ r.token = t
    BY <2>3, <2>4 DEF Handler
  <2>6. UNCHANGED <<users, tokens>>
    BY <1>3 DEF BeginRefresh, BeginLogout
  <2>7. (WorkOk(r))'
    BY <2>4, <2>5, <2>6 DEF WorkOk
  <2>8. QED
    BY <2>1, <2>2, <2>5, <2>7
<1>4. ASSUME NEW h \in Handlers, NEW r, r \in Handler, SetHandler(h, r),
             r.pc \in {"reuse", "revokeAll"},
             handlers[h].pc \in {"rotate", "reuse"},
             r.account = handlers[h].account, r.token = handlers[h].token,
             UNCHANGED users
      PROVE  Goal
  <2>1. /\ handlers[h].account \in Accounts /\ users[handlers[h].account] # "none"
        /\ handlers[h].token \in Tokens
    BY <1>4 DEF Inv, WorkTyped
  <2>2. (WorkOk(r))'
    BY <1>4, <2>1 DEF WorkOk
  <2>3. QED
    BY <1>4, <2>2
<1>5. ASSUME NEW h \in Handlers, NEW t \in Tokens, Rotate(h, t) PROVE Goal
  <2>1. CASE SetHandler(h, IdleHandler)
    BY <2>1, <1>1
  <2>2. CASE SetHandler(h, [handlers[h] EXCEPT !.pc = "reuse"])
    <3>1. PICK r : r = [handlers[h] EXCEPT !.pc = "reuse"]
      OBVIOUS
    <3>2. /\ r \in Handler /\ r.pc = "reuse"
          /\ r.account = handlers[h].account /\ r.token = handlers[h].token
      BY <3>1, <1>0 DEF Handler
    <3>3. QED
      BY <2>2, <3>1, <3>2, <1>4, <1>5 DEF Rotate
  <2>3. QED
    BY <1>5, <2>1, <2>2 DEF Rotate
<1>6. ASSUME NEW h \in Handlers, ScanSessions(h) PROVE Goal
  <2>1. PICK s \in SUBSET Tokens :
            SetHandler(h, [handlers[h] EXCEPT !.pc = "revokeAll", !.scan = s])
    BY <1>6 DEF ScanSessions
  <2>2. PICK r : r = [handlers[h] EXCEPT !.pc = "revokeAll", !.scan = s]
    OBVIOUS
  <2>3. /\ r \in Handler /\ r.pc = "revokeAll"
        /\ r.account = handlers[h].account /\ r.token = handlers[h].token
    BY <2>2, <1>0 DEF Handler
  <2>4. QED
    BY <2>1, <2>2, <2>3, <1>4, <1>6 DEF ScanSessions
<1>7. ASSUME NEW h \in Handlers,
             \/ \E t \in Tokens : CreateUser(h, t) \/ IssueToken(h, t)
             \/ RevokeToken(h) \/ RevokeSessions(h) \/ Abort(h)
      PROVE  Goal
  <2>1. SetHandler(h, IdleHandler)
    BY <1>7 DEF CreateUser, IssueToken, RevokeToken, RevokeSessions, Abort
  <2>2. QED
    BY <2>1, <1>1
<1>8. ASSUME \/ \E h \in Handlers : Reject(h)
             \/ \E t \in Tokens : TokenExpires(t)
             \/ \E a \in Accounts : Deactivate(a)
      PROVE  Goal
  BY <1>8 DEF Reject, TokenExpires, Deactivate, vars
<1>9. QED
  BY <1>2, <1>3, <1>5, <1>6, <1>7, <1>8 DEF Next

\* The invariant holds in every state.
THEOREM SessionsInvariance == Spec => []Inv
<1>1. Init => Inv
  BY InitInv
<1>2. Inv /\ [Next]_vars => Inv'
  <2>1. ASSUME Inv, Next PROVE Inv'
    BY <2>1, NextRows, NextWork, StepInv
  <2>2. ASSUME Inv, UNCHANGED vars PROVE Inv'
    BY <2>2 DEF Inv, TypeOK, WorkTyped, SuccessorsOfIssued, ExchangedOnce, OneLivePerSession, vars
  <2>3. QED
    BY <2>1, <2>2
<1>3. QED
  BY <1>1, <1>2, PTL DEF Spec

\* The types of the session tables and of the requests of AuthService, for any
\* number of requests.
THEOREM SessionsTyped == Spec => []TypeOK
BY SessionsInvariance, PTL DEF Inv

\* However many requests present a token at the same time, refresh exchanges it
\* at most once.
THEOREM TokensExchangedOnce == Spec => []ExchangedOnce
BY SessionsInvariance, PTL DEF Inv

\* A token that refresh has exchanged is revoked, whatever logouts, reuse
\* detections and expiries run beside it.
THEOREM SessionsHaveOneLiveToken == Spec => []OneLivePerSession
BY SessionsInvariance, PTL DEF Inv

\* No request of AuthService revives a revoked token or moves one to another
\* account.
THEOREM RevocationIsFinal == Spec => RevokedForGood
<1>1. ASSUME Inv, [Next]_vars
      PROVE  [\A t \in Tokens :
                 /\ tokens[t].state = "revoked" => tokens'[t].state = "revoked"
                 /\ tokens[t].state # "unused" => tokens'[t].owner = tokens[t].owner]_vars
  <2>1. CASE Next
    <3>1. RowsStep
      BY <1>1, <2>1, NextRows
    <3>2. QED
      BY <3>1 DEF RowsStep, RowsKept, Issued, Kept
  <2>2. CASE UNCHANGED vars
    BY <2>2
  <2>3. QED
    BY <1>1, <2>1, <2>2
<1>2. QED
  BY <1>1, SessionsInvariance, PTL DEF Spec, RevokedForGood
=============================================================================
