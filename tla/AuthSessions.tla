---------------------------- MODULE AuthSessions ----------------------------
(***************************************************************************)
(* Sessions (AuthService): registration, login, refresh with rotation and  *)
(* reuse detection, logout.  A session is a chain of refresh tokens: login *)
(* or registration issues the first one, every refresh revokes a token and *)
(* issues its successor.  Each query is a step of its own; the rotation is *)
(* one transaction, which takes effect when it commits.                    *)
(***************************************************************************)
EXTENDS Naturals, FiniteSets

CONSTANTS
    Accounts,       \* normalised email addresses
    NoAccount,
    Tokens,         \* refresh tokens the generator can return
    NoToken,
    Handlers        \* concurrent requests

ASSUME AuthAssumption == NoAccount \notin Accounts /\ NoToken \notin Tokens

VARIABLES
    users,      \* status of the user of each account
    tokens,     \* refresh_tokens
    handlers

vars == <<users, tokens, handlers>>

\* prev, the token a token was exchanged for, is not a column: it is what the
\* event REFRESH_TOKEN_ROTATED records.
Token ==
    [ state   : {"unused", "live", "revoked"},
      owner   : Accounts \union {NoAccount},
      expired : BOOLEAN,
      prev    : Tokens \union {NoToken} ]

NoRow == [state |-> "unused", owner |-> NoAccount, expired |-> FALSE, prev |-> NoToken]

\* account and token are those of the request, scan the rows that the update
\* of handleReuse has found.
Handler ==
    [ pc      : {"idle", "create", "issue", "revoke", "rotate", "reuse", "revokeAll"},
      account : Accounts \union {NoAccount},
      token   : Tokens \union {NoToken},
      scan    : SUBSET Tokens ]

IdleHandler == [pc |-> "idle", account |-> NoAccount, token |-> NoToken, scan |-> {}]

Init ==
    /\ users = [a \in Accounts |-> "none"]
    /\ tokens = [t \in Tokens |-> NoRow]
    /\ handlers = [h \in Handlers |-> IdleHandler]

SetHandler(h, r) == handlers' = [handlers EXCEPT ![h] = r]

\* issueRefreshToken: a token nobody has seen.
NewToken(a, prev) == [state |-> "live", owner |-> a, expired |-> FALSE, prev |-> prev]

\* The conditional update of one row: WHERE revokedAt IS NULL.
Revoked(row) == IF row.state = "live" THEN [row EXCEPT !.state = "revoked"] ELSE row

-----------------------------------------------------------------------------
(* Registration and login *)

\* The cheap check found no account with this address.
BeginRegister(h, a) ==
    /\ handlers[h].pc = "idle"
    /\ users[a] = "none"
    /\ SetHandler(h, [IdleHandler EXCEPT !.pc = "create", !.account = a])
    /\ UNCHANGED <<users, tokens>>

\* Mutant: the token is not stored in the transaction, which may be rolled back.
CreateUserOutside(h, t) ==
    LET a == handlers[h].account
    IN  /\ handlers[h].pc = "create"
        /\ tokens[t].state = "unused"
        /\ tokens' = [tokens EXCEPT ![t] = NewToken(a, NoToken)]
        /\ users' \in {users, [users EXCEPT ![a] = "ACTIVE"]}
        /\ SetHandler(h, IdleHandler)

\* The transaction: the unique index refuses the second of two requests.
CreateUser(h, t) ==
    LET a == handlers[h].account
    IN  /\ handlers[h].pc = "create"
        /\ tokens[t].state = "unused"
        /\ IF users[a] = "none"
           THEN /\ users' = [users EXCEPT ![a] = "ACTIVE"]
                /\ tokens' = [tokens EXCEPT ![t] = NewToken(a, NoToken)]
           ELSE UNCHANGED <<users, tokens>>
        /\ SetHandler(h, IdleHandler)

\* The password matched and the account is active.
BeginLogin(h, a) ==
    /\ handlers[h].pc = "idle"
    /\ users[a] = "ACTIVE"
    /\ SetHandler(h, [IdleHandler EXCEPT !.pc = "issue", !.account = a])
    /\ UNCHANGED <<users, tokens>>

\* Mutant: the insert overwrites a token that was issued before.
IssueTokenInUse(h, t) ==
    /\ handlers[h].pc = "issue"
    /\ tokens' = [tokens EXCEPT ![t] = NewToken(handlers[h].account, NoToken)]
    /\ SetHandler(h, IdleHandler)
    /\ UNCHANGED users

IssueToken(h, t) ==
    /\ handlers[h].pc = "issue"
    /\ tokens[t].state = "unused"
    /\ tokens' = [tokens EXCEPT ![t] = NewToken(handlers[h].account, NoToken)]
    /\ SetHandler(h, IdleHandler)
    /\ UNCHANGED users

-----------------------------------------------------------------------------
(* Refresh and logout *)

\* Requests that change nothing: an address in use, wrong credentials, an
\* inactive account, an unknown token.
Reject(h) ==
    /\ handlers[h].pc = "idle"
    /\ UNCHANGED vars

\* findRefreshToken and what refresh makes of the row and of the user.
BeginRefresh(h, t) ==
    LET row == tokens[t]
    IN  /\ handlers[h].pc = "idle"
        /\ row.state # "unused"
        /\ SetHandler(h, [IdleHandler EXCEPT
                !.token = t,
                !.account = row.owner,
                !.pc = CASE row.state = "revoked" -> "reuse"
                         [] row.state = "live" /\ (row.expired \/ users[row.owner] # "ACTIVE")
                               -> "revoke"
                         [] OTHER -> "rotate"])
        /\ UNCHANGED <<users, tokens>>

\* logout: the token exists and is the caller's.
BeginLogout(h, t) ==
    /\ handlers[h].pc = "idle"
    /\ tokens[t].state # "unused"
    /\ SetHandler(h, [IdleHandler EXCEPT !.pc = "revoke", !.token = t,
                                         !.account = tokens[t].owner])
    /\ UNCHANGED <<users, tokens>>

\* The end of a logout, and of a refresh that found the token expired or the
\* account inactive.
RevokeToken(h) ==
    LET t == handlers[h].token
    IN  /\ handlers[h].pc = "revoke"
        /\ tokens' = [tokens EXCEPT ![t] = Revoked(@)]
        /\ SetHandler(h, IdleHandler)
        /\ UNCHANGED users

\* Mutant: the update is not conditional.
RotateAlways(h, new) ==
    LET t == handlers[h].token
    IN  /\ handlers[h].pc = "rotate"
        /\ tokens[new].state = "unused"
        /\ tokens' = [tokens EXCEPT ![t].state = "revoked",
                                    ![new] = NewToken(handlers[h].account, t)]
        /\ SetHandler(h, IdleHandler)
        /\ UNCHANGED users

\* Mutant: the old token is left alone.
RotateKeepsOld(h, new) ==
    LET t == handlers[h].token
    IN  /\ handlers[h].pc = "rotate"
        /\ tokens[new].state = "unused"
        /\ IF tokens[t].state = "live"
           THEN /\ tokens' = [tokens EXCEPT ![new] = NewToken(handlers[h].account, t)]
                /\ SetHandler(h, IdleHandler)
           ELSE /\ SetHandler(h, [handlers[h] EXCEPT !.pc = "reuse"])
                /\ UNCHANGED tokens
        /\ UNCHANGED users

\* The rotation; a request that finds the token revoked by then has lost the
\* race and treats it as reuse.
Rotate(h, new) ==
    LET t == handlers[h].token
    IN  /\ handlers[h].pc = "rotate"
        /\ tokens[new].state = "unused"
        /\ IF tokens[t].state = "live"
           THEN /\ tokens' = [tokens EXCEPT ![t] = Revoked(@),
                                            ![new] = NewToken(handlers[h].account, t)]
                /\ SetHandler(h, IdleHandler)
           ELSE /\ SetHandler(h, [handlers[h] EXCEPT !.pc = "reuse"])
                /\ UNCHANGED tokens
        /\ UNCHANGED users

\* handleReuse: its update sees the rows that are live when it starts ...
ScanSessions(h) ==
    /\ handlers[h].pc = "reuse"
    /\ SetHandler(h, [handlers[h] EXCEPT
                        !.pc = "revokeAll",
                        !.scan = {t \in Tokens : /\ tokens[t].state = "live"
                                                 /\ tokens[t].owner = handlers[h].account}])
    /\ UNCHANGED <<users, tokens>>

\* ... waits for transactions that hold one of them, and revokes those that
\* are live still.
RevokeSessions(h) ==
    /\ handlers[h].pc = "revokeAll"
    /\ tokens' = [t \in Tokens |-> IF t \in handlers[h].scan THEN Revoked(tokens[t])
                                                              ELSE tokens[t]]
    /\ SetHandler(h, IdleHandler)
    /\ UNCHANGED users

-----------------------------------------------------------------------------
(* Everybody else *)

\* A query throws or the API process dies: the transaction is rolled back.
Abort(h) ==
    /\ handlers[h].pc # "idle"
    /\ SetHandler(h, IdleHandler)
    /\ UNCHANGED <<users, tokens>>

\* refreshTtlSeconds pass.
TokenExpires(t) ==
    /\ tokens[t].state = "live"
    /\ tokens' = [tokens EXCEPT ![t].expired = TRUE]
    /\ UNCHANGED <<users, handlers>>

\* An operator suspends or deletes the account.
Deactivate(a) ==
    /\ users[a] = "ACTIVE"
    /\ users' = [users EXCEPT ![a] = "INACTIVE"]
    /\ UNCHANGED <<tokens, handlers>>

Next ==
    \/ \E h \in Handlers :
          \/ \E a \in Accounts : BeginRegister(h, a) \/ BeginLogin(h, a)
          \/ \E t \in Tokens : \/ CreateUser(h, t) \/ IssueToken(h, t)
                               \/ BeginRefresh(h, t) \/ BeginLogout(h, t) \/ Rotate(h, t)
          \/ Reject(h) \/ RevokeToken(h) \/ ScanSessions(h) \/ RevokeSessions(h) \/ Abort(h)
    \/ \E t \in Tokens : TokenExpires(t)
    \/ \E a \in Accounts : Deactivate(a)

Spec == Init /\ [][Next]_vars

-----------------------------------------------------------------------------
(* Properties *)

\* Every variable holds what the code can put into it; the owner of a stored
\* token is a user that exists.
TypeOK ==
    /\ users \in [Accounts -> {"none", "ACTIVE", "INACTIVE"}]
    /\ tokens \in [Tokens -> Token]
    /\ handlers \in [Handlers -> Handler]
    /\ \A t \in Tokens : tokens[t].state # "unused" =>
          tokens[t].owner \in Accounts /\ users[tokens[t].owner] # "none"

\* Of any number of concurrent requests that present the same token at most one
\* gets a successor for it.
ExchangedOnce ==
    \A t, u \in Tokens : tokens[t].prev = tokens[u].prev /\ tokens[t].prev # NoToken => t = u

\* A token with a successor is revoked, also after races with logout, reuse
\* detection and expiry: a session never has two live tokens.
OneLivePerSession ==
    \A t \in Tokens : tokens[t].prev # NoToken => tokens[tokens[t].prev].state = "revoked"

\* Neither a rotation nor a racing revocation brings a revoked token back or
\* gives a token to another account.
RevokedForGood ==
    [][\A t \in Tokens : /\ tokens[t].state = "revoked" => tokens'[t].state = "revoked"
                         /\ tokens[t].state # "unused" => tokens'[t].owner = tokens[t].owner]_vars

\* Reuse detection ends every session of the user, as the comment of handleReuse
\* and docs/ARCHITECTURE.md say: none of those its update has found goes on with a
\* token that is still live.
ReuseEndsSessions ==
    [][\A h \in Handlers : RevokeSessions(h) =>
          \A t \in Tokens : tokens[t].prev \in handlers[h].scan =>
              tokens'[t].state # "live"]_vars

=============================================================================
