------------------------------ MODULE Accounts ------------------------------
(***************************************************************************)
(* Signing up, signing in and out, refreshing, and resetting a password.   *)
(*                                                                         *)
(* A user is a row of Postgres with a nullable password, and rows that     *)
(* link it to accounts of an OAuth provider.  A signed-in browser is a key *)
(* refresh:<user>:<hash> of Redis, a reset link is a key reset:<hash>.     *)
(* auth.service.ts reads one store and writes the other with an await in   *)
(* between, so every request is a sequence of actions and auth[r] holds    *)
(* where it stands.                                                        *)
(*                                                                         *)
(* Passwords are numbered in the order they are set, 0 being none, so that *)
(* a session can be said to be older than a password.  Tokens are random:  *)
(* one is never issued twice.  Access tokens are signed, not stored, and   *)
(* are left out, as are names, mail texts and the wording of answers.      *)
(***************************************************************************)
EXTENDS Naturals, FiniteSets

CONSTANTS
    Users,         \* e-mail addresses; each names at most one row
    AccountIds,    \* account ids at the OAuth provider
    Tokens,        \* refresh tokens that can be issued
    ResetTokens,   \* reset tokens that can be issued
    Visits,        \* slots of requests in flight
    MaxPassword,   \* bound: how many passwords are set
    RedisMayFail   \* TRUE: lib/cache swallows an error and answers "nothing"

ASSUME AccountsAssumption ==
    /\ "nobody" \notin Users
    /\ MaxPassword \in Nat
    /\ RedisMayFail \in BOOLEAN

VARIABLES
    registered, \* users that have a row
    password,   \* [Users -> number of the row's password, 0 for null]
    linked,     \* [AccountIds -> the user it signs in], or "nobody"
    refreshKey, \* [Tokens -> the session stored under it], or unissued / gone
    resetKey,   \* [ResetTokens -> the user it resets], or unissued / gone
    auth,       \* requests in flight
    passwords   \* how many passwords were ever set: the number of the last one

accountsVars == <<registered, password, linked, refreshKey, resetKey, auth, passwords>>
rows  == <<registered, password, linked, passwords>>
redis == <<refreshKey, resetKey>>

-----------------------------------------------------------------------------
(* Types                                                                   *)

Unissued == [key |-> "unissued"]
Gone     == [key |-> "gone"]
NoKey    == {Unissued, Gone}

\* A session: whose it is, the password in force at its sign-in, the token of
\* that sign-in, and whether its writer overlapped a reset or another refresh
\* of its token, or met a Redis failure.
Session == [user : Users, since : Nat, family : Tokens, raced : BOOLEAN]

NoVisit == [op |-> "none"]

SignupVisit  == [op : {"signup"}, user : Users, pc : {"create"}]
SigninVisit  == [op : {"signin"}, pc : {"store"}, user : Users, since : Nat,
                 raced : BOOLEAN]
OAuthVisit   == [op : {"oauth"}, pc : {"find", "link", "create", "store"},
                 user : Users, id : AccountIds, since : Nat, raced : BOOLEAN]
RefreshVisit == [op : {"refresh"}, pc : {"delete", "store"}, old : Tokens,
                 from : Session, raced : BOOLEAN]
LogoutVisit  == [op : {"logout"}, pc : {"delete"}, old : Tokens]
ForgotVisit  == [op : {"forgot"}, pc : {"store"}, user : Users]
ResetVisit   == [op : {"reset"}, pc : {"update", "spend", "scan", "end"},
                 user : Users, token : ResetTokens, found : SUBSET Tokens]

Visit == {NoVisit} \cup SignupVisit \cup SigninVisit \cup OAuthVisit
            \cup RefreshVisit \cup LogoutVisit \cup ForgotVisit \cup ResetVisit

AccountsTypeOK ==
    /\ registered \subseteq Users
    /\ password \in [Users -> Nat]
    /\ linked \in [AccountIds -> Users \cup {"nobody"}]
    /\ refreshKey \in [Tokens -> Session \cup NoKey]
    /\ resetKey \in [ResetTokens -> [user : Users] \cup NoKey]
    /\ auth \in [Visits -> Visit]
    /\ passwords \in Nat

-----------------------------------------------------------------------------
(* Helpers                                                                 *)

HasRow(u) == u \in registered
Live(t)   == refreshKey[t] \notin NoKey
Usable(k) == resetKey[k] \notin NoKey

AuthAt(r, op, pc) == auth[r].op = op /\ auth[r].pc = pc
AuthGoto(r, pc)   == auth' = [auth EXCEPT ![r].pc = pc]
AuthDone(r)       == auth' = [auth EXCEPT ![r] = NoVisit]
AuthEnter(r, v)   == auth[r] = NoVisit /\ auth' = [auth EXCEPT ![r] = v]

\* cacheSetString of a new refresh key; a swallowed error leaves the caller with
\* a token that nobody knows.
StoreSession(r, session(_)) ==
    \E t \in Tokens :
        /\ refreshKey[t] = Unissued
        /\ \/ refreshKey' = [refreshKey EXCEPT ![t] = session(t)]
           \/ RedisMayFail /\ refreshKey' = [refreshKey EXCEPT ![t] = Gone]
        /\ AuthDone(r)
        /\ UNCHANGED <<rows, resetKey>>

Raced(session) == [session EXCEPT !.raced = TRUE]

\* cacheDel of refresh keys; an error is swallowed and the keys stay.
DeleteSessions(ts) ==
    \/ refreshKey' = [t \in Tokens |-> IF t \in ts THEN Gone ELSE refreshKey[t]]
    \/ /\ RedisMayFail
       /\ refreshKey' = [t \in Tokens |->
                           IF t \in ts /\ Live(t) THEN Raced(refreshKey[t])
                                                  ELSE refreshKey[t]]

-----------------------------------------------------------------------------
(* Sign-up and sign-in                                                     *)

SignupRead(r, u) ==
    /\ ~ HasRow(u)
    /\ passwords < MaxPassword
    /\ AuthEnter(r, [op |-> "signup", user |-> u, pc |-> "create"])
    /\ UNCHANGED <<rows, redis>>

\* The e-mail is unique: the later of two creations throws.
SignupCreate(r) ==
    /\ AuthAt(r, "signup", "create")
    /\ IF HasRow(auth[r].user) \/ passwords = MaxPassword
         THEN UNCHANGED <<registered, password, passwords>>
         ELSE /\ passwords' = passwords + 1
              /\ registered' = registered \cup {auth[r].user}
              /\ password' = [password EXCEPT ![auth[r].user] = passwords + 1]
    /\ AuthDone(r)
    /\ UNCHANGED <<linked, redis>>

\* login with the right password: a row without one is refused.
LoginRead(r, u) ==
    /\ HasRow(u) /\ password[u] > 0
    /\ AuthEnter(r, [op |-> "signin", pc |-> "store", user |-> u,
                     since |-> password[u], raced |-> FALSE])
    /\ UNCHANGED <<rows, redis>>

LoginStore(r) ==
    /\ AuthAt(r, "signin", "store")
    /\ StoreSession(r, LAMBDA t : [user |-> auth[r].user, since |-> auth[r].since,
                                   family |-> t, raced |-> auth[r].raced])

\* The callback has the provider's profile: an e-mail and an account id, in any
\* combination, for e-mails change.  It looks the user up by e-mail only.
OAuthRead(r, u, i) ==
    /\ AuthEnter(r, [op |-> "oauth", pc |-> IF HasRow(u) THEN "find" ELSE "create",
                     user |-> u, id |-> i,
                     since |-> IF HasRow(u) THEN password[u] ELSE 0,
                     raced |-> FALSE])
    /\ UNCHANGED <<rows, redis>>

OAuthFind(r) ==
    /\ AuthAt(r, "oauth", "find")
    /\ AuthGoto(r, IF \E i \in AccountIds : linked[i] = auth[r].user THEN "store"
                                                                   ELSE "link")
    /\ UNCHANGED <<rows, redis>>

\* account.create; an id that is linked to anybody violates its unique key.
OAuthLink(r) ==
    /\ AuthAt(r, "oauth", "link")
    /\ IF linked[auth[r].id] = "nobody"
         THEN /\ linked' = [linked EXCEPT ![auth[r].id] = auth[r].user]
              /\ AuthGoto(r, "store")
         ELSE UNCHANGED linked /\ AuthDone(r)
    /\ UNCHANGED <<registered, password, passwords, redis>>

\* Slip: the user and the link are two statements, not a transaction.
OAuthCreateApart(r) ==
    /\ AuthAt(r, "oauth", "create")
    /\ IF HasRow(auth[r].user)
         THEN AuthDone(r) /\ UNCHANGED registered
         ELSE AuthGoto(r, "link") /\ registered' = registered \cup {auth[r].user}
    /\ UNCHANGED <<password, linked, passwords, redis>>

\* The transaction: both rows, or neither when one of the unique keys is taken.
OAuthCreate(r) ==
    /\ AuthAt(r, "oauth", "create")
    /\ IF HasRow(auth[r].user) \/ linked[auth[r].id] # "nobody"
         THEN AuthDone(r) /\ UNCHANGED <<registered, linked>>
         ELSE /\ registered' = registered \cup {auth[r].user}
              /\ linked' = [linked EXCEPT ![auth[r].id] = auth[r].user]
              /\ AuthGoto(r, "store")
    /\ UNCHANGED <<password, passwords, redis>>

OAuthStore(r) ==
    /\ AuthAt(r, "oauth", "store")
    /\ StoreSession(r, LAMBDA t : [user |-> auth[r].user, since |-> auth[r].since,
                                   family |-> t, raced |-> auth[r].raced])

-----------------------------------------------------------------------------
(* Refresh and sign-out                                                    *)

\* The scan that finds the key.  Ghost: the requests that overlap are marked.
RefreshScan(r, t) ==
    /\ auth[r] = NoVisit
    /\ Live(t)
    /\ LET rivals == {q \in Visits : auth[q].op = "refresh" /\ auth[q].old = t}
           resets == {q \in Visits : /\ AuthAt(q, "reset", "end")
                                     /\ auth[q].user = refreshKey[t].user}
           visit  == [op |-> "refresh", pc |-> "delete", old |-> t,
                      from |-> refreshKey[t], raced |-> rivals \cup resets # {}]
       IN auth' = [q \in Visits |-> IF q = r THEN visit
                                    ELSE IF q \in rivals
                                      THEN [auth[q] EXCEPT !.raced = TRUE]
                                      ELSE auth[q]]
    /\ UNCHANGED <<rows, redis>>

\* Slip: the new key is added to the old one.
RefreshKeeps(r) ==
    /\ AuthAt(r, "refresh", "delete")
    /\ AuthGoto(r, "store")
    /\ UNCHANGED <<rows, redis>>

RefreshDelete(r) ==
    /\ AuthAt(r, "refresh", "delete")
    /\ DeleteSessions({auth[r].old})
    /\ AuthGoto(r, "store")
    /\ UNCHANGED <<rows, resetKey>>

RefreshStore(r) ==
    /\ AuthAt(r, "refresh", "store")
    /\ StoreSession(r, LAMBDA t : [auth[r].from EXCEPT !.raced = @ \/ auth[r].raced])

LogoutScan(r, t) ==
    /\ Live(t)
    /\ AuthEnter(r, [op |-> "logout", pc |-> "delete", old |-> t])
    /\ UNCHANGED <<rows, redis>>

LogoutDelete(r) ==
    /\ AuthAt(r, "logout", "delete")
    /\ DeleteSessions({auth[r].old})
    /\ AuthDone(r)
    /\ UNCHANGED <<rows, resetKey>>

-----------------------------------------------------------------------------
(* Password reset                                                          *)

ForgotRead(r, u) ==
    /\ HasRow(u)
    /\ AuthEnter(r, [op |-> "forgot", pc |-> "store", user |-> u])
    /\ UNCHANGED <<rows, redis>>

\* The controller has long answered; the link goes out by mail.
ForgotStore(r) ==
    /\ AuthAt(r, "forgot", "store")
    /\ \E k \in ResetTokens :
          /\ resetKey[k] = Unissued
          /\ \/ resetKey' = [resetKey EXCEPT ![k] = [user |-> auth[r].user]]
             \/ RedisMayFail /\ resetKey' = [resetKey EXCEPT ![k] = Gone]
    /\ AuthDone(r)
    /\ UNCHANGED <<rows, refreshKey>>

ResetRead(r, k) ==
    /\ Usable(k)
    /\ AuthEnter(r, [op |-> "reset", pc |-> "update", user |-> resetKey[k].user,
                     token |-> k, found |-> {}])
    /\ UNCHANGED <<rows, redis>>

ResetUpdate(r) ==
    /\ AuthAt(r, "reset", "update")
    /\ passwords < MaxPassword
    /\ passwords' = passwords + 1
    /\ password' = [password EXCEPT ![auth[r].user] = passwords + 1]
    /\ AuthGoto(r, "spend")
    /\ UNCHANGED <<registered, linked, redis>>

ResetSpend(r) ==
    /\ AuthAt(r, "reset", "spend")
    /\ \/ resetKey' = [resetKey EXCEPT ![auth[r].token] = Gone]
       \/ RedisMayFail /\ UNCHANGED resetKey
    /\ AuthGoto(r, "scan")
    /\ UNCHANGED <<rows, refreshKey>>

SessionsOf(u) == {t \in Tokens : Live(t) /\ refreshKey[t].user = u}

SigningIn(q) == auth[q].op \in {"signin", "oauth", "refresh"}

\* Slip: the scan ends one session of the user, as logout does.
ResetScanOne(r) ==
    /\ AuthAt(r, "reset", "scan")
    /\ \E ts \in SUBSET SessionsOf(auth[r].user) :
          /\ Cardinality(ts) <= 1
          /\ auth' = [q \in Visits |->
                        IF q = r THEN [auth[q] EXCEPT !.pc = "end", !.found = ts]
                        ELSE IF SigningIn(q) THEN [auth[q] EXCEPT !.raced = TRUE]
                        ELSE auth[q]]
    /\ UNCHANGED <<rows, redis>>

\* The scan of the user's sessions.  Ghost: sign-ins under way are marked.
ResetScan(r) ==
    /\ AuthAt(r, "reset", "scan")
    /\ auth' = [q \in Visits |->
                  IF q = r THEN [auth[q] EXCEPT !.pc = "end",
                                                !.found = SessionsOf(auth[r].user)]
                  ELSE IF SigningIn(q) THEN [auth[q] EXCEPT !.raced = TRUE]
                  ELSE auth[q]]
    /\ UNCHANGED <<rows, redis>>

\* A failed scan finds nothing, and the request is answered as a success.
ResetScanFails(r) ==
    /\ RedisMayFail
    /\ AuthAt(r, "reset", "scan")
    /\ refreshKey' = [t \in Tokens |-> IF Live(t) THEN Raced(refreshKey[t])
                                                  ELSE refreshKey[t]]
    /\ auth' = [q \in Visits |->
                  IF q = r THEN NoVisit
                  ELSE IF SigningIn(q) THEN [auth[q] EXCEPT !.raced = TRUE]
                  ELSE auth[q]]
    /\ UNCHANGED <<rows, resetKey>>

ResetEnd(r) ==
    /\ AuthAt(r, "reset", "end")
    /\ DeleteSessions(auth[r].found)
    /\ AuthDone(r)
    /\ UNCHANGED <<rows, resetKey>>

-----------------------------------------------------------------------------
(* Redis                                                                   *)

\* Keys live for a while: JWT_REFRESH_EXPIRY_SECONDS, RESET_TOKEN_TTL_SECONDS.
SessionExpires(t) ==
    /\ Live(t)
    /\ refreshKey' = [refreshKey EXCEPT ![t] = Gone]
    /\ UNCHANGED <<rows, resetKey, auth>>

ResetTokenExpires(k) ==
    /\ Usable(k)
    /\ resetKey' = [resetKey EXCEPT ![k] = Gone]
    /\ UNCHANGED <<rows, refreshKey, auth>>

-----------------------------------------------------------------------------
(* Specification                                                           *)

AccountsInit ==
    /\ registered = {}
    /\ password = [u \in Users |-> 0]
    /\ linked = [i \in AccountIds |-> "nobody"]
    /\ refreshKey = [t \in Tokens |-> Unissued]
    /\ resetKey = [k \in ResetTokens |-> Unissued]
    /\ auth = [r \in Visits |-> NoVisit]
    /\ passwords = 0

VisitBegins(r) ==
    \/ \E u \in Users : SignupRead(r, u) \/ LoginRead(r, u) \/ ForgotRead(r, u)
    \/ \E u \in Users, i \in AccountIds : OAuthRead(r, u, i)
    \/ \E t \in Tokens : RefreshScan(r, t) \/ LogoutScan(r, t)
    \/ \E k \in ResetTokens : ResetRead(r, k)

VisitAdvances(r) ==
    \/ SignupCreate(r)
    \/ LoginStore(r)
    \/ OAuthFind(r) \/ OAuthLink(r) \/ OAuthCreate(r) \/ OAuthStore(r)
    \/ RefreshDelete(r) \/ RefreshStore(r)
    \/ LogoutDelete(r)
    \/ ForgotStore(r)
    \/ ResetUpdate(r) \/ ResetSpend(r) \/ ResetScan(r) \/ ResetScanFails(r)
    \/ ResetEnd(r)

AccountsNext ==
    \/ \E r \in Visits : VisitBegins(r) \/ VisitAdvances(r)
    \/ \E t \in Tokens : SessionExpires(t)
    \/ \E k \in ResetTokens : ResetTokenExpires(k)

AccountsSpec == AccountsInit /\ [][AccountsNext]_accountsVars

-----------------------------------------------------------------------------
(* Properties                                                              *)

\* A reset of u whose new password is written and whose scan will find, or has
\* found, the session t.
EndsSession(r, t) ==
    /\ auth[r].op = "reset"
    /\ auth[r].user = refreshKey[t].user
    /\ \/ auth[r].pc \in {"spend", "scan"}
       \/ auth[r].pc = "end" /\ t \in auth[r].found

\* resetPassword signs every browser out: a session from before the current
\* password is about to be deleted by the reset, or was stored by a sign-in or
\* refresh that overlapped the reset's scan (or Redis failed).
OldSessionsEnd ==
    \A t \in Tokens :
        Live(t) /\ refreshKey[t].since < password[refreshKey[t].user] =>
            refreshKey[t].raced \/ \E r \in Visits : EndsSession(r, t)

\* refresh replaces a token: a sign-in leads to two live sessions only when two
\* refreshes of the same token overlapped (or Redis failed).
RotationKeepsOne ==
    \A t1, t2 \in Tokens :
        /\ t1 # t2 /\ Live(t1) /\ Live(t2)
        /\ refreshKey[t1].family = refreshKey[t2].family
        => refreshKey[t1].raced \/ refreshKey[t2].raced

\* However sign-ups and OAuth callbacks of one e-mail, or of one provider account
\* with two e-mails, interleave and fail: a user row has a password or an account
\* to sign in with.
EveryUserCanSignIn ==
    \A u \in Users :
        HasRow(u) => password[u] > 0 \/ \E i \in AccountIds : linked[i] = u
=============================================================================
