---------------------------- MODULE Access_proofs ---------------------------
(***************************************************************************)
(* Theorems about Accounts and JiraAccess.                                 *)
(*                                                                         *)
(* Accounts, for any users, accounts, tokens and requests:                 *)
(*   AccountsTypeCorrect - every behaviour is well typed;                  *)
(*   RowsCanSignIn       - a user row can always be signed in to;          *)
(*   ResetEndsSessions   - a reset ends the sessions of the old password   *)
(*                         but those that overlapped it: what a sign-in or *)
(*                         a refresh is about to store is as sound as what *)
(*                         is stored already, for a reset's scan either    *)
(*                         comes later or marks the request (Sound);       *)
(*   RotationIsExclusive - of one sign-in's tokens one at a time works: a  *)
(*                         family has one carrier (OneCarrier).            *)
(*                                                                         *)
(* JiraAccess, for any sites, requests and number of tokens:               *)
(*   JiraTypeCorrect      - every behaviour is well typed;                 *)
(*   ConnectionsStayAlive - a connected row holds a token the provider     *)
(*                          takes, or its successor is about to be stored; *)
(*   TokensMatchSites     - and that token is for the row's site.          *)
(* The argument: a token on its way to the row is nowhere else (Carried),  *)
(* and the copy of the row that a refresh works from agrees with the row   *)
(* as long as both hold the same token (Copied).                           *)
(*                                                                         *)
(* AccessTypeCorrect puts the two type theorems together.                  *)
(***************************************************************************)
EXTENDS MCAccess, FiniteSetTheorems, TLAPS

-----------------------------------------------------------------------------
(* Accounts                                                                *)

\* A reset whose password is written and whose scan is still to come.
Resetting(r, u) ==
    auth[r].op = "reset" /\ auth[r].user = u /\ auth[r].pc \in {"spend", "scan"}

\* The session a request is about to store.
Brings(q) ==
    \/ auth[q].op \in {"signin", "refresh"}
    \/ auth[q].op = "oauth" /\ auth[q].pc \in {"find", "link", "store"}

Brought(q) ==
    IF auth[q].op = "refresh"
      THEN [user |-> auth[q].from.user, since |-> auth[q].from.since,
            raced |-> auth[q].from.raced \/ auth[q].raced]
      ELSE [user |-> auth[q].user, since |-> auth[q].since, raced |-> auth[q].raced]

Sound(s) ==
    /\ HasRow(s.user)
    /\ s.since < password[s.user] => s.raced \/ \E r \in Visits : Resetting(r, s.user)

\* Only a user with a row has a password or can reset it.
ResetsHaveRows ==
    /\ \A u \in Users : ~ HasRow(u) => password[u] = 0
    /\ \A k \in ResetTokens : Usable(k) => HasRow(resetKey[k].user)
    /\ \A q \in Visits : auth[q].op \in {"forgot", "reset"} => HasRow(auth[q].user)

\* The inductive invariant.
SessionsAreSound ==
    /\ \A t \in Tokens : Live(t) => HasRow(refreshKey[t].user)
    /\ \A q \in Visits : Brings(q) => Sound(Brought(q))
    /\ OldSessionsEnd

-----------------------------------------------------------------------------
(* Type correctness                                                        *)

\* What kind of request is in a slot.
LEMMA VisitTypes ==
  ASSUME AccountsTypeOK, NEW r \in Visits
  PROVE  /\ auth[r].op = "signup"  => auth[r] \in SignupVisit
         /\ auth[r].op = "signin"  => auth[r] \in SigninVisit
         /\ auth[r].op = "oauth"   => auth[r] \in OAuthVisit
         /\ auth[r].op = "refresh" => auth[r] \in RefreshVisit
         /\ auth[r].op = "logout"  => auth[r] \in LogoutVisit
         /\ auth[r].op = "forgot"  => auth[r] \in ForgotVisit
         /\ auth[r].op = "reset"   => auth[r] \in ResetVisit
<1>1. auth[r] \in Visit BY DEF AccountsTypeOK
<1> QED
  BY <1>1 DEF Visit, NoVisit, SignupVisit, SigninVisit, OAuthVisit, RefreshVisit,
              LogoutVisit, ForgotVisit, ResetVisit

\* Marking a request, or a session, leaves it what it is.
LEMMA MarkTypes ==
  ASSUME AccountsTypeOK
  PROVE  /\ \A q \in Visits : SigningIn(q) => [auth[q] EXCEPT !.raced = TRUE] \in Visit
         /\ \A t \in Tokens : Live(t) => /\ refreshKey[t] \in Session
                                         /\ Raced(refreshKey[t]) \in Session
<1>1. ASSUME NEW q \in Visits, SigningIn(q) PROVE [auth[q] EXCEPT !.raced = TRUE] \in Visit
  <2>1. CASE auth[q].op = "signin" BY <2>1, VisitTypes DEF SigninVisit, Visit
  <2>2. CASE auth[q].op = "oauth" BY <2>2, VisitTypes DEF OAuthVisit, Visit
  <2>3. CASE auth[q].op = "refresh" BY <2>3, VisitTypes DEF RefreshVisit, Visit
  <2> QED BY <1>1, <2>1, <2>2, <2>3 DEF SigningIn
<1>2. ASSUME NEW t \in Tokens, Live(t)
      PROVE  refreshKey[t] \in Session /\ Raced(refreshKey[t]) \in Session
  <2>1. refreshKey[t] \in Session BY <1>2 DEF AccountsTypeOK, Live
  <2> QED BY <2>1 DEF Session, Raced
<1> QED BY <1>1, <1>2

\* A step of one request to a place it may be in.
LEMMA MoveType ==
  ASSUME AccountsTypeOK, NEW r \in Visits, NEW v \in Visit, auth' = [auth EXCEPT ![r] = v]
  PROVE  auth' \in [Visits -> Visit]
  BY DEF AccountsTypeOK

LEMMA DeleteType ==
  ASSUME AccountsTypeOK, NEW ts, DeleteSessions(ts)
  PROVE  refreshKey' \in [Tokens -> Session \cup NoKey]
<1>1. CASE refreshKey' = [t \in Tokens |-> IF t \in ts THEN Gone ELSE refreshKey[t]]
  BY <1>1 DEF AccountsTypeOK, NoKey
<1>2. CASE refreshKey' = [t \in Tokens |-> IF t \in ts /\ Live(t) THEN Raced(refreshKey[t])
                                                                ELSE refreshKey[t]]
  BY <1>2, MarkTypes DEF AccountsTypeOK
<1> QED BY <1>1, <1>2 DEF DeleteSessions

\* What the three writers of sessions store.
LEMMA StoreSteps ==
  ASSUME AccountsTypeOK, NEW r \in Visits, LoginStore(r) \/ OAuthStore(r) \/ RefreshStore(r)
  PROVE  /\ Brings(r) /\ AuthDone(r) /\ UNCHANGED <<rows, resetKey>>
         /\ \E t \in Tokens, s \in Session \cup {Gone} :
               /\ refreshKey[t] = Unissued
               /\ refreshKey' = [refreshKey EXCEPT ![t] = s]
               /\ s # Gone => /\ s.user = Brought(r).user /\ s.since = Brought(r).since
                              /\ s.raced = Brought(r).raced
<1>1. CASE LoginStore(r) \/ OAuthStore(r)
  <2>1. /\ AuthDone(r) /\ UNCHANGED <<rows, resetKey>> /\ Brings(r) /\ auth[r].op # "refresh"
        /\ auth[r].user \in Users /\ auth[r].since \in Nat /\ auth[r].raced \in BOOLEAN
    BY <1>1, VisitTypes
    DEF LoginStore, OAuthStore, StoreSession, AuthAt, Brings, SigninVisit, OAuthVisit
  <2>2. PICK t \in Tokens :
          /\ refreshKey[t] = Unissued
          /\ \/ refreshKey' = [refreshKey EXCEPT ![t] =
                   [user |-> auth[r].user, since |-> auth[r].since,
                    family |-> t, raced |-> auth[r].raced]]
             \/ refreshKey' = [refreshKey EXCEPT ![t] = Gone]
    BY <1>1 DEF LoginStore, OAuthStore, StoreSession
  <2> DEFINE s == [user |-> auth[r].user, since |-> auth[r].since,
                   family |-> t, raced |-> auth[r].raced]
  <2>3. s \in Session BY <2>1 DEF Session
  <2>4. s.user = Brought(r).user /\ s.since = Brought(r).since /\ s.raced = Brought(r).raced
    BY <2>1 DEF Brought
  <2> HIDE DEF s
  <2>5. refreshKey' = [refreshKey EXCEPT ![t] = s] \/ refreshKey' = [refreshKey EXCEPT ![t] = Gone]
    BY <2>2 DEF s
  <2> QED BY <2>1, <2>2, <2>3, <2>4, <2>5
<1>2. CASE RefreshStore(r)
  <2>1. /\ AuthDone(r) /\ UNCHANGED <<rows, resetKey>> /\ Brings(r) /\ auth[r].op = "refresh"
        /\ auth[r].from \in Session /\ auth[r].raced \in BOOLEAN
    BY <1>2, VisitTypes DEF RefreshStore, StoreSession, AuthAt, Brings, RefreshVisit
  <2> DEFINE s == [auth[r].from EXCEPT !.raced = @ \/ auth[r].raced]
  <2>2. PICK t \in Tokens :
          /\ refreshKey[t] = Unissued
          /\ \/ refreshKey' = [refreshKey EXCEPT ![t] = s]
             \/ refreshKey' = [refreshKey EXCEPT ![t] = Gone]
    BY <1>2 DEF RefreshStore, StoreSession
  <2>3. s \in Session BY <2>1 DEF Session
  <2>4. s.user = Brought(r).user /\ s.since = Brought(r).since /\ s.raced = Brought(r).raced
    BY <2>1 DEF Brought, Session
  <2> HIDE DEF s
  <2> QED BY <2>1, <2>2, <2>3, <2>4
<1> QED BY <1>1, <1>2

LEMMA VisitGotoType ==
  ASSUME AccountsTypeOK, NEW r \in Visits, NEW pc, AuthGoto(r, pc),
         [auth[r] EXCEPT !.pc = pc] \in Visit
  PROVE  auth' \in [Visits -> Visit]
  BY DEF AccountsTypeOK, AuthGoto

LEMMA VisitDoneType ==
  ASSUME AccountsTypeOK, NEW r \in Visits, AuthDone(r)
  PROVE  auth' \in [Visits -> Visit]
  BY MoveType DEF AuthDone, Visit

LEMMA VisitInitType == AccountsInit => AccountsTypeOK
  BY AccountsAssumption
  DEF AccountsInit, AccountsTypeOK, NoKey, Visit, NoVisit

LEMMA VisitBeginType ==
  ASSUME AccountsTypeOK, NEW r \in Visits, VisitBegins(r)
  PROVE  AccountsTypeOK'
<1>1. ASSUME NEW u \in Users, SignupRead(r, u) PROVE AccountsTypeOK'
  <2>1. [op |-> "signup", user |-> u, pc |-> "create"] \in Visit BY DEF Visit, SignupVisit
  <2>2. auth' \in [Visits -> Visit]
    BY <1>1, <2>1, MoveType DEF SignupRead, AuthEnter
  <2> QED BY <1>1, <2>2 DEF SignupRead, rows, redis, AccountsTypeOK
<1>2. ASSUME NEW u \in Users, LoginRead(r, u) PROVE AccountsTypeOK'
  <2>1. password[u] \in Nat BY DEF AccountsTypeOK
  <2>2. [op |-> "signin", pc |-> "store", user |-> u, since |-> password[u], raced |-> FALSE]
          \in Visit
    BY <2>1 DEF Visit, SigninVisit
  <2>3. auth' \in [Visits -> Visit] BY <1>2, <2>2, MoveType DEF LoginRead, AuthEnter
  <2> QED BY <1>2, <2>3 DEF LoginRead, rows, redis, AccountsTypeOK
<1>3. ASSUME NEW u \in Users, ForgotRead(r, u) PROVE AccountsTypeOK'
  <2>1. [op |-> "forgot", user |-> u, pc |-> "store"] \in Visit BY DEF Visit, ForgotVisit
  <2>2. auth' \in [Visits -> Visit]
    BY <1>3, <2>1, MoveType DEF ForgotRead, AuthEnter
  <2> QED BY <1>3, <2>2 DEF ForgotRead, rows, redis, AccountsTypeOK
<1>4. ASSUME NEW u \in Users, NEW i \in AccountIds, OAuthRead(r, u, i) PROVE AccountsTypeOK'
  <2> DEFINE v == [op |-> "oauth", pc |-> IF HasRow(u) THEN "find" ELSE "create",
                   user |-> u, id |-> i, since |-> IF HasRow(u) THEN password[u] ELSE 0,
                   raced |-> FALSE]
  <2>1. password[u] \in Nat BY DEF AccountsTypeOK
  <2>2. v \in Visit BY <2>1 DEF Visit, OAuthVisit
  <2>3. auth' \in [Visits -> Visit]
    BY <1>4, <2>2, MoveType DEF OAuthRead, AuthEnter
  <2> QED BY <1>4, <2>3 DEF OAuthRead, rows, redis, AccountsTypeOK
<1>5. ASSUME NEW t \in Tokens, RefreshScan(r, t) PROVE AccountsTypeOK'
  <2> DEFINE rivals == {q \in Visits : auth[q].op = "refresh" /\ auth[q].old = t}
             resets == {q \in Visits : /\ AuthAt(q, "reset", "end")
                                       /\ auth[q].user = refreshKey[t].user}
             visit  == [op |-> "refresh", pc |-> "delete", old |-> t,
                        from |-> refreshKey[t], raced |-> rivals \cup resets # {}]
  <2>1. auth' = [q \in Visits |-> IF q = r THEN visit
                                  ELSE IF q \in rivals
                                    THEN [auth[q] EXCEPT !.raced = TRUE]
                                    ELSE auth[q]]
    BY <1>5 DEF RefreshScan
  <2>2. refreshKey[t] \in Session BY <1>5, MarkTypes DEF RefreshScan
  <2>3. (rivals \cup resets # {}) \in BOOLEAN OBVIOUS
  <2>4. visit \in Visit BY <2>2, <2>3 DEF Visit, RefreshVisit
  <2>5. \A q \in rivals : [auth[q] EXCEPT !.raced = TRUE] \in Visit
    BY MarkTypes DEF SigningIn
  <2>6. \A q \in Visits : auth[q] \in Visit BY DEF AccountsTypeOK
  <2> HIDE DEF visit, rivals
  <2>7. auth' \in [Visits -> Visit] BY <2>1, <2>4, <2>5, <2>6
  <2> QED BY <1>5, <2>7 DEF RefreshScan, rows, redis, AccountsTypeOK
<1>6. ASSUME NEW t \in Tokens, LogoutScan(r, t) PROVE AccountsTypeOK'
  <2>1. [op |-> "logout", pc |-> "delete", old |-> t] \in Visit BY DEF Visit, LogoutVisit
  <2>2. auth' \in [Visits -> Visit]
    BY <1>6, <2>1, MoveType DEF LogoutScan, AuthEnter
  <2> QED BY <1>6, <2>2 DEF LogoutScan, rows, redis, AccountsTypeOK
<1>7. ASSUME NEW k \in ResetTokens, ResetRead(r, k) PROVE AccountsTypeOK'
  <2>1. resetKey[k].user \in Users BY <1>7 DEF ResetRead, Usable, AccountsTypeOK
  <2>2. [op |-> "reset", pc |-> "update", user |-> resetKey[k].user, token |-> k,
         found |-> {}] \in Visit
    BY <2>1 DEF Visit, ResetVisit
  <2>3. auth' \in [Visits -> Visit]
    BY <1>7, <2>2, MoveType DEF ResetRead, AuthEnter
  <2> QED BY <1>7, <2>3 DEF ResetRead, rows, redis, AccountsTypeOK
<1> QED BY <1>1, <1>2, <1>3, <1>4, <1>5, <1>6, <1>7 DEF VisitBegins

Mark(visit) == [visit EXCEPT !.raced = TRUE]

\* What a mark leaves alone.
LEMMA VisitsMarked ==
  ASSUME AccountsTypeOK, NEW q \in Visits, SigningIn(q),
         NEW m, m = Mark(auth[q])
  PROVE  /\ m.op = auth[q].op /\ m.pc = auth[q].pc /\ m.raced = TRUE
         /\ auth[q].op = "refresh" => m.from = auth[q].from
         /\ auth[q].op # "refresh" => m.user = auth[q].user /\ m.since = auth[q].since
<1>1. CASE auth[q].op = "signin" BY <1>1, VisitTypes DEF SigninVisit, Mark
<1>2. CASE auth[q].op = "oauth" BY <1>2, VisitTypes DEF OAuthVisit, Mark
<1>3. CASE auth[q].op = "refresh" BY <1>3, VisitTypes DEF RefreshVisit, Mark
<1> QED BY <1>1, <1>2, <1>3 DEF SigningIn

\* The slots after the scan of a refresh.
LEMMA RefreshScanSlots ==
  ASSUME AccountsTypeOK, NEW r \in Visits, NEW t \in Tokens, RefreshScan(r, t)
  PROVE  /\ \E raced \in BOOLEAN :
              /\ auth'[r] = [op |-> "refresh", pc |-> "delete", old |-> t,
                             from |-> refreshKey[t], raced |-> raced]
              /\ (\E q \in Visits : /\ AuthAt(q, "reset", "end")
                                    /\ auth[q].user = refreshKey[t].user) => raced
         /\ \A q \in Visits \ {r} :
              \/ auth'[q] = auth[q]
              \/ SigningIn(q) /\ auth'[q] = Mark(auth[q])
<1> DEFINE rivals == {q \in Visits : auth[q].op = "refresh" /\ auth[q].old = t}
           resets == {q \in Visits : /\ AuthAt(q, "reset", "end")
                                     /\ auth[q].user = refreshKey[t].user}
           raced  == rivals \cup resets # {}
           visit  == [op |-> "refresh", pc |-> "delete", old |-> t,
                      from |-> refreshKey[t], raced |-> raced]
<1>1. auth' = [q \in Visits |-> IF q = r THEN visit
                                ELSE IF q \in rivals
                                  THEN Mark(auth[q])
                                  ELSE auth[q]]
  BY DEF RefreshScan, Mark
<1>2. \A q \in rivals : SigningIn(q) BY DEF SigningIn
<1>3. raced \in BOOLEAN OBVIOUS
<1>4. (\E q \in Visits : /\ AuthAt(q, "reset", "end")
                         /\ auth[q].user = refreshKey[t].user) => raced
  OBVIOUS
<1>5. auth'[r] = visit BY <1>1
<1>6. \A q \in Visits \ {r} : \/ auth'[q] = auth[q]
                              \/ SigningIn(q) /\ auth'[q] = Mark(auth[q])
  <2> HIDE DEF rivals
  <2> QED BY <1>1, <1>2
<1>7. PICK b \in BOOLEAN : b = raced BY <1>3
<1> QED BY <1>4, <1>5, <1>6, <1>7

\* What a scan leaves in the slots of the others.
LEMMA ScanType ==
  ASSUME AccountsTypeOK, NEW r \in Visits, NEW v \in Visit,
         auth' = [q \in Visits |-> IF q = r THEN v
                                   ELSE IF SigningIn(q) THEN [auth[q] EXCEPT !.raced = TRUE]
                                   ELSE auth[q]]
  PROVE  auth' \in [Visits -> Visit]
<1>1. \A q \in Visits : auth[q] \in Visit BY DEF AccountsTypeOK
<1> QED BY <1>1, MarkTypes

LEMMA AdvanceType ==
  ASSUME AccountsTypeOK, NEW r \in Visits, VisitAdvances(r)
  PROVE  AccountsTypeOK'
<1> USE AccountsAssumption
<1>1. CASE SignupCreate(r)
  <2>1. auth[r].user \in Users
    BY <1>1, VisitTypes DEF SignupCreate, AuthAt, SignupVisit
  <2>2. auth' \in [Visits -> Visit] BY <1>1, VisitDoneType DEF SignupCreate
  <2> QED BY <1>1, <2>1, <2>2 DEF SignupCreate, redis, AccountsTypeOK
<1>2. CASE LoginStore(r) \/ OAuthStore(r) \/ RefreshStore(r)
  <2>1. auth' \in [Visits -> Visit] BY <1>2, StoreSteps, VisitDoneType
  <2>2. refreshKey' \in [Tokens -> Session \cup NoKey]
    BY <1>2, StoreSteps DEF AccountsTypeOK, NoKey
  <2> QED BY <1>2, <2>1, <2>2, StoreSteps DEF rows, AccountsTypeOK
<1>3. CASE OAuthFind(r) \/ OAuthLink(r) \/ OAuthCreate(r)
  <2>1. auth[r] \in OAuthVisit
    BY <1>3, VisitTypes DEF OAuthFind, OAuthLink, OAuthCreate, AuthAt
  <2>2. \A pc \in {"store", "link"} : [auth[r] EXCEPT !.pc = pc] \in Visit
    BY <2>1 DEF OAuthVisit, Visit
  <2>3. auth' \in [Visits -> Visit]
    BY <1>3, <2>2, VisitGotoType, VisitDoneType DEF OAuthFind, OAuthLink, OAuthCreate
  <2>4. auth[r].user \in Users BY <2>1 DEF OAuthVisit
  <2>5. linked' \in [AccountIds -> Users \cup {"nobody"}]
    BY <1>3, <2>4 DEF OAuthFind, OAuthLink, OAuthCreate, rows, AccountsTypeOK
  <2>6. registered' \subseteq Users
    BY <1>3, <2>4 DEF OAuthFind, OAuthLink, OAuthCreate, rows, AccountsTypeOK
  <2>7. UNCHANGED <<password, passwords, redis>>
    BY <1>3 DEF OAuthFind, OAuthLink, OAuthCreate, rows
  <2> QED BY <2>3, <2>5, <2>6, <2>7 DEF redis, AccountsTypeOK
<1>4. CASE RefreshDelete(r)
  <2>1. auth[r] \in RefreshVisit BY <1>4, VisitTypes DEF RefreshDelete, AuthAt
  <2>2. [auth[r] EXCEPT !.pc = "store"] \in Visit BY <2>1 DEF RefreshVisit, Visit
  <2>3. auth' \in [Visits -> Visit] BY <1>4, <2>2, VisitGotoType DEF RefreshDelete
  <2>4. refreshKey' \in [Tokens -> Session \cup NoKey] BY <1>4, DeleteType DEF RefreshDelete
  <2> QED BY <1>4, <2>3, <2>4 DEF RefreshDelete, rows, AccountsTypeOK
<1>5. CASE LogoutDelete(r)
  <2>1. auth' \in [Visits -> Visit] BY <1>5, VisitDoneType DEF LogoutDelete
  <2>2. refreshKey' \in [Tokens -> Session \cup NoKey] BY <1>5, DeleteType DEF LogoutDelete
  <2> QED BY <1>5, <2>1, <2>2 DEF LogoutDelete, rows, AccountsTypeOK
<1>6. CASE ForgotStore(r)
  <2>1. auth' \in [Visits -> Visit] BY <1>6, VisitDoneType DEF ForgotStore
  <2>2. auth[r].user \in Users
    BY <1>6, VisitTypes DEF ForgotStore, AuthAt, ForgotVisit
  <2>3. resetKey' \in [ResetTokens -> [user : Users] \cup NoKey]
    BY <1>6, <2>2 DEF ForgotStore, AccountsTypeOK, NoKey
  <2> QED BY <1>6, <2>1, <2>3 DEF ForgotStore, rows, AccountsTypeOK
<1>7. CASE ResetUpdate(r)
  <2>1. auth[r] \in ResetVisit BY <1>7, VisitTypes DEF ResetUpdate, AuthAt
  <2>2. [auth[r] EXCEPT !.pc = "spend"] \in Visit BY <2>1 DEF ResetVisit, Visit
  <2>3. auth' \in [Visits -> Visit] BY <1>7, <2>2, VisitGotoType DEF ResetUpdate
  <2>4. passwords + 1 \in Nat /\ passwords' = passwords + 1
    BY <1>7 DEF ResetUpdate, AccountsTypeOK
  <2>5. password' \in [Users -> Nat]
    BY <1>7, <2>4 DEF ResetUpdate, AccountsTypeOK
  <2> QED BY <1>7, <2>3, <2>4, <2>5 DEF ResetUpdate, redis, AccountsTypeOK
<1>8. CASE ResetSpend(r)
  <2>1. auth[r] \in ResetVisit BY <1>8, VisitTypes DEF ResetSpend, AuthAt
  <2>2. [auth[r] EXCEPT !.pc = "scan"] \in Visit BY <2>1 DEF ResetVisit, Visit
  <2>3. auth' \in [Visits -> Visit] BY <1>8, <2>2, VisitGotoType DEF ResetSpend
  <2>4. resetKey' \in [ResetTokens -> [user : Users] \cup NoKey]
    BY <1>8 DEF ResetSpend, AccountsTypeOK, NoKey
  <2> QED BY <1>8, <2>3, <2>4 DEF ResetSpend, rows, AccountsTypeOK
<1>9. CASE ResetScan(r)
  <2> DEFINE v == [auth[r] EXCEPT !.pc = "end", !.found = SessionsOf(auth[r].user)]
  <2>1. auth[r] \in ResetVisit BY <1>9, VisitTypes DEF ResetScan, AuthAt
  <2>2. SessionsOf(auth[r].user) \in SUBSET Tokens BY DEF SessionsOf
  <2>3. v \in Visit BY <2>1, <2>2 DEF ResetVisit, Visit
  <2>4. auth' = [q \in Visits |-> IF q = r THEN v
                                  ELSE IF SigningIn(q) THEN [auth[q] EXCEPT !.raced = TRUE]
                                  ELSE auth[q]]
    BY <1>9 DEF ResetScan
  <2> HIDE DEF v
  <2>5. auth' \in [Visits -> Visit] BY <2>3, <2>4, ScanType
  <2> QED BY <1>9, <2>5 DEF ResetScan, rows, redis, AccountsTypeOK
<1>10. CASE ResetScanFails(r)
  <2>1. auth' \in [Visits -> Visit]
    <3>1. NoVisit \in Visit BY DEF Visit
    <3> QED BY <1>10, <3>1, ScanType DEF ResetScanFails
  <2>2. refreshKey' \in [Tokens -> Session \cup NoKey]
    BY <1>10, MarkTypes DEF ResetScanFails, AccountsTypeOK
  <2> QED BY <1>10, <2>1, <2>2 DEF ResetScanFails, rows, AccountsTypeOK
<1>11. CASE ResetEnd(r)
  <2>1. auth' \in [Visits -> Visit] BY <1>11, VisitDoneType DEF ResetEnd
  <2>2. refreshKey' \in [Tokens -> Session \cup NoKey] BY <1>11, DeleteType DEF ResetEnd
  <2> QED BY <1>11, <2>1, <2>2 DEF ResetEnd, rows, AccountsTypeOK
<1> QED
  BY <1>1, <1>2, <1>3, <1>4, <1>5, <1>6, <1>7, <1>8, <1>9, <1>10, <1>11 DEF VisitAdvances

LEMMA VisitStepType == AccountsTypeOK /\ [AccountsNext]_accountsVars => AccountsTypeOK'
<1> SUFFICES ASSUME AccountsTypeOK, [AccountsNext]_accountsVars PROVE AccountsTypeOK'
  OBVIOUS
<1>1. ASSUME NEW t \in Tokens, SessionExpires(t) PROVE AccountsTypeOK'
  BY <1>1 DEF SessionExpires, rows, AccountsTypeOK, NoKey
<1>2. ASSUME NEW k \in ResetTokens, ResetTokenExpires(k) PROVE AccountsTypeOK'
  BY <1>2 DEF ResetTokenExpires, rows, AccountsTypeOK, NoKey
<1>3. CASE UNCHANGED accountsVars BY <1>3 DEF accountsVars, AccountsTypeOK
<1> QED BY <1>1, <1>2, <1>3, VisitBeginType, AdvanceType DEF AccountsNext

\* Rows, keys and requests are well typed, for any users, tokens and requests.
THEOREM AccountsTypeCorrect == AccountsSpec => []AccountsTypeOK
  BY VisitInitType, VisitStepType, PTL DEF AccountsSpec

-----------------------------------------------------------------------------
(* A user row can be signed in to                                          *)

\* Whatever sign-ups and OAuth callbacks do, a user row has a password or a
\* linked account, for any users, accounts and requests.
THEOREM RowsCanSignIn == AccountsSpec => []EveryUserCanSignIn
<1>1. AccountsInit => EveryUserCanSignIn
  BY DEF AccountsInit, EveryUserCanSignIn, HasRow
<1>2. AccountsTypeOK /\ EveryUserCanSignIn /\ [AccountsNext]_accountsVars
        => EveryUserCanSignIn'
  <2> SUFFICES ASSUME AccountsTypeOK, EveryUserCanSignIn, [AccountsNext]_accountsVars
               PROVE  EveryUserCanSignIn'
    OBVIOUS
  <2> USE AccountsAssumption
  <2>1. CASE UNCHANGED rows BY <2>1 DEF rows, EveryUserCanSignIn, HasRow
  <2>2. ASSUME NEW r \in Visits, SignupCreate(r) PROVE EveryUserCanSignIn'
    <3>1. auth[r].user \in Users BY <2>2, VisitTypes DEF SignupCreate, AuthAt, SignupVisit
    <3>2. passwords + 1 > 0 BY DEF AccountsTypeOK
    <3> QED
      BY <2>2, <3>1, <3>2 DEF SignupCreate, AccountsTypeOK, EveryUserCanSignIn, HasRow
  <2>3. ASSUME NEW r \in Visits, OAuthLink(r) \/ OAuthCreate(r) PROVE EveryUserCanSignIn'
    <3>1. auth[r].user \in Users /\ auth[r].id \in AccountIds
      BY <2>3, VisitTypes DEF OAuthLink, OAuthCreate, AuthAt, OAuthVisit
    <3> QED
      BY <2>3, <3>1
      DEF OAuthLink, OAuthCreate, AccountsTypeOK, EveryUserCanSignIn, HasRow
  <2>4. ASSUME NEW r \in Visits, ResetUpdate(r) PROVE EveryUserCanSignIn'
    <3>1. auth[r].user \in Users BY <2>4, VisitTypes DEF ResetUpdate, AuthAt, ResetVisit
    <3>2. passwords + 1 > 0 BY DEF AccountsTypeOK
    <3> QED
      BY <2>4, <3>1, <3>2 DEF ResetUpdate, AccountsTypeOK, EveryUserCanSignIn, HasRow
  <2>5. ASSUME NEW r \in Visits, VisitBegins(r) PROVE UNCHANGED rows
    BY <2>5 DEF VisitBegins, SignupRead, LoginRead, ForgotRead, OAuthRead, RefreshScan,
                LogoutScan, ResetRead
  <2>6. ASSUME NEW r \in Visits, VisitAdvances(r)
        PROVE  \/ UNCHANGED rows \/ SignupCreate(r) \/ OAuthLink(r) \/ OAuthCreate(r)
               \/ ResetUpdate(r)
    BY <2>6, StoreSteps
    DEF VisitAdvances, OAuthFind, RefreshDelete, LogoutDelete, ForgotStore, ResetSpend,
        ResetScan, ResetScanFails, ResetEnd
  <2> QED
    BY <2>1, <2>2, <2>3, <2>4, <2>5, <2>6
    DEF AccountsNext, SessionExpires, ResetTokenExpires, accountsVars, rows
<1> QED BY <1>1, <1>2, AccountsTypeCorrect, PTL DEF AccountsSpec

-----------------------------------------------------------------------------
(* A reset ends the sessions of the old password                           *)

\* n stands for s: the same session, marked if s was.
Carries(n, s) == n.user = s.user /\ n.since = s.since /\ (s.raced => n.raced)

\* Rows stay, resets before their scan stay there, and every session, stored or
\* about to be, is sound or stands for one that was: then all are sound again.
LEMMA Frame ==
  ASSUME AccountsTypeOK, SessionsAreSound,
         registered \subseteq registered',
         \A u \in registered : password'[u] = password[u],
         \A r \in Visits, u \in Users : Resetting(r, u) => Resetting(r, u)',
         \A q \in Visits : Brings(q)' =>
            Sound(Brought(q))' \/ (Brings(q) /\ Carries(Brought(q)', Brought(q))),
         \A t \in Tokens : Live(t)' =>
            \/ /\ Live(t) /\ Carries(refreshKey'[t], refreshKey[t])
               /\ \A r \in Visits :
                     EndsSession(r, t) => EndsSession(r, t)' \/ refreshKey'[t].raced
            \/ \E q \in Visits : Brings(q) /\ Carries(refreshKey'[t], Brought(q))
  PROVE  SessionsAreSound'
<1>1. ASSUME NEW s, Sound(s), s.user \in Users, NEW n, Carries(n, s)
      PROVE  /\ n.user \in registered'
             /\ n.since < password'[n.user] =>
                  n.raced \/ \E r \in Visits : Resetting(r, s.user)'
  BY <1>1 DEF Sound, HasRow, Carries
<1>2. \A q \in Visits : Brings(q) => Brought(q).user \in Users
  BY VisitTypes
  DEF Brings, Brought, SigninVisit, OAuthVisit, RefreshVisit, Session
<1>3. ASSUME NEW q \in Visits, Brings(q)' PROVE Sound(Brought(q))'
  <2>1. CASE Brings(q) /\ Carries(Brought(q)', Brought(q))
    <3>1. PICK s : s = Brought(q) OBVIOUS
    <3>2. PICK n : n = Brought(q)' OBVIOUS
    <3>3. Sound(s) /\ s.user \in Users /\ Carries(n, s)
      BY <2>1, <3>1, <3>2, <1>2 DEF SessionsAreSound
    <3>4. n.user = s.user BY <3>3 DEF Carries
    <3>5. /\ n.user \in registered'
          /\ n.since < password'[n.user] =>
               n.raced \/ \E r \in Visits : Resetting(r, s.user)'
      BY <1>1, <3>3
    <3>6. Sound(n)' BY <3>4, <3>5 DEF Sound, HasRow, Resetting
    <3> QED BY <3>2, <3>6 DEF Sound, HasRow, Resetting
  <2> QED BY <1>3, <2>1
<1>4. ASSUME NEW t \in Tokens, Live(t)'
      PROVE  /\ refreshKey'[t].user \in registered'
             /\ refreshKey'[t].since < password'[refreshKey'[t].user] =>
                  refreshKey'[t].raced \/ \E r \in Visits : EndsSession(r, t)'
  <2>1. CASE /\ Live(t) /\ Carries(refreshKey'[t], refreshKey[t])
             /\ \A r \in Visits :
                   EndsSession(r, t) => EndsSession(r, t)' \/ refreshKey'[t].raced
    <3>1. refreshKey[t].user \in registered BY <2>1 DEF SessionsAreSound, HasRow
    <3>2. refreshKey[t].since < password[refreshKey[t].user] =>
            refreshKey[t].raced \/ \E r \in Visits : EndsSession(r, t)
      BY <2>1 DEF SessionsAreSound, OldSessionsEnd
    <3> QED BY <2>1, <3>1, <3>2 DEF Carries
  <2>2. ASSUME NEW q \in Visits, Brings(q), Carries(refreshKey'[t], Brought(q))
        PROVE  /\ refreshKey'[t].user \in registered'
               /\ refreshKey'[t].since < password'[refreshKey'[t].user] =>
                    refreshKey'[t].raced \/ \E r \in Visits : EndsSession(r, t)'
    <3>1. PICK s : s = Brought(q) OBVIOUS
    <3>2. Sound(s) /\ s.user \in Users /\ Carries(refreshKey'[t], s)
      BY <2>2, <3>1, <1>2 DEF SessionsAreSound
    <3>3. /\ refreshKey'[t].user \in registered'
          /\ refreshKey'[t].since < password'[refreshKey'[t].user] =>
               refreshKey'[t].raced \/ \E r \in Visits : Resetting(r, s.user)'
      BY <1>1, <3>2
    <3>4. \A r \in Visits : Resetting(r, s.user)' => EndsSession(r, t)'
      BY <3>2 DEF Carries, Resetting, EndsSession
    <3> QED BY <3>3, <3>4
  <2> QED BY <1>4, <2>1, <2>2
<1> QED BY <1>3, <1>4 DEF SessionsAreSound, OldSessionsEnd, HasRow, Live

LEMMA RowsOfResets ==
  ASSUME AccountsTypeOK, ResetsHaveRows, [AccountsNext]_accountsVars
  PROVE  ResetsHaveRows'
<1> USE AccountsAssumption
<1>1. ASSUME registered \subseteq registered', UNCHANGED password,
             \A k \in ResetTokens : Usable(k)' =>
                resetKey'[k] = resetKey[k] \/ HasRow(resetKey'[k].user),
             \A q \in Visits : auth'[q].op \in {"forgot", "reset"} =>
                \/ auth[q].op \in {"forgot", "reset"} /\ auth'[q].user = auth[q].user
                \/ HasRow(auth'[q].user)
      PROVE  ResetsHaveRows'
  BY <1>1 DEF ResetsHaveRows, HasRow, Usable
<1>2. CASE UNCHANGED accountsVars
  BY <1>2 DEF accountsVars, ResetsHaveRows, HasRow, Usable
<1>3. ASSUME NEW r \in Visits, VisitBegins(r) PROVE ResetsHaveRows'
  <2>1. UNCHANGED <<rows, redis>>
    BY <1>3 DEF VisitBegins, SignupRead, LoginRead, ForgotRead, OAuthRead, RefreshScan,
                LogoutScan, ResetRead
  <2>2. ASSUME NEW q \in Visits \ {r}
        PROVE  auth'[q] = auth[q] \/ (SigningIn(q) /\ auth'[q] = Mark(auth[q]))
    <3>1. CASE \E v : AuthEnter(r, v) BY <3>1 DEF AuthEnter, AccountsTypeOK
    <3>2. ASSUME NEW t \in Tokens, RefreshScan(r, t)
          PROVE  auth'[q] = auth[q] \/ (SigningIn(q) /\ auth'[q] = Mark(auth[q]))
      BY <3>2, RefreshScanSlots
    <3>3. (\E v : AuthEnter(r, v)) \/ \E t \in Tokens : RefreshScan(r, t)
      BY <1>3 DEF VisitBegins, SignupRead, LoginRead, ForgotRead, OAuthRead, LogoutScan,
                  ResetRead
    <3> QED BY <3>1, <3>2, <3>3
  <2>3. \A q \in Visits \ {r} : auth'[q].op \in {"forgot", "reset"} => auth'[q] = auth[q]
    BY <2>2, VisitsMarked DEF SigningIn
  <2>4. auth'[r].op \in {"forgot", "reset"} => HasRow(auth'[r].user)
    BY <1>3
    DEF VisitBegins, SignupRead, LoginRead, ForgotRead, OAuthRead, RefreshScan,
        LogoutScan, ResetRead, AuthEnter, AccountsTypeOK, ResetsHaveRows
  <2> QED BY <1>1, <2>1, <2>2, <2>3, <2>4 DEF rows, redis
<1>4. ASSUME NEW r \in Visits, VisitAdvances(r) PROVE ResetsHaveRows'
  <2>1. CASE SignupCreate(r)
    BY <2>1, VisitTypes
    DEF SignupCreate, AuthAt, SignupVisit, AuthDone, NoVisit, redis, AccountsTypeOK,
        ResetsHaveRows, HasRow, Usable
  <2>2. CASE LoginStore(r) \/ OAuthStore(r) \/ RefreshStore(r)
    BY <1>1, <2>2, StoreSteps DEF AuthDone, NoVisit, rows, AccountsTypeOK
  <2>3. CASE OAuthFind(r) \/ OAuthLink(r) \/ OAuthCreate(r)
    <3>1. auth[r].op = "oauth" BY <2>3 DEF OAuthFind, OAuthLink, OAuthCreate, AuthAt
    <3>2. auth'[r].op \in {"oauth", "none"} /\ \A q \in Visits \ {r} : auth'[q] = auth[q]
      BY <2>3, <3>1, VisitTypes
      DEF OAuthFind, OAuthLink, OAuthCreate, AuthGoto, AuthDone, NoVisit, AccountsTypeOK,
          OAuthVisit
    <3>3. registered \subseteq registered' /\ UNCHANGED <<password, resetKey>>
      BY <2>3 DEF OAuthFind, OAuthLink, OAuthCreate, rows, redis
    <3> QED BY <1>1, <3>2, <3>3
  <2>4. CASE RefreshDelete(r)
    BY <1>1, <2>4, VisitTypes DEF RefreshDelete, AuthAt, AuthGoto, RefreshVisit, rows,
                                  AccountsTypeOK
  <2>5. CASE LogoutDelete(r) \/ ResetEnd(r)
    BY <1>1, <2>5 DEF LogoutDelete, ResetEnd, AuthDone, NoVisit, rows, AccountsTypeOK
  <2>6. CASE ForgotStore(r)
    <3>1. HasRow(auth[r].user) BY <2>6 DEF ForgotStore, AuthAt, ResetsHaveRows
    <3> QED
      BY <1>1, <2>6, <3>1
      DEF ForgotStore, AuthDone, NoVisit, rows, AccountsTypeOK, Usable, NoKey
  <2>7. CASE ResetUpdate(r)
    <3>1. HasRow(auth[r].user) BY <2>7 DEF ResetUpdate, AuthAt, ResetsHaveRows
    <3>2. auth[r] \in ResetVisit BY <2>7, VisitTypes DEF ResetUpdate, AuthAt
    <3>3. /\ auth'[r].user = auth[r].user /\ auth'[r].op = "reset"
          /\ \A q \in Visits \ {r} : auth'[q] = auth[q]
      BY <2>7, <3>2 DEF ResetUpdate, AuthGoto, AccountsTypeOK, ResetVisit
    <3> QED
      BY <2>7, <3>1, <3>3 DEF ResetUpdate, redis, AccountsTypeOK, ResetsHaveRows, HasRow, Usable
  <2>8. CASE ResetSpend(r)
    <3>1. auth[r] \in ResetVisit BY <2>8, VisitTypes DEF ResetSpend, AuthAt
    <3>2. /\ auth'[r].user = auth[r].user /\ auth[r].op = "reset"
          /\ \A q \in Visits \ {r} : auth'[q] = auth[q]
      BY <2>8, <3>1 DEF ResetSpend, AuthGoto, AccountsTypeOK, ResetVisit
    <3> QED
      BY <1>1, <2>8, <3>2 DEF ResetSpend, rows, AccountsTypeOK, Usable, NoKey
  <2>9. CASE ResetScan(r) \/ ResetScanFails(r)
    <3>1. auth[r] \in ResetVisit BY <2>9, VisitTypes DEF ResetScan, ResetScanFails, AuthAt
    <3>2. \A q \in Visits : SigningIn(q) => Mark(auth[q]).op \in {"signin", "oauth", "refresh"}
      BY VisitsMarked DEF SigningIn
    <3>3. \A q \in Visits \ {r} : auth'[q] = auth[q]
                                  \/ auth'[q].op \in {"signin", "oauth", "refresh"}
      BY <2>9, <3>2 DEF ResetScan, ResetScanFails, Mark
    <3>4. auth'[r].op = "none" \/ (auth[r].op = "reset" /\ auth'[r].user = auth[r].user)
      <4>1. CASE ResetScan(r)
        <5>1. auth'[r] = [auth[r] EXCEPT !.pc = "end", !.found = SessionsOf(auth[r].user)]
          BY <4>1 DEF ResetScan
        <5> QED BY <3>1, <5>1 DEF ResetVisit
      <4>2. CASE ResetScanFails(r) BY <4>2 DEF ResetScanFails, NoVisit
      <4> QED BY <2>9, <4>1, <4>2
    <3>5. UNCHANGED <<rows, resetKey>> BY <2>9 DEF ResetScan, ResetScanFails, redis
    <3> QED BY <1>1, <3>3, <3>4, <3>5 DEF rows
  <2> QED
    BY <1>4, <2>1, <2>2, <2>3, <2>4, <2>5, <2>6, <2>7, <2>8, <2>9 DEF VisitAdvances
<1>5. ASSUME NEW t \in Tokens, SessionExpires(t) PROVE ResetsHaveRows'
  BY <1>1, <1>5 DEF SessionExpires, rows
<1>6. ASSUME NEW k \in ResetTokens, ResetTokenExpires(k) PROVE ResetsHaveRows'
  BY <1>1, <1>6 DEF ResetTokenExpires, rows, AccountsTypeOK, Usable, NoKey
<1> QED BY <1>2, <1>3, <1>4, <1>5, <1>6 DEF AccountsNext

\* A step of one request that only adds rows, or removes or marks sessions.
LEMMA SlotStep ==
  ASSUME AccountsTypeOK, SessionsAreSound, NEW r \in Visits,
         registered \subseteq registered',
         \A u \in registered : password'[u] = password[u],
         \A q \in Visits \ {r} : auth'[q] = auth[q],
         \A u \in Users : Resetting(r, u) => Resetting(r, u)',
         Brings(r)' =>
            Sound(Brought(r))' \/ (Brings(r) /\ Carries(Brought(r)', Brought(r))),
         \A t \in Tokens : Live(t)' =>
            /\ Live(t) /\ Carries(refreshKey'[t], refreshKey[t])
            /\ EndsSession(r, t) => EndsSession(r, t)' \/ refreshKey'[t].raced
  PROVE  SessionsAreSound'
<1>1. \A q \in Visits \ {r} :
        /\ Brings(q)' => (Brings(q) /\ Carries(Brought(q)', Brought(q)))
        /\ \A u : Resetting(q, u) => Resetting(q, u)'
        /\ \A t \in Tokens : Carries(refreshKey'[t], refreshKey[t]) =>
              (EndsSession(q, t) => EndsSession(q, t)')
  BY DEF Brings, Brought, Carries, Resetting, EndsSession
<1> QED BY <1>1, Frame

\* Deleting sessions, or failing to, leaves others alone and marks what stays.
LEMMA DeleteKeys ==
  ASSUME AccountsTypeOK, NEW ts, DeleteSessions(ts)
  PROVE  \A t \in Tokens : Live(t)' =>
            /\ Live(t) /\ Carries(refreshKey'[t], refreshKey[t])
            /\ t \in ts => refreshKey'[t].raced
<1> TAKE t \in Tokens
<1> HAVE Live(t)'
<1>1. CASE refreshKey' = [x \in Tokens |-> IF x \in ts THEN Gone ELSE refreshKey[x]]
  BY <1>1 DEF Live, NoKey, Carries
<1>2. CASE refreshKey' = [x \in Tokens |-> IF x \in ts /\ Live(x) THEN Raced(refreshKey[x])
                                                                ELSE refreshKey[x]]
  <2>1. Live(t) BY <1>2 DEF Live
  <2>2. refreshKey[t] \in Session BY <2>1, MarkTypes
  <2>3. CASE t \in ts BY <1>2, <2>1, <2>2, <2>3 DEF Carries, Raced, Session
  <2>4. CASE t \notin ts BY <1>2, <2>1, <2>4 DEF Carries
  <2> QED BY <2>1, <2>3, <2>4
<1> QED BY <1>1, <1>2 DEF DeleteSessions

\* Requests begin with a session of the current password, or with none.
LEMMA BeginSound ==
  ASSUME AccountsTypeOK, ResetsHaveRows, SessionsAreSound, NEW r \in Visits, VisitBegins(r)
  PROVE  SessionsAreSound'
<1>1. UNCHANGED <<rows, redis>> /\ auth[r] = NoVisit
  BY DEF VisitBegins, SignupRead, LoginRead, ForgotRead, OAuthRead, RefreshScan,
         LogoutScan, ResetRead, AuthEnter
<1>2. \A u : ~ Resetting(r, u) /\ ~ Brings(r) /\ \A t : ~ EndsSession(r, t)
  BY <1>1 DEF Resetting, Brings, EndsSession, NoVisit
<1>3. \A t \in Tokens : Live(t)' => Live(t) /\ Carries(refreshKey'[t], refreshKey[t])
  BY <1>1 DEF redis, Live, Carries
<1>4. ASSUME NEW v, AuthEnter(r, v), Brings(r)' => Sound(Brought(r))' PROVE SessionsAreSound'
  BY <1>1, <1>2, <1>3, <1>4, SlotStep DEF AuthEnter, rows, AccountsTypeOK
<1>5. ASSUME \/ \E u \in Users : SignupRead(r, u) \/ ForgotRead(r, u)
             \/ \E t \in Tokens : LogoutScan(r, t)
             \/ \E k \in ResetTokens : ResetRead(r, k)
      PROVE  SessionsAreSound'
  <2> DEFINE Enters(ops) == \E v : AuthEnter(r, v) /\ v.op \in ops
  <2>1. Enters({"signup", "forgot", "logout", "reset"})
    <3>1. ASSUME NEW u \in Users, SignupRead(r, u) PROVE Enters({"signup"})
      BY <3>1 DEF SignupRead
    <3>2. ASSUME NEW u \in Users, ForgotRead(r, u) PROVE Enters({"forgot"})
      BY <3>2 DEF ForgotRead
    <3>3. ASSUME NEW t \in Tokens, LogoutScan(r, t) PROVE Enters({"logout"})
      BY <3>3 DEF LogoutScan
    <3>4. ASSUME NEW k \in ResetTokens, ResetRead(r, k) PROVE Enters({"reset"})
      BY <3>4 DEF ResetRead
    <3> QED BY <1>5, <3>1, <3>2, <3>3, <3>4
  <2>2. auth'[r].op \in {"signup", "forgot", "logout", "reset"}
    BY <2>1 DEF AuthEnter, AccountsTypeOK
  <2> QED BY <1>4, <2>1, <2>2 DEF Brings
<1>6. ASSUME NEW u \in Users, LoginRead(r, u) PROVE SessionsAreSound'
  <2>1. auth'[r] = [op |-> "signin", pc |-> "store", user |-> u, since |-> password[u],
                    raced |-> FALSE]
    BY <1>6 DEF LoginRead, AuthEnter, AccountsTypeOK
  <2>2. ~ (password[u] < password[u]) BY DEF AccountsTypeOK
  <2>3. Sound(Brought(r))'
    BY <1>1, <1>6, <2>1, <2>2 DEF LoginRead, Sound, Brought, HasRow, rows
  <2> QED BY <1>4, <1>6, <2>3 DEF LoginRead
<1>7. ASSUME NEW u \in Users, NEW i \in AccountIds, OAuthRead(r, u, i)
      PROVE  SessionsAreSound'
  <2>1. auth'[r] = [op |-> "oauth", pc |-> IF HasRow(u) THEN "find" ELSE "create",
                    user |-> u, id |-> i, since |-> IF HasRow(u) THEN password[u] ELSE 0,
                    raced |-> FALSE]
    BY <1>7 DEF OAuthRead, AuthEnter, AccountsTypeOK
  <2>2. ~ (password[u] < password[u]) BY DEF AccountsTypeOK
  <2>3. Brings(r)' => Sound(Brought(r))'
    <3>1. CASE HasRow(u) BY <1>1, <2>1, <2>2, <3>1 DEF Sound, Brought, HasRow, rows
    <3>2. CASE ~ HasRow(u) BY <2>1, <3>2 DEF Brings
    <3> QED BY <3>1, <3>2
  <2> QED BY <1>4, <1>7, <2>3 DEF OAuthRead
<1>8. ASSUME NEW t \in Tokens, RefreshScan(r, t) PROVE SessionsAreSound'
  <2>1. PICK raced \in BOOLEAN :
          /\ auth'[r] = [op |-> "refresh", pc |-> "delete", old |-> t,
                         from |-> refreshKey[t], raced |-> raced]
          /\ (\E q \in Visits : /\ AuthAt(q, "reset", "end")
                                /\ auth[q].user = refreshKey[t].user) => raced
    BY <1>8, RefreshScanSlots
  <2>2. \A q \in Visits \ {r} :
          auth'[q] = auth[q] \/ (SigningIn(q) /\ auth'[q] = Mark(auth[q]))
    BY <1>8, RefreshScanSlots
  <2>3. Live(t) /\ refreshKey[t] \in Session BY <1>8, MarkTypes DEF RefreshScan
  <2>4. Sound(Brought(r))'
    <3>1. refreshKey[t].since < password[refreshKey[t].user] =>
             \/ refreshKey[t].raced \/ raced
             \/ \E q \in Visits : Resetting(q, refreshKey[t].user)
      BY <2>1, <2>3
      DEF SessionsAreSound, OldSessionsEnd, EndsSession, Resetting, AuthAt
    <3>2. \A q \in Visits : Resetting(q, refreshKey[t].user) =>
                            Resetting(q, refreshKey[t].user)'
      BY <1>2, <1>1, <2>2 DEF Resetting, SigningIn, redis
    <3>3. HasRow(refreshKey[t].user) BY <2>3 DEF SessionsAreSound
    <3> QED
      BY <1>1, <2>1, <2>3, <3>1, <3>2, <3>3
      DEF Sound, Brought, HasRow, Resetting, rows, redis, Session
  <2>5. ASSUME NEW q \in Visits \ {r}
        PROVE  /\ Brings(q)' => (Brings(q) /\ Carries(Brought(q)', Brought(q)))
               /\ \A u : Resetting(q, u) => Resetting(q, u)'
               /\ \A x \in Tokens : EndsSession(q, x) => EndsSession(q, x)'
    <3>1. CASE auth'[q] = auth[q]
      BY <1>1, <3>1 DEF Brings, Brought, Carries, Resetting, EndsSession, redis
    <3>2. CASE SigningIn(q) /\ auth'[q] = Mark(auth[q])
      <4>1. /\ auth'[q].op = auth[q].op /\ auth'[q].pc = auth[q].pc /\ auth'[q].raced = TRUE
            /\ auth[q].op = "refresh" => auth'[q].from = auth[q].from
            /\ auth[q].op # "refresh" => /\ auth'[q].user = auth[q].user
                                         /\ auth'[q].since = auth[q].since
        BY <3>2, VisitsMarked
      <4>2. auth[q].op # "reset" BY <3>2 DEF SigningIn
      <4> QED BY <4>1, <4>2 DEF Brings, Brought, Carries, Resetting, EndsSession
    <3> QED BY <2>2, <3>1, <3>2
  <2> QED BY <1>1, <1>2, <1>3, <2>4, <2>5, Frame DEF rows
<1> QED BY <1>5, <1>6, <1>7, <1>8 DEF VisitBegins

\* The new password makes old sessions unsound; this reset's scan is to come.
LEMMA UpdateSound ==
  ASSUME AccountsTypeOK, SessionsAreSound, NEW r \in Visits, ResetUpdate(r)
  PROVE  SessionsAreSound'
<1> DEFINE u == auth[r].user
<1>1. auth[r] \in ResetVisit BY VisitTypes DEF ResetUpdate, AuthAt
<1>2. auth'[r] = [auth[r] EXCEPT !.pc = "spend"] /\ \A q \in Visits \ {r} : auth'[q] = auth[q]
  BY DEF ResetUpdate, AuthGoto, AccountsTypeOK
<1>3. auth[r].op = "reset" /\ auth[r].pc = "update" BY DEF ResetUpdate, AuthAt
<1>4. Resetting(r, u)' /\ u \in Users /\ auth'[r].op = "reset" /\ auth'[r].user = u
      /\ auth'[r].pc = "spend"
  BY <1>1, <1>2, <1>3 DEF Resetting, ResetVisit
<1>5. /\ UNCHANGED <<registered, refreshKey>>
      /\ \A x \in Users : x # u => password'[x] = password[x]
  BY <1>4 DEF ResetUpdate, redis, AccountsTypeOK
<1>6. \A q \in Visits, x \in Users : Resetting(q, x) => Resetting(q, x)'
  BY <1>2, <1>3 DEF Resetting
<1>7. ASSUME NEW q \in Visits, Brings(q)' PROVE Sound(Brought(q))'
  <2>1. q # r BY <1>4, <1>7 DEF Brings
  <2>2. Brings(q) /\ Brought(q)' = Brought(q) BY <1>2, <1>7, <2>1 DEF Brings, Brought
  <2>3. Brought(q).user \in Users
    BY <2>2, VisitTypes DEF Brings, Brought, SigninVisit, OAuthVisit, RefreshVisit, Session
  <2>4. PICK s : s = Brought(q) OBVIOUS
  <2>5. Sound(s) BY <2>2, <2>4 DEF SessionsAreSound
  <2>6. CASE s.user = u
    BY <1>4, <1>5, <2>2, <2>4, <2>5, <2>6 DEF Sound, HasRow, Resetting
  <2>7. CASE s.user # u
    <3>1. (\E p \in Visits : Resetting(p, s.user)) => \E p \in Visits : Resetting(p, s.user)'
      BY <1>6, <2>3, <2>4
    <3>2. s.user \in registered' /\ password'[s.user] = password[s.user]
      BY <1>5, <2>3, <2>4, <2>5, <2>7 DEF Sound, HasRow
    <3> QED BY <2>2, <2>4, <2>5, <3>1, <3>2 DEF Sound, HasRow, Resetting
  <2> QED BY <2>6, <2>7
<1>8. ASSUME NEW t \in Tokens, Live(t)'
      PROVE  /\ HasRow(refreshKey[t].user)'
             /\ refreshKey'[t].since < password'[refreshKey'[t].user] =>
                  refreshKey'[t].raced \/ \E p \in Visits : EndsSession(p, t)'
  <2>1. Live(t) /\ refreshKey'[t] = refreshKey[t] BY <1>5, <1>8 DEF Live
  <2>2. refreshKey[t].user \in Users BY <2>1, MarkTypes DEF Session
  <2>3. HasRow(refreshKey[t].user)' BY <1>5, <2>1 DEF SessionsAreSound, HasRow
  <2>4. CASE refreshKey[t].user = u
    BY <1>4, <2>1, <2>3, <2>4 DEF EndsSession
  <2>5. CASE refreshKey[t].user # u
    <3>1. \A p \in Visits : EndsSession(p, t) => EndsSession(p, t)'
      BY <1>2, <1>3, <2>1 DEF EndsSession
    <3> QED BY <1>5, <2>1, <2>2, <2>3, <2>5, <3>1 DEF SessionsAreSound, OldSessionsEnd
  <2> QED BY <2>4, <2>5
<1> QED BY <1>7, <1>8 DEF SessionsAreSound, OldSessionsEnd, HasRow, Live

\* The scan finds what is stored and marks what is about to be.
LEMMA ScanSound ==
  ASSUME AccountsTypeOK, SessionsAreSound, NEW r \in Visits, ResetScan(r) \/ ResetScanFails(r)
  PROVE  SessionsAreSound'
<1>1. auth[r] \in ResetVisit /\ auth[r].pc = "scan"
  BY VisitTypes DEF ResetScan, ResetScanFails, AuthAt
<1>2. UNCHANGED rows BY DEF ResetScan, ResetScanFails
<1>3. \A q \in Visits \ {r} : /\ SigningIn(q) => auth'[q] = Mark(auth[q])
                              /\ ~ SigningIn(q) => auth'[q] = auth[q]
  BY DEF ResetScan, ResetScanFails, Mark
<1>4. /\ auth'[r].op \in {"reset", "none"}
      /\ ResetScan(r) => /\ auth'[r].op = "reset" /\ auth'[r].user = auth[r].user
                         /\ auth'[r].pc = "end" /\ auth'[r].found = SessionsOf(auth[r].user)
  <2>1. CASE ResetScan(r)
    <3>1. auth'[r] = [auth[r] EXCEPT !.pc = "end", !.found = SessionsOf(auth[r].user)]
      BY <2>1 DEF ResetScan
    <3> QED BY <1>1, <3>1 DEF ResetVisit
  <2>2. CASE ResetScanFails(r) /\ ~ ResetScan(r) BY <2>2 DEF ResetScanFails, NoVisit
  <2> QED BY <2>1, <2>2
<1>5. ASSUME NEW q \in Visits, Brings(q)' PROVE Sound(Brought(q))'
  <2>1. q # r BY <1>4, <1>5 DEF Brings
  <2>2. SigningIn(q) /\ auth'[q] = Mark(auth[q])
    BY <1>3, <1>5, <2>1 DEF Brings, SigningIn
  <2>3. /\ auth'[q].op = auth[q].op /\ auth'[q].pc = auth[q].pc /\ auth'[q].raced = TRUE
        /\ auth[q].op = "refresh" => auth'[q].from = auth[q].from
        /\ auth[q].op # "refresh" => /\ auth'[q].user = auth[q].user
                                     /\ auth'[q].since = auth[q].since
    BY <2>2, VisitsMarked
  <2>4. Brings(q) BY <1>5, <2>3 DEF Brings
  <2>5. HasRow(Brought(q).user) BY <2>4 DEF SessionsAreSound, Sound
  <2>6. Brought(q)'.user = Brought(q).user /\ Brought(q)'.raced
    BY <2>3 DEF Brought
  <2> QED BY <1>2, <2>5, <2>6 DEF Sound, HasRow, rows
<1>6. ASSUME NEW t \in Tokens, Live(t)'
      PROVE  /\ HasRow(refreshKey[t].user)'
             /\ refreshKey'[t].since < password'[refreshKey'[t].user] =>
                  refreshKey'[t].raced \/ \E q \in Visits : EndsSession(q, t)'
  <2>1. CASE ResetScan(r)
    <3>1. Live(t) /\ UNCHANGED refreshKey BY <1>6, <2>1 DEF ResetScan, redis, Live
    <3>2. ASSUME NEW q \in Visits, EndsSession(q, t) PROVE EndsSession(q, t)'
      <4>1. CASE q = r BY <1>4, <2>1, <3>1, <3>2, <4>1 DEF EndsSession, SessionsOf
      <4>2. CASE q # r
        <5>1. auth'[q] = auth[q] BY <1>3, <3>2, <4>2 DEF EndsSession, SigningIn
        <5> QED BY <3>1, <3>2, <5>1 DEF EndsSession
      <4> QED BY <4>1, <4>2
    <3> QED BY <1>2, <3>1, <3>2 DEF SessionsAreSound, OldSessionsEnd, HasRow, rows
  <2>2. CASE ResetScanFails(r)
    <3>1. refreshKey'[t] = IF Live(t) THEN Raced(refreshKey[t]) ELSE refreshKey[t]
      BY <2>2 DEF ResetScanFails
    <3>2. Live(t) BY <1>6, <3>1 DEF Live
    <3>3. refreshKey[t] \in Session BY <3>2, MarkTypes
    <3>4. refreshKey'[t].raced /\ refreshKey'[t].user = refreshKey[t].user
      BY <3>1, <3>2, <3>3 DEF Raced, Session
    <3> QED BY <1>2, <3>2, <3>4 DEF SessionsAreSound, HasRow, rows
  <2> QED BY <2>1, <2>2
<1> QED BY <1>5, <1>6 DEF SessionsAreSound, OldSessionsEnd, HasRow, Live

\* What is stored is what the request brought, or nothing.
LEMMA StoreSound ==
  ASSUME AccountsTypeOK, SessionsAreSound, NEW r \in Visits,
         LoginStore(r) \/ OAuthStore(r) \/ RefreshStore(r)
  PROVE  SessionsAreSound'
<1>1. Brings(r) /\ AuthDone(r) /\ UNCHANGED rows BY StoreSteps
<1>2. PICK t \in Tokens, s \in Session \cup {Gone} :
        /\ refreshKey[t] = Unissued
        /\ refreshKey' = [refreshKey EXCEPT ![t] = s]
        /\ s # Gone => /\ s.user = Brought(r).user /\ s.since = Brought(r).since
                       /\ s.raced = Brought(r).raced
  BY StoreSteps
<1>3. auth'[r] = NoVisit /\ \A q \in Visits \ {r} : auth'[q] = auth[q]
  BY <1>1 DEF AuthDone, AccountsTypeOK
<1>4. auth[r].op # "reset" BY <1>1 DEF Brings
<1>5. \A q \in Visits, u \in Users : Resetting(q, u) => Resetting(q, u)'
  BY <1>3, <1>4 DEF Resetting
<1>6. \A q \in Visits : Brings(q)' => (Brings(q) /\ Carries(Brought(q)', Brought(q)))
  BY <1>3 DEF Brings, Brought, Carries, NoVisit
<1>7. ASSUME NEW x \in Tokens, Live(x)', x # t
      PROVE  /\ Live(x) /\ Carries(refreshKey'[x], refreshKey[x])
             /\ \A q \in Visits : EndsSession(q, x) => EndsSession(q, x)'
  <2>1. refreshKey'[x] = refreshKey[x] BY <1>2, <1>7
  <2> QED BY <1>3, <1>4, <1>7, <2>1 DEF Live, Carries, EndsSession
<1>8. ASSUME Live(t)' PROVE Carries(refreshKey'[t], Brought(r))
  <2>1. refreshKey'[t] = s BY <1>2 DEF AccountsTypeOK
  <2>2. s # Gone BY <1>8, <2>1 DEF Live, NoKey
  <2> QED BY <1>2, <2>1, <2>2 DEF Carries
<1> QED BY <1>1, <1>5, <1>6, <1>7, <1>8, Frame DEF rows

LEMMA OAuthSound ==
  ASSUME AccountsTypeOK, ResetsHaveRows, SessionsAreSound, NEW r \in Visits,
         OAuthFind(r) \/ OAuthLink(r) \/ OAuthCreate(r)
  PROVE  SessionsAreSound'
<1>1. auth[r] \in OAuthVisit /\ auth[r].op = "oauth"
  BY VisitTypes DEF OAuthFind, OAuthLink, OAuthCreate, AuthAt
<1>2. registered \subseteq registered' /\ UNCHANGED <<password, refreshKey>>
  BY DEF OAuthFind, OAuthLink, OAuthCreate, rows, redis
<1>3. \A q \in Visits \ {r} : auth'[q] = auth[q]
  BY DEF OAuthFind, OAuthLink, OAuthCreate, AuthGoto, AuthDone, AccountsTypeOK
<1>4. \A u, t : ~ Resetting(r, u) /\ ~ EndsSession(r, t)
  BY <1>1 DEF Resetting, EndsSession
<1>5. \A t \in Tokens : Live(t)' => Live(t) /\ Carries(refreshKey'[t], refreshKey[t])
  BY <1>2 DEF Live, Carries
<1>6. auth'[r] = NoVisit \/ \E pc \in {"store", "link"} : auth'[r] = [auth[r] EXCEPT !.pc = pc]
  BY DEF OAuthFind, OAuthLink, OAuthCreate, AuthGoto, AuthDone, AccountsTypeOK
<1>7. CASE auth'[r] = NoVisit
  <2>1. ~ Brings(r)' BY <1>7 DEF Brings, NoVisit
  <2> QED BY <1>2, <1>3, <1>4, <1>5, <2>1, SlotStep
<1>8. CASE auth'[r] # NoVisit
  <2>1. PICK pc \in {"store", "link"} : auth'[r] = [auth[r] EXCEPT !.pc = pc]
    BY <1>6, <1>8
  <2>2. /\ auth'[r].op = "oauth" /\ auth'[r].user = auth[r].user
        /\ auth'[r].since = auth[r].since /\ auth'[r].raced = auth[r].raced
    BY <1>1, <2>1 DEF OAuthVisit
  <2>3. CASE OAuthFind(r) \/ OAuthLink(r)
    <3>1. Brings(r) BY <2>3 DEF OAuthFind, OAuthLink, AuthAt, Brings
    <3>2. Carries(Brought(r)', Brought(r)) BY <1>1, <2>2 DEF Carries, Brought
    <3> QED BY <1>2, <1>3, <1>4, <1>5, <3>1, <3>2, SlotStep
  <2>4. CASE OAuthCreate(r)
    <3>1. /\ ~ HasRow(auth[r].user)
          /\ registered' = registered \cup {auth[r].user}
      BY <1>8, <2>4 DEF OAuthCreate, AuthDone, AccountsTypeOK
    <3>2. auth[r].user \in Users /\ auth[r].since \in Nat BY <1>1 DEF OAuthVisit
    <3>3. password'[auth[r].user] = 0 BY <1>2, <3>1, <3>2 DEF ResetsHaveRows
    <3>4. Sound(Brought(r))' BY <2>2, <3>1, <3>2, <3>3 DEF Sound, Brought, HasRow
    <3> QED BY <1>2, <1>3, <1>4, <1>5, <3>4, SlotStep
  <2> QED BY <2>3, <2>4
<1> QED BY <1>7, <1>8

\* A new row is nobody's yet: no session counts its password.
LEMMA SignupSound ==
  ASSUME AccountsTypeOK, SessionsAreSound, NEW r \in Visits, SignupCreate(r)
  PROVE  SessionsAreSound'
<1>1. auth[r] \in SignupVisit /\ auth[r].op = "signup"
  BY VisitTypes DEF SignupCreate, AuthAt
<1>2. auth'[r] = NoVisit /\ (\A q \in Visits \ {r} : auth'[q] = auth[q]) /\ UNCHANGED refreshKey
  BY DEF SignupCreate, AuthDone, redis, AccountsTypeOK
<1>3. registered \subseteq registered' /\ \A u \in registered : password'[u] = password[u]
  BY DEF SignupCreate, AccountsTypeOK, HasRow
<1>4. ~ Brings(r)' /\ \A u, t : ~ Resetting(r, u) /\ ~ EndsSession(r, t)
  BY <1>1, <1>2 DEF Brings, NoVisit, Resetting, EndsSession
<1>5. \A t \in Tokens : Live(t)' => Live(t) /\ Carries(refreshKey'[t], refreshKey[t])
  BY <1>2 DEF Live, Carries
<1> QED BY <1>2, <1>3, <1>4, <1>5, SlotStep

LEMMA AdvanceSound ==
  ASSUME AccountsTypeOK, ResetsHaveRows, SessionsAreSound, NEW r \in Visits, VisitAdvances(r)
  PROVE  SessionsAreSound'
<1>1. CASE RefreshDelete(r)
  <2>1. auth[r] \in RefreshVisit /\ auth[r].op = "refresh"
    BY <1>1, VisitTypes DEF RefreshDelete, AuthAt
  <2>2. auth'[r] = [auth[r] EXCEPT !.pc = "store"] /\ \A q \in Visits \ {r} : auth'[q] = auth[q]
    BY <1>1 DEF RefreshDelete, AuthGoto, AccountsTypeOK
  <2>3. Brings(r) /\ Carries(Brought(r)', Brought(r))
    BY <2>1, <2>2 DEF Brings, Brought, Carries, RefreshVisit
  <2>4. \A u, t : ~ Resetting(r, u) /\ ~ EndsSession(r, t)
    BY <2>1 DEF Resetting, EndsSession
  <2>5. \A t \in Tokens : Live(t)' => Live(t) /\ Carries(refreshKey'[t], refreshKey[t])
    BY <1>1, DeleteKeys DEF RefreshDelete
  <2> QED BY <1>1, <2>2, <2>3, <2>4, <2>5, SlotStep DEF RefreshDelete, rows
<1>2. CASE LogoutDelete(r)
  <2>1. auth[r].op = "logout" BY <1>2 DEF LogoutDelete, AuthAt
  <2>2. auth'[r] = NoVisit /\ \A q \in Visits \ {r} : auth'[q] = auth[q]
    BY <1>2 DEF LogoutDelete, AuthDone, AccountsTypeOK
  <2>3. ~ Brings(r)' /\ \A u, t : ~ Resetting(r, u) /\ ~ EndsSession(r, t)
    BY <2>1, <2>2 DEF Brings, NoVisit, Resetting, EndsSession
  <2>4. \A t \in Tokens : Live(t)' => Live(t) /\ Carries(refreshKey'[t], refreshKey[t])
    BY <1>2, DeleteKeys DEF LogoutDelete
  <2> QED BY <1>2, <2>2, <2>3, <2>4, SlotStep DEF LogoutDelete, rows
<1>3. CASE ResetEnd(r)
  <2>1. auth[r].op = "reset" /\ auth[r].pc = "end" BY <1>3 DEF ResetEnd, AuthAt
  <2>2. auth'[r] = NoVisit /\ \A q \in Visits \ {r} : auth'[q] = auth[q]
    BY <1>3 DEF ResetEnd, AuthDone, AccountsTypeOK
  <2>3. ~ Brings(r)' /\ \A u : ~ Resetting(r, u)
    BY <2>1, <2>2 DEF Brings, NoVisit, Resetting
  <2>4. \A t \in Tokens : Live(t)' =>
           /\ Live(t) /\ Carries(refreshKey'[t], refreshKey[t])
           /\ t \in auth[r].found => refreshKey'[t].raced
    BY <1>3, DeleteKeys DEF ResetEnd
  <2>5. \A t \in Tokens : EndsSession(r, t) => t \in auth[r].found
    BY <2>1 DEF EndsSession
  <2> QED BY <1>3, <2>2, <2>3, <2>4, <2>5, SlotStep DEF ResetEnd, rows
<1>4. CASE ForgotStore(r)
  <2>1. auth[r].op = "forgot" BY <1>4 DEF ForgotStore, AuthAt
  <2>2. auth'[r] = NoVisit /\ \A q \in Visits \ {r} : auth'[q] = auth[q]
    BY <1>4 DEF ForgotStore, AuthDone, AccountsTypeOK
  <2>3. ~ Brings(r)' /\ \A u, t : ~ Resetting(r, u) /\ ~ EndsSession(r, t)
    BY <2>1, <2>2 DEF Brings, NoVisit, Resetting, EndsSession
  <2>4. UNCHANGED <<rows, refreshKey>> BY <1>4 DEF ForgotStore
  <2>5. \A t \in Tokens : Live(t)' => Live(t) /\ Carries(refreshKey'[t], refreshKey[t])
    BY <2>4 DEF Live, Carries
  <2> QED BY <2>2, <2>3, <2>4, <2>5, SlotStep DEF rows
<1>5. CASE ResetSpend(r)
  <2>1. auth[r] \in ResetVisit /\ auth[r].op = "reset"
    BY <1>5, VisitTypes DEF ResetSpend, AuthAt
  <2>2. auth'[r] = [auth[r] EXCEPT !.pc = "scan"] /\ \A q \in Visits \ {r} : auth'[q] = auth[q]
    BY <1>5 DEF ResetSpend, AuthGoto, AccountsTypeOK
  <2>3. auth'[r].op = "reset" /\ auth'[r].user = auth[r].user /\ auth'[r].pc = "scan"
    BY <2>1, <2>2 DEF ResetVisit
  <2>4. UNCHANGED <<rows, refreshKey>> BY <1>5 DEF ResetSpend
  <2>5. /\ ~ Brings(r)' /\ \A u : Resetting(r, u) => Resetting(r, u)'
        /\ \A t : EndsSession(r, t) => EndsSession(r, t)'
    BY <2>3, <2>4 DEF Brings, Resetting, EndsSession
  <2>6. \A t \in Tokens : Live(t)' => Live(t) /\ Carries(refreshKey'[t], refreshKey[t])
    BY <2>4 DEF Live, Carries
  <2> QED BY <2>2, <2>4, <2>5, <2>6, SlotStep DEF rows
<1> QED
  BY <1>1, <1>2, <1>3, <1>4, <1>5, SignupSound, StoreSound, OAuthSound, UpdateSound, ScanSound
  DEF VisitAdvances

LEMMA VisitStepSound ==
  ASSUME AccountsTypeOK, ResetsHaveRows, SessionsAreSound, [AccountsNext]_accountsVars
  PROVE  SessionsAreSound'
<1>1. ASSUME UNCHANGED <<rows, auth>>,
             \A t \in Tokens : Live(t)' => Live(t) /\ refreshKey'[t] = refreshKey[t]
      PROVE  SessionsAreSound'
  <2>1. \A q \in Visits : /\ Brings(q)' => (Brings(q) /\ Carries(Brought(q)', Brought(q)))
                          /\ \A u : Resetting(q, u) => Resetting(q, u)'
    BY <1>1 DEF Brings, Brought, Carries, Resetting
  <2>2. \A t \in Tokens : Live(t)' =>
           /\ Live(t) /\ Carries(refreshKey'[t], refreshKey[t])
           /\ \A q \in Visits : EndsSession(q, t) => EndsSession(q, t)'
    BY <1>1 DEF Carries, EndsSession
  <2> QED BY <1>1, <2>1, <2>2, Frame DEF rows
<1>2. ASSUME NEW t \in Tokens, SessionExpires(t) PROVE SessionsAreSound'
  BY <1>1, <1>2 DEF SessionExpires, AccountsTypeOK, Live, NoKey
<1>3. ASSUME NEW k \in ResetTokens, ResetTokenExpires(k) PROVE SessionsAreSound'
  BY <1>1, <1>3 DEF ResetTokenExpires, Live
<1>4. CASE UNCHANGED accountsVars BY <1>1, <1>4 DEF accountsVars, rows, Live
<1> QED BY <1>2, <1>3, <1>4, BeginSound, AdvanceSound DEF AccountsNext

\* After a reset, sessions of an old password are those its scan deletes or those
\* that overlapped it, for any number of users, tokens and requests.
THEOREM ResetEndsSessions == AccountsSpec => []OldSessionsEnd
<1>1. AccountsInit => ResetsHaveRows /\ SessionsAreSound
  BY DEF AccountsInit, ResetsHaveRows, SessionsAreSound, OldSessionsEnd, Usable, Live,
         NoKey, Brings, NoVisit
<1>2. SessionsAreSound => OldSessionsEnd BY DEF SessionsAreSound
<1> QED
  BY <1>1, <1>2, VisitInitType, VisitStepType, RowsOfResets, VisitStepSound, PTL DEF AccountsSpec
-----------------------------------------------------------------------------
(* Refreshing a token leaves one session of its sign-in                    *)

\* A token is passed on: from a live key to the refresh that has read it, and
\* from there to the next key.  Standing and Passing are the unmarked carriers.
Standing(t) == Live(t) /\ ~ refreshKey[t].raced
Passing(q)  == auth[q].op = "refresh" /\ ~ auth[q].from.raced /\ ~ auth[q].raced

\* A sign-in's token has one unmarked carrier: a key, a refresh, or a refresh
\* that has read the key and is about to delete it.
OneCarrier ==
    /\ \A ta, tb \in Tokens :
          Standing(ta) /\ Standing(tb) /\ refreshKey[ta].family = refreshKey[tb].family
            => ta = tb
    /\ \A q \in Visits, t \in Tokens :
          Passing(q) /\ Standing(t) /\ auth[q].from.family = refreshKey[t].family
            => auth[q].pc = "delete" /\ auth[q].old = t
    /\ \A q1, q2 \in Visits :
          Passing(q1) /\ Passing(q2) /\ auth[q1].from.family = auth[q2].from.family
            => q1 = q2

\* The token of a session's sign-in was issued, so it is not issued again.
FamiliesIssued ==
    /\ \A t \in Tokens : Live(t) => refreshKey[refreshKey[t].family] # Unissued
    /\ \A q \in Visits :
          auth[q].op = "refresh" => refreshKey[auth[q].from.family] # Unissued

\* A session is of some family; so is what a refresh has read.
LEMMA FamilyTypes ==
  ASSUME AccountsTypeOK
  PROVE  /\ \A t \in Tokens : Live(t) => refreshKey[t].family \in Tokens
         /\ \A q \in Visits : auth[q].op = "refresh" => auth[q].from.family \in Tokens
  BY MarkTypes, VisitTypes DEF Session, RefreshVisit

\* A step that makes no carrier, and at most marks, deletes or lets go of those
\* there are.
LEMMA NoNewCarrier ==
  ASSUME AccountsTypeOK, OneCarrier, FamiliesIssued,
         \A t \in Tokens : refreshKey[t] # Unissued => refreshKey'[t] # Unissued,
         \A t \in Tokens : Live(t)' =>
            /\ Live(t) /\ refreshKey'[t].family = refreshKey[t].family
            /\ refreshKey[t].raced => refreshKey'[t].raced,
         \A q \in Visits : auth'[q].op = "refresh" =>
            /\ auth[q].op = "refresh" /\ auth'[q].from = auth[q].from
            /\ Passing(q)' => auth'[q] = auth[q]
  PROVE  OneCarrier' /\ FamiliesIssued'
<1>1. \A t \in Tokens : Standing(t)' =>
         Standing(t) /\ refreshKey'[t].family = refreshKey[t].family
  BY DEF Standing
<1>2. \A q \in Visits : Passing(q)' => Passing(q) /\ auth'[q] = auth[q]
  BY DEF Passing
<1>3. OneCarrier' BY <1>1, <1>2 DEF OneCarrier
<1>4. FamiliesIssued' BY FamilyTypes DEF FamiliesIssued
<1> QED BY <1>3, <1>4

\* Deleting keys, or failing to, makes no carrier.
LEMMA DeletedCarriers ==
  ASSUME AccountsTypeOK, NEW ts, DeleteSessions(ts)
  PROVE  /\ \A t \in Tokens : refreshKey[t] # Unissued => refreshKey'[t] # Unissued
         /\ \A t \in Tokens : Live(t)' =>
               /\ Live(t) /\ refreshKey'[t].family = refreshKey[t].family
               /\ refreshKey[t].raced => refreshKey'[t].raced
               /\ t \in ts => refreshKey'[t].raced
<1>1. CASE refreshKey' = [t \in Tokens |-> IF t \in ts THEN Gone ELSE refreshKey[t]]
  BY <1>1 DEF Live, NoKey, Gone, Unissued
<1>2. CASE refreshKey' = [t \in Tokens |-> IF t \in ts /\ Live(t) THEN Raced(refreshKey[t])
                                                                ELSE refreshKey[t]]
  <2>1. ASSUME NEW t \in Tokens, Live(t)
        PROVE  /\ Raced(refreshKey[t]).family = refreshKey[t].family
               /\ Raced(refreshKey[t]).raced
               /\ Raced(refreshKey[t]) \notin NoKey
    <3>1. refreshKey[t] \in Session /\ Raced(refreshKey[t]) \in Session BY <2>1, MarkTypes
    <3> QED BY <3>1 DEF Raced, Session, NoKey, Gone, Unissued
  <2> QED BY <1>2, <2>1 DEF Live, NoKey
<1> QED BY <1>1, <1>2 DEF DeleteSessions

\* A sign-in stores a session of a family of its own; a refresh hands on the
\* session it has read, and is then gone.
LEMMA StoreKeepsOne ==
  ASSUME AccountsTypeOK, OneCarrier, FamiliesIssued, NEW r \in Visits,
         LoginStore(r) \/ OAuthStore(r) \/ RefreshStore(r)
  PROVE  OneCarrier' /\ FamiliesIssued'
<1>1. AuthDone(r) /\ Brings(r) BY StoreSteps
<1>2. auth'[r] = NoVisit /\ \A q \in Visits \ {r} : auth'[q] = auth[q]
  BY <1>1 DEF AuthDone, AccountsTypeOK
<1>3. PICK t \in Tokens, s \in Session \cup {Gone} :
        /\ refreshKey[t] = Unissued
        /\ refreshKey' = [refreshKey EXCEPT ![t] = s]
        /\ s # Gone =>
             \/ s.family = t
             \/ /\ auth[r].op = "refresh" /\ auth[r].pc = "store"
                /\ s.family = auth[r].from.family
                /\ ~ s.raced => Passing(r)
  <2>1. CASE LoginStore(r) \/ OAuthStore(r)
    <3>1. PICK t \in Tokens :
            /\ refreshKey[t] = Unissued
            /\ \/ refreshKey' = [refreshKey EXCEPT ![t] =
                     [user |-> auth[r].user, since |-> auth[r].since,
                      family |-> t, raced |-> auth[r].raced]]
               \/ refreshKey' = [refreshKey EXCEPT ![t] = Gone]
      BY <2>1 DEF LoginStore, OAuthStore, StoreSession
    <3> DEFINE s == [user |-> auth[r].user, since |-> auth[r].since,
                     family |-> t, raced |-> auth[r].raced]
    <3>2. /\ auth[r].user \in Users /\ auth[r].since \in Nat /\ auth[r].raced \in BOOLEAN
      BY <2>1, VisitTypes DEF LoginStore, OAuthStore, AuthAt, SigninVisit, OAuthVisit
    <3>3. s \in Session /\ s.family = t BY <3>2 DEF Session
    <3> HIDE DEF s
    <3>4. refreshKey' = [refreshKey EXCEPT ![t] = s] \/ refreshKey' = [refreshKey EXCEPT ![t] = Gone]
      BY <3>1 DEF s
    <3> QED BY <3>1, <3>3, <3>4
  <2>2. CASE RefreshStore(r)
    <3> DEFINE s == [auth[r].from EXCEPT !.raced = @ \/ auth[r].raced]
    <3>1. PICK t \in Tokens :
            /\ refreshKey[t] = Unissued
            /\ \/ refreshKey' = [refreshKey EXCEPT ![t] = s]
               \/ refreshKey' = [refreshKey EXCEPT ![t] = Gone]
      BY <2>2 DEF RefreshStore, StoreSession
    <3>2. /\ auth[r].op = "refresh" /\ auth[r].pc = "store"
          /\ auth[r].from \in Session /\ auth[r].raced \in BOOLEAN
      BY <2>2, VisitTypes DEF RefreshStore, AuthAt, RefreshVisit
    <3>3. s \in Session /\ s.family = auth[r].from.family BY <3>2 DEF Session
    <3>4. ~ s.raced => Passing(r) BY <3>2 DEF Passing, Session
    <3> HIDE DEF s
    <3> QED BY <3>1, <3>2, <3>3, <3>4
  <2> QED BY <2>1, <2>2
<1>4. refreshKey'[t] = s /\ \A x \in Tokens \ {t} : refreshKey'[x] = refreshKey[x]
  BY <1>3 DEF AccountsTypeOK
<1>5. s # Unissued /\ ~ Live(t) BY <1>3 DEF Session, Unissued, Gone, Live, NoKey
<1>6. CASE s = Gone
  <2>1. \A x \in Tokens : Live(x)' => Live(x) /\ refreshKey'[x] = refreshKey[x]
    BY <1>4, <1>6 DEF Live, NoKey
  <2>2. \A x \in Tokens : refreshKey[x] # Unissued => refreshKey'[x] # Unissued
    BY <1>3, <1>4
  <2>3. \A q \in Visits : auth'[q].op = "refresh" => auth'[q] = auth[q]
    BY <1>2 DEF NoVisit
  <2> QED BY <2>1, <2>2, <2>3, NoNewCarrier
<1>7. CASE s # Gone
  <2>1. \A x \in Tokens : Live(x) => x # t BY <1>5
  <2>2. \A q \in Visits : Passing(q)' => q # r /\ Passing(q) /\ auth'[q] = auth[q]
    BY <1>2 DEF Passing, NoVisit
  <2>3. \A x \in Tokens : x # t => (Standing(x)' <=> Standing(x)) /\ refreshKey'[x] = refreshKey[x]
    BY <1>4 DEF Standing, Live
  <2>4. \A x \in Tokens : Live(x) => refreshKey[x].family # t
    BY <1>3 DEF FamiliesIssued
  <2>5. \A q \in Visits : auth[q].op = "refresh" => auth[q].from.family # t
    BY <1>3 DEF FamiliesIssued
  <2>6. ASSUME Standing(t)', NEW x \in Tokens, x # t, Standing(x)
        PROVE  s.family # refreshKey[x].family
    <3>1. CASE s.family = t BY <2>4, <2>6, <3>1 DEF Standing
    <3>2. CASE s.family # t
      <4>1. ~ s.raced BY <1>4, <2>6 DEF Standing
      <4> QED BY <1>3, <1>7, <2>6, <3>2, <4>1 DEF OneCarrier
    <3> QED BY <3>1, <3>2
  <2>7. ASSUME Standing(t)', NEW q \in Visits, q # r, Passing(q)
        PROVE  s.family # auth[q].from.family
    <3>1. CASE s.family = t BY <2>5, <2>7, <3>1 DEF Passing
    <3>2. CASE s.family # t
      <4>1. ~ s.raced BY <1>4, <2>7 DEF Standing
      <4> QED BY <1>3, <1>7, <2>7, <3>2, <4>1 DEF OneCarrier
    <3> QED BY <3>1, <3>2
  <2>8. OneCarrier'
    <3>1. ASSUME NEW ta \in Tokens, NEW tb \in Tokens, Standing(ta)', Standing(tb)',
                 refreshKey'[ta].family = refreshKey'[tb].family
          PROVE  ta = tb
      BY <1>4, <2>3, <2>6, <3>1 DEF OneCarrier
    <3>2. ASSUME NEW q \in Visits, NEW x \in Tokens, Passing(q)', Standing(x)',
                 auth'[q].from.family = refreshKey'[x].family
          PROVE  auth'[q].pc = "delete" /\ auth'[q].old = x
      BY <1>4, <2>2, <2>3, <2>7, <3>2 DEF OneCarrier
    <3>3. ASSUME NEW q1 \in Visits, NEW q2 \in Visits, Passing(q1)', Passing(q2)',
                 auth'[q1].from.family = auth'[q2].from.family
          PROVE  q1 = q2
      BY <2>2, <3>3 DEF OneCarrier
    <3> QED BY <3>1, <3>2, <3>3 DEF OneCarrier
  <2>9. FamiliesIssued'
    <3>1. \A x \in Tokens : refreshKey[x] # Unissued => refreshKey'[x] # Unissued
      BY <1>3, <1>4
    <3>2. ASSUME NEW x \in Tokens, Live(x)' PROVE refreshKey'[refreshKey'[x].family] # Unissued
      <4>1. CASE x = t
        BY <1>3, <1>4, <1>5, <1>7, <3>1, <4>1, FamilyTypes DEF FamiliesIssued
      <4>2. CASE x # t BY <1>4, <3>1, <3>2, <4>2, FamilyTypes DEF FamiliesIssued, Live
      <4> QED BY <4>1, <4>2
    <3>3. \A q \in Visits : auth'[q].op = "refresh" =>
             refreshKey'[auth'[q].from.family] # Unissued
      BY <1>2, <3>1, FamilyTypes DEF FamiliesIssued, NoVisit
    <3> QED BY <3>2, <3>3 DEF FamiliesIssued
  <2> QED BY <2>8, <2>9
<1> QED BY <1>6, <1>7

\* A refresh that reads a key another one is passing on is marked, and marks it.
LEMMA RefreshKeepsOne ==
  ASSUME AccountsTypeOK, OneCarrier, FamiliesIssued, NEW r \in Visits, NEW t \in Tokens,
         RefreshScan(r, t)
  PROVE  OneCarrier' /\ FamiliesIssued'
<1> DEFINE rivals == {q \in Visits : auth[q].op = "refresh" /\ auth[q].old = t}
<1>1. UNCHANGED refreshKey /\ auth[r] = NoVisit /\ Live(t)
  BY DEF RefreshScan, redis
<1>2. PICK raced \in BOOLEAN :
        /\ auth'[r] = [op |-> "refresh", pc |-> "delete", old |-> t,
                       from |-> refreshKey[t], raced |-> raced]
        /\ rivals # {} => raced
  <2> DEFINE resets == {q \in Visits : /\ AuthAt(q, "reset", "end")
                                       /\ auth[q].user = refreshKey[t].user}
             raced  == rivals \cup resets # {}
  <2>1. auth'[r] = [op |-> "refresh", pc |-> "delete", old |-> t,
                    from |-> refreshKey[t], raced |-> raced]
    BY DEF RefreshScan
  <2>2. PICK b \in BOOLEAN : b = raced OBVIOUS
  <2> QED BY <2>1, <2>2
<1>3. ASSUME NEW q \in Visits \ {r}, auth'[q].op = "refresh"
      PROVE  /\ auth[q].op = "refresh" /\ auth'[q].from = auth[q].from
             /\ Passing(q)' => auth'[q] = auth[q] /\ q \notin rivals
  <2>1. auth'[q] = IF q \in rivals THEN Mark(auth[q]) ELSE auth[q]
    BY DEF RefreshScan, Mark
  <2>2. CASE q \in rivals
    <3>1. SigningIn(q) /\ auth'[q] = Mark(auth[q]) BY <2>1, <2>2 DEF SigningIn
    <3>2. auth'[q].raced = TRUE /\ auth'[q].from = auth[q].from BY <2>2, <3>1, VisitsMarked
    <3> QED BY <2>2, <3>2 DEF Passing
  <2>3. CASE q \notin rivals
    <3> HIDE DEF rivals
    <3> QED BY <1>3, <2>1, <2>3
  <2> QED BY <2>2, <2>3
<1>4. \A x \in Tokens : (Standing(x)' <=> Standing(x)) /\ refreshKey'[x] = refreshKey[x]
  BY <1>1 DEF Standing, Live
<1>5. ASSUME Passing(r)'
      PROVE  Standing(t) /\ auth'[r].from.family = refreshKey[t].family /\ rivals = {}
             /\ auth'[r].pc = "delete" /\ auth'[r].old = t
  BY <1>1, <1>2, <1>5 DEF Passing, Standing
<1>6. ASSUME NEW q \in Visits \ {r}, Passing(q)'
      PROVE  Passing(q) /\ auth'[q] = auth[q] /\ q \notin rivals
  BY <1>3, <1>6 DEF Passing
<1>7. ASSUME Passing(r)', NEW q \in Visits \ {r}, Passing(q)'
      PROVE  auth'[q].from.family # refreshKey[t].family
  <2>1. Standing(t) /\ rivals = {} BY <1>5, <1>7
  <2>2. Passing(q) /\ auth'[q] = auth[q] BY <1>6, <1>7
  <2>3. auth[q].from.family = refreshKey[t].family => q \in rivals
    BY <2>1, <2>2 DEF OneCarrier, Passing
  <2> HIDE DEF rivals
  <2> QED BY <2>1, <2>2, <2>3
<1> HIDE DEF rivals
<1>8. OneCarrier'
  <2>1. (\A ta, tb \in Tokens :
          Standing(ta) /\ Standing(tb) /\ refreshKey[ta].family = refreshKey[tb].family
            => ta = tb)'
    BY <1>4 DEF OneCarrier
  <2>2. ASSUME NEW q \in Visits, NEW x \in Tokens, Passing(q)', Standing(x)',
               auth'[q].from.family = refreshKey'[x].family
        PROVE  auth'[q].pc = "delete" /\ auth'[q].old = x
    <3>1. CASE q = r BY <1>4, <1>5, <2>2, <3>1 DEF OneCarrier
    <3>2. CASE q # r BY <1>4, <1>6, <2>2, <3>2 DEF OneCarrier
    <3> QED BY <3>1, <3>2
  <2>3. ASSUME NEW q1 \in Visits, NEW q2 \in Visits, Passing(q1)', Passing(q2)',
               auth'[q1].from.family = auth'[q2].from.family
        PROVE  q1 = q2
    <3>1. CASE q1 # r /\ q2 # r BY <1>6, <2>3, <3>1 DEF OneCarrier
    <3>2. CASE q1 = r /\ q2 # r BY <1>5, <1>7, <2>3, <3>2
    <3>3. CASE q2 = r /\ q1 # r BY <1>5, <1>7, <2>3, <3>3
    <3> QED BY <3>1, <3>2, <3>3
  <2> QED BY <2>1, <2>2, <2>3 DEF OneCarrier
<1>9. FamiliesIssued' BY <1>1, <1>2, <1>3, FamilyTypes DEF FamiliesIssued, Live
<1> QED BY <1>8, <1>9

\* The key a refresh deletes, or fails to, is the one it stands beside.
LEMMA DeleteKeepsOne ==
  ASSUME AccountsTypeOK, OneCarrier, FamiliesIssued, NEW r \in Visits, RefreshDelete(r)
  PROVE  OneCarrier' /\ FamiliesIssued'
<1>1. auth[r] \in RefreshVisit /\ auth[r].op = "refresh"
  BY VisitTypes DEF RefreshDelete, AuthAt
<1>2. auth'[r] = [auth[r] EXCEPT !.pc = "store"] /\ \A q \in Visits \ {r} : auth'[q] = auth[q]
  BY DEF RefreshDelete, AuthGoto, AccountsTypeOK
<1>3. /\ auth'[r].op = "refresh" /\ auth'[r].from = auth[r].from
      /\ Passing(r)' <=> Passing(r)
  BY <1>1, <1>2 DEF RefreshVisit, Passing
<1>4. /\ \A t \in Tokens : refreshKey[t] # Unissued => refreshKey'[t] # Unissued
      /\ \A t \in Tokens : Live(t)' =>
            /\ Live(t) /\ refreshKey'[t].family = refreshKey[t].family
            /\ refreshKey[t].raced => refreshKey'[t].raced
            /\ t = auth[r].old => refreshKey'[t].raced
  BY DeletedCarriers DEF RefreshDelete
<1>5. \A t \in Tokens : Standing(t)' => /\ Standing(t) /\ t # auth[r].old
                                        /\ refreshKey'[t].family = refreshKey[t].family
  BY <1>4 DEF Standing
<1>6. \A q \in Visits : Passing(q)' => Passing(q) /\ auth'[q].from = auth[q].from
  BY <1>2, <1>3 DEF Passing
<1>7. OneCarrier'
  <2>1. ASSUME NEW q \in Visits, NEW x \in Tokens, Passing(q)', Standing(x)',
               auth'[q].from.family = refreshKey'[x].family
        PROVE  auth'[q].pc = "delete" /\ auth'[q].old = x
    <3>1. Passing(q) /\ Standing(x) /\ auth[q].from.family = refreshKey[x].family
          /\ x # auth[r].old
      BY <1>5, <1>6, <2>1
    <3>2. auth[q].pc = "delete" /\ auth[q].old = x BY <3>1 DEF OneCarrier
    <3> QED BY <1>2, <3>1, <3>2
  <2> QED BY <1>5, <1>6, <2>1 DEF OneCarrier
<1>8. FamiliesIssued'
  <2>1. \A t \in Tokens : Live(t)' => refreshKey'[refreshKey'[t].family] # Unissued
    BY <1>4, FamilyTypes DEF FamiliesIssued
  <2>2. \A q \in Visits : auth'[q].op = "refresh" =>
           auth[q].op = "refresh" /\ auth'[q].from = auth[q].from
    BY <1>1, <1>2, <1>3
  <2>3. \A q \in Visits : auth'[q].op = "refresh" =>
           refreshKey'[auth'[q].from.family] # Unissued
    BY <1>4, <2>2, FamilyTypes DEF FamiliesIssued
  <2> QED BY <2>1, <2>3 DEF FamiliesIssued
<1> QED BY <1>7, <1>8

LEMMA StepKeepsOne ==
  ASSUME AccountsTypeOK, OneCarrier, FamiliesIssued, [AccountsNext]_accountsVars
  PROVE  OneCarrier' /\ FamiliesIssued'
<1>1. ASSUME UNCHANGED refreshKey,
             \A q \in Visits : auth'[q].op = "refresh" => auth'[q] = auth[q]
      PROVE  OneCarrier' /\ FamiliesIssued'
  BY <1>1, NoNewCarrier DEF Live
<1>2. ASSUME NEW r \in Visits, VisitBegins(r), ~ \E t \in Tokens : RefreshScan(r, t)
      PROVE  OneCarrier' /\ FamiliesIssued'
  <2> DEFINE Enters == UNCHANGED refreshKey /\ \E v : AuthEnter(r, v) /\ v.op # "refresh"
  <2>1. Enters
    <3>1. ASSUME NEW u \in Users, SignupRead(r, u) PROVE Enters
      BY <3>1 DEF SignupRead, redis
    <3>2. ASSUME NEW u \in Users, LoginRead(r, u) PROVE Enters
      BY <3>2 DEF LoginRead, redis
    <3>3. ASSUME NEW u \in Users, ForgotRead(r, u) PROVE Enters
      BY <3>3 DEF ForgotRead, redis
    <3>4. ASSUME NEW u \in Users, NEW i \in AccountIds, OAuthRead(r, u, i) PROVE Enters
      BY <3>4 DEF OAuthRead, redis
    <3>5. ASSUME NEW t \in Tokens, LogoutScan(r, t) PROVE Enters
      BY <3>5 DEF LogoutScan, redis
    <3>6. ASSUME NEW k \in ResetTokens, ResetRead(r, k) PROVE Enters
      BY <3>6 DEF ResetRead, redis
    <3> QED BY <1>2, <3>1, <3>2, <3>3, <3>4, <3>5, <3>6 DEF VisitBegins
  <2>2. \A q \in Visits : auth'[q].op = "refresh" => auth'[q] = auth[q]
    BY <2>1 DEF AuthEnter, AccountsTypeOK
  <2> QED BY <1>1, <2>1, <2>2
<1>3. ASSUME NEW r \in Visits, NEW ts, DeleteSessions(ts), AuthDone(r)
      PROVE  OneCarrier' /\ FamiliesIssued'
  <2>1. \A q \in Visits : auth'[q].op = "refresh" => auth'[q] = auth[q]
    BY <1>3 DEF AuthDone, NoVisit, AccountsTypeOK
  <2> QED BY <1>3, <2>1, DeletedCarriers, NoNewCarrier
<1>4. ASSUME NEW r \in Visits,
             \/ SignupCreate(r) \/ OAuthFind(r) \/ OAuthLink(r) \/ OAuthCreate(r)
             \/ ForgotStore(r) \/ ResetUpdate(r) \/ ResetSpend(r)
      PROVE  OneCarrier' /\ FamiliesIssued'
  <2>1. UNCHANGED refreshKey
    BY <1>4 DEF SignupCreate, OAuthFind, OAuthLink, OAuthCreate, ForgotStore, ResetUpdate,
                ResetSpend, redis
  <2>2. AuthDone(r) \/ \E pc : AuthGoto(r, pc)
    BY <1>4 DEF SignupCreate, OAuthFind, OAuthLink, OAuthCreate, ForgotStore, ResetUpdate,
                ResetSpend
  <2>3. auth[r] \in SignupVisit \cup OAuthVisit \cup ForgotVisit \cup ResetVisit
    BY <1>4, VisitTypes
    DEF SignupCreate, OAuthFind, OAuthLink, OAuthCreate, ForgotStore, ResetUpdate,
        ResetSpend, AuthAt
  <2>4. auth'[r].op # "refresh"
    <3>1. CASE AuthDone(r) BY <3>1 DEF AuthDone, NoVisit, AccountsTypeOK
    <3>2. ASSUME NEW pc, AuthGoto(r, pc) PROVE auth'[r].op # "refresh"
      <4>1. auth'[r] = [auth[r] EXCEPT !.pc = pc] BY <3>2 DEF AuthGoto, AccountsTypeOK
      <4> QED BY <2>3, <4>1 DEF SignupVisit, OAuthVisit, ForgotVisit, ResetVisit
    <3> QED BY <2>2, <3>1, <3>2
  <2>5. \A q \in Visits : auth'[q].op = "refresh" => auth'[q] = auth[q]
    BY <2>2, <2>4 DEF AuthDone, AuthGoto, AccountsTypeOK
  <2> QED BY <1>1, <2>1, <2>5
<1>5. ASSUME NEW r \in Visits, ResetScan(r) \/ ResetScanFails(r)
      PROVE  OneCarrier' /\ FamiliesIssued'
  <2>1. auth[r] \in ResetVisit BY <1>5, VisitTypes DEF ResetScan, ResetScanFails, AuthAt
  <2>2. \A q \in Visits \ {r} : /\ SigningIn(q) => auth'[q] = Mark(auth[q])
                                /\ ~ SigningIn(q) => auth'[q] = auth[q]
    BY <1>5 DEF ResetScan, ResetScanFails, Mark
  <2>3. auth'[r].op # "refresh"
    <3>1. CASE ResetScan(r)
      <4>1. auth'[r] = [auth[r] EXCEPT !.pc = "end", !.found = SessionsOf(auth[r].user)]
        BY <3>1 DEF ResetScan
      <4> QED BY <2>1, <4>1 DEF ResetVisit
    <3>2. CASE ResetScanFails(r) BY <3>2 DEF ResetScanFails, NoVisit
    <3> QED BY <1>5, <3>1, <3>2
  <2>4. ASSUME NEW q \in Visits, auth'[q].op = "refresh"
        PROVE  /\ auth[q].op = "refresh" /\ auth'[q].from = auth[q].from
               /\ Passing(q)' => auth'[q] = auth[q]
    <3>1. q # r BY <2>3, <2>4
    <3>2. SigningIn(q) /\ auth'[q] = Mark(auth[q]) BY <2>2, <2>4, <3>1 DEF SigningIn
    <3>3. auth'[q].op = auth[q].op /\ auth'[q].raced = TRUE BY <3>2, VisitsMarked
    <3>4. auth[q].op = "refresh" BY <2>4, <3>3
    <3>5. auth'[q].from = auth[q].from BY <3>2, <3>4, VisitsMarked
    <3> QED BY <3>3, <3>4, <3>5 DEF Passing
  <2>5. /\ \A t \in Tokens : refreshKey[t] # Unissued => refreshKey'[t] # Unissued
        /\ \A t \in Tokens : Live(t)' =>
              /\ Live(t) /\ refreshKey'[t].family = refreshKey[t].family
              /\ refreshKey[t].raced => refreshKey'[t].raced
    <3>1. CASE UNCHANGED refreshKey BY <3>1 DEF Live
    <3>2. CASE refreshKey' = [t \in Tokens |-> IF Live(t) THEN Raced(refreshKey[t])
                                                          ELSE refreshKey[t]]
      <4>1. ASSUME NEW t \in Tokens, Live(t)
            PROVE  /\ Raced(refreshKey[t]).family = refreshKey[t].family
                   /\ Raced(refreshKey[t]).raced
                   /\ Raced(refreshKey[t]) # Unissued
        <5>1. refreshKey[t] \in Session /\ Raced(refreshKey[t]) \in Session
          BY <4>1, MarkTypes
        <5> QED BY <5>1 DEF Raced, Session, Unissued
      <4> QED BY <3>2, <4>1 DEF Live
    <3> QED BY <1>5, <3>1, <3>2 DEF ResetScan, ResetScanFails, redis
  <2> QED BY <2>4, <2>5, NoNewCarrier
<1>6. ASSUME NEW t \in Tokens, SessionExpires(t) PROVE OneCarrier' /\ FamiliesIssued'
  <2>1. /\ \A x \in Tokens : refreshKey[x] # Unissued => refreshKey'[x] # Unissued
        /\ \A x \in Tokens : Live(x)' => Live(x) /\ refreshKey'[x] = refreshKey[x]
    BY <1>6 DEF SessionExpires, AccountsTypeOK, Live, NoKey, Gone, Unissued
  <2> QED BY <1>6, <2>1, NoNewCarrier DEF SessionExpires
<1>7. ASSUME NEW k \in ResetTokens, ResetTokenExpires(k) PROVE OneCarrier' /\ FamiliesIssued'
  BY <1>1, <1>7 DEF ResetTokenExpires
<1>8. CASE UNCHANGED accountsVars BY <1>1, <1>8 DEF accountsVars
<1>9. ASSUME NEW r \in Visits, LogoutDelete(r) \/ ResetEnd(r)
      PROVE  OneCarrier' /\ FamiliesIssued'
  BY <1>3, <1>9 DEF LogoutDelete, ResetEnd
<1>10. ASSUME NEW r \in Visits, VisitAdvances(r) PROVE OneCarrier' /\ FamiliesIssued'
  BY <1>4, <1>5, <1>9, <1>10, StoreKeepsOne, DeleteKeepsOne DEF VisitAdvances
<1>11. ASSUME NEW r \in Visits, VisitBegins(r) PROVE OneCarrier' /\ FamiliesIssued'
  BY <1>2, <1>11, RefreshKeepsOne
<1> QED BY <1>6, <1>7, <1>8, <1>10, <1>11 DEF AccountsNext

\* However refreshes, resets and expiries interleave, a sign-in has one live
\* session, unless two refreshes of one token overlapped or Redis failed, for any
\* number of users, tokens and requests.
THEOREM RotationIsExclusive == AccountsSpec => []RotationKeepsOne
<1>1. AccountsInit => OneCarrier /\ FamiliesIssued
  BY DEF AccountsInit, OneCarrier, FamiliesIssued, Standing, Passing, Live, NoKey, NoVisit
<1>2. OneCarrier => RotationKeepsOne
  BY DEF OneCarrier, RotationKeepsOne, Standing
<1> QED
  BY <1>1, <1>2, VisitInitType, VisitStepType, StepKeepsOne, PTL DEF AccountsSpec

-----------------------------------------------------------------------------
(* The connection to Jira                                                  *)

\* A request works from a copy of the row, or brings a new token.
HasCopy(r)  == JiraAt(r, "refresh") \/ JiraAt(r, "write")
HasToken(r) == JiraAt(r, "upsert") \/ JiraAt(r, "write")

Copied(r) ==
    /\ jira[r].row.token.number <= issued
    /\ jira[r].row.token.site = jira[r].row.site \/ jira[r].row.mixed
    /\ Connected /\ integration.token = jira[r].row.token =>
          /\ integration.id = jira[r].row.id
          /\ integration.site = jira[r].row.site
          /\ integration.mixed = jira[r].row.mixed

Carried(r) ==
    /\ jira[r].token.number <= issued
    /\ jira[r].token \in valid
    /\ Connected => integration.token # jira[r].token
    /\ \A q \in JiraCalls : HasCopy(q) => jira[q].row.token # jira[r].token
    /\ \A q \in JiraCalls : HasToken(q) /\ q # r => jira[q].token # jira[r].token
    /\ JiraAt(r, "write") => jira[r].token.site = jira[r].row.token.site

\* The inductive invariant.
TokensAreSound ==
    /\ Connected => integration.token.number <= issued
    /\ \A r \in JiraCalls : HasCopy(r) => Copied(r)
    /\ \A r \in JiraCalls : HasToken(r) => Carried(r)
    /\ ConnectionStaysAlive
    /\ TokenMatchesSite

-----------------------------------------------------------------------------
(* Type correctness                                                        *)

\* What a request holds, by where it stands.
LEMMA JiraCallTypes ==
  ASSUME JiraTypeOK, NEW r \in JiraCalls
  PROVE  /\ HasCopy(r) => jira[r].row \in Integration /\ jira[r].op \in {"options", "config"}
         /\ HasToken(r) => jira[r].token \in Token
         /\ JiraAt(r, "delete") \/ JiraAt(r, "exchange") => jira[r] \in CallbackCall
         /\ JiraAt(r, "delete") => jira[r].state \in OAuthStates
         /\ JiraAt(r, "save") => jira[r].site \in Sites
<1>1. jira[r] \in {NoJira} \cup CallbackCall \cup AccessCall BY DEF JiraTypeOK
<1> QED BY <1>1 DEF NoJira, CallbackCall, AccessCall, HasCopy, HasToken, JiraAt

\* The provider's next token, while it has one left.
LEMMA NewTokenType ==
  ASSUME JiraTypeOK, issued < MaxTokens, NEW s \in Sites
  PROVE  NewToken(s) \in Token /\ NewToken(s).number = issued + 1 /\ NewToken(s).site = s
  BY JiraAssumption DEF JiraTypeOK, NewToken, Token

\* A connection stays a row when it is made over, refreshed or configured.
LEMMA RowTypes ==
  ASSUME JiraTypeOK
  PROVE  /\ Connected => integration \in Integration
         /\ \A t \in Token : Upsert(t) \in Integration
         /\ \A r \in JiraCalls :
               Connected /\ JiraAt(r, "write") =>
                 /\ Refreshed(r) \in Integration
                 /\ Refreshed(r).token = jira[r].token
                 /\ Refreshed(r).id = integration.id
                 /\ Refreshed(r).site = integration.site
                 /\ Refreshed(r).mixed =
                       (jira[r].row.mixed \/ integration.token # jira[r].row.token)
<1>1. Connected => integration \in Integration BY DEF JiraTypeOK, Connected
<1>2. ASSUME NEW t \in Token PROVE Upsert(t) \in Integration
  BY <1>1 DEF Upsert, Integration, Token
<1>3. ASSUME NEW r \in JiraCalls, Connected, JiraAt(r, "write")
      PROVE  /\ Refreshed(r) \in Integration
             /\ Refreshed(r).token = jira[r].token
             /\ Refreshed(r).id = integration.id
             /\ Refreshed(r).site = integration.site
             /\ Refreshed(r).mixed =
                   (jira[r].row.mixed \/ integration.token # jira[r].row.token)
  <2>1. jira[r].row \in Integration /\ jira[r].token \in Token
    BY <1>3, JiraCallTypes DEF HasCopy, HasToken
  <2>2. integration \in Integration BY <1>1, <1>3
  <2>3. jira[r].row.mixed \in BOOLEAN BY <2>1 DEF Integration
  <2> QED BY <2>1, <2>2, <2>3 DEF Refreshed, Integration
<1> QED BY <1>1, <1>2, <1>3

LEMMA JiraInitType == JiraInit => JiraTypeOK
  BY JiraAssumption DEF JiraInit, JiraTypeOK, NoJira

LEMMA JiraStepType == JiraTypeOK /\ [JiraNext]_jiraVars => JiraTypeOK'
<1> SUFFICES ASSUME JiraTypeOK, [JiraNext]_jiraVars PROVE JiraTypeOK'
  OBVIOUS
<1> USE DEF provider, JiraSet, JiraDone
<1>1. ASSUME NEW st \in OAuthStates, StartOAuth(st) \/ StateExpires(st) PROVE JiraTypeOK'
  BY <1>1 DEF StartOAuth, StateExpires, JiraTypeOK
<1>2. ASSUME NEW r \in JiraCalls, NEW st \in OAuthStates, CallbackRead(r, st) PROVE JiraTypeOK'
  BY <1>2 DEF CallbackRead, JiraTypeOK, CallbackCall
<1>3. ASSUME NEW r \in JiraCalls, CallbackDelete(r) PROVE JiraTypeOK'
  <2>1. jira[r] \in CallbackCall /\ jira[r].pc = "delete"
    BY <1>3, JiraCallTypes DEF CallbackDelete, JiraAt
  <2>2. [jira[r] EXCEPT !.pc = "exchange"] \in CallbackCall BY <2>1 DEF CallbackCall
  <2> QED BY <1>3, <2>2 DEF CallbackDelete, JiraTypeOK
<1>4. ASSUME NEW r \in JiraCalls, CallbackExchange(r) PROVE JiraTypeOK'
  <2>1. CASE JiraDone(r) /\ UNCHANGED <<issued, valid>>
    BY <1>4, <2>1 DEF CallbackExchange, JiraTypeOK
  <2>2. ASSUME NEW s \in Sites, issued < MaxTokens, issued' = issued + 1,
               JiraSet(r, [op |-> "callback", pc |-> "upsert", token |-> NewToken(s)]),
               valid' = valid \cup {NewToken(s)}
        PROVE  JiraTypeOK'
    <3>1. NewToken(s) \in Token BY <2>2, NewTokenType
    <3>2. [op |-> "callback", pc |-> "upsert", token |-> NewToken(s)] \in CallbackCall
      BY <3>1 DEF CallbackCall
    <3>3. issued' \in 0..MaxTokens BY <2>2, JiraAssumption DEF JiraTypeOK
    <3> QED BY <1>4, <2>2, <3>1, <3>2, <3>3 DEF CallbackExchange, JiraTypeOK
  <2> QED BY <1>4, <2>1, <2>2 DEF CallbackExchange
<1>5. ASSUME NEW r \in JiraCalls, CallbackUpsert(r) PROVE JiraTypeOK'
  <2>1. Upsert(jira[r].token) \in Integration
    BY <1>5, JiraCallTypes, RowTypes DEF CallbackUpsert, HasToken
  <2> QED BY <1>5, <2>1 DEF CallbackUpsert, JiraTypeOK
<1>6. CASE Disconnect \/ AccessExpires
  <2>1. integration' \in Integration \cup {NotConnected}
    BY <1>6, RowTypes DEF Disconnect, AccessExpires, Integration
  <2> QED BY <1>6, <2>1 DEF Disconnect, AccessExpires, JiraTypeOK
<1>7. ASSUME NEW r \in JiraCalls, NEW op \in {"options", "config"}, AccessRead(r, op)
      PROVE  JiraTypeOK'
  <2>1. integration \in Integration BY <1>7, RowTypes DEF AccessRead
  <2>2. [op |-> op, pc |-> "refresh", row |-> integration] \in AccessCall
    BY <2>1 DEF AccessCall
  <2>3. op = "config" => [op |-> op, pc |-> "save", site |-> integration.site] \in AccessCall
    BY <2>1 DEF AccessCall, Integration
  <2> QED BY <1>7, <2>2, <2>3 DEF AccessRead, Granted, JiraTypeOK
<1>8. ASSUME NEW r \in JiraCalls, AccessRefresh(r) PROVE JiraTypeOK'
  <2> DEFINE old == jira[r].row.token
             new == NewToken(old.site)
  <2>1. jira[r].row \in Integration /\ jira[r].op \in {"options", "config"}
    BY <1>8, JiraCallTypes DEF AccessRefresh, HasCopy
  <2>2. old \in Token /\ old.site \in Sites BY <2>1 DEF Integration, Token
  <2>3. CASE JiraDone(r) /\ UNCHANGED provider
    BY <1>8, <2>3 DEF AccessRefresh, JiraTypeOK
  <2>4. CASE issued < MaxTokens /\ issued' = issued + 1 /\ valid' = (valid \ {old}) \cup {new}
    <3>1. new \in Token BY <2>2, <2>4, NewTokenType
    <3>2. [op |-> jira[r].op, pc |-> "write", row |-> jira[r].row, token |-> new] \in AccessCall
      BY <2>1, <3>1 DEF AccessCall
    <3>3. issued' \in 0..MaxTokens BY <2>4, JiraAssumption DEF JiraTypeOK
    <3>4. valid' \subseteq Token BY <2>4, <3>1 DEF JiraTypeOK
    <3> HIDE DEF new, old
    <3>5. \/ JiraSet(r, [op |-> jira[r].op, pc |-> "write", row |-> jira[r].row, token |-> new])
             /\ UNCHANGED lost
          \/ JiraDone(r) /\ lost' = lost \cup {old}
          \/ JiraDone(r) /\ UNCHANGED provider
      BY <1>8 DEF AccessRefresh, new, old
    <3> QED BY <1>8, <2>2, <3>2, <3>3, <3>4, <3>5 DEF AccessRefresh, JiraTypeOK
  <2> QED BY <1>8, <2>3, <2>4 DEF AccessRefresh
<1>9. ASSUME NEW r \in JiraCalls, AccessWrite(r) PROVE JiraTypeOK'
  <2>1. /\ jira[r].row \in Integration /\ jira[r].op \in {"options", "config"}
        /\ JiraAt(r, "write")
    BY <1>9, JiraCallTypes DEF AccessWrite, HasCopy
  <2>2. CASE integration.id = jira[r].row.id
    <3>1. Connected
      BY <2>1, <2>2 DEF Connected, NotConnected, Integration
    <3>2. Refreshed(r) \in Integration BY <2>1, <3>1, RowTypes
    <3>3. jira[r].op = "config" =>
            [op |-> jira[r].op, pc |-> "save", site |-> jira[r].row.site] \in AccessCall
      BY <2>1 DEF AccessCall, Integration
    <3> QED BY <1>9, <2>2, <3>2, <3>3 DEF AccessWrite, Granted, JiraTypeOK
  <2>3. CASE integration.id # jira[r].row.id
    BY <1>9, <2>3 DEF AccessWrite, JiraTypeOK
  <2> QED BY <2>2, <2>3
<1>10. ASSUME NEW r \in JiraCalls, ConfigSave(r) PROVE JiraTypeOK'
  <2>1. jira[r].site \in Sites BY <1>10, JiraCallTypes DEF ConfigSave
  <2>2. integration' \in Integration \cup {NotConnected}
    BY <1>10, <2>1, RowTypes DEF ConfigSave, JiraTypeOK, Integration
  <2> QED BY <1>10, <2>2 DEF ConfigSave, JiraTypeOK
<1>11. CASE UNCHANGED jiraVars
  BY <1>11 DEF jiraVars, JiraTypeOK
<1> QED
  BY <1>1, <1>2, <1>3, <1>4, <1>5, <1>6, <1>7, <1>8, <1>9, <1>10, <1>11
  DEF JiraNext, JiraAdvances

\* The connection and its requests are well typed, for any sites and bound.
THEOREM JiraTypeCorrect == JiraSpec => []JiraTypeOK
  BY JiraInitType, JiraStepType, PTL DEF JiraSpec

-----------------------------------------------------------------------------
(* Soundness of the tokens                                                 *)

\* A request's step leaves the others where they are.
LEMMA OnlyOne ==
  ASSUME JiraTypeOK, NEW r \in JiraCalls, NEW c, JiraSet(r, c)
  PROVE  jira'[r] = c /\ \A q \in JiraCalls \ {r} : jira'[q] = jira[q]
  BY DEF JiraSet, JiraTypeOK

\* Steps that leave the provider and the row's token alone and bring no token:
\* requests may end or copy the row, but whoever replaces its token goes on.
LEMMA Quiet ==
  ASSUME TokensAreSound, UNCHANGED provider,
         Connected' => /\ Connected
                       /\ integration'.token = integration.token
                       /\ integration'.id = integration.id
                       /\ integration'.site = integration.site
                       /\ integration'.mixed = integration.mixed,
         \A q \in JiraCalls : HasCopy(q)' =>
            \/ HasCopy(q) /\ jira'[q].row = jira[q].row
            \/ Connected /\ jira'[q].row = integration,
         \A q \in JiraCalls : HasToken(q)' =>
            /\ HasToken(q) /\ jira'[q].token = jira[q].token
            /\ JiraAt(q, "write")' => JiraAt(q, "write") /\ jira'[q].row = jira[q].row,
         \A q \in JiraCalls :
            Connected' /\ JiraAt(q, "write") /\ jira[q].row.token = integration.token =>
               JiraAt(q, "write")' /\ jira'[q].row = jira[q].row
  PROVE  TokensAreSound'
<1> USE DEF provider
<1>1. (Connected => integration.token.number <= issued)' BY DEF TokensAreSound
<1>2. ASSUME NEW r \in JiraCalls, HasCopy(r)' PROVE Copied(r)'
  BY <1>2 DEF TokensAreSound, Copied, TokenMatchesSite
<1>3. ASSUME NEW r \in JiraCalls, HasToken(r)' PROVE Carried(r)'
  BY <1>3 DEF TokensAreSound, Carried
<1>4. ConnectionStaysAlive' BY DEF TokensAreSound, ConnectionStaysAlive
<1>5. TokenMatchesSite' BY DEF TokensAreSound, TokenMatchesSite
<1> QED BY <1>1, <1>2, <1>3, <1>4, <1>5 DEF TokensAreSound

\* A request that ends, or goes on with neither a copy nor a token, is quiet when
\* it replaces nothing.
LEMMA QuietEnd ==
  ASSUME JiraTypeOK, TokensAreSound, UNCHANGED provider,
         NEW r \in JiraCalls, NEW c, JiraSet(r, c),
         c.op = "none" \/ c.pc \in {"delete", "exchange", "save"},
         JiraAt(r, "write") /\ Connected => integration.token # jira[r].row.token,
         Connected' => /\ Connected
                       /\ integration'.token = integration.token
                       /\ integration'.id = integration.id
                       /\ integration'.site = integration.site
                       /\ integration'.mixed = integration.mixed
  PROVE  TokensAreSound'
<1>1. jira'[r] = c /\ \A q \in JiraCalls \ {r} : jira'[q] = jira[q] BY OnlyOne
<1>2. ~ HasCopy(r)' /\ ~ HasToken(r)' BY <1>1 DEF HasCopy, HasToken, JiraAt
<1>3. \A q \in JiraCalls : HasCopy(q)' => HasCopy(q) /\ jira'[q].row = jira[q].row
  BY <1>1, <1>2 DEF HasCopy, JiraAt
<1>4. \A q \in JiraCalls : HasToken(q)' =>
        /\ HasToken(q) /\ jira'[q].token = jira[q].token
        /\ JiraAt(q, "write")' => JiraAt(q, "write") /\ jira'[q].row = jira[q].row
  BY <1>1, <1>2 DEF HasToken, JiraAt
<1>5. \A q \in JiraCalls :
        Connected' /\ JiraAt(q, "write") /\ jira[q].row.token = integration.token =>
           JiraAt(q, "write")' /\ jira'[q].row = jira[q].row
  BY <1>1 DEF JiraAt
<1> QED BY <1>3, <1>4, <1>5, Quiet

\* The exchange of a code brings a token nobody has seen.
LEMMA ExchangeSound ==
  ASSUME JiraTypeOK, TokensAreSound, NEW r \in JiraCalls, CallbackExchange(r)
  PROVE  TokensAreSound'
<1>1. CASE JiraDone(r) /\ UNCHANGED <<issued, valid>>
  BY <1>1, QuietEnd DEF CallbackExchange, JiraDone, NoJira, JiraAt, provider, Connected
<1>2. ASSUME NEW s \in Sites, issued < MaxTokens, issued' = issued + 1,
             JiraSet(r, [op |-> "callback", pc |-> "upsert", token |-> NewToken(s)]),
             valid' = valid \cup {NewToken(s)}
      PROVE  TokensAreSound'
  <2> DEFINE new == NewToken(s)
  <2>1. new.number = issued + 1 /\ issued \in Nat
    BY <1>2, NewTokenType, JiraAssumption DEF JiraTypeOK
  <2>2. /\ jira'[r] = [op |-> "callback", pc |-> "upsert", token |-> new]
        /\ \A q \in JiraCalls \ {r} : jira'[q] = jira[q]
    BY <1>2, OnlyOne
  <2>3. integration' = integration /\ lost' = lost BY DEF CallbackExchange
  <2>4. valid' = valid \cup {new} BY <1>2
  <2> HIDE DEF new
  <2>5. \A q \in JiraCalls : HasCopy(q)' => HasCopy(q) /\ jira'[q] = jira[q] /\ q # r
    BY <2>2 DEF HasCopy, JiraAt
  <2>6. \A q \in JiraCalls \ {r} : HasToken(q)' => HasToken(q) /\ jira'[q] = jira[q]
    BY <2>2 DEF HasToken, JiraAt
  <2>7. \A q \in JiraCalls : HasCopy(q) => jira[q].row.token # new
    BY <2>1, JiraCallTypes DEF TokensAreSound, Copied, Integration, Token
  <2>8. \A q \in JiraCalls : HasToken(q) => jira[q].token # new
    BY <2>1, JiraCallTypes DEF TokensAreSound, Carried, Token
  <2>9. Connected => integration.token # new /\ integration.token.number \in Nat
    BY <2>1, RowTypes DEF TokensAreSound, Integration, Token
  <2>10. (Connected => integration.token.number <= issued)'
    BY <1>2, <2>1, <2>3, <2>9 DEF TokensAreSound, Connected
  <2>11. ASSUME NEW q \in JiraCalls, HasCopy(q)' PROVE Copied(q)'
    <3>1. Copied(q) /\ jira[q].row \in Integration BY <2>5, <2>11, JiraCallTypes DEF TokensAreSound
    <3>2. jira[q].row.token.number \in Nat BY <3>1 DEF Integration, Token
    <3> QED BY <1>2, <2>1, <2>3, <2>5, <2>11, <3>1, <3>2 DEF Copied, Connected
  <2>12. Carried(r)'
    <3>1. jira'[r].token = new /\ ~ JiraAt(r, "write")' BY <2>2 DEF JiraAt
    <3>2. jira'[r].token.number <= issued' /\ jira'[r].token \in valid'
      BY <1>2, <2>1, <2>4, <3>1
    <3>3. \A q \in JiraCalls : HasCopy(q)' => jira'[q].row.token # new BY <2>5, <2>7
    <3>4. \A q \in JiraCalls : HasToken(q)' /\ q # r => jira'[q].token # new BY <2>6, <2>8
    <3>5. Connected' => integration'.token # new BY <2>3, <2>9 DEF Connected
    <3> QED BY <3>1, <3>2, <3>3, <3>4, <3>5 DEF Carried
  <2>13. ASSUME NEW q \in JiraCalls, q # r, HasToken(q)' PROVE Carried(q)'
    <3>1. /\ HasToken(q) /\ jira'[q] = jira[q] /\ Carried(q) /\ jira[q].token # new
          /\ jira[q].token \in Token
      BY <2>6, <2>8, <2>13, JiraCallTypes DEF TokensAreSound
    <3>2. jira'[q].token.number <= issued' /\ jira'[q].token \in valid'
      BY <1>2, <2>1, <2>4, <3>1 DEF Carried, Token
    <3>3. \A p \in JiraCalls : HasToken(p)' /\ p # q => jira'[p].token # jira[q].token
      <4>1. jira'[r].token = new BY <2>2
      <4> QED BY <2>6, <3>1, <4>1 DEF Carried
    <3>4. \A p \in JiraCalls : HasCopy(p)' => jira'[p].row.token # jira[q].token
      BY <2>5, <3>1 DEF Carried
    <3>5. JiraAt(q, "write")' => JiraAt(q, "write") BY <3>1 DEF JiraAt
    <3> QED BY <2>3, <3>1, <3>2, <3>3, <3>4, <3>5 DEF Carried, Connected
  <2>14. ConnectionStaysAlive'
    <3>1. \A q \in JiraCalls : JiraAt(q, "write") => JiraAt(q, "write")' /\ jira'[q] = jira[q]
      <4>1. ~ JiraAt(r, "write") BY DEF CallbackExchange, JiraAt
      <4> QED BY <2>2, <4>1 DEF JiraAt
    <3> QED BY <2>3, <2>4, <3>1 DEF TokensAreSound, ConnectionStaysAlive, Connected
  <2>15. TokenMatchesSite' BY <2>3 DEF TokensAreSound, TokenMatchesSite, Connected
  <2> QED BY <2>10, <2>11, <2>12, <2>13, <2>14, <2>15 DEF TokensAreSound
<1> QED BY <1>1, <1>2 DEF CallbackExchange

\* The token of a callback becomes the row's, and with it its site.
LEMMA UpsertSound ==
  ASSUME JiraTypeOK, TokensAreSound, NEW r \in JiraCalls, CallbackUpsert(r)
  PROVE  TokensAreSound'
<1> DEFINE new == jira[r].token
<1>1. HasToken(r) /\ Carried(r) /\ new \in Token
  BY JiraCallTypes DEF CallbackUpsert, HasToken, TokensAreSound
<1>2. UNCHANGED provider /\ integration' = Upsert(new) BY DEF CallbackUpsert
<1>3. /\ integration'.token = new /\ integration'.site = new.site
      /\ integration' \in Integration /\ Connected'
  BY <1>1, <1>2, RowTypes DEF Upsert, Connected, Integration, NotConnected
<1>4. jira'[r] = NoJira /\ \A q \in JiraCalls \ {r} : jira'[q] = jira[q]
  BY OnlyOne DEF CallbackUpsert, JiraDone
<1> HIDE DEF new
<1>5. \A q \in JiraCalls : HasCopy(q)' => HasCopy(q) /\ jira'[q] = jira[q]
  BY <1>4 DEF HasCopy, JiraAt, NoJira
<1>6. \A q \in JiraCalls : HasToken(q)' => HasToken(q) /\ jira'[q] = jira[q] /\ q # r
  BY <1>4 DEF HasToken, JiraAt, NoJira
<1>7. new.number <= issued /\ new \in valid BY <1>1 DEF Carried, new
<1>8. ASSUME NEW q \in JiraCalls, HasCopy(q)' PROVE Copied(q)'
  <2>1. Copied(q) /\ jira[q].row.token # new
    BY <1>1, <1>5, <1>8 DEF TokensAreSound, Carried, new
  <2> QED BY <1>2, <1>3, <1>5, <1>8, <2>1 DEF Copied, provider
<1>9. ASSUME NEW q \in JiraCalls, HasToken(q)' PROVE Carried(q)'
  <2>1. Carried(q) /\ jira[q].token # new
    BY <1>1, <1>6, <1>9 DEF TokensAreSound, Carried, new
  <2>2. JiraAt(q, "write")' => JiraAt(q, "write") BY <1>6, <1>9 DEF JiraAt
  <2> QED BY <1>2, <1>3, <1>5, <1>6, <1>9, <2>1, <2>2 DEF Carried, provider
<1>10. ConnectionStaysAlive' BY <1>2, <1>3, <1>7 DEF ConnectionStaysAlive, provider
<1>11. TokenMatchesSite' BY <1>3 DEF TokenMatchesSite
<1> QED BY <1>2, <1>3, <1>7, <1>8, <1>9, <1>10, <1>11 DEF TokensAreSound, provider

\* The provider rotates the token of a copy: whoever reads the answer is about to
\* store the new one, or the old one counts as lost.
LEMMA RefreshSound ==
  ASSUME JiraTypeOK, TokensAreSound, NEW r \in JiraCalls, AccessRefresh(r)
  PROVE  TokensAreSound'
<1> DEFINE old == jira[r].row.token
           new == NewToken(old.site)
           answer == [op |-> jira[r].op, pc |-> "write", row |-> jira[r].row, token |-> new]
<1>1. HasCopy(r) /\ Copied(r) /\ jira[r].row \in Integration /\ JiraAt(r, "refresh")
  BY JiraCallTypes DEF AccessRefresh, HasCopy, TokensAreSound
<1>2. old \in Token /\ old.site \in Sites BY <1>1 DEF Integration, Token
<1>3. CASE JiraDone(r) /\ UNCHANGED provider
  BY <1>1, <1>3, QuietEnd DEF AccessRefresh, JiraDone, NoJira, JiraAt, Connected
<1>4. ASSUME issued < MaxTokens, issued' = issued + 1, valid' = (valid \ {old}) \cup {new},
             \/ JiraSet(r, answer) /\ lost' = lost
             \/ JiraDone(r) /\ lost' = lost \cup {old}
      PROVE  TokensAreSound'
  <2>1. new \in Token /\ new.number = issued + 1 /\ new.site = old.site /\ issued \in Nat
    BY <1>2, <1>4, NewTokenType, JiraAssumption DEF JiraTypeOK
  <2>2. integration' = integration BY DEF AccessRefresh
  <2>3. \A q \in JiraCalls \ {r} : jira'[q] = jira[q]
    BY <1>4, OnlyOne DEF JiraDone
  <2>4. \/ jira'[r] = answer /\ lost' = lost
        \/ jira'[r] = NoJira /\ lost' = lost \cup {old}
    BY <1>4, OnlyOne DEF JiraDone
  <2>5. HasToken(r)' => /\ jira'[r] = answer
                       /\ jira'[r].token = new /\ jira'[r].row = jira[r].row
    BY <2>4 DEF HasToken, JiraAt, NoJira
  <2>6. HasCopy(r)' => jira'[r].row = jira[r].row
    BY <2>4 DEF HasCopy, JiraAt, NoJira
  <2>7. \A q \in JiraCalls : HasCopy(q)' => HasCopy(q) /\ jira'[q].row = jira[q].row
    BY <1>1, <2>3, <2>6 DEF HasCopy, JiraAt
  <2>8. \A q \in JiraCalls \ {r} : HasToken(q)' => HasToken(q) /\ jira'[q] = jira[q]
    BY <2>3 DEF HasToken, JiraAt
  <2>9. \A q \in JiraCalls : HasCopy(q) => jira[q].row.token # new
    BY <2>1, JiraCallTypes DEF TokensAreSound, Copied, Integration, Token
  <2>10. \A q \in JiraCalls : HasToken(q) => jira[q].token # new /\ jira[q].token # old
    BY <1>1, <2>1, JiraCallTypes DEF TokensAreSound, Carried, Token
  <2>11. Connected => integration.token # new /\ integration.token.number \in Nat
    BY <2>1, RowTypes DEF TokensAreSound, Integration, Token
  <2>12. (Connected => integration.token.number <= issued)'
    BY <1>4, <2>1, <2>2, <2>11 DEF TokensAreSound, Connected
  <2>13. ASSUME NEW q \in JiraCalls, HasCopy(q)' PROVE Copied(q)'
    <3>1. Copied(q) /\ jira[q].row \in Integration BY <2>7, <2>13, JiraCallTypes DEF TokensAreSound
    <3>2. jira[q].row.token.number \in Nat BY <3>1 DEF Integration, Token
    <3> HIDE DEF old, new, answer
    <3> QED BY <1>4, <2>1, <2>2, <2>7, <2>13, <3>1, <3>2 DEF Copied, Connected
  <2> HIDE DEF answer
  <2>14. ASSUME NEW q \in JiraCalls, q # r, HasToken(q)' PROVE Carried(q)'
    <3>1. /\ HasToken(q) /\ jira'[q] = jira[q] /\ Carried(q)
          /\ jira[q].token # new /\ jira[q].token # old /\ jira[q].token \in Token
      BY <2>8, <2>10, <2>14, JiraCallTypes DEF TokensAreSound
    <3> HIDE DEF old, new
    <3>2. jira'[q].token.number <= issued' /\ jira'[q].token \in valid'
      BY <1>4, <2>1, <3>1 DEF Carried, Token
    <3>3. \A p \in JiraCalls : HasToken(p)' /\ p # q => jira'[p].token # jira[q].token
      BY <2>5, <2>8, <3>1 DEF Carried
    <3>4. \A p \in JiraCalls : HasCopy(p)' => jira'[p].row.token # jira[q].token
      BY <2>7, <3>1 DEF Carried
    <3>5. JiraAt(q, "write")' => JiraAt(q, "write") BY <3>1 DEF JiraAt
    <3> QED BY <2>2, <3>1, <3>2, <3>3, <3>4, <3>5 DEF Carried, Connected
  <2>15. ASSUME HasToken(r)' PROVE Carried(r)'
    <3>1. jira'[r].token = new /\ jira'[r].row.token = old BY <2>5, <2>15
    <3> HIDE DEF old, new
    <3>2. jira'[r].token.number <= issued' /\ jira'[r].token \in valid'
      BY <1>4, <2>1, <3>1
    <3>3. \A p \in JiraCalls : HasToken(p)' /\ p # r => jira'[p].token # new BY <2>8, <2>10
    <3>4. \A p \in JiraCalls : HasCopy(p)' => jira'[p].row.token # new BY <2>7, <2>9
    <3> QED BY <2>1, <2>2, <2>11, <3>1, <3>2, <3>3, <3>4 DEF Carried, Connected
  <2>16. ConnectionStaysAlive'
    <3>1. \A q \in JiraCalls : JiraAt(q, "write") => JiraAt(q, "write")' /\ jira'[q] = jira[q]
      BY <1>1, <2>3 DEF JiraAt
    <3>2. CASE Connected /\ integration.token = old
      <4>1. CASE jira'[r] = answer
        <5>1. JiraAt(r, "write")' /\ jira'[r].row.token = old BY <4>1 DEF JiraAt, answer, AccessRefresh
        <5> QED BY <2>2, <3>2, <5>1 DEF ConnectionStaysAlive
      <4>2. CASE lost' = lost \cup {old}
        BY <2>2, <3>2, <4>2 DEF ConnectionStaysAlive
      <4> QED BY <2>4, <4>1, <4>2
    <3>3. CASE ~ (Connected /\ integration.token = old)
      <4> HIDE DEF old, new
      <4>1. lost \subseteq lost' BY <2>4
      <4> QED BY <1>4, <2>2, <3>1, <3>3, <4>1 DEF TokensAreSound, ConnectionStaysAlive, Connected
    <3> QED BY <3>2, <3>3
  <2>17. TokenMatchesSite' BY <2>2 DEF TokensAreSound, TokenMatchesSite, Connected
  <2> HIDE DEF old, new
  <2> QED BY <2>12, <2>13, <2>14, <2>15, <2>16, <2>17 DEF TokensAreSound
<1> QED BY <1>3, <1>4 DEF AccessRefresh

\* A refreshed token becomes the row's, unless the row was disconnected since.
LEMMA WriteSound ==
  ASSUME JiraTypeOK, TokensAreSound, NEW r \in JiraCalls, AccessWrite(r)
  PROVE  TokensAreSound'
<1> DEFINE new == jira[r].token
           copy == jira[r].row
           saving == [op |-> jira[r].op, pc |-> "save", site |-> copy.site]
<1>1. /\ JiraAt(r, "write") /\ HasToken(r) /\ HasCopy(r) /\ Carried(r) /\ Copied(r)
      /\ new \in Token /\ copy \in Integration
  BY JiraCallTypes DEF AccessWrite, HasToken, HasCopy, TokensAreSound
<1>2. CASE integration.id # copy.id
  <2>1. Connected => integration.token # copy.token BY <1>1, <1>2 DEF Copied
  <2> QED
    BY <1>2, <2>1, QuietEnd DEF AccessWrite, JiraDone, NoJira, provider, Connected
<1>3. CASE integration.id = copy.id
  <2>1. Connected BY <1>1, <1>3 DEF Connected, NotConnected, Integration
  <2>2. UNCHANGED provider /\ integration' = Refreshed(r) BY <1>3 DEF AccessWrite
  <2>3. /\ integration' \in Integration
        /\ integration'.token = new /\ integration'.site = integration.site
        /\ integration'.mixed = (copy.mixed \/ integration.token # copy.token)
    BY <1>1, <2>1, <2>2, RowTypes
  <2>4. JiraSet(r, saving) \/ JiraSet(r, NoJira)
    BY <1>3 DEF AccessWrite, Granted, JiraDone
  <2>5. /\ jira'[r] = saving \/ jira'[r] = NoJira
        /\ \A q \in JiraCalls \ {r} : jira'[q] = jira[q]
    BY <2>4, OnlyOne
  <2>6. ~ HasCopy(r)' /\ ~ HasToken(r)' BY <2>5 DEF HasCopy, HasToken, JiraAt, NoJira
  <2> HIDE DEF new, copy, saving
  <2>7. \A q \in JiraCalls : HasCopy(q)' => HasCopy(q) /\ jira'[q] = jira[q]
    BY <2>5, <2>6 DEF HasCopy, JiraAt
  <2>8. \A q \in JiraCalls : HasToken(q)' => HasToken(q) /\ jira'[q] = jira[q] /\ q # r
    BY <2>5, <2>6 DEF HasToken, JiraAt
  <2>9. new.number <= issued /\ new \in valid BY <1>1 DEF Carried, new
  <2>10. ASSUME NEW q \in JiraCalls, HasCopy(q)' PROVE Copied(q)'
    <3>1. Copied(q) /\ jira[q].row.token # new
      BY <1>1, <2>7, <2>10 DEF TokensAreSound, Carried, new
    <3> QED BY <2>2, <2>3, <2>7, <2>10, <3>1 DEF Copied, provider
  <2>11. ASSUME NEW q \in JiraCalls, HasToken(q)' PROVE Carried(q)'
    <3>1. Carried(q) /\ jira[q].token # new
      BY <1>1, <2>8, <2>11 DEF TokensAreSound, Carried, new
    <3>2. JiraAt(q, "write")' => JiraAt(q, "write") BY <2>8, <2>11 DEF JiraAt
    <3> QED BY <2>2, <2>3, <2>7, <2>8, <2>11, <3>1, <3>2 DEF Carried, provider
  <2>12. ConnectionStaysAlive' BY <2>2, <2>3, <2>9 DEF ConnectionStaysAlive, provider
  <2>13. TokenMatchesSite'
    <3>1. CASE copy.mixed \/ integration.token # copy.token
      BY <2>3, <3>1 DEF TokenMatchesSite, Integration
    <3>2. CASE ~ copy.mixed /\ integration.token = copy.token
      <4>1. integration.site = copy.site /\ copy.token.site = copy.site
        BY <1>1, <2>1, <3>2 DEF Copied, copy
      <4>2. new.site = copy.token.site BY <1>1 DEF Carried, new, copy
      <4> QED BY <2>3, <4>1, <4>2 DEF TokenMatchesSite
    <3> QED BY <3>1, <3>2
  <2> QED BY <2>2, <2>3, <2>9, <2>10, <2>11, <2>12, <2>13 DEF TokensAreSound, provider
<1> QED BY <1>2, <1>3

\* A request that finds the access token expired copies the row.
LEMMA ReadSound ==
  ASSUME JiraTypeOK, TokensAreSound, NEW r \in JiraCalls, NEW op \in {"options", "config"},
         AccessRead(r, op)
  PROVE  TokensAreSound'
<1> DEFINE copying == [op |-> op, pc |-> "refresh", row |-> integration]
<1>1. UNCHANGED <<integration, provider>> /\ Connected /\ jira[r] = NoJira BY DEF AccessRead
<1>2. CASE JiraSet(r, copying)
  <2>1. jira'[r] = copying /\ \A q \in JiraCalls \ {r} : jira'[q] = jira[q] BY <1>2, OnlyOne
  <2>2. ~ HasToken(r)' BY <2>1 DEF HasToken, JiraAt
  <2>3. \A q \in JiraCalls : HasCopy(q)' => \/ HasCopy(q) /\ jira'[q].row = jira[q].row
                                            \/ Connected /\ jira'[q].row = integration
    BY <1>1, <2>1 DEF HasCopy, JiraAt
  <2>4. \A q \in JiraCalls : HasToken(q)' =>
          /\ HasToken(q) /\ jira'[q].token = jira[q].token
          /\ JiraAt(q, "write")' => JiraAt(q, "write") /\ jira'[q].row = jira[q].row
    BY <2>1, <2>2 DEF HasToken, JiraAt
  <2>5. \A q \in JiraCalls : JiraAt(q, "write") => JiraAt(q, "write")' /\ jira'[q].row = jira[q].row
    BY <1>1, <2>1 DEF JiraAt, NoJira
  <2> QED BY <1>1, <2>3, <2>4, <2>5, Quiet DEF Connected
<1>3. CASE op = "config" /\ Granted(r, op, integration.site)
  <2>1. JiraSet(r, [op |-> op, pc |-> "save", site |-> integration.site])
    BY <1>3 DEF Granted
  <2> QED BY <1>1, <2>1, QuietEnd DEF JiraAt, NoJira, Connected
<1> QED BY <1>2, <1>3 DEF AccessRead

LEMMA JiraInitSound == JiraInit => TokensAreSound
  BY DEF JiraInit, TokensAreSound, HasCopy, HasToken, JiraAt, NoJira, Connected,
         ConnectionStaysAlive, TokenMatchesSite

LEMMA JiraStepSound == JiraTypeOK /\ TokensAreSound /\ [JiraNext]_jiraVars => TokensAreSound'
<1> SUFFICES ASSUME JiraTypeOK, TokensAreSound, [JiraNext]_jiraVars PROVE TokensAreSound'
  OBVIOUS
<1>1. CASE \/ \E st \in OAuthStates : StartOAuth(st) \/ StateExpires(st)
           \/ Disconnect \/ AccessExpires \/ UNCHANGED jiraVars
  <2>1. jira' = jira /\ UNCHANGED provider
    BY <1>1 DEF StartOAuth, StateExpires, Disconnect, AccessExpires, jiraVars, provider
  <2>2. Connected' => /\ Connected
                      /\ integration'.token = integration.token
                      /\ integration'.id = integration.id
                      /\ integration'.site = integration.site
                      /\ integration'.mixed = integration.mixed
    <3>1. CASE AccessExpires
      <4>1. integration \in Integration BY <3>1, RowTypes DEF AccessExpires
      <4> QED BY <3>1, <4>1 DEF AccessExpires, Connected, Integration
    <3>2. CASE ~ AccessExpires
      BY <1>1, <3>2 DEF StartOAuth, StateExpires, Disconnect, Connected, jiraVars
    <3> QED BY <3>1, <3>2
  <2> QED BY <2>1, <2>2, Quiet DEF HasCopy, HasToken, JiraAt
<1>2. ASSUME NEW r \in JiraCalls, NEW st \in OAuthStates, CallbackRead(r, st)
      PROVE  TokensAreSound'
  <2> DEFINE coming == [op |-> "callback", state |-> st, pc |-> "delete",
                        found |-> oauthState[st] = "live"]
  <2>1. JiraSet(r, coming) /\ jira[r] = NoJira /\ UNCHANGED <<integration, provider>>
    BY <1>2 DEF CallbackRead
  <2>2. coming.pc = "delete" OBVIOUS
  <2> HIDE DEF coming
  <2> QED BY <2>1, <2>2, QuietEnd DEF JiraAt, NoJira, Connected
<1>3. ASSUME NEW r \in JiraCalls, CallbackDelete(r) PROVE TokensAreSound'
  <2>1. jira[r] \in CallbackCall /\ jira[r].pc = "delete"
    BY <1>3, JiraCallTypes DEF CallbackDelete, JiraAt
  <2> DEFINE going == [jira[r] EXCEPT !.pc = "exchange"]
  <2>2. going.pc = "exchange" BY <2>1 DEF CallbackCall
  <2>3. JiraSet(r, going) \/ JiraSet(r, NoJira) BY <1>3 DEF CallbackDelete, JiraDone
  <2>4. UNCHANGED <<integration, provider>> /\ ~ JiraAt(r, "write")
    BY <1>3, <2>1 DEF CallbackDelete, JiraAt
  <2> HIDE DEF going
  <2>5. CASE JiraSet(r, going) BY <2>2, <2>4, <2>5, QuietEnd DEF Connected
  <2>6. CASE JiraSet(r, NoJira) BY <2>4, <2>6, QuietEnd DEF Connected, NoJira
  <2> QED BY <2>3, <2>5, <2>6
<1>4. ASSUME NEW r \in JiraCalls, ConfigSave(r) PROVE TokensAreSound'
  <2>1. JiraSet(r, NoJira) /\ UNCHANGED provider /\ ~ JiraAt(r, "write")
    BY <1>4 DEF ConfigSave, JiraDone, JiraAt
  <2>2. Connected' => /\ Connected
                      /\ integration'.token = integration.token
                      /\ integration'.id = integration.id
                      /\ integration'.site = integration.site
                      /\ integration'.mixed = integration.mixed
    BY <1>4, RowTypes DEF ConfigSave, Connected, Integration
  <2> QED BY <2>1, <2>2, QuietEnd DEF NoJira
<1> QED
  BY <1>1, <1>2, <1>3, <1>4, ExchangeSound, UpsertSound, ReadSound, RefreshSound, WriteSound
  DEF JiraNext, JiraAdvances

\* However many requests refresh the token at once, a connection is not cut off,
\* for any number of sites, states, requests and tokens.
THEOREM ConnectionsStayAlive == JiraSpec => []ConnectionStaysAlive
<1>1. TokensAreSound => ConnectionStaysAlive BY DEF TokensAreSound
<1> QED BY <1>1, JiraInitType, JiraStepType, JiraInitSound, JiraStepSound, PTL DEF JiraSpec

\* The row's token is for the row's site, unless a refresh of the connection
\* before wrote it.
THEOREM TokensMatchSites == JiraSpec => []TokenMatchesSite
<1>1. TokensAreSound => TokenMatchesSite BY DEF TokensAreSound
<1> QED BY <1>1, JiraInitType, JiraStepType, JiraInitSound, JiraStepSound, PTL DEF JiraSpec

-----------------------------------------------------------------------------
(* The two side by side                                                    *)

\* Side by side, accounts and the connection keep their types.
THEOREM AccessTypeCorrect == AccessSpec => []AccessTypeOK
<1>1. AccessInit => AccessTypeOK
  BY VisitInitType, JiraInitType DEF AccessInit, AccessTypeOK
<1>2. AccessTypeOK /\ [AccessNext]_AccessVars => AccessTypeOK'
  BY VisitStepType, JiraStepType DEF AccessNext, AccessVars, AccessTypeOK
<1> QED BY <1>1, <1>2, PTL DEF AccessSpec
=============================================================================
