----------------------------- MODULE JiraAccess -----------------------------
(***************************************************************************)
(* A project's connection to Jira: the OAuth round trip that makes it, and *)
(* the access token every later call asks getValidJiraAccess for.          *)
(*                                                                         *)
(* The row of project_integrations holds the site (cloud id) and the       *)
(* tokens.  An expired access token is renewed at the provider, which      *)
(* rotates the refresh token: the one that was used is worth nothing       *)
(* afterwards.  Reading the row, the provider's answer and the update are  *)
(* three steps, and jira[r] holds where a request stands.                  *)
(*                                                                         *)
(* A token stands for the access and refresh token of one answer of the    *)
(* provider: its number and the site its user chose.  Abstracted: scopes,  *)
(* encryption, the reporting options and their layout.                     *)
(***************************************************************************)
EXTENDS Naturals, FiniteSets

CONSTANTS
    Sites,         \* Jira sites a user can choose
    OAuthStates,   \* values of the state parameter that can be issued
    JiraCalls,     \* slots of requests in flight
    MaxTokens,     \* bound: how many tokens the provider issues
    AnswersGetLost \* TRUE: a refresh may rotate the token and its answer be lost

ASSUME JiraAssumption ==
    /\ MaxTokens \in Nat
    /\ AnswersGetLost \in BOOLEAN

VARIABLES
    integration,   \* the row of project_integrations
    oauthState,    \* [OAuthStates -> unissued, live or gone]
    issued,        \* how many tokens the provider has issued
    valid,         \* refresh tokens the provider still takes
    lost,          \* tokens whose successor was never heard of
    jira           \* requests in flight

jiraVars == <<integration, oauthState, issued, valid, lost, jira>>

-----------------------------------------------------------------------------
(* Types                                                                   *)

Token == [number : 1..MaxTokens, site : Sites]

\* mixed (ghost): the token was written by a refresh of the row's earlier
\* connection.  config: the site whose projects the reporting config names.
NotConnected == [id |-> 0]
Integration  == [id : 1..MaxTokens, site : Sites, token : Token, expired : BOOLEAN,
                 config : Sites \cup {"unset"}, mixed : BOOLEAN]

NoJira == [op |-> "none"]

CallbackCall == [op : {"callback"}, state : OAuthStates,
                 pc : {"delete", "exchange"}, found : BOOLEAN]
               \cup [op : {"callback"}, pc : {"upsert"}, token : Token]

\* options: getReportingOptions, or any other caller of getValidJiraAccess;
\* config: updateReportingConfig.
AccessCall == [op : {"options", "config"}, pc : {"refresh"}, row : Integration]
              \cup [op : {"options", "config"}, pc : {"write"}, row : Integration,
                    token : Token]
              \cup [op : {"config"}, pc : {"save"}, site : Sites]

JiraTypeOK ==
    /\ integration \in Integration \cup {NotConnected}
    /\ oauthState \in [OAuthStates -> {"unissued", "live", "gone"}]
    /\ issued \in 0..MaxTokens
    /\ valid \subseteq Token
    /\ lost \subseteq Token
    /\ jira \in [JiraCalls -> {NoJira} \cup CallbackCall \cup AccessCall]

-----------------------------------------------------------------------------
(* Helpers                                                                 *)

Connected == integration # NotConnected

JiraAt(r, pc)     == jira[r].op # "none" /\ jira[r].pc = pc
JiraSet(r, c)     == jira' = [jira EXCEPT ![r] = c]
JiraDone(r)       == JiraSet(r, NoJira)
provider          == <<issued, valid, lost>>

\* The provider issues a token for a site.
NewToken(site) == [number |-> issued + 1, site |-> site]

-----------------------------------------------------------------------------
(* Connecting and disconnecting                                            *)

StartOAuth(st) ==
    /\ oauthState[st] = "unissued"
    /\ oauthState' = [oauthState EXCEPT ![st] = "live"]
    /\ UNCHANGED <<integration, provider, jira>>

StateExpires(st) ==
    /\ oauthState[st] = "live"
    /\ oauthState' = [oauthState EXCEPT ![st] = "gone"]
    /\ UNCHANGED <<integration, provider, jira>>

\* The browser comes back, perhaps twice, perhaps late.
CallbackRead(r, st) ==
    /\ jira[r] = NoJira
    /\ oauthState[st] # "unissued"
    /\ JiraSet(r, [op |-> "callback", state |-> st, pc |-> "delete",
                   found |-> oauthState[st] = "live"])
    /\ UNCHANGED <<integration, oauthState, provider>>

CallbackDelete(r) ==
    /\ JiraAt(r, "delete")
    /\ oauthState' = [oauthState EXCEPT ![jira[r].state] = "gone"]
    /\ IF jira[r].found THEN JiraSet(r, [jira[r] EXCEPT !.pc = "exchange"])
                        ELSE JiraDone(r)
    /\ UNCHANGED <<integration, provider>>

\* The provider exchanges the code for a token of the user's site, and the site
\* is resolved; or either fails.
CallbackExchange(r) ==
    /\ JiraAt(r, "exchange")
    /\ \/ /\ issued < MaxTokens
          /\ \E site \in Sites :
                /\ JiraSet(r, [op |-> "callback", pc |-> "upsert",
                               token |-> NewToken(site)])
                /\ valid' = valid \cup {NewToken(site)}
          /\ issued' = issued + 1
       \/ JiraDone(r) /\ UNCHANGED <<issued, valid>>
    /\ UNCHANGED <<integration, oauthState, lost>>

\* Slip: an existing row keeps its site.
UpsertTokens(token) ==
    IF Connected
      THEN [integration EXCEPT !.token = token, !.expired = FALSE, !.mixed = FALSE]
      ELSE [id |-> token.number, site |-> token.site, token |-> token,
            expired |-> FALSE, config |-> "unset", mixed |-> FALSE]

\* Slip: the row is replaced, with nothing for a reporting config.
UpsertWhole(token) ==
    [id |-> token.number, site |-> token.site, token |-> token,
     expired |-> FALSE, config |-> "null", mixed |-> FALSE]

\* The row is made, or made over: it keeps its id and its reporting config.
Upsert(token) ==
    [id      |-> IF Connected THEN integration.id ELSE token.number,
     site    |-> token.site,
     token   |-> token,
     expired |-> FALSE,
     config  |-> IF Connected THEN integration.config ELSE "unset",
     mixed   |-> FALSE]

CallbackUpsert(r) ==
    /\ JiraAt(r, "upsert")
    /\ integration' = Upsert(jira[r].token)
    /\ JiraDone(r)
    /\ UNCHANGED <<oauthState, provider>>

Disconnect ==
    /\ Connected
    /\ integration' = NotConnected
    /\ UNCHANGED <<oauthState, provider, jira>>

-----------------------------------------------------------------------------
(* Access                                                                  *)

\* What follows once there is a token: the options are fetched from the site of
\* the row that was read, and updateReportingConfig saves what it chose there.
Granted(r, op, site) ==
    IF op = "config" THEN JiraSet(r, [op |-> op, pc |-> "save", site |-> site])
                     ELSE JiraDone(r)

AccessRead(r, op) ==
    /\ jira[r] = NoJira
    /\ Connected
    /\ IF integration.expired
         THEN JiraSet(r, [op |-> op, pc |-> "refresh", row |-> integration])
         ELSE op = "config" /\ Granted(r, op, integration.site)
    /\ UNCHANGED <<integration, oauthState, provider>>

\* The provider takes each refresh token once; another try is refused, and the
\* request fails.  An answer may be lost on the way.
AccessRefresh(r) ==
    /\ JiraAt(r, "refresh")
    /\ LET old == jira[r].row.token
           new == NewToken(old.site)
       IN \/ /\ old \in valid /\ issued < MaxTokens
             /\ issued' = issued + 1
             /\ valid' = (valid \ {old}) \cup {new}
             /\ \/ /\ JiraSet(r, [op |-> jira[r].op, pc |-> "write",
                                  row |-> jira[r].row, token |-> new])
                   /\ UNCHANGED lost
                \/ AnswersGetLost /\ JiraDone(r) /\ lost' = lost \cup {old}
          \/ JiraDone(r) /\ UNCHANGED provider
    /\ UNCHANGED <<integration, oauthState>>

\* Slip: the answer's access token is stored, its refresh token is not.
RefreshedAccessOnly(r) == [integration EXCEPT !.expired = FALSE]

\* The update leaves the site alone, so it is the row's, not the token's.
Refreshed(r) ==
    [integration EXCEPT !.token = jira[r].token, !.expired = FALSE,
                        !.mixed = jira[r].row.mixed \/ integration.token # jira[r].row.token]

\* The update names the row by its id: a row that was disconnected since makes
\* it throw, one that was connected anew over the old takes it.
AccessWrite(r) ==
    /\ JiraAt(r, "write")
    /\ IF integration.id = jira[r].row.id
         THEN /\ integration' = Refreshed(r)
              /\ Granted(r, jira[r].op, jira[r].row.site)
         ELSE JiraDone(r) /\ UNCHANGED integration
    /\ UNCHANGED <<oauthState, provider>>

\* The row is named by project and provider; the options may be refused.
ConfigSave(r) ==
    /\ JiraAt(r, "save")
    /\ \/ Connected /\ integration' = [integration EXCEPT !.config = jira[r].site]
       \/ UNCHANGED integration
    /\ JiraDone(r)
    /\ UNCHANGED <<oauthState, provider>>

\* TOKEN_REFRESH_SKEW_MS before its end an access token counts as expired.
AccessExpires ==
    /\ Connected /\ ~ integration.expired
    /\ integration' = [integration EXCEPT !.expired = TRUE]
    /\ UNCHANGED <<oauthState, provider, jira>>

-----------------------------------------------------------------------------
(* Specification                                                           *)

JiraInit ==
    /\ integration = NotConnected
    /\ oauthState = [st \in OAuthStates |-> "unissued"]
    /\ issued = 0 /\ valid = {} /\ lost = {}
    /\ jira = [r \in JiraCalls |-> NoJira]

JiraAdvances(r) ==
    \/ CallbackDelete(r) \/ CallbackExchange(r) \/ CallbackUpsert(r)
    \/ AccessRefresh(r) \/ AccessWrite(r) \/ ConfigSave(r)

JiraNext ==
    \/ \E st \in OAuthStates : StartOAuth(st) \/ StateExpires(st)
    \/ \E r \in JiraCalls :
          \/ \E st \in OAuthStates : CallbackRead(r, st)
          \/ \E op \in {"options", "config"} : AccessRead(r, op)
          \/ JiraAdvances(r)
    \/ Disconnect
    \/ AccessExpires

JiraSpec == JiraInit /\ [][JiraNext]_jiraVars

-----------------------------------------------------------------------------
(* Properties                                                              *)

\* A connection works until it is disconnected: however many requests find its
\* token expired and refresh it at once, the refresh token in the row is one the
\* provider takes, or the request that used it is about to store the next one
\* (unless the provider's answer was lost).
ConnectionStaysAlive ==
    Connected =>
        \/ integration.token \in valid
        \/ integration.token \in lost
        \/ \E r \in JiraCalls :
              JiraAt(r, "write") /\ jira[r].row.token = integration.token

\* The tokens of a row are those of its site, whatever was disconnected, connected
\* and refreshed at once - except that a refresh of the connection before, still on
\* its way when the project was connected anew, writes its token into the new row.
TokenMatchesSite ==
    Connected => integration.token.site = integration.site \/ integration.mixed
=============================================================================
