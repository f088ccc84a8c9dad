------------------------------ MODULE MCAccess -----------------------------
(* Accounts and JiraAccess share no state: one run checks the two side by  *)
(* side, each behaviour staying within one of them.                        *)
EXTENDS Accounts, JiraAccess, TLC

CONSTANTS alice, bob, github, t1, t2, t3, k1, v1, v2, s1, s2, o1, o2

TwoUsers    == {alice, bob}
OneAccount  == {github}
ThreeTokens == {t1, t2, t3}
OneReset    == {k1}
TwoVisits   == {v1, v2}
TwoSites    == {s1, s2}
TwoStates   == {o1, o2}

VARIABLE side   \* the component this behaviour is about

AccessVars == <<accountsVars, jiraVars, side>>

AccessInit ==
    /\ AccountsInit /\ JiraInit
    /\ side \in {"accounts", "jira"}

\* One user with three sessions, or two users with one between them.
Bounded ==
    2 * Cardinality(registered') + Cardinality({t \in Tokens : refreshKey'[t] # Unissued}) <= 5

AccessNext ==
    /\ UNCHANGED side
    /\ \/ side = "accounts" /\ AccountsNext /\ Bounded /\ UNCHANGED jiraVars
       \/ side = "jira"     /\ JiraNext     /\ UNCHANGED accountsVars

AccessSpec == AccessInit /\ [][AccessNext]_AccessVars

AccessTypeOK == AccountsTypeOK /\ JiraTypeOK

AccessSymmetric == Permutations(TwoVisits) \cup Permutations(ThreeTokens)
=============================================================================
