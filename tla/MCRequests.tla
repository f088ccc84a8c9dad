----------------------------- MODULE MCRequests ----------------------------
(* The components of MCAccess and those of MCContent share no state: one   *)
(* run checks them side by side.  The slots of requests are the same.      *)
EXTENDS MCAccess, MCContent

VARIABLE access   \* whether this behaviour is about accounts and Jira

RequestsInit ==
    /\ AccessInit /\ ContentInit
    /\ access \in BOOLEAN
    /\ IF access THEN part = "artifacts" ELSE side = "jira"

RequestsNext ==
    /\ UNCHANGED access
    /\ \/ access   /\ AccessNext  /\ UNCHANGED ContentVars
       \/ ~ access /\ ContentNext /\ UNCHANGED AccessVars

RequestsSpec == RequestsInit /\ [][RequestsNext]_<<AccessVars, ContentVars, access>>

Symmetric == AccessSymmetric \cup Permutations(TwoFlows)
=============================================================================
