----------------------------- MODULE MCProjects ----------------------------
(* A project and the events of one of its runs share no state: one run     *)
(* checks the two side by side, each behaviour staying within one.         *)
EXTENDS Projects, MCRegressionIngest

CONSTANTS alice, bob

TwoUsers    == {alice, bob}
AlicesList  == {alice}
ViewerAdmin == {"VIEWER", "ADMIN"}

VARIABLE part   \* the component this behaviour is about

ProjectInit == ProjectsInit /\ Init /\ part \in {"members", "events"}

ProjectNext ==
    /\ UNCHANGED part
    /\ \/ part = "members" /\ ProjectsNext /\ UNCHANGED vars
       \/ part = "events"  /\ Next         /\ UNCHANGED projectsVars

ProjectSpec == ProjectInit /\ [][ProjectNext]_<<projectsVars, vars, part>>
=============================================================================
