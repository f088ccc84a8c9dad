----------------------------- MODULE MCContent -----------------------------
(* TestFlows, Artifacts, Listings and HttpSurface share no state: one run  *)
(* checks the four side by side, each behaviour staying within one.        *)
EXTENDS TestFlows, Artifacts, Listings, HttpSurface

CONSTANTS f1, f2, c1, r1, r2, j1, j2, a1, a2, a3

TwoFlows     == {f1, f2}
OneCrawl     == [f \in TwoFlows |-> c1]
BothCoverage == [f \in TwoFlows |-> "COVERAGE"]
TwoSlots     == {r1, r2}
TwoJobs      == {j1, j2}

\* A file beside a folder of its name, and a folder whose name comes twice.
ThreeUploads == {a1, a2, a3}
OwnKeys      == (a1 :> 1) @@ (a2 :> 2) @@ (a3 :> 3)
NestedPaths  == (a1 :> <<"a">>) @@ (a2 :> <<"a", "b">>) @@ (a3 :> <<"b", "a", "b">>)

FourRows == 1 .. 4

\* The tables of routes and of documents have no constants: here they are gone through.
ASSUME RoutesAssumption == RoutesFit

VARIABLE part   \* the component this behaviour is about

ContentVars == <<flowVars, artifactVars, listingVars, httpVars, part>>

\* Where a component only stands by, one of its initial states is enough.
OneOfEach ==
    /\ part # "listing" => kind = "runs"
    /\ part # "http" => /\ request.call = (CHOOSE call \in Calls : call.body = "none")
                       /\ request.credential = "none"
                       /\ role = "NONE"

ContentInit ==
    /\ part \in {"flows", "artifacts", "listing", "http"}
    /\ FlowsInit /\ ArtifactsInit /\ ListingsInit /\ HttpInit
    /\ OneOfEach

ContentNext ==
    /\ UNCHANGED part
    /\ \/ part = "flows" /\ FlowsNext /\ UNCHANGED <<artifactVars, listingVars, httpVars>>
       \/ part = "artifacts" /\ ArtifactsNext /\ UNCHANGED <<flowVars, listingVars, httpVars>>
       \/ part = "listing" /\ ListingsNext /\ UNCHANGED <<flowVars, artifactVars, httpVars>>
       \/ part = "http" /\ HttpNext /\ UNCHANGED <<flowVars, artifactVars, listingVars>>

ContentSpec == ContentInit /\ [][ContentNext]_ContentVars

ContentTypeOK == FlowsTypeOK /\ ArtifactsTypeOK /\ ListingsTypeOK /\ HttpTypeOK
=============================================================================
