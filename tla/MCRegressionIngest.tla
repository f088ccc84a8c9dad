------------------------- MODULE MCRegressionIngest -------------------------
(* Instances of RegressionIngest for TLC.                                  *)
EXTENDS RegressionIngest, TLC

CONSTANTS login, cart, ok, bad, warned, begun, log, q1, q2

TwoScenarios == {login, cart}

\* A passed and a failed assertion, one that only warned, a scenario.status event
\* and a log line of no scenario.
AllEvents     == {ok, bad, warned, begun, log}
AllAssertions == {ok, bad, warned}
OutcomesOf  == ok :> {"passed"} @@ bad :> {"failed"} @@ warned :> {"warning"}
VerdictsOf  == begun :> "RUNNING"
Places == ok :> login @@ bad :> cart @@ warned :> login @@ begun :> login @@ log :> NoScenario

\* Batches that overlap, so that one is partly a retry of the other.
Overlapping == {<<ok, bad>>, <<bad, begun>>, <<log, warned>>}

TwoSlots == {q1, q2}

SlotSymmetry == Permutations(Requests)
=============================================================================
