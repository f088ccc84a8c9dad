---------------------------- MODULE MCRunNaming ----------------------------
(* Instances of RunNaming for TLC.                                         *)
EXTENDS RunNaming, TLC

CONSTANTS run1, run2, run3, checkout, smoke, q1, q2, q3

TwoRuns   == {run1, run2}
ThreeRuns == {run1, run2, run3}
TwoNames  == {checkout, smoke}
TwoSlots  == {q1, q2}
ThreeSlots == {q1, q2, q3}

NamingSymmetry == Permutations(Runs) \cup Permutations(Names) \cup Permutations(Requests)
=============================================================================
