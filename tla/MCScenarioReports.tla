------------------------- MODULE MCScenarioReports -------------------------
(* Instances of ScenarioReports for TLC.                                   *)
EXTENDS ScenarioReports, TLC

CONSTANTS login, cart, bug, u1, u2, p1, p2, d1

TwoOrdinary == {login, cart}
OneManual   == {bug}
OneOfEach   == {login, bug}
AllReports  == {login, cart, bug}
OneSlot     == {u1}
TwoSlots    == {u1, u2}
OnePoller   == {p1}
TwoPollers  == {p1, p2}
OneDocgen   == {d1}
=============================================================================
