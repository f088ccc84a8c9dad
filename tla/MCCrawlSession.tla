-------------------------- MODULE MCCrawlSession ---------------------------
(* Instances of CrawlSession for TLC: request slots are interchangeable.   *)
EXTENDS CrawlSession, TLC

CONSTANTS auto, manual, r1, r2, r3

OneAuto   == {auto}
OneManual == {manual}
Both      == {auto, manual}
NoneOf    == {}
TwoSlots   == {r1, r2}
ThreeSlots == {r1, r2, r3}

NoFaults    == {}
EnqueueMayFail == {"enqueue"}
AllFaults   == FaultKinds

SlotSymmetry == Permutations(Requests)
=============================================================================
