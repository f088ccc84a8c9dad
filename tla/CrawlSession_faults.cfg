SPECIFICATION Spec
CONSTANTS
  auto = auto
  manual = manual
  r1 = r1
  r2 = r2
  r3 = r3
  Sessions <- OneAuto
  ManualSessions <- NoneOf
  Requests <- ThreeSlots
  KeepResult = TRUE
  Faults <- AllFaults
\* Every session may have been deleted: nothing is left to do.
CHECK_DEADLOCK FALSE
SYMMETRY SlotSymmetry
INVARIANT StartClaimExclusive
PROPERTY StartedOnce
PROPERTY OnlyPauseRevives
