SPECIFICATION Spec
CONSTANTS
  auto = auto
  manual = manual
  r1 = r1
  r2 = r2
  r3 = r3
  Sessions <- OneAuto
  ManualSessions <- NoneOf
  Requests <- TwoSlots
  KeepResult = TRUE
  Faults <- NoFaults
\* Every session may have been deleted: nothing is left to do.
CHECK_DEADLOCK FALSE
INVARIANT ResumedHasJob
