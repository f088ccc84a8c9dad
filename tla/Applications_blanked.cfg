SPECIFICATION MCSpec
CONSTANTS
  auto = auto
  v1 = v1
  r1 = r1
  r2 = r2
  d1 = d1
  d2 = d2
  e1 = e1
  e2 = e2
  Sessions <- OneAuto
  ManualSessions <- NoneOf
  Requests <- TwoSlots
  KeepResult = TRUE
  Faults <- NoFaults
  Versions <- OneVersion
  VersionOf <- TheVersion
  Deleters <- TwoDeleters
  Editors <- TwoEditors
  Inputs <- FewInputs
  CleanupMayFail = FALSE
\* The application may have been deleted: nothing is left to do.
CHECK_DEADLOCK FALSE
SYMMETRY Symmetric
INVARIANT CronHasExpression
