SPECIFICATION FairSpec
CONSTANTS
  auto = auto
  manual = manual
  r1 = r1
  r2 = r2
  r3 = r3
  Sessions <- Both
  ManualSessions <- OneManual
  Requests <- TwoSlots
  KeepResult = FALSE
  Faults <- EnqueueMayFail
\* Every session may have been deleted: nothing is left to do.
CHECK_DEADLOCK FALSE
INVARIANT QueuedIsCarried
PROPERTY QueuedIsServed
