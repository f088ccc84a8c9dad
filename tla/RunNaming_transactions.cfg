SPECIFICATION FairSpec
CONSTANTS
  run1 = run1
  run2 = run2
  run3 = run3
  checkout = checkout
  smoke = smoke
  q1 = q1
  q2 = q2
  q3 = q3
  NoName = NoName
  Nobody = Nobody
  Runs <- ThreeRuns
  Names <- TwoNames
  Requests <- TwoSlots
\* Every run may exist: nothing is left to create.
CHECK_DEADLOCK FALSE
INVARIANT NumberIsFresh
PROPERTY ImplementsRunNames
PROPERTY RequestEnds
