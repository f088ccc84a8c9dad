SPECIFICATION FlowsSpec
CONSTANTS
  Rows <- FourRows
  LastTime = 3
  Limit = 2
\* The clock stops and the last page is read: nothing is left to do.
CHECK_DEADLOCK FALSE
INVARIANT FlowPagesShowAll
