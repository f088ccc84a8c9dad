SPECIFICATION ProjectSpec
CONSTANTS
  login = login
  cart = cart
  ok = ok
  bad = bad
  warned = warned
  begun = begun
  log = log
  q1 = q1
  q2 = q2
  NoScenario = NoScenario
  Events <- AllEvents
  Assertions <- AllAssertions
  Outcomes <- OutcomesOf
  Verdicts <- VerdictsOf
  Scenarios <- TwoScenarios
  ScenarioOf <- Places
  Requests <- TwoSlots
  Batches <- Overlapping
  MayFail = TRUE
  alice = alice
  bob = bob
  People <- TwoUsers
  Callers <- TwoSlots
  Lists <- AlicesList
  AssignedRoles <- ViewerAdmin
  CacheMayFail = TRUE
\* A project that is gone is asked for no more.
CHECK_DEADLOCK FALSE
SYMMETRY SlotSymmetry
INVARIANT NeverOvercounts
INVARIANT VerdictHasReason
INVARIANT CountsExact
PROPERTY LateEventsKeepVerdict
INVARIANT StaleIsInvalidated
PROPERTY LastAdminStays
PROPERTY NobodyLeftBehind
