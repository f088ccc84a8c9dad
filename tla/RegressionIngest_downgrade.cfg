SPECIFICATION Spec
CONSTANTS
  login = login
  cart = cart
  ok = ok
  bad = bad
  warned = warned
  begun = begun
  log = log
  q1 = q1
  q2 = q2
  NoScenario = NoScenario
  Events <- AllEvents
  Assertions <- AllAssertions
  Outcomes <- OutcomesOf
  Verdicts <- VerdictsOf
  Scenarios <- TwoScenarios
  ScenarioOf <- Places
  Requests <- TwoSlots
  Batches <- Overlapping
  MayFail = FALSE
SYMMETRY SlotSymmetry
PROPERTY CompletedStaysCompleted
