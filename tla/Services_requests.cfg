SPECIFICATION RequestsSpec
CONSTANTS
  f1 = f1
  f2 = f2
  c1 = c1
  r1 = r1
  r2 = r2
  j1 = j1
  j2 = j2
  a1 = a1
  a2 = a2
  a3 = a3
  Flows <- TwoFlows
  FlowSession <- OneCrawl
  FlowType <- BothCoverage
  Slots <- TwoSlots
  Jobs <- TwoJobs
  MaxTime = 2
  MaxSaves = 1
  Uploads <- ThreeUploads
  StorageKey <- OwnKeys
  RelativePath <- NestedPaths
  PageSize = 1
  StorageFails = TRUE
  Rows <- FourRows
  LastTime = 3
  Limit = 2
  alice = alice
  bob = bob
  github = github
  t1 = t1
  t2 = t2
  t3 = t3
  k1 = k1
  v1 = r1
  v2 = r2
  s1 = s1
  s2 = s2
  o1 = o1
  o2 = o2
  Users <- TwoUsers
  AccountIds <- OneAccount
  Tokens <- ThreeTokens
  ResetTokens <- OneReset
  Visits <- TwoVisits
  MaxPassword = 2
  RedisMayFail = TRUE
  Sites <- TwoSites
  OAuthStates <- TwoStates
  JiraCalls <- TwoVisits
  MaxTokens = 3
  AnswersGetLost = TRUE
\* Tokens and jobs run out, the clocks stop, a request ends: nothing is left to do.
CHECK_DEADLOCK FALSE
SYMMETRY Symmetric
INVARIANT AccessTypeOK
INVARIANT OldSessionsEnd
INVARIANT RotationKeepsOne
INVARIANT EveryUserCanSignIn
INVARIANT ConnectionStaysAlive
INVARIANT TokenMatchesSite
INVARIANT ContentTypeOK
INVARIANT GeneratedIsCurrent
INVARIANT DashboardAgrees
INVARIANT CleanupLeavesNothing
INVARIANT TreeHoldsAll
INVARIANT PagesExact
INVARIANT DocsAreServed
