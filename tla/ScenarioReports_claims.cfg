SPECIFICATION FairSpec
CONSTANTS
  login = login
  cart = cart
  bug = bug
  u1 = u1
  u2 = u2
  p1 = p1
  p2 = p2
  d1 = d1
  Reports <- OneOfEach
  Manual <- OneManual
  Users <- TwoSlots
  Pollers <- TwoPollers
  Docgen <- OneDocgen
  MaxAttempts = 2
  Take = 2
INVARIANT OneIssue
INVARIANT AttemptsBounded
INVARIANT GiveUpTold
PROPERTY ClaimableIsClaimed
