SPECIFICATION FairSpec
CONSTANTS
  f1 = f1
  f2 = f2
  c1 = c1
  c2 = c2
  None = None
  Frontends <- TwoFrontends
  Crawlers <- TwoCrawlers
\* Every socket may have closed: a session ends.
CHECK_DEADLOCK FALSE
INVARIANT PendingDisconnectTold
INVARIANT TimerOfEmpty
INVARIANT OpenIsReachable
PROPERTY EntryGoes
