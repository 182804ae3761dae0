CONSTANTS
  r1 = r1
  r2 = r2
  r3 = r3
  b1 = b1
  b2 = b2
  b3 = b3
  Run = {r1, r2, r3}
  Branch = {b1, b2, b3}
  BranchOf <- MCBranchOf
  Pages <- MCPages
  MaxPages = 2
  None = none
  PageRows = 1
  ListPages = 3
  MaxReviews = 2
  MaxComments = 3
  Scenarios <- MCScenarios
  Reviewed = r1
  SnykIssues <- MCSnykIssues
  Unknown = unknown
  Polls = 2
SPECIFICATION LanesSpec
INVARIANTS
  CompleteIsExact
  ReviewIsWhole
  ZeroIsMeasured
  CompletedIsFresh
  ServerEnds
PROPERTIES
  LanesEnd
CHECK_DEADLOCK FALSE
