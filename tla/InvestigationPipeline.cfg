CONSTANTS
  real = real
  field = field
  fake = fake
  c1 = c1
  c9 = c9
  c0 = c0
  Requests = {r1, r2}
  Clients = {c1}
  BuiltIn = {c9}
  Strangers = {c9, c0}
  Holders = {c1}
  Resolvable = {real, field}
  Unresolvable = {fake}
  Unchecked = {}
  DatasetOf <- MCDatasetOf
  Early = {c1}
  Citings <- MCCitings
  Deployments <- MCDeployments
  Overlaps <- MCOverlaps
  Accounts = {real}
  Indicators <- MCIndicators
  Baseline = field
  Drafts <- MCDrafts
  MaxPosts = 2
  MaxRestarts = 1
SPECIFICATION FairSpec
INVARIANTS
  TypeOK
  OneRunPerClient
  ResultFitForReview
  ServedRedacted
PROPERTIES
  ClientFreed
CHECK_DEADLOCK FALSE
