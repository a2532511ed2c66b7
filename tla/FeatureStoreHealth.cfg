SPECIFICATION Spec
CONSTANTS
  l1 = l1
  l2 = l2
  u1 = u1
  u2 = u2
  m1 = m1
  Loaders <- OneLoader
  Users <- TwoUsers
  Merchants <- OneMerchant
  Days = {1, 2}
  PipelineBatch = 2
  UserTTL = 24
  MerchantTTL = 168
  FreshnessLimit = 25
  LoadTime = 1
  Clock = {0, 1, 24, 25}
  MaxBuilds = 1
  None = None
SYMMETRY Interchangeable
INVARIANTS HealthyMeansServed
