SPECIFICATION Spec
CONSTANTS
  u1 = u1
  u2 = u2
  m1 = m1
  m2 = m2
  c1 = c1
  c2 = c2
  c3 = c3
  None = None
  Users <- TwoUsers
  Merchants <- TwoMerchants
  Cities <- ThreeCities
  Words <- SomeWords
  Home <- HomeCities
  Ticket <- Tickets
  Draws <- SomeDraws
  Offered <- SomeEvents
  InTables <- KnownIds
  SparkZone <- IST
  Clock <- Hours
  Bursts <- NumberOf
  MaxBursts = 3
  MaxCents = 1000
INVARIANTS TypeOK GeneratorNeverRaises AcceptedIsKept WindowsNested ModelsAgree BlockIsExplained NewUsersNeedCities
PROPERTIES OnlyLaterRowsForget
CHECK_DEADLOCK FALSE
