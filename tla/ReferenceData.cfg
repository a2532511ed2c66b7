SPECIFICATION Spec
CONSTANTS
  a = a
  b = b
  Attrs <- TwoAttrs
  Seeded = a
  Rows = 2
  MaxTime = 5
  MaxIds = 4
  None = None
INVARIANTS TypeOK VersionsFollow OpenIsCurrent
PROPERTIES HistoryStays
