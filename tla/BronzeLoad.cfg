SPECIFICATION Spec
CONSTANTS
  l1 = l1
  p1 = p1
  p2 = p2
  Loaders <- OneLoader
  Parts <- TwoParts
  FlawKinds <- OneFlaw
  MaxVersion = 3
  MaxLoads = 4
  None = None
INVARIANTS TypeOK WholeTarget
PROPERTIES Implements
CHECK_DEADLOCK FALSE
