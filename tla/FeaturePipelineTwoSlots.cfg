SPECIFICATION Spec
CONSTANTS
  r1 = r1
  r2 = r2
  Runs <- TwoSlots
  Retries = 0
  MaxFaults = 0
  FlawKinds <- OneFlaw
  MaxVersion = 2
  MaxLoads = 2
  None = None
INVARIANTS GateHolds
