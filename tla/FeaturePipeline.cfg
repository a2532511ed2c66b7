SPECIFICATION FairSpec
CONSTANTS
  r1 = r1
  r2 = r2
  Runs <- OneSlot
  Retries = 2
  MaxFaults = 1
  FlawKinds <- AllFlaws
  MaxVersion = 2
  MaxLoads = 2
  None = None
INVARIANTS TypeOK GateHolds CoherentBuild LoadsOneBuild
PROPERTIES RunsFinish CleanDataServed
