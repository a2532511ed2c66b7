SPECIFICATION Spec
CONSTANTS
  MaxOffsetsPerTrigger = 2
  MaxRecords = 1
  MaxAged = 0
INVARIANTS OnceProcessesAll
