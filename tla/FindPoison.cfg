SPECIFICATION Spec
CONSTANTS
  Events = {1}
  Poison = {1}
  Foreign = {}
  Workers = {w}
  Batch = 1
  MaxFaults = 1
  Outages = FALSE
INVARIANTS PoisonEndsInDLQ
CHECK_DEADLOCK FALSE
