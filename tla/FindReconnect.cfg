SPECIFICATION FairSpec
CONSTANTS
  Events = {1}
  Poison = {}
  Foreign = {}
  Workers = {w}
  Batch = 1
  MaxFaults = 1
  Outages = TRUE
PROPERTIES Reconnects
CHECK_DEADLOCK FALSE
