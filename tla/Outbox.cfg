SPECIFICATION FairSpec
CONSTANTS
  Events = {1, 2}
  Poison = {2}
  Foreign = {9}
  Workers = {v, w}
  Batch = 2
  MaxFaults = 1
  Outages = TRUE
INVARIANTS SentIsNotLost DuplicatesHaveACause AuditedAtMostOnce
PROPERTIES EveryEventRecorded
CHECK_DEADLOCK FALSE
