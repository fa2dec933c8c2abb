SPECIFICATION FairSpec
CONSTANTS
  Events = {e1, e2}
  EventShadowed = TRUE
  BatchSize = 2
  MaxFailedRetries = 2
  MaxOutages = 0
  MaxDbErrors = 0
  MaxRestarts = 0
PROPERTIES
  SnapshotIsMirrored
CHECK_DEADLOCK FALSE
