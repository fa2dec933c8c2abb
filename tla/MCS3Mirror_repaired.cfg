SPECIFICATION FairSpec
CONSTANTS
  Events = {e1}
  EventShadowed = FALSE
  BatchSize = 1
  MaxFailedRetries = 2
  MaxOutages = 3
  MaxDbErrors = 1
  MaxRestarts = 2
INVARIANTS
  UploadedOnce
PROPERTIES
  RetryQueueDrains
  
CHECK_DEADLOCK FALSE
