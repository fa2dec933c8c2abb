SPECIFICATION FairSpec
CONSTANTS
  Segments = 2
  Frames = 4
  MaxBusy = 1
  DetectLag = 2
  MaxReviews = 1
  ReviewLag = 2
  Configs <- RecordConfigs
  MaxInCache = 1
  Bandwidth = 1
  Events <- SavedEvents
  MaxUpsets = 2
INVARIANTS
  WantedIsKept
  RowsMatchFiles
PROPERTIES
  RetainedGoLast
  SegmentIsSettled
