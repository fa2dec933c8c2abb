SPECIFICATION FairSpec
CONSTANTS
  ManualEvents = {m1, m2}
  ThresholdAlert = 3
  ThresholdDetection = 2
  MaxLag = 2
  MaxDuration = 2
  MaxToggles = 0
  MaxRestarts = 0
INVARIANTS
  ReviewsCannotOverlap
  ManualEventHolds
PROPERTIES
  QuietSegmentEnds
