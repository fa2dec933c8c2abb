SPECIFICATION FairSpec
CONSTANTS
  ManualEvents = {m1, m2}
  ThresholdAlert = 3
  ThresholdDetection = 2
  MaxLag = 1
  MaxDuration = 1
  MaxToggles = 0
  MaxRestarts = 0
PROPERTIES
  ActivityIsReviewed
