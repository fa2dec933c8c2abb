SPECIFICATION Spec
SYMMETRY Symmetry
CONSTANTS
  ManualEvents = {m1, m2}
  ThresholdAlert = 3
  ThresholdDetection = 2
  MaxLag = 1
  MaxDuration = 1
  MaxToggles = 1
  MaxRestarts = 1
INVARIANTS
  OpenRowIsActive
