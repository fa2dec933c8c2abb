SPECIFICATION Spec
CONSTANTS
  Objects = {o1}
  DetQueueSize = 1
  EventBacklog = 2
  MaxCommands = 0
  MaxRetention = 2
  MaxCrashes = 0
  LateSubscriber = FALSE
SYMMETRY Symmetry
PROPERTIES
  FlagsNeverReset
