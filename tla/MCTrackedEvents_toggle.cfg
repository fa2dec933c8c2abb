SPECIFICATION Spec
CONSTANTS
  Objects = {o1}
  DetQueueSize = 1
  EventBacklog = 1
  MaxCommands = 2
  MaxRetention = 0
  MaxCrashes = 1
  LateSubscriber = TRUE
SYMMETRY Symmetry
INVARIANTS
  FinishedIsTracked
  OpenRowIsInProcess
