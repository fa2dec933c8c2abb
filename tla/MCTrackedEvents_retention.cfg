SPECIFICATION Spec
CONSTANTS
  Objects = {o1, o2}
  DetQueueSize = 1
  EventBacklog = 1
  MaxCommands = 0
  MaxRetention = 1
  MaxCrashes = 0
  LateSubscriber = FALSE
SYMMETRY Symmetry
INVARIANTS
  SnapshotFileHasRow
PROPERTIES
  ImplementsLifecycle
