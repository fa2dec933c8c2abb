SPECIFICATION FairSpec
CONSTANTS
  Objects = {o1}
  DetQueueSize = 1
  EventBacklog = 2
  MaxCommands = 0
  MaxRetention = 0
  MaxCrashes = 1
  LateSubscriber = FALSE
PROPERTIES
  EndedIsReleased
  OpenRowIsClosed
