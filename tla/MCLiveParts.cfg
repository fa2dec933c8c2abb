SPECIFICATION LivePartsSpec
CONSTANTS
  MaxSockets = 3
  MaxChunks = 3
  MaxBuffer = 2
  MaxToggles = 2
  MaxErrors = 1
  PlayInBackground = FALSE
  MseSupported = TRUE
  Candidates = TRUE
  NameIsStream = TRUE
  MaxEvents = 4
  Things = {a, b}
  MaxNews = 3
  MaxDrops = 1
  MaxWire = 2
INVARIANTS
  OneSocket
  StreamInOrder
  LiveHasPicture
  EndedIsGone
PROPERTIES
  OpenedIsAnswered
  QuietIsReleased
  
CHECK_DEADLOCK FALSE
