SPECIFICATION PagesSpec
CONSTANTS
  MaxChanges = 4
  MaxPeers = 4
  Admin = TRUE
  Presets = 2
  MaxActs = 3
  MaxManual = 2
  Cams = {"front", "back"}
  Groups = {"in", "out"}
  MaxClicks = 3
  GridCams = {"x", "y"}
  GroupNames = {"in", "out"}
  MaxGridActs = 3
  CurrentHour = 3
  Recorded = {1, 2}
  Length = 2
  MaxScrubs = 3
  Chunks = 2
  Span = 2
  MaxPlayActs = 1
  ReviewIds = {"r1", "r2"}
  MotionEnd = 4
  MaxReviewActs = 2
  ObjectCount = 2
  PageLimit = 1
  MaxExploreActs = 3
  FirstConfigs <- MaskConfigs
  MaxPoints = 5
  MaxMaskActs = 4
  CameraOrder <- SettingsCameras
  MaxSettingsActs = 5
  ReviewCams = {"a", "b"}
  CamGroups <- FilterGroups
  TrackedBy <- FilterTracked
  MaxFilterActs = 4
  Segments <- ExportSegments
  DayStart = 8
  DayEnd = 24
  Spots = {13, 14, 18, 23}
  Pad = 4
  MaxExportActs = 7
  MaxPosts = 1
  DetailIds = {"o1", "o2"}
  Clips = {"o1", "o2"}
  Snaps = {"o1"}
  Steps <- DetailSteps
  Words = {"x"}
  MaxDetailActs = 5
  MaxEdits = 2
  FaceNames = {"ann", "bob", "eve"}
  FirstFaces <- LibraryFaces
  MaxFaceActs = 4
  MaxFaceAsks = 2
  Services = {"frigate", "nginx"}
  LogSeverities = {"info", "error"}
  FirstLogged = 3
  InitialLines = 1
  PageLines = 1
  MaxLogged = 4
  MaxLogActs = 2
INVARIANTS
  PagesTypeOK
  NoPeerLeftBehind
  EndedOnce
  
  LayoutSurvives
  PreviewSettles
  
  InProgressStaysOpen
  SelectionFollowsSearch
  SavesAreForTheirCamera
  FreshListIsInForce
  SavedIsShown
  EditsAreShown
  DeletesAreOfTheirFace
  
PROPERTIES
  ChangesAreExact
CHECK_DEADLOCK FALSE
