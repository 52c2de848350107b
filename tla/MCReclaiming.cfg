SPECIFICATION ReclaimSpec
CONSTANTS
  Active = {"cleaners", "rotation", "finder", "catalogs", "carving", "stripper"}
  Pieces <- MCPieces
  Number <- MCNumber
  Home <- H
  Running = "6"
  KeyLimit = 3
  Unknown = "?"
  SystemRequests <- MCSystemRequests
  BrowserRequests <- MCBrowserRequests
  Layouts <- MCLayouts
  Arrivals <- MCArrivals
  MaxMeddlings = 1
  MaxDay = 12
  Week = 2
  Month = 3
  Year = 6
  Policy <- MCPolicy
  Files = {1, 2, 3}
  Texts = {"", "x", "yy", "zz"}
  Sizes <- MCSizes
  MinSize = 2
  Roots <- MCRoots
  Paths = {1, 2, 3}
  Contents = {"x", "y"}
  Times = {1, 2}
  MaxEntries = 3
  MaxEdits = 1
  Bytes = {0, 1, 2, 3}
  BufferLength = 5
  SignatureSets <- MCSignatureSets
  Fills = {3, 0, 9}
  PseudoRandom = 9
  Samples <- MCSamples
  PdfKeys <- MCPdfKeys
  OfficeTags <- MCOfficeTags
  Mp4Keys <- MCMp4Keys
  ValueCap = 2
INVARIANTS
  ProtectedSurvives
  CleanIsThorough
  FreedAsReported
  AuditIsHeeded
  RecentPeriodsSurvive
  GroupsAreEqualFiles
  OneCopySurvives
  NoSignatureLeft
  
CHECK_DEADLOCK FALSE
