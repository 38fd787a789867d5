CONSTANTS
  A = A  B = B  D = D  Z = Z
  Missing = Missing  NoEntry = NoEntry
  Name <- KeptPaths  Bare <- StrippedKept  Block <- Blocks  ZeroBlock = Z
  MaxFiles = 6  MaxContents = 6  MaxBlocks = 2  DesktopCap = 8
  FileName <- ProfileAndStarter  DirName <- OneDir  Payload <- Texts
  DesktopEntries <- Desktop  Documents = "/Documents"  WebPages <- Pages
  ExtraDirs <- NoPaths  Seeds <- Starters  DefaultData <- Default
  UserProfile = "/System/current_user"  HomeDir = "/users/u/"
  FailingAreas <- AllButVolume
  MaxOps = 2  MaxCrashes = 1  MaxFaults = 1
SPECIFICATION SpecKeeping
INVARIANTS TypeOK ContentsMatchTable VolumeBeforeEntries
PROPERTIES IsolatesFiles SaveIsComplete
