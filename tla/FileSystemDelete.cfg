CONSTANTS
  A = A  B = B  D = D  Z = Z
  Missing = Missing  NoEntry = NoEntry
  Name <- Paths  Bare <- Stripped  Block <- Blocks  ZeroBlock = Z
  MaxFiles = 8  MaxContents = 8  MaxBlocks = 2  DesktopCap = 8
  FileName <- TwoFiles  DirName <- OneDir  Payload <- OneText
  DesktopEntries <- Desktop  Documents = "/Documents"  WebPages <- Pages
  ExtraDirs <- NoPaths  Seeds <- NoPaths  DefaultData <- Default
  UserProfile = "/System/current_user"  HomeDir = "/users/u/"
  FailingAreas = {}
  MaxOps = 3  MaxCrashes = 1  MaxFaults = 0
SPECIFICATION Spec
PROPERTY DeletesOnlyTheFile
