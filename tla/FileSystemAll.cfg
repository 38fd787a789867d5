CONSTANTS
  A = A  B = B  D = D  Z = Z
  Missing = Missing  NoEntry = NoEntry
  Name <- Paths  Bare <- Stripped  Block <- Blocks  ZeroBlock = Z
  MaxFiles = 6  MaxContents = 3  MaxBlocks = 1  DesktopCap = 5
  FileName <- TwoFiles  DirName <- FileOrDir  Payload <- OneText
  DesktopEntries <- Desktop  Documents = "/Documents"  WebPages <- Pages
  ExtraDirs <- Dirs1  Seeds <- NoPaths  DefaultData <- Default
  UserProfile = "/System/current_user"  HomeDir = "/users/u/"
  FailingAreas <- AllAreas
  MaxOps = 4  MaxCrashes = 1  MaxFaults = 1
SPECIFICATION Spec
INVARIANT ChkdskLeavesNoOrphan
PROPERTIES TableSectorsCurrent ReturnsToPrompt
