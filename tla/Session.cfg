SPECIFICATION AllSpec
CONSTANTS
  Slots = 2  Titles = {app}
  Folders = {f}  MaxKeys = 1
  Ring = 3  MaxTyped = 5
  Names = {"root", "ROOT", "bob"}  Words = {"", "root", "x"}
  MaxUsers = 3  Timeout = 2  TickWords = 6  MaxElapsed = 4
  Factors = {turn}  MaxStack = 3  Attribs = 1  Textures = 2
  Vertices = 5  Depths = {1, 2}  MaxCalls = 5
  Tags = {"ul", "li"}  MaxNodes = 7  MaxOpen = 5  MaxLists = 2
  Sites = {"http"}  MaxTabs = 2  MaxHistory = 2  MaxBookmarks = 1
  MaxDepth = 1  Blocks = {1, 2}  MaxLost = 1
  MaxChars = 3  MaxClip = 2
  Columns = 3  Rows = 2  Beyond = 1  Colors = {black}  White = white  Brushes = {1, 2}
  Grid = 4  MaxLength = 5  MaxScore = 3
  Dirs = {1, 2}  Files = {3}  MaxBack = 2  MaxEntries = 2  Visible = 1
  Goals = {"b"}  MaxTargets = 4  MaxCommands = 2  MaxDeps = 2  MaxMakes = 2
  Height = 2  Wide = 4  TabStop = 2  Letter = {"a"}  MaxLine = 4  MaxKept = 2  MaxCopied = 3
  Scrolled = 1  MaxActions = 7
  FewLines = 1  MaxStarts = 2  Width = 5  MaxSettings = 3
  MaxVars = 2  MaxGuard = 3  MaxEscapes = 1
  Digits = {"5"}  MaxTyping = 3  Decimals = 1  MaxValue = 30
  Hash <- Hashes  Starts <- TwoStarts  Foods <- ThreeFoods  AtFirst <- FivePlaces
  Makefiles <- FourMakefiles  Prints <- TwoPrints  Points <- TwoPoints
  Texts <- ShortTexts  Patterns <- ThreePatterns  Settable <- ThreeNames  Long <- LongNames
  CutName = "cut"  Contents <- TwoContents
INVARIANTS SessionTypeOK EveryWindowDrawn FocusAsDrawn TableSound ProgramsSound 
PROPERTIES KeysInOrder WaitEnds GraceIsEarned
CHECK_DEADLOCK FALSE
