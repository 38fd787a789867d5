SPECIFICATION SmallSpec
CONSTANTS
  Limits = {3, 5}  Fast = 4  Threshold = 1
  Size = 3  Pipe = 3  QueueSize = 2  MaxEvents = 3
  Ports = 2  Pool = 8  Memories = {6, 10, 16, 20}  Ring = 3  Events = 10  MaxReports = 3
  Buffers = 2  RingSize = 4  Words = 8  Start = 1  Stop = 5  MaxFrames = 10  MaxPackets = 5  MaxSends = 3
  Hosts = {"a", "b", "s"}  StaticHosts = {"s"}  Offers = {"o1"}
  Neighbours = {"n", "gateway"}  CacheSize = 1  Attempts = 2  Retries = 2
  Sectors = 2  Slices = 2  Values = {a, b}  MaxOps = 2
  Names = {"ann"}  Secrets = {"p q", " "}  MaxTicks = 1  MaxCuts = 1
  MaxData = 2  MaxIdle = 1
  MaxHeaders = 2  MaxHeader = 2  MaxStatus = 2  MaxBody = 3  MaxResponse = 12  MinResponse = 4
  Lbas = {0, 1, 2}  DirSectors = 2  SectorBytes = 2  MaxVisited = 3  MaxCalls = 3
  Screens = {1, 2}  MaxSectors = 2  MaxTurns = 2
  MaxDownload = 11  MaxFile = 4
  Layouts <- FourLayouts  Token <- FirstWords  Responses <- SmallResponses
  Volumes <- ThreeVolumes  FatCalls <- ManyCalls
  Icons <- TwoIcons  Paths <- FewPaths  Medias <- ThreeMedias
  Downloads <- SmallDownloads  Urls <- FiveUrls
INVARIANTS DevicesTypeOK PointerSound RightAddress ServicesSound
PROPERTIES ReportsInOrder FramesInOrder CallsReturn
CHECK_DEADLOCK FALSE
