CONSTANTS
  MaxConnects = 2  BufferSize = 3  MaxRead = 5
  EntitySize = 1  Mss = 1  Window = 1  Modes = {"length"}
  MaxRetry = 2  IdleLimit = 1
  MaxFaults = 1  Hasty = TRUE  ServerStops = FALSE
SPECIFICATION Spec
INVARIANTS TypeOK FlagMeansUnread EveryReturnCloses ReadsInOrder
PROPERTY FetchReturns
