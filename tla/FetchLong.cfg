CONSTANTS
  MaxConnects = 2  BufferSize = 4  MaxRead = 5
  EntitySize = 3  Mss = 2  Window = 2  Modes = {"length", "close", "redirect"}
  MaxRetry = 3  IdleLimit = 5
  MaxFaults = 0  Hasty = FALSE  ServerStops = TRUE
SPECIFICATION Spec
INVARIANT EntityComplete
