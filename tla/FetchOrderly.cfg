CONSTANTS
  MaxConnects = 2  BufferSize = 5  MaxRead = 5
  EntitySize = 3  Mss = 2  Window = 3  Modes = {"length", "close", "redirect"}
  MaxRetry = 3  IdleLimit = 5
  MaxFaults = 0  Hasty = FALSE  ServerStops = TRUE
SPECIFICATION Spec
INVARIANTS EntityComplete AcknowledgedIsKept
PROPERTY ReliableStream
