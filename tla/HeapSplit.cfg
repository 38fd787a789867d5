CONSTANTS
  Base = 4  HeapSize = 46  Word = 64
  Requests = {1, 5, 10}  MaxCalls = 5  AfterNarrow = TRUE
SPECIFICATION Spec
PROPERTY SplitKeepsMinimum
