CONSTANTS
  Task = {main, a}
  Main = main
  HeapSize = 64
  Sizes = {8, 32}
  FifoSize = 1
  MessageSize = 2
  MaxCalls = 9
SPECIFICATION Spec
INVARIANTS BlocksApart
CHECK_DEADLOCK FALSE
