CONSTANTS
  Task = {main, a}
  Main = main
  HeapSize = 64
  Sizes = {8, 32}
  FifoSize = 1
  MessageSize = 2
  MaxCalls = 9
SPECIFICATION FairSpec
INVARIANTS TypeOK BlocksDisjoint HeapBound MaskedWhole LastWords
PROPERTIES CallsEnd PanicPowersOff
CHECK_DEADLOCK FALSE
