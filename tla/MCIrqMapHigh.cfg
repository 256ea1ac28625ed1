CONSTANTS
  Ids <- HighIds
  Handlers = {f}
  NoHandler = none
  InitialSlots = 8
SPECIFICATION IrqMapSpec
INVARIANTS NullEndsSearch
CHECK_DEADLOCK FALSE
