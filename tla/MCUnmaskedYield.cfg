CONSTANTS
  Task = {main, a, b}
  Main = main
  NULL = null
  Unmasked <- OnlyYield
SPECIFICATION SpecUnmasked
INVARIANTS AssertionsHold
CHECK_DEADLOCK FALSE
