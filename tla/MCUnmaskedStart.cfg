CONSTANTS
  Task = {main, a, b}
  Main = main
  NULL = null
  Unmasked <- OnlyStart
SPECIFICATION SpecUnmasked
INVARIANTS ContextSetUp
CHECK_DEADLOCK FALSE
