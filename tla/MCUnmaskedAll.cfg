CONSTANTS
  Task = {main, a, b}
  Main = main
  NULL = null
  Unmasked <- AllCalls
SPECIFICATION SpecUnmasked
INVARIANTS TypeOKUnmasked InterruptLevelsUnmasked
CHECK_DEADLOCK FALSE
