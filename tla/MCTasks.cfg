CONSTANTS
  Task = {main, a, b, c}
  Main = main
  NULL = null
SPECIFICATION FairSpec
INVARIANTS TypeOK InterruptLevels SavedContexts EachTaskListed NeverHalts
PROPERTIES ImplementsRoundRobin NoStarvation
