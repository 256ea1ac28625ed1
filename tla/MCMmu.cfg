CONSTANTS
  Fanout = 2
  Load = 1
  Layouts <- SmallImages
  Ends <- Memories
  MemMapPages = 1
SPECIFICATION Spec
INVARIANTS TypeOK TablesApart KernelMapped MappedNotFree
PROPERTIES ImplementsAddressSpace
CHECK_DEADLOCK FALSE
