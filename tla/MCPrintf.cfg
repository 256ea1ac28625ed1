CONSTANTS
  BufSize = 5
  SizeRange = 32
  Formats <- MCFormats
  Words <- MCWords
  StringAt <- MCStrings
SPECIFICATION Spec
INVARIANTS TypeOK AgreesWithC DiffersOtherwise OnlyPercentFetchesMore
CHECK_DEADLOCK FALSE
