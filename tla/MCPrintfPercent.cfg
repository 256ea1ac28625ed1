CONSTANTS
  BufSize = 5
  SizeRange = 32
  Formats <- MCFormats
  Words <- MCWords
  StringAt <- MCStrings
SPECIFICATION Spec
INVARIANTS FetchesWhatIsPassed
CHECK_DEADLOCK FALSE
