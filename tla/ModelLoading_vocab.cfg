SPECIFICATION ModelSpec
CONSTANTS
  Values <- SomeValues
  Documents <- ModelDocuments
  Uint32Values = 8192
  FloatUnits = 2
  Single <- Rounded
  OutOfRange <- SomeInts
  MaxReads = 0
  ParsedBefore = {}
INVARIANT VocabIsNotTheHiddenSize
CHECK_DEADLOCK FALSE
