SPECIFICATION ModelSpec
CONSTANTS
  Values <- SomeValues
  Documents <- ModelDocuments
  Uint32Values = 8192
  FloatUnits = 2
  Single <- Rounded
  OutOfRange <- SomeInts
  MaxReads = 3
  ParsedBefore <- AfterThreeTokens
INVARIANTS
  ModelTypeOK
  AcceptsExactlyWholeHeaders
  ParsedAsWritten
  ReadsAreTheTensors
  ReadsUntilFirstFailure
  ConfigAsWritten
  ConfigRefusedExactly
CHECK_DEADLOCK FALSE
