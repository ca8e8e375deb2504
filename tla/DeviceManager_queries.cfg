SPECIFICATION Spec
CONSTANTS
  OtherProviders <- SomeProviders
  SizeValues = 16
  Fallback = 8
  Reports <- SomeReports
  MaxRegistrations = 3
INVARIANTS
  TypeOK
  AnswersStand
  AvailableAsReported
