SPECIFICATION Spec
CONSTANTS
  Floats <- EveryExponent
  Halves <- EveryHalf
  Operands <- ManyOperands
INVARIANTS
  TypeOK
  RoundsToNearest
  WidensExactly
  ArithmeticRoundsOnce
