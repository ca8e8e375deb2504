SPECIFICATION Spec
CONSTANTS
  Floats <- EveryExponent
  Halves = {0}
  Operands = {}
INVARIANT RoundsEveryNumber
