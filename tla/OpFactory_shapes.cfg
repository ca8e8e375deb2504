SPECIFICATION Spec
CONSTANTS
  TENSOR_MAX_DIMS = 4
  ElementSize = 2
  SizeValues = 65536
  InputShapes <- SomeInputs
  WeightShapes <- SomeWeights
  NewShapes <- SomeShapes
  Perms <- SomePerms
  InnerSizes <- SomeSizes
  MaxCalls = 3
INVARIANTS
  TypeOK
  ShapesHaveNoHoles
  ShapeOpsKeepElements
  
  LinearContractsMatching
CHECK_DEADLOCK FALSE
