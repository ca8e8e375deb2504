SPECIFICATION Spec
CONSTANTS
  t1 = t1
  t2 = t2
  t3 = t3
  Graph = {g1, g2, g3}
  Tensor <- ThreeTensors
  Operators <- TwoOperators
  LayerOf <- TwoLayers
  MaxOutputs = 2
INVARIANTS
  TypeOK
  OneOwnerUntilDeleted
  MembersTravelTogether
PROPERTY ImplementsOwnership
SYMMETRY GraphSymmetry
CHECK_DEADLOCK FALSE
