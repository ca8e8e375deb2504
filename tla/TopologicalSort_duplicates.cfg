SPECIFICATION Spec
CONSTANTS
  t1 = t1
  t2 = t2
  t3 = t3
  t4 = t4
  NULL = NULL
  Tensor <- Two
  TENSOR_MAX_SRC = 2
  LayerIds <- NoLayers
  Kinds <- NoKinds
  Graphs <- RepetitiveGraphs
INVARIANT
  CycleDetectedMeansCycle
CHECK_DEADLOCK FALSE
