SPECIFICATION Spec
CONSTANTS
  t1 = t1
  t2 = t2
  t3 = t3
  NULL = NULL
  Tensor <- Two
  TENSOR_MAX_SRC = 1
  LayerIds <- OneLayer
  Kinds <- AddOnly
  Accelerator = "GPU"
  MaxOutputs = 2
INVARIANT
  NoNullDereference
CHECK_DEADLOCK FALSE
