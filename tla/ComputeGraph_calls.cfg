SPECIFICATION Spec
CONSTANTS
  t1 = t1
  t2 = t2
  t3 = t3
  NULL = NULL
  Tensor <- Three
  TENSOR_MAX_SRC = 1
  LayerIds <- OneLayer
  Kinds <- AddOnly
  Accelerator = "GPU"
  MaxOutputs = 2
INVARIANTS
  TypeOK
  GettersHandOutLiveTensors
  NoUseAfterFree
  SortedScheduleIsCurrent
  ThrowLeavesTheCycle
PROPERTIES
  DevicesResetBySuccess
SYMMETRY TensorSymmetry
CHECK_DEADLOCK FALSE
