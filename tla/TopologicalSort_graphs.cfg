SPECIFICATION Spec
CONSTANTS
  t1 = t1
  t2 = t2
  t3 = t3
  t4 = t4
  NULL = NULL
  Tensor <- Four
  TENSOR_MAX_SRC = 2
  LayerIds <- SomeLayers
  Kinds <- SomeKinds
  Graphs <- AllGraphs
INVARIANTS
  TypeOK
  SourcesInEarlierLevels
  OrderRespectsDependencies
  ReturnsCompleteSchedule
  LevelsTight
  CycleVerdictExact
  ThrowKeepsAcyclicPart
  GroupsCutUpOrder
PROPERTIES
  Termination
  ImplementsSchedule
CHECK_DEADLOCK FALSE
