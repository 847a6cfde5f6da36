SPECIFICATION EvaluateSpec
CONSTANTS
  p1 = p1
  p2 = p2
  p3 = p3
  p4 = p4
  Count = 3
  MaxFunctional = 3
  MaxConns = 12
  Cyclic = TRUE
  Graphs <- ThreeFourAndHandMade
  PlanOnly <- FourButHandMade
  MaxItems = 2
  MayThrow = TRUE
INVARIANTS
  InputsFirst
  FailsOnlyOnCycles
  BuffersBridge
  NoNeedlessBuffers
  PlanRespectsConnections
  StreamIntegrity
  FrameworkNeverThrows
  NothingRunsOnUnfinishedData
  DataInputsAvailable
  EndToEndDelivery
PROPERTY ImplementsDataflow
CHECK_DEADLOCK FALSE
