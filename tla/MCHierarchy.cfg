SPECIFICATION FairHierarchySpec
CONSTANTS
  a = a
  b = b
  e = e
  f = f
  C = C
  D = D
  Root = Root
  NoPort = NoPort
  StreamTypes = {"stream"}
  Hierarchies <- Built
  MaxItems = 2
  MayThrow = TRUE
INVARIANTS
  FlatIsGraph
  ValidGraphsFlatten
  OutputsAreUsed
  FlattenFollowsPaths
  PathsDeliver
PROPERTIES
  FlattenReturns
  EvaluateTerminates
CHECK_DEADLOCK FALSE
