CONSTANTS
  a = a
  b = b
  d = d
  Routes = {a, b}
  Attributes <- MCAttributes
  SocketPairs <- MCSocketPairs
  NodePorts <- MCNodePorts
  Links = {d}
  DriverKinds <- MCDriverKinds
  ScriptLists <- MCScriptLists
  MaxNodes = 2
  MaxConnections = 2
  MaxNested = 2
  MixedSockets = FALSE
SPECIFICATION StructSpec
INVARIANTS  JobsAreUsed   
           DriversOfDocument DeclaredOnceBeforeUse
CHECK_DEADLOCK FALSE
