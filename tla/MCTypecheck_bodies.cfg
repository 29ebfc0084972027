CONSTANTS
  NodeCount = 16
  Node <- Nodes
  Start = 1
  BaseTypes = {"null", "undefined", "number", "string"}
  Graphs <- BodyGraphs
  None = None
SPECIFICATION Spec
INVARIANTS
  TypeOK
  ReachableIsChecked
  RefinementsDominate
PROPERTIES
  TypecheckEnds
CHECK_DEADLOCK FALSE
