CONSTANTS
  NodeCount = 16
  Node <- Nodes
  Start = 1
  BaseTypes = {"null", "undefined", "number", "string"}
  Graphs <- LoopGraphs
  None = None
SPECIFICATION Spec
PROPERTIES
  TypecheckEnds
CHECK_DEADLOCK FALSE
