CONSTANTS
  Programs <- AnyProgram
  Variables = {"x", "y"}
SPECIFICATION Spec
INVARIANTS
  SkippedIsUnreachable
CHECK_DEADLOCK FALSE
