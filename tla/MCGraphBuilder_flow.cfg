CONSTANTS
  Programs <- MeantPrograms
  Variables = {"x", "y"}
SPECIFICATION Spec
INVARIANTS
  GraphMeansTree
  ReadsMeanDefinitions
  AssertionsHold
  ArmsHaveTheirBranch
CHECK_DEADLOCK FALSE
