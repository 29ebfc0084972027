CONSTANTS
  None = None
  w1 = w1
  w2 = w2
  w3 = w3
  w4 = w4
  j1 = j1
  j2 = j2
  j3 = j3
  First = w1
  Workers <- Workers3
  Jobs = {j1, j2, j3}
  MaxStarts = 3
SPECIFICATION TestSpec
SYMMETRY Symmetry3
INVARIANTS
  NoDanglingPackage
CHECK_DEADLOCK FALSE
