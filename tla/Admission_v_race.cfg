SPECIFICATION Spec
CONSTANTS
  j1 = j1
  j2 = j2
  j3 = j3
  Jobs = {j1, j2}
  Capacity = 3
  Settings <- Constant
PROPERTIES
  WithinLimit
