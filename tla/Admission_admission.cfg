SPECIFICATION FairSpec
CONSTANTS
  j1 = j1
  j2 = j2
  j3 = j3
  Jobs = {j1, j2, j3}
  Capacity = 3
  Settings <- Changing
INVARIANTS
  TypeOK
  NoTokenLeak
  PortsHeld
PROPERTIES
  WorkConserving
