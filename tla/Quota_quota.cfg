SPECIFICATION FairSpec
CONSTANTS
  r1 = r1
  r2 = r2
  u1 = u1
  u2 = u2
  g1 = g1
  j1 = j1
  j2 = j2
  NoGroup = NoGroup
  Rules = {r1, r2}
  Groups = {g1}
  Jobs = {j1, j2}
  Units = {u1, u2}
  RuleOf <- OneEach
  OwnLimit <- NoneOfOwn
  Entered = {1, 2, 3}
  Top = 2
  BatchUnits = 1
  MaxUpsets = 1
  Faults = {"db"}
INVARIANTS
  TypeOK
  InflightWithinLimit
  QuotaKept
PROPERTIES
  EditsTakeEffect
CHECK_DEADLOCK FALSE
