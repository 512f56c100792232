SPECIFICATION RowsSpec
CONSTANTS
  Id = {i1, i2}
  NameOfState = {n1}
  Label = {x1}
  Lineage = {g1, g2}
  Resource = {}
  LockId = {l1, l2}
  Caller = {r1, r2}
  SoftLimits = {0, 1}
  DefaultLimit = 0
  MaxSerial = 2
  MaxLabels = 1
  MaxChanges = 2
  NoId = NoId
  NoLock = NoLock
  NoLineage = NoLineage
SYMMETRY RowSymmetry
INVARIANTS
  OneLockUnlessRelaxed
PROPERTIES
  WritesStay
  DeletesStay
CHECK_DEADLOCK FALSE
