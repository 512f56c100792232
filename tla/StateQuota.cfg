SPECIFICATION RowsSpec
CONSTANTS
  Id = {i1, i2}
  NameOfState = {n1, n2}
  Label = {x1}
  Lineage = {g1}
  Resource = {a1, a2}
  LockId = {}
  Caller = {r1, r2}
  SoftLimits = {0, 1}
  DefaultLimit = 1
  MaxSerial = 1
  MaxLabels = 1
  MaxChanges = 1
  NoId = NoId
  NoLock = NoLock
  NoLineage = NoLineage
SYMMETRY RowSymmetry
PROPERTIES
  QuotaKept
CHECK_DEADLOCK FALSE
