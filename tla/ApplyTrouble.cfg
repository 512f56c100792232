\* The two conflicting runs, under fairness, with crashes, aborts, failures and
\* lost replies at any point, on an unwritten and on an imported state.
SPECIFICATION ApplySpec
CONSTANTS
  x = x
  y = y
  r1 = r1
  r2 = r2
  Addr = {x, y}
  Glob = {x, y}
  GroupOf <- MCGroupOf
  Attr = {base, r1, r2}
  NoAttr = NoAttr
  Meta = {clean}
  NoMeta = clean
  OutName = {}
  OutVal = {}
  NoOut = NoOut
  Lineage = {}
  NoLineage = NoLineage
  LockId = {}
  NoLockId = NoLockId
  MaxSerial = 5
  Apply = {r1, r2}
  Intersects <- SameAddress
  MaxLease = 1
  WriteSet <- MCWriteSet
  ReadSet <- MCReadSet
  Imported = base
  MaxRetries = 2
  Troubled = {r1, r2}
  Start = {"unwritten", "imported"}
INVARIANTS
  AuditTruthful
PROPERTIES
  CommitIsolated
  EveryRunEnds
CHECK_DEADLOCK FALSE
