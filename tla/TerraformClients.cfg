\* Two clients, one instance and one output, beside kl apply, rollbacks and
\* mode switches.
SPECIFICATION ClientSpec
CONSTANTS
  Addr = {x}
  GroupOf <- MCGroupOf
  Attr = {p}
  NoAttr = NoAttr
  Meta = {clean}
  NoMeta = clean
  OutName = {o}
  OutVal = {v}
  NoOut = NoOut
  Lineage = {}
  NoLineage = NoLineage
  LockId = {l1, l2}
  NoLockId = NoLockId
  MaxSerial = 3
  MaxPosts = 1
SYMMETRY ClientSymmetry
INVARIANTS
  ExclusiveLockFreezesTrunk
PROPERTIES
  PostIsCellwiseCas
  VersionLogSpec
CHECK_DEADLOCK FALSE
