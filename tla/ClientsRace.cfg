\* A plain Terraform session racing a kl apply commit (RaceWithApplyIsAConflict),
\* and sessions that post twice (EveryPostKeepsOthers).  Leave one out to
\* see the other.
SPECIFICATION ClientSpec
CONSTANTS
  Addr = {x, y}
  GroupOf <- MCGroupOf
  Attr = {p}
  NoAttr = NoAttr
  Meta = {clean}
  NoMeta = clean
  OutName = {}
  OutVal = {}
  NoOut = NoOut
  Lineage = {}
  NoLineage = NoLineage
  LockId = {l1, l2}
  NoLockId = NoLockId
  MaxSerial = 4
  MaxPosts = 2
SYMMETRY ClientSymmetry
PROPERTIES
  RaceWithApplyIsAConflict
  EveryPostKeepsOthers
CHECK_DEADLOCK FALSE
