\* A lease that runs out between the last heartbeat and the commit
\* (ReservationsHeldAtCommit), and a heartbeat renewal in flight when Terraform
\* returns (AbortedMeansPreempted).  TLC stops at the first:
\* leave one out to see the other.
SPECIFICATION ApplySafetySpec
CONSTANTS
  x = x
  y = y
  r1 = r1
  r2 = r2
  Addr = {x, y}
  Glob = {x, y}
  GroupOf <- MCGroupOf
  Attr = {base, r1, r2}
  NoAttr = NoAttr
  Meta = {clean}
  NoMeta = clean
  OutName = {}
  OutVal = {}
  NoOut = NoOut
  Lineage = {}
  NoLineage = NoLineage
  LockId = {}
  NoLockId = NoLockId
  MaxSerial = 5
  Apply = {r1, r2}
  Intersects <- SameAddress
  MaxLease = 1
  WriteSet <- MCWriteSet
  ReadSet <- MCReadSet
  Imported = base
  MaxRetries = 2
  Troubled = {r1, r2}
  Start = {"imported"}
INVARIANTS
  AbortedMeansPreempted
PROPERTIES
  ReservationsHeldAtCommit
CHECK_DEADLOCK FALSE
