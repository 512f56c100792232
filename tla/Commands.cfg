SPECIFICATION BoundedSpec
CONSTANTS
  Addr = {"x", "y", "z"}
  GroupOf <- MCGroupOf
  Attr = {"p", "q", "onX", "onY"}
  NoAttr = "absent"
  Meta = {"clean"}
  NoMeta = "clean"
  OutName = {}
  OutVal = {}
  NoOut = NoOut
  Lineage = {}
  NoLineage = NoLineage
  LockId = {"e1", "t"}
  NoLockId = "nolock"
  MaxSerial = 4
  Op = {"e1"}
  DependsOn <- MCDependsOn
  Redirect <- MCRedirect
  PostedDoc <- MCPostedDoc
  Tag = {"t"}
  Refs <- MCRefs
  MaxCrash = 1
INVARIANTS
  ReportedSerialIsOurs
  RowsMatchHistory
PROPERTIES
  MutationsPatchTrunk
  CoarseLockEnds
  RollbackAsShown
  StrictKept
CHECK_DEADLOCK FALSE
