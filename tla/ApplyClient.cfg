SPECIFICATION ClientSpec
CONSTANTS
  Addr = {"x0", "x1", "y"}
  GroupOf <- MCGroupOf
  Attr = {"p", "q", "r"}
  NoAttr = "absent"
  Meta = {"clean"}
  NoMeta = "clean"
  OutName = {}
  OutVal = {}
  NoOut = NoOut
  Lineage = {}
  NoLineage = NoLineage
  LockId = {"k", "t"}
  NoLockId = "nolock"
  MaxSerial = 4
  Indexed = {"x0", "x1"}
  Needs <- MCNeeds
  Component <- MCComponent
  Replaces <- MCReplaces
  Configs <- MCConfigs
  Invocations <- MCInvocations
  Drifting = {"y"}
  SoftLimit = 1
  MaxCommitRetries = 2
  Me = "k"
  Other = "t"
  Edits <- MCEdits
  StartDocs <- MCStartDocs
INVARIANTS
  AsConfirmed
  RecordedOrExplained
PROPERTIES
  ScopeKept
CHECK_DEADLOCK FALSE
