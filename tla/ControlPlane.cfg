CONSTANTS
  Account = {"ann"}
  Tenant = {"org", "own"}
  Label = {"a", "b", "c"}
  Env = {"ops", "e", "f"}
  TenantOf <- MCTenantOf
  Owner <- MCOwner
  Token = {"boot", "k", "op"}
  Home <- MCHome
  Bootstrap = "boot"
  OperatorEnv = "ops"
  Start <- MCStart
  LabelOf <- MCLabelOf
  Pat = {"p", "q", "s"}
  FirstPat <- MCFirstPat
  Request = {r1, r2}
  RolePermissions <- MCRolePermissions
  Grantable <- MCGrantable
  Retention = 1
  MaxClock = 1
  MaxCommits = 2
SYMMETRY MCSymmetry
SPECIFICATION ControlSpec
INVARIANTS AccessListTrue InitialisedHasAdmin
PROPERTIES EffectsCovered PurgeRespectsRetention
