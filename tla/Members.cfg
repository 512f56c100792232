SPECIFICATION MembersSpec
CONSTANTS
  Account = {a1, a2}
  Workspace = {w1, w2}
  Invitation = {i1, i2}
  Request = {r1, r2}
  Role = {"owner", "tenant_admin", "member"}
  MaxOrganizations = 1
SYMMETRY MembersSymmetry
INVARIANTS
  PersonalWorkspaceOwned
  OwnerKept
PROPERTIES
  JoinsByInvitation
