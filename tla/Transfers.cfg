SPECIFICATION QuietSpec
CONSTANTS
  Tenant = {"w1", "w2"}
  Env = {e1, e2}
  Slug = {s1, s2}
  Name = {"n1"}
  Content = {"c"}
  Proposal = {p1, p2}
  Token = {k1}
  Request = {r1, r2}
  MaxChurn = 1
  MaxEnvs <- MCMaxEnvs
SYMMETRY TransferSymmetry
INVARIANTS
  StatesFollowEnvironment
PROPERTIES
  OwnerChangesByProposal
CHECK_DEADLOCK FALSE
