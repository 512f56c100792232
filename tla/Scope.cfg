\* One plan and another client's scope expansion, three resources, one of
\* them with an instance, a commit at any moment, a graph cache of one entry.
SPECIFICATION ScopeSpec
CONSTANTS
  net = net
  web = web
  app = app
  web0 = web0
  Addr <- MCAddr
  BaseOf <- MCBaseOf
  Graphs <- MCGraphs
  Configs <- MCConfigs
  Request = {mine, other}
  Mine = mine
  MaxSerial = 2
  MaxEntries = 1
CHECK_DEADLOCK FALSE
INVARIANTS
  ContractClosed
  AdmittedPlanTrue
  LinkedPlansConflict
PROPERTIES
  PlanEnds
