\* The same instance, without the assumption on commits.
SPECIFICATION ScopeSpec
CONSTANTS
  net = net
  web = web
  app = app
  web0 = web0
  Addr <- MCAddr
  BaseOf <- MCBaseOf
  Graphs <- MCGraphs
  Configs <- MCConfigs
  Request = {mine, other}
  Mine = mine
  MaxSerial = 2
  MaxEntries = 1
CHECK_DEADLOCK FALSE
INVARIANT
  PinnedPlanTrue
