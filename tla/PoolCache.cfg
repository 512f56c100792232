SPECIFICATION PoolSpec
CONSTANTS
  Request = {"r1", "r2"}
  Dsn = {"d1", "d2", "d3"}
  Instance = {"k1", "k2"}
  Route <- MCRoute
  MaxPools = 2
  Cap <- MCCap
  Threshold = 2
  Cooldown = 1
  Flaky = {"k2"}
INVARIANTS
  LimitsHold
  OpenPoolsAccounted
PROPERTIES
  EveryRequestEnds
  CircuitRecovers
