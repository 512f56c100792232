SPECIFICATION StartSpec
CONSTANTS
  Write = {w1}
  Proc = {p1, p2}
  File = {1, 2, 3}
  Legacy = {2}
INVARIANT
  MigratedIsWhole
CHECK_DEADLOCK FALSE
