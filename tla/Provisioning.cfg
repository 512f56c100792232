SPECIFICATION ProvSpec
CONSTANTS
  Write = {w1}
  Proc = {p1, p2}
  File = {1, 2, 3}
  Legacy = {2}
SYMMETRY ProcSymmetry
INVARIANTS
  CutoverComplete
PROPERTIES
  RunLeavesSchemaWhole
CHECK_DEADLOCK FALSE
