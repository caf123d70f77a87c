SPECIFICATION Spec
CONSTANTS
  m = m
  a = a
  b = b
  c = c
  Node <- MCNode
  Manager = m
  NoNode = NoNode
  Base = 3
  MaxVersion = 6
INVARIANTS TypeOK Partition
PROPERTIES MovesAsPromised
CHECK_DEADLOCK FALSE
