SPECIFICATION AnySpec
CONSTANTS
  m = m
  a = a
  b = b
  c = c
  Node <- MCSmallNode
  Manager = m
  NoNode = NoNode
  Base = 2
  MaxVersion = 4
PROPERTIES AddLosesNoKey
CHECK_DEADLOCK FALSE
