SPECIFICATION Spec
CONSTANTS
  m = m
  a = a
  b = b
  low = low
  high = high
  top = top
  Node <- MCPair
  Manager = m
  NoNode = NoNode
  Base = 2
  Manifest = {top}
  Hash <- MCOneHash
  MaxVersion = 2
  MaxTimeouts = 1
  MaxRestarts = 1
  Garbage <- MCGarbage
  Departures = FALSE
  Orderly = FALSE
INVARIANTS TypeOK LossHasCause
PROPERTIES EditsTheRing
CHECK_DEADLOCK FALSE
