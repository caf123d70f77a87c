SPECIFICATION Spec
CONSTANTS
  m = m
  a = a
  b = b
  low = low
  high = high
  top = top
  Node <- MCNode
  Manager = m
  NoNode = NoNode
  Base = 2
  Manifest = {top}
  Hash <- MCOneHash
  MaxVersion = 2
  MaxTimeouts = 0
  MaxRestarts = 1
  Garbage <- MCGarbage
  Departures = FALSE
  Orderly = FALSE
INVARIANTS VersionNamesRing LossHasCause
SYMMETRY MCSymmetry
CHECK_DEADLOCK FALSE
