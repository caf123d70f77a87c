SPECIFICATION FairSpec
CONSTANTS
  m = m
  a = a
  b = b
  low = low
  high = high
  top = top
  Node <- MCNode
  Manager = m
  NoNode = NoNode
  Base = 2
  Manifest = {low, high, top}
  Hash <- MCHash
  MaxVersion = 4
  MaxTimeouts = 1
  MaxRestarts = 0
  Garbage <- MCNoGarbage
  Departures = TRUE
  Orderly = TRUE
INVARIANTS NothingLost Settled RingSpread
PROPERTIES ComesToRest FollowsTheRules
CHECK_DEADLOCK FALSE
