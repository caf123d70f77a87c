SPECIFICATION TrafficSpec
CONSTANTS
  mgr = mgr
  a = a
  b = b
  peer = peer
  top = top
  Node <- MCNode
  Manager = mgr
  NoNode = NoNode
  NoRequest = NoRequest
  Base = 2
  Manifest = {peer, top}
  Hash <- MCHash
  MaxVersion = 3
  MaxTimeouts = 0
  MaxRestarts = 0
  Garbage <- MCGarbage
  Departures = TRUE
  Orderly = TRUE
  Requested = {top}
  MaxRequests = 2
  MaxLosses = 1
INVARIANTS TrafficTypeOK MisplacedHasCause KeptSomewhere ZombieHasCause CrashHasCause
SYMMETRY MCSymmetry
CHECK_DEADLOCK FALSE
