SPECIFICATION Spec
CONSTANTS
  first = first
  second = second
  na = na
  nb = nb
  pre = pre
  x1 = x1
  x2 = x2
  x3 = x3
  x4 = x4
  x5 = x5
  Name = {na, nb}
  Prefix = {pre}
  PrefixOf <- MCPrefixOf
  Content = {x1, x2, x3, x4, x5}
  Hash = {mh}
  mh = mh
  Whole = Whole
  Absent = Absent
  Torn = Torn
  MaxFaults = 1
  Conn = {first, second}
  Stream <- MCStream
  Fetched = {x5}
  MaxPacket = 3
  MaxKills = 1
  MaxUse = 1
INVARIANTS TypeOK RoomLeft RefusedHasCause NothingWaits ExitHasCause ServedSinceStart
PROPERTIES TakesInOrder
CHECK_DEADLOCK FALSE
