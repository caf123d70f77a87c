SPECIFICATION Spec
CONSTANTS
  na = na
  nb = nb
  pa = pa
  pb = pb
  Node = {na, nb}
  Home = na
  Put = {pa, pb}
  NoPut = NoPut
  da = da
  ga = ga
  Delete = {da}
  At <- MCAt
  Size <- MCSize
  BlockSize = 2
  Get = {}
  MaxRetry = 1
  MaxLosses = 1
  MaxExpiries = 1
  MaxRestarts = 0
  Exclusive = TRUE
INVARIANTS TypeOK
PROPERTIES BehavesAsRegister
CHECK_DEADLOCK FALSE
