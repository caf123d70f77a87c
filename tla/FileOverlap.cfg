SPECIFICATION Spec
CONSTANTS
  na = na
  nb = nb
  pa = pa
  pb = pb
  Node = {na, nb}
  Home = nb
  Put = {pa, pb}
  NoPut = NoPut
  da = da
  ga = ga
  Delete = {da}
  At <- MCAt
  Size <- MCSize
  BlockSize = 2
  Get = {ga}
  MaxRetry = 0
  MaxLosses = 0
  MaxExpiries = 0
  MaxRestarts = 0
  Exclusive = FALSE
INVARIANTS DoneHasCause FindsWhatStays
CHECK_DEADLOCK FALSE
