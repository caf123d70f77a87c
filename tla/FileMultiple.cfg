SPECIFICATION Spec
CONSTANTS
  na = na
  nb = nb
  pa = pa
  pb = pb
  Node = {na, nb}
  Home = nb
  Put = {pa}
  NoPut = NoPut
  da = da
  ga = ga
  Delete = {}
  At <- MCOneAt
  Size <- MCEvenSize
  BlockSize = 2
  Get = {}
  MaxRetry = 0
  MaxLosses = 0
  MaxExpiries = 0
  MaxRestarts = 0
  Exclusive = FALSE
INVARIANTS DoneIsWritten
CHECK_DEADLOCK FALSE
