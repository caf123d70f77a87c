SPECIFICATION FairSpec
CONSTANTS
  na = na
  nb = nb
  pa = pa
  pb = pb
  Node = {na, nb}
  Home = nb
  Put = {pa}
  NoPut = NoPut
  da = da
  ga = ga
  Delete = {}
  At <- MCOneAt
  Size <- MCOneSize
  BlockSize = 2
  Get = {}
  MaxRetry = 1
  MaxLosses = 2
  MaxExpiries = 1
  MaxRestarts = 1
  Exclusive = FALSE
INVARIANTS DoneHasCause DoneIsWritten
PROPERTIES PutEnds
CHECK_DEADLOCK FALSE
