SPECIFICATION Spec
CONSTANTS
  na = na
  nb = nb
  px = px
  py = py
  gx = gx
  gy = gy
  dx = dx
  dy = dy
  Nothing = Nothing
  Node = {na, nb}
  Put = {px, py}
  Get = {gx, gy}
  Delete = {dx, dy}
  NameOf <- MCNameOf
  Via <- MCVia
  Owner <- MCOwner
  Sizes <- MCSizes
  Word = 8
  MaxClients = 2
  MaxStarts = 4
INVARIANTS TypeOK CommandsFit GetsItsName DeletedIsGone StuckHasCause KeptWhenAlone
CHECK_DEADLOCK FALSE
