CONSTANTS
  Player = {p1, p2, p3}
  Asking = {p1, p3}
  Lower = {p1, p2}
  Item = {i1, i2}
  Room <- SomeRoom
  Holding <- OneEach
  p1 = p1
  p2 = p2
  p3 = p3
  i1 = i1
  i2 = i2
SPECIFICATION Spec
INVARIANT TypeOK
INVARIANT NothingDuplicated
INVARIANT TraderOffersToHisClient
