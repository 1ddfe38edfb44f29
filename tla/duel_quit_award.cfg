CONSTANTS
  Players = {p1, p2}
  Nobody = Nobody
  Kit = Kit
  NumTypes = 1
  NumArenas = 1
  KitTypes <- One
  FloorTypes <- NoTypes
  FriendlyTypes <- NoTypes
  ArenaTypes <- AllTypes
  CountdownTicks = 1
  DuelTime = 1
  MenuUsers <- Everyone
  Challengers <- Everyone
  Rematchers <- Nobodys
  p1 = p1
  p2 = p2
SPECIFICATION Spec
SYMMETRY Symmetry
PROPERTY QuitAwardsOpponent
