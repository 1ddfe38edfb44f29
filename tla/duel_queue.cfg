CONSTANTS
  Players = {p1, p2, p3}
  Nobody = Nobody
  Kit = Kit
  NumTypes = 1
  NumArenas = 1
  KitTypes <- NoTypes
  FloorTypes <- NoTypes
  FriendlyTypes <- NoTypes
  ArenaTypes <- AllTypes
  CountdownTicks = 1
  DuelTime = 1
  MenuUsers <- Everyone
  Challengers <- Nobodys
  Rematchers <- Nobodys
  p1 = p1
  p2 = p2
  p3 = p3
SPECIFICATION Spec
SYMMETRY Symmetry
INVARIANT QueuedOnceAndOnline
PROPERTY RefinesLifecycle
