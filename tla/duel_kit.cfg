CONSTANTS
  Players = {p1, p2}
  Nobody = Nobody
  Kit = Kit
  NumTypes = 2
  NumArenas = 2
  KitTypes <- One
  FloorTypes <- NoTypes
  FriendlyTypes <- NoTypes
  ArenaTypes <- OneEach
  CountdownTicks = 1
  DuelTime = 1
  MenuUsers <- Nobodys
  Challengers <- Everyone
  Rematchers <- Nobodys
  p1 = p1
  p2 = p2
SPECIFICATION SpecWithRestart
SYMMETRY Symmetry
INVARIANT OngoingDuelHasTwoSides
INVARIANT SavedOnlyInKitDuel
INVARIANT NothingDuplicated
INVARIANT FrozenOnlyBeforeStart
