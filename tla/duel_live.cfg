CONSTANTS
  Players = {p1, p2}
  Nobody = Nobody
  Kit = Kit
  NumTypes = 1
  NumArenas = 2
  KitTypes <- One
  FloorTypes <- One
  FriendlyTypes <- NoTypes
  ArenaTypes <- AllTypes
  CountdownTicks = 1
  DuelTime = 1
  MenuUsers <- Everyone
  Challengers <- Nobodys
  Rematchers = {p1}
  p1 = p1
  p2 = p2
SPECIFICATION FairSpec
INVARIANT TypeOK
INVARIANT FloorRepaired
PROPERTY PairBegins
PROPERTY DuelEnds
PROPERTY FinishedArenaIsFreed
PROPERTY PairIsMatched
