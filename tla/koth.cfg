CONSTANTS
  Player = {p1, p2, p3}
  Faction = {red, blue}
  Leader <- TwoLeaders
  Home <- TwoHomes
  Movers = {p3}
  Ops = {p1}
  Editors = {p1}
  Allied <- Nobodys
  SpawnCount = 2
  PlayersRequired = 2
  RivalsRequired = 2
  CountdownTime = 1
  GameDuration = 2
  RespawnTime = 0
  Goal = 1
  KingAt = 2
  MaxProgress = 2
  p1 = p1
  p2 = p2
  p3 = p3
  red = red
  blue = blue
SPECIFICATION FairSpec
INVARIANT TypeOK
INVARIANT SpawnsDistinct
INVARIANT FrozenWhileWaiting
INVARIANT ProgressOnlyInGame
PROPERTY WinEndsGame
PROPERTY GameEnds
PROPERTY GameStarts
CHECK_DEADLOCK FALSE
