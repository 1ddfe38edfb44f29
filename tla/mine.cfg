CONSTANTS
  Player = {p1, p2}
  Walkers = {p1}
  Admin = {p2}
  Name = {prison, mine1}
  Mines <- OneMine
  Cell <- Land
  ChunkWidth = 2
  Open <- BothMines
  Site <- ItsPlace
  MaxTasks = 2
  Start = 4
  Width = 4
  Template <- Clipboard
  Shaft <- Middle
  MineOf <- OneSettler
  p1 = p1
  p2 = p2
  prison = prison
  mine1 = mine1
  mine2 = mine2
SPECIFICATION FairPSpec
INVARIANT PTypeOK
PROPERTY OnlyItsMine
PROPERTY EditsSurvive
PROPERTY NobodyBuried
PROPERTY ResetEnds
PROPERTY GenerationEnds
