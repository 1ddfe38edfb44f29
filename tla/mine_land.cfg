CONSTANTS
  Player = {p1, p2}
  Walkers = {}
  Admin = {}
  Name = {prison, mine1, mine2}
  Mines <- OneMine
  Cell <- TwoLands
  ChunkWidth = 2
  Open <- BothMines
  Site <- ItsPlace
  MaxTasks = 0
  Start = 4
  Width = 4
  Template <- Clipboard
  Shaft <- Middle
  MineOf <- TwoSettlers
  p1 = p1
  p2 = p2
  prison = prison
  mine1 = mine1
  mine2 = mine2
SPECIFICATION PSpec
INVARIANT OneOwnerOfLand
