CONSTANTS
  Players = {p1, p2, p3}
  Names = {f1, f2}
  None = None
  MaxPlayers = 2
  AllyLimit = 1
  Notices = FALSE
  Kills = FALSE
  MaxOpen = 2
  MaxRows = 2
SPECIFICATION Spec
SYMMETRY Symmetry
INVARIANT OneLeader
INVARIANT AlliesBothWays
INVARIANT FactionsAreRanked
PROPERTY OnlyHandedOver
