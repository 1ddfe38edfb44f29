CONSTANTS
  Players <- TwoPlayers
  Items = {i1, i2}
  Prices <- JustOne
  Amounts <- JustOne
  BidTimes <- JustOne
  Ranked <- JustOne
  Cost = 2
  Tax = 1
  TakedownTime = 2
  CollectTime = 1
  Cooldown = 1
  BuyTimer = 1
  StartMoney = 2
  MoneyMax = 9
  MaxLots = 2
  MaxTime = 4
  i1 = i1
  i2 = i2
SPECIFICATION FairSpecOfItems
INVARIANT TypeOK
INVARIANT OneOwner
INVARIANT NoMoneyMade
PROPERTY RefinesCustody
PROPERTY EveryAuctionEnds
PROPERTY ExpiredIsCleared
