CONSTANTS
  Players <- TwoPlayers
  Items = {i1, i2}
  Prices <- JustOne
  Amounts <- JustOne
  BidTimes <- JustOne
  Ranked <- JustOne
  Cost = 0
  Tax = 1
  TakedownTime = 1
  CollectTime = 1
  Cooldown = 0
  BuyTimer = 0
  StartMoney = 1
  MoneyMax = 9
  MaxLots = 2
  MaxTime = 3
  i1 = i1
  i2 = i2
SPECIFICATION Spec
PROPERTY ItemReturned
