CONSTANTS
  Player = {p1}
  Signs <- Catalogue
  SellPrices <- SellFile
  Sites <- ThreeSites
  Offers <- TwoOffers
  Sliders = {1, 2, 64}
  Lists <- EverythingOrBedrock
  StackSize = 64
  Slots = 36
  StartMoney = 10000000
  MoneyMax = 2147483647
  MaxDeals = 1
SPECIFICATION Spec
INVARIANT TypeOK
INVARIANT NoProfit
