# CrowdMC: TLA+ models, checks and proofs

CrowdMC is a Minecraft: Bedrock server built on PocketMine-MP. Nearly all of its own
logic is in PHP plugins. The server is single-threaded: event handlers, commands, form
callbacks and scheduled tasks each run to their end. What interleaves is therefore
*handlers*. The difficulty is in state kept between them: forms answered minutes after
they were built, `Player` objects kept after the connection closed, array entries keyed by
a name or an ID that comes back, tasks that walk a table while they change it, and a
shutdown between two of those.

This directory holds the models of that logic, the TLC instances that check them and the
TLAPS proofs about them. `PROJECT.json` lists every component, run, mutant, finding, hazard
and theorem, and maps each definition to the lines it translates.

## Inventory

All paths are under `src/`; `Core/...` stands for `Core/src/kenygamer/Core/...`.

| Component | State | Operations | What is hard | Correct when |
|---|---|---|---|---|
| **Duels** `Core/duel`, `DuelCommand`, `RestorableInventoryManager`, `Main` 1407, 2691-2795 | queues per type, last challenge per name, open forms, arenas (status, two slots, spectators, countdown, start time), saved inventories | `/duel` and its forms, challenges, DuelTask (match, tick), hits, falls, quits, shutdown | forms answered late, two ways into an arena, objects closed while in a slot, several endings between two ticks | one win per duel, the pair stays together, items come back once, arenas become free |
| **Auction house** `Core/auction`, `AuctionHouseCommand`, `Main` 1010, 1417, 2097-2114 | listed and expired auctions by ID, cooldowns, pending purchases, open bid forms | sell, retire, buy (two steps), bid, AuctionTask (tax, takedown, end of bidding, collection), restart | reused IDs, lookup by seller and second, forms that keep an object, a task that edits what it walks | no item lost or doubled, highest bid wins, one buys what one confirmed |
| **Money** `Main` 2856-2995 | balance per name | add, reduce, set; tokens | limits, fractions, failures nobody looks at | no money made |
| **Trades** `TradeCommand`, `TradeTask` | trader to client, two offers, open chests | request, offer, accept, finish | offers are lists of items their owners keep; chests that open late, never, or are left open; capitals in names; a task nobody schedules | no item doubled, an offer is for the client of its trade |
| **Sign shops and selling** `MiscListener2` 1763, 2037-2104, 2260-2304, LegacyCore's `Sell`, `plugin_data/Core/shops.js`, `sell.yml` | signs with bundle and price, sell prices, two purchase forms | hang, double and break a sign, buy, sell by hand, all, or automatically | prices per bundle against prices per item, forms that keep a sign as it was, a check of the prices that visits none | nobody gets richer by buying and selling |
| **Personal mines** `PersonalMineCommand`, `Main2` 285-315, 535-585, `PasteTask` | the book of regions, protected areas, a lock per player | `/pmine`, a paste on a worker, its callback, saving at a stop | the paste takes chunks as they were, the book is saved at a clean stop only | generations end, one owner of land |
| **Land** `Core/land`, `LandCommand` | owner, helpers, price, last payment | buy, sell, rent, helpers, expiry | stale helpers of an earlier owner, IDs | one owner, rights end with ownership |
| **King of the hill** `Core/koth`, `KothCommand` | status, players, spawns, progress, respawn times, leaderboard, lists of added members | `/koth` and its forms, KothTask (countdown, capture, win), deadly hits, quits, factions changing under a game | late joins, five ways out, a win whose results throw | own spawns, nobody left frozen, no old progress, a win ends the game, a game ends |
| **Games** coin flip, give-away, slots, vote party | stakes, tickets, status | request, accept, draw | an answer from a web service seconds later | stakes conserved |
| **Quests**, **surveys**, **permissions**, **mail**, **accounts**, **clipboard** | small tables | progress, claim, vote, grant, expire, copy and paste over ticks | claims twice, expiry at login | rewards once, votes once |
| **Bed wars** `Core/bedwars` | arenas | none reachable | | |
| **LegacyCore** | teleport requests, restart countdown, areas, social commands | requests that expire, countdown postponed by events | request answered late | |
| **FactionsPro** `FactionCommands`, `FactionMain` | tables of members with ranks, invitations, requests, allies, plots, strength; wars and banks in memory | found, invite, accept, hand over, rank, kick, leave, delete, rename, claim, ally, war | invitations and requests answered late under other circumstances, commands of many statements with no transaction, kills between them | one leader, no takeovers, mutual alliances, a row of strength for each |
| **MineReset** | mines, running resets, sessions of `/mine create` | create, set, reset, reset-all, destroy | a reset works on copies of whole chunks while players dig and mines are destroyed and made again; a task knows its mine by name | only the mine changes, edits and players survive, a reset ends |
| PureEntitiesX, BlockPets, CustomEnchants, Specter | | | third-party or single-event effects | |
| environment_files, tests, GitHubConnection | | | deployment | |

How they interact: every component calls `Main` for money and players; duels tell quests
and the scoreboard about wins, and AreaTask, KOTH and LegacyCore ask duels whether a player
may be moved. Auctions pay and refund through `Main::addMoney` and hand items to online
players' inventories. Factions are asked by KOTH and land. `/pmine` makes mines of MineReset's
and areas of LegacyCore's; the shops of Core and `Sell` of LegacyCore share items and money.

## Plan

1. `Duel`, `DuelLifecycle` (done): the component with the most actors; every safety invariant
   and the refinement proved in `DuelProofs`.
2. `Auction`, `AuctionCustody`, `AuctionProofs` (done): tables, money, and time; whose an item
   is, and the refinement of it.
3. `Koth`, `KothProofs` (done).
4. `Shop` over `ShopData`, `ShopProofs` (done): two forms against the catalogue and the sell
   prices.
5. `MineReset`, and `PersonalMines` composed with it, `MineProofs` (done): worker threads and
   crashes.
6. `Trade`, `TradeProofs` (done).
7. `Factions`, `FactionsProofs` (done): tables written statement by statement.
8. Left: `Land`; the coin flip and the give-away (an asynchronous answer); FactionsPro's
   wars, banks and vaults; LegacyCore's teleport requests and `RestartTask`; surveys and
   permissions; a composition of duels, trades and auctions over the same inventories.

## Modules

### Duel

One module for the whole duel system, because the parts share the arenas.

| In the model | In the code |
|---|---|
| `queue`, `request` | `Main::$duelQueue`, `Main::$duelRequests` |
| `status`, `playing`, `spectating`, `duelType`, `countdown`, `elapsed` | the properties of `DuelArena`; `elapsed` is the time since `$startTime` |
| `form`, `result` | the menu of `DuelCommand` and the form of `DuelNotifyResultTask` a player has open, with what their closures captured |
| `holding`, `saved` | inventories, `RestorableInventoryManager::$inventories` |
| `frozen`, `holed`, `wins` | `setImmobile`, blocks missing from a floor, wins registered for the current duel |
| `step` | where `DuelTask::onRun` is: one step per queue entry pass and per arena |
| `MatchQueue`, `TickThrows` … `TickActive` | `DuelTask::onRun`, `DuelArena::tickArena` and `checkAllPlayers` |
| `OpenMenu` … `Spectate`, `DuelCommand`, `Rematch` | `DuelCommand::onExecute` and its callbacks |
| `Kill`, `Fall`, `BreakFloor`, `Quit` | `DuelListener` |
| `Restart` | `Main::onDisable` and an empty start |

A `Player` object is a name and whether its connection is open, since the code keeps closed
objects and compares names. `DuelTask::onRun` is a chain of steps; other handlers are enabled
only between two runs (`Idle`). When `checkAllPlayers` dereferences a closed object the rest
of that run is skipped, as the exception does. An inventory is a set of belongings: one's
own, somebody else's, or the kit.

`DuelLifecycle` is the abstract promise of an arena (free, reserved, countdown, active, over)
with its pair and win count; `Duel` implements it under the mapping at the end of `Duel`.

### Auction

| In the model | In the code |
|---|---|
| `lot` | the `Auction` objects, in creation order; a form or a loop keeps an index into it |
| `auctions`, `expired` | `Main::$auctions`, `Main::$expiredAuctions`: ID to object |
| `money`, `carried` | balances, the items in inventories |
| `cooldown`, `buy`, `bidForm` | `AuctionHouseCommand::$cooldown`, `$buy`, the object in the bid form's closure |
| `confused` | history: the items of two auctions of which `getAuctionID` took one for the other |
| `phase`, `visiting`, `collecting` | where `AuctionTask::onRun` is, over which snapshot of which table |
| `TakeDown`, `TakeForTax`, `EndBidding`, `StayListed` | the first loop's four outcomes for one auction |
| `VisitExpired` | the second loop |
| `Sell` … `CloseBidForm` | `/ah` and its forms |
| `Restart` | `onDisable` and `onEnable`: the tables are saved to one file and loaded from another |

Time is in abstract units; `Tax` is what one run takes, rounded up as `bcsub` without decimals
does. `Second` is enabled during the task too, since `time()` is read again for each auction.
Items are distinct stacks, so that an item has an identity to lose.

`getAuctionID` finds an auction by its seller and publish time, so that two auctions of one
seller and one second are taken for one another: two sold by one player without a cooldown, or
one that was won (`EndBidding` has made the winner its seller) and another the winner has on the
list. `FoundID` takes the first of them, as the code does; the wrong auction then leaves the list
and the right one is stored and stays listed. `confused` keeps their items in mind, and nothing is
said of these any longer. Everything is said of the others.

`AuctionCustody` is what the auction house promises about one item, without money, times, IDs
and tables: it is in somebody's hands, on the list for a seller and with those who have bid, or
in the store for its owner. It leaves the list for its seller, for a buyer while nobody has bid,
or for a bidder, and the store for its owner alone; a taken ID, old age or a restart may lose
it, and the house may confuse two listed items, of which it then knows nothing (`Confuse`). Which bidder wins it leaves open: the code takes the one whose name comes last. `Auction`
implements it under the mapping at its end (`CustodyOf`), which gathers the places where an
item is.

### Koth

| In the model | In the code |
|---|---|
| `status`, `gameTick`, `enabled`, `players`, `spawn`, `respawning`, `progress` | the properties of `KothTask`; `gameTick` is in seconds |
| `king`, `frozen` | the King tag in a name tag, `setImmobile` |
| `board`, `scored` | `KothListener::$leaderboard`: factions with an entry, and with a complete one |
| `faction`, `added` | FactionsPro's table `master`, `Main::$koth` |
| `form` | the form of `/koth` a player has open, with what its closure captured |
| `bags`, `stuck` | lootbags handed out (modulo 2); an endless loop |
| `TickInactive` … `TickWin` | `KothTask::onRun`, one second |
| `KothCommand`, `AnswerJoin` … `CloseForm` | `KothCommand::onExecute` and its callbacks |
| `KillStray` … `KillEliminates`, `Quit` | `KothListener` |
| `LeaveFaction`, `Disband`, `AcceptInvitation` | the FactionsPro commands that change membership |

The players of a game are a set. The code walks them in the order they joined, and where that
order matters (who is counted before a winner is found, whom a broken elimination reaches)
every order is possible; so is every position of a player who can move, and every
amount of power of two factions. A notice of PHP 7.4 stops the handler, as PocketMine-MP
makes exceptions of them: what was assigned before it stays.

### Shop and ShopData

The repository's `.js` files are JSON data. The one a component works on, `shops.js`, is
`ShopData`: its 178 signs hang in columns, the VIP sign below and its twin at twice the price
above, so a row of `ShopData` stands for two entries, and `OddBooks` and `LoneVip` are the
entries that fit no column. `SellFile` is `sell.yml`, in which the last of two rows counts.

| In the model | In the code |
|---|---|
| `shop`, `Market` | `Main2::$shop`, `Sell::$market` |
| `money`, `held`, `vip` | balances, inventories as bags, the ranks `isVip` accepts |
| `form` | the slider or the confirmation a player has open, with what its closure captured |
| `gained`, and `cheap` of an offer | history: what signs hung below the sell price gave away to each player |
| `HangTwin`, `HangShop`, `BreakSign` | `onSignChange`, `onBlockBreak` |
| `Touch`, `AnswerSlider`, `Confirm`, `CloseForm` | `onShopInteract` and its two callbacks |
| `SellHand`, `SellAll` | `Sell::execute`, `Sell::sellAll` (also every second, from autosell) |
| `Stop`, `Start` | the table is saved and read again |

The loop in `Sell`'s constructor that should lower a sell price to that of a shop iterates over
an `SQLiteConfig` object and so visits nothing: `Market` is `sell.yml` as it is. The check of
`onSignChange` looks for a key that does not exist, so operators write what they like: `HangShop`
takes any offer. What a cheap sign gives away is not the fault of the forms and bundles, so
`NoProfit` allows for it (`Gain`), and for nothing else.

### MineReset and PersonalMines

| In the model | In the code |
|---|---|
| `mines` | `MineManager::$mines`, and `mines.yml`, written at every change |
| `tasks` | the bag of `ResetTask`s, each with its mine's name, corners and copies of chunks |
| `full` | which cells of the world have a block |
| `at` | the coordinates of players, in halves of a block: `CellAt` is the block one stands in |
| `IsPointInside` | `Mine::isPointInside`, which compares the coordinate as it is with whole corners |
| `session`, `asked` | `CreationListener::$sessions`, `DestroyCommand::$senders` |
| `stale` | history: the mine of that name is not the one a task under way was made for |
| `Break`, `Place` | `RegionBlockerListener` |
| `Reset`, `ResetAll`, `Complete`, `Crash` | `Mine::reset`, `ResetTask`, `clearMine`, `notifyComplete` |
| `Create` … `Destroy` | the subcommands of `/mine` and the taps of a session |
| `book`, `filed` | `Main2::$pmines` in memory and on disk |
| `areas`, `pending` | areas of LegacyCore, `$pmineGenerationLock` with the state of the paste |
| `PersonalMine`, `SubmitPaste`, `FinishPaste` | the command, `PasteTask`, `personalMineGenerationCallback` |
| `Stop`, `CrashServer` | a stop that saves the book, and one that does not |

The world is a line of cells cut into chunks, since only which cells share a chunk matters to
what is copied and put back. In the last block of a mine only a player exactly on its number
counts as inside, so `Complete` buries one who stands past it. `PersonalMines` extends `MineReset` and shares its mines and
cells: a personal mine is reset, dug in and destroyed like any other.

### Trade

| In the model | In the code |
|---|---|
| `trades`, `older` | `$trades`, and the order of its entries, in which `getTrade` looks |
| `traderItems`, `clientItems` | the two offers, by trader |
| `sent` | the chest a player has been sent and that has not opened yet |
| `menu` | the chest a player has open, with what its close listener captured |
| `inv`, `ground` | inventories, dropped items |
| `Lower` | players whose name `finishTrade`, which changes it to lower case, finds |
| `Request`, `Offer`, `AcceptNothing`, `Accept` | `TradeCommand::onExecute` |
| `Opens`, `Fails` | the end of `InvMenu::send`, after two answers of the client, or its failure |
| `Close`, `Quit` | the close listeners; who quits closes his chest, and one not yet open is dropped |

A trade is written before its chest is shown. Until it opens its player may send any command or
quit; a chest that is dropped never calls its listener, and the trade stays without one. Then
the trader's `accept` removes the trade alone (`AcceptNothing`), and the client's offer may stay:
the next trade of that trader begins with it.

Items are distinct and do not stack, so that an item has an identity to double. The swap is one
handler: `Swappable` is what its two loops over copies of the inventories ask together.

### Factions

| In the model | In the code |
|---|---|
| `db.master`, `confirm`, `alliance` | the tables of these names: who is in which faction with which rank, who is invited by which, which leader is asked by whom |
| `db.allies` | the table `allies`, which has no usable key, so equal rows are counted |
| `db.plots`, `db.ranked` | which factions have a row in `plots`, in `strength` |
| `SetRow`, `DropPlot`, `RenameFirst`, ... | one SQL statement each, as the tables before it to the tables after it |
| an action | a branch of `FactionCommands::onCommand`: `Executes` ends it after its last statement, or, when the server may be killed, after any |

`Kills` stands for the watchdog of `production/pmmp.sh`, which ends a server that hangs with
`kill -9`; what SQLite has committed stays. `Notices` says what PHP does when a row that is not
there is read: 7.4 and later report it and the command ends, earlier ones read zero. Players
may be online or not at any time, so the tests for it choose nothing and are left out; how much
power and money there is, where plots lie and which names are allowed is left open. Of the age
of an invitation or request only `fresh` remains, whether the 60 seconds are over (`TimeOut`).
`Koth` has its own small picture of the factions (`faction`, with `LeaveFaction`, `Disband` and
`AcceptInvitation`), because it only asks who is in which.

## Runs

Passing:

| Run | Shows | Instance |
|---|---|---|
| `duel_queue` | names wait once and only while online; `Duel` implements `DuelLifecycle`, one win per duel included | 3 players with the menu, one arena, one type for the loser's items |
| `duel_kit` | two sides in every ongoing duel; inventories saved only in kit duels, never doubled; nobody is frozen but in an arena whose duel has not begun | 2 challengers, an arena for kit duels and one for the loser's items, shutdowns |
| `duel_live` | types; floors are repaired; waiting players are matched, a ready pair begins, duels end, arenas are freed | 2 players with the menu of whom one rematches, 2 spleef arenas, fairness |
| `auction` | types; no item in two places; no money made; `Auction` implements `AuctionCustody`, all but for auctions taken for one another; auctions leave the list, expired items the store | 2 players, 2 items, 2 auctions, 5 instants, restarts, fairness |
| `koth` | types; own spawns; exactly the waiting players frozen; no old progress; a lootbag ends the game; a running game ends; enough waiting players get one | 2 factions, 3 players of whom one changes sides and one adds members, 2 spawns, fairness |
| `shop` | types; nobody is ever worth more than at first and what cheap signs gave him | the whole catalogue and price list, one player who buys once and sells at will, 3 sites where operators hang, double and break signs, fair ones and cheap ones, stops |
| `mine` | types; a reset changes its mine only; edits survive it, and players who are not in the last block of the mine; resets and generations end | a prison mine and a personal one, 8 cells in 4 chunks, 2 resets at a time, one walker, one admin, stops and crashes, fairness |
| `trade` | types and room; no item doubled; a trader's offer and chest are for the client he trades with | 3 players of whom two ask for trades and one has a capital in the name, 2 items, inventories of 1 and 2 free slots |
| `factions` | one leader; no takeover; mutual alliances; a row of strength for each | 3 players, 2 names, 2 answers waiting, no kills |

Each of the following finds a disagreement between the code and its own comments and settings, as the
findings of `PROJECT.json` quote:

| Run | What happens |
|---|---|
| `duel_quit_award` | a player who still waits in a queue quits a duel and nobody wins it |
| `auction_lost` | an ID is given twice and the second item vanishes when it expires |
| `mine_land` | after a crash two personal mines lie in the same place |

More of what the code does and hardly means is in the models without a run of its own: a
shutdown leaves the floor of a spleef arena broken (`Restart` keeps `holed`), the
alphabetically last bidder wins an auction (`Before`), a restart loses every auction because
the tables are saved to one file and loaded from another (`Restart` of `Auction`), a late form
bids on an auction that is gone (`PostBid`), a confirmation asked for one auction buys another
(`Buy`), the King keeps the tag after the game (`EndGame`), a player who disconnects between the
last hit of a kit duel and the next tick loses the inventory put aside (`Returned`), a player
more than there are spawns hangs the server (`AnswerJoinFull`), a mine without data is resetting
until it is replaced or the server stops (`Crash`), two auctions of one seller and second are taken for one another, so that one vanishes and the
other is both stored and listed (`FoundID`), an operator may hang a sign below the sell price, and nothing,
then or at the next start, lowers it (`HangShop`, `Market`), a player in the last block of a mine is buried
by its reset (`IsPointInside`), a confirmation asked for one mine destroys
another (`Destroy`), the trade of a player with a capital in the name never ends
(`FinishTrade`), nor does one whose chest failed to open (`Fails`), a client's offer outlives its
trade (`AcceptNothing`), an item that finds no room when a chest is closed is lost (`GiveBack`), a leader who
accepts an invitation elsewhere leaves a faction that nobody leads or can delete (`Accept`), two
invitations for a faction's last place are both accepted (`Accept`), and requests answered late give a
faction more allies than it may have, or itself as one (`AllyOk`).

### Bounds

* Duels: countdown 10 becomes 1 or 2 and the duel time 241 becomes 1 or 2. The code compares
  them only with 0, with their start value and with each other, so one tick before, at and
  after each limit is there. Two players and two arenas are what two overlapping duels of
  one player need, three players what a queue behind a pair needs. Challenges and the menu are
  two entries to the same queues and arenas; an instance with both, two arenas and restarts
  is too large, so `duel_kit` takes challenges, `duel_queue` and `duel_live` the menu, the
  latter with rematches. `MenuUsers`,
  `Challengers` and `Rematchers` say who uses which entry, so that an instance pays only
  for the interleavings it is about. Players are symmetric in the safety runs.
* Auctions: `MaxLots` two objects are enough for an ID to come back and for two auctions to
  be confused; `MaxTime` lets an auction be posted, taken down and thrown away. A sale whose
  life would not fit the time bound is not started. `MoneyMax` (9) is above what the players
  own together in these instances, so refunds are paid out in full; that `addMoney` loses what
  exceeds it can only lower the total of `NoMoneyMade`.
  Takedown comes two instants after the sale and the end of bidding one, so that an auction can be
  won before it is taken down, and sold later than another of the same seller. `Cooldown` is
  not 0, as on the production server, so that what is confused is an auction that was won and one
  of the winner's own. Items are alike, so of two players with an item each one case is
  enough (`InitOfItems`).
* King of the hill: 16 players and 4 rival pairs become 2 and 2, the countdown of 60 s becomes
  1, the duration of 600 s becomes 2, the goal of 100 becomes 1. `MaxProgress` caps
  progress one above the goal. `Movers`, `Ops` and `Editors` say who may change faction, switch
  the arena, and use the list of members. There are fewer spawns than players, so the arena can
  be full and the server then hangs (`stuck`): the run does not check for deadlock. Larger
  arenas and more factions are covered by `KothProofs`, which proves all its safety properties
  for every size.
* Shops: `MaxDeals` is 1, since a deal leaves nothing behind that another could use but
  items and money, which `NoProfit` counts together at every step. The slider's answers are 1,
  2 and 64. `Offers` is what operators write: a bundle at exactly the price it sells for, and
  a single piece at less.
* Mines: two resets at a time are what a reset of one mine and a reset of another, or an old
  and a new one of the same name, need. A player's coordinate is a number of half blocks: `IsPointInside` compares it with whole numbers, so a
  coordinate on a block's number and one past it are all there is to tell. A chunk has two cells instead of 16, a region four: the
  personal mine lies in the middle of its region, with a cell of the same chunk beside it, and
  the prison mine at the edge of a chunk. No two mines share a chunk, as on the production
  server; if they did each reset would put back the other's blocks. `Apart` says so, and TLC
  evaluates it (`MinesLieApart`). Regions may share one: those of 111 by 117 blocks that follow each
  other from 1000:1000 meet in a corner chunk, and two pastes at a time can put back each other's
  blocks there, far from the mines. `mine_land` has two settlers and no resets.
* Trades: two items and three players make two trades overlap in a client and an item
  listed in one trade be offered in the other; inventories with room for one and two make the
  refusals happen. Chests open at any time after they were sent, or never. `Asking` leaves out requests of one player.
* Factions: `MaxPlayers` is 2 and `AllyLimit` 1, so that with three players a faction can be full,
  or have its allies, before the last answer comes. Two names are enough for a name to come back
  after its faction, with rows of the old one or without, and for a rename to run into
  them. `MaxOpen` bounds what waits for an answer, and `MaxRows` equal rows of `allies`. The run
  has `Kills` FALSE: alliances and strength are only kept by whole commands. What kills between
  statements do to leaders, `FactionsProofs` shows for every size.

### Fairness

`FairSpec` of `Duel` has weak fairness of `DuelTask` (the scheduler runs it every second and
it survives an exception) and of the seconds of each arena. `FairSpec` of `Auction` has weak
fairness of the task and of time, and that of `Koth` of KothTask, which `Main` schedules
every 20 ticks. `FairPSpec` of `PersonalMines` has it of what the main thread collects for each
mine, and of each generation: workers finish, and tasks are collected every tick. `GameEnds` and `GameStarts` leave out a server that hangs, and `GameEnds` a
winner whose results cannot be shown: the exception in the task comes back every second. No player is ever required to do anything, so the liveness
properties rest on timers alone. Where a property says `Jammed`, an object closed in an arena
makes the task throw and the property promises nothing for that case.

## Proofs

`DuelProofs` proves, for every set of players, number of arenas and types, all subsets of kit,
floor and friendly types that the assumptions allow and every countdown and duel time:

* `TypeCorrect`: `Spec => []TypeOK`;
* `TwoSides`: an ongoing duel has two different players in its slots;
* `OneWin`: a duel is won at most once, which `RefinesLifecycle` has TLC check too;
* `Inductive`: the invariant behind them, shutdowns included.

`TypeOK` is not inductive. A countdown stays in its range only because an arena that has not
started holds a fresh one, the type of a duel is a type only because a slot is taken, and the
opponent of a player exists only because an ongoing duel has both slots set. `ArenaOK` says
this for one arena: which slots, type, countdown and start time each status goes with, and
that a running duel has no win yet. `IInv` is `TypeOK` and `ArenaOK` of every arena.
Each handler has a lemma; the ones that leave arenas alone share `ArenasUnchanged`, and
those that end a duel share `DuelDecided`. The assumptions used are the named ones in `Duel`.

Its other three parts build on `IInv`, each with one lemma per handler:

* `Refinement`: `Spec => RefinesLifecycle`. An arena's phase and pair are read off
  `gameStatus`, the slots and `startTime`; a step moves one arena as one action of
  `DuelLifecycle` says (`Begins`, `Fights`, `Reserves`, `Finishes`, `Forfeits`, `Clears`), or
  none (`Quiet`). `ArenaOK` is what makes these steps legal: a tick finds a duel over only with
  its slots set, and a hit decides only a duel without a win. Shutdowns are left out, since the
  arenas' memory then ends at any point of its life.
* `SavedInKitDuels`, `NoDuplication` and `Unfreezes`: `SavedOnlyInKitDuel`, `NothingDuplicated`
  and `FrozenOnlyBeforeStart`, shutdowns included. With `IInv` each is inductive as it stands: `SwipeMoves` and
  `ReturnedMoves` say where belongings go. `KitAssumption`, that a kit's items are nobody's own,
  is used by `NothingDuplicated` alone. `FloorRepaired` needs the stronger `FloorInv`, that
  blocks are missing only where a floor duel is on, as the arena asks for its duel's type
  before it repairs the floor. It is proved of `Spec` (`FloorsRepaired`): a shutdown leaves
  floors broken.
* `QueuedOnce`: `QueuedOnceAndOnline`, shutdowns included. The invariant adds
  `ClientsOnline`: open forms, results that end in a form, and live slots belong to connected
  players, since the forms join a queue without looking. `quitQueue` removes one entry, so that
  nobody who left waits relies on nobody waiting twice. A consequence: the branch of
  `DuelTask` that drops offline names from the queue never finds one.

`KothProofs` proves, for every set of players and factions, number of spawns and duration:

* `KothTypeCorrect`, `OwnSpawn`, `NobodyLeftFrozen`, `NoOldProgress`: the four invariants of
  the run `koth`, from one inductive invariant, `KothInductive`;
* `LootbagIsLast`: the action property `WinEndsGame`.

Its `IInv` is the types and the three other invariants together (`Waiting`). None is kept
alone by every step: that leaving players give their spawns back needs to know that nobody
else has them, that a new game starts without progress needs that the last one left
none behind, and thawing the players at the start frees everybody only because nobody else
is frozen. `Removal` says what taking any set of players out does to all three, and every way
out (form, quit, hit, elimination, end) cites it. The proofs use the named assumptions of
`Koth`, except that players are finitely many, which only TLC needs.

`AuctionProofs` proves, for every set of players, items and prices, any number of auctions and
any length of time, restarts included:

* `TypeCorrect`: `TypeOK`;
* `ItemHasOneOwner`: `OneOwner`, of every item whose auction was not taken for another;
* `MoneyIsNotMade`: `NoMoneyMade`, as long as no auction was taken for another;
* `ImplementsCustody`: `RefinesCustody`.

None of them assumes anything of when auctions are published. The invariant `OnePlace` says without
counting that the hands, the list and the store exclude each other, for every item that is not
`confused`. It is kept because `expireAuction` either takes the auction it is called with off the
list (`Taken`), or finds another one and puts the items of both among the confused (`Mistaken`):
`ExpireTakes`. The first loop may then meet an auction that has left the list in place of another
(`VisitsListed`), whose item is confused by then. The second loop gives out what it finds under an
ID, which is safe since the ID still has a lot (`CollectsExpired`). A lemma per way an item goes
(`TakenMoves`, `MistakenMoves`, `SoldTo`, `ReturnedTo`) does the rest. What money a player has does not matter
to it, so the types used (`TablesOK`) leave money out.

Money is a sum over all purses plus a sum over the bids of every listed auction. `TotalStep`
reduces every handler to the one auction it touches: what its bids lose pays for what the
purses gain. `EndBidding` refunds every bid, the winner's too, so it is `Expire` that must take
these bids off the list; `ExpireTakes` says that it does, unless it takes another auction, whose bids are
lost while these are refunded again at the next run: nothing is said of money from then on. A bid is taken from a purse
and added to the bids of a lot that is listed under one ID at most, which is `OnePlace` again.
Money may be lost, as `addMoney` adds nothing at its limit and nobody is paid for what is sold
by bidding.

For the refinement `OnePlace` makes the custody of an item a set of one place at most, so that a
step of `AuctionCustody` is known by the place of the one item it moves, before and after
(`InHands`, `OnList`, `InStore`), and by the others staying (`Unmoved`). Two facts about what
happened earlier are needed besides (`OfferInv`): an auction with bids is a bid auction, which
`Buy` refuses; and a form for a listed auction belongs to somebody who is not its seller, though
`EndBidding` may make its holder the seller. That holds because this auction leaves the list in
the same step, or its item is confused: the first loop visits what is still listed
(`VisitsListed`), and `expireAuction` finds it or takes another for it (`ExpireTakes`). A late bid is then
on an auction that is nowhere, and changes nobody's claim. `LostTrack` and `MistakenCustody` show that
confusing two listed items is the step `Confuse`.

`TradeProofs` proves, for every set of players and items, all rooms and first holdings:

* `TypeCorrect`, `NoDuplicates`, `OffersToTheClient`: the three invariants of the run `trade`.

Items and offers are independent: where items are (`inv`, chests, ground) changes under
conditions that `Swappable` states about the lists, so the invariant is the types and
`NothingDuplicated` together for the one, and `TraderOffersToHisClient` with the types for the other:
a trader has one chest at most, sent or open, and while it is there he can begin no other trade
but by giving it up.
Room is about cardinalities of finite sets: a lemma per way in (from a chest, from the ground,
back from a chest, by a swap).

`FactionsProofs` proves, for every set of players and names and all limits:

* `TypeCorrect`, `SingleLeader`, `NoTakeover`: wherever the server is killed;
* `MutualAlliances`: if no command is cut off (a kill between the two rows of an alliance
  leaves one of them);
* `StrengthOfAll`: if besides a missing row reads as zero, as it did before PHP 7.4.

A lemma per statement says what it leaves alone, and one per command (`CreateEffect` to
`UnallyEffect`) what the tables are when it has ended anywhere. The invariants use only these.
`LeadersStep` is the heart of the first two properties: the leaders of a name are after a
step among those before, or the name was nobody's, or a leader who is now a plain member has
been replaced. `OneLeader` is inductive with the types, and so is `AlliesBothWays`; `Ranked` adds to
`FactionsAreRanked` that factions with a plot have a row of strength, even when they have no members left,
because a rename that runs into a plot leaves the new name with the row of the old holder.

`ShopProofs` proves, for every catalogue of signs, every price list and number of players:

* `TypeCorrect`, `NobodyProfits`: the two invariants of the run `shop`.

`NoProfit` alone is not inductive. A purchase that was offered at a slider is confirmed later,
when the sign may be doubled, replaced or gone, so the invariant `Inv` says of each open form,
as of each sign, that what is bought can be sold for its price at most (`Fair`), or that it is from a
sign marked as cheap (`Honest`): the slider's form is a sign's, and the confirmation multiplies amount
and price alike. `PriceAssumption` says it of the signs at first alone; of what operators hang nothing
is assumed (`WrittenHonest`). TLC evaluates the assumption on the 178 signs of
the production server. The worth of a bag is a sum over its kinds: adding a purchase (`ValueAdded`),
taking a stack, or all that can be sold, out of it changes it by what these are worth.

`MineProofs` proves, for a world of any size, chunks of any width, any mines, administrators
and settlers, and any number of resets at a time:

* `TypeCorrect`: `PTypeOK`, crashes included;
* `ResetsOnlyTheirMine`, `ResetsBuryNobody`: `OnlyItsMine` and `NobodyBuried`, crashes included
  (the latter leaves out who stands past the number of the mine's last block);
* `LandHasOneOwner`: `OneOwnerOfLand`, if the server always saves its book (`OrderlySpec`): the
  disagreement `mine_land` shows needs the crash, and nothing less;
* `EditsSurviveInOrder`: `EditsSurvive` of `OrderlySpec`, for any number of settlers;
* `EditsSurviveCrashes`: `EditsSurvive`, crashes included, for one settler. With two a crash gives
  one of them the other's land, and a paste then fills the other's mine.

All but `TypeCorrect` and `LandHasOneOwner` are stated under `Apart`, which is not assumed of the
constants but a hypothesis: in the chunks copied for a mine nothing else is dug, filled or
pasted. Without it a reset puts back what was dug next to its mine. `MCPersonalMines` has TLC
evaluate it (`MinesLieApart`). The invariant `Inv` has three parts. The types: a generation under
way has its entry in the book, so the callback never reads a missing one. `World`: around a
mine (`Around`) the world is as its task's copies have it, since nobody can edit there and a paste is over before
there is a mine. `FreshTasks` relates tasks and mines: a task whose mine was not destroyed or
replaced since (`stale`) is the only one of its name, of a mine that still lies there and is
resetting, so that `ResettingAt` keeps everybody from editing in it. `OrderlySpec` adds `Owners`: the
regions in the book increase in the order of the table, and an area, a mine or a reset of
a personal mine lies in a region that is or was its player's and never another's. This survives
`remove` and `set` because the new entry goes behind the last one left: that may be the region the
player had before, when his was the last entry (`Compact`), but never another's. A crash breaks
it, as it brings back a book without the last entries.

`Sums` has the lemmas the sums of `AuctionProofs` and `ShopProofs` need (`SumPicked`,
`SumAdd`, `SumMonotone`, `SumUnion`, `SumChanged`). They are proved from the definition of the
community modules' folds: the library's induction theorems take an operator, which the provers
cannot instantiate, so `Induction` and `FiniteInduction` state induction about a set, and follow
from < being well founded on the natural numbers. `FoldDefined` says that the CHOOSE in a
fold finds its function.

Left to TLC: liveness under fairness, and ENABLED: `DuelEnds`, `PairIsMatched`, `PairBegins`,
`FinishedArenaIsFreed`, `EveryAuctionEnds`, `ExpiredIsCleared`, `GameEnds`, `GameStarts`,
`ResetEnds` and `GenerationEnds`. Every invariant and every action property of a passing run is
proved. No module that is proved about declares a recursive operator.

Beyond the named assumptions of the modules nothing is taken for granted: the players of an
auction house are finitely many, so that their money has a sum; prices, ranges and sizes are
natural numbers; cells are all those below the greatest.

## Assumptions about PocketMine-MP

* A handler is never interrupted; the quit event runs before the object is closed and removed.
* A scheduled task that throws is logged and runs again at its next period.
* On a closed player, `getLevel()` and `getInventory()` return null and other calls the code
  makes return normally.
* A form may be answered at any later time, or never, and a player has at most one open.
* An inventory with room takes any item: the refusals for a full inventory change nothing
  and are left out, except where the task skips a full or absent seller, in trades and in
  shops.
* A worker turns a notice into an exception, and a task that throws is dropped without its
  completion. Blocks of the world survive a restart.
* A player with a chest open sends no command, and quitting closes the chest. A chest opens only
  after two answers of the client, or never; until then the player can do anything.
* Area protection keeps players from digging anywhere but in the mines (`Open`).

## Not modelled

Messages, sounds, scoreboards, boss bars, statistics, positions in the world and game modes;
listing and paging of auctions; equipment inside a kit; which array keys spectators have (the
exception they can cause is a choice instead); what factions own (bank, vault, spawners, homes) and how strong they are, enemies
and wars, and the row `/transfer` moves to another account; the money a game of King of the hill
pays. A crash without `onDisable` is modelled for
personal mines, and a kill between statements for factions; elsewhere it just loses all memory. Also left out: `/trade view`, whose
chest cannot be changed; long resets (a reset comes at any time); `CopyTask`, and a paste of
more shards than one task handles; the autosell list, which is an input. Components without a module are listed above and in
`PROJECT.json` with the reason or the place in the plan.
