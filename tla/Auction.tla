------------------------------- MODULE Auction -------------------------------
(***************************************************************************)
(* The auction house of the Core plugin: /ah (sell, manage, buy, bid), the   *)
(* forms a bidder answers later, AuctionTask, which takes tax, ends auctions *)
(* and hands expired items back, and the money these move.  A lot is one     *)
(* Auction object; the tables Main::$auctions and Main::$expiredAuctions map *)
(* IDs to lots, and a bid form keeps the lot it was opened on.               *)
(* AuctionTask::onRun is a chain of steps, one per table entry it visits;    *)
(* while `phase' is not idle no other handler runs.                          *)
(***************************************************************************)
EXTENDS Integers, FiniteSets, SequencesExt

CONSTANTS
    Players,       \* player names, as numbers in their alphabetical order
    Items,         \* item stacks, each one of its kind
    Prices,        \* prices a seller may ask
    Amounts,       \* amounts a bidder may type
    BidTimes,      \* durations a seller may give a bid auction
    Ranked,        \* players of rank Nightmare or above: they pay Cost, not Tax
    Cost,          \* auction.cost
    Tax,           \* what one run of AuctionTask takes from a seller, rounded up
    TakedownTime,  \* auction.takedown-days
    CollectTime,   \* auction.collect-days
    Cooldown,      \* auction.cooldown
    BuyTimer,      \* auction.buy-timer
    StartMoney,    \* what each player has at first
    MoneyMax,      \* PHP_INT_MAX
    MaxLots,       \* bound: auctions posted in a behaviour
    MaxTime        \* bound: the last instant of a behaviour

IDs  == 1..MaxLots
Lots == 1..MaxLots
None == 0          \* no ID, no lot, no time

ASSUME SetsAssumption  == /\ Players \subseteq Nat \ {None} /\ IsFiniteSet(Players)
                          /\ Prices \subseteq Nat \ {0} /\ Amounts \subseteq Nat \ {0}
                          /\ BidTimes \subseteq Nat \ {0} /\ Ranked \subseteq Players
ASSUME MoneyAssumption == /\ Cost \in Nat /\ Tax \in Nat
                          /\ MoneyMax \in Nat /\ StartMoney \in 0..MoneyMax
ASSUME BoundAssumption == /\ {TakedownTime, CollectTime, Cooldown, BuyTimer} \subseteq Nat
                          /\ MaxLots \in Nat \ {0} /\ MaxTime \in Nat

VARIABLES
    now,        \* time()
    money,      \* ENTRY_MONEY of each player
    carried,    \* the items in each player's inventory
    lot,        \* the Auction objects, in the order they were created
    auctions,   \* Main::$auctions: per ID a lot, or None
    expired,    \* Main::$expiredAuctions
    cooldown,   \* AuctionHouseCommand::$cooldown
    buy,        \* AuctionHouseCommand::$buy: the purchase a player must confirm
    bidForm,    \* the lot of the bid form a player has open
    phase,      \* the loop AuctionTask::onRun is in
    visiting,   \* what its first loop has yet to visit of its copy of Main::$auctions
    collecting, \* the IDs its second loop has yet to visit
    confused    \* history: the items of auctions that were taken for one another

tableVars == <<lot, auctions, expired, confused>>
formVars  == <<cooldown, buy, bidForm>>
taskVars  == <<phase, visiting, collecting>>
vars == <<now, money, carried, lot, auctions, expired, cooldown, buy, bidForm,
          phase, visiting, collecting, confused>>

Bid == [who: Players, amount: Amounts]
Lot == [seller: Players, item: Items, price: Prices, time: 0..MaxTime,
        biddable: BOOLEAN, bidTime: Nat, bids: Seq(Bid)]
Purchase == [id: IDs \cup {None}, time: 0..MaxTime]
NoPurchase == [id |-> None, time |-> 0]
NoLots == [id \in IDs |-> None]    \* an empty table

TablesOK ==
    /\ now \in 0..MaxTime
    /\ carried \in [Players -> SUBSET Items]
    /\ lot \in Seq(Lot) /\ Len(lot) <= MaxLots
    /\ auctions \in [IDs -> 0..Len(lot)]
    /\ expired \in [IDs -> 0..Len(lot)]
    /\ cooldown \in [Players -> Nat]
    /\ buy \in [Players -> Purchase]
    /\ bidForm \in [Players -> 0..Len(lot)]
    /\ phase \in {"idle", "auctions", "expired"}
    /\ visiting \in [IDs -> 0..Len(lot)]
    /\ collecting \subseteq IDs
    /\ confused \subseteq Items

TypeOK == TablesOK /\ money \in [Players -> 0..MoneyMax]

Init ==
    /\ now = 0
    /\ money = [p \in Players |-> StartMoney]
    \* every item is in somebody's hands
    /\ carried \in {c \in [Players -> SUBSET Items] :
                      \A i \in Items : \E p \in Players :
                          \A q \in Players : i \in c[q] <=> q = p}
    /\ lot = <<>>
    /\ auctions = NoLots
    /\ expired = NoLots
    /\ cooldown = [p \in Players |-> 0]
    /\ buy = [p \in Players |-> NoPurchase]
    /\ bidForm = [p \in Players |-> None]
    /\ phase = "idle"
    /\ visiting = NoLots
    /\ collecting = {}
    /\ confused = {}

-----------------------------------------------------------------------------
(* Money (Main::addMoney, reduceMoney) and what an Auction object answers. *)

\* Variant: whoever has any money can pay.
CanPaySome(m, p, amount) == m[p] > 0
CanPay(m, p, amount)     == m[p] >= amount
Reduced(m, p, amount) == [m EXCEPT ![p] = @ - amount]

\* addMoney refuses, and loses, what would exceed MoneyMax.
Added(m, p, amount) == IF m[p] + amount <= MoneyMax
                       THEN [m EXCEPT ![p] = @ + amount] ELSE m

Idle == phase = "idle"
Listed   == {id \in IDs : auctions[id] # None}
LastBid(l) == lot[l].bids[Len(lot[l].bids)]

\* Variant: an auction is never taken down.
NeverExpires(l) == FALSE
HasExpired(l) == now >= lot[l].time + TakedownTime

\* getSortedBids compares the pairs [name, amount]: the name decides first.
Before(b, c) == b.who > c.who \/ (b.who = c.who /\ b.amount >= c.amount)
FirstSorted(bids) == {b \in ToSet(bids) : \A c \in ToSet(bids) : Before(b, c)}

\* returnBids pays every bid back, the highest too: it compares a name with a
\* bid, which never are equal.
Refunded(m, bids) ==
    FoldLeft(LAMBDA acc, b : Added(acc, b.who, b.amount), m, bids)

\* getAuctionID: the first listed ID whose lot has this seller and publish time.
\* The lot l itself has the seller given here, who may have become it just now.
IDsOf(l, seller) == {id \in Listed :
    /\ lot[auctions[id]].time = lot[l].time
    /\ auctions[id] = l \/ lot[auctions[id]].seller = seller}

\* The ID getAuctionID returns, which may be that of another auction.
FoundID(id, l, seller) == /\ id \in IDsOf(l, seller)
                          /\ \A other \in IDsOf(l, seller) : id <= other

\* What is kept in mind when l is looked up and ID id is found.
Confused(id, l) == IF auctions[id] = l THEN confused
                   ELSE confused \cup {lot[l].item, lot[auctions[id]].item}

\* Variant: the auction is not taken off the list.
ExpireOnTheList(l, seller) ==
    \/ IDsOf(l, seller) = {} /\ UNCHANGED <<auctions, expired, confused>>
    \/ \E id \in IDs :
           /\ FoundID(id, l, seller)
           /\ UNCHANGED <<auctions, confused>>
           /\ expired' = [expired EXCEPT ![id] = IF @ = None THEN l ELSE @]

\* expireAuction: it is the auction of the ID found that leaves the list, and l
\* that is stored.  A lot whose ID is taken in the other table ends in neither.
Expire(l, seller) ==
    \/ IDsOf(l, seller) = {} /\ UNCHANGED <<auctions, expired, confused>>
    \/ \E id \in IDs :
           /\ FoundID(id, l, seller)
           /\ auctions' = [auctions EXCEPT ![id] = None]
           /\ expired' = [expired EXCEPT ![id] = IF @ = None THEN l ELSE @]
           /\ confused' = Confused(id, l)

-----------------------------------------------------------------------------
(* AuctionTask::onRun, every 5 seconds. *)

TaskBegin ==
    /\ Idle
    /\ phase' = "auctions"
    /\ visiting' = auctions
    /\ UNCHANGED <<now, money, carried, tableVars, formVars, collecting>>

\* What the first loop does with one lot: it expires, its seller cannot pay the
\* tax, its bidding is over, or it stays.  The seller is taxed in the latter two.
TakeDown(l) ==
    /\ HasExpired(l)
    /\ Expire(l, lot[l].seller)
    /\ UNCHANGED <<money, lot>>

Untaxable(l) == lot[l].seller \notin Ranked /\ ~CanPay(money, lot[l].seller, Tax)
Taxed(l) == IF lot[l].seller \in Ranked THEN money ELSE Reduced(money, lot[l].seller, Tax)

TakeForTax(l) ==
    /\ ~HasExpired(l) /\ Untaxable(l)
    /\ money' = Refunded(money, lot[l].bids)
    /\ Expire(l, lot[l].seller)
    /\ UNCHANGED lot

BiddingOver(l) == lot[l].biddable /\ now >= lot[l].bidTime

\* Whose the item is when the bidding is over.
Winner(l) == IF lot[l].bids = <<>> THEN {lot[l].seller}
             ELSE {bid.who : bid \in FirstSorted(lot[l].bids)}

\* The winner becomes the seller, to whom the second loop hands the item; whoever
\* sold it is paid nothing.
EndBidding(l) ==
    /\ ~HasExpired(l) /\ ~Untaxable(l) /\ BiddingOver(l)
    /\ \E winner \in Winner(l) :
           /\ lot' = [lot EXCEPT ![l].seller = winner]
           /\ Expire(l, winner)
    /\ money' = Refunded(Taxed(l), lot[l].bids)

StayListed(l) ==
    /\ ~HasExpired(l) /\ ~Untaxable(l) /\ ~BiddingOver(l)
    /\ money' = Taxed(l)
    /\ UNCHANGED tableVars

VisitAuction ==
    /\ phase = "auctions"
    /\ \E id \in IDs :
           /\ visiting[id] # None /\ \A other \in 1..(id - 1) : visiting[other] = None
           /\ LET l == visiting[id] IN
                  TakeDown(l) \/ TakeForTax(l) \/ EndBidding(l) \/ StayListed(l)
           /\ visiting' = [visiting EXCEPT ![id] = None]
    /\ UNCHANGED <<now, carried, formVars, phase, collecting>>

SecondLoop ==
    /\ phase = "auctions" /\ visiting = NoLots
    /\ phase' = "expired"
    /\ collecting' = {id \in IDs : expired[id] # None}
    /\ UNCHANGED <<now, money, carried, tableVars, formVars, visiting>>

\* Variant: an uncollected item is kept for good.
NeverTooLate(l) == FALSE
TooLate(l) == now >= lot[l].time + TakedownTime + CollectTime

\* An expired lot is too old and thrown away, or goes to its seller, who may be
\* offline or have no room (the choice to do nothing).
VisitExpired(id) ==
    LET l == expired[id]
        seller == lot[l].seller IN
    /\ phase = "expired" /\ id \in collecting
    /\ \/ /\ TooLate(l)
          /\ expired' = [expired EXCEPT ![id] = None]
          /\ UNCHANGED carried
       \/ /\ ~TooLate(l)
          /\ expired' = [expired EXCEPT ![id] = None]
          /\ carried' = [carried EXCEPT ![seller] = @ \cup {lot[l].item}]
       \/ /\ ~TooLate(l)
          /\ UNCHANGED <<expired, carried>>
    /\ collecting' = collecting \ {id}
    /\ UNCHANGED <<now, money, lot, auctions, confused, formVars, phase, visiting>>

TaskEnd ==
    /\ phase = "expired" /\ collecting = {}
    /\ phase' = "idle"
    /\ UNCHANGED <<now, money, carried, tableVars, formVars, visiting, collecting>>

-----------------------------------------------------------------------------
(* /ah and its forms. *)

\* One above the highest listed ID, or 1.
IsNextID(id) == /\ \A other \in Listed : other < id
                /\ id = 1 \/ id - 1 \in Listed

\* The sell form, answered with the item it was opened for still in the hand.
Sell(p, item, price, biddable, duration) ==
    /\ Idle
    /\ now + TakedownTime + CollectTime <= MaxTime /\ Len(lot) < MaxLots
    /\ item \in carried[p]
    /\ now >= cooldown[p]
    /\ p \in Ranked => CanPay(money, p, Cost)
    /\ money' = IF p \in Ranked THEN Reduced(money, p, Cost) ELSE money
    /\ cooldown' = [cooldown EXCEPT ![p] = now + Cooldown]
    /\ carried' = [carried EXCEPT ![p] = @ \ {item}]
    /\ lot' = Append(lot, [seller |-> p, item |-> item, price |-> price, time |-> now,
                           biddable |-> biddable,
                           bidTime |-> IF biddable THEN now + duration ELSE 0,
                           bids |-> <<>>])
    /\ \E id \in IDs : IsNextID(id) /\ auctions' = [auctions EXCEPT ![id] = Len(lot) + 1]
    /\ UNCHANGED <<now, expired, confused, buy, bidForm, taskVars>>

\* The same form with a bad duration or with another item in the hand by now:
\* the cost is taken first and not given back.
SellRefused(p) ==
    /\ Idle
    /\ now >= cooldown[p]
    /\ p \in Ranked /\ CanPay(money, p, Cost)
    /\ money' = Reduced(money, p, Cost)
    /\ UNCHANGED <<now, carried, tableVars, formVars, taskVars>>

\* Variant: the retired auction stays on the list.
StillListed(id) == auctions
Unlisted(id) == [auctions EXCEPT ![id] = None]

\* /ah manage on one's own auction.
Retire(p, id) ==
    LET l == auctions[id] IN
    /\ Idle
    /\ id \in Listed /\ lot[l].seller = p
    /\ money' = Refunded(money, lot[l].bids)
    /\ auctions' = Unlisted(id)
    /\ carried' = [carried EXCEPT ![p] = @ \cup {lot[l].item}]
    /\ UNCHANGED <<now, lot, expired, confused, formVars, taskVars>>

\* Variant: an auction one bids on is sold to the first who asks.
ToBuyAny(p, id) == /\ Idle
                   /\ id \in Listed
                   /\ lot[auctions[id]].seller # p
ToBuy(p, id) == /\ Idle
                /\ id \in Listed
                /\ lot[auctions[id]].seller # p /\ ~lot[auctions[id]].biddable

\* /ah manage on an auction to buy: the first time it asks for a confirmation.
AskToConfirm(p, id) ==
    /\ ToBuy(p, id)
    /\ buy[p] = NoPurchase
    /\ buy' = [buy EXCEPT ![p] = [id |-> id, time |-> now]]
    /\ UNCHANGED <<now, money, carried, tableVars, cooldown, bidForm, taskVars>>

\* The next time buys it; the confirmation may have been asked for another one.
Buy(p, id) ==
    LET l == auctions[id] IN
    /\ ToBuy(p, id)
    /\ buy[p] # NoPurchase /\ now - buy[p].time <= BuyTimer
    /\ CanPay(money, p, lot[l].price)
    /\ money' = Added(Reduced(money, p, lot[l].price), lot[l].seller, lot[l].price)
    /\ auctions' = Unlisted(id)
    /\ carried' = [carried EXCEPT ![p] = @ \cup {lot[l].item}]
    /\ buy' = [buy EXCEPT ![p] = NoPurchase]
    /\ UNCHANGED <<now, lot, expired, confused, cooldown, bidForm, taskVars>>

\* A confirmation that comes too late, or the main menu of /ah.
ForgetPurchase(p) ==
    /\ Idle
    /\ buy[p] # NoPurchase
    /\ buy' = [buy EXCEPT ![p] = NoPurchase]
    /\ UNCHANGED <<now, money, carried, tableVars, cooldown, bidForm, taskVars>>

\* /ah manage on a bid auction opens a form that keeps the Auction object.
OpenBidForm(p, id) ==
    /\ Idle
    /\ id \in Listed
    /\ lot[auctions[id]].seller # p /\ lot[auctions[id]].biddable
    /\ bidForm[p] = None
    /\ bidForm' = [bidForm EXCEPT ![p] = auctions[id]]
    /\ UNCHANGED <<now, money, carried, tableVars, cooldown, buy, taskVars>>

\* postBid on the lot of the form, which may be off the list by now.
PostBid(p, amount) ==
    LET l == bidForm[p] IN
    /\ Idle
    /\ l # None
    /\ now < lot[l].bidTime
    /\ IF lot[l].bids = <<>> THEN amount >= lot[l].price
       ELSE LastBid(l).who # p /\ amount > LastBid(l).amount
    /\ CanPay(money, p, amount)
    /\ money' = Reduced(money, p, amount)
    /\ lot' = [lot EXCEPT ![l].bids = Append(@, [who |-> p, amount |-> amount])]
    /\ bidForm' = [bidForm EXCEPT ![p] = None]
    /\ UNCHANGED <<now, carried, auctions, expired, confused, cooldown, buy, taskVars>>

\* A bid that postBid refuses, or a form that is closed.
CloseBidForm(p) ==
    /\ Idle
    /\ bidForm[p] # None
    /\ bidForm' = [bidForm EXCEPT ![p] = None]
    /\ UNCHANGED <<now, money, carried, tableVars, cooldown, buy, taskVars>>

-----------------------------------------------------------------------------
\* Time passes, during the task as well.
Second ==
    /\ now < MaxTime
    /\ now' = now + 1
    /\ UNCHANGED <<money, carried, tableVars, formVars, taskVars>>

AuctionTask == \/ TaskBegin \/ VisitAuction \/ SecondLoop \/ TaskEnd
               \/ \E id \in IDs : VisitExpired(id)

Command == \E p \in Players :
    \/ \E item \in Items, price \in Prices :
           \/ Sell(p, item, price, FALSE, 0)
           \/ \E d \in BidTimes : Sell(p, item, price, TRUE, d)
    \/ SellRefused(p) \/ ForgetPurchase(p) \/ CloseBidForm(p)
    \/ \E id \in IDs : Retire(p, id) \/ AskToConfirm(p, id) \/ Buy(p, id) \/ OpenBidForm(p, id)
    \/ \E amount \in Amounts : PostBid(p, amount)

\* A restart.  onDisable saves both tables to auctions.js; the next start reads
\* them from the table "ah" of server.db, where nothing writes them.
Restart ==
    /\ Idle
    /\ auctions' = NoLots
    /\ expired' = NoLots
    /\ cooldown' = [p \in Players |-> 0]
    /\ buy' = [p \in Players |-> NoPurchase]
    /\ bidForm' = [p \in Players |-> None]
    /\ UNCHANGED <<now, money, carried, lot, confused, taskVars>>

Next == AuctionTask \/ Command \/ Second

Spec == Init /\ [][Next]_vars
SpecWithRestart == Init /\ [][Next \/ Restart]_vars

\* The scheduler runs the task, a task once begun runs to its end, and time passes,
\* before and after a restart.
Fairness == WF_vars(AuctionTask) /\ WF_vars(Second)

FairSpec == SpecWithRestart /\ Fairness

-----------------------------------------------------------------------------
(* Properties. *)

ListedLot(l)  == \E id \in IDs : auctions[id] = l
WaitingLot(l) == \E id \in IDs : expired[id] = l

\* An item is never in two places, be it hands, a listed or an expired auction:
\* each handler takes it from one table or hand when it puts it into another.
\* Nothing is said of an item once its auction was taken for another one.
OneOwner ==
    \A item \in Items \ confused :
        LET hands  == {p \in Players : item \in carried[p]}
            sold   == {id \in Listed : lot[auctions[id]].item = item}
            stored == {id \in IDs : expired[id] # None /\ lot[expired[id]].item = item}
        IN  Cardinality(hands) + Cardinality(sold) + Cardinality(stored) <= 1

\* The money of all players and the bids the listed auctions hold never exceed
\* what there was at first: no refund pays out a bid that was not taken, or
\* twice, as long as no auction was taken for another and left to be refunded again.
Staked(bids) == SumFunction([i \in DOMAIN bids |-> bids[i].amount])
Escrow(id) == IF id \in Listed THEN Staked(lot[auctions[id]].bids) ELSE 0
NoMoneyMade ==
    confused = {} => SumFunction(money) + SumFunction([id \in IDs |-> Escrow(id)])
                         <= StartMoney * Cardinality(Players)

\* Every auction leaves the list, sold or not, though nobody touches it
\* (config.yml, auction.takedown-days).
EveryAuctionEnds == \A l \in Lots : ListedLot(l) ~> ~ListedLot(l)

\* An expired auction does not wait for its seller for ever (auction.collect-days).
ExpiredIsCleared == \A l \in Lots : WaitingLot(l) ~> ~WaitingLot(l)

\* What leaves the list is in somebody's inventory, or among the expired auctions
\* that the task returns (AuctionTask: "return inactive auctions"), unless the
\* auction was taken for another one.
ItemReturned ==
    [][\A l \in Lots : ListedLot(l) /\ ~ListedLot(l)' =>
           \/ WaitingLot(l)' \/ lot[l].item \in confused'
           \/ \E p \in Players : lot[l].item \in carried'[p] \ carried[p]]_vars

\* Where an item is, and whose: the list names its seller and those who have bid.
Bidders(l) == {bid.who : bid \in ToSet(lot[l].bids)}
Place(where, whose, bids) == [at |-> where, of |-> whose, bidders |-> bids]
CustodyOf(item) ==
    {Place("hands", p, {}) : p \in {q \in Players : item \in carried[q]}}
    \cup {Place("list", lot[auctions[id]].seller, Bidders(auctions[id])) :
              id \in {other \in Listed : lot[auctions[other]].item = item}}
    \cup {Place("store", lot[expired[id]].seller, {}) :
              id \in {other \in IDs : expired[other] # None /\ lot[expired[other]].item = item}}

\* The house has lost track of an item whose auction was taken for another one.
Custody == [item \in Items |-> IF item \in confused THEN {} ELSE CustodyOf(item)]

House == INSTANCE AuctionCustody WITH custody <- Custody

\* Who may get an item, and when: on the list it is its seller's, but a bid gives
\* bidders a claim to it and bars buyers; from the store it goes to its owner only.
RefinesCustody == House!CustodySpec

=============================================================================
