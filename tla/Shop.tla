-------------------------------- MODULE Shop --------------------------------
(***************************************************************************)
(* The sign shops (MiscListener2) and /sell (LegacyCore's Sell): operators   *)
(* hang and break signs, anybody buys through two forms, the first of which  *)
(* keeps a copy of the shop as it was when the sign was touched, and sells   *)
(* by hand, all at once or through autosell.                                 *)
(* A sign may fall off its wall without a BlockBreakEvent, which leaves its  *)
(* entry in the table; a new sign at that place then overwrites it.          *)
(***************************************************************************)
EXTENDS Integers, Bags, Functions, FiniteSetsExt

CONSTANTS
    Player,
    Signs,       \* the signs at first: position |-> price, item, amount, vip
    SellPrices,  \* sell.yml: item ID |-> price
    Sites,       \* positions where signs are hung and broken
    Offers,      \* what operators write on a sign
    Sliders,     \* answers to the first form, of 1..64
    Lists,       \* item lists of autosell; the empty one stands for everything
    StackSize,   \* items in a slot
    Slots,       \* slots of an inventory
    StartMoney,
    MoneyMax,    \* PHP_INT_MAX
    MaxDeals     \* bound: purchases in a behaviour

Below(pos) == <<pos[1], pos[2] - 2, pos[3]>>

ASSUME BoundsAssumption == /\ {StartMoney, MoneyMax, MaxDeals, Slots} \subseteq Nat
                           /\ StackSize \in Nat \ {0} /\ StartMoney <= MoneyMax
\* Sell::$market: an ID without damage stands for damage 0.  The loop that should
\* lower a price to that of a shop iterates over an SQLiteConfig object, whose
\* properties are all private, and so visits no shop.
Market == [item \in (DOMAIN SellPrices) \X {0} |-> SellPrices[item[1]]]

Price(item) == IF item \in DOMAIN Market THEN Market[item] ELSE 0

\* What signs say, and what is on sale.
\* The code does not keep `cheap': it says that an operator wrote less on the sign
\* than /sell pays for the bundle.
Item  == {o.item : o \in Range(Signs) \cup Offers}
Offer == [price : Nat, item : Item, amount : Nat \ {0}, vip : BOOLEAN, cheap : BOOLEAN]

\* A bundle is not on sale for less than /sell pays for it.  So it is in shops.js and
\* sell.yml, of which PriceAssumption speaks; operators write what they like.
Fair(o) == o.amount * Price(o.item) <= o.price

ASSUME InputAssumption  == /\ Sliders \subseteq 1..64
                           /\ Signs \in [DOMAIN Signs -> Offer]
                           /\ Offers \subseteq Offer /\ \A o \in Offers : o.vip
                           /\ SellPrices \in [DOMAIN SellPrices -> Nat]
ASSUME PriceAssumption  == \A o \in Range(Signs) : Fair(o) /\ ~o.cheap

VARIABLES
    running,  \* whether the server is up
    vip,      \* the players of a rank isVip accepts
    shop,     \* Main2::$shop
    money,    \* ENTRY_MONEY of each player
    held,     \* the bag of items in each inventory
    form,     \* the form each player has open
    gained,   \* history: what cheap signs sold each player for less than he gets back
    deals     \* purchases so far

vars == <<running, vip, shop, money, held, form, gained, deals>>

NoForm == [stage |-> "none"]

\* The two forms of a purchase.
Form == {NoForm} \cup [stage : {"slider"}, sign : Offer]
        \cup [stage : {"confirm"}, item : Item, amount : Nat \ {0}, price : Nat,
            cheap : BOOLEAN]

TypeOK ==
    /\ running \in BOOLEAN
    /\ vip \subseteq Player
    /\ shop \in [DOMAIN shop -> Offer]
    /\ money \in [Player -> 0..MoneyMax]
    /\ DOMAIN held = Player
    /\ \A p \in Player : IsABag(held[p]) /\ DOMAIN held[p] \subseteq Item
    /\ form \in [Player -> Form]
    /\ gained \in [Player -> Nat]
    /\ deals \in 0..MaxDeals

Init ==
    /\ running = TRUE
    /\ vip \in SUBSET Player
    /\ shop = Signs
    /\ money = [p \in Player |-> StartMoney]
    /\ held = [p \in Player |-> EmptyBag]
    /\ form = [p \in Player |-> NoForm]
    /\ gained = [p \in Player |-> 0]
    /\ deals = 0

-----------------------------------------------------------------------------
(* Signs *)

Doubled(sign) == [sign EXCEPT !.price = 2 * @, !.vip = FALSE]

Hung(pos, sign) == [q \in DOMAIN shop \cup {pos} |-> IF q = pos THEN sign ELSE shop[q]]

\* A sign two blocks above a shop becomes its twin, whoever writes it and whatever
\* it says.
HangTwin(pos) ==
    /\ running /\ Below(pos) \in DOMAIN shop
    /\ shop' = Hung(pos, Doubled(shop[Below(pos)]))
    /\ UNCHANGED <<running, vip, money, held, form, gained, deals>>

\* An operator writes "shop"; the entry is made before the price is looked at,
\* and the price is looked up under an ID without damage, which is never found.
HangShop(pos, offer) ==
    /\ running /\ Below(pos) \notin DOMAIN shop
    /\ shop' = Hung(pos, [offer EXCEPT !.cheap = ~Fair(offer)])
    /\ UNCHANGED <<running, vip, money, held, form, gained, deals>>

\* Only operators may break the sign.
BreakSign(pos) ==
    /\ running /\ pos \in DOMAIN shop
    /\ shop' = [q \in DOMAIN shop \ {pos} |-> shop[q]]
    /\ UNCHANGED <<running, vip, money, held, form, gained, deals>>

-----------------------------------------------------------------------------
(* Buying *)

Touch(p, pos) ==
    /\ running /\ form[p] = NoForm /\ deals < MaxDeals
    /\ shop[pos].vip => p \in vip
    /\ form' = [form EXCEPT ![p] = [stage |-> "slider", sign |-> shop[pos]]]
    /\ UNCHANGED <<running, vip, shop, money, held, gained, deals>>

\* Variant: one bundle is paid, however many are bought.
AnswerSliderForOne(p, times) ==
    /\ form[p].stage = "slider"
    /\ LET sign == form[p].sign
       IN  form' = [form EXCEPT ![p] =
                      [stage |-> "confirm", item |-> sign.item,
                       amount |-> sign.amount * times, price |-> sign.price,
                       cheap |-> sign.cheap]]
    /\ UNCHANGED <<running, vip, shop, money, held, gained, deals>>

AnswerSlider(p, times) ==
    /\ form[p].stage = "slider"
    /\ LET sign == form[p].sign
       IN  form' = [form EXCEPT ![p] =
                      [stage |-> "confirm", item |-> sign.item,
                       amount |-> sign.amount * times, price |-> sign.price * times,
                       cheap |-> sign.cheap]]
    /\ UNCHANGED <<running, vip, shop, money, held, gained, deals>>

\* n items of a kind, as a bag.
StackOf(item, n) == [i \in {item} |-> n]

SlotsFor(bag) == MapThenSumSet(LAMBDA item : (bag[item] + StackSize - 1) \div StackSize, DOMAIN bag)

CanAdd(p, item, n) == SlotsFor(held[p] (+) StackOf(item, n)) <= Slots
\* Variant: any money is enough.
CanPaySome(p, price) == money[p] > 0
CanPay(p, price)     == money[p] >= price

\* What a purchase at a cheap sign gives to whoever sells again what he bought.
Gain(f) == IF f.cheap /\ ~Fair(f) THEN f.amount * Price(f.item) - f.price ELSE 0

Confirm(p) ==
    /\ form[p].stage = "confirm" /\ deals < MaxDeals
    /\ form' = [form EXCEPT ![p] = NoForm]
    /\ LET f == form[p]
       IN  IF CanAdd(p, f.item, f.amount) /\ CanPay(p, f.price)
           THEN /\ money' = [money EXCEPT ![p] = @ - f.price]
                /\ held' = [held EXCEPT ![p] = @ (+) StackOf(f.item, f.amount)]
                /\ gained' = [gained EXCEPT ![p] = @ + Gain(f)]
                /\ deals' = deals + 1
           ELSE UNCHANGED <<money, held, gained, deals>>
    /\ UNCHANGED <<running, vip, shop>>

\* A form is cancelled, or its player leaves.
CloseForm(p) ==
    /\ form[p] # NoForm
    /\ form' = [form EXCEPT ![p] = NoForm]
    /\ UNCHANGED <<running, vip, shop, money, held, gained, deals>>

-----------------------------------------------------------------------------
(* Selling *)

\* addMoney refuses, and loses, what would exceed MoneyMax.
Paid(p, amount) ==
    [money EXCEPT ![p] = IF @ + amount > MoneyMax THEN @ ELSE @ + amount]

Without(bag, item, n) == bag (-) StackOf(item, n)

\* /sell hand, with a stack of the item in the hand.
SellHand(p, item) ==
    /\ running /\ item \in DOMAIN Market
    /\ LET n == Min({held[p][item], StackSize})
       IN  /\ money' = Paid(p, Market[item] * n)
           /\ held' = [held EXCEPT ![p] = Without(@, item, n)]
    /\ UNCHANGED <<running, vip, shop, form, gained, deals>>

\* Sellable items a list admits.
ToSell(p, list) == {item \in DOMAIN held[p] \cap DOMAIN Market : list = {} \/ item \in list}

\* /sell all, with no list, and every second the autosell of a player.
SellAll(p, list) ==
    /\ running /\ ToSell(p, list) # {}
    /\ LET sold == ToSell(p, list)
       IN  /\ money' = Paid(p, SumFunction([item \in sold |-> held[p][item] * Market[item]]))
           /\ held' = [held EXCEPT ![p] = [item \in DOMAIN @ \ sold |-> @[item]]]
    /\ UNCHANGED <<running, vip, shop, form, gained, deals>>

-----------------------------------------------------------------------------
(* The server stops and starts: the table is saved, the forms are gone. *)

Stop ==
    /\ running /\ running' = FALSE
    /\ form' = [p \in Player |-> NoForm]
    /\ UNCHANGED <<vip, shop, money, held, gained, deals>>

\* Sell is constructed, and with it Market.
Start ==
    /\ ~running /\ running' = TRUE
    /\ UNCHANGED <<vip, shop, money, held, form, gained, deals>>

Next ==
    \/ \E pos \in Sites : HangTwin(pos) \/ BreakSign(pos)
    \/ \E pos \in Sites, offer \in Offers : HangShop(pos, offer)
    \/ \E p \in Player : \/ \E pos \in DOMAIN shop : Touch(p, pos)
                         \/ \E times \in Sliders : AnswerSlider(p, times)
                         \/ Confirm(p) \/ CloseForm(p)
                         \/ \E item \in DOMAIN held[p] : SellHand(p, item)
                         \/ \E list \in Lists : SellAll(p, list)
    \/ Stop \/ Start

Spec == Init /\ [][Next]_vars

-----------------------------------------------------------------------------
(* What items are worth, every one counted at what /sell pays for it, and what a *)
(* player has with his money.                                                    *)
Value(bag) == SumFunction([item \in DOMAIN bag |-> bag[item] * Price(item)])
Worth(p) == money[p] + Value(held[p])

\* Nobody gets richer by trading with the server: whatever is bought at the signs,
\* in whatever bundles, through forms opened before a sign was changed, and sold
\* again by hand, all at once or by autosell, no player is ever worth more than
\* the money he started with and what he gained at signs that an operator has hung
\* too cheap.  This is about the real catalogue, whose prices are per bundle,
\* against the real sell prices, which are per item.
NoProfit == \A p \in Player : Worth(p) <= StartMoney + gained[p]

=============================================================================
