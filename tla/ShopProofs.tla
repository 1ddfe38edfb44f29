------------------------------ MODULE ShopProofs ------------------------------
(***************************************************************************)
(* Nobody profits from the sign shops but by what operators hang too cheap,  *)
(* whatever the catalogue, as long as PriceAssumption holds of it.  The       *)
(* inductive invariant adds to NoProfit that every sign, and every form a     *)
(* player has open, asks at least what the items it is for sell for, or goes  *)
(* back to an operator's cheap sign.                                         *)
(***************************************************************************)
EXTENDS Shop, Sums

FiniteBags == \A p \in Player : IsFiniteSet(DOMAIN held[p])

Honest(o) == o.cheap \/ Fair(o)

FairSigns == \A pos \in DOMAIN shop : Honest(shop[pos])

FairForms == \A p \in Player :
    /\ form[p].stage = "slider" => Honest(form[p].sign)
    /\ form[p].stage = "confirm" => Honest(form[p])

Inv == TypeOK /\ FiniteBags /\ FairSigns /\ FairForms /\ NoProfit

-----------------------------------------------------------------------------
(* Prices and values *)

LEMMA PriceType == \A item : Price(item) \in Nat
BY InputAssumption DEF Price, Market

\* What each item of a bag is worth.
Worths(bag) == [item \in DOMAIN bag |-> bag[item] * Price(item)]

LEMMA WorthsType ==
    ASSUME NEW bag, IsABag(bag)
    PROVE  \A item \in DOMAIN bag : Worths(bag)[item] \in Nat
<1> SUFFICES ASSUME NEW item \in DOMAIN bag PROVE bag[item] * Price(item) \in Nat
  BY DEF Worths
<1>1. bag[item] \in Nat /\ Price(item) \in Nat
  BY PriceType DEF IsABag
<1> QED
  BY <1>1

LEMMA ValueIsSum ==
    ASSUME NEW bag
    PROVE  Value(bag) = SumFunctionOnSet(Worths(bag), DOMAIN bag)
BY DEF Value, SumFunction, Worths

LEMMA ValueType ==
    ASSUME NEW bag, IsABag(bag), IsFiniteSet(DOMAIN bag)
    PROVE  Value(bag) \in Int
<1>1. \A item \in DOMAIN bag : Worths(bag)[item] \in Int
  BY WorthsType
<1> QED
  BY <1>1, SumType, ValueIsSum

\* Items of one kind less or more: the others stay worth what they are.
LEMMA ValueOfOne ==
    ASSUME NEW bag, IsABag(bag), IsFiniteSet(DOMAIN bag), NEW item,
           NEW new, IsABag(new), DOMAIN new \ {item} = DOMAIN bag \ {item},
           \A other \in DOMAIN bag \ {item} : new[other] = bag[other]
    PROVE  Value(new) - (IF item \in DOMAIN new THEN new[item] * Price(item) ELSE 0)
             = Value(bag) - (IF item \in DOMAIN bag THEN bag[item] * Price(item) ELSE 0)
<1> DEFINE R == DOMAIN bag \ {item}
           f == Worths(bag)
           g == Worths(new)
<1>1. IsFiniteSet(R) /\ IsFiniteSet(DOMAIN new)
  <2>1. IsFiniteSet(R) /\ IsFiniteSet(R \cup {item})
    BY FS_Subset, FS_AddElement
  <2>2. DOMAIN new \subseteq R \cup {item}
    OBVIOUS
  <2> QED
    BY <2>1, <2>2, FS_Subset
<1>2. (\A x \in DOMAIN bag : f[x] \in Int) /\ (\A x \in DOMAIN new : g[x] \in Int)
  BY WorthsType
<1>3. SumFunctionOnSet(f, R) = SumFunctionOnSet(g, R) /\ SumFunctionOnSet(f, R) \in Int
  <2>1. \A x \in R : f[x] \in Int /\ f[x] = g[x]
    BY <1>2 DEF Worths
  <2> HIDE DEF f, g, R
  <2> QED
    BY <1>1, <2>1, SumSame, SumType
<1>4. Value(bag) = (IF item \in DOMAIN bag THEN f[item] ELSE 0) + SumFunctionOnSet(f, R)
  <2>1. CASE item \in DOMAIN bag
    BY <2>1, <1>2, SumTake, ValueIsSum
  <2>2. CASE item \notin DOMAIN bag
    <3>1. R = DOMAIN bag
      BY <2>2
    <3> QED
      BY <1>3, <2>2, <3>1, ValueIsSum
  <2> QED
    BY <2>1, <2>2
<1>5. Value(new) = (IF item \in DOMAIN new THEN g[item] ELSE 0) + SumFunctionOnSet(g, R)
  <2>1. CASE item \in DOMAIN new
    <3>1. SumFunctionOnSet(g, DOMAIN new) = g[item] + SumFunctionOnSet(g, DOMAIN new \ {item})
      BY <1>1, <1>2, <2>1, SumTake
    <3> QED
      BY <2>1, <3>1, ValueIsSum
  <2>2. CASE item \notin DOMAIN new
    <3>1. R = DOMAIN new
      BY <2>2
    <3> QED
      BY <1>3, <2>2, <3>1, ValueIsSum
  <2> QED
    BY <2>1, <2>2
<1>6. /\ item \in DOMAIN bag => f[item] \in Int /\ f[item] = bag[item] * Price(item)
      /\ item \in DOMAIN new => g[item] \in Int /\ g[item] = new[item] * Price(item)
  BY <1>2 DEF Worths
<1> HIDE DEF f, g, R
<1> QED
  BY <1>3, <1>4, <1>5, <1>6

LEMMA Distributes ==
    ASSUME NEW a \in Int, NEW b \in Int, NEW c \in Int
    PROVE  (a + b) * c = a * c + b * c /\ (a - b) * c = a * c - b * c
OBVIOUS

\* A purchase adds what the items sell for.
LEMMA ValueAdded ==
    ASSUME NEW bag, IsABag(bag), IsFiniteSet(DOMAIN bag), NEW item, NEW n \in Nat \ {0}
    PROVE  LET new == bag (+) StackOf(item, n)
           IN  /\ IsABag(new) /\ DOMAIN new = DOMAIN bag \cup {item} /\ IsFiniteSet(DOMAIN new)
               /\ Value(new) = Value(bag) + n * Price(item)
<1> DEFINE new == bag (+) StackOf(item, n)
           had == IF item \in DOMAIN bag THEN bag[item] ELSE 0
<1>1. /\ DOMAIN new = DOMAIN bag \cup {item}
      /\ \A other \in DOMAIN bag \ {item} : new[other] = bag[other]
      /\ new[item] = had + n
  BY DEF (+), StackOf, IsABag
<1>2. had \in Nat
  BY DEF IsABag
<1>3. IsABag(new)
  <2>1. new = [x \in DOMAIN new |-> new[x]]
    BY DEF (+)
  <2>2. \A x \in DOMAIN new : new[x] \in {k \in Nat : k > 0}
    BY <1>1, <1>2 DEF IsABag
  <2> HIDE DEF new
  <2> QED
    BY <2>1, <2>2 DEF IsABag
<1>4. IsFiniteSet(DOMAIN new)
  BY <1>1, FS_AddElement
<1>5. Value(new) - new[item] * Price(item) = Value(bag) - had * Price(item)
  <2>1. DOMAIN new \ {item} = DOMAIN bag \ {item}
    BY <1>1
  <2>2. had * Price(item) = IF item \in DOMAIN bag THEN bag[item] * Price(item) ELSE 0
    BY PriceType
  <2> HIDE DEF new, had
  <2> QED
    BY <1>1, <1>3, <2>1, <2>2, ValueOfOne
<1>6. new[item] * Price(item) = had * Price(item) + n * Price(item)
  <2> HIDE DEF new, had
  <2> QED
    BY <1>1, <1>2, PriceType, Distributes
<1>7. Value(new) \in Int /\ Value(bag) \in Int /\ n * Price(item) \in Int /\ had * Price(item) \in Int
  <2> HIDE DEF new, had
  <2> QED
    BY <1>2, <1>3, <1>4, ValueType, PriceType
<1> HIDE DEF new, had
<1>8. Value(new) = Value(bag) + n * Price(item)
  BY <1>5, <1>6, <1>7
<1> QED
  BY <1>1, <1>3, <1>4, <1>8 DEF new

\* What is sold by hand.
LEMMA ValueWithout ==
    ASSUME NEW bag, IsABag(bag), IsFiniteSet(DOMAIN bag),
           NEW item \in DOMAIN bag, NEW n \in 1..bag[item]
    PROVE  LET new == Without(bag, item, n)
           IN  /\ IsABag(new) /\ DOMAIN new \subseteq DOMAIN bag /\ IsFiniteSet(DOMAIN new)
               /\ Value(new) = Value(bag) - n * Price(item)
<1> DEFINE new == Without(bag, item, n)
           left == bag[item] - n
<1>1. \A x \in DOMAIN bag : bag[x] \in Nat /\ bag[x] > 0
  BY DEF IsABag
<1>2. /\ DOMAIN new = IF left = 0 THEN DOMAIN bag \ {item} ELSE DOMAIN bag
      /\ \A other \in DOMAIN bag \ {item} : new[other] = bag[other]
      /\ item \in DOMAIN new => new[item] = left
      /\ left \in Nat
  BY <1>1 DEF Without, (-), StackOf
<1>3. IsABag(new)
  <2>1. new = [x \in DOMAIN new |-> new[x]]
    BY DEF Without, (-)
  <2>2. \A x \in DOMAIN new : new[x] \in {k \in Nat : k > 0}
    BY <1>1, <1>2
  <2> HIDE DEF new
  <2> QED
    BY <2>1, <2>2 DEF IsABag
<1>4. DOMAIN new \subseteq DOMAIN bag /\ IsFiniteSet(DOMAIN new)
  BY <1>2, FS_Subset
<1>5. Value(new) - left * Price(item) = Value(bag) - bag[item] * Price(item)
  <2>1. DOMAIN new \ {item} = DOMAIN bag \ {item}
    BY <1>2
  <2>2. left * Price(item) = IF item \in DOMAIN new THEN new[item] * Price(item) ELSE 0
    BY <1>2, PriceType
  <2> HIDE DEF new, left
  <2> QED
    BY <1>2, <1>3, <2>1, <2>2, ValueOfOne
<1>6. left * Price(item) = bag[item] * Price(item) - n * Price(item)
  BY <1>1, PriceType, Distributes
<1>7. /\ Value(new) \in Int /\ Value(bag) \in Int
      /\ n * Price(item) \in Int /\ bag[item] * Price(item) \in Int
  <2> HIDE DEF new
  <2> QED
    BY <1>1, <1>3, <1>4, ValueType, PriceType
<1> HIDE DEF new, left
<1>8. Value(new) = Value(bag) - n * Price(item)
  BY <1>5, <1>6, <1>7
<1> QED
  BY <1>3, <1>4, <1>8 DEF new

\* What /sell all takes, and pays.
LEMMA ValueRest ==
    ASSUME NEW bag, IsABag(bag), IsFiniteSet(DOMAIN bag),
           NEW sold, sold \subseteq DOMAIN bag \cap DOMAIN Market
    PROVE  LET rest == [item \in DOMAIN bag \ sold |-> bag[item]]
               pay  == SumFunction([item \in sold |-> bag[item] * Market[item]])
           IN  /\ IsABag(rest) /\ IsFiniteSet(DOMAIN rest)
               /\ pay \in Int /\ Value(rest) = Value(bag) - pay
<1> DEFINE rest == [item \in DOMAIN bag \ sold |-> bag[item]]
           left == DOMAIN bag \ sold
           paid == [item \in sold |-> bag[item] * Market[item]]
           f    == Worths(bag)
           g    == Worths(rest)
<1>1. IsABag(rest) /\ DOMAIN rest = left
  BY DEF IsABag
<1>2. IsFiniteSet(left) /\ IsFiniteSet(sold) /\ left \cap sold = {} /\ sold \cup left = DOMAIN bag
  BY FS_Subset
<1>3. \A x \in DOMAIN bag : f[x] \in Int
  BY WorthsType
<1>4. \A x \in left : f[x] = g[x]
  BY DEF Worths
<1>5. \A x \in sold : f[x] = paid[x]
  BY DEF Worths, Price
<1>6. DOMAIN paid = sold
  OBVIOUS
<1> HIDE DEF rest, left, paid, f, g
<1>7. SumFunctionOnSet(f, sold \cup left) = SumFunctionOnSet(f, sold) + SumFunctionOnSet(f, left)
  BY <1>2, <1>3, SumUnion
<1>8. SumFunctionOnSet(f, left) = SumFunctionOnSet(g, left) /\ SumFunctionOnSet(f, left) \in Int
  BY <1>2, <1>3, <1>4, SumSame, SumType
<1>9. SumFunctionOnSet(f, sold) = SumFunctionOnSet(paid, sold) /\ SumFunctionOnSet(f, sold) \in Int
  BY <1>2, <1>3, <1>5, SumSame, SumType
<1>10. Value(bag) = SumFunctionOnSet(f, DOMAIN bag) /\ Value(rest) = SumFunctionOnSet(g, left)
  BY <1>1, ValueIsSum DEF f, g
<1>11. SumFunction(paid) = SumFunctionOnSet(paid, sold)
  BY <1>6 DEF SumFunction
<1>12. SumFunction(paid) \in Int /\ Value(rest) = Value(bag) - SumFunction(paid)
  BY <1>2, <1>7, <1>8, <1>9, <1>10, <1>11
<1> QED
  BY <1>1, <1>2, <1>12 DEF rest, paid

-----------------------------------------------------------------------------
(* Prices of signs and forms *)

LEMMA NoMoreThan ==
    ASSUME NEW a \in Nat, NEW b \in Nat, NEW c \in Nat, NEW t \in Nat, a * c <= b
    PROVE  (a * t) * c <= b * t
<1>1. (a * t) * c = (a * c) * t
  OBVIOUS
<1>2. \A x, y \in Nat : x <= y => x * t <= y * t
  OBVIOUS
<1>3. a * c \in Nat
  OBVIOUS
<1> QED
  BY <1>1, <1>2, <1>3

LEMMA DoubledFair ==
    ASSUME NEW o \in Offer, Honest(o)
    PROVE  Doubled(o) \in Offer /\ Honest(Doubled(o))
<1>1. /\ Doubled(o) \in Offer /\ Doubled(o).price = 2 * o.price
      /\ Doubled(o).item = o.item /\ Doubled(o).amount = o.amount
      /\ Doubled(o).cheap = o.cheap
  <2>1. 2 * o.price \in Nat
    BY DEF Offer
  <2>2. \A x \in Nat : [[o EXCEPT !.price = x] EXCEPT !.vip = FALSE] \in Offer
    BY DEF Offer
  <2>3. Doubled(o) = [[o EXCEPT !.price = 2 * o.price] EXCEPT !.vip = FALSE]
    BY DEF Doubled, Offer
  <2> QED
    BY <2>1, <2>2, <2>3 DEF Offer
<1>2. o.price \in Nat /\ o.amount * Price(o.item) \in Int
  BY PriceType DEF Offer
<1> QED
  BY <1>1, <1>2 DEF Fair, Honest

\* What an operator writes is known to be cheap when it is.
LEMMA WrittenHonest ==
    ASSUME NEW o \in Offer
    PROVE  LET sign == [o EXCEPT !.cheap = ~Fair(o)]
           IN  sign \in Offer /\ Honest(sign)
<1>1. Fair(o) \in BOOLEAN
  BY DEF Fair
<1> DEFINE sign == [o EXCEPT !.cheap = ~Fair(o)]
<1>2. /\ sign \in Offer /\ sign.cheap = ~Fair(o)
      /\ sign.price = o.price /\ sign.item = o.item /\ sign.amount = o.amount
  BY <1>1 DEF Offer
<1>3. Fair(sign) <=> Fair(o)
  BY <1>2 DEF Fair
<1> HIDE DEF sign
<1>4. Honest(sign)
  BY <1>2, <1>3 DEF Honest
<1> QED
  BY <1>2, <1>4 DEF sign

LEMMA HungFair ==
    ASSUME Inv, NEW pos, NEW sign \in Offer, Honest(sign)
    PROVE  /\ Hung(pos, sign) \in [DOMAIN Hung(pos, sign) -> Offer]
           /\ \A q \in DOMAIN Hung(pos, sign) : Honest(Hung(pos, sign)[q])
BY DEF Inv, TypeOK, FairSigns, Hung

\* The forms are told apart by their stage.
LEMMA FormStages ==
    ASSUME NEW f \in Form
    PROVE  /\ f.stage = "slider" => f \in [stage : {"slider"}, sign : Offer]
           /\ f.stage = "confirm" =>
                f \in [stage : {"confirm"}, item : Item, amount : Nat \ {0}, price : Nat,
                       cheap : BOOLEAN]
           /\ f.stage \notin {"slider", "confirm"} => f = NoForm
BY DEF Form, NoForm

-----------------------------------------------------------------------------
(* The invariant *)

LEMMA InitInv == Init => Inv
<1> SUFFICES ASSUME Init PROVE Inv
  OBVIOUS
<1> USE DEF Init
<1>1. \A p \in Player : held[p] = EmptyBag /\ DOMAIN held[p] = {} /\ IsABag(held[p])
  BY DEF EmptyBag, SetToBag, IsABag
<1>2. TypeOK
  <2>1. money \in [Player -> 0..MoneyMax] /\ deals \in 0..MaxDeals
    BY BoundsAssumption
  <2>2. shop \in [DOMAIN shop -> Offer]
    BY InputAssumption
  <2>3. form \in [Player -> Form]
    BY DEF Form
  <2> QED
    BY <1>1, <2>1, <2>2, <2>3 DEF TypeOK
<1>3. FiniteBags
  BY <1>1, FS_EmptySet DEF FiniteBags
<1>4. FairSigns
  BY PriceAssumption DEF FairSigns, Honest, Range
<1>5. FairForms
  BY DEF FairForms, NoForm
<1>6. NoProfit
  <2> SUFFICES ASSUME NEW p \in Player PROVE Worth(p) <= StartMoney + gained[p]
    BY DEF NoProfit
  <2>1. Value(held[p]) = 0
    BY <1>1, ValueIsSum, SumEmpty
  <2> QED
    BY <2>1, BoundsAssumption DEF Worth
<1> QED
  BY <1>2, <1>3, <1>4, <1>5, <1>6 DEF Inv

\* What each action that touches money and items does to a player's worth.
LEMMA WorthType ==
    ASSUME Inv, NEW p \in Player
    PROVE  /\ money[p] \in Nat /\ gained[p] \in Nat /\ Value(held[p]) \in Int
           /\ Worth(p) = money[p] + Value(held[p])
<1>1. /\ money[p] \in Nat /\ gained[p] \in Nat
      /\ IsABag(held[p]) /\ IsFiniteSet(DOMAIN held[p])
  BY BoundsAssumption DEF Inv, TypeOK, FiniteBags
<1> QED
  BY <1>1, ValueType DEF Worth

\* A trade of one player's that makes nobody richer, but for what is counted as
\* gained, keeps the invariant.
LEMMA TradeInv ==
    ASSUME Inv, NEW p \in Player, NEW m \in 0..MoneyMax, NEW bag, IsABag(bag),
           DOMAIN bag \subseteq Item, IsFiniteSet(DOMAIN bag),
           NEW gain \in Nat, m + Value(bag) <= Worth(p) + gain,
           gained' = [gained EXCEPT ![p] = @ + gain],
           money' = [money EXCEPT ![p] = m], held' = [held EXCEPT ![p] = bag],
           form' = form \/ form' = [form EXCEPT ![p] = NoForm],
           deals' \in 0..MaxDeals, UNCHANGED <<running, vip, shop>>
    PROVE  Inv'
<1>1. /\ money' \in [Player -> 0..MoneyMax] /\ money'[p] = m
      /\ held'[p] = bag /\ DOMAIN held' = Player
      /\ gained' \in [Player -> Nat] /\ gained'[p] = gained[p] + gain
      /\ \A q \in Player \ {p} : /\ money'[q] = money[q] /\ held'[q] = held[q]
                               /\ gained'[q] = gained[q]
  BY DEF Inv, TypeOK
<1>2. form' \in [Player -> Form] /\ \A q \in Player : form'[q] \in {form[q], NoForm}
  BY DEF Inv, TypeOK, Form
<1>3. TypeOK'
  BY <1>1, <1>2 DEF Inv, TypeOK
<1>4. FiniteBags'
  BY <1>1 DEF Inv, FiniteBags
<1>5. FairSigns'
  BY DEF Inv, FairSigns
<1>6. FairForms'
  BY <1>2 DEF Inv, FairForms, NoForm
<1>7. NoProfit'
  <2> SUFFICES ASSUME NEW q \in Player PROVE Worth(q)' <= StartMoney + gained'[q]
    BY DEF NoProfit
  <2>1. Worth(q) <= StartMoney + gained[q] /\ Worth(p) <= StartMoney + gained[p]
    BY DEF Inv, NoProfit
  <2>2. CASE q = p
    <3>1. Worth(q)' = m + Value(bag)
      BY <1>1, <2>2 DEF Worth
    <3>2. /\ m \in Int /\ Value(bag) \in Int /\ Worth(p) \in Int /\ StartMoney \in Int
          /\ gained[p] \in Int /\ gained'[q] = gained[p] + gain
      BY <1>1, <2>2, BoundsAssumption, WorthType, ValueType
    <3> QED
      BY <2>1, <3>1, <3>2
  <2>3. CASE q # p
    <3>1. Worth(q)' = Worth(q) /\ gained'[q] = gained[q]
      BY <1>1, <2>3 DEF Worth
    <3> QED
      BY <2>1, <3>1
  <2> QED
    BY <2>2, <2>3
<1> QED
  BY <1>3, <1>4, <1>5, <1>6, <1>7 DEF Inv

\* So does a step that touches neither.
LEMMA QuietInv ==
    ASSUME Inv, UNCHANGED <<money, held, gained, deals, vip>>, running' \in BOOLEAN,
           shop' \in [DOMAIN shop' -> Offer], form' \in [Player -> Form], FairSigns', FairForms'
    PROVE  Inv'
<1>1. TypeOK' /\ FiniteBags'
  BY DEF Inv, TypeOK, FiniteBags
<1>2. NoProfit'
  BY DEF Inv, NoProfit, Worth
<1> QED
  BY <1>1, <1>2 DEF Inv

LEMMA NextInv == Inv /\ [Next]_vars => Inv'
<1> SUFFICES ASSUME Inv, [Next]_vars PROVE Inv'
  OBVIOUS
<1>1. CASE UNCHANGED vars
  <2>1. FairSigns' /\ FairForms'
    BY <1>1 DEF Inv, FairSigns, FairForms, vars
  <2> QED
    BY <1>1, <2>1, QuietInv DEF Inv, TypeOK, vars
<1>2. ASSUME NEW pos \in Sites, HangTwin(pos) PROVE Inv'
  <2>1. shop[Below(pos)] \in Offer /\ Honest(shop[Below(pos)])
    BY <1>2 DEF HangTwin, Inv, TypeOK, FairSigns
  <2>2. shop' = Hung(pos, Doubled(shop[Below(pos)]))
    BY <1>2 DEF HangTwin
  <2>3. shop' \in [DOMAIN shop' -> Offer] /\ FairSigns'
    BY <2>1, <2>2, DoubledFair, HungFair DEF FairSigns
  <2>4. FairForms'
    BY <1>2 DEF HangTwin, Inv, FairForms
  <2> QED
    BY <1>2, <2>3, <2>4, QuietInv DEF HangTwin, Inv, TypeOK
<1>3. ASSUME NEW pos \in Sites, NEW offer \in Offers, HangShop(pos, offer) PROVE Inv'
  <2> DEFINE sign == [offer EXCEPT !.cheap = ~Fair(offer)]
  <2>1. sign \in Offer /\ Honest(sign)
    BY InputAssumption, WrittenHonest
  <2>2. shop' = Hung(pos, sign)
    BY <1>3 DEF HangShop
  <2> HIDE DEF sign
  <2>3. shop' \in [DOMAIN shop' -> Offer] /\ FairSigns'
    BY <2>1, <2>2, HungFair DEF FairSigns
  <2>4. FairForms'
    BY <1>3 DEF HangShop, Inv, FairForms
  <2> QED
    BY <1>3, <2>3, <2>4, QuietInv DEF HangShop, Inv, TypeOK
<1>4. ASSUME NEW pos \in Sites, BreakSign(pos) PROVE Inv'
  <2>1. shop' \in [DOMAIN shop' -> Offer] /\ FairSigns'
    BY <1>4 DEF BreakSign, Inv, TypeOK, FairSigns
  <2>2. FairForms'
    BY <1>4 DEF BreakSign, Inv, FairForms
  <2> QED
    BY <1>4, <2>1, <2>2, QuietInv DEF BreakSign, Inv, TypeOK
<1>5. ASSUME NEW p \in Player, NEW pos \in DOMAIN shop, Touch(p, pos) PROVE Inv'
  <2> DEFINE f == [stage |-> "slider", sign |-> shop[pos]]
  <2>1. f \in Form /\ Honest(f.sign)
    BY DEF Inv, TypeOK, FairSigns, Form
  <2>2. form' = [form EXCEPT ![p] = f]
    BY <1>5 DEF Touch
  <2>3. form' \in [Player -> Form] /\ FairForms'
    BY <2>1, <2>2 DEF Inv, TypeOK, FairForms
  <2>4. FairSigns'
    BY <1>5 DEF Touch, Inv, FairSigns
  <2> QED
    BY <1>5, <2>3, <2>4, QuietInv DEF Touch, Inv, TypeOK
<1>6. ASSUME NEW p \in Player, NEW times \in Sliders, AnswerSlider(p, times) PROVE Inv'
  <2> DEFINE sign == form[p].sign
             f == [stage |-> "confirm", item |-> sign.item,
                   amount |-> sign.amount * times, price |-> sign.price * times,
                   cheap |-> sign.cheap]
  <2>1. times \in Nat \ {0}
    BY InputAssumption
  <2>2. sign \in Offer /\ Honest(sign)
    BY <1>6, FormStages DEF AnswerSlider, Inv, TypeOK, FairForms
  <2>3. /\ sign.item \in Item /\ sign.amount \in Nat \ {0} /\ sign.price \in Nat
        /\ sign.cheap \in BOOLEAN
        /\ sign.cheap \/ sign.amount * Price(sign.item) <= sign.price
    BY <2>2 DEF Offer, Honest, Fair
  <2>4. sign.amount * times \in Nat \ {0} /\ sign.price * times \in Nat
    BY <2>1, <2>3
  <2>5. sign.cheap \/ (sign.amount * times) * Price(sign.item) <= sign.price * times
    BY <2>1, <2>3, PriceType, NoMoreThan
  <2>6. form' = [form EXCEPT ![p] = f]
    BY <1>6 DEF AnswerSlider
  <2>7. f \in Form /\ Honest(f) /\ f.stage = "confirm"
    BY <2>3, <2>4, <2>5 DEF Form, Honest, Fair
  <2> HIDE DEF f, sign
  <2>8. form' \in [Player -> Form] /\ FairForms'
    BY <2>6, <2>7 DEF Inv, TypeOK, FairForms
  <2>9. FairSigns'
    BY <1>6 DEF AnswerSlider, Inv, FairSigns
  <2> QED
    BY <1>6, <2>8, <2>9, QuietInv DEF AnswerSlider, Inv, TypeOK
<1>7. ASSUME NEW p \in Player, Confirm(p) PROVE Inv'
  <2> DEFINE f == form[p]
  <2>1. /\ f.item \in Item /\ f.amount \in Nat \ {0} /\ f.price \in Nat
        /\ f.cheap \in BOOLEAN
        /\ f.cheap \/ f.amount * Price(f.item) <= f.price
    BY <1>7, FormStages DEF Confirm, Inv, TypeOK, FairForms, Honest, Fair
  <2>2. CASE CanAdd(p, f.item, f.amount) /\ CanPay(p, f.price)
    <3> DEFINE m == money[p] - f.price
               bag == held[p] (+) StackOf(f.item, f.amount)
    <3>1. /\ money' = [money EXCEPT ![p] = m] /\ held' = [held EXCEPT ![p] = bag]
          /\ gained' = [gained EXCEPT ![p] = @ + Gain(f)]
          /\ form' = [form EXCEPT ![p] = NoForm]
          /\ deals' = deals + 1 /\ deals < MaxDeals /\ UNCHANGED <<running, vip, shop>>
      BY <1>7, <2>2 DEF Confirm
    <3>2. m \in 0..MoneyMax
      BY <2>1, <2>2, BoundsAssumption DEF CanPay, Inv, TypeOK
    <3>3. /\ IsABag(bag) /\ DOMAIN bag = DOMAIN held[p] \cup {f.item} /\ IsFiniteSet(DOMAIN bag)
          /\ Value(bag) = Value(held[p]) + f.amount * Price(f.item)
      <4>1. IsABag(held[p]) /\ IsFiniteSet(DOMAIN held[p])
        BY DEF Inv, TypeOK, FiniteBags
      <4> HIDE DEF f
      <4> QED
        BY <4>1, <2>1, ValueAdded
    <3>4. Gain(f) \in Nat /\ m + Value(bag) <= Worth(p) + Gain(f)
      <4>1. f.amount * Price(f.item) \in Int
        BY <2>1, PriceType
      <4> HIDE DEF f, bag
      <4>2. Gain(f) \in Nat /\ f.amount * Price(f.item) <= f.price + Gain(f)
        BY <4>1, <2>1 DEF Gain, Fair
      <4> QED
        BY <4>1, <4>2, <2>1, <3>3, WorthType
    <3>5. DOMAIN bag \subseteq Item
      BY <2>1, <3>3 DEF Inv, TypeOK
    <3>6. deals' \in 0..MaxDeals
      BY <3>1, BoundsAssumption DEF Inv, TypeOK
    <3> HIDE DEF m, bag
    <3> QED
      BY <3>1, <3>2, <3>3, <3>4, <3>5, <3>6, TradeInv
  <2>3. CASE ~(CanAdd(p, f.item, f.amount) /\ CanPay(p, f.price))
    <3>1. /\ form' = [form EXCEPT ![p] = NoForm]
          /\ UNCHANGED <<money, held, gained, deals, running, vip, shop>>
      BY <1>7, <2>3 DEF Confirm
    <3>2. form' \in [Player -> Form] /\ FairForms' /\ FairSigns'
      BY <3>1 DEF Inv, TypeOK, Form, FairForms, FairSigns, NoForm
    <3> QED
      BY <3>1, <3>2, QuietInv DEF Inv, TypeOK
  <2> QED
    BY <2>2, <2>3
<1>8. ASSUME NEW p \in Player, CloseForm(p) PROVE Inv'
  <2>1. form' \in [Player -> Form] /\ FairForms' /\ FairSigns'
    BY <1>8 DEF CloseForm, Inv, TypeOK, Form, FairForms, FairSigns, NoForm
  <2> QED
    BY <1>8, <2>1, QuietInv DEF CloseForm, Inv, TypeOK
<1>9. ASSUME NEW p \in Player, NEW item \in DOMAIN held[p], SellHand(p, item) PROVE Inv'
  <2> DEFINE n == Min({held[p][item], StackSize})
             pay == Market[item] * n
             m == IF money[p] + pay > MoneyMax THEN money[p] ELSE money[p] + pay
             bag == Without(held[p], item, n)
  <2>1. /\ money' = [money EXCEPT ![p] = m] /\ held' = [held EXCEPT ![p] = bag]
        /\ gained' = [gained EXCEPT ![p] = @ + 0]
        /\ UNCHANGED <<running, vip, shop, form, deals>> /\ item \in DOMAIN Market
    BY <1>9 DEF SellHand, Paid, Inv, TypeOK
  <2>2. IsABag(held[p]) /\ IsFiniteSet(DOMAIN held[p]) /\ DOMAIN held[p] \subseteq Item
    BY DEF Inv, TypeOK, FiniteBags
  <2>3. n \in 1..held[p][item]
    <3>1. held[p][item] \in Nat \ {0} /\ StackSize \in Nat \ {0}
      BY <2>2, BoundsAssumption DEF IsABag
    <3>2. n \in {held[p][item], StackSize} /\ n <= held[p][item]
      BY <3>1 DEF Min
    <3> QED
      BY <3>1, <3>2
  <2>4. pay = n * Price(item) /\ pay \in Nat
    <3>1. Market[item] = Price(item) /\ n \in Nat
      BY <2>1, <2>2, <2>3 DEF Price, IsABag
    <3> HIDE DEF n
    <3> QED
      BY <3>1, PriceType
  <2>5. /\ IsABag(bag) /\ DOMAIN bag \subseteq DOMAIN held[p] /\ IsFiniteSet(DOMAIN bag)
        /\ Value(bag) = Value(held[p]) - n * Price(item)
    <3> HIDE DEF n
    <3> QED
      BY <2>2, <2>3, ValueWithout
  <2>6. money[p] \in 0..MoneyMax
    BY DEF Inv, TypeOK
  <2> HIDE DEF n, pay, bag
  <2>7. m \in 0..MoneyMax /\ m <= money[p] + pay
    BY <2>4, <2>6, BoundsAssumption
  <2>8. m + Value(bag) <= Worth(p) + 0
    BY <2>4, <2>5, <2>6, <2>7, WorthType
  <2>9. DOMAIN bag \subseteq Item /\ deals' \in 0..MaxDeals
    BY <2>1, <2>2, <2>5 DEF Inv, TypeOK
  <2> HIDE DEF m
  <2> QED
    BY <2>1, <2>5, <2>7, <2>8, <2>9, TradeInv
<1>10. ASSUME NEW p \in Player, NEW list \in Lists, SellAll(p, list) PROVE Inv'
  <2> DEFINE sold == ToSell(p, list)
             pay == SumFunction([item \in sold |-> held[p][item] * Market[item]])
             m == IF money[p] + pay > MoneyMax THEN money[p] ELSE money[p] + pay
             bag == [item \in DOMAIN held[p] \ sold |-> held[p][item]]
  <2>1. /\ money' = [money EXCEPT ![p] = m] /\ held' = [held EXCEPT ![p] = bag]
        /\ gained' = [gained EXCEPT ![p] = @ + 0]
        /\ UNCHANGED <<running, vip, shop, form, deals>>
    BY <1>10 DEF SellAll, Paid, Inv, TypeOK
  <2>2. IsABag(held[p]) /\ IsFiniteSet(DOMAIN held[p]) /\ DOMAIN held[p] \subseteq Item
    BY DEF Inv, TypeOK, FiniteBags
  <2>3. sold \subseteq DOMAIN held[p] \cap DOMAIN Market
    BY DEF ToSell
  <2>4. DOMAIN bag = DOMAIN held[p] \ sold
    OBVIOUS
  <2>5. IsABag(bag) /\ IsFiniteSet(DOMAIN bag) /\ pay \in Int /\ Value(bag) = Value(held[p]) - pay
    <3> HIDE DEF sold
    <3> QED
      BY <2>2, <2>3, ValueRest
  <2>6. pay \in Nat
    <3>1. IsFiniteSet(sold)
      BY <2>2, <2>3, FS_Subset
    <3> DEFINE paid == [item \in sold |-> held[p][item] * Market[item]]
    <3>2. \A item \in sold : paid[item] \in Nat
      <4> SUFFICES ASSUME NEW item \in sold PROVE held[p][item] * Market[item] \in Nat
        OBVIOUS
      <4>1. held[p][item] \in Nat /\ Market[item] \in Nat
        BY <2>2, <2>3, PriceType DEF IsABag, Price
      <4> QED
        BY <4>1
    <3>3. DOMAIN paid = sold
      OBVIOUS
    <3> HIDE DEF paid, sold
    <3>4. SumFunction(paid) >= 0
      BY <3>1, <3>2, <3>3, SumNonNegative DEF SumFunction
    <3> QED
      BY <2>5, <3>4 DEF paid
  <2>7. money[p] \in 0..MoneyMax
    BY DEF Inv, TypeOK
  <2> HIDE DEF sold, pay, bag
  <2>8. m \in 0..MoneyMax /\ m <= money[p] + pay
    BY <2>6, <2>7, BoundsAssumption
  <2>9. m + Value(bag) <= Worth(p) + 0
    BY <2>5, <2>6, <2>7, <2>8, WorthType
  <2>10. DOMAIN bag \subseteq Item /\ deals' \in 0..MaxDeals
    BY <2>1, <2>2, <2>4 DEF Inv, TypeOK
  <2> HIDE DEF m
  <2> QED
    BY <2>1, <2>5, <2>8, <2>9, <2>10, TradeInv
<1>11. CASE Stop
  <2>1. form' \in [Player -> Form] /\ FairForms' /\ FairSigns'
    BY <1>11 DEF Stop, Inv, Form, FairForms, FairSigns, NoForm
  <2> QED
    BY <1>11, <2>1, QuietInv DEF Stop, Inv, TypeOK
<1>12. CASE Start
  <2>1. FairForms' /\ FairSigns'
    BY <1>12 DEF Start, Inv, FairForms, FairSigns
  <2> QED
    BY <1>12, <2>1, QuietInv DEF Start, Inv, TypeOK
<1> QED
  BY <1>1, <1>2, <1>3, <1>4, <1>5, <1>6, <1>7, <1>8, <1>9, <1>10, <1>11, <1>12 DEF Next

-----------------------------------------------------------------------------
(* The theorems *)

\* TypeOK: money stays between 0 and MoneyMax, whatever is bought and sold, signs and
\* forms hold offers only, and inventories are bags of what is on sale.
THEOREM TypeCorrect == Spec => []TypeOK
<1>1. Inv => TypeOK
  BY DEF Inv
<1> QED
  BY <1>1, InitInv, NextInv, PTL DEF Spec

\* NoProfit: no player is ever worth more than the money he started with and what he
\* gained at signs an operator hung too cheap, for every catalogue and price list
\* that PriceAssumption holds of, and whatever operators write on their signs.
THEOREM NobodyProfits == Spec => []NoProfit
<1>1. Inv => NoProfit
  BY DEF Inv
<1> QED
  BY <1>1, InitInv, NextInv, PTL DEF Spec

=============================================================================
