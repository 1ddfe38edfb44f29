----------------------------- MODULE TradeProofs -----------------------------
(***************************************************************************)
(* The invariants of Trade, for any number of players, items and slots.      *)
(***************************************************************************)
EXTENDS Trade, TLAPS, FiniteSetTheorems

Inv == TypeOK /\ NothingDuplicated /\ TraderOffersToHisClient

\* The part of TypeOK about the list of trades and the offers.
ListOK ==
    /\ DOMAIN trades \subseteq Player
    /\ \A t \in DOMAIN trades : trades[t] \in Player \ {t}
    /\ older \subseteq Player \X Player
    /\ DOMAIN traderItems \subseteq Player /\ DOMAIN clientItems \subseteq Player
    /\ \A t \in DOMAIN traderItems : traderItems[t] \subseteq Item
    /\ \A t \in DOMAIN clientItems : clientItems[t] \subseteq Item

\* The part about players and their items.
ItemsOK ==
    /\ sent \in [Player -> Chests]
    /\ menu \in [Player -> Menus]
    /\ inv \in [Player -> SUBSET Item]
    /\ \A p \in Player : Cardinality(inv[p]) <= Room[p]
    /\ ground \subseteq Item
    /\ online \subseteq Player
    /\ \A p \in Player : menu[p] # Closed \/ sent[p] # Closed => p \in online
    /\ \A p \in Player : menu[p] = Closed \/ sent[p] = Closed

LEMMA TypeParts == TypeOK <=> ListOK /\ ItemsOK
BY DEF TypeOK, ListOK, ItemsOK

\* A set of items with one more, or fewer, counts what it should.
LEMMA Counting ==
    ASSUME NEW S \in SUBSET Item
    PROVE  /\ IsFiniteSet(S) /\ Cardinality(S) \in Nat
           /\ \A T \in SUBSET S : Cardinality(T) <= Cardinality(S)
           /\ \A i \in Item : Cardinality(S \cup {i}) <= Cardinality(S) + 1
<1>1. IsFiniteSet(S)
  BY FS_Subset, TradeAssumption DEF TradeAssumption
<1>2. Cardinality(S) \in Nat
  BY <1>1, FS_CardinalityType
<1>3. \A T \in SUBSET S : Cardinality(T) <= Cardinality(S)
  BY <1>1, FS_Subset
<1>4. \A i \in Item : Cardinality(S \cup {i}) <= Cardinality(S) + 1
  <2> SUFFICES ASSUME NEW i \in Item
               PROVE  Cardinality(S \cup {i}) <= Cardinality(S) + 1
    OBVIOUS
  <2>1. Cardinality(S \cup {i}) = IF i \in S THEN Cardinality(S) ELSE Cardinality(S) + 1
    BY <1>1, FS_AddElement
  <2> QED
    BY <2>1, <1>2
<1> QED
  BY <1>1, <1>2, <1>3, <1>4

\* A trader's offer stays for his client as long as trades keep their clients and chests
\* are for those they were sent for.
LEMMA OffersKept ==
    ASSUME ListOK', TraderOffersToHisClient, DOMAIN traderItems' \subseteq DOMAIN trades',
           \A u \in DOMAIN trades' : u \in DOMAIN trades /\ trades'[u] = trades[u],
           \A u \in Player : menu'[u].kind = "trader" =>
               \/ menu[u].kind = "trader" /\ menu'[u].with = menu[u].with
               \/ sent[u].kind = "trader" /\ menu'[u].with = sent[u].with,
           \A u \in Player : sent'[u].kind = "trader" =>
               sent[u].kind = "trader" /\ sent'[u].with = sent[u].with
    PROVE  TraderOffersToHisClient'
<1>1. \A u \in DOMAIN trades' : u \in Player
  BY DEF ListOK
<1> QED
  BY <1>1 DEF TraderOffersToHisClient

\* FinishTrade leaves a list of trades, with the clients they had.
LEMMA FinishTradeKeepsList ==
    ASSUME ListOK, DOMAIN traderItems \subseteq DOMAIN trades, NEW t \in Player, FinishTrade(t)
    PROVE  /\ ListOK' /\ DOMAIN traderItems' \subseteq DOMAIN trades'
           /\ \A u \in DOMAIN trades' : u \in DOMAIN trades /\ trades'[u] = trades[u]
<1>1. CASE t \in Lower
  <2>1. /\ trades' = Without(trades, t) /\ traderItems' = Without(traderItems, t)
        /\ clientItems' = Without(clientItems, t)
        /\ older' \subseteq older
    BY <1>1 DEF FinishTrade, Remove
  <2> QED
    BY <2>1, <1>1 DEF ListOK, Without
<1>2. CASE t \notin Lower
  BY <1>2 DEF ListOK, FinishTrade
<1> QED
  BY <1>1, <1>2

\* What the listener of a chest leaves: the list, with the offer of a trade under way.
LEMMA ListedKeepsList ==
    ASSUME Inv, NEW p \in Player, menu[p] # Closed, Listed(p),
           menu' = [menu EXCEPT ![p] = Closed],
           sent' \in {sent, [sent EXCEPT ![p] = Closed]}
    PROVE  ListOK' /\ TraderOffersToHisClient'
<1> DEFINE t == IF menu[p].kind = "trader" THEN p ELSE menu[p].with
           offered == menu[p].items
<1>1. /\ t \in Player /\ offered \subseteq Item
      /\ menu \in [Player -> Menus] /\ sent \in [Player -> Chests]
  <2>1. menu \in [Player -> Menus] /\ sent \in [Player -> Chests] /\ menu[p] # Closed
    BY TypeParts DEF Inv, ItemsOK
  <2>2. menu[p] \in [kind : {"trader", "client"}, with : Player, items : SUBSET Item]
    BY <2>1 DEF Menus
  <2> QED
    BY <2>1, <2>2
<1>2. /\ \A u \in Player : menu'[u].kind = "trader" =>
             menu[u].kind = "trader" /\ menu'[u].with = menu[u].with
      /\ \A u \in Player : sent'[u].kind = "trader" =>
             sent[u].kind = "trader" /\ sent'[u].with = sent[u].with
  BY <1>1 DEF Closed
<1>3. ListOK /\ TraderOffersToHisClient /\ DOMAIN traderItems \subseteq DOMAIN trades
  BY TypeParts DEF Inv, TraderOffersToHisClient
<1>4. \/ FinishTrade(t)
      \/ /\ t \in DOMAIN trades
         /\ traderItems' = With(traderItems, t, offered)
         /\ UNCHANGED <<trades, older, clientItems>>
      \/ /\ t \in DOMAIN trades
         /\ clientItems' = With(clientItems, t, offered)
         /\ UNCHANGED <<trades, older, traderItems>>
      \/ UNCHANGED <<trades, older, traderItems, clientItems>>
  BY DEF Listed
<1> HIDE DEF t, offered
<1>5. /\ ListOK' /\ DOMAIN traderItems' \subseteq DOMAIN trades'
      /\ \A u \in DOMAIN trades' : u \in DOMAIN trades /\ trades'[u] = trades[u]
  <2>1. CASE FinishTrade(t)
    BY <2>1, <1>1, <1>3, FinishTradeKeepsList
  <2>2. CASE /\ t \in DOMAIN trades
             /\ traderItems' = With(traderItems, t, offered)
             /\ UNCHANGED <<trades, older, clientItems>>
    <3>1. /\ DOMAIN traderItems' = DOMAIN traderItems \cup {t}
          /\ \A u \in DOMAIN traderItems' : traderItems'[u] = IF u = t THEN offered ELSE traderItems[u]
      BY <2>2 DEF With
    <3> QED
      BY <3>1, <2>2, <1>1, <1>3 DEF ListOK
  <2>3. CASE /\ t \in DOMAIN trades
             /\ clientItems' = With(clientItems, t, offered)
             /\ UNCHANGED <<trades, older, traderItems>>
    <3>1. /\ DOMAIN clientItems' = DOMAIN clientItems \cup {t}
          /\ \A u \in DOMAIN clientItems' : clientItems'[u] = IF u = t THEN offered ELSE clientItems[u]
      BY <2>3 DEF With
    <3> QED
      BY <3>1, <2>3, <1>1, <1>3 DEF ListOK
  <2>4. CASE UNCHANGED <<trades, older, traderItems, clientItems>>
    BY <2>4, <1>3 DEF ListOK
  <2> QED
    BY <1>4, <2>1, <2>2, <2>3, <2>4
<1>6. TraderOffersToHisClient'
  BY <1>2, <1>3, <1>5, OffersKept
<1> QED
  BY <1>5, <1>6

\* Giving back keeps every item in one place at most, and within the room there is.
LEMMA GiveBackKeepsItems ==
    ASSUME Inv, NEW p \in Player, menu[p] # Closed, GiveBack(p),
           menu' = [menu EXCEPT ![p] = Closed], ground' = ground,
           \/ sent' = sent /\ online' = online
           \/ sent' = [sent EXCEPT ![p] = Closed] /\ online' = online \ {p}
    PROVE  ItemsOK' /\ NothingDuplicated'
<1>1. ItemsOK /\ NothingDuplicated
  BY TypeParts DEF Inv
<1>2. PICK back \in SUBSET menu[p].items :
         /\ Cardinality(inv[p] \cup back) <= Room[p]
         /\ inv' = [inv EXCEPT ![p] = @ \cup back]
  BY DEF GiveBack
<1>3. menu[p] \in [kind : {"trader", "client"}, with : Player, items : SUBSET Item]
  BY <1>1 DEF ItemsOK, Menus
<1>4. /\ Inside(p) = menu[p].items /\ back \subseteq Inside(p) /\ back \subseteq Item
  BY <1>2, <1>3 DEF Inside
<1>5. /\ inv'[p] = inv[p] \cup back
      /\ \A q \in Player \ {p} : inv'[q] = inv[q] /\ menu'[q] = menu[q]
      /\ menu'[p] = Closed /\ Closed \in Menus
      /\ inv' \in [Player -> SUBSET Item] /\ menu' \in [Player -> Menus]
  BY <1>1, <1>2, <1>4 DEF ItemsOK, Menus
<1>6. ItemsOK'
  <2>1. sent' \in [Player -> Chests] /\ \A q \in Player \ {p} : sent'[q] = sent[q]
    BY <1>1 DEF ItemsOK, Chests
  <2> QED
    BY <1>1, <1>2, <1>5, <2>1 DEF ItemsOK
<1>7. Inside(p)' = {} /\ \A q \in Player \ {p} : Inside(q)' = Inside(q)
  BY <1>5 DEF Inside
<1>8. NothingDuplicated'
  BY <1>1, <1>4, <1>5, <1>7 DEF NothingDuplicated
<1> QED
  BY <1>6, <1>8

\* Nothing in the list of trades changes, and chests are for those they were for.
LEMMA SameList ==
    ASSUME Inv, UNCHANGED <<trades, older, traderItems, clientItems>>,
           \A u \in Player : menu'[u].kind = "trader" =>
               \/ menu[u].kind = "trader" /\ menu'[u].with = menu[u].with
               \/ sent[u].kind = "trader" /\ menu'[u].with = sent[u].with,
           \A u \in Player : sent'[u].kind = "trader" =>
               sent[u].kind = "trader" /\ sent'[u].with = sent[u].with
    PROVE  ListOK' /\ TraderOffersToHisClient'
<1>1. ListOK'
  BY TypeParts DEF Inv, ListOK
<1>2. DOMAIN traderItems' \subseteq DOMAIN trades'
  BY DEF Inv, TraderOffersToHisClient
<1>3. TraderOffersToHisClient'
  BY <1>1, <1>2, OffersKept DEF Inv
<1> QED
  BY <1>1, <1>3

\* No item moves and no chest changes.
LEMMA SameItems ==
    ASSUME Inv, UNCHANGED <<sent, menu, inv, ground, online>>
    PROVE  ItemsOK' /\ NothingDuplicated'
<1>1. ItemsOK /\ NothingDuplicated
  BY TypeParts DEF Inv
<1>2. ItemsOK'
  BY <1>1 DEF ItemsOK
<1>3. NothingDuplicated'
  BY <1>1 DEF NothingDuplicated, Inside
<1> QED
  BY <1>2, <1>3

-----------------------------------------------------------------------------

LEMMA InitInv == Init => Inv
<1> SUFFICES ASSUME Init PROVE Inv
  OBVIOUS
<1>1. ListOK
  BY DEF Init, ListOK
<1>2. ItemsOK
  BY TradeAssumption DEF Init, ItemsOK, Menus, Chests, TradeAssumption
<1>3. NothingDuplicated
  BY TradeAssumption DEF Init, NothingDuplicated, Inside, TradeAssumption
<1>4. TraderOffersToHisClient
  BY DEF Init, TraderOffersToHisClient, Closed
<1> QED
  BY <1>1, <1>2, <1>3, <1>4, TypeParts DEF Inv

\* Players moving items between inventory, chest and ground.
LEMMA MoveInv ==
    ASSUME Inv, NEW p \in Player, NEW i \in Item,
           PutIn(p, i) \/ TakeOut(p, i) \/ Drop(p, i) \/ PickUp(p, i)
    PROVE  Inv'
<1>1. ItemsOK /\ NothingDuplicated
  BY TypeParts DEF Inv
<1>2. /\ Cardinality(inv[p]) \in Nat /\ Room[p] \in Nat
      /\ Cardinality(inv[p] \ {i}) <= Cardinality(inv[p])
      /\ Cardinality(inv[p] \cup {i}) <= Cardinality(inv[p]) + 1
      /\ Cardinality(inv[p] \ {i}) \in Nat /\ Cardinality(inv[p] \cup {i}) \in Nat
  <2>1. inv[p] \in SUBSET Item /\ inv[p] \ {i} \in SUBSET Item /\ inv[p] \cup {i} \in SUBSET Item
    BY <1>1 DEF ItemsOK
  <2> QED
    BY <2>1, Counting, TradeAssumption DEF TradeAssumption
<1>3. menu[p] # Closed => menu[p] \in [kind : {"trader", "client"}, with : Player, items : SUBSET Item]
  BY <1>1 DEF ItemsOK, Menus
<1>4. UNCHANGED <<trades, older, traderItems, clientItems, sent, online>>
  BY DEF PutIn, TakeOut, Drop, PickUp
<1>5. CASE PutIn(p, i)
  <2>1. /\ inv' = [inv EXCEPT ![p] = @ \ {i}]
        /\ menu' = [menu EXCEPT ![p].items = @ \cup {i}]
        /\ menu[p] # Closed /\ i \in inv[p] /\ ground' = ground
    BY <1>5 DEF PutIn
  <2>2. menu'[p] = [kind |-> menu[p].kind, with |-> menu[p].with, items |-> menu[p].items \cup {i}]
    BY <2>1, <1>1, <1>3 DEF ItemsOK
  <2>3. /\ inv'[p] = inv[p] \ {i}
        /\ \A q \in Player \ {p} : inv'[q] = inv[q] /\ menu'[q] = menu[q]
        /\ menu'[p] # Closed /\ menu'[p].kind = menu[p].kind /\ menu'[p].with = menu[p].with
        /\ Inside(p) = menu[p].items /\ Inside(p)' = Inside(p) \cup {i}
        /\ menu'[p] \in Menus
    BY <2>1, <2>2, <1>1, <1>3 DEF ItemsOK, Inside, Closed, Menus
  <2>4. \A q \in Player \ {p} : Inside(q)' = Inside(q)
    BY <2>3 DEF Inside
  <2>5. inv' \in [Player -> SUBSET Item] /\ menu' \in [Player -> Menus]
    BY <2>1, <2>3, <1>1 DEF ItemsOK
  <2>6. ItemsOK'
    BY <2>1, <2>3, <2>5, <1>1, <1>2, <1>4 DEF ItemsOK
  <2>7. NothingDuplicated'
    BY <2>1, <2>3, <2>4, <1>1 DEF NothingDuplicated
  <2>8. ListOK' /\ TraderOffersToHisClient'
    BY <2>3, <1>4, SameList
  <2> QED
    BY <2>6, <2>7, <2>8, TypeParts, PTL DEF Inv
<1>6. CASE TakeOut(p, i)
  <2>1. /\ inv' = [inv EXCEPT ![p] = @ \cup {i}]
        /\ menu' = [menu EXCEPT ![p].items = @ \ {i}]
        /\ menu[p] # Closed /\ i \in Inside(p) /\ ground' = ground
        /\ Cardinality(inv[p]) < Room[p]
    BY <1>6 DEF TakeOut, Inside, Free
  <2>2. menu'[p] = [kind |-> menu[p].kind, with |-> menu[p].with, items |-> menu[p].items \ {i}]
    BY <2>1, <1>1, <1>3 DEF ItemsOK
  <2>3. /\ inv'[p] = inv[p] \cup {i}
        /\ \A q \in Player \ {p} : inv'[q] = inv[q] /\ menu'[q] = menu[q]
        /\ menu'[p] # Closed /\ menu'[p].kind = menu[p].kind /\ menu'[p].with = menu[p].with
        /\ Inside(p) = menu[p].items /\ Inside(p)' = Inside(p) \ {i}
        /\ menu'[p] \in Menus
    BY <2>1, <2>2, <1>1, <1>3 DEF ItemsOK, Inside, Closed, Menus
  <2>4. \A q \in Player \ {p} : Inside(q)' = Inside(q)
    BY <2>3 DEF Inside
  <2>5. inv' \in [Player -> SUBSET Item] /\ menu' \in [Player -> Menus]
    BY <2>1, <2>3, <1>1 DEF ItemsOK
  <2>6. ItemsOK'
    BY <2>1, <2>3, <2>5, <1>1, <1>2, <1>4 DEF ItemsOK
  <2>7. NothingDuplicated'
    BY <2>1, <2>3, <2>4, <1>1 DEF NothingDuplicated
  <2>8. ListOK' /\ TraderOffersToHisClient'
    BY <2>3, <1>4, SameList
  <2> QED
    BY <2>6, <2>7, <2>8, TypeParts, PTL DEF Inv
<1>7. CASE Drop(p, i) \/ PickUp(p, i)
  <2>1. /\ menu' = menu
        /\ \/ inv' = [inv EXCEPT ![p] = @ \ {i}] /\ ground' = ground \cup {i} /\ i \in inv[p]
           \/ /\ inv' = [inv EXCEPT ![p] = @ \cup {i}] /\ ground' = ground \ {i} /\ i \in ground
              /\ Cardinality(inv[p]) < Room[p]
    BY <1>7 DEF Drop, PickUp, Free
  <2>2. /\ inv' \in [Player -> SUBSET Item] /\ ground' \subseteq Item
        /\ \A q \in Player \ {p} : inv'[q] = inv[q]
        /\ \/ inv'[p] = inv[p] \ {i} /\ ground' = ground \cup {i} /\ i \in inv[p]
           \/ /\ inv'[p] = inv[p] \cup {i} /\ ground' = ground \ {i} /\ i \in ground
              /\ Cardinality(inv[p]) < Room[p]
    BY <2>1, <1>1 DEF ItemsOK
  <2>3. Cardinality(inv'[p]) <= Room[p]
    <3>1. Cardinality(inv[p]) <= Room[p]
      BY <1>1 DEF ItemsOK
    <3>2. CASE inv'[p] = inv[p] \ {i}
      BY <3>1, <3>2, <1>2
    <3>3. CASE inv'[p] = inv[p] \cup {i} /\ Cardinality(inv[p]) < Room[p]
      BY <3>3, <1>2
    <3> QED
      BY <2>2, <3>2, <3>3
  <2>4. ItemsOK'
    BY <2>1, <2>2, <2>3, <1>1, <1>4 DEF ItemsOK
  <2>5. \A q \in Player : Inside(q)' = Inside(q)
    BY <2>1 DEF Inside
  <2>6. NothingDuplicated'
    BY <2>2, <2>5, <1>1 DEF NothingDuplicated
  <2>7. ListOK' /\ TraderOffersToHisClient'
    BY <2>1, <1>4, SameList
  <2> QED
    BY <2>4, <2>6, <2>7, TypeParts, PTL DEF Inv
<1> QED
  BY <1>5, <1>6, <1>7

\* A new trade, and a chest on its way to its trader.
LEMMA RequestInv ==
    ASSUME Inv, NEW p \in Player, NEW q \in Player, Request(p, q)
    PROVE  Inv'
<1>1. ListOK /\ ItemsOK /\ NothingDuplicated /\ TraderOffersToHisClient
  BY TypeParts DEF Inv
<1>2. /\ p # q /\ p \in online /\ menu[p] = Closed
      /\ trades' = With(trades, p, q)
      /\ older' = older \cup {<<t, p>> : t \in DOMAIN trades}
      /\ sent' = [sent EXCEPT ![p] = [kind |-> "trader", with |-> q]]
      /\ UNCHANGED <<traderItems, clientItems, menu, inv, ground, online>>
  BY DEF Request, CanCommand, Send
<1>3. /\ DOMAIN trades' = DOMAIN trades \cup {p}
      /\ \A t \in DOMAIN trades' : trades'[t] = IF t = p THEN q ELSE trades[t]
  BY <1>2 DEF With
<1>4. /\ sent'[p] = [kind |-> "trader", with |-> q]
      /\ \A u \in Player \ {p} : sent'[u] = sent[u]
      /\ sent' \in [Player -> Chests]
  BY <1>1, <1>2 DEF ItemsOK, Chests
<1>5. ListOK'
  <2>1. older' \subseteq Player \X Player
    BY <1>1, <1>2 DEF ListOK
  <2> QED
    BY <2>1, <1>1, <1>2, <1>3 DEF ListOK
<1>6. ItemsOK'
  BY <1>1, <1>2, <1>4 DEF ItemsOK
<1>7. NothingDuplicated'
  BY <1>1, <1>2 DEF NothingDuplicated, Inside
<1>8. TraderOffersToHisClient'
  <2>1. DOMAIN traderItems' \subseteq DOMAIN trades'
    BY <1>1, <1>2, <1>3 DEF TraderOffersToHisClient
  <2>2. ASSUME NEW t \in DOMAIN trades'
        PROVE  /\ menu'[t].kind = "trader" => menu'[t].with = trades'[t]
               /\ sent'[t].kind = "trader" => sent'[t].with = trades'[t]
    <3>1. CASE t = p
      BY <3>1, <1>2, <1>3, <1>4 DEF Closed
    <3>2. CASE t # p
      <4>1. t \in DOMAIN trades /\ t \in Player /\ trades'[t] = trades[t]
        BY <3>2, <1>1, <1>3 DEF ListOK
      <4> QED
        BY <4>1, <3>2, <1>1, <1>2, <1>4 DEF TraderOffersToHisClient
    <3> QED
      BY <3>1, <3>2
  <2> QED
    BY <2>1, <2>2 DEF TraderOffersToHisClient
<1> QED
  BY <1>5, <1>6, <1>7, <1>8, TypeParts, PTL DEF Inv

\* A chest on its way to a client, one that opens, or one that fails to.
LEMMA ChestInv ==
    ASSUME Inv, NEW p \in Player, NEW t \in Player, Offer(p, t) \/ Opens(p) \/ Fails(p)
    PROVE  Inv'
<1>1. ListOK /\ ItemsOK /\ NothingDuplicated /\ TraderOffersToHisClient
  BY TypeParts DEF Inv
<1>2. UNCHANGED <<trades, older, traderItems, clientItems, inv, ground, online>>
  BY DEF Offer, Opens, Fails
<1>3. \/ /\ p \in online /\ menu[p] = Closed /\ menu' = menu
         /\ sent' = [sent EXCEPT ![p] = [kind |-> "client", with |-> t]]
      \/ /\ sent[p] # Closed /\ sent' = [sent EXCEPT ![p] = Closed]
         /\ \/ menu' = [menu EXCEPT ![p] = [kind |-> sent[p].kind, with |-> sent[p].with, items |-> {}]]
            \/ menu' = menu
  BY DEF Offer, Opens, Fails, Send, CanCommand
<1>4. /\ sent \in [Player -> Chests] /\ menu \in [Player -> Menus]
      /\ \A u \in Player : menu[u] # Closed \/ sent[u] # Closed => u \in online
      /\ \A u \in Player : menu[u] = Closed \/ sent[u] = Closed
  BY <1>1 DEF ItemsOK
<1>5. sent[p] # Closed => sent[p] \in [kind : {"trader", "client"}, with : Player]
  BY <1>4 DEF Chests
<1>6. /\ \A u \in Player \ {p} : menu'[u] = menu[u] /\ sent'[u] = sent[u]
      /\ \/ /\ p \in online /\ menu[p] = Closed /\ menu'[p] = Closed
            /\ sent'[p] = [kind |-> "client", with |-> t]
         \/ /\ sent[p] # Closed /\ sent'[p] = Closed
            /\ \/ menu'[p] = [kind |-> sent[p].kind, with |-> sent[p].with, items |-> {}]
               \/ menu'[p] = menu[p]
  BY <1>3, <1>4
<1>7. sent' \in [Player -> Chests] /\ menu' \in [Player -> Menus]
  BY <1>3, <1>4, <1>5 DEF Chests, Menus
<1>8. ItemsOK'
  BY <1>1, <1>2, <1>4, <1>6, <1>7 DEF ItemsOK
<1>9. \A u \in Player : Inside(u)' = Inside(u)
  <2>1. Inside(p)' = Inside(p)
    BY <1>4, <1>6 DEF Inside
  <2> QED
    BY <2>1, <1>6 DEF Inside
<1>10. NothingDuplicated'
  BY <1>1, <1>2, <1>9 DEF NothingDuplicated
<1>11. /\ \A u \in Player : menu'[u].kind = "trader" =>
             \/ menu[u].kind = "trader" /\ menu'[u].with = menu[u].with
             \/ sent[u].kind = "trader" /\ menu'[u].with = sent[u].with
       /\ \A u \in Player : sent'[u].kind = "trader" =>
             sent[u].kind = "trader" /\ sent'[u].with = sent[u].with
  BY <1>6 DEF Closed
<1>12. ListOK' /\ TraderOffersToHisClient'
  BY <1>2, <1>11, SameList
<1> QED
  BY <1>8, <1>10, <1>12, TypeParts, PTL DEF Inv

LEMMA CloseInv ==
    ASSUME Inv, NEW p \in Player, Close(p)
    PROVE  Inv'
<1>1. /\ menu[p] # Closed /\ GiveBack(p) /\ Listed(p)
      /\ menu' = [menu EXCEPT ![p] = Closed]
      /\ sent' = sent /\ ground' = ground /\ online' = online
  BY DEF Close
<1>2. ItemsOK' /\ NothingDuplicated'
  BY <1>1, GiveBackKeepsItems
<1>3. ListOK' /\ TraderOffersToHisClient'
  BY <1>1, ListedKeepsList
<1> QED
  BY <1>2, <1>3, TypeParts, PTL DEF Inv

\* Who quits closes the chest he has open.
LEMMA QuitInv ==
    ASSUME Inv, NEW p \in Player, Quit(p)
    PROVE  Inv'
<1>1. CASE menu[p] # Closed
  <2>1. /\ GiveBack(p) /\ Listed(p)
        /\ menu' = [menu EXCEPT ![p] = Closed]
        /\ sent' = [sent EXCEPT ![p] = Closed]
        /\ ground' = ground /\ online' = online \ {p}
    BY <1>1 DEF Quit
  <2>2. ItemsOK' /\ NothingDuplicated'
    BY <1>1, <2>1, GiveBackKeepsItems
  <2>3. ListOK' /\ TraderOffersToHisClient'
    BY <1>1, <2>1, ListedKeepsList
  <2> QED
    BY <2>2, <2>3, TypeParts, PTL DEF Inv
<1>2. CASE menu[p] = Closed
  <2>1. /\ UNCHANGED <<trades, older, traderItems, clientItems, menu, inv, ground>>
        /\ online' = online \ {p} /\ sent' = [sent EXCEPT ![p] = Closed]
    BY <1>2 DEF Quit
  <2>2. ItemsOK /\ NothingDuplicated
    BY TypeParts DEF Inv
  <2>3. /\ sent' \in [Player -> Chests] /\ sent'[p] = Closed
        /\ \A u \in Player \ {p} : sent'[u] = sent[u]
    BY <2>1, <2>2 DEF ItemsOK, Chests
  <2>6. ItemsOK'
    BY <2>1, <2>2, <2>3, <1>2 DEF ItemsOK
  <2>4. NothingDuplicated'
    BY <2>1, <2>2 DEF NothingDuplicated, Inside
  <2>5. ListOK' /\ TraderOffersToHisClient'
    BY <2>1, <2>3, SameList DEF Closed
  <2> QED
    BY <2>6, <2>4, <2>5, TypeParts, PTL DEF Inv
<1> QED
  BY <1>1, <1>2

LEMMA JoinInv ==
    ASSUME Inv, NEW p \in Player, Join(p)
    PROVE  Inv'
<1>1. /\ UNCHANGED <<trades, older, traderItems, clientItems, sent, menu, inv, ground>>
      /\ online' = online \cup {p}
  BY DEF Join
<1>2. ItemsOK /\ NothingDuplicated
  BY TypeParts DEF Inv
<1>3. ItemsOK'
  BY <1>1, <1>2 DEF ItemsOK
<1>4. NothingDuplicated'
  BY <1>1, <1>2 DEF NothingDuplicated, Inside
<1>5. ListOK' /\ TraderOffersToHisClient'
  BY <1>1, SameList
<1> QED
  BY <1>3, <1>4, <1>5, TypeParts, PTL DEF Inv

LEMMA RestartInv ==
    ASSUME Inv, Restart
    PROVE  Inv'
<1>1. ItemsOK' /\ NothingDuplicated'
  BY SameItems DEF Restart
<1>2. ListOK' /\ TraderOffersToHisClient'
  BY DEF Restart, ListOK, TraderOffersToHisClient
<1> QED
  BY <1>1, <1>2, TypeParts, PTL DEF Inv

-----------------------------------------------------------------------------
(* /trade accept of a trader *)

\* A trader without an offer leaves none behind.
LEMMA AcceptNothingInv ==
    ASSUME Inv, NEW t \in Player, AcceptNothing(t)
    PROVE  Inv'
<1>1. ListOK /\ TraderOffersToHisClient
  BY TypeParts DEF Inv
<1>2. /\ t \notin DOMAIN traderItems /\ Remove(t)
      /\ UNCHANGED <<traderItems, clientItems, sent, menu, inv, ground, online>>
  BY DEF AcceptNothing
<1>3. /\ DOMAIN trades' = DOMAIN trades \ {t} /\ older' \subseteq older
      /\ \A u \in DOMAIN trades' : trades'[u] = trades[u]
  BY <1>2 DEF Remove, Without
<1>4. ListOK'
  BY <1>1, <1>2, <1>3 DEF ListOK
<1>5. TraderOffersToHisClient'
  BY <1>1, <1>2, <1>3 DEF TraderOffersToHisClient
<1>6. ItemsOK' /\ NothingDuplicated'
  BY <1>2, SameItems
<1> QED
  BY <1>4, <1>5, <1>6, TypeParts, PTL DEF Inv

\* The swap moves the two lists and nothing else.
LEMMA SwappedKeepsItems ==
    ASSUME Inv, NEW t \in Player, t \in DOMAIN trades, t \in DOMAIN traderItems,
           t \in DOMAIN clientItems, Swapped(t), UNCHANGED <<sent, menu, ground, online>>
    PROVE  ItemsOK' /\ NothingDuplicated'
<1> DEFINE c == trades[t]
           C == clientItems[t]
           T == traderItems[t]
<1>1. ListOK /\ ItemsOK /\ NothingDuplicated
  BY TypeParts DEF Inv
<1>2. c \in Player /\ c # t /\ C \subseteq Item /\ T \subseteq Item
  BY <1>1 DEF ListOK
<1>3. /\ C \subseteq inv[c] /\ T \subseteq inv[t] \cup C
      /\ Cardinality(inv[t] \cup C) <= Room[t]
      /\ Cardinality((inv[c] \ C) \cup T) <= Room[c]
      /\ inv' = [inv EXCEPT ![c] = (@ \ C) \cup T, ![t] = (@ \cup C) \ T]
  BY DEF Swapped, Swappable
<1>4. inv[c] \subseteq Item /\ inv[t] \subseteq Item
  BY <1>1, <1>2 DEF ItemsOK
<1> HIDE DEF c, C, T
<1>5. /\ inv'[c] = (inv[c] \ C) \cup T
      /\ inv'[t] = (inv[t] \cup C) \ T
      /\ \A p \in Player \ {c, t} : inv'[p] = inv[p]
      /\ inv' \in [Player -> SUBSET Item]
  <2>1. inv \in [Player -> SUBSET Item]
    BY <1>1 DEF ItemsOK
  <2> QED
    BY <2>1, <1>2, <1>3, <1>4
<1>6. Cardinality(inv'[t]) <= Room[t]
  <2>1. inv[t] \cup C \in SUBSET Item /\ (inv[t] \cup C) \ T \in SUBSET (inv[t] \cup C)
    BY <1>2, <1>4
  <2>2. /\ Cardinality((inv[t] \cup C) \ T) <= Cardinality(inv[t] \cup C)
        /\ Cardinality(inv[t] \cup C) \in Nat
    BY <2>1, Counting
  <2>3. Cardinality((inv[t] \cup C) \ T) \in Nat
    <3>1. (inv[t] \cup C) \ T \in SUBSET Item
      BY <2>1
    <3> QED
      BY <3>1, Counting
  <2>4. Room[t] \in Nat
    BY TradeAssumption DEF TradeAssumption
  <2> QED
    BY <2>2, <2>3, <2>4, <1>3, <1>5
<1>7. ItemsOK'
  BY <1>1, <1>3, <1>5, <1>6 DEF ItemsOK
<1>8. \A p \in Player : Inside(p)' = Inside(p)
  BY DEF Inside
<1>9. inv'[c] \cap inv'[t] = {} /\ inv'[c] \cup inv'[t] \subseteq inv[c] \cup inv[t]
  <2>1. inv[c] \cap inv[t] = {}
    BY <1>1, <1>2 DEF NothingDuplicated
  <2> QED
    BY <2>1, <1>3, <1>5
<1>10. NothingDuplicated'
  <2>1. ASSUME NEW p \in Player, NEW q \in Player
        PROVE  /\ p # q => inv'[p] \cap inv'[q] = {} /\ Inside(p)' \cap Inside(q)' = {}
               /\ inv'[p] \cap Inside(q)' = {}
    <3>1. /\ inv[c] \cap Inside(q) = {} /\ inv[t] \cap Inside(q) = {} /\ inv[p] \cap Inside(q) = {}
          /\ p # q => inv[p] \cap inv[q] = {} /\ Inside(p) \cap Inside(q) = {}
          /\ p \notin {c, t} => inv[c] \cap inv[p] = {} /\ inv[t] \cap inv[p] = {}
          /\ q \notin {c, t} => inv[c] \cap inv[q] = {} /\ inv[t] \cap inv[q] = {}
      BY <1>1, <1>2 DEF NothingDuplicated
    <3>2. /\ p \in {c, t} => inv'[p] \subseteq inv[c] \cup inv[t]
          /\ q \in {c, t} => inv'[q] \subseteq inv[c] \cup inv[t]
          /\ p \notin {c, t} => inv'[p] = inv[p]
          /\ q \notin {c, t} => inv'[q] = inv[q]
      BY <1>5, <1>9
    <3>3. inv'[p] \cap Inside(q)' = {}
      BY <3>1, <3>2, <1>8
    <3>4. p # q => inv'[p] \cap inv'[q] = {}
      BY <3>1, <3>2, <1>9
    <3> QED
      BY <3>1, <3>3, <3>4, <1>8
  <2>2. ASSUME NEW p \in Player
        PROVE  ground' \cap (inv'[p] \cup Inside(p)') = {}
    <3>1. /\ ground \cap inv[c] = {} /\ ground \cap inv[t] = {}
          /\ ground \cap inv[p] = {} /\ ground \cap Inside(p) = {}
      BY <1>1, <1>2 DEF NothingDuplicated
    <3>2. inv'[p] \subseteq inv[c] \cup inv[t] \cup inv[p]
      BY <1>5, <1>9
    <3> QED
      BY <3>1, <3>2, <1>8
  <2> QED
    BY <2>1, <2>2 DEF NothingDuplicated
<1> QED
  BY <1>7, <1>10

LEMMA AcceptInv ==
    ASSUME Inv, NEW t \in Player, Accept(t)
    PROVE  Inv'
<1>1. /\ t \in DOMAIN trades /\ t \in DOMAIN traderItems /\ t \in DOMAIN clientItems
      /\ Refused(t) \/ Swapped(t)
      /\ FinishTrade(t) /\ UNCHANGED <<sent, menu, ground, online>>
  BY DEF Accept
<1>2. ItemsOK' /\ NothingDuplicated'
  <2>1. CASE Refused(t)
    BY <1>1, <2>1, SameItems DEF Refused
  <2>2. CASE Swapped(t)
    BY <1>1, <2>2, SwappedKeepsItems
  <2> QED
    BY <1>1, <2>1, <2>2
<1>3. ListOK /\ TraderOffersToHisClient /\ DOMAIN traderItems \subseteq DOMAIN trades
  BY TypeParts DEF Inv, TraderOffersToHisClient
<1>4. /\ ListOK' /\ DOMAIN traderItems' \subseteq DOMAIN trades'
      /\ \A u \in DOMAIN trades' : u \in DOMAIN trades /\ trades'[u] = trades[u]
  BY <1>1, <1>3, FinishTradeKeepsList
<1>5. TraderOffersToHisClient'
  BY <1>1, <1>3, <1>4, OffersKept
<1> QED
  BY <1>2, <1>4, <1>5, TypeParts, PTL DEF Inv

-----------------------------------------------------------------------------

LEMMA NextInv == Inv /\ [Next]_vars => Inv'
<1> SUFFICES ASSUME Inv, [Next]_vars PROVE Inv'
  OBVIOUS
<1>1. CASE UNCHANGED vars
  <2>1. ItemsOK' /\ NothingDuplicated'
    BY <1>1, SameItems DEF vars
  <2>2. ListOK' /\ TraderOffersToHisClient'
    BY <1>1, SameList DEF vars
  <2> QED
    BY <2>1, <2>2, TypeParts, PTL DEF Inv
<1>2. CASE \E p \in Player : \/ Join(p) \/ Quit(p) \/ AcceptNothing(p) \/ Accept(p)
                             \/ Opens(p) \/ Fails(p) \/ Close(p)
  BY <1>2, JoinInv, QuitInv, CloseInv, AcceptNothingInv, AcceptInv, ChestInv
<1>3. CASE \E p, q \in Player : Request(p, q) \/ Offer(p, q)
  BY <1>3, RequestInv, ChestInv
<1>4. CASE \E p \in Player, i \in Item : PutIn(p, i) \/ TakeOut(p, i) \/ Drop(p, i) \/ PickUp(p, i)
  BY <1>4, MoveInv
<1>5. CASE Restart
  BY <1>5, RestartInv
<1> QED
  BY <1>1, <1>2, <1>3, <1>4, <1>5 DEF Next

\* TypeOK of Trade: inventories never hold more than there is room for.
THEOREM TypeCorrect == Spec => []TypeOK
<1>1. Inv => TypeOK
  BY DEF Inv
<1> QED
  BY <1>1, InitInv, NextInv, PTL DEF Spec

\* NothingDuplicated: whatever is offered, given away, accepted or left open, no item
\* is ever in two places.
THEOREM NoDuplicates == Spec => []NothingDuplicated
<1>1. Inv => NothingDuplicated
  BY DEF Inv
<1> QED
  BY <1>1, InitInv, NextInv, PTL DEF Spec

\* TraderOffersToHisClient: however late chests open, and whether they do or are left
\* open, a trader's offer is for the client he trades with.
THEOREM OffersToTheClient == Spec => []TraderOffersToHisClient
<1>1. Inv => TraderOffersToHisClient
  BY DEF Inv
<1> QED
  BY <1>1, InitInv, NextInv, PTL DEF Spec

=============================================================================
