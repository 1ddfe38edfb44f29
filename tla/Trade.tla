-------------------------------- MODULE Trade --------------------------------
(***************************************************************************)
(* /trade: a player asks another for a trade and both put what they offer    *)
(* into a chest of their own.  Closing the chest gives the items back and     *)
(* leaves a list of them; when the trader accepts, the lists are looked for   *)
(* in both inventories and swapped.  Requests, chests that open late or never, *)
(* chests left open, inventories that change in the meantime and players who   *)
(* leave are all interleaved.                                                  *)
(***************************************************************************)
EXTENDS Integers, FiniteSets

CONSTANTS
    Player,
    Asking,    \* bound: the players who ask others for trades
    Lower,     \* the players without a capital letter in their names
    Item,      \* items that do not stack, each of its own kind
    Room,      \* the slots of a player's inventory that nothing else takes
    Holding    \* what each player has at first

ASSUME TradeAssumption ==
    /\ Lower \subseteq Player /\ Asking \subseteq Player /\ IsFiniteSet(Item)
    /\ Room \in [Player -> Nat]
    /\ Holding \in [Player -> SUBSET Item]
    /\ \A p \in Player : Cardinality(Holding[p]) <= Room[p]
    /\ \A p, q \in Player : p # q => Holding[p] \cap Holding[q] = {}

VARIABLES
    trades,       \* trader |-> client
    older,        \* <<t, u>>: the trade of t comes before that of u in the array
    traderItems,  \* trader |-> what he offers
    clientItems,  \* trader |-> what his client offers
    sent,         \* the chest a player has been sent, until it opens or fails to
    menu,         \* the chest a player has open
    inv,          \* inventories
    ground,       \* items dropped
    online

vars == <<trades, older, traderItems, clientItems, sent, menu, inv, ground, online>>

Closed == [kind |-> "closed"]
Chests == {Closed} \cup [kind : {"trader", "client"}, with : Player]
Menus  == {Closed} \cup [kind : {"trader", "client"}, with : Player, items : SUBSET Item]

Inside(p) == IF menu[p] = Closed THEN {} ELSE menu[p].items

Init ==
    /\ trades = <<>> /\ older = {}
    /\ traderItems = <<>> /\ clientItems = <<>>
    /\ sent = [p \in Player |-> Closed]
    /\ menu = [p \in Player |-> Closed]
    /\ inv = Holding
    /\ ground = {}
    /\ online = Player

-----------------------------------------------------------------------------
(* The list of trades *)

Without(f, t) == [u \in DOMAIN f \ {t} |-> f[u]]
With(f, t, x) == [u \in DOMAIN f \cup {t} |-> IF u = t THEN x ELSE f[u]]

\* The trades a player is in, as trader or client, and the one getTrade() finds.
TradesOf(p) == {t \in DOMAIN trades : p \in {t, trades[t]}}
IsFirst(t, p) == t \in TradesOf(p) /\ \A u \in TradesOf(p) \ {t} : <<t, u>> \in older

Remove(t) ==
    /\ trades' = Without(trades, t)
    /\ older' = {e \in older : t \notin {e[1], e[2]}}

\* Variant: the trader's offer stays.
FinishTradeKeeping(t) ==
    IF t \in Lower
    THEN Remove(t) /\ clientItems' = Without(clientItems, t) /\ UNCHANGED traderItems
    ELSE UNCHANGED <<trades, older, traderItems, clientItems>>

\* finishTrade() looks for the name in lower case: a trader whose name has a
\* capital stays in his trade.
FinishTrade(t) ==
    IF t \in Lower
    THEN /\ Remove(t)
         /\ traderItems' = Without(traderItems, t)
         /\ clientItems' = Without(clientItems, t)
    ELSE UNCHANGED <<trades, older, traderItems, clientItems>>

-----------------------------------------------------------------------------
(* What players do with their items *)

Free(p) == Cardinality(inv[p]) < Room[p]

PutIn(p, i) ==
    /\ menu[p] # Closed /\ i \in inv[p]
    /\ inv' = [inv EXCEPT ![p] = @ \ {i}]
    /\ menu' = [menu EXCEPT ![p].items = @ \cup {i}]
    /\ UNCHANGED <<trades, older, traderItems, clientItems, sent, ground, online>>

TakeOut(p, i) ==
    /\ i \in Inside(p) /\ Free(p)
    /\ inv' = [inv EXCEPT ![p] = @ \cup {i}]
    /\ menu' = [menu EXCEPT ![p].items = @ \ {i}]
    /\ UNCHANGED <<trades, older, traderItems, clientItems, sent, ground, online>>

Drop(p, i) ==
    /\ p \in online /\ i \in inv[p]
    /\ inv' = [inv EXCEPT ![p] = @ \ {i}]
    /\ ground' = ground \cup {i}
    /\ UNCHANGED <<trades, older, traderItems, clientItems, sent, menu, online>>

PickUp(p, i) ==
    /\ p \in online /\ i \in ground /\ Free(p)
    /\ inv' = [inv EXCEPT ![p] = @ \cup {i}]
    /\ ground' = ground \ {i}
    /\ UNCHANGED <<trades, older, traderItems, clientItems, sent, menu, online>>

-----------------------------------------------------------------------------
(* The command.  Who has a chest open sends no command; who waits for one may. *)

CanCommand(p) == p \in online /\ menu[p] = Closed

\* InvMenu::send() drops a chest that has not opened yet.
Send(p, kind, with) == sent' = [sent EXCEPT ![p] = [kind |-> kind, with |-> with]]

\* /trade <player>: that the other is in a trade already does not matter.
Request(p, q) ==
    /\ p \in Asking /\ CanCommand(p) /\ q \in online \ {p} /\ TradesOf(p) = {}
    /\ trades' = With(trades, p, q)
    /\ older' = older \cup {<<t, p>> : t \in DOMAIN trades}
    /\ Send(p, "trader", q)
    /\ UNCHANGED <<traderItems, clientItems, menu, inv, ground, online>>

\* /trade accept of a client who has made no offer.
Offer(p, t) ==
    /\ CanCommand(p) /\ p \notin DOMAIN trades
    /\ IsFirst(t, p) /\ t \notin DOMAIN clientItems
    /\ Send(p, "client", t)
    /\ UNCHANGED <<trades, older, traderItems, clientItems, menu, inv, ground, online>>

\* The client has answered both waits.
Opens(p) ==
    /\ sent[p] # Closed
    /\ menu' = [menu EXCEPT ![p] = [kind |-> sent[p].kind, with |-> sent[p].with, items |-> {}]]
    /\ sent' = [sent EXCEPT ![p] = Closed]
    /\ UNCHANGED <<trades, older, traderItems, clientItems, inv, ground, online>>

\* The chest cannot be shown, or another menu is sent; its listener is never called.
Fails(p) ==
    /\ sent[p] # Closed
    /\ sent' = [sent EXCEPT ![p] = Closed]
    /\ UNCHANGED <<trades, older, traderItems, clientItems, menu, inv, ground, online>>

\* The items go back into the inventory; those that find no room are lost.
GiveBack(p) ==
    \E back \in SUBSET menu[p].items :
        /\ Cardinality(inv[p] \cup back) <= Room[p]
        /\ \A i \in menu[p].items \ back : Cardinality(inv[p] \cup back \cup {i}) > Room[p]
        /\ inv' = [inv EXCEPT ![p] = @ \cup back]

\* What the listener of the chest does then.
Listed(p) ==
    LET t == IF menu[p].kind = "trader" THEN p ELSE menu[p].with
        offered == menu[p].items
    IN  \/ /\ t \in DOMAIN trades /\ offered = {}
           /\ FinishTrade(t)
        \/ /\ t \in DOMAIN trades /\ offered # {} /\ menu[p].kind = "trader"
           /\ traderItems' = With(traderItems, t, offered)
           /\ UNCHANGED <<trades, older, clientItems>>
        \/ /\ t \in DOMAIN trades /\ offered # {} /\ menu[p].kind = "client"
           /\ clientItems' = With(clientItems, t, offered)
           /\ UNCHANGED <<trades, older, traderItems>>
        \/ /\ t \notin DOMAIN trades
           /\ UNCHANGED <<trades, older, traderItems, clientItems>>

Close(p) ==
    /\ menu[p] # Closed
    /\ GiveBack(p) /\ Listed(p)
    /\ menu' = [menu EXCEPT ![p] = Closed]
    /\ UNCHANGED <<sent, ground, online>>

\* Both lists are there and there is room for both, the client's first.
\* Variants: the lists are not looked for; the client's room is not.
SwappableUnseen(t) ==
    LET c == trades[t]
    IN  /\ Cardinality(inv[t] \cup clientItems[t]) <= Room[t]
        /\ Cardinality((inv[c] \ clientItems[t]) \cup traderItems[t]) <= Room[c]

SwappableAnyhow(t) ==
    LET c == trades[t]
    IN  /\ clientItems[t] \subseteq inv[c]
        /\ Cardinality(inv[t] \cup clientItems[t]) <= Room[t]
        /\ traderItems[t] \subseteq inv[t] \cup clientItems[t]

Swappable(t) ==
    LET c == trades[t]
    IN  /\ clientItems[t] \subseteq inv[c]
        /\ Cardinality(inv[t] \cup clientItems[t]) <= Room[t]
        /\ traderItems[t] \subseteq inv[t] \cup clientItems[t]
        /\ Cardinality((inv[c] \ clientItems[t]) \cup traderItems[t]) <= Room[c]

\* /trade accept of the trader: without an offer of his own,
AcceptNothing(t) ==
    /\ CanCommand(t) /\ t \in DOMAIN trades \ DOMAIN traderItems
    /\ Remove(t)
    /\ UNCHANGED <<traderItems, clientItems, sent, menu, inv, ground, online>>

\* with both offers, but the client is away or something does not fit,
Refused(t) ==
    /\ trades[t] \notin online \/ ~Swappable(t)
    /\ UNCHANGED inv

\* and when all is well.
Swapped(t) ==
    /\ trades[t] \in online /\ Swappable(t)
    /\ inv' = [inv EXCEPT ![trades[t]] = (@ \ clientItems[t]) \cup traderItems[t],
                          ![t]         = (@ \cup clientItems[t]) \ traderItems[t]]

Accept(t) ==
    /\ CanCommand(t)
    /\ t \in DOMAIN trades /\ t \in DOMAIN traderItems /\ t \in DOMAIN clientItems
    /\ Refused(t) \/ Swapped(t)
    /\ FinishTrade(t)
    /\ UNCHANGED <<sent, menu, ground, online>>

-----------------------------------------------------------------------------
(* Sessions *)

Join(p) ==
    /\ p \notin online /\ online' = online \cup {p}
    /\ UNCHANGED <<trades, older, traderItems, clientItems, sent, menu, inv, ground>>

\* Who quits with a chest open closes it; one that has not opened is dropped.
Quit(p) ==
    /\ p \in online /\ online' = online \ {p}
    /\ sent' = [sent EXCEPT ![p] = Closed]
    /\ \/ /\ menu[p] # Closed
          /\ GiveBack(p) /\ Listed(p)
          /\ menu' = [menu EXCEPT ![p] = Closed]
       \/ /\ menu[p] = Closed
          /\ UNCHANGED <<trades, older, traderItems, clientItems, menu, inv>>
    /\ UNCHANGED ground

\* The server is stopped when all have quit; trades are in memory only.
Restart ==
    /\ online = {}
    /\ trades' = <<>> /\ older' = {} /\ traderItems' = <<>> /\ clientItems' = <<>>
    /\ UNCHANGED <<sent, menu, inv, ground, online>>

Next ==
    \/ \E p \in Player : \/ Join(p) \/ Quit(p) \/ AcceptNothing(p) \/ Accept(p)
                         \/ Opens(p) \/ Fails(p) \/ Close(p)
    \/ \E p, q \in Player : Request(p, q) \/ Offer(p, q)
    \/ \E p \in Player, i \in Item : PutIn(p, i) \/ TakeOut(p, i) \/ Drop(p, i) \/ PickUp(p, i)
    \/ Restart

Spec == Init /\ [][Next]_vars

-----------------------------------------------------------------------------
(* Properties *)

\* Inventories stay within their room, whatever they take in while a trade waits, and
\* chests are those of players who are there, one for each.
TypeOK ==
    /\ DOMAIN trades \subseteq Player
    /\ \A t \in DOMAIN trades : trades[t] \in Player \ {t}
    /\ older \subseteq Player \X Player
    /\ DOMAIN traderItems \subseteq Player /\ DOMAIN clientItems \subseteq Player
    /\ \A t \in DOMAIN traderItems : traderItems[t] \subseteq Item
    /\ \A t \in DOMAIN clientItems : clientItems[t] \subseteq Item
    /\ sent \in [Player -> Chests]
    /\ menu \in [Player -> Menus]
    /\ inv \in [Player -> SUBSET Item]
    /\ \A p \in Player : Cardinality(inv[p]) <= Room[p]
    /\ ground \subseteq Item
    /\ online \subseteq Player
    /\ \A p \in Player : menu[p] # Closed \/ sent[p] # Closed => p \in online
    /\ \A p \in Player : menu[p] = Closed \/ sent[p] = Closed

\* No trade makes two of an item: it is in one inventory, in one chest or on the
\* ground, although offers are lists of items their owners keep and may give away.
NothingDuplicated ==
    /\ \A p, q \in Player : /\ p # q => /\ inv[p] \cap inv[q] = {}
                                        /\ Inside(p) \cap Inside(q) = {}
                            /\ inv[p] \cap Inside(q) = {}
    /\ \A p \in Player : ground \cap (inv[p] \cup Inside(p)) = {}

\* What a trader offers is for the client he trades with now: his offer ends with the
\* trade, and a chest that opens late or is left open is not taken for a later trade.
TraderOffersToHisClient ==
    /\ DOMAIN traderItems \subseteq DOMAIN trades
    /\ \A t \in DOMAIN trades : /\ menu[t].kind = "trader" => menu[t].with = trades[t]
                                /\ sent[t].kind = "trader" => sent[t].with = trades[t]

=============================================================================
