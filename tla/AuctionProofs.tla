---------------------------- MODULE AuctionProofs ----------------------------
(***************************************************************************)
(* No item is in two places at a time and no money is made, for every set of *)
(* players and items, number of auctions and length of time, restarts         *)
(* included, as long as its auction is not taken for another one; and the     *)
(* house keeps what AuctionCustody promises.                                  *)
(***************************************************************************)
EXTENDS Auction, Sums, SequenceTheorems, FiniteSetTheorems, TLAPS

\* Whose hands an item is in, and under which IDs of the two tables it is.
Hands(item)  == {p \in Players : item \in carried[p]}
Sold(item)   == {id \in Listed : lot[auctions[id]].item = item}
Stored(item) == {id \in IDs : expired[id] # None /\ lot[expired[id]].item = item}

AtMostOne(S) == \A x, y \in S : x = y
Exclusive(H, A, E) == /\ AtMostOne(H) /\ AtMostOne(A) /\ AtMostOne(E)
                      /\ H = {} \/ A = {}
                      /\ H = {} \/ E = {}
                      /\ A = {} \/ E = {}

\* OneOwner without the counting.
OnePlace == \A item \in Items \ confused :
                Exclusive(Hands(item), Sold(item), Stored(item))

\* The second loop only meets IDs that still have an expired lot.
CollectsExpired == phase = "expired" => \A id \in collecting : expired[id] # None

TablesInv == TablesOK /\ CollectsExpired

\* An auction that the first loop is yet to visit is still listed as it was when
\* the task began, unless it was taken for another one.
VisitsListed == \A id \in IDs : visiting[id] # None =>
                    /\ phase = "auctions"
                    /\ auctions[id] = visiting[id] \/ lot[visiting[id]].item \in confused

IInv == TablesInv /\ VisitsListed /\ OnePlace

NextWithRestart == Next \/ Restart

-----------------------------------------------------------------------------
(* The Auction objects.  Whatever happens to them, an object stays what it    *)
(* was sold as, and when.                                                     *)

LotsKept == /\ Len(lot) <= Len(lot')
            /\ \A l \in 1..Len(lot) : /\ lot'[l].item = lot[l].item
                                      /\ lot'[l].time = lot[l].time

\* The objects are numbered from 1, and have the fields of an Auction.
LEMMA LotFacts ==
    ASSUME TablesOK
    PROVE  /\ Len(lot) \in Nat /\ DOMAIN lot = 1..Len(lot)
           /\ \A l \in 1..Len(lot) : lot[l] \in Lot
BY LenProperties DEF TablesOK

\* Whose turn it is to be collected.
LEMMA ExpiredLot ==
    ASSUME TablesOK, NEW id \in IDs, expired[id] # None
    PROVE  expired[id] \in 1..Len(lot) /\ lot[expired[id]] \in Lot
<1>1. Len(lot) \in Nat /\ \A l \in 1..Len(lot) : lot[l] \in Lot
  BY LotFacts
<1>2. expired[id] \in 0..Len(lot)
  BY DEF TablesOK
<1>3. expired[id] \in 1..Len(lot)
  BY <1>1, <1>2 DEF None
<1> QED
  BY <1>1, <1>3

\* An object given another seller, or another bid.
LEMMA LotChanged ==
    ASSUME TablesOK, NEW l \in 1..Len(lot), NEW e \in Lot,
           e.item = lot[l].item, e.time = lot[l].time,
           lot' = [lot EXCEPT ![l] = e]
    PROVE  lot' \in Seq(Lot) /\ Len(lot') = Len(lot) /\ LotsKept
<1>1. lot \in Seq(Lot) /\ Len(lot) \in Nat
  BY LotFacts DEF TablesOK
<1>2. /\ lot' \in Seq(Lot) /\ Len(lot') = Len(lot)
      /\ \A j \in 1..Len(lot) : lot'[j] = IF j = l THEN e ELSE lot[j]
  BY <1>1, ExceptSeq
<1> QED
  BY <1>1, <1>2 DEF LotsKept

LEMMA SellerChanged ==
    ASSUME TablesOK, NEW l \in 1..Len(lot), NEW who \in Players,
           lot' = [lot EXCEPT ![l].seller = who]
    PROVE  lot' \in Seq(Lot) /\ Len(lot') = Len(lot) /\ LotsKept
<1> DEFINE e == [lot[l] EXCEPT !.seller = who]
<1>1. lot[l] \in Lot
  BY LotFacts
<1>2. e \in Lot /\ e.item = lot[l].item /\ e.time = lot[l].time
  BY <1>1 DEF Lot
<1>3. lot' = [lot EXCEPT ![l] = e]
  OBVIOUS
<1> HIDE DEF e
<1> QED
  BY <1>2, <1>3, LotChanged

LEMMA BidAdded ==
    ASSUME TablesOK, NEW l \in 1..Len(lot), NEW bid \in Bid,
           lot' = [lot EXCEPT ![l].bids = Append(@, bid)]
    PROVE  lot' \in Seq(Lot) /\ Len(lot') = Len(lot) /\ LotsKept
<1> DEFINE e == [lot[l] EXCEPT !.bids = Append(@, bid)]
<1>1. lot[l] \in Lot
  BY LotFacts
<1>2. Append(lot[l].bids, bid) \in Seq(Bid)
  BY <1>1, AppendProperties DEF Lot
<1>3. e \in Lot /\ e.item = lot[l].item /\ e.time = lot[l].time
  BY <1>1, <1>2 DEF Lot
<1>4. lot' = [lot EXCEPT ![l] = e]
  OBVIOUS
<1> HIDE DEF e
<1> QED
  BY <1>3, <1>4, LotChanged

\* A new object comes last.
LEMMA LotAdded ==
    ASSUME TablesOK, NEW e \in Lot, lot' = Append(lot, e)
    PROVE  /\ lot' \in Seq(Lot) /\ Len(lot') = Len(lot) + 1 /\ LotsKept
           /\ lot'[Len(lot) + 1] = e
<1>1. lot \in Seq(Lot) /\ Len(lot) \in Nat
  BY LotFacts DEF TablesOK
<1>2. /\ lot' \in Seq(Lot) /\ Len(lot') = Len(lot) + 1
      /\ \A i \in 1..Len(lot) : lot'[i] = lot[i]
      /\ lot'[Len(lot) + 1] = e
  BY <1>1, AppendProperties
<1> QED
  BY <1>1, <1>2 DEF LotsKept

-----------------------------------------------------------------------------
(* What expireAuction does. *)

\* The object l leaves the list for the store, unless its ID is taken there.
Taken(id, l) == /\ auctions[id] = l
                /\ auctions' = [auctions EXCEPT ![id] = None]
                /\ expired' = [expired EXCEPT ![id] = IF @ = None THEN l ELSE @]
                /\ confused' = confused

\* Another one leaves the list in its place.
Mistaken(id, l) == /\ auctions[id] \notin {None, l}
                   /\ auctions' = [auctions EXCEPT ![id] = None]
                   /\ expired' = [expired EXCEPT ![id] = IF @ = None THEN l ELSE @]
                   /\ confused' = confused \cup {lot[l].item, lot[auctions[id]].item}

LEMMA ExpireTakes ==
    ASSUME NEW l, NEW seller, Expire(l, seller)
    PROVE  \/ UNCHANGED <<auctions, expired, confused>>
           \/ \E id \in IDs : Taken(id, l) \/ Mistaken(id, l)
<1>1. CASE UNCHANGED <<auctions, expired, confused>>
  BY <1>1
<1>2. CASE ~UNCHANGED <<auctions, expired, confused>>
  <2>1. PICK id \in IDs : /\ FoundID(id, l, seller)
                          /\ auctions' = [auctions EXCEPT ![id] = None]
                          /\ expired' = [expired EXCEPT ![id] = IF @ = None THEN l ELSE @]
                          /\ confused' = Confused(id, l)
    BY <1>2 DEF Expire
  <2>2. auctions[id] # None
    BY <2>1 DEF FoundID, IDsOf, Listed
  <2> QED
    BY <2>1, <2>2 DEF Confused, Taken, Mistaken
<1> QED
  BY <1>1, <1>2

\* Whoever wins an auction is a player.
LEMMA WinnerIsPlayer ==
    ASSUME TablesOK, NEW l \in 1..Len(lot), NEW who \in Winner(l)
    PROVE  who \in Players
<1>1. lot[l].seller \in Players /\ lot[l].bids \in Seq(Bid)
  BY LotFacts DEF Lot
<1>2. \A bid \in ToSet(lot[l].bids) : bid \in Bid
  BY <1>1, LenProperties DEF ToSet
<1> QED
  BY <1>1, <1>2 DEF Winner, FirstSorted, Bid

-----------------------------------------------------------------------------
(* Items on the move. *)

\* The objects are as they were and no item is where it was not.
LEMMA NothingAdded ==
    ASSUME OnePlace, confused \subseteq confused',
           \A item \in Items \ confused' : /\ Hands(item)' \subseteq Hands(item)
                                           /\ Sold(item)' \subseteq Sold(item)
                                           /\ Stored(item)' \subseteq Stored(item)
    PROVE  OnePlace'
BY DEF OnePlace, Exclusive, AtMostOne

\* When nothing is taken or put anywhere.
LEMMA NothingMoved ==
    ASSUME TablesOK, LotsKept, OnePlace, UNCHANGED <<carried, auctions, expired, confused>>
    PROVE  OnePlace'
<1>1. \A l \in 0..Len(lot) : l # None => lot'[l].item = lot[l].item
  BY LotFacts DEF LotsKept, None
<1>2. \A item \in Items : /\ Hands(item)' = Hands(item)
                          /\ Sold(item)' = Sold(item)
                          /\ Stored(item)' = Stored(item)
  BY <1>1 DEF TablesOK, Hands, Sold, Stored, Listed
<1> QED
  BY <1>2, NothingAdded

\* From the list to the store.
LEMMA TakenMoves ==
    ASSUME TablesOK, LotsKept, OnePlace, NEW l \in 1..Len(lot), NEW id \in IDs,
           Taken(id, l), UNCHANGED carried
    PROVE  OnePlace'
<1>1. ASSUME NEW item \in Items, item \notin confused
      PROVE  Exclusive(Hands(item), Sold(item), Stored(item))'
  <2>1. Exclusive(Hands(item), Sold(item), Stored(item))
    BY <1>1 DEF OnePlace, Taken
  <2>2. Hands(item)' = Hands(item)
    BY DEF Hands
  <2>3. Sold(item)' = Sold(item) \ {id}
    BY LotFacts DEF Sold, Listed, Taken, LotsKept, TablesOK, None
  <2>4. CASE lot[l].item # item
    <3>1. Stored(item)' \subseteq Stored(item)
      BY <2>4, LotFacts DEF Stored, Taken, LotsKept, TablesOK, None
    <3> QED
      BY <2>1, <2>2, <2>3, <3>1 DEF Exclusive, AtMostOne
  <2>5. CASE lot[l].item = item
    <3>1. id \in Sold(item)
      BY <2>5 DEF Sold, Listed, Taken, None
    <3>2. Stored(item)' \subseteq Stored(item) \cup {id}
      <4>1. \A k \in 0..Len(lot) : k # None => lot'[k].item = lot[k].item
        BY LotFacts DEF LotsKept, None
      <4>2. \A k \in IDs \ {id} : expired'[k] = expired[k]
        BY DEF Taken, TablesOK
      <4> QED
        BY <4>1, <4>2 DEF Stored, TablesOK
    <3> QED
      BY <2>1, <2>2, <2>3, <3>1, <3>2 DEF Exclusive, AtMostOne
  <2> QED
    BY <2>4, <2>5
<1> QED
  BY <1>1 DEF OnePlace, Taken

\* When another auction goes from the list than the one that is stored.
LEMMA MistakenMoves ==
    ASSUME TablesOK, LotsKept, OnePlace, NEW l \in 1..Len(lot), NEW id \in IDs,
           Mistaken(id, l), UNCHANGED carried
    PROVE  OnePlace'
<1>1. confused \subseteq confused' /\ lot[l].item \in confused'
  BY DEF Mistaken
<1>2. ASSUME NEW item \in Items \ confused'
      PROVE  /\ Hands(item)' = Hands(item)
             /\ Sold(item)' \subseteq Sold(item)
             /\ Stored(item)' \subseteq Stored(item)
  <2>1. Hands(item)' = Hands(item)
    BY DEF Hands
  <2>2. Sold(item)' \subseteq Sold(item)
    BY LotFacts DEF Sold, Listed, Mistaken, LotsKept, TablesOK, None
  <2>3. lot[l].item # item
    BY <1>1
  <2>4. Stored(item)' \subseteq Stored(item)
    <3>1. \A k \in 0..Len(lot) : k # None => lot'[k].item = lot[k].item
      BY LotFacts DEF LotsKept, None
    <3>2. \A k \in IDs : expired'[k] = expired[k] \/ expired'[k] = l
      BY DEF Mistaken, TablesOK
    <3>3. lot'[l].item # item
      BY <2>3 DEF LotsKept
    <3> QED
      BY <3>1, <3>2, <3>3 DEF Stored, TablesOK
  <2> QED
    BY <2>1, <2>2, <2>4
<1> QED
  BY <1>1, <1>2, NothingAdded

\* From the list into somebody's hands.
LEMMA SoldTo ==
    ASSUME TablesOK, OnePlace, NEW id \in Listed, NEW p \in Players,
           carried' = [carried EXCEPT ![p] = @ \cup {lot[auctions[id]].item}],
           auctions' = Unlisted(id), UNCHANGED <<lot, expired, confused>>
    PROVE  OnePlace'
<1>1. ASSUME NEW item \in Items, item \notin confused
      PROVE  Exclusive(Hands(item), Sold(item), Stored(item))'
  <2>1. Exclusive(Hands(item), Sold(item), Stored(item))
    BY <1>1 DEF OnePlace
  <2>2. Sold(item)' = Sold(item) \ {id}
    BY DEF Sold, Listed, Unlisted, TablesOK, None
  <2>3. Stored(item)' = Stored(item)
    BY DEF Stored
  <2>4. CASE lot[auctions[id]].item # item
    <3>1. Hands(item)' = Hands(item)
      BY <2>4 DEF Hands, TablesOK
    <3> QED
      BY <2>1, <2>2, <2>3, <3>1 DEF Exclusive, AtMostOne
  <2>5. CASE lot[auctions[id]].item = item
    <3>1. id \in Sold(item)
      BY <2>5 DEF Sold
    <3>2. Hands(item)' \subseteq Hands(item) \cup {p}
      BY DEF Hands, TablesOK
    <3> QED
      BY <2>1, <2>2, <2>3, <3>1, <3>2 DEF Exclusive, AtMostOne
  <2> QED
    BY <2>4, <2>5
<1> QED
  BY <1>1 DEF OnePlace

\* From the store to the seller.
LEMMA ReturnedTo ==
    ASSUME TablesOK, OnePlace, NEW id \in IDs, expired[id] # None, NEW p \in Players,
           carried' = [carried EXCEPT ![p] = @ \cup {lot[expired[id]].item}],
           expired' = [expired EXCEPT ![id] = None], UNCHANGED <<lot, auctions, confused>>
    PROVE  OnePlace'
<1>1. ASSUME NEW item \in Items, item \notin confused
      PROVE  Exclusive(Hands(item), Sold(item), Stored(item))'
  <2>1. Exclusive(Hands(item), Sold(item), Stored(item))
    BY <1>1 DEF OnePlace
  <2>2. Stored(item)' = Stored(item) \ {id}
    BY DEF Stored, TablesOK, None
  <2>3. Sold(item)' = Sold(item)
    BY DEF Sold, Listed
  <2>4. CASE lot[expired[id]].item # item
    <3>1. Hands(item)' = Hands(item)
      BY <2>4 DEF Hands, TablesOK
    <3> QED
      BY <2>1, <2>2, <2>3, <3>1 DEF Exclusive, AtMostOne
  <2>5. CASE lot[expired[id]].item = item
    <3>1. id \in Stored(item)
      BY <2>5 DEF Stored
    <3>2. Hands(item)' \subseteq Hands(item) \cup {p}
      BY DEF Hands, TablesOK
    <3> QED
      BY <2>1, <2>2, <2>3, <3>1, <3>2 DEF Exclusive, AtMostOne
  <2> QED
    BY <2>4, <2>5
<1> QED
  BY <1>1 DEF OnePlace

-----------------------------------------------------------------------------
(* The tables keep their types.                                              *)

LEMMA ExpireTables ==
    ASSUME TablesOK, NEW l \in 1..Len(lot), NEW seller, Expire(l, seller)
    PROVE  /\ auctions' \in [IDs -> 0..Len(lot)]
           /\ expired' \in [IDs -> 0..Len(lot)]
           /\ confused' \subseteq Items /\ confused \subseteq confused'
<1>1. /\ auctions \in [IDs -> 0..Len(lot)] /\ expired \in [IDs -> 0..Len(lot)]
      /\ confused \subseteq Items /\ Len(lot) \in Nat
      /\ \A m \in 1..Len(lot) : lot[m].item \in Items
  BY LotFacts DEF TablesOK, Lot
<1>2. CASE UNCHANGED <<auctions, expired, confused>>
  BY <1>1, <1>2
<1>3. CASE \E id \in IDs : Taken(id, l) \/ Mistaken(id, l)
  <2>1. PICK id \in IDs : Taken(id, l) \/ Mistaken(id, l)
    BY <1>3
  <2>2. /\ auctions' = [auctions EXCEPT ![id] = None]
        /\ expired' = [expired EXCEPT ![id] = IF @ = None THEN l ELSE @]
    BY <2>1 DEF Taken, Mistaken
  <2>3. None \in 0..Len(lot) /\ l \in 0..Len(lot)
    BY <1>1 DEF None
  <2>4. auctions' \in [IDs -> 0..Len(lot)]
    BY <1>1, <2>2, <2>3
  <2>5. expired' \in [IDs -> 0..Len(lot)]
    BY <1>1, <2>2, <2>3
  <2>6. confused' \subseteq Items /\ confused \subseteq confused'
    <3>1. CASE Taken(id, l)
      BY <1>1, <3>1 DEF Taken
    <3>2. CASE Mistaken(id, l)
      <4>1. auctions[id] \in 1..Len(lot)
        BY <1>1, <3>2 DEF Mistaken, None
      <4> QED
        BY <1>1, <3>2, <4>1 DEF Mistaken
    <3> QED
      BY <2>1, <3>1, <3>2
  <2> QED
    BY <2>4, <2>5, <2>6
<1> QED
  BY <1>2, <1>3, ExpireTakes

LEMMA VisitAuctionTables == TablesInv /\ VisitAuction => TablesInv'
<1> SUFFICES ASSUME TablesInv, VisitAuction PROVE TablesInv'
  OBVIOUS
<1>1. TablesOK /\ Len(lot) \in Nat /\ lot \in Seq(Lot)
  BY LotFacts DEF TablesInv, TablesOK
<1>2. PICK id \in IDs :
          /\ visiting[id] # None
          /\ LET l == visiting[id] IN
                 TakeDown(l) \/ TakeForTax(l) \/ EndBidding(l) \/ StayListed(l)
          /\ visiting' = [visiting EXCEPT ![id] = None]
  BY DEF VisitAuction
<1> DEFINE l == visiting[id]
<1>3. l \in 1..Len(lot)
  BY <1>1, <1>2 DEF TablesOK, None
<1>4. lot' \in Seq(Lot) /\ Len(lot') = Len(lot)
  <2>1. CASE EndBidding(l)
    <3>1. PICK who \in Winner(l) : lot' = [lot EXCEPT ![l].seller = who]
      BY <2>1 DEF EndBidding
    <3> QED
      BY <1>1, <1>3, <3>1, WinnerIsPlayer, SellerChanged
  <2> QED
    BY <1>1, <1>2, <2>1 DEF TakeDown, TakeForTax, StayListed, tableVars
<1>5. /\ auctions' \in [IDs -> 0..Len(lot)] /\ expired' \in [IDs -> 0..Len(lot)]
      /\ confused' \subseteq Items
  <2>1. CASE StayListed(l)
    BY <1>1, <2>1 DEF StayListed, tableVars, TablesOK
  <2>2. CASE \E seller : Expire(l, seller)
    BY <1>1, <1>3, <2>2, ExpireTables
  <2> QED
    BY <1>2, <2>1, <2>2 DEF TakeDown, TakeForTax, EndBidding
<1>6. visiting' \in [IDs -> 0..Len(lot)]
  BY <1>1, <1>2 DEF TablesOK, None
<1>7. TablesOK'
  BY <1>1, <1>4, <1>5, <1>6 DEF TablesOK, VisitAuction, formVars
<1> QED
  BY <1>7 DEF VisitAuction, CollectsExpired, TablesInv

LEMMA VisitExpiredTables ==
    ASSUME TablesInv, NEW id \in IDs, VisitExpired(id) PROVE TablesInv'
<1>1. TablesOK /\ lot \in Seq(Lot)
  BY DEF TablesInv, TablesOK
<1> DEFINE l == expired[id]
           p == lot[l].seller
<1>2. /\ phase = "expired" /\ id \in collecting /\ expired[id] # None
      /\ UNCHANGED <<now, money, lot, auctions, confused, formVars, phase, visiting>>
      /\ collecting' = collecting \ {id}
  BY DEF VisitExpired, IInv, TablesInv, CollectsExpired
<1>3. l \in 1..Len(lot) /\ lot[l] \in Lot
  BY <1>1, <1>2, ExpiredLot
<1>4. p \in Players /\ lot[l].item \in Items
  BY <1>3 DEF Lot
<1>5. /\ expired' = [expired EXCEPT ![id] = None] \/ UNCHANGED expired
      /\ \/ UNCHANGED carried
         \/ /\ carried' = [carried EXCEPT ![p] = @ \cup {lot[l].item}]
            /\ expired' = [expired EXCEPT ![id] = None]
  BY DEF VisitExpired
<1>6. TablesOK'
  <2>1. carried' \in [Players -> SUBSET Items]
    <3>1. carried \in [Players -> SUBSET Items]
      BY <1>1 DEF TablesOK
    <3>2. carried[p] \cup {lot[l].item} \in SUBSET Items
      BY <1>4, <3>1
    <3> QED
      BY <1>5, <3>1, <3>2
  <2>2. expired' \in [IDs -> 0..Len(lot)]
    BY <1>1, <1>5, LotFacts DEF TablesOK, None
  <2> QED
    BY <1>1, <1>2, <2>1, <2>2 DEF TablesOK, formVars
<1>7. CollectsExpired'
  BY <1>1, <1>2, <1>5 DEF TablesInv, CollectsExpired, TablesOK
<1> QED
  BY <1>6, <1>7 DEF TablesInv

LEMMA LoopTables == TablesInv /\ (TaskBegin \/ SecondLoop \/ TaskEnd) => TablesInv'
<1> SUFFICES ASSUME TablesInv, TaskBegin \/ SecondLoop \/ TaskEnd PROVE TablesInv'
  OBVIOUS
<1>1. UNCHANGED <<now, money, carried, lot, auctions, expired, confused, formVars>>
  BY DEF TaskBegin, SecondLoop, TaskEnd, tableVars
<1>2. TablesOK'
  BY <1>1 DEF TablesInv, TablesOK, TaskBegin, SecondLoop, TaskEnd, formVars
<1>3. CollectsExpired'
  BY <1>1 DEF TablesInv, CollectsExpired, TaskBegin, SecondLoop, TaskEnd, Idle
<1> QED
  BY <1>2, <1>3 DEF TablesInv

LEMMA SellTables ==
    ASSUME TablesInv, NEW p \in Players, NEW item \in Items, NEW price \in Prices,
           NEW biddable \in BOOLEAN, NEW duration \in Nat,
           Sell(p, item, price, biddable, duration)
    PROVE  TablesInv'
<1> DEFINE e == [seller |-> p, item |-> item, price |-> price, time |-> now,
                 biddable |-> biddable,
                 bidTime |-> IF biddable THEN now + duration ELSE 0, bids |-> <<>>]
<1>1. /\ TablesOK /\ lot \in Seq(Lot)
      /\ Len(lot) \in Nat /\ DOMAIN lot = 1..Len(lot)
  BY LotFacts DEF TablesInv, TablesOK
<1>2. now \in 0..MaxTime /\ now \in Nat
  BY <1>1, BoundAssumption DEF TablesOK
<1>3. <<>> \in Seq(Bid)
  OBVIOUS
<1>4. e \in Lot
  BY <1>2, <1>3 DEF Lot
<1>5. lot' = Append(lot, e)
  BY DEF Sell
<1> HIDE DEF e
<1>6. /\ lot' \in Seq(Lot) /\ Len(lot') = Len(lot) + 1 /\ LotsKept
      /\ lot'[Len(lot) + 1] = e
  BY <1>1, <1>4, <1>5, LotAdded
<1>7. PICK id \in IDs : IsNextID(id) /\ auctions' = [auctions EXCEPT ![id] = Len(lot) + 1]
  BY DEF Sell
<1>8. /\ item \in carried[p] /\ carried' = [carried EXCEPT ![p] = @ \ {item}]
      /\ Len(lot) < MaxLots /\ phase = "idle" /\ phase' = phase
      /\ UNCHANGED <<now, expired, confused, buy, bidForm, visiting, collecting>>
  BY <1>1 DEF Sell, Idle, taskVars
<1>9. TablesOK'
  <2>1. cooldown' \in [Players -> Nat]
    <3>1. now + Cooldown \in Nat
      BY <1>2, BoundAssumption
    <3>2. cooldown' = [cooldown EXCEPT ![p] = now + Cooldown]
      BY DEF Sell
    <3> QED
      BY <1>1, <3>1, <3>2 DEF TablesOK
  <2>2. carried' \in [Players -> SUBSET Items]
    BY <1>1, <1>8 DEF TablesOK
  <2>3. auctions' \in [IDs -> 0..Len(lot')]
    BY <1>1, <1>6, <1>7 DEF TablesOK
  <2>4. /\ expired' \in [IDs -> 0..Len(lot')] /\ bidForm' \in [Players -> 0..Len(lot')]
        /\ visiting' \in [IDs -> 0..Len(lot')]
    BY <1>1, <1>6, <1>8 DEF TablesOK
  <2>5. Len(lot') <= MaxLots
    BY <1>1, <1>6, <1>8, BoundAssumption
  <2> QED
    BY <1>1, <1>6, <1>8, <2>1, <2>2, <2>3, <2>4, <2>5 DEF TablesOK
<1>10. CollectsExpired'
  BY <1>8 DEF CollectsExpired
<1> QED
  BY <1>9, <1>10 DEF TablesInv

LEMMA UnlistTables ==
    ASSUME TablesInv, NEW p \in Players, NEW id \in IDs, Retire(p, id) \/ Buy(p, id)
    PROVE  TablesInv'
<1>1. TablesOK
  BY DEF TablesInv
<1>2. /\ id \in Listed /\ phase = "idle"
      /\ auctions' = Unlisted(id)
      /\ carried' = [carried EXCEPT ![p] = @ \cup {lot[auctions[id]].item}]
      /\ UNCHANGED <<now, lot, expired, confused, cooldown, bidForm, phase, visiting, collecting>>
      /\ buy' = buy \/ buy' = [buy EXCEPT ![p] = NoPurchase]
  BY DEF Retire, Buy, ToBuy, Idle, formVars, taskVars
<1>3. lot[auctions[id]].item \in Items
  <2>1. auctions[id] \in 1..Len(lot)
    BY <1>1, <1>2, LotFacts DEF Listed, TablesOK, None
  <2> QED
    BY <1>1, <2>1, LotFacts DEF Lot
<1>4. TablesOK'
  <2>1. auctions' \in [IDs -> 0..Len(lot)]
    BY <1>1, <1>2, LotFacts DEF Unlisted, TablesOK, None
  <2>2. carried' \in [Players -> SUBSET Items]
    BY <1>1, <1>2, <1>3 DEF TablesOK
  <2>3. buy' \in [Players -> Purchase]
    <3>1. NoPurchase \in Purchase
      BY BoundAssumption DEF NoPurchase, Purchase
    <3> QED
      BY <1>1, <1>2, <3>1 DEF TablesOK
  <2> QED
    BY <1>1, <1>2, <2>1, <2>2, <2>3 DEF TablesOK
<1>5. CollectsExpired'
  BY <1>2 DEF CollectsExpired
<1> QED
  BY <1>4, <1>5 DEF TablesInv

LEMMA PostBidTables ==
    ASSUME TablesInv, NEW p \in Players, NEW amount \in Amounts, PostBid(p, amount)
    PROVE  TablesInv' /\ LotsKept /\ Len(lot') = Len(lot)
<1> DEFINE l == bidForm[p]
<1>1. /\ TablesOK /\ CollectsExpired
      /\ lot \in Seq(Lot) /\ Len(lot) \in Nat
  BY LotFacts DEF TablesInv, TablesOK
<1>2. l \in 1..Len(lot)
  BY <1>1 DEF PostBid, TablesOK, None
<1>3. [who |-> p, amount |-> amount] \in Bid
  BY DEF Bid
<1>4. lot' \in Seq(Lot) /\ Len(lot') = Len(lot) /\ LotsKept
  BY <1>1, <1>2, <1>3, BidAdded DEF PostBid
<1>5. UNCHANGED <<now, carried, auctions, expired, confused, cooldown, buy, phase,
                  visiting, collecting>>
  BY DEF PostBid, taskVars
<1>6. bidForm' \in [Players -> 0..Len(lot)]
  BY <1>1 DEF PostBid, TablesOK, None
<1>7. TablesOK'
  BY <1>1, <1>4, <1>5, <1>6 DEF TablesOK
<1> QED
  BY <1>1, <1>4, <1>5, <1>7 DEF TablesInv, CollectsExpired

LEMMA FormTables ==
    ASSUME TablesInv, NEW p \in Players,
           \/ SellRefused(p) \/ ForgetPurchase(p) \/ CloseBidForm(p)
           \/ \E id \in IDs : AskToConfirm(p, id) \/ OpenBidForm(p, id)
    PROVE  TablesInv'
<1>1. TablesOK /\ Len(lot) \in Nat
  BY LotFacts DEF TablesInv
<1>2. UNCHANGED <<now, carried, lot, auctions, expired, confused, cooldown, phase,
                  visiting, collecting>>
  BY DEF SellRefused, ForgetPurchase, CloseBidForm, AskToConfirm, OpenBidForm,
         tableVars, formVars, taskVars
<1>3. buy' \in [Players -> Purchase]
  <2>1. NoPurchase \in Purchase
    BY BoundAssumption DEF NoPurchase, Purchase
  <2>2. \A id \in IDs : [id |-> id, time |-> now] \in Purchase
    BY <1>1 DEF Purchase, TablesOK
  <2> QED
    BY <1>1, <2>1, <2>2 DEF TablesOK, SellRefused, ForgetPurchase, CloseBidForm,
                            AskToConfirm, OpenBidForm, formVars
<1>4. bidForm' \in [Players -> 0..Len(lot)]
  BY <1>1 DEF TablesOK, SellRefused, ForgetPurchase, CloseBidForm, AskToConfirm,
              OpenBidForm, formVars, None
<1>5. TablesOK'
  BY <1>1, <1>2, <1>3, <1>4 DEF TablesOK
<1> QED
  BY <1>2, <1>5 DEF TablesInv, CollectsExpired

LEMMA SecondTables == TablesInv /\ Second => TablesInv'
<1> SUFFICES ASSUME TablesInv, Second PROVE TablesInv'
  OBVIOUS
<1>1. now' \in 0..MaxTime
  BY BoundAssumption DEF Second, TablesInv, TablesOK
<1>2. UNCHANGED <<carried, tableVars, formVars, taskVars>>
  BY DEF Second
<1> QED
  BY <1>1, <1>2 DEF TablesInv, TablesOK, CollectsExpired, tableVars, formVars, taskVars

LEMMA RestartTables == TablesInv /\ Restart => TablesInv'
<1> SUFFICES ASSUME TablesInv, Restart PROVE TablesInv'
  OBVIOUS
<1>1. TablesOK /\ Len(lot) \in Nat
  BY LotFacts DEF TablesInv
<1>2. UNCHANGED <<now, carried, lot, confused, phase, visiting, collecting>> /\ phase = "idle"
  BY DEF Restart, Idle, taskVars
<1>3. TablesOK'
  <2>1. /\ auctions' \in [IDs -> 0..Len(lot)] /\ expired' \in [IDs -> 0..Len(lot)]
        /\ bidForm' \in [Players -> 0..Len(lot)] /\ cooldown' \in [Players -> Nat]
    BY <1>1 DEF Restart, NoLots, None
  <2>2. NoPurchase \in Purchase
    BY BoundAssumption DEF NoPurchase, Purchase
  <2>3. buy' \in [Players -> Purchase]
    BY <2>2 DEF Restart
  <2> QED
    BY <1>1, <1>2, <2>1, <2>3 DEF TablesOK
<1> QED
  BY <1>2, <1>3 DEF TablesInv, CollectsExpired

-----------------------------------------------------------------------------
(* The steps. *)

\* While no auction is yet to be visited.
LEMMA NoVisits ==
    ASSUME VisitsListed, phase # "auctions", visiting' = visiting PROVE VisitsListed'
BY DEF VisitsListed

\* A step that changes neither objects nor the places of items.
LEMMA QuietStep ==
    ASSUME IInv, UNCHANGED <<carried, lot, auctions, expired, confused>>,
           TablesInv', VisitsListed'
    PROVE  IInv'
<1>1. TablesOK /\ OnePlace /\ Len(lot) \in Nat
  BY LotFacts DEF IInv, TablesInv
<1>2. LotsKept
  BY <1>1 DEF LotsKept
<1> QED
  BY <1>1, <1>2, NothingMoved DEF IInv

\* What the first loop leaves to be visited is listed still: it is another object
\* that goes, or the one that was taken for it.
LEMMA VisitsStay ==
    ASSUME TablesOK, VisitsListed, OnePlace, LotsKept, NEW id \in IDs, visiting[id] # None,
           visiting' = [visiting EXCEPT ![id] = None], phase' = phase,
           \/ UNCHANGED <<auctions, expired, confused>>
           \/ \E taken \in IDs : Taken(taken, visiting[id]) \/ Mistaken(taken, visiting[id])
    PROVE  VisitsListed'
<1>1. /\ auctions \in [IDs -> 0..Len(lot)] /\ visiting \in [IDs -> 0..Len(lot)]
      /\ \A k \in 0..Len(lot) : k # None => k \in 1..Len(lot)
  BY LotFacts DEF TablesOK, None
<1>2. \A k \in 1..Len(lot) : lot'[k].item = lot[k].item /\ lot[k].item \in Items
  BY LotFacts DEF LotsKept, Lot
<1> SUFFICES ASSUME NEW k \in IDs, visiting'[k] # None
             PROVE  /\ phase' = "auctions"
                    /\ auctions'[k] = visiting'[k] \/ lot'[visiting'[k]].item \in confused'
  BY DEF VisitsListed
<1>3. k # id /\ visiting'[k] = visiting[k] /\ visiting[k] \in 1..Len(lot)
  BY <1>1
<1>4. /\ phase = "auctions"
      /\ auctions[k] = visiting[k] \/ lot[visiting[k]].item \in confused
  BY <1>3 DEF VisitsListed
<1>5. confused \subseteq confused'
  BY DEF Taken, Mistaken
<1>6. CASE lot[visiting[k]].item \in confused
  BY <1>2, <1>3, <1>4, <1>5, <1>6
<1>7. CASE auctions[k] = visiting[k] /\ lot[visiting[k]].item \notin confused
  <2>1. CASE auctions'[k] = auctions[k]
    BY <1>3, <1>4, <1>7, <2>1
  <2>2. CASE auctions'[k] # auctions[k]
    <3>1. Taken(k, visiting[id]) \/ Mistaken(k, visiting[id])
      BY <1>1, <2>2 DEF Taken, Mistaken
    <3>2. CASE Taken(k, visiting[id])
      <4>1. visiting[id] = visiting[k] /\ visiting[id] \in 1..Len(lot)
        BY <1>3, <1>7, <3>2 DEF Taken
      <4>2. auctions[id] = visiting[id]
        BY <1>7, <4>1 DEF VisitsListed
      <4>3. PICK item \in Items \ confused : item = lot[visiting[k]].item
        BY <1>2, <1>3, <1>7
      <4>4. id \in Sold(item) /\ k \in Sold(item)
        BY <1>3, <1>7, <4>1, <4>2, <4>3 DEF Sold, Listed
      <4> QED
        BY <1>3, <4>4 DEF OnePlace, Exclusive, AtMostOne
    <3>3. CASE Mistaken(k, visiting[id])
      <4>1. lot[visiting[k]].item \in confused'
        BY <1>7, <3>3 DEF Mistaken
      <4> QED
        BY <1>2, <1>3, <1>4, <4>1
    <3> QED
      BY <3>1, <3>2, <3>3
  <2> QED
    BY <2>1, <2>2
<1> QED
  BY <1>4, <1>6, <1>7

\* The first loop meets one auction: its object l may get another seller, and
\* expireAuction may be called on it.
LEMMA VisitAuctionStep == IInv /\ VisitAuction => IInv'
<1> SUFFICES ASSUME IInv, VisitAuction PROVE IInv'
  OBVIOUS
<1>1. TablesOK /\ VisitsListed /\ OnePlace /\ Len(lot) \in Nat /\ lot \in Seq(Lot)
  BY LotFacts DEF IInv, TablesInv, TablesOK
<1>2. PICK id \in IDs :
          /\ visiting[id] # None
          /\ LET l == visiting[id] IN
                 TakeDown(l) \/ TakeForTax(l) \/ EndBidding(l) \/ StayListed(l)
          /\ visiting' = [visiting EXCEPT ![id] = None]
  BY DEF VisitAuction
<1> DEFINE l == visiting[id]
<1>3. l \in 1..Len(lot)
  BY <1>1, <1>2 DEF TablesOK, None
<1>4. /\ lot' \in Seq(Lot) /\ Len(lot') = Len(lot) /\ LotsKept
      /\ \/ UNCHANGED <<auctions, expired, confused>>
         \/ \E taken \in IDs : Taken(taken, l) \/ Mistaken(taken, l)
  <2>1. CASE lot' = lot
    <3>1. LotsKept
      BY <2>1, <1>1 DEF LotsKept
    <3>2. UNCHANGED <<auctions, expired, confused>> \/ \E seller : Expire(l, seller)
      BY <1>2, <2>1 DEF TakeDown, TakeForTax, EndBidding, StayListed, tableVars
    <3> QED
      BY <1>1, <1>3, <2>1, <3>1, <3>2, ExpireTakes
  <2>2. CASE EndBidding(l)
    <3>1. PICK who \in Winner(l) : lot' = [lot EXCEPT ![l].seller = who] /\ Expire(l, who)
      BY <2>2 DEF EndBidding
    <3>2. who \in Players
      BY <1>1, <1>3, WinnerIsPlayer
    <3>3. lot' \in Seq(Lot) /\ Len(lot') = Len(lot) /\ LotsKept
      BY <1>1, <1>3, <3>1, <3>2, SellerChanged
    <3> QED
      BY <1>1, <1>3, <3>1, <3>3, ExpireTakes
  <2> QED
    BY <1>2, <2>1, <2>2 DEF TakeDown, TakeForTax, StayListed, tableVars
<1>5. TablesInv'
  BY VisitAuctionTables DEF IInv
<1>6. OnePlace'
  <2>1. UNCHANGED carried
    BY DEF VisitAuction
  <2> QED
    BY <1>1, <1>3, <1>4, <2>1, NothingMoved, TakenMoves, MistakenMoves
<1>7. VisitsListed'
  <2>1. phase' = phase
    BY DEF VisitAuction
  <2> QED
    BY <1>1, <1>2, <1>4, <2>1, VisitsStay
<1> QED
  BY <1>5, <1>6, <1>7 DEF IInv

\* The second loop meets one expired object.
LEMMA VisitExpiredStep == ASSUME IInv, NEW id \in IDs, VisitExpired(id) PROVE IInv'
<1>1. TablesOK /\ VisitsListed /\ OnePlace /\ lot \in Seq(Lot)
  BY LotFacts DEF IInv, TablesInv, TablesOK
<1> DEFINE l == expired[id]
           p == lot[l].seller
<1>2. /\ phase = "expired" /\ id \in collecting /\ expired[id] # None
      /\ UNCHANGED <<now, money, lot, auctions, confused, formVars, phase, visiting>>
      /\ collecting' = collecting \ {id}
  BY DEF VisitExpired, IInv, TablesInv, CollectsExpired
<1>3. l \in 1..Len(lot) /\ lot[l] \in Lot
  BY <1>1, <1>2, ExpiredLot
<1>4. p \in Players /\ lot[l].item \in Items
  BY <1>3 DEF Lot
<1>5. /\ expired' = [expired EXCEPT ![id] = None] \/ UNCHANGED expired
      /\ \/ UNCHANGED carried
         \/ /\ carried' = [carried EXCEPT ![p] = @ \cup {lot[l].item}]
            /\ expired' = [expired EXCEPT ![id] = None]
  BY DEF VisitExpired
<1>6. TablesInv'
  BY VisitExpiredTables DEF IInv
<1>7. OnePlace'
  <2>1. CASE UNCHANGED carried
    <3>1. \A item \in Items : /\ Hands(item)' = Hands(item)
                              /\ Sold(item)' = Sold(item)
                              /\ Stored(item)' \subseteq Stored(item)
      BY <1>1, <1>2, <1>5, <2>1 DEF Hands, Sold, Stored, Listed, TablesOK
    <3> QED
      BY <1>1, <1>2, <3>1, NothingAdded
  <2>2. CASE /\ carried' = [carried EXCEPT ![p] = @ \cup {lot[l].item}]
             /\ expired' = [expired EXCEPT ![id] = None]
    BY <1>1, <1>2, <1>4, <2>2, ReturnedTo
  <2> QED
    BY <1>5, <2>1, <2>2
<1>8. VisitsListed'
  BY <1>1, <1>2, NoVisits
<1> QED
  BY <1>6, <1>7, <1>8 DEF IInv

\* The ends of the loops.
LEMMA LoopStep == IInv /\ (TaskBegin \/ SecondLoop \/ TaskEnd) => IInv'
<1> SUFFICES ASSUME IInv, TaskBegin \/ SecondLoop \/ TaskEnd PROVE IInv'
  OBVIOUS
<1>1. UNCHANGED <<now, money, carried, lot, auctions, expired, confused, formVars>>
  BY DEF TaskBegin, SecondLoop, TaskEnd, tableVars
<1>2. TablesInv'
  BY LoopTables DEF IInv
<1>3. VisitsListed'
  BY DEF IInv, VisitsListed, TaskBegin, SecondLoop, TaskEnd, NoLots, tableVars, None
<1> QED
  BY <1>1, <1>2, <1>3, QuietStep

\* An item goes from a hand to the list, under an ID no listed auction has.
LEMMA SellStep ==
    ASSUME IInv, NEW p \in Players, NEW item \in Items, NEW price \in Prices,
           NEW biddable \in BOOLEAN, NEW duration \in Nat,
           Sell(p, item, price, biddable, duration)
    PROVE  IInv'
<1> DEFINE e == [seller |-> p, item |-> item, price |-> price, time |-> now,
                 biddable |-> biddable,
                 bidTime |-> IF biddable THEN now + duration ELSE 0, bids |-> <<>>]
<1>1. /\ TablesOK /\ VisitsListed /\ OnePlace /\ lot \in Seq(Lot)
      /\ Len(lot) \in Nat /\ DOMAIN lot = 1..Len(lot)
  BY LotFacts DEF IInv, TablesInv, TablesOK
<1>2. now \in 0..MaxTime /\ now \in Nat
  BY <1>1, BoundAssumption DEF TablesOK
<1>3. <<>> \in Seq(Bid)
  OBVIOUS
<1>4. e \in Lot
  BY <1>2, <1>3 DEF Lot
<1>5. lot' = Append(lot, e)
  BY DEF Sell
<1> HIDE DEF e
<1>6. /\ lot' \in Seq(Lot) /\ Len(lot') = Len(lot) + 1 /\ LotsKept
      /\ lot'[Len(lot) + 1] = e
  BY <1>1, <1>4, <1>5, LotAdded
<1>7. e.item = item /\ e.time = now
  BY DEF e
<1>8. PICK id \in IDs : IsNextID(id) /\ auctions' = [auctions EXCEPT ![id] = Len(lot) + 1]
  BY DEF Sell
<1>9. auctions[id] = None
  BY <1>8 DEF IsNextID, Listed, IDs
<1>10. /\ item \in carried[p] /\ carried' = [carried EXCEPT ![p] = @ \ {item}]
       /\ Len(lot) < MaxLots /\ phase = "idle" /\ phase' = phase
       /\ UNCHANGED <<now, expired, confused, buy, bidForm, visiting, collecting>>
  BY <1>1 DEF Sell, Idle, taskVars
<1>11. TablesInv'
  BY SellTables DEF IInv
<1>12. VisitsListed'
  BY <1>1, <1>10, NoVisits
<1>13. OnePlace'
  <2>1. ASSUME NEW it \in Items, it \notin confused
        PROVE  Exclusive(Hands(it), Sold(it), Stored(it))'
    <3>1. Exclusive(Hands(it), Sold(it), Stored(it))
      BY <1>1, <2>1 DEF OnePlace
    <3>2. Stored(it)' = Stored(it)
      BY <1>1, <1>6, <1>10 DEF Stored, LotsKept, TablesOK, None
    <3>3. CASE it # item
      <4>1. Hands(it)' = Hands(it)
        BY <1>1, <1>10, <3>3 DEF Hands, TablesOK
      <4>2. Sold(it)' = Sold(it)
        BY <1>1, <1>6, <1>7, <1>8, <1>9, <3>3 DEF Sold, Listed, LotsKept, TablesOK, None
      <4> QED
        BY <3>1, <3>2, <4>1, <4>2 DEF Exclusive, AtMostOne
    <3>4. CASE it = item
      <4>1. p \in Hands(it) /\ Hands(it)' = Hands(it) \ {p}
        BY <1>1, <1>10, <3>4 DEF Hands, TablesOK
      <4>2. Sold(it)' \subseteq Sold(it) \cup {id}
        BY <1>1, <1>6, <1>8 DEF Sold, Listed, LotsKept, TablesOK, None
      <4> QED
        BY <3>1, <3>2, <4>1, <4>2 DEF Exclusive, AtMostOne
    <3> QED
      BY <3>3, <3>4
  <2> QED
    BY <1>10, <2>1 DEF OnePlace
<1> QED
  BY <1>11, <1>12, <1>13 DEF IInv

\* A listed auction is taken back, or bought.
LEMMA UnlistStep ==
    ASSUME IInv, NEW p \in Players, NEW id \in IDs, Retire(p, id) \/ Buy(p, id)
    PROVE  IInv'
<1>1. TablesOK /\ VisitsListed /\ OnePlace
  BY DEF IInv, TablesInv
<1>2. /\ id \in Listed /\ phase = "idle"
      /\ auctions' = Unlisted(id)
      /\ carried' = [carried EXCEPT ![p] = @ \cup {lot[auctions[id]].item}]
      /\ UNCHANGED <<now, lot, expired, confused, cooldown, bidForm, phase, visiting, collecting>>
      /\ buy' = buy \/ buy' = [buy EXCEPT ![p] = NoPurchase]
  BY DEF Retire, Buy, ToBuy, Idle, formVars, taskVars
<1>3. TablesInv'
  BY UnlistTables DEF IInv
<1>4. OnePlace'
  BY <1>1, <1>2, SoldTo
<1>5. VisitsListed'
  BY <1>1, <1>2, NoVisits
<1> QED
  BY <1>3, <1>4, <1>5 DEF IInv

\* A bid may come on an object that has left the list.
LEMMA PostBidStep ==
    ASSUME IInv, NEW p \in Players, NEW amount \in Amounts, PostBid(p, amount)
    PROVE  IInv'
<1>1. TablesOK /\ VisitsListed /\ OnePlace
  BY DEF IInv, TablesInv
<1>2. TablesInv' /\ LotsKept /\ Len(lot') = Len(lot)
  BY PostBidTables DEF IInv
<1>3. UNCHANGED <<carried, auctions, expired, confused>>
  BY DEF PostBid
<1>4. VisitsListed'
  BY <1>1, NoVisits DEF PostBid, Idle, taskVars
<1> QED
  BY <1>1, <1>2, <1>3, <1>4, NothingMoved DEF IInv

\* Commands and forms that leave objects, tables and items alone.
LEMMA FormStep ==
    ASSUME IInv, NEW p \in Players,
           \/ SellRefused(p) \/ ForgetPurchase(p) \/ CloseBidForm(p)
           \/ \E id \in IDs : AskToConfirm(p, id) \/ OpenBidForm(p, id)
    PROVE  IInv'
<1>1. UNCHANGED <<carried, lot, auctions, expired, confused>>
  BY DEF SellRefused, ForgetPurchase, CloseBidForm, AskToConfirm, OpenBidForm, tableVars
<1>2. phase # "auctions" /\ visiting' = visiting
  BY DEF SellRefused, ForgetPurchase, CloseBidForm, AskToConfirm, OpenBidForm, ToBuy,
         Idle, taskVars
<1> QED
  BY <1>1, <1>2, FormTables, NoVisits, QuietStep DEF IInv

LEMMA SecondStep == IInv /\ Second => IInv'
<1> SUFFICES ASSUME IInv, Second PROVE IInv'
  OBVIOUS
<1>1. UNCHANGED <<carried, tableVars, taskVars>>
  BY DEF Second
<1>2. VisitsListed'
  BY <1>1 DEF IInv, VisitsListed, tableVars, taskVars
<1> QED
  BY <1>1, <1>2, SecondTables, QuietStep DEF IInv, tableVars

\* A restart loses what the tables hold.
LEMMA RestartStep == IInv /\ Restart => IInv'
<1> SUFFICES ASSUME IInv, Restart PROVE IInv'
  OBVIOUS
<1>1. TablesOK /\ VisitsListed /\ OnePlace /\ Len(lot) \in Nat
  BY LotFacts DEF IInv, TablesInv
<1>2. UNCHANGED <<now, carried, lot, confused, phase, visiting, collecting>> /\ phase = "idle"
  BY DEF Restart, Idle, taskVars
<1>3. \A id \in IDs : auctions'[id] = None /\ expired'[id] = None
  BY DEF Restart, NoLots
<1>4. TablesInv'
  BY RestartTables DEF IInv
<1>5. \A item \in Items : /\ Hands(item)' = Hands(item)
                          /\ Sold(item)' = {} /\ Stored(item)' = {}
  BY <1>2, <1>3 DEF Hands, Sold, Stored, Listed
<1>6. OnePlace'
  BY <1>1, <1>2, <1>5, NothingAdded
<1>7. VisitsListed'
  BY <1>1, <1>2, NoVisits
<1> QED
  BY <1>4, <1>6, <1>7 DEF IInv

LEMMA Step == IInv /\ [NextWithRestart]_vars => IInv'
<1> SUFFICES ASSUME IInv, [NextWithRestart]_vars PROVE IInv'
  OBVIOUS
<1>1. CASE AuctionTask
  BY <1>1, VisitAuctionStep, VisitExpiredStep, LoopStep DEF AuctionTask
<1>2. CASE Command
  <2>1. TRUE \in BOOLEAN /\ FALSE \in BOOLEAN /\ 0 \in Nat /\ BidTimes \subseteq Nat
    BY SetsAssumption
  <2>2. PICK p \in Players :
            \/ \E item \in Items, price \in Prices :
                   \/ Sell(p, item, price, FALSE, 0)
                   \/ \E d \in BidTimes : Sell(p, item, price, TRUE, d)
            \/ SellRefused(p) \/ ForgetPurchase(p) \/ CloseBidForm(p)
            \/ \E id \in IDs :
                   Retire(p, id) \/ AskToConfirm(p, id) \/ Buy(p, id) \/ OpenBidForm(p, id)
            \/ \E amount \in Amounts : PostBid(p, amount)
    BY <1>2 DEF Command
  <2> QED
    BY <2>1, <2>2, SellStep, UnlistStep, PostBidStep, FormStep
<1>3. CASE Second
  BY <1>3, SecondStep
<1>4. CASE Restart
  BY <1>4, RestartStep
<1>5. CASE UNCHANGED vars
  <2>1. UNCHANGED <<now, carried, lot, auctions, expired, confused, cooldown, buy, bidForm,
                    phase, visiting, collecting>>
    BY <1>5 DEF vars
  <2>2. TablesInv'
    BY <2>1 DEF IInv, TablesInv, TablesOK, CollectsExpired
  <2>3. VisitsListed'
    BY <2>1 DEF IInv, VisitsListed
  <2> QED
    BY <2>1, <2>2, <2>3, QuietStep
<1> QED
  BY <1>1, <1>2, <1>3, <1>4, <1>5 DEF NextWithRestart, Next

LEMMA Start == Init => IInv
<1> SUFFICES ASSUME Init PROVE IInv
  OBVIOUS
<1>1. lot = <<>> /\ Len(lot) = 0 /\ DOMAIN lot = {} /\ lot \in Seq(Lot)
  BY DEF Init
<1>2. TablesOK
  <2>1. NoPurchase \in Purchase
    BY BoundAssumption DEF NoPurchase, Purchase
  <2>2. now = 0 /\ 0 \in 0..MaxTime /\ 0 <= MaxLots
    BY BoundAssumption DEF Init
  <2>3. NoLots \in [IDs -> 0..Len(lot)] /\ [p \in Players |-> None] \in [Players -> 0..Len(lot)]
    BY <1>1 DEF NoLots, None
  <2>4. cooldown \in [Players -> Nat]
    BY DEF Init
  <2>5. buy \in [Players -> Purchase]
    BY <2>1 DEF Init
  <2> QED
    BY <1>1, <2>2, <2>3, <2>4, <2>5 DEF TablesOK, Init
<1>3. \A item \in Items : /\ AtMostOne(Hands(item))
                          /\ Sold(item) = {} /\ Stored(item) = {}
  BY DEF Init, AtMostOne, Hands, Sold, Stored, Listed, NoLots
<1> QED
  BY <1>1, <1>2, <1>3
     DEF IInv, TablesInv, VisitsListed, CollectsExpired, OnePlace, Exclusive, AtMostOne, Init,
         NoLots

\* Places that exclude each other hold an item at most once.
LEMMA CountedOnce == TablesOK /\ OnePlace => OneOwner
<1> SUFFICES ASSUME OnePlace, NEW item \in Items \ confused
             PROVE  Cardinality(Hands(item)) + Cardinality(Sold(item))
                        + Cardinality(Stored(item)) <= 1
  BY DEF OneOwner, Hands, Sold, Stored
<1>1. Exclusive(Hands(item), Sold(item), Stored(item))
  BY DEF OnePlace
<1>2. ASSUME NEW S, AtMostOne(S)
      PROVE  (S = {} /\ Cardinality(S) = 0) \/ Cardinality(S) = 1
  <2>1. S = {} \/ \E x : S = {x}
    BY <1>2 DEF AtMostOne
  <2> QED
    BY <2>1, FS_EmptySet, FS_Singleton
<1> DEFINE H == Hands(item)
           A == Sold(item)
           E == Stored(item)
<1>3. /\ (H = {} /\ Cardinality(H) = 0) \/ Cardinality(H) = 1
      /\ (A = {} /\ Cardinality(A) = 0) \/ Cardinality(A) = 1
      /\ (E = {} /\ Cardinality(E) = 0) \/ Cardinality(E) = 1
      /\ H = {} \/ A = {}
      /\ H = {} \/ E = {}
      /\ A = {} \/ E = {}
  BY <1>1, <1>2 DEF Exclusive
<1> HIDE DEF H, A, E
<1>4. Cardinality({}) = 0
  BY FS_EmptySet
<1>5. Cardinality(H) + Cardinality(A) + Cardinality(E) <= 1
  BY <1>3, <1>4
<1> QED
  BY <1>5 DEF H, A, E

-----------------------------------------------------------------------------
(* Money.  What is in the purses and in the bids that listed auctions hold    *)
(* never grows, as long as no auction is taken for another one.              *)

Purse == [Players -> 0..MoneyMax]

AllMoney == StartMoney * Cardinality(Players)

Solvent == SumFunction(money) + SumFunction([id \in IDs |-> Escrow(id)]) <= AllMoney

SolventInv == money \in Purse /\ Solvent

MoneyInv == money \in Purse /\ NoMoneyMade

LEMMA PlayersFinite == IsFiniteSet(Players)
BY SetsAssumption

LEMMA IDsFinite == IsFiniteSet(IDs)
BY BoundAssumption, FS_Interval DEF IDs

LEMMA PurseSum ==
    ASSUME NEW m \in Purse
    PROVE  /\ SumFunction(m) = SumFunctionOnSet(m, Players)
           /\ SumFunction(m) \in Int /\ \A p \in Players : m[p] \in Int
<1>1. DOMAIN m = Players /\ \A p \in Players : m[p] \in Int
  BY MoneyAssumption DEF Purse
<1> QED
  BY <1>1, PlayersFinite, SumType DEF SumFunction

\* One purse is another.
LEMMA PurseChanged ==
    ASSUME NEW m \in Purse, NEW p \in Players, NEW sum \in 0..MoneyMax
    PROVE  /\ [m EXCEPT ![p] = sum] \in Purse
           /\ SumFunction([m EXCEPT ![p] = sum]) = SumFunction(m) - m[p] + sum
<1> DEFINE new == [m EXCEPT ![p] = sum]
<1>1. new \in Purse /\ new[p] = sum /\ \A q \in Players \ {p} : m[q] = new[q]
  BY DEF Purse
<1> HIDE DEF new
<1>2. SumFunctionOnSet(new, Players) = SumFunctionOnSet(m, Players) - m[p] + sum
  BY <1>1, PurseSum, PlayersFinite, SumChanged
<1>3. SumFunction(new) = SumFunction(m) - m[p] + sum
  BY <1>1, <1>2, PurseSum
<1> QED
  BY <1>1, <1>3 DEF new

LEMMA ReducedPurse ==
    ASSUME NEW m \in Purse, NEW p \in Players, NEW amount \in Nat, CanPay(m, p, amount)
    PROVE  /\ Reduced(m, p, amount) \in Purse
           /\ SumFunction(Reduced(m, p, amount)) = SumFunction(m) - amount
<1>1. m[p] \in 0..MoneyMax /\ m[p] - amount \in 0..MoneyMax
  BY MoneyAssumption DEF Purse, CanPay
<1> DEFINE sum == m[p] - amount
<1>2. Reduced(m, p, amount) = [m EXCEPT ![p] = sum]
  BY DEF Reduced
<1>3. /\ Reduced(m, p, amount) \in Purse
      /\ SumFunction(Reduced(m, p, amount)) = SumFunction(m) - m[p] + sum
  <2>1. sum \in 0..MoneyMax
    BY <1>1
  <2> HIDE DEF sum
  <2> QED
    BY <2>1, <1>2, PurseChanged
<1>4. SumFunction(m) \in Int /\ m[p] \in Int
  BY PurseSum
<1> QED
  BY <1>3, <1>4

LEMMA AddedPurse ==
    ASSUME NEW m \in Purse, NEW p \in Players, NEW amount \in Nat
    PROVE  /\ Added(m, p, amount) \in Purse
           /\ SumFunction(Added(m, p, amount)) <= SumFunction(m) + amount
<1>1. CASE m[p] + amount <= MoneyMax
  <2> DEFINE sum == m[p] + amount
  <2>1. sum \in 0..MoneyMax
    BY <1>1, MoneyAssumption DEF Purse
  <2>2. Added(m, p, amount) = [m EXCEPT ![p] = sum]
    BY <1>1 DEF Added
  <2>3. /\ Added(m, p, amount) \in Purse
        /\ SumFunction(Added(m, p, amount)) = SumFunction(m) - m[p] + sum
    <3> HIDE DEF sum
    <3> QED
      BY <2>1, <2>2, PurseChanged
  <2>4. SumFunction(m) \in Int /\ m[p] \in Int
    BY PurseSum
  <2> QED
    BY <2>3, <2>4
<1>2. CASE ~(m[p] + amount <= MoneyMax)
  BY <1>2, PurseSum DEF Added
<1> QED
  BY <1>1, <1>2

LEMMA MaxIsMember ==
    ASSUME NEW n \in Nat, NEW s \in SUBSET (1..n), s # {}
    PROVE  Max(s) \in s
<1> DEFINE T == {n - x : x \in s}
<1>1. T \in SUBSET Nat /\ T # {}
  <2>1. \A x \in s : x \in Int /\ x <= n /\ n - x \in Nat
    OBVIOUS
  <2> QED
    BY <2>1
<1>2. PICK t \in T : \A u \in T : t <= u
  <2> HIDE DEF T
  <2> QED
    BY <1>1, LeastNatural
<1>3. PICK x \in s : t = n - x
  BY <1>2
<1>4. ASSUME NEW y \in s PROVE x >= y
  <2>1. n - y \in T
    OBVIOUS
  <2>2. n - x <= n - y
    BY <1>2, <1>3, <2>1
  <2>3. x \in Int /\ y \in Int
    OBVIOUS
  <2> QED
    BY <2>2, <2>3
<1> QED
  BY <1>4 DEF Max

\* What the bids of an auction add up to.
AmountsOf(bids) == [i \in DOMAIN bids |-> bids[i].amount]

LEMMA BidFacts ==
    ASSUME NEW bids \in Seq(Bid)
    PROVE  /\ DOMAIN bids = 1..Len(bids) /\ Len(bids) \in Nat /\ IsFiniteSet(DOMAIN bids)
           /\ \A i \in DOMAIN bids : bids[i] \in Bid /\ bids[i].who \in Players /\ bids[i].amount \in Nat
           /\ \A i \in DOMAIN bids : AmountsOf(bids)[i] \in Nat
           /\ Staked(bids) = SumFunctionOnSet(AmountsOf(bids), DOMAIN bids)
           /\ Staked(bids) \in Nat
<1>1. DOMAIN bids = 1..Len(bids) /\ Len(bids) \in Nat
  BY LenProperties
<1>2. IsFiniteSet(DOMAIN bids)
  BY <1>1, FS_Interval
<1>3. \A i \in DOMAIN bids : bids[i] \in Bid /\ bids[i].who \in Players /\ bids[i].amount \in Nat
  <2>1. \A i \in DOMAIN bids : bids[i] \in Bid
    BY <1>1
  <2> QED
    BY <2>1, SetsAssumption DEF Bid
<1>4. \A i \in DOMAIN bids : AmountsOf(bids)[i] \in Nat
  BY <1>3 DEF AmountsOf
<1>5. Staked(bids) = SumFunctionOnSet(AmountsOf(bids), DOMAIN bids)
  BY DEF Staked, SumFunction, AmountsOf
<1>6. Staked(bids) \in Nat
  <2>1. \A i \in DOMAIN bids : AmountsOf(bids)[i] \in Int
    BY <1>4
  <2>2. Staked(bids) \in Int /\ Staked(bids) >= 0
    BY <1>2, <1>4, <1>5, <2>1, SumType, SumNonNegative
  <2> QED
    BY <2>2
<1> QED
  BY <1>1, <1>2, <1>3, <1>4, <1>5, <1>6

\* returnBids gives back no more than was bid.
LEMMA RefundedPurse ==
    ASSUME NEW m \in Purse, NEW bids \in Seq(Bid)
    PROVE  /\ Refunded(m, bids) \in Purse
           /\ SumFunction(Refunded(m, bids)) <= SumFunction(m) + Staked(bids)
<1> DEFINE D == DOMAIN bids
           f == AmountsOf(bids)
           last == [s \in SUBSET D |-> Max(s)]
           pay == [pair \in D \X Purse |-> Added(pair[2], bids[pair[1]].who, bids[pair[1]].amount)]
           Paid(h, s) == IF s = {} THEN m
                         ELSE Added(h[s \ {Max(s)}], bids[Max(s)].who, bids[Max(s)].amount)
           table(h) == [s \in SUBSET D |-> Paid(h, s)]
<1>1. /\ IsFiniteSet(D)
      /\ \A i \in D : bids[i].who \in Players /\ bids[i].amount \in Nat /\ f[i] = bids[i].amount
  BY BidFacts DEF AmountsOf
<1>2. \A s \in SUBSET D : s # {} => Max(s) \in s
  BY BidFacts, MaxIsMember
<1>3. pay \in [D \X Purse -> Purse]
  BY <1>1, AddedPurse
<1>4. PICK h \in [SUBSET D -> Purse] : IsFold(h, D, m, last, pay)
  <2>1. \A s \in SUBSET D : s # {} => last[s] \in s
    BY <1>2
  <2> HIDE DEF last, pay, D
  <2> QED
    BY <1>1, <1>3, <2>1, FoldDefined, Zenon
<1>5. h = table(h)
  <2> SUFFICES ASSUME NEW s \in SUBSET D PROVE h[s] = Paid(h, s)
    OBVIOUS
  <2>1. CASE s = {}
    BY <1>4, <2>1 DEF IsFold
  <2>2. CASE s # {}
    <3>1. <<Max(s), h[s \ {Max(s)}]>> \in D \X Purse
      BY <1>2, <2>2
    <3>2. h[s] = pay[<<last[s], h[s \ {last[s]}]>>]
      BY <1>4, <2>2 DEF IsFold
    <3> QED
      BY <2>2, <3>1, <3>2
  <2> QED
    BY <2>1, <2>2
<1>6. PICK g : g = table(g) /\ Refunded(m, bids) = g[D]
  BY <1>5 DEF Refunded, FoldLeft, MapThenFoldSet
<1>7. \A s \in SUBSET D : g[s] = Paid(g, s)
  BY <1>6
<1> DEFINE T == {s \in SUBSET D : /\ g[s] \in Purse
                                  /\ SumFunction(g[s]) <= SumFunction(m) + SumFunctionOnSet(f, s)}
<1>8. {} \in T
  <2>1. {} \in SUBSET D
    OBVIOUS
  <2>2. g[{}] = m
    BY <1>7, <2>1
  <2> QED
    BY <2>1, <2>2, SumEmpty, PurseSum
<1>9. \A s \in SUBSET D : s # {} => \E x \in s : s \ {x} \in T => s \in T
  <2> SUFFICES ASSUME NEW s \in SUBSET D, s # {}, s \ {Max(s)} \in T PROVE s \in T
    BY <1>2
  <2> DEFINE x == Max(s)
             r == s \ {x}
  <2>1. x \in s
    BY <1>2
  <2>2. g[s] = Added(g[r], bids[x].who, bids[x].amount)
    BY <1>7
  <2>3. g[r] \in Purse /\ SumFunction(g[r]) <= SumFunction(m) + SumFunctionOnSet(f, r)
    OBVIOUS
  <2>4. g[s] \in Purse /\ SumFunction(g[s]) <= SumFunction(g[r]) + f[x]
    <3> HIDE DEF r, x, f, Paid
    <3> QED
      BY <1>1, <2>1, <2>2, <2>3, AddedPurse
  <2>5. IsFiniteSet(s) /\ IsFiniteSet(r) /\ \A i \in s : f[i] \in Int
    BY <1>1, FS_Subset
  <2>6. SumFunctionOnSet(f, s) = f[x] + SumFunctionOnSet(f, r)
    <3> HIDE DEF x, f
    <3> QED
      BY <2>1, <2>5, SumTake
  <2>7. SumFunctionOnSet(f, r) \in Int /\ f[x] \in Int
    <3> HIDE DEF f, x
    <3> QED
      BY <2>1, <2>5, SumType
  <2>8. SumFunction(g[s]) <= SumFunction(m) + SumFunctionOnSet(f, s)
    <3>1. SumFunction(g[s]) \in Int /\ SumFunction(g[r]) \in Int /\ SumFunction(m) \in Int
      BY <2>3, <2>4, PurseSum
    <3> HIDE DEF f, x, r
    <3> QED
      BY <2>3, <2>4, <2>6, <2>7, <3>1
  <2> QED
    BY <2>4, <2>8
<1> HIDE DEF T
<1>10. \A s \in SUBSET D : s \in T
  BY <1>1, <1>8, <1>9, FiniteInduction
<1>11. D \in T
  BY <1>10
<1> QED
  BY <1>6, <1>11, BidFacts DEF T

\* One bid more.
LEMMA StakedAppend ==
    ASSUME NEW bids \in Seq(Bid), NEW bid \in Bid
    PROVE  Staked(Append(bids, bid)) = Staked(bids) + bid.amount
<1> DEFINE n == Len(bids)
           more == Append(bids, bid)
           f == AmountsOf(bids)
           g == AmountsOf(more)
<1>1. /\ more \in Seq(Bid) /\ Len(more) = n + 1 /\ n \in Nat /\ more[n + 1] = bid
      /\ \A i \in 1..n : more[i] = bids[i]
  BY AppendProperties, LenProperties
<1>2. DOMAIN more = (1..n) \cup {n + 1} /\ DOMAIN bids = 1..n /\ n + 1 \notin 1..n
  BY <1>1, LenProperties
<1> HIDE DEF more, n
<1>3. /\ Staked(more) = SumFunctionOnSet(g, DOMAIN more)
      /\ Staked(bids) = SumFunctionOnSet(f, DOMAIN bids)
      /\ \A i \in DOMAIN more : g[i] \in Int
      /\ \A i \in DOMAIN bids : f[i] \in Int
  BY <1>1, BidFacts
<1>4. g[n + 1] = bid.amount /\ \A i \in 1..n : g[i] = f[i] /\ g[i] \in Int /\ f[i] \in Int
  BY <1>1, <1>2, <1>3 DEF AmountsOf
<1>5. IsFiniteSet(1..n)
  BY <1>1, FS_Interval
<1> HIDE DEF f, g
<1>6. SumFunctionOnSet(g, (1..n) \cup {n + 1}) = g[n + 1] + SumFunctionOnSet(g, 1..n)
  BY <1>2, <1>3, <1>5, SumAdd
<1>7. SumFunctionOnSet(g, 1..n) = SumFunctionOnSet(f, 1..n) /\ SumFunctionOnSet(f, 1..n) \in Int
  BY <1>4, <1>5, SumSame, SumType
<1>8. g[n + 1] \in Int
  BY <1>2, <1>3
<1>9. Staked(more) = Staked(bids) + bid.amount
  BY <1>1, <1>2, <1>3, <1>4, <1>6, <1>7, <1>8
<1> QED
  BY <1>9 DEF more

LEMMA StakedNothing == <<>> \in Seq(Bid) /\ Staked(<<>>) = 0
<1>1. <<>> \in Seq(Bid) /\ DOMAIN <<>> = {}
  OBVIOUS
<1> QED
  BY <1>1, BidFacts, SumEmpty

\* The bids a table of auctions holds, and all the money with it.
Held(table, lots) == [id \in IDs |-> IF table[id] # None THEN Staked(lots[table[id]].bids) ELSE 0]

Total(m, table, lots) == SumFunction(m) + SumFunction(Held(table, lots))

LEMMA SolventIs == Solvent <=> Total(money, auctions, lot) <= AllMoney
<1>1. [id \in IDs |-> Escrow(id)] = Held(auctions, lot)
  BY DEF Escrow, Held, Listed
<1> QED
  BY <1>1 DEF Solvent, Total

LEMMA SolventNext == Solvent' <=> Total(money', auctions', lot') <= AllMoney
<1>1. [id \in IDs |-> Escrow(id)]' = Held(auctions', lot')
  BY DEF Escrow, Held, Listed
<1> QED
  BY <1>1 DEF Solvent, Total

LEMMA HeldFacts ==
    ASSUME NEW lots \in Seq(Lot), NEW table \in [IDs -> 0..Len(lots)]
    PROVE  /\ \A id \in IDs : Held(table, lots)[id] \in Nat
           /\ SumFunction(Held(table, lots)) = SumFunctionOnSet(Held(table, lots), IDs)
           /\ SumFunction(Held(table, lots)) \in Int
<1> DEFINE f == Held(table, lots)
<1>1. \A id \in IDs : f[id] \in Nat
  <2> SUFFICES ASSUME NEW id \in IDs, table[id] # None PROVE Staked(lots[table[id]].bids) \in Nat
    BY DEF Held
  <2>1. table[id] \in 1..Len(lots) /\ DOMAIN lots = 1..Len(lots)
    BY LenProperties DEF None
  <2>2. lots[table[id]] \in Lot
    BY <2>1
  <2> QED
    BY <2>2, BidFacts DEF Lot
<1>2. DOMAIN f = IDs
  BY DEF Held
<1>3. \A id \in IDs : f[id] \in Int
  BY <1>1
<1> HIDE DEF f
<1>4. SumFunction(f) = SumFunctionOnSet(f, IDs) /\ SumFunctionOnSet(f, IDs) \in Int
  BY <1>2, <1>3, IDsFinite, SumType DEF SumFunction
<1> QED
  BY <1>1, <1>4 DEF f

\* What becomes of one auction and its bids may be paid out of the bids it held.
LEMMA TotalStep ==
    ASSUME NEW lots \in Seq(Lot), NEW table \in [IDs -> 0..Len(lots)], NEW m \in Purse,
           NEW lots2 \in Seq(Lot), NEW table2 \in [IDs -> 0..Len(lots2)], NEW m2 \in Purse,
           NEW id \in IDs,
           \A other \in IDs \ {id} : Held(table2, lots2)[other] <= Held(table, lots)[other],
           SumFunction(m2) + Held(table2, lots2)[id] <= SumFunction(m) + Held(table, lots)[id],
           Total(m, table, lots) <= AllMoney
    PROVE  Total(m2, table2, lots2) <= AllMoney
<1> DEFINE f == Held(table, lots)
           g == Held(table2, lots2)
           mid == [other \in IDs |-> IF other = id THEN g[id] ELSE f[other]]
<1>1. /\ \A other \in IDs : f[other] \in Int /\ g[other] \in Int
      /\ SumFunction(f) = SumFunctionOnSet(f, IDs) /\ SumFunction(f) \in Int
      /\ SumFunction(g) = SumFunctionOnSet(g, IDs) /\ SumFunction(g) \in Int
  BY HeldFacts
<1>2. SumFunction(m) \in Int /\ SumFunction(m2) \in Int
  BY PurseSum
<1>3. AllMoney \in Int
  <2>1. Cardinality(Players) \in Nat /\ StartMoney \in Nat
    BY PlayersFinite, FS_CardinalityType, MoneyAssumption
  <2> QED
    BY <2>1 DEF AllMoney
<1>4. /\ SumFunction(m2) + g[id] <= SumFunction(m) + f[id]
      /\ SumFunction(m) + SumFunction(f) <= AllMoney
  BY DEF Total
<1>5. /\ mid[id] = g[id] /\ \A other \in IDs \ {id} : f[other] = mid[other]
      /\ \A other \in IDs : /\ f[other] \in Int /\ mid[other] \in Int
                             /\ g[other] \in Int /\ g[other] <= mid[other]
  BY <1>1
<1> HIDE DEF f, g, mid
<1>6. SumFunctionOnSet(mid, IDs) = SumFunctionOnSet(f, IDs) - f[id] + mid[id]
  <2>1. \A x \in IDs : f[x] \in Int /\ mid[x] \in Int
    BY <1>5
  <2>2. \A x \in IDs \ {id} : f[x] = mid[x]
    BY <1>5
  <2> QED
    BY ONLY <2>1, <2>2, id \in IDs, IDsFinite, SumChanged
<1>7. SumFunctionOnSet(g, IDs) <= SumFunctionOnSet(mid, IDs)
  <2>1. \A x \in IDs : g[x] \in Int /\ mid[x] \in Int /\ g[x] <= mid[x]
    BY <1>5
  <2> QED
    BY <2>1, IDsFinite, SumMonotone
<1>8. SumFunction(m2) + SumFunction(g) <= AllMoney
  <2>1. f[id] \in Int /\ g[id] \in Int /\ mid[id] = g[id]
    BY <1>5
  <2>2. SumFunction(g) <= SumFunction(f) - f[id] + g[id]
    BY <1>1, <1>6, <1>7, <2>1
  <2>3. /\ SumFunction(m) \in Int /\ SumFunction(m2) \in Int /\ AllMoney \in Int
        /\ SumFunction(f) \in Int /\ SumFunction(g) \in Int
    BY <1>1, <1>2, <1>3
  <2> DEFINE a == SumFunction(m)
             b == SumFunction(m2)
             c == SumFunction(f)
             d == SumFunction(g)
             e == f[id]
             h == g[id]
             all == AllMoney
  <2>4. /\ a \in Int /\ b \in Int /\ c \in Int /\ d \in Int /\ e \in Int /\ h \in Int
        /\ all \in Int
    BY <2>1, <2>3
  <2>5. b + h <= a + e /\ a + c <= all /\ d <= c - e + h
    BY <1>4, <2>2
  <2> HIDE DEF a, b, c, d, e, h, all
  <2>6. b + d <= all
    BY ONLY <2>4, <2>5
  <2> QED
    BY <2>6 DEF a, b, c, d, all
<1> QED
  BY <1>8 DEF Total, g

-----------------------------------------------------------------------------
(* Money: the steps. *)

\* An auction that is listed, and is not taken for another one, is found by
\* expireAuction, under its own ID.
LEMMA ExpireListed ==
    ASSUME TablesOK, OnePlace, NEW id \in IDs, auctions[id] # None, NEW seller,
           Expire(auctions[id], seller), lot[auctions[id]].item \notin confused'
    PROVE  auctions' = Unlisted(id)
<1> DEFINE l == auctions[id]
<1>1. l \in 1..Len(lot) /\ lot[l].item \in Items
  <2>1. l \in 1..Len(lot)
    BY LotFacts DEF TablesOK, None
  <2> QED
    BY <2>1, LotFacts DEF Lot
<1>2. id \in IDsOf(l, seller)
  BY DEF IDsOf, Listed
<1>3. PICK k \in IDs : /\ auctions' = [auctions EXCEPT ![k] = None]
                       /\ confused' = Confused(k, l)
  BY <1>2 DEF Expire
<1>4. auctions[k] = l /\ confused' = confused
  BY <1>3 DEF Confused
<1>5. k \in Sold(lot[l].item) /\ id \in Sold(lot[l].item)
  BY <1>4 DEF Sold, Listed
<1>6. k = id
  BY <1>1, <1>4, <1>5 DEF OnePlace, Exclusive, AtMostOne
<1> QED
  BY <1>3, <1>6 DEF Unlisted

\* An object keeps its bids, and so does what its ID holds.
LEMMA HeldKept ==
    ASSUME TablesOK, TablesOK',
           \A l \in 1..Len(lot) : lot'[l].bids = lot[l].bids
    PROVE  \A id \in IDs : auctions'[id] = auctions[id] =>
               Held(auctions', lot')[id] = Held(auctions, lot)[id]
BY LotFacts DEF Held, TablesOK, None

\* Step by step, as TotalStep has it.
LEMMA TotalNext ==
    ASSUME TablesOK, TablesOK', money \in Purse, money' \in Purse, Solvent,
           NEW id \in IDs,
           \A other \in IDs \ {id} :
               Held(auctions', lot')[other] <= Held(auctions, lot)[other],
           SumFunction(money') + Held(auctions', lot')[id]
               <= SumFunction(money) + Held(auctions, lot)[id]
    PROVE  Solvent'
<1>1. /\ lot \in Seq(Lot) /\ auctions \in [IDs -> 0..Len(lot)]
      /\ lot' \in Seq(Lot) /\ auctions' \in [IDs -> 0..Len(lot')]
  BY DEF TablesOK
<1>2. Total(money, auctions, lot) <= AllMoney
  BY SolventIs
<1>3. Total(money', auctions', lot') <= AllMoney
  <2> DEFINE m2 == money'
             table2 == auctions'
             lots2 == lot'
  <2>1. /\ lots2 \in Seq(Lot) /\ table2 \in [IDs -> 0..Len(lots2)] /\ m2 \in Purse
        /\ \A other \in IDs \ {id} : Held(table2, lots2)[other] <= Held(auctions, lot)[other]
        /\ SumFunction(m2) + Held(table2, lots2)[id] <= SumFunction(money) + Held(auctions, lot)[id]
    BY <1>1
  <2> HIDE DEF m2, table2, lots2
  <2>2. Total(m2, table2, lots2) <= AllMoney
    BY <1>1, <1>2, <2>1, TotalStep
  <2> QED
    BY <2>2 DEF m2, table2, lots2
<1> QED
  BY <1>3, SolventNext

\* The objects keep their bids, and money does not grow.
LEMMA TablesKept ==
    ASSUME TablesOK, TablesOK', money \in Purse, money' \in Purse, Solvent,
           \A l \in 1..Len(lot) : lot'[l].bids = lot[l].bids,
           \A id \in IDs : auctions'[id] \in {auctions[id], None},
           SumFunction(money') <= SumFunction(money)
    PROVE  Solvent'
<1>1. /\ lot \in Seq(Lot) /\ auctions \in [IDs -> 0..Len(lot)]
      /\ lot' \in Seq(Lot) /\ auctions' \in [IDs -> 0..Len(lot')]
  BY DEF TablesOK
<1>2. \A id \in IDs : /\ Held(auctions, lot)[id] \in Nat /\ Held(auctions', lot')[id] \in Nat
  BY <1>1, HeldFacts
<1>3. ASSUME NEW id \in IDs PROVE Held(auctions', lot')[id] <= Held(auctions, lot)[id]
  <2>1. CASE auctions'[id] = auctions[id]
    BY <1>2, <2>1, HeldKept
  <2>2. CASE auctions'[id] = None
    <3>1. Held(auctions', lot')[id] = 0
      BY <2>2 DEF Held
    <3> QED
      BY <1>2, <3>1
  <2> QED
    BY <2>1, <2>2
<1>4. SumFunction(money) \in Int /\ SumFunction(money') \in Int
  BY PurseSum
<1>5. 1 \in IDs
  BY BoundAssumption DEF IDs
<1>6. SumFunction(money') + Held(auctions', lot')[1] <= SumFunction(money) + Held(auctions, lot)[1]
  BY <1>2, <1>3, <1>4, <1>5
<1> QED
  BY <1>3, <1>5, <1>6, TotalNext

\* A listed auction goes, and its bids are paid out.
LEMMA PaidOut ==
    ASSUME TablesOK, TablesOK', money \in Purse, money' \in Purse, Solvent,
           \A l \in 1..Len(lot) : lot'[l].bids = lot[l].bids,
           NEW id \in IDs, auctions[id] # None, auctions' = Unlisted(id),
           SumFunction(money') <= SumFunction(money) + Staked(lot[auctions[id]].bids)
    PROVE  Solvent'
<1>1. /\ lot \in Seq(Lot) /\ auctions \in [IDs -> 0..Len(lot)]
      /\ lot' \in Seq(Lot) /\ auctions' \in [IDs -> 0..Len(lot')]
  BY DEF TablesOK
<1>2. /\ auctions'[id] = None
      /\ \A other \in IDs \ {id} : auctions'[other] = auctions[other]
  BY <1>1 DEF Unlisted
<1>3. \A k \in IDs : Held(auctions, lot)[k] \in Nat
  BY <1>1, HeldFacts
<1>4. \A other \in IDs \ {id} : Held(auctions', lot')[other] <= Held(auctions, lot)[other]
  <2> SUFFICES ASSUME NEW other \in IDs \ {id}
               PROVE  Held(auctions', lot')[other] <= Held(auctions, lot)[other]
    OBVIOUS
  <2>1. Held(auctions', lot')[other] = Held(auctions, lot)[other]
    BY <1>2, HeldKept
  <2> QED
    BY <1>3, <2>1
<1>5. /\ Held(auctions', lot')[id] = 0
      /\ Held(auctions, lot)[id] = Staked(lot[auctions[id]].bids)
  BY <1>2 DEF Held
<1>6. SumFunction(money) \in Int /\ SumFunction(money') \in Int
  BY PurseSum
<1>7. SumFunction(money') + Held(auctions', lot')[id] <= SumFunction(money) + Held(auctions, lot)[id]
  BY <1>3, <1>5, <1>6
<1> QED
  BY <1>4, <1>7, TotalNext

\* What the task takes from a seller, or not.
LEMMA TaxedPurse ==
    ASSUME TablesOK, money \in Purse, NEW l \in 1..Len(lot), ~Untaxable(l)
    PROVE  Taxed(l) \in Purse /\ SumFunction(Taxed(l)) <= SumFunction(money)
<1>1. lot[l].seller \in Players /\ Tax \in Nat
  BY LotFacts, MoneyAssumption DEF Lot
<1>2. SumFunction(money) \in Int
  BY PurseSum
<1>3. CASE lot[l].seller \in Ranked
  BY <1>2, <1>3 DEF Taxed
<1>4. CASE lot[l].seller \notin Ranked
  <2>1. CanPay(money, lot[l].seller, Tax)
    BY <1>4 DEF Untaxable
  <2>2. Taxed(l) = Reduced(money, lot[l].seller, Tax)
    BY <1>4 DEF Taxed
  <2> QED
    BY <1>1, <1>2, <2>1, <2>2, ReducedPurse
<1> QED
  BY <1>3, <1>4

\* The first loop meets one auction, which is still listed.
LEMMA VisitAuctionMoney ==
    ASSUME IInv, SolventInv, TablesOK', confused = {}, confused' = {}, VisitAuction
    PROVE  SolventInv'
<1>1. /\ TablesOK /\ OnePlace /\ money \in Purse /\ VisitsListed /\ Solvent
  BY DEF IInv, TablesInv, SolventInv, VisitAuction
<1>2. PICK id \in IDs :
          /\ visiting[id] # None
          /\ LET l == visiting[id] IN
                 TakeDown(l) \/ TakeForTax(l) \/ EndBidding(l) \/ StayListed(l)
          /\ visiting' = [visiting EXCEPT ![id] = None]
  BY DEF VisitAuction
<1> DEFINE l == auctions[id]
           bids == lot[l].bids
<1>3. visiting[id] = l /\ auctions[id] # None
  BY <1>1, <1>2 DEF VisitsListed
<1>4. l \in 1..Len(lot) /\ bids \in Seq(Bid)
  <2>1. l \in 1..Len(lot)
    BY <1>1, <1>3, LotFacts DEF TablesOK, None
  <2>2. lot[l] \in Lot
    BY <1>1, <2>1, LotFacts
  <2> QED
    BY <2>1, <2>2 DEF Lot
<1>5. Staked(bids) \in Nat /\ SumFunction(money) \in Int
  BY <1>1, <1>4, BidFacts, PurseSum
<1>6. CASE StayListed(l)
  <2>1. UNCHANGED <<lot, auctions>> /\ money' = Taxed(l)
    BY <1>6 DEF StayListed, tableVars
  <2>2. money' \in Purse /\ SumFunction(money') <= SumFunction(money)
    BY <1>1, <1>4, <1>6, <2>1, TaxedPurse DEF StayListed
  <2>3. Solvent'
    BY <1>1, <2>1, <2>2, TablesKept
  <2> QED
    BY <2>2, <2>3 DEF SolventInv
<1>7. CASE TakeDown(l) \/ TakeForTax(l) \/ EndBidding(l)
  <2>1. \E seller : Expire(l, seller)
    BY <1>7 DEF TakeDown, TakeForTax, EndBidding
  <2>2. auctions' = Unlisted(id)
    BY <1>1, <1>3, <2>1, ExpireListed
  <2>3. \A m \in 1..Len(lot) : lot'[m].bids = lot[m].bids
    <3>1. CASE lot' = lot
      BY <3>1
    <3>2. CASE EndBidding(l)
      <4>1. PICK who : lot' = [lot EXCEPT ![l].seller = who]
        BY <3>2 DEF EndBidding
      <4>2. \A m \in 1..Len(lot) : lot[m] \in Lot /\ m \in DOMAIN lot
        BY <1>1, LotFacts
      <4> QED
        BY <4>1, <4>2 DEF Lot
    <3> QED
      BY <1>7, <3>1, <3>2 DEF TakeDown, TakeForTax
  <2>4. money' \in Purse /\ SumFunction(money') <= SumFunction(money) + Staked(bids)
    <3>1. CASE TakeDown(l)
      BY <1>1, <1>5, <3>1 DEF TakeDown
    <3>2. CASE TakeForTax(l)
      BY <1>1, <1>4, <3>2, RefundedPurse DEF TakeForTax
    <3>3. CASE EndBidding(l)
      <4> DEFINE taxed == Taxed(l)
      <4>1. taxed \in Purse /\ SumFunction(taxed) <= SumFunction(money)
        BY <1>1, <1>4, <3>3, TaxedPurse DEF EndBidding
      <4>2. money' = Refunded(taxed, bids)
        BY <3>3 DEF EndBidding
      <4> HIDE DEF taxed, bids
      <4>3. money' \in Purse /\ SumFunction(money') <= SumFunction(taxed) + Staked(bids)
        BY <1>4, <4>1, <4>2, RefundedPurse
      <4>4. SumFunction(money') \in Int /\ SumFunction(taxed) \in Int
        BY <4>1, <4>3, PurseSum
      <4> QED
        BY <1>5, <4>1, <4>3, <4>4
    <3> QED
      BY <1>7, <3>1, <3>2, <3>3
  <2>5. Solvent'
    BY <1>1, <1>3, <2>2, <2>3, <2>4, PaidOut
  <2> QED
    BY <2>4, <2>5 DEF SolventInv
<1> QED
  BY <1>2, <1>3, <1>6, <1>7

\* An auction that leaves the list by its seller or a buyer.
LEMMA UnlistMoney ==
    ASSUME IInv, SolventInv, TablesOK', NEW p \in Players, NEW id \in IDs,
           Retire(p, id) \/ Buy(p, id)
    PROVE  SolventInv'
<1> DEFINE l == auctions[id]
           bids == lot[l].bids
           price == lot[l].price
           seller == lot[l].seller
<1>1. /\ TablesOK /\ money \in Purse /\ Solvent /\ lot' = lot
      /\ auctions' = Unlisted(id) /\ l # None /\ phase' = "idle"
  BY DEF IInv, TablesInv, SolventInv, Retire, Buy, ToBuy, Listed, Idle, taskVars
<1>2. /\ l \in 1..Len(lot) /\ lot[l] \in Lot
  <2>1. l \in 1..Len(lot)
    BY <1>1, LotFacts DEF TablesOK, None
  <2> QED
    BY <1>1, <2>1, LotFacts
<1>3. bids \in Seq(Bid) /\ price \in Nat /\ seller \in Players
  BY <1>2, SetsAssumption DEF Lot
<1>4. Staked(bids) \in Nat /\ SumFunction(money) \in Int
  BY <1>1, <1>3, BidFacts, PurseSum
<1>5. money' \in Purse /\ SumFunction(money') <= SumFunction(money) + Staked(bids)
  <2>1. CASE Retire(p, id)
    BY <1>1, <1>3, <2>1, RefundedPurse DEF Retire
  <2>2. CASE Buy(p, id)
    <3> DEFINE left == Reduced(money, p, price)
    <3>1. CanPay(money, p, price) /\ money' = Added(left, seller, price)
      BY <2>2 DEF Buy
    <3> HIDE DEF seller, price, bids
    <3>2. left \in Purse /\ SumFunction(left) = SumFunction(money) - price
      BY <1>1, <1>3, <3>1, ReducedPurse
    <3> HIDE DEF left
    <3>3. money' \in Purse /\ SumFunction(money') <= SumFunction(left) + price
      BY <1>3, <3>1, <3>2, AddedPurse
    <3>4. SumFunction(money') \in Int
      BY <3>3, PurseSum
    <3> QED
      BY <1>3, <1>4, <3>2, <3>3, <3>4
  <2> QED
    BY <2>1, <2>2
<1>6. Solvent'
  <2>1. \A m \in 1..Len(lot) : lot'[m].bids = lot[m].bids
    BY <1>1
  <2> QED
    BY <1>1, <1>5, <2>1, PaidOut
<1> QED
  BY <1>5, <1>6 DEF SolventInv

\* A bid goes from a purse to the bids of its auction, which has one ID at most.
LEMMA PostBidMoney ==
    ASSUME IInv, SolventInv, TablesOK', confused = {}, NEW p \in Players,
           NEW amount \in Amounts, PostBid(p, amount)
    PROVE  SolventInv'
<1> DEFINE l == bidForm[p]
           bid == [who |-> p, amount |-> amount]
<1>1. /\ TablesOK /\ OnePlace /\ money \in Purse /\ Solvent /\ auctions' = auctions
      /\ phase' = "idle" /\ l # None /\ CanPay(money, p, amount)
      /\ money' = Reduced(money, p, amount)
      /\ lot' = [lot EXCEPT ![l].bids = Append(@, bid)]
  BY DEF IInv, TablesInv, SolventInv, PostBid, Idle, taskVars
<1>2. amount \in Nat /\ bid \in Bid /\ bid.amount = amount
  BY SetsAssumption DEF Bid
<1>3. l \in 1..Len(lot)
  BY <1>1, LotFacts DEF TablesOK, None
<1>4. \A m \in 1..Len(lot) : lot[m] \in Lot /\ m \in DOMAIN lot
  BY <1>1, LotFacts
<1>5. /\ lot[l].item \in Items /\ lot[l].bids \in Seq(Bid)
      /\ lot'[l].bids = Append(lot[l].bids, bid)
      /\ \A m \in 1..Len(lot) : m # l => lot'[m] = lot[m]
  BY <1>1, <1>3, <1>4 DEF Lot
<1>6. money' \in Purse /\ SumFunction(money') = SumFunction(money) - amount
  BY <1>1, <1>2, ReducedPurse
<1>7. SumFunction(money) \in Int
  BY <1>1, PurseSum
<1>8. \A k \in IDs : auctions[k] \in 1..Len(lot) \/ auctions[k] = None
  BY <1>1, LotFacts DEF TablesOK, None
<1>9. \A k \in IDs : Held(auctions, lot)[k] \in Nat
  BY <1>1, HeldFacts DEF TablesOK
<1>10. \A k \in IDs : auctions[k] # l => Held(auctions', lot')[k] = Held(auctions, lot)[k]
  BY <1>1, <1>5, <1>8 DEF Held
<1>11. CASE \A k \in IDs : auctions[k] # l
  <2>1. 1 \in IDs
    BY BoundAssumption DEF IDs
  <2>2. \A k \in IDs : Held(auctions', lot')[k] <= Held(auctions, lot)[k]
    BY <1>9, <1>10, <1>11
  <2>3. SumFunction(money') + Held(auctions', lot')[1] <= SumFunction(money) + Held(auctions, lot)[1]
    <3> DEFINE a == SumFunction(money)
               b == SumFunction(money')
               c == Held(auctions, lot)[1]
               d == Held(auctions', lot')[1]
    <3>1. a \in Int /\ amount \in Nat /\ b = a - amount /\ c \in Nat
      BY <1>2, <1>6, <1>7, <1>9, <2>1
    <3>2. d = c
      BY <1>10, <1>11, <2>1
    <3> HIDE DEF a, b, c, d
    <3>3. b + d <= a + c
      BY <3>1, <3>2
    <3> QED
      BY <3>3 DEF a, b, c, d
  <2>4. \A other \in IDs \ {1} : Held(auctions', lot')[other] <= Held(auctions, lot)[other]
    BY <2>2
  <2>5. /\ TablesOK /\ TablesOK' /\ money \in Purse /\ money' \in Purse /\ Solvent
    BY <1>1, <1>6
  <2> HIDE DEF l, bid
  <2>6. Solvent'
    BY ONLY <2>1, <2>3, <2>4, <2>5, TotalNext
  <2> QED
    BY <1>1, <1>6, <2>6 DEF SolventInv
<1>12. CASE \E k \in IDs : auctions[k] = l
  <2>1. PICK id \in IDs : auctions[id] = l
    BY <1>12
  <2>2. \A k \in IDs : auctions[k] = l => k \in Sold(lot[l].item)
    BY <1>1 DEF Sold, Listed
  <2>3. \A other \in IDs \ {id} : auctions[other] # l
    BY <1>1, <1>5, <2>1, <2>2 DEF OnePlace, Exclusive, AtMostOne
  <2>4. \A other \in IDs \ {id} : Held(auctions', lot')[other] <= Held(auctions, lot)[other]
    BY <1>9, <1>10, <2>3
  <2>5. /\ Held(auctions, lot)[id] = Staked(lot[l].bids)
        /\ Held(auctions', lot')[id] = Staked(Append(lot[l].bids, bid))
    BY <1>1, <1>5, <2>1 DEF Held
  <2>6. /\ Staked(Append(lot[l].bids, bid)) = Staked(lot[l].bids) + amount
        /\ Staked(lot[l].bids) \in Nat
    <3> HIDE DEF bid
    <3> QED
      BY <1>2, <1>5, StakedAppend, BidFacts
  <2>7. SumFunction(money') + Held(auctions', lot')[id] <= SumFunction(money) + Held(auctions, lot)[id]
    <3> DEFINE a == SumFunction(money)
               b == SumFunction(money')
               c == Held(auctions, lot)[id]
               d == Held(auctions', lot')[id]
    <3>1. a \in Int /\ amount \in Nat /\ b = a - amount
      BY <1>2, <1>6, <1>7
    <3>2. d = c + amount /\ c \in Nat
      BY <2>5, <2>6
    <3> HIDE DEF a, b, c, d
    <3>3. b + d <= a + c
      BY <3>1, <3>2
    <3> QED
      BY <3>3 DEF a, b, c, d
  <2>8. /\ TablesOK /\ TablesOK' /\ money \in Purse /\ money' \in Purse /\ Solvent
        /\ id \in IDs
    BY <1>1, <1>6, <2>1
  <2> HIDE DEF l, bid
  <2>9. Solvent'
    BY ONLY <2>4, <2>7, <2>8, TotalNext
  <2> QED
    BY <1>1, <1>6, <2>9 DEF SolventInv
<1> QED
  BY <1>11, <1>12

\* A new auction holds no bids, and takes an ID that held none.
LEMMA SellMoney ==
    ASSUME IInv, SolventInv, TablesOK', NEW p \in Players, NEW item, NEW price,
           NEW biddable, NEW duration, Sell(p, item, price, biddable, duration)
    PROVE  SolventInv'
<1>1. /\ TablesOK /\ money \in Purse /\ Solvent /\ phase' = "idle"
      /\ lot \in Seq(Lot) /\ Len(lot) \in Nat
  BY LotFacts DEF IInv, TablesInv, SolventInv, Sell, Idle, taskVars, TablesOK
<1>2. PICK id \in IDs : IsNextID(id) /\ auctions' = [auctions EXCEPT ![id] = Len(lot) + 1]
  BY DEF Sell
<1>3. auctions[id] = None
  BY <1>2 DEF IsNextID, Listed, IDs
<1>4. PICK new : lot' = Append(lot, new) /\ new.bids = <<>>
  BY DEF Sell
<1>5. /\ \A m \in 1..Len(lot) : lot'[m] = lot[m]
      /\ lot'[Len(lot) + 1] = new
  BY <1>1, <1>4
<1>6. /\ auctions'[id] = Len(lot) + 1 /\ auctions'[id] # None
      /\ \A other \in IDs \ {id} : auctions'[other] = auctions[other]
  BY <1>1, <1>2 DEF TablesOK, None
<1>7. money' \in Purse /\ SumFunction(money') <= SumFunction(money)
  <2>1. CASE p \in Ranked
    <3>1. CanPay(money, p, Cost) /\ money' = Reduced(money, p, Cost) /\ Cost \in Nat
      BY <2>1, MoneyAssumption DEF Sell
    <3>2. money' \in Purse /\ SumFunction(money') = SumFunction(money) - Cost
      BY <1>1, <3>1, ReducedPurse
    <3> QED
      BY <1>1, <3>1, <3>2, PurseSum
  <2>2. CASE p \notin Ranked
    BY <1>1, <2>2, PurseSum DEF Sell
  <2> QED
    BY <2>1, <2>2
<1>8. \A k \in IDs : Held(auctions, lot)[k] \in Nat
  BY <1>1, HeldFacts DEF TablesOK
<1>9. \A other \in IDs \ {id} : Held(auctions', lot')[other] <= Held(auctions, lot)[other]
  <2>1. \A k \in IDs : auctions[k] \in 1..Len(lot) \/ auctions[k] = None
    <3>1. auctions \in [IDs -> 0..Len(lot)] /\ Len(lot) \in Nat
      BY <1>1 DEF TablesOK
    <3> QED
      BY ONLY <3>1 DEF None
  <2>2. \A other \in IDs \ {id} : Held(auctions', lot')[other] = Held(auctions, lot)[other]
    BY <1>5, <1>6, <2>1 DEF Held
  <2> QED
    BY <1>8, <2>2
<1>10. Held(auctions', lot')[id] = 0 /\ Held(auctions, lot)[id] = 0
  BY <1>3, <1>4, <1>5, <1>6, StakedNothing DEF Held
<1>11. SumFunction(money') + Held(auctions', lot')[id] <= SumFunction(money) + Held(auctions, lot)[id]
  BY <1>1, <1>7, <1>10, PurseSum
<1>12. Solvent'
  BY <1>1, <1>7, <1>9, <1>11, TotalNext
<1> QED
  BY <1>7, <1>12 DEF SolventInv

\* Everything else leaves the bids alone, lists nothing, and pays nobody: the ends
\* of the loops, the second loop, forms, refused sales, time and restarts.
QuietMoney == \/ TaskBegin \/ SecondLoop \/ TaskEnd \/ Second \/ Restart \/ UNCHANGED vars
              \/ \E id \in IDs : VisitExpired(id)
              \/ \E p \in Players : SellRefused(p) \/ ForgetPurchase(p) \/ CloseBidForm(p)
              \/ \E p \in Players, id \in IDs : AskToConfirm(p, id) \/ OpenBidForm(p, id)

LEMMA QuietMoneyStep ==
    ASSUME IInv, SolventInv, TablesOK', QuietMoney PROVE SolventInv'
<1>1. TablesOK /\ money \in Purse /\ Solvent
  BY DEF IInv, TablesInv, SolventInv
<1>2. lot' = lot
  BY DEF QuietMoney, TaskBegin, SecondLoop, TaskEnd, Second, Restart, vars, VisitExpired,
         SellRefused, ForgetPurchase, CloseBidForm, AskToConfirm, OpenBidForm, tableVars
<1>3. \A id \in IDs : auctions'[id] \in {auctions[id], None}
  BY DEF QuietMoney, TaskBegin, SecondLoop, TaskEnd, Second, Restart, vars, VisitExpired,
         SellRefused, ForgetPurchase, CloseBidForm, AskToConfirm, OpenBidForm, tableVars, NoLots
<1>4. money' \in Purse /\ SumFunction(money') <= SumFunction(money)
  <2>1. CASE \E p \in Players : SellRefused(p)
    <3>1. PICK p \in Players : CanPay(money, p, Cost) /\ money' = Reduced(money, p, Cost)
      BY <2>1 DEF SellRefused
    <3>2. Cost \in Nat
      BY MoneyAssumption
    <3>3. money' \in Purse /\ SumFunction(money') = SumFunction(money) - Cost
      BY <1>1, <3>1, <3>2, ReducedPurse
    <3> QED
      BY <1>1, <3>2, <3>3, PurseSum
  <2>2. CASE ~ \E p \in Players : SellRefused(p)
    <3>1. money' = money
      BY <2>2 DEF QuietMoney, TaskBegin, SecondLoop, TaskEnd, Second, Restart, vars,
                  VisitExpired, ForgetPurchase, CloseBidForm, AskToConfirm, OpenBidForm
    <3> QED
      BY <1>1, <3>1, PurseSum
  <2> QED
    BY <2>1, <2>2
<1>5. Solvent'
  <2>1. \A l \in 1..Len(lot) : lot'[l].bids = lot[l].bids
    BY <1>2
  <2> QED
    BY <1>1, <1>3, <1>4, <2>1, TablesKept
<1> QED
  BY <1>4, <1>5 DEF SolventInv

LEMMA MoneyAtFirst == Init => MoneyInv
<1> SUFFICES ASSUME Init PROVE MoneyInv
  OBVIOUS
<1>1. money = [p \in Players |-> StartMoney] /\ auctions = NoLots /\ lot = <<>> /\ phase = "idle"
  BY DEF Init
<1>2. money \in Purse /\ StartMoney \in Int
  BY <1>1, MoneyAssumption DEF Purse
<1>3. SumFunction(money) = AllMoney
  <2>1. \A p \in Players : money[p] = StartMoney
    BY <1>1
  <2>2. SumFunctionOnSet(money, Players) = StartMoney * Cardinality(Players)
    BY <1>2, <2>1, PlayersFinite, SumConstant
  <2> QED
    BY <1>2, <2>2, PurseSum DEF AllMoney
<1>4. SumFunction(Held(auctions, lot)) = 0
  <2> DEFINE f == Held(auctions, lot)
  <2>1. DOMAIN f = IDs /\ \A id \in IDs : f[id] = 0
    BY <1>1 DEF Held, NoLots
  <2>2. Cardinality(IDs) \in Nat /\ 0 \in Int
    BY IDsFinite, FS_CardinalityType
  <2> HIDE DEF f
  <2>3. SumFunctionOnSet(f, IDs) = 0 * Cardinality(IDs)
    BY <2>1, <2>2, IDsFinite, SumConstant
  <2> QED
    BY <2>1, <2>2, <2>3 DEF SumFunction, f
<1>5. Solvent
  <2>1. SumFunction(money) \in Int
    BY <1>2, PurseSum
  <2> QED
    BY <1>3, <1>4, <2>1, SolventIs DEF Total
<1> QED
  BY <1>1, <1>2, <1>5 DEF MoneyInv, NoMoneyMade, Solvent, AllMoney

-----------------------------------------------------------------------------
(* Types. *)

LEMMA TablesStep == TablesInv /\ [NextWithRestart]_vars => TablesInv'
<1> SUFFICES ASSUME TablesInv, [NextWithRestart]_vars PROVE TablesInv'
  OBVIOUS
<1>1. CASE AuctionTask
  BY <1>1, VisitAuctionTables, VisitExpiredTables, LoopTables DEF AuctionTask
<1>2. CASE Command
  <2>1. TRUE \in BOOLEAN /\ FALSE \in BOOLEAN /\ 0 \in Nat /\ BidTimes \subseteq Nat
    BY SetsAssumption
  <2> QED
    BY <1>2, <2>1, SellTables, UnlistTables, PostBidTables, FormTables DEF Command
<1>3. CASE Second \/ Restart
  BY <1>3, SecondTables, RestartTables
<1>4. CASE UNCHANGED vars
  BY <1>4 DEF vars, TablesInv, TablesOK, CollectsExpired
<1> QED
  BY <1>1, <1>2, <1>3, <1>4 DEF NextWithRestart, Next

\* Whoever pays had the money.
LEMMA PurseStep == TablesOK /\ money \in Purse /\ [NextWithRestart]_vars => money' \in Purse
<1> SUFFICES ASSUME TablesOK, money \in Purse, [NextWithRestart]_vars PROVE money' \in Purse
  OBVIOUS
<1>1. \A l \in 1..Len(lot) : lot[l].bids \in Seq(Bid) /\ lot[l].price \in Nat
                              /\ lot[l].seller \in Players
  BY LotFacts, SetsAssumption DEF Lot
<1>2. Cost \in Nat /\ Amounts \subseteq Nat
  BY MoneyAssumption, SetsAssumption
<1>3. /\ \A id \in Listed : id \in IDs /\ auctions[id] \in 1..Len(lot)
      /\ \A id \in IDs : visiting[id] # None => visiting[id] \in 1..Len(lot)
  <2>1. \A k \in 0..Len(lot) : k # None => k \in 1..Len(lot)
    BY LotFacts DEF None
  <2>2. \A id \in Listed : id \in IDs /\ auctions[id] # None
    BY DEF Listed
  <2> QED
    BY <2>1, <2>2 DEF TablesOK
<1>4. CASE VisitAuction
  <2> DEFINE Visited(l) == TakeDown(l) \/ TakeForTax(l) \/ EndBidding(l) \/ StayListed(l)
  <2>6. PICK id \in IDs : visiting[id] # None /\ Visited(visiting[id])
    BY <1>4 DEF VisitAuction
  <2> HIDE DEF Visited
  <2>7. PICK l \in 1..Len(lot) : Visited(l)
    BY <1>3, <2>6
  <2>1. TakeDown(l) \/ TakeForTax(l) \/ EndBidding(l) \/ StayListed(l)
    BY <2>7 DEF Visited
  <2>2. CASE TakeDown(l)
    BY <2>2 DEF TakeDown
  <2>3. CASE TakeForTax(l)
    BY <1>1, <2>3, RefundedPurse DEF TakeForTax
  <2>4. CASE EndBidding(l)
    <3>1. Taxed(l) \in Purse
      BY <2>4, TaxedPurse DEF EndBidding
    <3>2. money' = Refunded(Taxed(l), lot[l].bids)
      BY <2>4 DEF EndBidding
    <3> QED
      BY <1>1, <3>1, <3>2, RefundedPurse
  <2>5. CASE StayListed(l)
    BY <2>5, TaxedPurse DEF StayListed
  <2> QED
    BY <2>1, <2>2, <2>3, <2>4, <2>5
<1>5. CASE \E p \in Players : \E item, price, biddable, d : Sell(p, item, price, biddable, d)
  <2>1. PICK p \in Players :
             /\ p \in Ranked => CanPay(money, p, Cost) /\ money' = Reduced(money, p, Cost)
             /\ p \notin Ranked => money' = money
    BY <1>5 DEF Sell
  <2> QED
    BY <1>2, <2>1, ReducedPurse
<1>6. CASE \E p \in Players : SellRefused(p)
  BY <1>2, <1>6, ReducedPurse DEF SellRefused
<1>7. CASE \E p \in Players, id \in IDs : Retire(p, id)
  <2>1. PICK id \in Listed : money' = Refunded(money, lot[auctions[id]].bids)
    BY <1>7 DEF Retire
  <2> QED
    BY <1>1, <1>3, <2>1, RefundedPurse
<1>8. CASE \E p \in Players, id \in IDs : Buy(p, id)
  <2>1. PICK p \in Players, id \in Listed :
             LET l == auctions[id]
             IN  /\ CanPay(money, p, lot[l].price)
                 /\ money' = Added(Reduced(money, p, lot[l].price), lot[l].seller, lot[l].price)
    BY <1>8 DEF Buy, ToBuy
  <2> DEFINE l == auctions[id]
             left == Reduced(money, p, lot[l].price)
  <2>2. /\ l \in 1..Len(lot) /\ CanPay(money, p, lot[l].price)
        /\ money' = Added(left, lot[l].seller, lot[l].price)
    BY <1>3, <2>1
  <2>3. left \in Purse
    BY <1>1, <2>2, ReducedPurse
  <2> HIDE DEF left, l
  <2> QED
    BY <1>1, <2>2, <2>3, AddedPurse
<1>9. CASE \E p \in Players, amount \in Amounts : PostBid(p, amount)
  BY <1>2, <1>9, ReducedPurse DEF PostBid
<1>10. CASE QuietMoney /\ ~ \E p \in Players : SellRefused(p)
  BY <1>10 DEF QuietMoney, TaskBegin, SecondLoop, TaskEnd, Second, Restart, vars,
               VisitExpired, ForgetPurchase, CloseBidForm, AskToConfirm, OpenBidForm
<1> QED
  BY <1>4, <1>5, <1>6, <1>7, <1>8, <1>9, <1>10
     DEF NextWithRestart, Next, AuctionTask, Command, QuietMoney

\* As long as no auction is taken for another one.
LEMMA SolventStep ==
    ASSUME IInv, SolventInv, [NextWithRestart]_vars, confused = {}, confused' = {}
    PROVE  SolventInv'
<1>1. TablesOK'
  BY Step DEF IInv, TablesInv
<1>2. CASE AuctionTask
  BY <1>1, <1>2, VisitAuctionMoney, QuietMoneyStep DEF AuctionTask, QuietMoney
<1>3. CASE Command
  <2>1. PICK p \in Players :
            \/ \E item \in Items, price \in Prices :
                   \/ Sell(p, item, price, FALSE, 0)
                   \/ \E d \in BidTimes : Sell(p, item, price, TRUE, d)
            \/ SellRefused(p) \/ ForgetPurchase(p) \/ CloseBidForm(p)
            \/ \E id \in IDs :
                   Retire(p, id) \/ AskToConfirm(p, id) \/ Buy(p, id) \/ OpenBidForm(p, id)
            \/ \E amount \in Amounts : PostBid(p, amount)
    BY <1>3 DEF Command
  <2>2. CASE \E item, price, biddable, d : Sell(p, item, price, biddable, d)
    BY <1>1, <2>2, SellMoney
  <2>3. CASE \E id \in IDs : Retire(p, id) \/ Buy(p, id)
    BY <1>1, <2>3, UnlistMoney
  <2>4. CASE \E amount \in Amounts : PostBid(p, amount)
    BY <1>1, <2>4, PostBidMoney
  <2>5. CASE \/ SellRefused(p) \/ ForgetPurchase(p) \/ CloseBidForm(p)
             \/ \E id \in IDs : AskToConfirm(p, id) \/ OpenBidForm(p, id)
    <3>1. QuietMoney
      BY <2>5 DEF QuietMoney
    <3> QED
      BY <1>1, <3>1, QuietMoneyStep
  <2> QED
    BY <2>1, <2>2, <2>3, <2>4, <2>5
<1>4. CASE Second \/ Restart \/ UNCHANGED vars
  BY <1>1, <1>4, QuietMoneyStep DEF QuietMoney
<1> QED
  BY <1>2, <1>3, <1>4 DEF NextWithRestart, Next

\* Which cannot be made up for.
LEMMA StaysConfused == IInv /\ [NextWithRestart]_vars => confused \subseteq confused'
<1> SUFFICES ASSUME IInv, [NextWithRestart]_vars PROVE confused \subseteq confused'
  OBVIOUS
<1>1. CASE VisitAuction
  <2>1. PICK l : TakeDown(l) \/ TakeForTax(l) \/ EndBidding(l) \/ StayListed(l)
    BY <1>1 DEF VisitAuction
  <2>2. (\E seller : Expire(l, seller)) \/ confused' = confused
    BY <2>1 DEF TakeDown, TakeForTax, EndBidding, StayListed, tableVars
  <2> QED
    BY <2>2, ExpireTakes DEF Taken, Mistaken
<1>2. CASE TaskBegin \/ SecondLoop \/ TaskEnd \/ \E id \in IDs : VisitExpired(id)
  BY <1>2 DEF TaskBegin, SecondLoop, TaskEnd, VisitExpired, tableVars
<1>3. CASE Command
  <2>1. \A p, item, price, biddable, d :
            Sell(p, item, price, biddable, d) => confused' = confused
    BY DEF Sell
  <2>2. \A p, id : Retire(p, id) \/ AskToConfirm(p, id) \/ Buy(p, id) \/ OpenBidForm(p, id)
                      => confused' = confused
    BY DEF Retire, AskToConfirm, Buy, OpenBidForm, tableVars
  <2>3. \A p, amount : PostBid(p, amount) => confused' = confused
    BY DEF PostBid
  <2>4. \A p : SellRefused(p) \/ ForgetPurchase(p) \/ CloseBidForm(p) => confused' = confused
    BY DEF SellRefused, ForgetPurchase, CloseBidForm, tableVars
  <2> QED
    BY <1>3, <2>1, <2>2, <2>3, <2>4 DEF Command
<1>4. CASE Second \/ Restart \/ UNCHANGED vars
  BY <1>4 DEF Second, Restart, vars, tableVars
<1> QED
  BY <1>1, <1>2, <1>3, <1>4 DEF NextWithRestart, Next, AuctionTask

LEMMA MoneyStep == IInv /\ MoneyInv /\ [NextWithRestart]_vars => MoneyInv'
<1> SUFFICES ASSUME IInv, MoneyInv, [NextWithRestart]_vars PROVE MoneyInv'
  OBVIOUS
<1>1. money' \in Purse
  BY PurseStep DEF IInv, TablesInv, MoneyInv
<1>2. ASSUME confused' = {} PROVE Solvent'
  <2>1. confused = {}
    BY <1>2, StaysConfused
  <2>2. SolventInv
    BY <2>1 DEF MoneyInv, NoMoneyMade, SolventInv, Solvent, AllMoney
  <2> QED
    BY <1>2, <2>1, <2>2, SolventStep DEF SolventInv
<1> QED
  BY <1>1, <1>2 DEF MoneyInv, NoMoneyMade, Solvent, AllMoney

-----------------------------------------------------------------------------
(* Whose an item is: the steps as those of AuctionCustody.  An item that is   *)
(* in one place has a custody of one place, so that a step is known by where  *)
(* the one item that it moves was, and where it is.                           *)

LEMMA CustodyIs ==
    ASSUME NEW item
    PROVE  CustodyOf(item) =
               {Place("hands", p, {}) : p \in Hands(item)}
               \cup {Place("list", lot[auctions[id]].seller, Bidders(auctions[id])) :
                         id \in Sold(item)}
               \cup {Place("store", lot[expired[id]].seller, {}) : id \in Stored(item)}
BY DEF CustodyOf, Hands, Sold, Stored

\* In somebody's hands, on the list, or in the store, before a step and after it.
LEMMA InHands ==
    ASSUME OnePlace, NEW item \in Items \ confused, NEW p \in Hands(item)
    PROVE  CustodyOf(item) = {Place("hands", p, {})}
<1>1. Hands(item) = {p} /\ Sold(item) = {} /\ Stored(item) = {}
  BY DEF OnePlace, Exclusive, AtMostOne
<1> QED
  BY <1>1, CustodyIs

LEMMA OnList ==
    ASSUME OnePlace, NEW item \in Items \ confused, NEW id \in Sold(item)
    PROVE  CustodyOf(item) =
               {Place("list", lot[auctions[id]].seller, Bidders(auctions[id]))}
<1>1. Hands(item) = {} /\ Sold(item) = {id} /\ Stored(item) = {}
  BY DEF OnePlace, Exclusive, AtMostOne
<1> QED
  BY <1>1, CustodyIs

LEMMA InStore ==
    ASSUME OnePlace, NEW item \in Items \ confused, NEW id \in Stored(item)
    PROVE  CustodyOf(item) = {Place("store", lot[expired[id]].seller, {})}
<1>1. Hands(item) = {} /\ Sold(item) = {} /\ Stored(item) = {id}
  BY DEF OnePlace, Exclusive, AtMostOne
<1> QED
  BY <1>1, CustodyIs

LEMMA InHandsNext ==
    ASSUME OnePlace', NEW item \in Items \ confused', NEW p, p \in Hands(item)'
    PROVE  CustodyOf(item)' = {Place("hands", p, {})}
<1>1. Hands(item)' = {p} /\ Sold(item)' = {} /\ Stored(item)' = {}
  BY DEF OnePlace, Exclusive, AtMostOne
<1> QED
  BY <1>1 DEF CustodyOf, Hands, Sold, Stored

LEMMA OnListNext ==
    ASSUME OnePlace', NEW item \in Items \ confused', NEW id, id \in Sold(item)'
    PROVE  CustodyOf(item)' =
               {Place("list", lot'[auctions'[id]].seller, Bidders(auctions[id])')}
<1>1. Hands(item)' = {} /\ Sold(item)' = {id} /\ Stored(item)' = {}
  BY DEF OnePlace, Exclusive, AtMostOne
<1> QED
  BY <1>1 DEF CustodyOf, Hands, Sold, Stored

LEMMA InStoreNext ==
    ASSUME OnePlace', NEW item \in Items \ confused', NEW id, id \in Stored(item)'
    PROVE  CustodyOf(item)' = {Place("store", lot'[expired'[id]].seller, {})}
<1>1. Hands(item)' = {} /\ Sold(item)' = {} /\ Stored(item)' = {id}
  BY DEF OnePlace, Exclusive, AtMostOne
<1> QED
  BY <1>1 DEF CustodyOf, Hands, Sold, Stored

LEMMA NowhereNext ==
    ASSUME NEW item, Hands(item)' = {}, Sold(item)' = {}, Stored(item)' = {}
    PROVE  CustodyOf(item)' = {}
BY DEF CustodyOf, Hands, Sold, Stored

\* An item that stays where it is, listed or expired under the same seller.
LEMMA Unmoved ==
    ASSUME NEW item,
           Hands(item)' = Hands(item), Sold(item)' = Sold(item), Stored(item)' = Stored(item),
           \A id \in Sold(item) : /\ lot'[auctions'[id]].seller = lot[auctions[id]].seller
                                  /\ lot'[auctions'[id]].bids = lot[auctions[id]].bids,
           \A id \in Stored(item) : lot'[expired'[id]].seller = lot[expired[id]].seller
    PROVE  CustodyOf(item)' = CustodyOf(item)
<1>1. \A id \in Sold(item) : Bidders(auctions[id])' = Bidders(auctions[id])
  BY DEF Bidders
<1> QED
  BY <1>1 DEF CustodyOf, Hands, Sold, Stored

\* Then the step is one of House's.
LEMMA Moved ==
    ASSUME NEW item \in Items \ confused, UNCHANGED confused, NEW from, NEW to,
           CustodyOf(item) = {from}, CustodyOf(item)' = to,
           \A other \in Items \ {item} : CustodyOf(other)' = CustodyOf(other)
    PROVE  House!Moves(item, from, to)
BY DEF House!Moves, Custody

HouseStep == House!CustodyNext \/ UNCHANGED Custody

OthersStay(item) == \A other \in Items \ {item} : CustodyOf(other)' = CustodyOf(other)

\* What becomes of an item whose auction was taken for another one is not told.
LEMMA LostTrack ==
    ASSUME NEW item \in confused, UNCHANGED confused, OthersStay(item)
    PROVE  HouseStep
BY DEF HouseStep, Custody, OthersStay

LEMMA Offered ==
    ASSUME NEW item \in Items \ confused, UNCHANGED confused, NEW p,
           CustodyOf(item) = {Place("hands", p, {})},
           CustodyOf(item)' = {Place("list", p, {})}, OthersStay(item)
    PROVE  HouseStep
<1> DEFINE from == Place("hands", p, {})
<1>1. House!Moves(item, from, {Place("list", p, {})})
  BY Moved DEF OthersStay
<1>2. House!Offer(item, from)
  BY <1>1 DEF House!Offer, House!Place, Place
<1>3. from \in Custody[item]
  BY DEF Custody
<1> QED
  BY <1>2, <1>3 DEF HouseStep, House!CustodyNext, Custody

LEMMA BidPlaced ==
    ASSUME NEW item \in Items \ confused, UNCHANGED confused,
           NEW seller, NEW bids, NEW p \in Players, p # seller,
           CustodyOf(item) = {Place("list", seller, bids)},
           CustodyOf(item)' = {Place("list", seller, bids \cup {p})}, OthersStay(item)
    PROVE  HouseStep
<1> DEFINE from == Place("list", seller, bids)
<1>1. House!Moves(item, from, {Place("list", seller, bids \cup {p})})
  BY Moved DEF OthersStay
<1>2. House!PlaceBid(item, from, p)
  BY <1>1 DEF House!PlaceBid, House!Place, Place
<1>3. from \in Custody[item]
  BY DEF Custody
<1> QED
  BY <1>2, <1>3 DEF HouseStep, House!CustodyNext, Custody

LEMMA HandedOver ==
    ASSUME NEW item \in Items \ confused, UNCHANGED confused,
           NEW seller, NEW bids, NEW p \in Players,
           p = seller \/ bids = {},
           CustodyOf(item) = {Place("list", seller, bids)},
           CustodyOf(item)' = {Place("hands", p, {})}, OthersStay(item)
    PROVE  HouseStep
<1> DEFINE from == Place("list", seller, bids)
<1>1. House!Moves(item, from, {Place("hands", p, {})})
  BY Moved DEF OthersStay
<1>2. House!HandOver(item, from, p)
  BY <1>1 DEF House!HandOver, House!Place, Place
<1>3. from \in Custody[item]
  BY DEF Custody
<1> QED
  BY <1>2, <1>3 DEF HouseStep, House!CustodyNext, Custody

LEMMA Ended ==
    ASSUME NEW item \in Items \ confused, UNCHANGED confused,
           NEW seller, NEW bids, NEW p \in Players,
           p = seller \/ p \in bids,
           CustodyOf(item) = {Place("list", seller, bids)},
           CustodyOf(item)' = {Place("store", p, {})}, OthersStay(item)
    PROVE  HouseStep
<1> DEFINE from == Place("list", seller, bids)
<1>1. House!Moves(item, from, {Place("store", p, {})})
  BY Moved DEF OthersStay
<1>2. House!End(item, from, p)
  BY <1>1 DEF House!End, House!Place, Place
<1>3. from \in Custody[item]
  BY DEF Custody
<1> QED
  BY <1>2, <1>3 DEF HouseStep, House!CustodyNext, Custody

LEMMA Returned ==
    ASSUME NEW item \in Items \ confused, UNCHANGED confused, NEW p,
           CustodyOf(item) = {Place("store", p, {})},
           CustodyOf(item)' = {Place("hands", p, {})}, OthersStay(item)
    PROVE  HouseStep
<1> DEFINE from == Place("store", p, {})
<1>1. House!Moves(item, from, {Place("hands", p, {})})
  BY Moved DEF OthersStay
<1>2. House!Return(item, from)
  BY <1>1 DEF House!Return, House!Place, Place
<1>3. from \in Custody[item]
  BY DEF Custody
<1> QED
  BY <1>2, <1>3 DEF HouseStep, House!CustodyNext, Custody

LEMMA Vanished ==
    ASSUME NEW item \in Items \ confused, UNCHANGED confused,
           NEW at, NEW p, NEW bids, at # "hands",
           CustodyOf(item) = {Place(at, p, bids)}, CustodyOf(item)' = {}, OthersStay(item)
    PROVE  HouseStep
<1> DEFINE from == Place(at, p, bids)
<1>1. House!Moves(item, from, {})
  BY Moved DEF OthersStay
<1>2. House!Vanish(item, from)
  BY <1>1 DEF House!Vanish, House!Place, Place
<1>3. from \in Custody[item]
  BY DEF Custody
<1> QED
  BY <1>2, <1>3 DEF HouseStep, House!CustodyNext, Custody

LEMMA NothingSeen ==
    ASSUME UNCHANGED <<carried, lot, auctions, expired, confused>> PROVE HouseStep
<1>1. \A item \in Items : CustodyOf(item)' = CustodyOf(item)
  BY DEF CustodyOf, Listed, Bidders
<1> QED
  BY <1>1 DEF HouseStep, Custody

-----------------------------------------------------------------------------
(* What the steps rely on: a bid form is open for another's auction, and bids *)
(* are on bid auctions only.                                                  *)

FormsOK == \A p \in Players : bidForm[p] # None =>
               /\ lot[bidForm[p]].biddable
               /\ \/ lot[bidForm[p]].item \in confused
                  \/ \A id \in IDs : auctions[id] = bidForm[p] => lot[bidForm[p]].seller # p

BidsOK == \A l \in 1..Len(lot) : lot[l].bids # <<>> => lot[l].biddable

OfferInv == FormsOK /\ BidsOK

\* An auction that leaves the list for the store, under the name of one who bid or
\* of its seller, or whose ID is taken in the store.
LEMMA TakenCustody ==
    ASSUME TablesOK, OnePlace, OnePlace', NEW l \in 1..Len(lot), NEW id \in IDs,
           Taken(id, l), UNCHANGED carried, lot'[l].item = lot[l].item,
           \A m \in 1..Len(lot) : m # l => lot'[m] = lot[m],
           lot'[l].seller \in Players,
           lot'[l].seller \in Bidders(l) \cup {lot[l].seller}
    PROVE  HouseStep
<1>0. lot[l].item \in Items
  BY LotFacts DEF Lot
<1> PICK item \in Items : item = lot[l].item
  BY <1>0
<1>1. /\ l # None
      /\ auctions \in [IDs -> 0..Len(lot)] /\ expired \in [IDs -> 0..Len(lot)]
  BY LotFacts DEF TablesOK, None
<1>2. \A k \in IDs : /\ auctions[k] # None => auctions[k] \in 1..Len(lot)
                     /\ expired[k] # None => expired[k] \in 1..Len(lot)
  <2>1. \A k \in 0..Len(lot) : k # None => k \in 1..Len(lot)
    BY LotFacts DEF None
  <2> QED
    BY <1>1, <2>1
<1>3. /\ auctions[id] = l /\ auctions' = [auctions EXCEPT ![id] = None]
      /\ expired' = [expired EXCEPT ![id] = IF @ = None THEN l ELSE @]
  BY DEF Taken
<1>4. OthersStay(item)
  <2> SUFFICES ASSUME NEW other \in Items \ {item}
               PROVE  CustodyOf(other)' = CustodyOf(other)
    BY DEF OthersStay
  <2>1. Hands(other)' = Hands(other)
    BY DEF Hands
  <2>2. \A k \in IDs : lot[auctions[k]].item = other =>
            k # id /\ auctions[k] # l /\ auctions'[k] = auctions[k]
    BY <1>1, <1>3
  <2>3. \A k \in IDs : auctions'[k] = auctions[k] \/ auctions'[k] = None
    BY <1>1, <1>3
  <2>4. Sold(other)' = Sold(other)
    BY <1>2, <2>2, <2>3 DEF Sold, Listed
  <2>5. \A k \in IDs : /\ lot[expired[k]].item = other /\ expired[k] # None =>
                              expired[k] # l /\ expired'[k] = expired[k]
                       /\ expired'[k] = expired[k] \/ expired'[k] = l
    BY <1>1, <1>3
  <2>6. Stored(other)' = Stored(other)
    BY <1>2, <2>5 DEF Stored
  <2>7. \A k \in Sold(other) : lot'[auctions'[k]] = lot[auctions[k]]
    BY <1>2, <2>2 DEF Sold, Listed
  <2>8. \A k \in Stored(other) : lot'[expired'[k]] = lot[expired[k]]
    BY <1>2, <2>5 DEF Stored
  <2> QED
    BY <2>1, <2>4, <2>6, <2>7, <2>8, Unmoved
<1>5. id \in Sold(item) /\ confused' = confused
  BY <1>1, <1>3 DEF Sold, Listed, Taken
<1>6. ASSUME item \notin confused
      PROVE  /\ Hands(item) = {} /\ Stored(item) = {} /\ AtMostOne(Sold(item))
             /\ CustodyOf(item) = {Place("list", lot[l].seller, Bidders(l))}
  <2>1. item \in Items \ confused
    BY <1>6
  <2> QED
    BY <1>1, <1>3, <1>5, <2>1, OnList DEF OnePlace, Exclusive
<1>7. CASE item \in confused
  BY <1>4, <1>5, <1>7, LostTrack
<1>8. CASE item \notin confused /\ expired[id] = None
  <2>1. expired'[id] = l /\ item \in Items \ confused /\ item \in Items \ confused'
    BY <1>1, <1>3, <1>5, <1>8
  <2>2. id \in Stored(item)'
    BY <1>1, <2>1 DEF Stored
  <2>3. CustodyOf(item)' = {Place("store", lot'[l].seller, {})}
    BY <1>1, <2>1, <2>2, InStoreNext
  <2>4. PICK who \in Players :
            who = lot'[l].seller /\ (who = lot[l].seller \/ who \in Bidders(l))
    OBVIOUS
  <2>5. CustodyOf(item)' = {Place("store", who, {})}
    BY <2>3, <2>4
  <2> QED
    <3>1. CustodyOf(item) = {Place("list", lot[l].seller, Bidders(l))}
      BY <1>6, <1>8
    <3>2. who = lot[l].seller \/ who \in Bidders(l)
      BY <2>4
    <3>3. item \in Items \ confused
      BY <2>1
    <3>4. UNCHANGED confused
      BY <1>5
    <3> QED
      BY <1>4, <2>5, <3>1, <3>2, <3>3, <3>4, Ended
<1>9. CASE item \notin confused /\ expired[id] # None
  <2>1. expired' = expired /\ item \in Items \ confused
    BY <1>1, <1>3, <1>9
  <2>2. Hands(item)' = {}
    BY <1>6, <1>9 DEF Hands
  <2>3. Stored(item)' = {}
    BY <1>2, <1>6, <1>9, <2>1 DEF Stored
  <2>4. Sold(item)' = {}
    <3>1. \A k \in IDs : lot[auctions[k]].item = item /\ auctions[k] # None => k = id
      BY <1>5, <1>6, <1>9 DEF Sold, Listed, AtMostOne
    <3> QED
      BY <1>1, <1>2, <1>3, <3>1 DEF Sold, Listed
  <2>5. CustodyOf(item)' = {}
    BY <2>2, <2>3, <2>4, NowhereNext
  <2> QED
    BY <1>4, <1>5, <1>6, <1>9, <2>1, <2>5, Vanished
<1> QED
  BY <1>7, <1>8, <1>9

\* Another auction leaves the list instead: the house loses track of both items,
\* or of the one that it had not lost yet.
LEMMA MistakenCustody ==
    ASSUME TablesOK, NEW l \in 1..Len(lot), NEW id \in IDs, NEW at \in IDs,
           lot[l].item \notin confused => auctions[at] = l,
           Mistaken(id, l), UNCHANGED carried, lot'[l].item = lot[l].item,
           \A m \in 1..Len(lot) : m # l => lot'[m] = lot[m]
    PROVE  HouseStep
<1>1. /\ l # None /\ lot[l] \in Lot
      /\ auctions \in [IDs -> 0..Len(lot)] /\ expired \in [IDs -> 0..Len(lot)]
  BY LotFacts DEF TablesOK, None
<1>2. \A k \in IDs : /\ auctions[k] # None => auctions[k] \in 1..Len(lot)
                     /\ expired[k] # None => expired[k] \in 1..Len(lot)
  <2>1. \A k \in 0..Len(lot) : k # None => k \in 1..Len(lot)
    BY LotFacts DEF None
  <2> QED
    BY <1>1, <2>1
<1>3. /\ auctions[id] # None /\ auctions' = [auctions EXCEPT ![id] = None]
      /\ expired' = [expired EXCEPT ![id] = IF @ = None THEN l ELSE @]
      /\ confused' = confused \cup {lot[l].item, lot[auctions[id]].item}
  BY DEF Mistaken
<1>4. lot[auctions[id]] \in Lot
  BY <1>2, <1>3, LotFacts
<1> PICK item \in Items, other \in Items :
            item = lot[l].item /\ other = lot[auctions[id]].item
  BY <1>1, <1>4 DEF Lot
<1>5. \A third \in Items \ {item, other} : CustodyOf(third)' = CustodyOf(third)
  <2> SUFFICES ASSUME NEW third \in Items \ {item, other}
               PROVE  CustodyOf(third)' = CustodyOf(third)
    OBVIOUS
  <2>1. Hands(third)' = Hands(third)
    BY DEF Hands
  <2>2. \A k \in IDs : lot[auctions[k]].item = third =>
            k # id /\ auctions[k] # l /\ auctions'[k] = auctions[k]
    BY <1>1, <1>3
  <2>3. \A k \in IDs : auctions'[k] = auctions[k] \/ auctions'[k] = None
    BY <1>1, <1>3
  <2>4. Sold(third)' = Sold(third)
    BY <1>2, <2>2, <2>3 DEF Sold, Listed
  <2>5. \A k \in IDs : /\ lot[expired[k]].item = third /\ expired[k] # None =>
                              expired[k] # l /\ expired'[k] = expired[k]
                       /\ expired'[k] = expired[k] \/ expired'[k] = l
    BY <1>1, <1>3
  <2>6. Stored(third)' = Stored(third)
    BY <1>2, <2>5 DEF Stored
  <2>7. \A k \in Sold(third) : lot'[auctions'[k]] = lot[auctions[k]]
    BY <1>2, <2>2 DEF Sold, Listed
  <2>8. \A k \in Stored(third) : lot'[expired'[k]] = lot[expired[k]]
    BY <1>2, <2>5 DEF Stored
  <2> QED
    BY <2>1, <2>4, <2>6, <2>7, <2>8, Unmoved
<1>6. ASSUME NEW i \in {item, other} \ confused
      PROVE  \E from \in CustodyOf(i) : from.at = "list"
  <2>1. \E k \in IDs : k \in Sold(i)
    BY <1>1, <1>3, <1>6 DEF Sold, Listed
  <2>2. PICK k \in Sold(i) : TRUE
    BY <2>1
  <2>3. Place("list", lot[auctions[k]].seller, Bidders(auctions[k])) \in CustodyOf(i)
    BY <2>2, CustodyIs
  <2> QED
    BY <2>3 DEF Place
<1>7. \A i \in Items : Custody[i]' = IF i \in {item, other} THEN {} ELSE Custody[i]
  BY <1>3, <1>5 DEF Custody
<1>8. \A i \in {item, other} : IF i \in confused THEN Custody[i] = {}
                              ELSE \E from \in Custody[i] : from.at = "list"
  BY <1>6 DEF Custody
<1>9. ASSUME NEW i \in {item, other}, NEW j \in {item, other}, i \notin confused,
             j \notin confused,
             \A third \in {item, other} \ {i, j} : third \in confused
      PROVE  House!Confuse(i, j)
  <2>1. \A k \in {i, j} : \E from \in Custody[k] : from.at = "list"
    BY <1>8, <1>9
  <2>2. \A k \in Items : Custody'[k] = IF k \in {i, j} THEN {} ELSE Custody[k]
    <3> SUFFICES ASSUME NEW k \in Items
                 PROVE  Custody'[k] = IF k \in {i, j} THEN {} ELSE Custody[k]
      OBVIOUS
    <3>1. CASE k \in {item, other} \ {i, j}
      BY <1>7, <1>8, <1>9, <3>1
    <3>2. CASE k \notin {item, other} \ {i, j}
      BY <1>7, <3>2
    <3> QED
      BY <3>1, <3>2
  <2>3. /\ Custody = [k \in Items |-> Custody[k]]
        /\ Custody' = [k \in Items |-> Custody'[k]]
        /\ i \in Items /\ j \in Items
    BY DEF Custody
  <2>4. Custody' = [Custody EXCEPT ![i] = {}, ![j] = {}]
    BY ONLY <2>2, <2>3
  <2> QED
    BY <2>1, <2>4 DEF House!Confuse
<1>10. CASE item \in confused /\ other \in confused
  BY <1>7, <1>8, <1>10 DEF HouseStep, Custody
<1>11. CASE item \notin confused \/ other \notin confused
  <2>1. \E i, j \in {item, other} : House!Confuse(i, j)
    <3>1. CASE item \notin confused /\ other \notin confused
      BY <1>9, <3>1
    <3>2. CASE item \notin confused /\ other \in confused
      BY <1>9, <3>2
    <3>3. CASE item \in confused /\ other \notin confused
      BY <1>9, <3>3
    <3> QED
      BY <1>11, <3>1, <3>2, <3>3
  <2> QED
    BY <2>1 DEF HouseStep, House!CustodyNext
<1> QED
  BY <1>10, <1>11

\* What a table holds is an object.
LEMMA TableFacts ==
    ASSUME TablesOK
    PROVE  /\ auctions \in [IDs -> 0..Len(lot)] /\ expired \in [IDs -> 0..Len(lot)]
           /\ carried \in [Players -> SUBSET Items]
           /\ \A k \in IDs : /\ auctions[k] # None => auctions[k] \in 1..Len(lot)
                             /\ expired[k] # None => expired[k] \in 1..Len(lot)
<1>1. \A k \in 0..Len(lot) : k # None => k \in 1..Len(lot)
  BY LotFacts DEF None
<1> QED
  BY <1>1 DEF TablesOK

\* A sale puts a new object, without bids, on the list.
LEMMA SellCustody ==
    ASSUME IInv, IInv', NEW p \in Players, NEW item \in Items, NEW price, NEW biddable,
           NEW duration, Sell(p, item, price, biddable, duration)
    PROVE  HouseStep
<1>1. TablesOK /\ TablesOK' /\ OnePlace /\ OnePlace' /\ lot \in Seq(Lot) /\ Len(lot) \in Nat
  BY LotFacts DEF IInv, TablesInv, TablesOK
<1>2. PICK id \in IDs : IsNextID(id) /\ auctions' = [auctions EXCEPT ![id] = Len(lot) + 1]
  BY DEF Sell
<1>3. auctions[id] = None
  BY <1>2 DEF IsNextID, Listed, IDs
<1>4. PICK new : /\ lot' = Append(lot, new)
                 /\ new.seller = p /\ new.item = item /\ new.bids = <<>>
  BY DEF Sell
<1>5. /\ \A m \in 1..Len(lot) : lot'[m] = lot[m]
      /\ lot'[Len(lot) + 1] = new
  BY <1>1, <1>4
<1>6. /\ auctions'[id] = Len(lot) + 1 /\ auctions'[id] # None
      /\ \A other \in IDs \ {id} : auctions'[other] = auctions[other]
  BY <1>1, <1>2 DEF TablesOK, None
<1>7. /\ item \in carried[p] /\ carried' = [carried EXCEPT ![p] = @ \ {item}]
      /\ expired' = expired
  BY DEF Sell
<1>8. ASSUME item \notin confused PROVE CustodyOf(item) = {Place("hands", p, {})}
  <2>1. item \in Items \ confused
    BY <1>8
  <2> QED
    BY <1>1, <1>7, <2>1, InHands DEF Hands
<1>9. ASSUME item \notin confused' PROVE CustodyOf(item)' = {Place("list", p, {})}
  <2>0. item \in Items \ confused'
    BY <1>9
  <2>1. id \in Sold(item)'
    BY <1>4, <1>5, <1>6 DEF Sold, Listed
  <2>2. lot'[auctions'[id]].seller = p /\ Bidders(auctions[id])' = {}
    BY <1>4, <1>5, <1>6 DEF Bidders, ToSet
  <2> QED
    BY <1>1, <2>0, <2>1, <2>2, OnListNext
<1>10. OthersStay(item)
  <2> SUFFICES ASSUME NEW other \in Items \ {item}
               PROVE  CustodyOf(other)' = CustodyOf(other)
    BY DEF OthersStay
  <2>1. Hands(other)' = Hands(other)
    BY <1>1, <1>7, TableFacts DEF Hands
  <2>2. Sold(other)' = Sold(other)
    BY <1>1, <1>3, <1>4, <1>5, <1>6, TableFacts DEF Sold, Listed
  <2>3. Stored(other)' = Stored(other)
    BY <1>1, <1>5, <1>7, TableFacts DEF Stored
  <2>4. \A k \in Sold(other) : lot'[auctions'[k]] = lot[auctions[k]]
    BY <1>1, <1>3, <1>5, <1>6, TableFacts DEF Sold, Listed
  <2>5. \A k \in Stored(other) : lot'[expired'[k]] = lot[expired[k]]
    BY <1>1, <1>5, <1>7, TableFacts DEF Stored
  <2> QED
    BY <2>1, <2>2, <2>3, <2>4, <2>5, Unmoved
<1>11. confused' = confused
  BY DEF Sell
<1>12. CASE item \in confused
  BY <1>10, <1>11, <1>12, LostTrack
<1>13. CASE item \notin confused
  <2>1. item \in Items \ confused /\ item \notin confused'
    BY <1>11, <1>13
  <2> QED
    BY <1>8, <1>9, <1>10, <1>11, <1>13, <2>1, Offered
<1> QED
  BY <1>12, <1>13

\* An auction goes back to its seller, or to a buyer when nobody can have bid.
LEMMA UnlistCustody ==
    ASSUME IInv, IInv', BidsOK, NEW p \in Players, NEW id \in IDs, Retire(p, id) \/ Buy(p, id)
    PROVE  HouseStep
<1>1. TablesOK /\ TablesOK' /\ OnePlace /\ OnePlace'
  BY DEF IInv, TablesInv
<1>2. /\ id \in Listed /\ auctions' = Unlisted(id)
      /\ carried' = [carried EXCEPT ![p] = @ \cup {lot[auctions[id]].item}]
      /\ UNCHANGED <<lot, expired, confused>>
      /\ lot[auctions[id]].seller = p \/ ~lot[auctions[id]].biddable
  BY DEF Retire, Buy, ToBuy
<1>3. auctions[id] # None /\ auctions[id] \in 1..Len(lot)
  BY <1>1, <1>2, TableFacts DEF Listed
<1>4. lot[auctions[id]].item \in Items
  BY <1>1, <1>3, LotFacts DEF Lot
<1> PICK item \in Items : item = lot[auctions[id]].item
  BY <1>4
<1>5. lot[auctions[id]].seller = p \/ Bidders(auctions[id]) = {}
  BY <1>2, <1>3 DEF BidsOK, Bidders, ToSet
<1>6. ASSUME item \in Items \ confused
      PROVE  CustodyOf(item) =
                 {Place("list", lot[auctions[id]].seller, Bidders(auctions[id]))}
  BY <1>1, <1>2, <1>6, OnList DEF Sold
<1>7. ASSUME item \in Items \ confused' PROVE CustodyOf(item)' = {Place("hands", p, {})}
  <2>1. p \in Hands(item)'
    BY <1>1, <1>2, TableFacts DEF Hands
  <2> QED
    BY <1>1, <1>7, <2>1, InHandsNext
<1>8. OthersStay(item)
  <2> SUFFICES ASSUME NEW other \in Items \ {item}
               PROVE  CustodyOf(other)' = CustodyOf(other)
    BY DEF OthersStay
  <2>1. Hands(other)' = Hands(other)
    BY <1>1, <1>2, TableFacts DEF Hands
  <2>2. /\ Sold(other)' = Sold(other)
        /\ \A k \in Sold(other) : auctions'[k] = auctions[k]
    BY <1>1, <1>2, TableFacts DEF Sold, Listed, Unlisted
  <2>3. Stored(other)' = Stored(other)
    BY <1>2 DEF Stored
  <2>4. /\ \A k \in Sold(other) : lot'[auctions'[k]] = lot[auctions[k]]
        /\ \A k \in Stored(other) : lot'[expired'[k]] = lot[expired[k]]
    BY <1>2, <2>2
  <2> QED
    BY <2>1, <2>2, <2>3, <2>4, Unmoved
<1>9. CASE item \in confused
  BY <1>2, <1>8, <1>9, LostTrack
<1>10. CASE item \in Items \ confused
  BY <1>2, <1>5, <1>6, <1>7, <1>8, <1>10, HandedOver
<1> QED
  BY <1>9, <1>10

LEMMA MembersAppend ==
    ASSUME NEW T, NEW s \in Seq(T), NEW x \in T
    PROVE  ToSet(Append(s, x)) = ToSet(s) \cup {x}
<1> DEFINE r == Append(s, x)
<1>1. /\ r \in Seq(T) /\ Len(r) = Len(s) + 1 /\ Len(s) \in Nat
      /\ \A i \in 1..Len(s) : r[i] = s[i]
      /\ r[Len(s) + 1] = x
  BY AppendProperties, LenProperties
<1>2. DOMAIN s = 1..Len(s) /\ DOMAIN r = 1..(Len(s) + 1)
  BY <1>1, LenProperties
<1> HIDE DEF r
<1>3. ToSet(r) \subseteq ToSet(s) \cup {x}
  <2> SUFFICES ASSUME NEW i \in DOMAIN r PROVE r[i] \in ToSet(s) \cup {x}
    BY DEF ToSet
  <2>1. i \in 1..Len(s) \/ i = Len(s) + 1
    BY <1>1, <1>2
  <2> QED
    BY <1>1, <1>2, <2>1 DEF ToSet
<1>4. ToSet(s) \subseteq ToSet(r)
  BY <1>1, <1>2 DEF ToSet
<1>5. x \in ToSet(r)
  <2>1. Len(s) + 1 \in DOMAIN r
    BY <1>1, <1>2
  <2> QED
    BY <1>1, <2>1 DEF ToSet
<1> QED
  BY <1>3, <1>4, <1>5 DEF r

\* A bid adds a bidder to an auction that is listed, if it still is.
LEMMA PostBidCustody ==
    ASSUME IInv, IInv', FormsOK, NEW p \in Players, NEW amount \in Amounts, PostBid(p, amount)
    PROVE  HouseStep
<1>1. /\ TablesOK /\ TablesOK' /\ OnePlace /\ OnePlace' /\ lot \in Seq(Lot)
      /\ bidForm[p] # None /\ bidForm[p] \in 0..Len(lot)
  BY DEF IInv, TablesInv, TablesOK, PostBid
<1>2. bidForm[p] \in 1..Len(lot)
  BY <1>1, LotFacts DEF None
<1> PICK l \in 1..Len(lot) : l = bidForm[p]
  BY <1>2
<1>3. lot[l] \in Lot /\ lot[l].bids \in Seq(Bid)
  BY <1>1, LotFacts DEF Lot
<1> DEFINE bid == [who |-> p, amount |-> amount]
<1>4. /\ lot' = [lot EXCEPT ![l].bids = Append(@, bid)]
      /\ UNCHANGED <<carried, auctions, expired, confused>>
  BY DEF PostBid
<1>5. /\ \A m \in 1..Len(lot) : m # l => lot'[m] = lot[m]
      /\ lot'[l].seller = lot[l].seller /\ lot'[l].item = lot[l].item
      /\ lot'[l].bids = Append(lot[l].bids, bid)
  BY <1>1, <1>3, <1>4, LotFacts DEF Lot
<1>6. Bidders(l)' = Bidders(l) \cup {p}
  <2>1. bid \in Bid
    BY DEF Bid
  <2> HIDE DEF bid
  <2>2. ToSet(lot'[l].bids) = ToSet(lot[l].bids) \cup {bid}
    BY <1>3, <1>5, <2>1, MembersAppend
  <2>3. bid.who = p
    BY DEF bid
  <2> QED
    BY <2>2, <2>3 DEF Bidders
<1>7. \A item \in Items : /\ Hands(item)' = Hands(item)
                          /\ Sold(item)' = Sold(item)
                          /\ Stored(item)' = Stored(item)
  BY <1>1, <1>4, <1>5, TableFacts DEF Hands, Sold, Stored, Listed
<1>8. /\ \A k \in Listed : lot'[auctions'[k]].seller = lot[auctions[k]].seller
      /\ \A k \in IDs : expired[k] # None => lot'[expired'[k]].seller = lot[expired[k]].seller
  BY <1>1, <1>4, <1>5, TableFacts DEF Listed
<1>9. CASE \A k \in IDs : auctions[k] # l
  <2>1. \A k \in Listed : lot'[auctions'[k]].bids = lot[auctions[k]].bids
    BY <1>1, <1>4, <1>5, <1>9, TableFacts DEF Listed
  <2>2. \A item \in Items : CustodyOf(item)' = CustodyOf(item)
    BY <1>7, <1>8, <2>1, Unmoved DEF Sold, Stored
  <2> QED
    BY <1>4, <2>2 DEF HouseStep, Custody
<1>10. CASE \E k \in IDs : auctions[k] = l
  <2>1. PICK id \in IDs : auctions[id] = l
    BY <1>10
  <2>2. PICK item \in Items : item = lot[l].item
    BY <1>3 DEF Lot
  <2>3. id \in Sold(item) /\ id \in Sold(item)'
    BY <1>1, <1>7, <2>1, <2>2 DEF Sold, Listed
  <2>4. ASSUME item \in Items \ confused
        PROVE  /\ CustodyOf(item) = {Place("list", lot[l].seller, Bidders(l))}
               /\ p # lot[l].seller
    BY <1>1, <2>1, <2>2, <2>3, <2>4, OnList DEF FormsOK
  <2>5. ASSUME item \in Items \ confused'
        PROVE  CustodyOf(item)' = {Place("list", lot[l].seller, Bidders(l) \cup {p})}
    <3>1. Bidders(auctions[id])' = Bidders(l) \cup {p}
      BY <1>4, <1>6, <2>1 DEF Bidders
    <3>2. CustodyOf(item)' =
              {Place("list", lot'[auctions'[id]].seller, Bidders(auctions[id])')}
      BY <1>1, <2>3, <2>5, OnListNext
    <3>3. lot'[auctions'[id]].seller = lot[l].seller
      BY <1>4, <1>5, <2>1
    <3> QED
      BY <3>1, <3>2, <3>3
  <2>6. OthersStay(item)
    <3>1. \A other \in Items \ {item} : \A k \in Sold(other) :
              lot'[auctions'[k]].bids = lot[auctions[k]].bids
      BY <1>1, <1>4, <1>5, <2>2, TableFacts DEF Sold, Listed
    <3> QED
      BY <1>7, <1>8, <3>1, Unmoved DEF OthersStay, Sold, Stored
  <2>7. CASE item \in confused
    BY <1>4, <2>6, <2>7, LostTrack
  <2>8. CASE item \in Items \ confused
    BY <1>4, <2>4, <2>5, <2>6, <2>8, BidPlaced
  <2> QED
    BY <2>7, <2>8
<1> QED
  BY <1>9, <1>10

\* Whoever wins has bid, or is the seller.
LEMMA WinnerBid == ASSUME NEW l, NEW who \in Winner(l) PROVE who \in Bidders(l) \cup {lot[l].seller}
BY DEF Winner, FirstSorted, Bidders

\* The first loop ends auctions, the one it visits or another one in its place.
LEMMA VisitAuctionCustody ==
    ASSUME IInv, IInv', confused \subseteq confused', VisitAuction PROVE HouseStep
<1>1. /\ TablesOK /\ TablesOK' /\ OnePlace /\ OnePlace' /\ VisitsListed
      /\ Len(lot) \in Nat /\ lot \in Seq(Lot)
  BY LotFacts DEF IInv, TablesInv, TablesOK
<1>2. PICK at \in IDs :
          /\ visiting[at] # None
          /\ LET l == visiting[at] IN
                 TakeDown(l) \/ TakeForTax(l) \/ EndBidding(l) \/ StayListed(l)
  BY DEF VisitAuction
<1>3. visiting[at] \in 1..Len(lot)
  BY <1>1, <1>2 DEF TablesOK, None
<1> PICK l \in 1..Len(lot) : l = visiting[at]
  BY <1>3
<1>4. /\ TakeDown(l) \/ TakeForTax(l) \/ EndBidding(l) \/ StayListed(l)
      /\ lot[l].item \notin confused => auctions[at] = l
  BY <1>1, <1>2 DEF VisitsListed
<1>5. carried' = carried /\ lot[l] \in Lot
  BY <1>1, LotFacts DEF VisitAuction
<1>6. CASE TakeDown(l) \/ TakeForTax(l)
  <2>1. Expire(l, lot[l].seller) /\ lot' = lot
    BY <1>6 DEF TakeDown, TakeForTax
  <2>2. \/ UNCHANGED <<auctions, expired, confused>>
        \/ \E id \in IDs : Taken(id, l) \/ Mistaken(id, l)
    BY <2>1, ExpireTakes
  <2>3. lot[l].seller \in Players
    BY <1>5 DEF Lot
  <2>4. ASSUME NEW id \in IDs, Taken(id, l) PROVE HouseStep
    BY <1>1, <1>5, <2>1, <2>3, <2>4, TakenCustody
  <2>5. ASSUME NEW id \in IDs, Mistaken(id, l) PROVE HouseStep
    BY <1>1, <1>4, <1>5, <2>1, <2>5, MistakenCustody
  <2> QED
    BY <1>5, <2>1, <2>2, <2>4, <2>5, NothingSeen
<1>7. CASE EndBidding(l)
  <2>1. PICK who \in Winner(l) : lot' = [lot EXCEPT ![l].seller = who] /\ Expire(l, who)
    BY <1>7 DEF EndBidding
  <2>2. who \in Players /\ who \in Bidders(l) \cup {lot[l].seller}
    BY <1>1, WinnerIsPlayer, WinnerBid
  <2>3. /\ \A m \in 1..Len(lot) : m # l => lot'[m] = lot[m]
        /\ lot'[l].seller = who /\ lot'[l].item = lot[l].item
    BY <1>1, <1>5, <2>1, LotFacts DEF Lot
  <2>4. \/ UNCHANGED <<auctions, expired, confused>>
        \/ \E id \in IDs : Taken(id, l) \/ Mistaken(id, l)
    BY <2>1, ExpireTakes
  <2>5. CASE UNCHANGED <<auctions, expired, confused>>
    <3>1. lot[l].item \in confused
      <4>1. SUFFICES ASSUME lot[l].item \notin confused PROVE FALSE
        OBVIOUS
      <4>2. auctions[at] = l /\ auctions[at] # None /\ lot[auctions[at]].item \notin confused'
        BY <1>2, <1>4, <2>5, <4>1
      <4>3. auctions' = Unlisted(at)
        BY <1>1, <2>1, <4>2, ExpireListed
      <4> QED
        BY <1>1, <2>5, <4>2, <4>3, TableFacts DEF Unlisted
    <3>2. PICK item \in confused : item = lot[l].item
      BY <3>1
    <3>3. OthersStay(item)
      <4> SUFFICES ASSUME NEW other \in Items \ {item}
                   PROVE  CustodyOf(other)' = CustodyOf(other)
        BY DEF OthersStay
      <4>1. /\ Hands(other)' = Hands(other)
            /\ Sold(other)' = Sold(other)
            /\ Stored(other)' = Stored(other)
        BY <1>1, <1>5, <2>3, <2>5, <3>2, TableFacts DEF Hands, Sold, Stored, Listed
      <4>2. /\ \A k \in Sold(other) : lot'[auctions'[k]] = lot[auctions[k]]
            /\ \A k \in Stored(other) : lot'[expired'[k]] = lot[expired[k]]
        BY <1>1, <2>3, <2>5, <3>2, TableFacts DEF Sold, Stored, Listed
      <4> QED
        BY <4>1, <4>2, Unmoved
    <3> QED
      BY <2>5, <3>3, LostTrack
  <2>6. ASSUME NEW id \in IDs, Taken(id, l) PROVE HouseStep
    BY <1>1, <1>5, <2>2, <2>3, <2>6, TakenCustody
  <2>7. ASSUME NEW id \in IDs, Mistaken(id, l) PROVE HouseStep
    BY <1>1, <1>4, <1>5, <2>3, <2>7, MistakenCustody
  <2> QED
    BY <2>4, <2>5, <2>6, <2>7
<1>8. CASE StayListed(l)
  BY <1>5, <1>8, NothingSeen DEF StayListed, tableVars
<1> QED
  BY <1>4, <1>6, <1>7, <1>8

\* The second loop empties the store, item by item.
LEMMA VisitExpiredCustody ==
    ASSUME IInv, IInv', NEW id \in IDs, VisitExpired(id) PROVE HouseStep
<1>1. TablesOK /\ TablesOK' /\ OnePlace /\ OnePlace'
  BY DEF IInv, TablesInv
<1>2. /\ expired[id] # None /\ UNCHANGED <<lot, auctions, confused>>
      /\ \/ UNCHANGED <<expired, carried>>
         \/ /\ expired' = [expired EXCEPT ![id] = None]
            /\ \/ UNCHANGED carried
               \/ carried' = [carried EXCEPT ![lot[expired[id]].seller] =
                                  @ \cup {lot[expired[id]].item}]
  BY DEF VisitExpired, IInv, TablesInv, CollectsExpired
<1> PICK l \in 1..Len(lot) : l = expired[id]
  BY <1>1, <1>2, ExpiredLot
<1>3. lot[l].item \in Items /\ lot[l].seller \in Players
  BY <1>1, LotFacts DEF Lot
<1> PICK item \in Items, p \in Players : item = lot[l].item /\ p = lot[l].seller
  BY <1>3
<1>4. ASSUME item \in Items \ confused
      PROVE  /\ CustodyOf(item) = {Place("store", p, {})}
             /\ Hands(item) = {} /\ Sold(item) = {} /\ Stored(item) = {id}
  <2>1. id \in Stored(item)
    BY <1>2 DEF Stored
  <2> QED
    BY <1>1, <1>4, <2>1, InStore DEF OnePlace, Exclusive, AtMostOne
<1>5. CASE UNCHANGED <<expired, carried>>
  BY <1>2, <1>5, NothingSeen
<1>6. CASE expired' = [expired EXCEPT ![id] = None]
  <2>1. \A k \in IDs : /\ k # id => expired'[k] = expired[k]
                       /\ expired'[id] = None
    BY <1>1, <1>6, TableFacts
  <2>2. /\ Sold(item)' = Sold(item) /\ Stored(item)' = Stored(item) \ {id}
        /\ \A other \in Items \ {item} : /\ Sold(other)' = Sold(other)
                                         /\ Stored(other)' = Stored(other)
    BY <1>2, <2>1 DEF Sold, Stored, Listed
  <2>3. (\A other \in Items \ {item} : Hands(other)' = Hands(other)) => OthersStay(item)
    <3>1. \A other \in Items \ {item} : \A k \in Stored(other) : expired'[k] = expired[k]
      BY <2>1 DEF Stored
    <3> QED
      BY <1>2, <2>2, <3>1, Unmoved DEF OthersStay
  <2>4. OthersStay(item)
    BY <1>1, <1>2, <2>3, TableFacts DEF Hands
  <2>5. CASE item \in confused
    BY <1>2, <2>4, <2>5, LostTrack
  <2>6. CASE item \in Items \ confused /\ UNCHANGED carried
    <3>1. Hands(item)' = {} /\ Sold(item)' = {} /\ Stored(item)' = {}
      BY <1>4, <2>2, <2>6 DEF Hands
    <3>2. CustodyOf(item)' = {}
      BY <3>1, NowhereNext
    <3> QED
      BY <1>2, <1>4, <2>4, <2>6, <3>2, Vanished
  <2>7. CASE item \in Items \ confused /\ carried' = [carried EXCEPT ![p] = @ \cup {item}]
    <3>1. p \in Hands(item)' /\ item \in Items \ confused'
      BY <1>1, <1>2, <2>7, TableFacts DEF Hands
    <3>2. CustodyOf(item)' = {Place("hands", p, {})}
      BY <1>1, <3>1, InHandsNext
    <3> QED
      BY <1>2, <1>4, <2>4, <2>7, <3>2, Returned
  <2> QED
    BY <1>2, <1>5, <2>5, <2>6, <2>7
<1> QED
  BY <1>2, <1>5, <1>6

\* A restart forgets the list and the store.
LEMMA RestartCustody == ASSUME Restart PROVE HouseStep
<1>1. /\ UNCHANGED <<carried, confused>>
      /\ \A k \in IDs : auctions'[k] = None /\ expired'[k] = None
  BY DEF Restart, NoLots
<1>2. ASSUME NEW item \in Items
      PROVE  CustodyOf(item)' = {place \in CustodyOf(item) : place.at = "hands"}
  <2>1. Hands(item)' = Hands(item) /\ Sold(item)' = {} /\ Stored(item)' = {}
    BY <1>1 DEF Hands, Sold, Stored, Listed
  <2>2. CustodyOf(item)' = {Place("hands", p, {}) : p \in Hands(item)}
    BY <2>1 DEF CustodyOf, Hands, Sold, Stored
  <2>3. {place \in CustodyOf(item) : place.at = "hands"} = {Place("hands", p, {}) : p \in Hands(item)}
    BY CustodyIs DEF Place
  <2> QED
    BY <2>2, <2>3
<1>3. House!VanishAll
  BY <1>1, <1>2 DEF House!VanishAll, Custody
<1> QED
  BY <1>3 DEF HouseStep, House!CustodyNext

\* Everything else is unseen.
LEMMA QuietCustody ==
    ASSUME \/ TaskBegin \/ SecondLoop \/ TaskEnd \/ Second \/ UNCHANGED vars
           \/ \E p \in Players : SellRefused(p) \/ ForgetPurchase(p) \/ CloseBidForm(p)
           \/ \E p \in Players, id \in IDs : AskToConfirm(p, id) \/ OpenBidForm(p, id)
    PROVE  HouseStep
<1>1. UNCHANGED <<carried, lot, auctions, expired, confused>>
  BY DEF TaskBegin, SecondLoop, TaskEnd, Second, vars, SellRefused, ForgetPurchase,
         CloseBidForm, AskToConfirm, OpenBidForm, tableVars
<1> QED
  BY <1>1, NothingSeen

LEMMA StepSeen ==
    ASSUME IInv, IInv', OfferInv, [NextWithRestart]_vars PROVE HouseStep
<1>1. CASE AuctionTask
  BY <1>1, StaysConfused, VisitAuctionCustody, VisitExpiredCustody, QuietCustody DEF AuctionTask
<1>2. CASE Command
  <2>1. PICK p \in Players :
            \/ \E item \in Items, price \in Prices :
                   \/ Sell(p, item, price, FALSE, 0)
                   \/ \E d \in BidTimes : Sell(p, item, price, TRUE, d)
            \/ SellRefused(p) \/ ForgetPurchase(p) \/ CloseBidForm(p)
            \/ \E id \in IDs :
                   Retire(p, id) \/ AskToConfirm(p, id) \/ Buy(p, id) \/ OpenBidForm(p, id)
            \/ \E amount \in Amounts : PostBid(p, amount)
    BY <1>2 DEF Command
  <2>2. CASE \E item \in Items : \E price, biddable, d : Sell(p, item, price, biddable, d)
    BY <2>2, SellCustody
  <2>3. CASE \E id \in IDs : Retire(p, id) \/ Buy(p, id)
    BY <2>3, UnlistCustody DEF OfferInv
  <2>4. CASE \E amount \in Amounts : PostBid(p, amount)
    BY <2>4, PostBidCustody DEF OfferInv
  <2>5. CASE \/ SellRefused(p) \/ ForgetPurchase(p) \/ CloseBidForm(p)
             \/ \E id \in IDs : AskToConfirm(p, id) \/ OpenBidForm(p, id)
    BY <2>5, QuietCustody
  <2> QED
    BY <2>1, <2>2, <2>3, <2>4, <2>5
<1>3. CASE Second \/ Restart \/ UNCHANGED vars
  BY <1>3, QuietCustody, RestartCustody
<1> QED
  BY <1>1, <1>2, <1>3 DEF NextWithRestart, Next

\* Forms are closed and auctions unlisted at any time.
LEMMA OffersKept ==
    ASSUME OfferInv, UNCHANGED lot, confused \subseteq confused',
           \A p \in Players : bidForm'[p] \in {bidForm[p], None},
           \A id \in IDs : auctions'[id] \in {auctions[id], None}
    PROVE  OfferInv'
BY DEF OfferInv, FormsOK, BidsOK

LEMMA SellOffers ==
    ASSUME IInv, OfferInv, NEW p \in Players, NEW item, NEW price, NEW biddable,
           NEW duration, Sell(p, item, price, biddable, duration)
    PROVE  OfferInv'
<1>1. /\ TablesOK /\ lot \in Seq(Lot) /\ Len(lot) \in Nat
      /\ bidForm \in [Players -> 0..Len(lot)] /\ UNCHANGED <<bidForm, confused>>
  BY LotFacts DEF IInv, TablesInv, TablesOK, Sell
<1>2. PICK id \in IDs : auctions' = [auctions EXCEPT ![id] = Len(lot) + 1]
  BY DEF Sell
<1>3. PICK new : lot' = Append(lot, new) /\ new.bids = <<>>
  BY DEF Sell
<1>4. /\ \A m \in 1..Len(lot) : lot'[m] = lot[m]
      /\ lot'[Len(lot) + 1] = new /\ Len(lot') = Len(lot) + 1
  BY <1>1, <1>3
<1>5. \A k \in IDs : auctions'[k] = auctions[k] \/ auctions'[k] = Len(lot) + 1
  BY <1>1, <1>2, TableFacts
<1>6. FormsOK'
  <2> SUFFICES ASSUME NEW q \in Players, bidForm[q] # None
               PROVE  /\ lot'[bidForm[q]].biddable
                      /\ \/ lot'[bidForm[q]].item \in confused'
                         \/ \A k \in IDs : auctions'[k] = bidForm[q] =>
                                lot'[bidForm[q]].seller # q
    BY <1>1 DEF FormsOK
  <2>1. bidForm[q] \in 1..Len(lot)
    BY <1>1 DEF None
  <2>2. lot'[bidForm[q]] = lot[bidForm[q]] /\ bidForm[q] # Len(lot) + 1
    BY <1>1, <1>4, <2>1
  <2> QED
    BY <1>1, <1>5, <2>2 DEF OfferInv, FormsOK
<1>7. BidsOK'
  BY <1>1, <1>3, <1>4 DEF OfferInv, BidsOK
<1> QED
  BY <1>6, <1>7 DEF OfferInv

LEMMA OpenBidFormOffers ==
    ASSUME OfferInv, NEW p \in Players, NEW id \in IDs, OpenBidForm(p, id), TablesOK
    PROVE  OfferInv'
<1>1. /\ lot[auctions[id]].seller # p /\ lot[auctions[id]].biddable
      /\ bidForm' = [bidForm EXCEPT ![p] = auctions[id]]
      /\ UNCHANGED <<lot, auctions, confused>> /\ bidForm \in [Players -> 0..Len(lot)]
  BY DEF OpenBidForm, tableVars, TablesOK
<1> QED
  BY <1>1 DEF OfferInv, FormsOK, BidsOK

LEMMA PostBidOffers ==
    ASSUME IInv, OfferInv, NEW p \in Players, NEW amount \in Amounts, PostBid(p, amount)
    PROVE  OfferInv'
<1>1. /\ TablesOK /\ lot \in Seq(Lot) /\ Len(lot) \in Nat
      /\ bidForm \in [Players -> 0..Len(lot)] /\ bidForm[p] # None
      /\ UNCHANGED <<auctions, confused>>
  BY LotFacts DEF IInv, TablesInv, TablesOK, PostBid
<1>2. bidForm[p] \in 1..Len(lot)
  BY <1>1 DEF None
<1> PICK l \in 1..Len(lot) : l = bidForm[p]
  BY <1>2
<1>3. lot[l] \in Lot
  BY <1>1, LotFacts
<1>4. /\ \A m \in 1..Len(lot) : m # l => lot'[m] = lot[m]
      /\ lot'[l].seller = lot[l].seller /\ lot'[l].biddable = lot[l].biddable
      /\ lot'[l].item = lot[l].item /\ Len(lot') = Len(lot)
  BY <1>1, <1>3, LotFacts, PostBidTables DEF Lot, PostBid, IInv
<1>5. bidForm' = [bidForm EXCEPT ![p] = None]
  BY DEF PostBid
<1>6. FormsOK'
  <2> SUFFICES ASSUME NEW q \in Players, bidForm'[q] # None
               PROVE  /\ lot'[bidForm'[q]].biddable
                      /\ \/ lot'[bidForm'[q]].item \in confused'
                         \/ \A k \in IDs : auctions'[k] = bidForm'[q] =>
                                lot'[bidForm'[q]].seller # q
    BY DEF FormsOK
  <2>1. bidForm'[q] = bidForm[q] /\ bidForm[q] \in 1..Len(lot)
    BY <1>1, <1>5 DEF None
  <2> QED
    BY <1>1, <1>4, <2>1 DEF OfferInv, FormsOK
<1>7. BidsOK'
  <2>1. lot[l].biddable
    BY <1>1 DEF OfferInv, FormsOK
  <2> QED
    BY <1>4, <2>1 DEF OfferInv, BidsOK
<1> QED
  BY <1>6, <1>7 DEF OfferInv

\* Whoever wins an auction may have a form open for it, but it is off the list,
\* unless another one was taken off in its place.
LEMMA VisitAuctionOffers ==
    ASSUME IInv, OfferInv, confused \subseteq confused', VisitAuction PROVE OfferInv'
<1>1. /\ TablesOK /\ VisitsListed /\ OnePlace /\ lot \in Seq(Lot) /\ Len(lot) \in Nat
      /\ bidForm \in [Players -> 0..Len(lot)] /\ bidForm' = bidForm
  BY LotFacts DEF IInv, TablesInv, TablesOK, VisitAuction, formVars
<1>2. PICK at \in IDs :
          /\ visiting[at] # None
          /\ LET l == visiting[at] IN
                 TakeDown(l) \/ TakeForTax(l) \/ EndBidding(l) \/ StayListed(l)
  BY DEF VisitAuction
<1>3. visiting[at] \in 1..Len(lot)
  BY <1>1, <1>2 DEF TablesOK, None
<1> PICK l \in 1..Len(lot) : l = visiting[at]
  BY <1>3
<1>4. lot[l] \in Lot /\ auctions \in [IDs -> 0..Len(lot)]
  BY <1>1, LotFacts, TableFacts
<1>5. \A k \in IDs : auctions'[k] \in {auctions[k], None}
  <2>1. (\E seller : Expire(l, seller)) \/ auctions' = auctions
    BY <1>2 DEF TakeDown, TakeForTax, EndBidding, StayListed, tableVars
  <2>2. auctions' = auctions \/ \E id \in IDs : Taken(id, l) \/ Mistaken(id, l)
    BY <2>1, ExpireTakes
  <2> QED
    BY <1>4, <2>2 DEF Taken, Mistaken
<1>6. CASE ~EndBidding(l)
  <2>1. lot' = lot
    BY <1>2, <1>6 DEF TakeDown, TakeForTax, StayListed, tableVars
  <2> QED
    BY <1>1, <1>5, <2>1, OffersKept
<1>7. CASE EndBidding(l)
  <2>1. PICK who \in Winner(l) : lot' = [lot EXCEPT ![l].seller = who] /\ Expire(l, who)
    BY <1>7 DEF EndBidding
  <2>2. /\ \A m \in 1..Len(lot) : m # l => lot'[m] = lot[m]
        /\ lot'[l].biddable = lot[l].biddable /\ lot'[l].bids = lot[l].bids
        /\ lot'[l].item = lot[l].item
    BY <1>1, <1>4, <2>1, LotFacts DEF Lot
  <2>3. Len(lot') = Len(lot)
    BY <1>1, <2>1, WinnerIsPlayer, SellerChanged
  <2>4. ASSUME lot[l].item \notin confused' PROVE \A k \in IDs : auctions'[k] # l
    <3>1. auctions[at] = l /\ auctions[at] # None /\ lot[auctions[at]].item \notin confused'
      BY <1>1, <1>2, <2>4 DEF VisitsListed
    <3>2. auctions' = Unlisted(at)
      BY <1>1, <2>1, <3>1, ExpireListed
    <3>3. PICK item \in Items \ confused : item = lot[l].item
      BY <1>4, <2>4 DEF Lot
    <3>4. \A k \in IDs : auctions[k] = l => k = at
      BY <1>1, <3>1, <3>3 DEF OnePlace, Exclusive, AtMostOne, Sold, Listed
    <3> QED
      BY <1>4, <3>1, <3>2, <3>4 DEF Unlisted
  <2>5. FormsOK'
    <3> SUFFICES ASSUME NEW q \in Players, bidForm[q] # None
                 PROVE  /\ lot'[bidForm[q]].biddable
                        /\ \/ lot'[bidForm[q]].item \in confused'
                           \/ \A k \in IDs : auctions'[k] = bidForm[q] =>
                                  lot'[bidForm[q]].seller # q
      BY <1>1 DEF FormsOK
    <3>1. bidForm[q] \in 1..Len(lot)
      BY <1>1 DEF None
    <3>2. CASE bidForm[q] = l
      BY <2>2, <2>4, <3>2 DEF OfferInv, FormsOK
    <3>3. CASE bidForm[q] # l
      BY <1>5, <2>2, <3>1, <3>3 DEF OfferInv, FormsOK
    <3> QED
      BY <3>2, <3>3
  <2>6. BidsOK'
    BY <2>2, <2>3 DEF OfferInv, BidsOK
  <2> QED
    BY <2>5, <2>6 DEF OfferInv
<1> QED
  BY <1>6, <1>7

LEMMA OfferStep ==
    ASSUME IInv, OfferInv, [NextWithRestart]_vars PROVE OfferInv'
<1>1. TablesOK /\ confused \subseteq confused'
  BY StaysConfused DEF IInv, TablesInv
<1>2. CASE VisitAuction
  BY <1>1, <1>2, VisitAuctionOffers
<1>3. CASE \E p \in Players, id \in IDs : OpenBidForm(p, id)
  BY <1>1, <1>3, OpenBidFormOffers
<1>4. CASE \E p \in Players : \E item, price, biddable, d : Sell(p, item, price, biddable, d)
  BY <1>4, SellOffers
<1>5. CASE \E p \in Players, amount \in Amounts : PostBid(p, amount)
  BY <1>5, PostBidOffers
<1> DEFINE Closing ==
      \/ TaskBegin \/ SecondLoop \/ TaskEnd \/ Second \/ Restart \/ UNCHANGED vars
      \/ \E id \in IDs : VisitExpired(id)
      \/ \E p \in Players : SellRefused(p) \/ ForgetPurchase(p) \/ CloseBidForm(p)
      \/ \E p \in Players, id \in IDs : Retire(p, id) \/ Buy(p, id) \/ AskToConfirm(p, id)
<1>6. CASE Closing
  <2>1. lot' = lot
    BY <1>6 DEF TaskBegin, SecondLoop, TaskEnd, Second, Restart, vars, VisitExpired,
           SellRefused, ForgetPurchase, CloseBidForm, Retire, Buy, AskToConfirm, tableVars
  <2>2. \A p \in Players : bidForm'[p] \in {bidForm[p], None}
    <3>1. bidForm \in [Players -> 0..Len(lot)]
      BY <1>1 DEF TablesOK
    <3> QED
      BY <1>6, <3>1
         DEF TaskBegin, SecondLoop, TaskEnd, Second, Restart, vars, VisitExpired, formVars,
             SellRefused, ForgetPurchase, CloseBidForm, Retire, Buy, AskToConfirm
  <2>3. \A k \in IDs : auctions'[k] \in {auctions[k], None}
    BY <1>1, <1>6, TableFacts
       DEF TaskBegin, SecondLoop, TaskEnd, Second, Restart, vars, VisitExpired, tableVars,
           SellRefused, ForgetPurchase, CloseBidForm, Retire, Buy, AskToConfirm, Unlisted, NoLots
  <2> QED
    BY <1>1, <2>1, <2>2, <2>3, OffersKept
<1> QED
  BY <1>2, <1>3, <1>4, <1>5, <1>6 DEF NextWithRestart, Next, AuctionTask, Command

\* At first every item is in somebody's hands.
LEMMA CustodyAtFirst == Init => OfferInv /\ House!CustodyInit
<1> SUFFICES ASSUME Init PROVE OfferInv /\ House!CustodyInit
  OBVIOUS
<1>1. /\ lot = <<>> /\ \A p \in Players : bidForm[p] = None
      /\ \A k \in IDs : auctions[k] = None /\ expired[k] = None
      /\ confused = {}
  BY DEF Init, NoLots
<1>2. OfferInv
  BY <1>1 DEF OfferInv, FormsOK, BidsOK
<1>3. ASSUME NEW item \in Items
      PROVE  CustodyOf(item) \in {{House!Place("hands", p, {})} : p \in Players}
  <2>1. PICK p \in Players : \A q \in Players : item \in carried[q] <=> q = p
    BY DEF Init
  <2>2. Hands(item) = {p} /\ Sold(item) = {} /\ Stored(item) = {}
    BY <1>1, <2>1 DEF Hands, Sold, Stored, Listed
  <2>3. CustodyOf(item) = {Place("hands", p, {})}
    BY <2>2, CustodyIs
  <2> QED
    BY <2>3 DEF House!Place, Place
<1> QED
  BY <1>1, <1>2, <1>3 DEF House!CustodyInit, Custody

-----------------------------------------------------------------------------
(* The theorems. *)

\* The invariant behind the theorem: objects and tables are well typed, the first
\* loop meets lots that are still listed and the second one expired lots, and every
\* item is in one place, but for the items of auctions taken for one another.
THEOREM Inductive == SpecWithRestart => []IInv
<1>1. IInv /\ [NextWithRestart]_vars => IInv'
  BY Step
<1> QED
  BY <1>1, Start, PTL DEF SpecWithRestart, NextWithRestart

\* An item is in one place only: whatever order sales, purchases, retirements,
\* bids, the task's steps and restarts come in, no handler hands out an item
\* that another one has handed out.  Only an item whose own auction getAuctionID
\* took for another one, or for which another one was taken, is left out; what
\* happens to these harms no other item.
THEOREM ItemHasOneOwner == SpecWithRestart => []OneOwner
<1>1. IInv => OneOwner
  BY CountedOnce DEF IInv, TablesInv
<1> QED
  BY <1>1, Inductive, PTL

\* The same for money.
THEOREM MoneyInductive == SpecWithRestart => [](IInv /\ MoneyInv)
<1>1. IInv /\ MoneyInv /\ [NextWithRestart]_vars => IInv' /\ MoneyInv'
  BY Step, MoneyStep
<1> QED
  BY <1>1, Start, MoneyAtFirst, PTL DEF SpecWithRestart, NextWithRestart

\* Every table, form and object is of its type, and no purse is ever negative or
\* above the greatest number: nobody is charged a tax, cost, price or bid that
\* reduceMoney would have refused, whichever auctions are taken for one another.
THEOREM TypeCorrect == SpecWithRestart => []TypeOK
<1>1. Init => TablesInv /\ money \in Purse
  BY Start, MoneyAtFirst DEF IInv, MoneyInv
<1>2. TablesInv /\ money \in Purse /\ [NextWithRestart]_vars => TablesInv' /\ money' \in Purse
  BY TablesStep, PurseStep DEF TablesInv
<1>3. TablesInv /\ money \in Purse => TypeOK
  BY DEF TablesInv, TypeOK, Purse
<1> DEFINE Types == TablesInv /\ money \in Purse
<1>4. Init => Types
  BY <1>1
<1>5. Types /\ [NextWithRestart]_vars => Types'
  BY <1>2 DEF Purse
<1>6. Types => TypeOK
  BY <1>3
<1> HIDE DEF Types
<1> QED
  BY <1>4, <1>5, <1>6, PTL DEF SpecWithRestart, NextWithRestart

\* The purses and the bids that listed auctions hold never add up to more than
\* all players had at first, as long as no auction was taken for another one: a bid
\* is paid back once at most, and only the bids that were taken are.
THEOREM MoneyIsNotMade == SpecWithRestart => []NoMoneyMade
<1>1. IInv /\ MoneyInv => NoMoneyMade
  BY DEF MoneyInv
<1> QED
  BY <1>1, MoneyInductive, PTL

\* The auction house keeps its promise, restarts included: an item leaves the
\* list for its seller, a buyer or one who has bid on it, and the store for the
\* one it was put there for; nobody else ever gets it, and it is never in two
\* places.  What it loses track of are the two listed items of auctions it takes for
\* one another, at the moment it does so, and no others.
THEOREM ImplementsCustody == SpecWithRestart => RefinesCustody
<1>1. Init => OfferInv /\ House!CustodyInit
  BY CustodyAtFirst
<1>2. IInv /\ MoneyInv /\ OfferInv /\ [NextWithRestart]_vars => OfferInv'
  BY OfferStep
<1>3. SpecWithRestart => [](IInv /\ MoneyInv /\ OfferInv)
  BY <1>1, <1>2, MoneyInductive, PTL DEF SpecWithRestart, NextWithRestart
<1>4. IInv /\ IInv' /\ MoneyInv /\ OfferInv /\ [NextWithRestart]_vars
          => [House!Change]_Custody
  <2>1. IInv /\ IInv' /\ MoneyInv /\ OfferInv /\ [NextWithRestart]_vars => HouseStep
    BY StepSeen
  <2>2. HouseStep => [House!Change]_Custody
    BY DEF HouseStep, House!Change
  <2> QED
    BY <2>1, <2>2
<1> QED
  BY <1>1, <1>3, <1>4, PTL
     DEF SpecWithRestart, NextWithRestart, RefinesCustody, House!CustodySpec

=============================================================================
