---------------------------- MODULE AuctionCustody ----------------------------
(***************************************************************************)
(* What the auction house promises about whose an item is, without money,    *)
(* times, IDs and tables.  An item is in somebody's hands, on the list for a  *)
(* seller, or in the store for whom it was taken off the list for; it leaves  *)
(* the list for its seller, for a buyer if nobody has bid, or for a bidder;   *)
(* and it leaves the store for nobody but its owner.  One step concerns one   *)
(* item, except that a restart loses what is not in hands, and that the house *)
(* may take one listed item for another: it then knows of neither any longer, *)
(* and what becomes of these two is not described here.                       *)
(***************************************************************************)
CONSTANTS Players, Items

VARIABLE custody    \* the places where an item is: one, or none if the house lost it

Place(where, whose, bids) == [at |-> where, of |-> whose, bidders |-> bids]

CustodyInit == custody \in [Items -> {{Place("hands", p, {})} : p \in Players}]

Moves(item, from, to) == /\ custody[item] = {from}
                         /\ custody' = [custody EXCEPT ![item] = to]

Offer(item, from) ==
    /\ from.at = "hands"
    /\ Moves(item, from, {Place("list", from.of, {})})

\* Nobody bids on what is his own.
PlaceBid(item, from, p) ==
    /\ from.at = "list" /\ p # from.of
    /\ Moves(item, from, {Place("list", from.of, from.bidders \cup {p})})

\* The seller takes it back, or somebody buys it.
HandOver(item, from, p) ==
    /\ from.at = "list" /\ (p = from.of \/ from.bidders = {})
    /\ Moves(item, from, {Place("hands", p, {})})

End(item, from, p) ==
    /\ from.at = "list" /\ p \in from.bidders \cup {from.of}
    /\ Moves(item, from, {Place("store", p, {})})

Return(item, from) ==
    /\ from.at = "store"
    /\ Moves(item, from, {Place("hands", from.of, {})})

\* Its ID is taken in the store, or nobody collected it for too long.
Vanish(item, from) ==
    /\ from.at # "hands"
    /\ Moves(item, from, {})

Confuse(item, other) ==
    /\ \A i \in {item, other} : \E from \in custody[i] : from.at = "list"
    /\ custody' = [custody EXCEPT ![item] = {}, ![other] = {}]

VanishAll == custody' = [item \in Items |-> {place \in custody[item] : place.at = "hands"}]

CustodyNext ==
    \/ \E item \in Items : \E from \in custody[item] :
           \/ Offer(item, from) \/ Return(item, from) \/ Vanish(item, from)
           \/ \E p \in Players :
                  PlaceBid(item, from, p) \/ HandOver(item, from, p) \/ End(item, from, p)
    \/ \E item, other \in Items : Confuse(item, other)
    \/ VanishAll

\* A step that moves nothing is not asked how it does.
Change == custody' # custody /\ CustodyNext

CustodySpec == CustodyInit /\ [][Change]_custody

===============================================================================
