------------------------------ MODULE MCAuction ------------------------------
(* Instances of Auction for TLC. *)
EXTENDS Auction

CONSTANTS i1, i2

TwoPlayers == {1, 2}
JustOne    == {1}

\* Nothing but its seller, its buyer and its bidders depends on which item it is, so that
\* of two players with an item each one pair is enough.
InitOfItems ==
    /\ carried \in {<<{i1, i2}, {}>>, <<{}, {i1, i2}>>, <<{i1}, {i2}>>}
    /\ Init

\* FairSpec from those initial states.
FairSpecOfItems == InitOfItems /\ [][Next \/ Restart]_vars /\ Fairness

=============================================================================
