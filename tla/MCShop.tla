-------------------------------- MODULE MCShop --------------------------------
(* Instances of Shop on the shops and prices of the production server. *)
EXTENDS Shop, ShopData

\* The VIP sign and the normal sign of the odd column, and the free place above
\* the bedrock.
ThreeSites == {<<75, 31, 67>>, <<75, 33, 67>>, <<71, 33, 76>>}

Cactus  == <<81, 0>>
Bedrock == <<7, 0>>

\* As cheap as cactus may be sold without loss, sixty-four of it for 64 * 50; and a
\* single one for less than that.
TwoOffers == {[price |-> 3200, item |-> Cactus, amount |-> 64, vip |-> TRUE, cheap |-> FALSE],
              [price |-> 10, item |-> Cactus, amount |-> 1, vip |-> TRUE, cheap |-> FALSE]}

EverythingOrBedrock == {{}, {Bedrock}}
=============================================================================
