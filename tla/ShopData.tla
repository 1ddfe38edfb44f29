------------------------------ MODULE ShopData ------------------------------
(***************************************************************************)
(* The sign shops of the production server (plugin_data/Core/shops.js) and   *)
(* the prices /sell pays (sell.yml of LegacyCore).  All signs hang in the    *)
(* world "hub", so a position is <<x, y, z>>; an item is <<ID, damage>>.      *)
(* The shops hang in columns: the VIP sign, and two blocks above it the sign *)
(* of everybody else, which sells the same bundle for twice the price.  A    *)
(* row <<x, z, price, ID, damage, amount>> stands for both signs.             *)
(***************************************************************************)
EXTENDS Integers, SequencesExt

Stand1 == {<<52, 49, 300, 169, 0, 1>>, <<53, 50, 500, 208, 0, 1>>,
    <<54, 51, 300, 47, 0, 1>>, <<55, 52, 1000, 389, 0, 1>>, <<56, 53, 1000, 80, 0, 1>>,
    <<57, 54, 1000, 140, 0, 1>>}
Stand2 == {<<60, 57, 100, 65, 0, 1>>, <<62, 59, 200, 106, 0, 1>>,
    <<64, 61, 5000, 130, 0, 1>>, <<66, 63, 100, 347, 0, 1>>, <<68, 65, 100, 345, 0, 1>>,
    <<70, 67, 100, 6, 0, 1>>}
Stand3 == {<<71, 68, 100, 6, 1, 1>>, <<73, 70, 100, 6, 2, 1>>, <<74, 71, 100, 6, 3, 1>>,
    <<76, 73, 100, 295, 0, 1>>, <<79, 76, 1000, 372, 0, 1>>, <<81, 78, 1000, 40, 0, 1>>}
Stand4 == {<<82, 79, 1000, 39, 0, 1>>, <<80, 81, 1000, 81, 0, 1>>,
    <<77, 84, 1000, 338, 0, 1>>, <<75, 86, 1000, 392, 0, 1>>, <<74, 85, 1000, 391, 0, 1>>,
    <<72, 83, 100, 361, 0, 1>>}
Stand5 == {<<70, 81, 1000, 362, 0, 1>>, <<68, 79, 250, 263, 0, 1>>,
    <<66, 77, 750, 265, 0, 1>>, <<63, 74, 500, 331, 0, 1>>, <<62, 73, 2500, 266, 0, 1>>,
    <<60, 71, 5000, 388, 0, 1>>}
Stand6 == {<<58, 69, 5000, 264, 0, 1>>, <<56, 67, 10, 38, 4, 1>>, <<54, 65, 10, 38, 5, 1>>,
    <<52, 63, 10, 38, 6, 1>>, <<49, 60, 10, 38, 7, 1>>, <<47, 58, 10, 38, 8, 1>>}
Stand7 == {<<45, 56, 10, 38, 2, 1>>, <<44, 55, 20, 38, 1, 1>>}
Stand8 == {<<62, 53, 1000, 259, 0, 1>>, <<64, 54, 1000, 359, 0, 1>>,
    <<67, 55, 1000, 368, 0, 1>>, <<70, 56, 50000, 46, 0, 1>>, <<72, 58, 100, 357, 0, 1>>,
    <<73, 61, 300, 366, 0, 1>>}
Stand9 == {<<74, 64, 10000, 350, 0, 1>>, <<75, 66, 400, 400, 0, 1>>,
    <<74, 68, 400, 320, 0, 1>>, <<73, 71, 10, 38, 3, 1>>, <<72, 74, 10, 38, 1, 1>>,
    <<70, 76, 10, 37, 0, 1>>}
Stand10 == {<<67, 77, 6400, 17, 0, 64>>, <<64, 78, 6400, 17, 1, 64>>,
    <<62, 79, 6400, 17, 2, 64>>, <<61, 79, 6400, 17, 3, 64>>, <<57, 77, 6400, 162, 0, 64>>,
    <<54, 76, 6400, 3, 0, 64>>}
Stand11 == {<<52, 74, 6400, 3, 1, 64>>, <<51, 71, 6400, 2, 0, 64>>,
    <<50, 68, 25600, 12, 0, 64>>, <<49, 66, 25600, 12, 1, 64>>,
    <<50, 64, 1600, 82, 0, 64>>, <<51, 61, 3200, 20, 0, 64>>}
Stand12 == {<<52, 58, 12800, 1, 0, 64>>, <<54, 56, 12800, 4, 0, 64>>,
    <<57, 55, 25600, 98, 0, 64>>, <<60, 54, 19200, 45, 0, 64>>,
    <<49, 67, 16000, 87, 0, 64>>, <<49, 63, 64000, 112, 0, 64>>}
Stand13 == {<<50, 60, 64000, 215, 0, 64>>, <<52, 57, 16000, 155, 0, 64>>,
    <<53, 56, 25600, 206, 0, 64>>, <<56, 56, 25600, 168, 2, 64>>,
    <<59, 54, 64000, 49, 0, 64>>, <<63, 53, 100, 58, 0, 1>>}
Stand14 == {<<66, 54, 100, 61, 0, 1>>, <<69, 55, 100, 145, 0, 1>>,
    <<71, 57, 100, 117, 0, 1>>, <<74, 60, 100, 116, 0, 1>>, <<75, 63, 2400, 47, 0, 1>>}
Stand15 == {<<75, 69, 4000, 389, 0, 1>>, <<74, 72, 350, 123, 0, 1>>}
Stand16 == {<<59, 79, 6400, 80, 0, 64>>, <<56, 78, 6400, 79, 0, 64>>,
    <<53, 77, 6400, 81, 0, 64>>, <<52, 75, 6400, 86, 0, 1>>, <<50, 70, 12800, 138, 0, 1>>,
    <<50, 62, 64800, 213, 0, 64>>}

\* The signs that are not two of a column.
OddBooks == (<<75, 31, 67>> :> [price |-> 10, item |-> <<50, 0>>, amount |-> 1,
                                vip |-> TRUE, cheap |-> FALSE])
         @@ (<<75, 33, 67>> :> [price |-> 4800, item |-> <<47, 0>>, amount |-> 1,
                                vip |-> FALSE, cheap |-> FALSE])
LoneVip  == (<<71, 31, 76>> :> [price |-> 3200000, item |-> <<7, 0>>, amount |-> 64,
                                vip |-> TRUE, cheap |-> FALSE])
         @@ (<<68, 31, 78>> :> [price |-> 100000, item |-> <<154, 0>>, amount |-> 1,
                                vip |-> TRUE, cheap |-> FALSE])

Ground == Stand1 \cup Stand2 \cup Stand3 \cup Stand4 \cup Stand5 \cup Stand6 \cup Stand7
Upper  == Stand8 \cup Stand9 \cup Stand10 \cup Stand11 \cup Stand12
            \cup Stand13 \cup Stand14 \cup Stand15 \cup Stand16

VipSign(row)    == [price |-> row[3], item |-> <<row[4], row[5]>>, amount |-> row[6],
                    vip |-> TRUE, cheap |-> FALSE]
NormalSign(row) == [VipSign(row) EXCEPT !.price = 2 * @, !.vip = FALSE]

\* The columns whose VIP signs hang at height y.
Columns(rows, y) ==
    LET Row(pos) == CHOOSE row \in rows : row[1] = pos[1] /\ row[2] = pos[3]
    IN  [pos \in {<<row[1], y, row[2]>> : row \in rows} |-> VipSign(Row(pos))]
     @@ [pos \in {<<row[1], y + 2, row[2]>> : row \in rows} |-> NormalSign(Row(pos))]

Catalogue == Columns(Ground, 20) @@ Columns(Upper, 31) @@ OddBooks @@ LoneVip

\* The rows <<ID, price>> of sell.yml in their order.
SellRows == <<<<331, 0>>, <<13, 0>>, <<1, 2>>, <<2, 1>>, <<3, 1>>, <<4, 2>>, <<5, 1>>,
    <<7, 500>>, <<12, 1>>, <<13, 1>>, <<14, 20>>, <<15, 10>>, <<16, 2>>, <<17, 1>>,
    <<20, 1>>, <<21, 5>>, <<22, 10>>, <<24, 2>>, <<25, 1>>, <<30, 1>>, <<32, 1>>,
    <<39, 1>>, <<40, 1>>, <<45, 1>>, <<47, 10>>, <<48, 1>>, <<49, 25>>, <<50, 1>>,
    <<54, 1>>, <<56, 500>>, <<73, 3>>, <<74, 3>>, <<79, 1>>, <<80, 1>>, <<81, 50>>,
    <<82, 1>>, <<86, 1>>, <<87, 1>>, <<88, 1>>, <<89, 2>>, <<91, 3>>, <<98, 1>>,
    <<99, 10>>, <<100, 10>>, <<103, 100>>, <<105, 25>>, <<106, 1>>, <<115, 45>>,
    <<116, 50>>, <<117, 10>>, <<118, 75>>, <<121, 5>>, <<129, 200>>, <<130, 50>>,
    <<139, 1>>, <<152, 50>>, <<155, 5>>, <<159, 2>>, <<162, 1>>, <<170, 75>>, <<171, 1>>,
    <<172, 1>>, <<173, 5>>, <<174, 1>>, <<243, 1>>, <<246, 100>>, <<263, 2>>, <<265, 50>>,
    <<266, 150>>, <<296, 40>>, <<331, 2>>, <<374, 1>>, <<378, 40>>, <<379, 50>>,
    <<380, 25>>, <<382, 100>>, <<383, 100>>, <<388, 200>>, <<389, 20>>, <<396, 100>>,
    <<406, 10>>, <<338, 50>>, <<367, 17>>, <<57, 40>>, <<42, 40>>, <<133, 40>>,
    <<41, 138>>, <<287, 17>>, <<375, 17>>, <<351, 52>>, <<288, 34>>, <<365, 34>>,
    <<423, 104>>, <<378, 86>>, <<415, 104>>>>

\* Of two rows for one ID the parser keeps the last.
SellFile == [id \in {row[1] : row \in ToSet(SellRows)} |->
               SellRows[CHOOSE n \in DOMAIN SellRows :
                          /\ SellRows[n][1] = id
                          /\ \A k \in (n + 1)..Len(SellRows) : SellRows[k][1] # id][2]]

=============================================================================
