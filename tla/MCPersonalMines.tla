--------------------------- MODULE MCPersonalMines ---------------------------
(* Instances of PersonalMines: a mine in the prison, and land for personal mines. *)
EXTENDS PersonalMines

CONSTANTS p1, p2, prison, mine1, mine2

Land        == 0..7
TwoLands    == 0..11
OneMine     == [n \in {prison} |-> NewMine(0, 1, TRUE)]
ItsPlace    == [n \in {prison} |-> {<<0, 1>>}]
BothMines   == {0, 5}
Clipboard   == {0, 1, 3}
Middle      == <<1, 1>>
OneSettler  == [p \in {p1} |-> mine1]
TwoSettlers == [p \in {p1, p2} |-> IF p = p1 THEN mine1 ELSE mine2]

\* What the theorems about resets ask of where mines lie.
ASSUME MinesLieApart == Apart
=============================================================================
