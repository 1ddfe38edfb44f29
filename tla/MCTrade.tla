------------------------------ MODULE MCTrade ------------------------------
(* Instances of Trade. *)
EXTENDS Trade

CONSTANTS p1, p2, p3, i1, i2

OneEach == [p \in {p1, p2, p3} |-> IF p = p1 THEN {i1} ELSE IF p = p2 THEN {i2} ELSE {}]
SomeRoom == [p \in {p1, p2, p3} |-> IF p = p2 THEN 1 ELSE 2]
=============================================================================
