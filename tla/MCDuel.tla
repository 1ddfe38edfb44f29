------------------------------- MODULE MCDuel -------------------------------
(* Instances of Duel for TLC.  Types 1, 2, ... stand for the duel types that    *)
(* each instance exercises.                                                     *)
EXTENDS Duel, TLC

AllTypes == [a \in Arenas |-> Types]
OneEach  == [a \in Arenas |-> {a}]
NoTypes  == {}
Everyone == Players
Nobodys  == {}
One      == {1}

Symmetry == Permutations(Players)

=============================================================================
