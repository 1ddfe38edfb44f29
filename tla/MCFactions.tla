----------------------------- MODULE MCFactions -----------------------------
(* Instances of Factions.  Players and factions are interchangeable. *)
EXTENDS Factions, TLC

Symmetry == Permutations(Players) \union Permutations(Names)
=============================================================================
