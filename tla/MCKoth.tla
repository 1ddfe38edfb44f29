------------------------------- MODULE MCKoth -------------------------------
(* An instance of Koth: two factions, of which red has a second member. *)
EXTENDS Koth, TLC

CONSTANTS p1, p2, p3, red, blue

TwoLeaders == (red :> p1) @@ (blue :> p3)
TwoHomes   == (p1 :> red) @@ (p2 :> red) @@ (p3 :> blue)
Nobodys    == {}

=============================================================================
