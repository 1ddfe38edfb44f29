---------------------------- MODULE DuelLifecycle ----------------------------
(***************************************************************************)
(* What an arena promises, without players' connections, queues, forms and  *)
(* inventories: a pair is put into a free arena, counts down, fights, and    *)
(* the arena is free again; the pair is never exchanged on the way, a duel   *)
(* never resumes once it is over, and it is won at most once, by a member of *)
(* the pair leaving or losing.  One step concerns one arena.                 *)
(***************************************************************************)
EXTENDS Integers

CONSTANTS Players, NumArenas

Arenas == 1..NumArenas
Phase  == {"free", "reserved", "countdown", "active", "over"}

VARIABLES phase, pair, won    \* per arena; won counts the registered wins
lifecycleVars == <<phase, pair, won>>

LifecycleTypeOK ==
    /\ phase \in [Arenas -> Phase]
    /\ pair \in [Arenas -> SUBSET Players]
    /\ won \in [Arenas -> 0..1]

LifecycleInit ==
    /\ phase = [a \in Arenas |-> "free"]
    /\ pair = [a \in Arenas |-> {}]
    /\ won = [a \in Arenas |-> 0]

Go(a, to) == phase' = [phase EXCEPT ![a] = to]

\* A challenge accepted by its own issuer reserves the arena for one name, for good.
Reserve(a) ==
    /\ phase[a] = "free"
    /\ Go(a, "reserved")
    /\ \E p, q \in Players : pair' = [pair EXCEPT ![a] = {p, q}]
    /\ won' = [won EXCEPT ![a] = 0]

Begin(a) ==
    /\ phase[a] = "reserved"
    /\ \E p, q \in pair[a] : p # q
    /\ Go(a, "countdown")
    /\ UNCHANGED <<pair, won>>

Fight(a) ==
    /\ phase[a] = "countdown"
    /\ Go(a, "active")
    /\ UNCHANGED <<pair, won>>

\* A hit or fall decides the duel, or time runs out; the pair still has to leave.
Finish(a) ==
    /\ phase[a] = "active"
    /\ Go(a, "over")
    /\ \E w \in {0, 1} : won' = [won EXCEPT ![a] = w]
    /\ UNCHANGED pair

\* Somebody leaves the server, and the arena is free at once.
Forfeit(a) ==
    /\ phase[a] \in {"countdown", "active"}
    /\ Go(a, "free")
    /\ pair' = [pair EXCEPT ![a] = {}]
    /\ \E w \in {0, 1} : won' = [won EXCEPT ![a] = w]

Clear(a) ==
    /\ phase[a] = "over"
    /\ Go(a, "free")
    /\ pair' = [pair EXCEPT ![a] = {}]
    /\ UNCHANGED won

LifecycleNext == \E a \in Arenas :
    Reserve(a) \/ Begin(a) \/ Fight(a) \/ Finish(a) \/ Forfeit(a) \/ Clear(a)

LifecycleSpec == LifecycleInit /\ [][LifecycleNext]_lifecycleVars

=============================================================================
