------------------------------ MODULE MineReset ------------------------------
(***************************************************************************)
(* The MineReset plugin.  A reset copies the chunks around the mine, fills    *)
(* the mine in the copies on a worker thread, and puts all copied chunks back  *)
(* when the main thread collects the task.  What happens in between, to the    *)
(* blocks, to the players inside and to the mine itself, is the subject.       *)
(* The world is a line of cells, cut into chunks.                              *)
(***************************************************************************)
EXTENDS Integers, Bags, FiniteSetsExt

CONSTANTS
    Player,
    Walkers,     \* players of whom it matters where they stand
    Admin,       \* players with the permissions of /mine
    Name,        \* names of mines
    Mines,       \* the mines at first: name |-> mine
    Cell,        \* 0..n
    ChunkWidth,  \* 16
    Open,        \* cells that area protection leaves open to players
    Site,        \* name |-> the areas <<a, b>> admins may choose for it
    MaxTasks     \* bound: resets under way

Mine == {m \in [a: Cell, b: Cell, data: BOOLEAN, resetting: BOOLEAN] : m.a <= m.b}

ASSUME GeometryAssumption == /\ ChunkWidth \in Nat \ {0} /\ Open \subseteq Cell
                             /\ Cell \subseteq Nat /\ \A c \in Cell : 0..c \subseteq Cell
ASSUME MinesAssumption    == /\ Admin \subseteq Player /\ Walkers \subseteq Player
                             /\ DOMAIN Mines \subseteq Name /\ Mines \in [DOMAIN Mines -> Mine]
                             /\ DOMAIN Site \subseteq Name
                             /\ \A n \in DOMAIN Site : Site[n] \subseteq {w \in Cell \X Cell : w[1] <= w[2]}
                             /\ MaxTasks \in Nat

VARIABLES
    mines,    \* MineManager::$mines, by name; mines.yml holds the same
    tasks,    \* the bag of ResetTasks submitted and not yet collected
    full,     \* the cells with a block; the others are air
    at,       \* the coordinate of each walker, in halves of a block
    session,  \* MineCreationSession of each admin
    asked,    \* admins who were shown a string to confirm /mine destroy with
    stale     \* history: names whose mine is not the one a task under way was for

vars == <<mines, tasks, full, at, session, asked, stale>>

Away == -1    \* outside of the modelled cells, at a spawn
NoSession == [stage |-> "none"]

Area(m) == m.a..m.b

\* A coordinate is a whole number of blocks or lies between two: the block a player
\* stands in is that number rounded down.
Coordinate == {2 * c : c \in Cell} \cup {2 * c + 1 : c \in Cell}
CellAt(x) == x \div 2

\* Variant: the corners themselves are outside.
IsPointBetween(m, x) == 2 * m.a < x /\ x < 2 * m.b

\* isPointInside() compares the coordinate as it is with the corners, which are whole:
\* in the last block of a mine only a player exactly on its number is inside.
IsPointInside(m, x) == 2 * m.a <= x /\ x <= 2 * m.b

\* The chunks reset() walks through: it starts at the mine's corner, not at a chunk's,
\* and goes on for a width, so that often a chunk beyond the mine is copied.
Copied(m) == {m.a \div ChunkWidth + k : k \in 0..((m.b - m.a) \div ChunkWidth + 1)}

CopiedCells(m) == {c \in Cell : c \div ChunkWidth \in Copied(m)}

Session == {NoSession} \cup [stage: {"A"}, name: DOMAIN Site]
                       \cup [stage: {"B"}, name: DOMAIN Site, a: Cell]

NewMine(a, b, data) == [a |-> a, b |-> b, data |-> data, resetting |-> FALSE]

\* The types of MineReset; PTypeOK of PersonalMines includes them.
TypeOK ==
    /\ DOMAIN mines \subseteq Name /\ mines \in [DOMAIN mines -> Mine]
    /\ IsABag(tasks)
    /\ \A t \in DOMAIN tasks : /\ t.name \in Name /\ t.copy \subseteq Cell
                               /\ t.a \in Cell /\ t.b \in Cell /\ t.a <= t.b
    /\ full \subseteq Cell
    /\ at \in [Walkers -> Coordinate \cup {Away}]
    /\ session \in [Admin -> Session]
    /\ asked \subseteq Admin /\ stale \subseteq Name

Init ==
    /\ mines = Mines
    /\ tasks = EmptyBag
    /\ full = Cell
    /\ at = [p \in Walkers |-> Away]
    /\ session = [p \in Admin |-> NoSession]
    /\ asked = {}
    /\ stale = {}

-----------------------------------------------------------------------------
(* Players in the mines *)

ResettingAt(c) == \E n \in DOMAIN mines : mines[n].resetting /\ c \in Area(mines[n])

Walk(p, x) ==
    /\ x # at[p] /\ CellAt(x) \notin full
    /\ at' = [at EXCEPT ![p] = x]
    /\ UNCHANGED <<mines, tasks, full, session, asked, stale>>

\* Variant: the listener does not ask whether the mine is being reset.
BreakAnywhere(c) ==
    /\ c \in Open \cap full
    /\ full' = full \ {c}
    /\ UNCHANGED <<mines, tasks, at, session, asked, stale>>

Break(c) ==
    /\ c \in Open \cap full /\ ~ResettingAt(c)
    /\ full' = full \ {c}
    /\ UNCHANGED <<mines, tasks, at, session, asked, stale>>

Place(c) ==
    /\ c \in Open \ full /\ ~ResettingAt(c)
    /\ \A p \in Walkers : CellAt(at[p]) # c
    /\ full' = full \cup {c}
    /\ UNCHANGED <<mines, tasks, at, session, asked, stale>>

-----------------------------------------------------------------------------
(* Resets *)

Resettable == {n \in DOMAIN mines : ~mines[n].resetting}

\* What the copies hold of the mine itself is filled, so only the rest is kept here.
Task(n) == [name |-> n, a |-> mines[n].a, b |-> mines[n].b, data |-> mines[n].data,
            copy |-> full \cap (CopiedCells(mines[n]) \ Area(mines[n]))]

StartResets(ns) ==
    /\ ns # {} /\ BagCardinality(tasks) + Cardinality(ns) <= MaxTasks
    /\ mines' = [n \in DOMAIN mines |->
                   IF n \in ns THEN [mines[n] EXCEPT !.resetting = TRUE] ELSE mines[n]]
    /\ tasks' = tasks (+) SetToBag({Task(n) : n \in ns})
    /\ UNCHANGED <<full, at, session, asked, stale>>

\* /mine reset, and the buttons in the prison.
Reset(n) == n \in Resettable /\ StartResets({n})

\* /mine reset-all: by hand, before a restart, and by Core.
ResetAll == StartResets(Resettable)

Done(t) ==
    /\ tasks' = tasks (-) SetToBag({t})
    /\ stale' = {n \in stale : \E u \in DOMAIN tasks' : u.name = n}

\* What the mine of the task's name is now, clearMine and notifyComplete look up.
Cleared(t) ==
    [p \in Walkers |->
       IF t.name \in DOMAIN mines /\ IsPointInside(mines[t.name], at[p])
       THEN Away ELSE at[p]]

Notified(t) ==
    IF t.name \in DOMAIN mines THEN [mines EXCEPT ![t.name].resetting = FALSE] ELSE mines

\* Variant: the last block of each row is one too far.
FilledPastEnd(t) == t.a..(t.b + 1)

\* What the worker fills of the copies.
Filled(t) == t.a..t.b

\* Variant: the mine is not told.
CompleteSilently(t) ==
    /\ t.data /\ Done(t)
    /\ full' = (full \ CopiedCells(t)) \cup t.copy \cup Filled(t)
    /\ at' = Cleared(t)
    /\ UNCHANGED <<mines, session, asked>>

Complete(t) ==
    /\ t.data /\ Done(t)
    /\ full' = (full \ CopiedCells(t)) \cup t.copy \cup Filled(t)
    /\ at' = Cleared(t)
    /\ mines' = Notified(t)
    /\ UNCHANGED <<session, asked>>

\* Without data there is no $m[0]: the task throws on its thread and is dropped.
Crash(t) ==
    /\ ~t.data /\ Done(t)
    /\ UNCHANGED <<mines, full, at, session, asked>>

-----------------------------------------------------------------------------
(* Administration *)

UnderWay(n) == \E t \in DOMAIN tasks : t.name = n

\* MineManager's offsetSet, with a new mine, and offsetUnset.
Put(n, m) ==
    /\ mines' = [k \in DOMAIN mines \cup {n} |-> IF k = n THEN m ELSE mines[k]]
    /\ stale' = IF UnderWay(n) THEN stale \cup {n} ELSE stale

Take(n) ==
    /\ mines' = [k \in DOMAIN mines \ {n} |-> mines[k]]
    /\ stale' = IF UnderWay(n) THEN stale \cup {n} ELSE stale

\* /mine create: whether the name is free is asked here only.
Create(p, n) ==
    /\ session[p] = NoSession /\ n \in DOMAIN Site \ DOMAIN mines
    /\ session' = [session EXCEPT ![p] = [stage |-> "A", name |-> n]]
    /\ UNCHANGED <<mines, tasks, full, at, asked, stale>>

TapFirst(p, c) ==
    /\ session[p].stage = "A"
    /\ \E w \in Site[session[p].name] : c \in {w[1], w[2]}
    /\ session' = [session EXCEPT ![p] = [stage |-> "B", name |-> @.name, a |-> c]]
    /\ UNCHANGED <<mines, tasks, full, at, asked, stale>>

\* The new mine replaces any other of its name.
TapSecond(p, c) ==
    /\ session[p].stage = "B"
    /\ LET a == Min({session[p].a, c})
           b == Max({session[p].a, c})
       IN  /\ <<a, b>> \in Site[session[p].name]
           /\ Put(session[p].name, NewMine(a, b, FALSE))
    /\ session' = [session EXCEPT ![p] = NoSession]
    /\ UNCHANGED <<tasks, full, at, asked>>

\* The second tap is in another world.
TapElsewhere(p) ==
    /\ session[p].stage = "B"
    /\ session' = [session EXCEPT ![p] = NoSession]
    /\ UNCHANGED <<mines, tasks, full, at, asked, stale>>

\* /mine set, with percentages that add up to 100.
Set(n) ==
    /\ n \in DOMAIN mines
    /\ mines' = [mines EXCEPT ![n].data = TRUE]
    /\ UNCHANGED <<tasks, full, at, session, asked, stale>>

\* /mine destroy without, or with another, string shows one for the next time,
DestroyAsk(p, n) ==
    /\ n \in DOMAIN mines
    /\ asked' = asked \cup {p}
    /\ UNCHANGED <<mines, tasks, full, at, session, stale>>

\* which confirms whatever mine is named with it.
Destroy(p, n) ==
    /\ n \in DOMAIN mines /\ p \in asked
    /\ Take(n)
    /\ asked' = asked \ {p}
    /\ UNCHANGED <<tasks, full, at, session>>

\* The server stops, cleanly or not, and starts: workers and sessions are gone, and
\* mines are built from mines.yml.
Restart ==
    /\ mines' = [n \in DOMAIN mines |-> [mines[n] EXCEPT !.resetting = FALSE]]
    /\ tasks' = EmptyBag
    /\ at' = [p \in Walkers |-> Away]
    /\ session' = [p \in Admin |-> NoSession]
    /\ asked' = {}
    /\ stale' = {}
    /\ UNCHANGED full

Step ==
    \/ \E c \in Cell : Break(c) \/ Place(c)
    \/ \E p \in Walkers, x \in Coordinate \cup {Away} : Walk(p, x)
    \/ \E n \in Name : Reset(n) \/ Set(n)
    \/ ResetAll
    \/ \E t \in DOMAIN tasks : Complete(t) \/ Crash(t)
    \/ \E p \in Admin : \/ \E n \in Name : Create(p, n) \/ DestroyAsk(p, n) \/ Destroy(p, n)
                        \/ \E c \in Cell : TapFirst(p, c) \/ TapSecond(p, c)
                        \/ TapElsewhere(p)

\* The workers run, and the main thread collects what they have done.
Collect(n) == \E t \in DOMAIN tasks : t.name = n /\ (Complete(t) \/ Crash(t))

-----------------------------------------------------------------------------
(* Properties *)

\* A finished reset changes no block outside its mine, although it puts whole
\* chunks back as they were when it began.
OnlyItsMine ==
    [][\A t \in DOMAIN tasks : Complete(t) => full' \ Area(t) = full \ Area(t)]_vars

\* A player's edit is not overwritten by a reset that began before it: while a mine
\* is filled the listener refuses edits in it, unless its mine has been destroyed or
\* replaced in the meantime, as resets and mines know each other by name only.
EditsSurvive ==
    [][\A t \in DOMAIN tasks : tasks' = tasks /\ full' \cap Area(t) # full \cap Area(t) =>
          t.name \in stale']_vars

\* A reset leaves nobody standing inside the blocks it has put there, unless its mine
\* has been destroyed or replaced, or he stands in the last block of the mine and not
\* exactly on its number: him the comparison takes for outside.
NobodyBuried ==
    [][\A t \in DOMAIN tasks : Complete(t) =>
          \A p \in Walkers : CellAt(at'[p]) \in full' =>
              CellAt(at[p]) \in full \/ t.name \in stale \/ at[p] = 2 * t.b + 1]_vars

\* A reset of a mine with data ends, and the mine can be dug in and reset again.
ResetEnds ==
    \A n \in Name : (\E t \in DOMAIN tasks : t.name = n /\ t.data)
                        ~> (n \in DOMAIN mines => ~mines[n].resetting)

=============================================================================
