---------------------------- MODULE PersonalMines ----------------------------
(***************************************************************************)
(* /pmine over MineReset: a player who has no personal mine gets the next    *)
(* region of land, a clipboard is pasted there on a worker thread, and then   *)
(* the region becomes a protected area and its mine a mine of MineReset's.    *)
(* The areas and the mines are written to disk at once, the book of regions   *)
(* when the server stops cleanly.                                             *)
(***************************************************************************)
EXTENDS MineReset, Sequences, SequencesExt

CONSTANTS
    Start,     \* PMINE_STARTX: the first region begins here
    Width,     \* of a region: the width of the clipboard
    Template,  \* the offsets at which the clipboard has a block
    Shaft,     \* the offsets of the mine in a region, <<first, last>>
    MineOf     \* pmine_{player}: the name of a player's area and mine

ASSUME RegionAssumption == /\ Start \in Nat /\ Width \in Nat \ {0}
                           /\ Template \subseteq 0..(Width - 1)
                           /\ Shaft[1] \in 0..Shaft[2] /\ Shaft[2] \in 0..(Width - 1)
                           /\ DOMAIN MineOf \subseteq Player
                           /\ IsInjective(MineOf)
                           /\ Range(MineOf) \subseteq Name \ DOMAIN Mines

VARIABLES
    book,     \* Main2::$pmines: <<player, from>> in the order of the table
    filed,    \* the book on disk
    areas,    \* the protected areas: player |-> from
    pending   \* player |-> the generation that locks /pmine for him

pvars == <<vars, book, filed, areas, pending>>

Settler == DOMAIN MineOf
Region(from) == from..(from + Width - 1)
NoPaste == [stage |-> "none"]

Listed(p) == \E i \in DOMAIN book : book[i][1] = p
EntryOf(p) == CHOOSE i \in DOMAIN book : book[i][1] = p
FromOf(p) == book[EntryOf(p)][2]
Others(p) == IF Listed(p) THEN RemoveAt(book, EntryOf(p)) ELSE book

\* Where regions may be: side by side from Start on.
Parcel == {from \in Cell : /\ Region(from) \subseteq Cell
                         /\ \E k \in 0..from : from = Start + k * Width}

Paste == {NoPaste} \cup [stage: {"populating"}, from: Parcel]
                   \cup [stage: {"pasting"}, from: Parcel, copy: SUBSET Cell]

Book == {b \in Seq(Settler \X Parcel) : \A i, j \in DOMAIN b : b[i][1] = b[j][1] => i = j}

\* The types, and that the callback finds in the book what it was started for.
PTypeOK ==
    /\ TypeOK
    /\ book \in Book /\ filed \in Book
    /\ DOMAIN areas \subseteq Settler /\ areas \in [DOMAIN areas -> Parcel]
    /\ pending \in [Settler -> Paste]
    /\ \A p \in Settler : pending[p] # NoPaste => Listed(p) /\ FromOf(p) = pending[p].from

PInit ==
    /\ Init
    /\ book = <<>> /\ filed = <<>> /\ areas = <<>>
    /\ pending = [p \in Settler |-> NoPaste]

\* The land behind the last entry of the book.
NextFrom(entries) ==
    IF entries = <<>> THEN Start ELSE Last(entries)[2] + Width

\* Variant: his old entry is dropped and no new one made.
PersonalMineUnlisted(p) ==
    /\ pending[p] = NoPaste /\ ~(Listed(p) /\ p \in DOMAIN areas)
    /\ LET from == NextFrom(Others(p))
       IN  /\ Region(from) \subseteq Cell
           /\ book' = Others(p)
           /\ pending' = [pending EXCEPT ![p] = [stage |-> "populating", from |-> from]]
    /\ UNCHANGED <<vars, filed, areas>>

\* /pmine of a player without a region or without an area; all others are taken
\* to theirs.
PersonalMine(p) ==
    /\ pending[p] = NoPaste /\ ~(Listed(p) /\ p \in DOMAIN areas)
    /\ LET from == NextFrom(Others(p))
       IN  /\ Region(from) \subseteq Cell
           /\ book' = Append(Others(p), <<p, from>>)
           /\ pending' = [pending EXCEPT ![p] = [stage |-> "populating", from |-> from]]
    /\ UNCHANGED <<vars, filed, areas>>

\* The cells of the chunks a region lies in.
Touched(from) == {c \in Cell : \E x \in Region(from) : c \div ChunkWidth = x \div ChunkWidth}

\* The chunks are there: the PasteTask takes its copies of them.
SubmitPaste(p) ==
    /\ pending[p].stage = "populating"
    /\ pending' = [pending EXCEPT ![p] = [stage |-> "pasting", from |-> @.from,
                                          copy |-> full \cap (Touched(@.from) \ Region(@.from))]]
    /\ UNCHANGED <<vars, book, filed, areas>>

Pasted(from, copy) ==
    (full \ Touched(from)) \cup copy \cup {from + o : o \in Template}

\* Variant: the callback leaves the player locked.
FinishPasteLocked(p) ==
    /\ pending[p].stage = "pasting"
    /\ LET from == pending[p].from
       IN  /\ full' = Pasted(from, pending[p].copy)
           /\ areas' = [q \in DOMAIN areas \cup {p} |-> IF q = p THEN from ELSE areas[q]]
           /\ Put(MineOf[p], NewMine(from + Shaft[1], from + Shaft[2], TRUE))
    /\ UNCHANGED <<tasks, at, session, asked, book, filed, pending>>

\* The task is collected and personalMineGenerationCallback runs.
FinishPaste(p) ==
    /\ pending[p].stage = "pasting"
    /\ LET from == pending[p].from
       IN  /\ full' = Pasted(from, pending[p].copy)
           /\ areas' = [q \in DOMAIN areas \cup {p} |-> IF q = p THEN from ELSE areas[q]]
           /\ Put(MineOf[p], NewMine(from + Shaft[1], from + Shaft[2], TRUE))
    /\ pending' = [pending EXCEPT ![p] = NoPaste]
    /\ UNCHANGED <<tasks, at, session, asked, book, filed>>

\* An administrator deletes the area, and with it the player's claim to it.
DeleteArea(p) ==
    /\ p \in DOMAIN areas
    /\ areas' = [q \in DOMAIN areas \ {p} |-> areas[q]]
    /\ UNCHANGED <<vars, book, filed, pending>>

\* A clean stop saves the book; a crash does not, and the old one is read again.
Stop ==
    /\ Restart
    /\ filed' = book
    /\ pending' = [p \in Settler |-> NoPaste]
    /\ UNCHANGED <<book, areas>>

CrashServer ==
    /\ Restart
    /\ book' = filed
    /\ pending' = [p \in Settler |-> NoPaste]
    /\ UNCHANGED <<filed, areas>>

Settle == \E p \in Settler : PersonalMine(p) \/ SubmitPaste(p) \/ FinishPaste(p) \/ DeleteArea(p)

\* All that happens when the server always saves its book.
Orderly ==
    \/ Step /\ UNCHANGED <<book, filed, areas, pending>>
    \/ Settle
    \/ Stop

PNext == Orderly \/ CrashServer

PSpec       == PInit /\ [][PNext]_pvars
OrderlySpec == PInit /\ [][Orderly]_pvars

\* Chunks are populated, and workers and the main thread go on with their tasks.
FairPSpec ==
    /\ PSpec
    /\ \A n \in Name : WF_pvars(Collect(n) /\ UNCHANGED <<book, filed, areas, pending>>)
    /\ \A p \in Settler : WF_pvars(SubmitPaste(p) \/ FinishPaste(p))

-----------------------------------------------------------------------------
(* Where mines lie *)

\* The areas of mines other than personal ones: at first, or where admins may put them.
Places == {[a |-> Mines[n].a, b |-> Mines[n].b] : n \in DOMAIN Mines}
          \cup {[a |-> w[1], b |-> w[2]] : w \in UNION {Site[n] : n \in DOMAIN Site}}

\* The area of the personal mine in a region.
ShaftAt(from) == [a |-> from + Shaft[1], b |-> from + Shaft[2]]

Around(m) == CopiedCells(m) \ Area(m)

\* Mines lie apart: in the chunks that are copied for one of them nothing else is ever
\* dug, filled or pasted, and a personal one lies well inside of its region.  Regions
\* may share a chunk.
Apart ==
    /\ \A m \in Places : /\ Around(m) \cap Open = {}
                         /\ \A other \in Places : Around(m) \cap Area(other) = {}
                         /\ \A from \in Parcel : Touched(from) \cap (Around(m) \cup Area(m)) = {}
    /\ \A from \in Parcel :
           LET shaft == ShaftAt(from)
           IN  /\ CopiedCells(shaft) \subseteq Region(from)
               /\ Touched(from) \cap Open \subseteq Area(shaft)
               /\ \A other \in Parcel \ {from} :
                      Touched(other) \cap (Around(shaft) \cup Area(shaft)) = {}

-----------------------------------------------------------------------------
(* Properties *)

\* Who is being given a personal mine gets it, or the server has stopped and he can
\* ask again.
GenerationEnds == \A p \in Settler : pending[p] # NoPaste ~> pending[p] = NoPaste

\* No two personal mines lie in the same place: each is put into a protected area
\* "so it does not let intruders in", and two such areas keep both owners out.
OneOwnerOfLand ==
    \A p, q \in DOMAIN areas : p # q => Region(areas[p]) \cap Region(areas[q]) = {}

=============================================================================
