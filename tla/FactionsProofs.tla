--------------------------- MODULE FactionsProofs ---------------------------
(***************************************************************************)
(* The invariants of Factions for any number of players, factions, waiting    *)
(* invitations and alliances.  Who leads whom is proved with servers that are *)
(* killed between two statements; that alliances are mutual, and that every   *)
(* faction has its row of strength, for servers that are not.                 *)
(***************************************************************************)
EXTENDS Factions, TLAPS

-----------------------------------------------------------------------------
(* What the statements make of tables that are well formed. *)

LEMMA SetRowType ==
    ASSUME NEW d \in Database, NEW p \in Players, NEW f \in Names, NEW rank \in Ranks
    PROVE  /\ SetRow(d, p, f, rank) \in Database
           /\ SetRow(d, p, f, rank).master
                  = [d.master EXCEPT ![p] = [faction |-> f, rank |-> rank]]
           /\ SetRow(d, p, f, rank).allies = d.allies
           /\ SetRow(d, p, f, rank).plots = d.plots
           /\ SetRow(d, p, f, rank).ranked = d.ranked
BY DEF SetRow, Database, Rows

LEMMA DropRowType ==
    ASSUME NEW d \in Database, NEW p \in Players
    PROVE  /\ DropRow(d, p) \in Database
           /\ DropRow(d, p).master = [d.master EXCEPT ![p] = None]
           /\ DropRow(d, p).allies = d.allies
           /\ DropRow(d, p).plots = d.plots
           /\ DropRow(d, p).ranked = d.ranked
BY DEF DropRow, Database

LEMMA DropMembersType ==
    ASSUME NEW d \in Database, NEW f \in Names
    PROVE  /\ DropMembers(d, f) \in Database
           /\ DropMembers(d, f).master
                  = [p \in Players |-> IF p \in Members(f) THEN None ELSE d.master[p]]
           /\ DropMembers(d, f).allies = d.allies
           /\ DropMembers(d, f).plots = d.plots
           /\ DropMembers(d, f).ranked = d.ranked
BY DEF DropMembers, Database

LEMMA DropPlotType ==
    ASSUME NEW d \in Database, NEW f \in Names
    PROVE  /\ DropPlot(d, f) \in Database
           /\ DropPlot(d, f).master = d.master
           /\ DropPlot(d, f).allies = d.allies
           /\ DropPlot(d, f).plots = d.plots \ {f}
           /\ DropPlot(d, f).ranked = d.ranked
BY DEF DropPlot, Database

LEMMA DropRankType ==
    ASSUME NEW d \in Database, NEW f \in Names
    PROVE  /\ DropRank(d, f) \in Database
           /\ DropRank(d, f).master = d.master
           /\ DropRank(d, f).allies = d.allies
           /\ DropRank(d, f).plots = d.plots
           /\ DropRank(d, f).ranked = d.ranked \ {f}
BY DEF DropRank, Database

LEMMA DropAlliesType ==
    ASSUME NEW d \in Database, NEW rows
    PROVE  /\ DropAllies(d, rows) \in Database
           /\ DropAllies(d, rows).master = d.master
           /\ DropAllies(d, rows).allies
                  = [r \in Pairs |-> IF r \in rows THEN 0 ELSE d.allies[r]]
           /\ DropAllies(d, rows).plots = d.plots
           /\ DropAllies(d, rows).ranked = d.ranked
<1>. DEFINE A == [r \in Pairs |-> IF r \in rows THEN 0 ELSE d.allies[r]]
<1>1. A \in [Pairs -> Nat]
  BY DEF Database
<1>2. DropAllies(d, rows) = [d EXCEPT !.allies = A]
  BY DEF DropAllies
<1>. HIDE DEF A
<1>. QED
  BY <1>1, <1>2 DEF Database, A

LEMMA SetAlliesType ==
    ASSUME NEW d \in Database, NEW f, NEW g, <<f, g>> \in Pairs
    PROVE  /\ SetAllies(d, f, g) \in Database
           /\ SetAllies(d, f, g).master = d.master
           /\ SetAllies(d, f, g).allies
                  = [d.allies EXCEPT ![<<f, g>>] = d.allies[<<f, g>>] + 1]
           /\ SetAllies(d, f, g).plots = d.plots
           /\ SetAllies(d, f, g).ranked = d.ranked
<1>. DEFINE A == [d.allies EXCEPT ![<<f, g>>] = d.allies[<<f, g>>] + 1]
<1>1. A \in [Pairs -> Nat]
  BY DEF Database
<1>2. SetAllies(d, f, g) = [d EXCEPT !.allies = A]
  BY DEF SetAllies, Database
<1>. HIDE DEF A
<1>. QED
  BY <1>1, <1>2 DEF Database, A

LEMMA AddPowerType ==
    ASSUME NEW d \in Database, NEW f
    PROVE  /\ AddPower(d, f) \in Database
           /\ AddPower(d, f).master = d.master
           /\ AddPower(d, f).allies = d.allies
           /\ AddPower(d, f).plots = d.plots
           /\ d.ranked \subseteq AddPower(d, f).ranked
           /\ ~Notices /\ f \in Names => f \in AddPower(d, f).ranked
BY DEF AddPower, PowerThrows, SetRank, Database

LEMMA SetRankType ==
    ASSUME NEW d \in Database, NEW f \in Names
    PROVE  /\ SetRank(d, f) \in Database
           /\ SetRank(d, f).master = d.master
           /\ SetRank(d, f).allies = d.allies
           /\ SetRank(d, f).plots = d.plots
           /\ SetRank(d, f).ranked = d.ranked \union {f}
BY DEF SetRank, Database

LEMMA RenameMembersType ==
    ASSUME NEW d \in Database, d.master = db.master, NEW old, NEW new \in Names
    PROVE  /\ RenameMembers(d, old, new) \in Database
           /\ RenameMembers(d, old, new).master
                  = [p \in Players |-> IF p \in Members(old)
                                       THEN [db.master[p] EXCEPT !.faction = new]
                                       ELSE db.master[p]]
           /\ RenameMembers(d, old, new).allies = d.allies
           /\ RenameMembers(d, old, new).plots = d.plots
           /\ RenameMembers(d, old, new).ranked = d.ranked
<1>. DEFINE M == [p \in Players |-> IF p \in Members(old)
                                    THEN [db.master[p] EXCEPT !.faction = new]
                                    ELSE db.master[p]]
<1>1. \A p \in Members(old) : db.master[p] \in Rows
  BY DEF Members, In, Database
<1>2. M \in [Players -> Rows \union {None}]
  BY <1>1 DEF Database, Rows
<1>3. RenameMembers(d, old, new) = [d EXCEPT !.master = M]
  BY DEF RenameMembers
<1>. HIDE DEF M
<1>. QED
  BY <1>2, <1>3 DEF Database, M

\* A faction's allies under the new name in one column, and in the other.
RenamedFirst(a, old, new) ==
    [r \in Pairs |-> CASE r[1] = old -> 0
                       [] r[1] = new -> a[r] + a[<<old, r[2]>>]
                       [] OTHER -> a[r]]
RenamedSecond(a, old, new) ==
    [r \in Pairs |-> CASE r[2] = old -> 0
                       [] r[2] = new -> a[r] + a[<<r[1], old>>]
                       [] OTHER -> a[r]]

LEMMA RenamedType ==
    ASSUME NEW a \in [Pairs -> Nat], NEW old \in Names, NEW new \in Names
    PROVE  /\ RenamedFirst(a, old, new) \in [Pairs -> Nat]
           /\ RenamedSecond(a, old, new) \in [Pairs -> Nat]
<1>1. ASSUME NEW r \in Pairs
      PROVE  <<old, r[2]>> \in Pairs /\ <<r[1], old>> \in Pairs
  BY DEF Pairs
<1>2. ASSUME NEW r \in Pairs
      PROVE  /\ a[r] \in Nat
             /\ a[r] + a[<<old, r[2]>>] \in Nat
             /\ a[r] + a[<<r[1], old>>] \in Nat
  BY <1>1
<1>3. RenamedFirst(a, old, new) \in [Pairs -> Nat]
  BY <1>2 DEF RenamedFirst
<1>4. RenamedSecond(a, old, new) \in [Pairs -> Nat]
  BY <1>2 DEF RenamedSecond
<1>. QED
  BY <1>3, <1>4

LEMMA RenameFirstType ==
    ASSUME NEW d \in Database, NEW old \in Names, NEW new \in Names
    PROVE  /\ RenameFirst(d, old, new) \in Database
           /\ RenameFirst(d, old, new).master = d.master
           /\ RenameFirst(d, old, new).allies = RenamedFirst(d.allies, old, new)
           /\ RenameFirst(d, old, new).plots = d.plots
           /\ RenameFirst(d, old, new).ranked = d.ranked
<1>1. RenamedFirst(d.allies, old, new) \in [Pairs -> Nat]
  BY RenamedType DEF Database
<1>2. RenameFirst(d, old, new)
        = [d EXCEPT !.allies = RenamedFirst(d.allies, old, new)]
  BY DEF RenameFirst, RenamedFirst
<1>. QED
  BY <1>1, <1>2 DEF Database

LEMMA RenameSecondType ==
    ASSUME NEW d \in Database, NEW old \in Names, NEW new \in Names
    PROVE  /\ RenameSecond(d, old, new) \in Database
           /\ RenameSecond(d, old, new).master = d.master
           /\ RenameSecond(d, old, new).allies = RenamedSecond(d.allies, old, new)
           /\ RenameSecond(d, old, new).plots = d.plots
           /\ RenameSecond(d, old, new).ranked = d.ranked
<1>1. RenamedSecond(d.allies, old, new) \in [Pairs -> Nat]
  BY RenamedType DEF Database
<1>2. RenameSecond(d, old, new)
        = [d EXCEPT !.allies = RenamedSecond(d.allies, old, new)]
  BY DEF RenameSecond, RenamedSecond
<1>. QED
  BY <1>1, <1>2 DEF Database

-----------------------------------------------------------------------------
(* What the commands make of the tables. *)

LEMMA RowsOfMembers ==
    ASSUME TypeOK, NEW p \in Players, In(p)
    PROVE  /\ db.master[p] \in Rows /\ FactionOf(p) \in Names
           /\ Leads(p) <=> db.master[p].rank = "Leader"
BY DEF TypeOK, Database, In, FactionOf, Leads, Rows

LEMMA CreateEffect ==
    ASSUME TypeOK, NEW p \in Players, NEW f \in Names, Create(p, f)
    PROVE  /\ db' \in Database
           /\ db'.master = [db.master EXCEPT ![p] = [faction |-> f, rank |-> "Leader"]]
           /\ db'.allies = db.allies
           /\ db'.plots = db.plots
           /\ ~Kills => db'.ranked = db.ranked \union {f}
<1>. DEFINE row == SetRow(db, p, f, "Leader")
<1>1. row \in Database /\ row.allies = db.allies /\ row.plots = db.plots
      /\ row.ranked = db.ranked
      /\ row.master = [db.master EXCEPT ![p] = [faction |-> f, rank |-> "Leader"]]
  BY DEF SetRow, TypeOK, Database, Rows, Ranks
<1>2. db' = SetRank(row, f) \/ (Kills /\ db' = row)
  BY DEF Create, Executes
<1>. HIDE DEF row
<1>. QED
  BY <1>1, <1>2, SetRankType

LEMMA AskingEffect ==
    ASSUME TypeOK,
           \E p, q \in Players : \/ Invite(p, q) \/ Decline(p) \/ Ally(p, q)
                                 \/ AllyNo(p) \/ TimeOut(p)
    PROVE  /\ db' \in Database
           /\ db'.master = db.master /\ db'.allies = db.allies
           /\ db'.plots = db.plots /\ db'.ranked = db.ranked
<1>. PICK p \in Players, q \in Players :
         \/ Invite(p, q) \/ Decline(p) \/ Ally(p, q) \/ AllyNo(p) \/ TimeOut(p)
  OBVIOUS
<1>1. CASE Invite(p, q)
  <2>1. FactionOf(p) \in Names
    BY <1>1, RowsOfMembers DEF Invite, Leads, Officer
  <2>. QED
    BY <1>1, <2>1 DEF Invite, TypeOK, Database, Invitations
<1>2. CASE Decline(p)
  BY <1>2 DEF Decline, TypeOK, Database
<1>3. CASE Ally(p, q)
  BY <1>3 DEF Ally, TypeOK, Database, Requests
<1>4. CASE AllyNo(p)
  BY <1>4 DEF AllyNo, TypeOK, Database
<1>5. CASE TimeOut(p)
  <2>1. CASE /\ db.confirm[p] # None
             /\ db' = [db EXCEPT !.confirm[p].fresh = FALSE]
    <3>1. db.confirm[p] \in Invitations
      BY <2>1 DEF TypeOK, Database
    <3>2. [db.confirm[p] EXCEPT !.fresh = FALSE] \in Invitations
      BY <3>1 DEF Invitations
    <3>. QED
      BY <2>1, <3>2 DEF TypeOK, Database
  <2>2. CASE /\ db.alliance[p] # None
             /\ db' = [db EXCEPT !.alliance[p].fresh = FALSE]
    <3>1. db.alliance[p] \in Requests
      BY <2>2 DEF TypeOK, Database
    <3>2. [db.alliance[p] EXCEPT !.fresh = FALSE] \in Requests
      BY <3>1 DEF Requests
    <3>. QED
      BY <2>2, <3>2 DEF TypeOK, Database
  <2>. QED
    BY <1>5, <2>1, <2>2 DEF TimeOut
<1>. QED
  BY <1>1, <1>2, <1>3, <1>4, <1>5

LEMMA AcceptEffect ==
    ASSUME TypeOK, NEW p \in Players, Accept(p)
    PROVE  \E f \in Names :
              /\ db' \in Database
              /\ db'.master = [db.master EXCEPT ![p] = [faction |-> f, rank |-> "Member"]]
              /\ db'.allies = db.allies
              /\ db'.plots = db.plots
              /\ db.ranked \subseteq db'.ranked
              /\ ~Kills /\ ~Notices => f \in db'.ranked
<1>. DEFINE f == db.confirm[p].faction
            row == SetRow(db, p, f, "Member")
            answered == [row EXCEPT !.confirm[p] = None]
<1>1. f \in Names
  BY DEF Accept, TypeOK, Database, Invitations
<1>2. row \in Database /\ row.allies = db.allies /\ row.plots = db.plots
      /\ row.ranked = db.ranked
      /\ row.master = [db.master EXCEPT ![p] = [faction |-> f, rank |-> "Member"]]
  BY <1>1 DEF SetRow, TypeOK, Database, Rows, Ranks
<1>3. db' = AddPower(answered, f) \/ (Kills /\ db' \in {row, answered})
  BY DEF Accept, Executes
<1>. HIDE DEF f, row
<1>4. answered \in Database /\ answered.allies = row.allies /\ answered.plots = row.plots
      /\ answered.ranked = row.ranked /\ answered.master = row.master
  BY <1>2 DEF Database
<1>. HIDE DEF answered
<1>. QED
  BY <1>1, <1>2, <1>3, <1>4, AddPowerType

LEMMA HandOverEffect ==
    ASSUME TypeOK, NEW p \in Players, NEW q \in Players, HandOver(p, q)
    PROVE  LET m == [db.master EXCEPT ![p] = [faction |-> FactionOf(p), rank |-> "Member"]]
           IN  /\ db' \in Database
               /\ \/ db'.master = m
                  \/ db'.master = [m EXCEPT ![q] = [faction |-> FactionOf(p), rank |-> "Leader"]]
               /\ db'.allies = db.allies
               /\ db'.plots = db.plots
               /\ db'.ranked = db.ranked
<1>. DEFINE f == FactionOf(p)
            demoted == SetRow(db, p, f, "Member")
            promoted == SetRow(demoted, q, f, "Leader")
<1>1. f \in Names
  BY RowsOfMembers DEF HandOver, Leads
<1>2. db' = promoted \/ db' = demoted
  BY DEF HandOver, Executes
<1>. HIDE DEF f
<1>3. demoted \in Database /\ demoted.allies = db.allies /\ demoted.plots = db.plots
      /\ demoted.ranked = db.ranked
      /\ demoted.master = [db.master EXCEPT ![p] = [faction |-> f, rank |-> "Member"]]
  BY <1>1 DEF SetRow, TypeOK, Database, Rows, Ranks
<1>. HIDE DEF demoted
<1>4. promoted \in Database /\ promoted.allies = db.allies /\ promoted.plots = db.plots
      /\ promoted.ranked = db.ranked
      /\ promoted.master = [demoted.master EXCEPT ![q] = [faction |-> f, rank |-> "Leader"]]
  BY <1>1, <1>3 DEF SetRow, Database, Rows, Ranks
<1>. HIDE DEF promoted
<1>. QED
  BY <1>2, <1>3, <1>4 DEF f

LEMMA RankingEffect ==
    ASSUME TypeOK, NEW p \in Players, NEW q \in Players, Promote(p, q) \/ Demote(p, q)
    PROVE  \E rank \in {"Officer", "Member"} :
              /\ db' \in Database
              /\ Leads(p) /\ In(q) /\ FactionOf(q) = FactionOf(p)
              /\ db'.master = [db.master EXCEPT ![q] = [faction |-> FactionOf(p), rank |-> rank]]
              /\ db'.allies = db.allies
              /\ db'.plots = db.plots
              /\ db'.ranked = db.ranked
<1>1. FactionOf(p) \in Names /\ Leads(p) /\ In(q) /\ FactionOf(q) = FactionOf(p)
  BY RowsOfMembers DEF Promote, Demote, Leads, SameFaction
<1>2. PICK rank \in {"Officer", "Member"} : db' = SetRow(db, q, FactionOf(p), rank)
  BY DEF Promote, Demote
<1>. QED
  BY <1>1, <1>2 DEF SetRow, TypeOK, Database, Rows, Ranks

LEMMA LeavingEffect ==
    ASSUME TypeOK, NEW p \in Players, NEW q \in Players,
           Kick(p, q) \/ (p = q /\ Leave(p))
    PROVE  /\ db' \in Database
           /\ db'.master = [db.master EXCEPT ![q] = None]
           /\ db'.allies = db.allies
           /\ db'.plots = db.plots
           /\ db.ranked \subseteq db'.ranked
<1>. DEFINE gone == DropRow(db, q)
<1>1. gone \in Database /\ gone.allies = db.allies /\ gone.plots = db.plots
      /\ gone.ranked = db.ranked /\ gone.master = [db.master EXCEPT ![q] = None]
  BY DEF DropRow, TypeOK, Database
<1>2. db' = AddPower(gone, FactionOf(p)) \/ db' = gone
  BY DEF Kick, Leave, Executes
<1>. HIDE DEF gone
<1>. QED
  BY <1>1, <1>2, AddPowerType

\* The alliances without f's, in whichever column f is.
Without(a, f) == [r \in Pairs |-> IF f \in {r[1], r[2]} THEN 0 ELSE a[r]]

LEMMA DeleteRestEffect ==
    ASSUME NEW d \in Database, NEW f \in Names, NEW e,
           LET rest == DeleteRest(d, f)
           IN  e = rest.last \/ (Kills /\ e \in rest.stages)
    PROVE  /\ e \in Database
           /\ e.master = d.master
           /\ e.plots = d.plots
           /\ ~Kills => e.allies = Without(d.allies, f) /\ e.ranked = d.ranked \ {f}
<1>. DEFINE first == DropAllies(d, First(f))
            second == DropAllies(first, Second(f))
            last == DropRank(second, f)
<1>1. e = last \/ (Kills /\ e \in {d, first, second})
  BY DEF DeleteRest
<1>2. first \in Database /\ first.master = d.master /\ first.plots = d.plots
      /\ first.ranked = d.ranked
      /\ first.allies = [r \in Pairs |-> IF r \in First(f) THEN 0 ELSE d.allies[r]]
  BY DropAlliesType
<1>. HIDE DEF first
<1>3. second \in Database /\ second.master = d.master /\ second.plots = d.plots
      /\ second.ranked = d.ranked
      /\ second.allies = [r \in Pairs |-> IF r \in Second(f) THEN 0 ELSE first.allies[r]]
  BY <1>2, DropAlliesType
<1>. HIDE DEF second
<1>4. second.allies = Without(d.allies, f)
  BY <1>2, <1>3 DEF Without, First, Second
<1>5. last \in Database /\ last.master = d.master /\ last.plots = d.plots
      /\ last.allies = second.allies /\ last.ranked = d.ranked \ {f}
  BY <1>3, DropRankType
<1>. HIDE DEF last
<1>. QED
  BY <1>1, <1>2, <1>3, <1>4, <1>5

\* The players' rows when those of f's members are gone.
MasterWithout(f) == [p \in Players |-> IF p \in Members(f) THEN None ELSE db.master[p]]

LEMMA DeletingEffect ==
    ASSUME TypeOK, NEW f \in Names,
           \/ ForceDelete(f)
           \/ \E p \in Players : Del(p) /\ FactionOf(p) = f
    PROVE  /\ db' \in Database
           /\ db'.master = db.master \/ db'.master = MasterWithout(f)
           /\ ~Kills => /\ db'.master = MasterWithout(f)
                        /\ db'.allies = Without(db.allies, f)
                        /\ db'.plots = db.plots \ {f}
                        /\ db'.ranked = db.ranked \ {f}
<1>1. CASE ForceDelete(f)
  <2>. DEFINE gone == DropMembers(db, f)
              plot == DropPlot(gone, f)
  <2>1. \/ Kills /\ db' = gone
        \/ LET rest == DeleteRest(plot, f)
           IN  db' = rest.last \/ (Kills /\ db' \in rest.stages)
    BY <1>1 DEF ForceDelete, Executes
  <2>2. gone \in Database /\ gone.master = MasterWithout(f) /\ gone.allies = db.allies
        /\ gone.plots = db.plots /\ gone.ranked = db.ranked
    BY DEF DropMembers, MasterWithout, TypeOK, Database
  <2>. HIDE DEF gone
  <2>3. plot \in Database /\ plot.master = gone.master /\ plot.allies = gone.allies
        /\ plot.plots = gone.plots \ {f} /\ plot.ranked = gone.ranked
    BY <2>2, DropPlotType
  <2>. HIDE DEF plot
  <2>. QED
    BY <2>1, <2>2, <2>3, DeleteRestEffect
<1>2. ASSUME NEW p \in Players, Del(p), FactionOf(p) = f
      PROVE  /\ db' \in Database
             /\ db'.master = db.master \/ db'.master = MasterWithout(f)
             /\ ~Kills => /\ db'.master = MasterWithout(f)
                          /\ db'.allies = Without(db.allies, f)
                          /\ db'.plots = db.plots \ {f}
                          /\ db'.ranked = db.ranked \ {f}
  <2>. DEFINE plot == DropPlot(db, f)
              gone == DropMembers(plot, f)
  <2>1. \/ Kills /\ db' = plot
        \/ LET rest == DeleteRest(gone, f)
           IN  db' = rest.last \/ (Kills /\ db' \in rest.stages)
    BY <1>2 DEF Del, Executes
  <2>2. plot \in Database /\ plot.master = db.master /\ plot.allies = db.allies
        /\ plot.plots = db.plots \ {f} /\ plot.ranked = db.ranked
    BY DropPlotType DEF TypeOK
  <2>. HIDE DEF plot
  <2>3. gone \in Database /\ gone.master = MasterWithout(f) /\ gone.allies = plot.allies
        /\ gone.plots = plot.plots /\ gone.ranked = plot.ranked
    BY <2>2 DEF DropMembers, MasterWithout, Database
  <2>. HIDE DEF gone
  <2>. QED
    BY <2>1, <2>2, <2>3, DeleteRestEffect
<1>. QED
  BY <1>1, <1>2

\* The players' rows when old has the name new.
MasterRenamed(old, new) ==
    [p \in Players |-> IF p \in Members(old) THEN [db.master[p] EXCEPT !.faction = new]
                       ELSE db.master[p]]

LEMMA RenameEffect ==
    ASSUME TypeOK, NEW p \in Players, NEW new \in Names, Rename(p, new)
    PROVE  LET old == FactionOf(p)
           IN  /\ db' \in Database
               /\ db'.master = MasterRenamed(old, new)
               /\ ~Kills =>
                      \/ /\ db'.allies = db.allies /\ db'.ranked = db.ranked
                         /\ db'.plots = db.plots /\ {old, new} \subseteq db.plots
                      \/ /\ db'.allies = RenamedSecond(RenamedFirst(db.allies, old, new), old, new)
                         /\ db'.plots = RenameIn(db.plots, old, new)
                         /\ \/ db'.ranked = db.ranked /\ {old, new} \subseteq db.ranked
                            \/ db'.ranked = RenameIn(db.ranked, old, new)
<1>. DEFINE old == FactionOf(p)
            members == RenameMembers(db, old, new)
            plot == [members EXCEPT !.plots = RenameIn(members.plots, old, new)]
            first == RenameFirst(plot, old, new)
            second == RenameSecond(first, old, new)
            rank == [second EXCEPT !.ranked = RenameIn(second.ranked, old, new)]
<1>1. old \in Names
  BY RowsOfMembers DEF Rename, Leads
<1>2. \/ db' = members /\ {old, new} \subseteq db.plots
      \/ db' = second /\ {old, new} \subseteq db.ranked
      \/ db' = rank
      \/ Kills /\ db' \in {members, plot, first, second}
  BY DEF Rename, Executes
<1>. HIDE DEF old
<1>3. members \in Database /\ members.master = MasterRenamed(old, new)
      /\ members.allies = db.allies /\ members.plots = db.plots /\ members.ranked = db.ranked
  BY RenameMembersType DEF MasterRenamed, TypeOK
<1>. HIDE DEF members
<1>4. ASSUME NEW set \in SUBSET Names
      PROVE  RenameIn(set, old, new) \in SUBSET Names
  BY DEF RenameIn
<1>5. plot \in Database /\ plot.master = members.master
      /\ plot.allies = members.allies /\ plot.plots = RenameIn(members.plots, old, new)
      /\ plot.ranked = members.ranked
  BY <1>3, <1>4 DEF Database
<1>. HIDE DEF plot
<1>6. first \in Database /\ first.master = plot.master
      /\ first.allies = RenamedFirst(plot.allies, old, new) /\ first.plots = plot.plots
      /\ first.ranked = plot.ranked
  BY <1>1, <1>5, RenameFirstType
<1>. HIDE DEF first
<1>7. second \in Database /\ second.master = first.master
      /\ second.allies = RenamedSecond(first.allies, old, new) /\ second.plots = first.plots
      /\ second.ranked = first.ranked
  BY <1>1, <1>6, RenameSecondType
<1>. HIDE DEF second
<1>8. rank \in Database /\ rank.master = second.master
      /\ rank.allies = second.allies /\ rank.plots = second.plots
      /\ rank.ranked = RenameIn(second.ranked, old, new)
  BY <1>4, <1>7 DEF Database
<1>. HIDE DEF rank
<1>. QED
  BY <1>2, <1>3, <1>5, <1>6, <1>7, <1>8 DEF old

LEMMA PlotsEffect ==
    ASSUME TypeOK,
           \/ \E p \in Players : Claim(p)
           \/ \E p \in Players, g \in Names : Overclaim(p, g)
           \/ \E f \in Names : Unclaim(f)
    PROVE  /\ db' \in Database
           /\ db'.master = db.master /\ db'.allies = db.allies /\ db'.ranked = db.ranked
           /\ \A f \in db'.plots \ db.plots : Exists(f)
<1>1. ASSUME NEW p \in Players, Leads(p)
      PROVE  FactionOf(p) \in Names /\ Exists(FactionOf(p))
  BY <1>1, RowsOfMembers DEF Leads, Exists, Members
<1>2. ASSUME NEW p \in Players, Claim(p)
      PROVE  /\ db' \in Database
             /\ db'.master = db.master /\ db'.allies = db.allies /\ db'.ranked = db.ranked
             /\ db'.plots = db.plots \union {FactionOf(p)} /\ Leads(p)
  BY <1>1, <1>2 DEF Claim, TypeOK, Database
<1>3. ASSUME NEW p \in Players, NEW g \in Names, Overclaim(p, g)
      PROVE  /\ db' \in Database
             /\ db'.master = db.master /\ db'.allies = db.allies /\ db'.ranked = db.ranked
             /\ db'.plots \subseteq db.plots \union {FactionOf(p)} /\ Leads(p)
  <2>. DEFINE own == DropPlot(db, FactionOf(p))
              both == DropPlot(own, g)
              last == [both EXCEPT !.plots = both.plots \union {FactionOf(p)}]
  <2>1. FactionOf(p) \in Names /\ Leads(p)
    BY <1>1, <1>3 DEF Overclaim
  <2>2. db' \in {own, both, last}
    BY <1>3 DEF Overclaim, Executes
  <2>3. own \in Database /\ own.master = db.master /\ own.allies = db.allies
        /\ own.ranked = db.ranked /\ own.plots \subseteq db.plots
    BY <2>1, DropPlotType DEF TypeOK
  <2>. HIDE DEF own
  <2>4. both \in Database /\ both.master = own.master /\ both.allies = own.allies
        /\ both.ranked = own.ranked /\ both.plots \subseteq own.plots
    BY <2>3, DropPlotType
  <2>. HIDE DEF both
  <2>5. last \in Database /\ last.master = both.master /\ last.allies = both.allies
        /\ last.ranked = both.ranked /\ last.plots = both.plots \union {FactionOf(p)}
    BY <2>1, <2>4 DEF Database
  <2>. HIDE DEF last
  <2>. QED
    BY <2>1, <2>2, <2>3, <2>4, <2>5
<1>4. ASSUME NEW f \in Names, Unclaim(f)
      PROVE  /\ db' \in Database
             /\ db'.master = db.master /\ db'.allies = db.allies /\ db'.ranked = db.ranked
             /\ db'.plots \subseteq db.plots
  BY <1>4, DropPlotType DEF Unclaim, TypeOK
<1>. QED
  BY <1>1, <1>2, <1>3, <1>4

\* One row more that says that f and g are allies.
OneMore(a, f, g) == [a EXCEPT ![<<f, g>>] = a[<<f, g>>] + 1]

LEMMA AllyOkEffect ==
    ASSUME TypeOK, NEW p \in Players, AllyOk(p)
    PROVE  \E f, g \in Names \union {None} :
              /\ db' \in Database
              /\ db'.master = db.master
              /\ db'.plots = db.plots
              /\ db.ranked \subseteq db'.ranked
              /\ ~Kills => db'.allies = OneMore(OneMore(db.allies, g, f), f, g)
<1>. DEFINE by == db.alliance[p].by
            g == IF In(by) THEN FactionOf(by) ELSE None
            f == FactionOf(p)
            one == SetAllies(db, g, f)
            both == SetAllies(one, f, g)
            own == AddPower(both, f)
            powers == AddPower(own, g)
            last == [powers EXCEPT !.alliance[p] = None]
<1>1. /\ f \in Names \union {None} /\ g \in Names \union {None}
      /\ <<f, g>> \in Pairs /\ <<g, f>> \in Pairs
  <2>1. by \in Players
    BY DEF AllyOk, TypeOK, Database, Requests
  <2>2. f \in Names
    BY RowsOfMembers DEF AllyOk, Leads
  <2>3. g \in Names \union {None}
    BY <2>1, RowsOfMembers
  <2>. QED
    BY <2>2, <2>3 DEF Pairs
<1>2. \/ Kills /\ db' \in {one, both, powers}
      \/ db' = own
      \/ db' = last
  BY DEF AllyOk, Executes
<1>. HIDE DEF by, g, f
<1>3. one \in Database /\ one.master = db.master /\ one.plots = db.plots
      /\ one.ranked = db.ranked
      /\ one.allies = OneMore(db.allies, g, f)
  BY <1>1, SetAlliesType DEF TypeOK, OneMore
<1>. HIDE DEF one
<1>4. both \in Database /\ both.master = one.master /\ both.plots = one.plots
      /\ both.ranked = one.ranked
      /\ both.allies = OneMore(one.allies, f, g)
  BY <1>1, <1>3, SetAlliesType DEF OneMore
<1>. HIDE DEF both
<1>5. own \in Database /\ own.master = both.master /\ own.plots = both.plots
      /\ both.ranked \subseteq own.ranked /\ own.allies = both.allies
  BY <1>4, AddPowerType
<1>. HIDE DEF own
<1>6. powers \in Database /\ powers.master = own.master /\ powers.plots = own.plots
      /\ own.ranked \subseteq powers.ranked /\ powers.allies = own.allies
  BY <1>5, AddPowerType
<1>. HIDE DEF powers
<1>7. last \in Database /\ last.master = powers.master /\ last.plots = powers.plots
      /\ last.ranked = powers.ranked /\ last.allies = powers.allies
  BY <1>6 DEF Database
<1>. HIDE DEF last
<1>8. /\ db' \in Database
      /\ db'.master = db.master /\ db'.plots = db.plots /\ db.ranked \subseteq db'.ranked
      /\ ~Kills => db'.allies = both.allies
  BY <1>2, <1>3, <1>4, <1>5, <1>6, <1>7
<1>. QED
  BY <1>1, <1>3, <1>4, <1>8

\* No row says any more that f and g are allies.
Apart(a, f, g) == [r \in Pairs |-> IF r \in {<<f, g>>, <<g, f>>} THEN 0 ELSE a[r]]

LEMMA UnallyEffect ==
    ASSUME TypeOK, NEW p \in Players, NEW g \in Names, Unally(p, g)
    PROVE  LET f == FactionOf(p)
           IN  /\ db' \in Database
               /\ db'.master = db.master
               /\ db'.plots = db.plots
               /\ db.ranked \subseteq db'.ranked
               /\ ~Kills => db'.allies = Apart(db.allies, f, g)
<1>. DEFINE f == FactionOf(p)
            one == DropAllies(db, {<<f, g>>})
            both == DropAllies(one, {<<g, f>>})
            own == AddPower(both, f)
            powers == AddPower(own, g)
<1>1. db' \in {both, powers} \/ (Kills /\ db' \in {one, own})
  BY DEF Unally, Executes
<1>. HIDE DEF f
<1>2. one \in Database /\ one.master = db.master /\ one.plots = db.plots
      /\ one.ranked = db.ranked
      /\ one.allies = [r \in Pairs |-> IF r \in {<<f, g>>} THEN 0 ELSE db.allies[r]]
  BY DropAlliesType DEF TypeOK
<1>. HIDE DEF one
<1>3. both \in Database /\ both.master = one.master /\ both.plots = one.plots
      /\ both.ranked = one.ranked
      /\ both.allies = [r \in Pairs |-> IF r \in {<<g, f>>} THEN 0 ELSE one.allies[r]]
  BY <1>2, DropAlliesType
<1>. HIDE DEF both
<1>4. both.allies = Apart(db.allies, f, g)
  BY <1>2, <1>3 DEF Apart
<1>5. own \in Database /\ own.master = both.master /\ own.plots = both.plots
      /\ both.ranked \subseteq own.ranked /\ own.allies = both.allies
  BY <1>3, AddPowerType
<1>. HIDE DEF own
<1>6. powers \in Database /\ powers.master = own.master /\ powers.plots = own.plots
      /\ own.ranked \subseteq powers.ranked /\ powers.allies = own.allies
  BY <1>5, AddPowerType
<1>. HIDE DEF powers
<1>7. /\ db' \in Database
      /\ db'.master = db.master /\ db'.plots = db.plots /\ db.ranked \subseteq db'.ranked
      /\ ~Kills => db'.allies = both.allies
  BY <1>1, <1>2, <1>3, <1>5, <1>6
<1>. QED
  BY <1>4, <1>7 DEF f

-----------------------------------------------------------------------------
(* The steps. *)

\* A step is one of these commands.
LEMMA Steps ==
    ASSUME TypeOK, Next
    PROVE  \/ \E p \in Players, f \in Names : Create(p, f)
           \/ \E p, q \in Players : \/ Invite(p, q) \/ Decline(p) \/ Ally(p, q)
                                    \/ AllyNo(p) \/ TimeOut(p)
           \/ \E p \in Players : Accept(p)
           \/ \E p, q \in Players : HandOver(p, q)
           \/ \E p, q \in Players : Promote(p, q) \/ Demote(p, q)
           \/ \E p, q \in Players : Kick(p, q) \/ (p = q /\ Leave(p))
           \/ \E f \in Names : \/ ForceDelete(f)
                              \/ \E p \in Players : Del(p) /\ FactionOf(p) = f
           \/ \E p \in Players, f \in Names : Rename(p, f)
           \/ \/ \E p \in Players : Claim(p)
              \/ \E p \in Players, g \in Names : Overclaim(p, g)
              \/ \E f \in Names : Unclaim(f)
           \/ \E p \in Players : AllyOk(p)
           \/ \E p \in Players, g \in Names : Unally(p, g)
<1>1. ASSUME NEW p \in Players,
             \/ Accept(p) \/ Decline(p) \/ Leave(p) \/ Del(p)
             \/ Claim(p) \/ AllyOk(p) \/ AllyNo(p) \/ TimeOut(p)
      PROVE  \/ \E q, r \in Players : Decline(q) \/ AllyNo(q) \/ TimeOut(q)
             \/ \E q \in Players : Accept(q)
             \/ \E q, r \in Players : q = r /\ Leave(q)
             \/ \E f \in Names : \E q \in Players : Del(q) /\ FactionOf(q) = f
             \/ \E q \in Players : Claim(q)
             \/ \E q \in Players : AllyOk(q)
  <2>1. Del(p) => FactionOf(p) \in Names
    BY RowsOfMembers DEF Del, Leads
  <2>. QED
    BY <1>1, <2>1
<1>. QED
  BY <1>1 DEF Next

-----------------------------------------------------------------------------
(* Rows of the tables.  TypeOK is also the hypothesis of all that follows.     *)

LEMMA TypeInit == ASSUME Init PROVE TypeOK
BY DEF Init, TypeOK, Database

LEMMA TypeStep == ASSUME TypeOK, [Next]_db PROVE TypeOK'
<1>1. CASE UNCHANGED db
  BY <1>1 DEF TypeOK
<1>2. CASE Next
  <2>1. db' \in Database
    BY <1>2, Steps, CreateEffect, AskingEffect, AcceptEffect, HandOverEffect,
       RankingEffect, LeavingEffect, DeletingEffect, RenameEffect, PlotsEffect,
       AllyOkEffect, UnallyEffect
  <2>. QED
    BY <2>1 DEF TypeOK
<1>. QED
  BY <1>1, <1>2

\* Every table holds rows of its kind, whenever the server is killed.
THEOREM TypeCorrect == Spec => []TypeOK
<1>. QED
  BY TypeInit, TypeStep, PTL DEF Spec

-----------------------------------------------------------------------------
(* Leaders.  Only four commands make one: whoever creates a faction leads it    *)
(* alone, because nobody is in a faction of that name; a new name is nobody's   *)
(* either, and takes the leader along; and a leader who hands over is a plain   *)
(* member before the other is written.                                          *)

\* The leaders of f by the players' rows m.
LeadersIn(m, f) == {p \in Players : m[p] # None /\ m[p].faction = f /\ m[p].rank = "Leader"}

LEMMA LeadersAreThose ==
    ASSUME NEW f
    PROVE  /\ Leaders(f) = LeadersIn(db.master, f)
           /\ Leaders(f)' = LeadersIn(db'.master, f)
           /\ ~Exists(f) => LeadersIn(db.master, f) = {}
BY DEF Leaders, Members, Leads, In, FactionOf, LeadersIn, Exists

LEMMA HandingOver ==
    ASSUME TypeOK, NEW p \in Players, NEW q \in Players, HandOver(p, q), NEW f \in Names
    PROVE  \/ LeadersIn(db'.master, f) \subseteq LeadersIn(db.master, f)
           \/ /\ p \in LeadersIn(db.master, f)
              /\ LeadersIn(db'.master, f) \subseteq (LeadersIn(db.master, f) \ {p}) \union {q}
              /\ db'.master[p] = [faction |-> f, rank |-> "Member"]
<1>. DEFINE g == FactionOf(p)
            m == [db.master EXCEPT ![p] = [faction |-> g, rank |-> "Member"]]
<1>1. db'.master = m \/ db'.master = [m EXCEPT ![q] = [faction |-> g, rank |-> "Leader"]]
  BY HandOverEffect
<1>2. p \in LeadersIn(db.master, g)
  BY DEF HandOver, Leads, In, FactionOf, LeadersIn
<1>. HIDE DEF g
<1>3. CASE db'.master = m
  BY <1>3 DEF LeadersIn, TypeOK, Database
<1>4. CASE db'.master = [m EXCEPT ![q] = [faction |-> g, rank |-> "Leader"]]
  <2>1. CASE f # g \/ q = p
    BY <1>2, <1>4, <2>1 DEF LeadersIn, TypeOK, Database
  <2>2. CASE f = g /\ q # p
    BY <1>2, <1>4, <2>2 DEF LeadersIn, TypeOK, Database
  <2>. QED
    BY <2>1, <2>2
<1>. QED
  BY <1>1, <1>3, <1>4

\* How a step changes who leads f.
LEMMA LeadersStep ==
    ASSUME TypeOK, Next, NEW f \in Names
    PROVE  \/ LeadersIn(db'.master, f) \subseteq LeadersIn(db.master, f)
           \/ /\ ~Exists(f)
              /\ \/ \E p \in Players : LeadersIn(db'.master, f) \subseteq {p}
                 \/ \E g \in Names : LeadersIn(db'.master, f) \subseteq LeadersIn(db.master, g)
           \/ \E p \in LeadersIn(db.master, f), q \in Players :
                 /\ LeadersIn(db'.master, f) \subseteq (LeadersIn(db.master, f) \ {p}) \union {q}
                 /\ db'.master[p] = [faction |-> f, rank |-> "Member"]
<1>. DEFINE L == LeadersIn(db.master, f)
            M == LeadersIn(db'.master, f)
<1>. USE DEF TypeOK
<1>0. db.master \in [Players -> Rows \union {None}]
  BY DEF Database
<1>1. ASSUME NEW p \in Players, NEW g \in Names, Create(p, g)
      PROVE  M \subseteq L \/ (~Exists(f) /\ M \subseteq {p})
  <2>1. db'.master = [db.master EXCEPT ![p] = [faction |-> g, rank |-> "Leader"]] /\ ~Exists(g)
    BY <1>1, CreateEffect DEF Create
  <2>2. CASE g = f
    <3>1. L = {}
      BY <2>1, <2>2, LeadersAreThose
    <3>. QED
      BY <1>0, <2>1, <2>2, <3>1 DEF LeadersIn
  <2>3. CASE g # f
    BY <1>0, <2>1, <2>3 DEF LeadersIn
  <2>. QED
    BY <2>2, <2>3
<1>2. ASSUME NEW p \in Players, Accept(p)
      PROVE  M \subseteq L
  <2>1. PICK g \in Names :
            db'.master = [db.master EXCEPT ![p] = [faction |-> g, rank |-> "Member"]]
    BY <1>2, AcceptEffect
  <2>. QED
    BY <1>0, <2>1 DEF LeadersIn
<1>3. ASSUME NEW p \in Players, NEW q \in Players, Promote(p, q) \/ Demote(p, q)
      PROVE  M \subseteq L
  <2>1. PICK rank \in {"Officer", "Member"} :
            db'.master = [db.master EXCEPT ![q] = [faction |-> FactionOf(p), rank |-> rank]]
    BY <1>3, RankingEffect
  <2>. QED
    BY <1>0, <2>1 DEF LeadersIn
<1>4. ASSUME NEW p \in Players, NEW q \in Players, Kick(p, q) \/ (p = q /\ Leave(p))
      PROVE  M \subseteq L
  BY <1>0, <1>4, LeavingEffect DEF LeadersIn
<1>5. ASSUME NEW g \in Names,
             ForceDelete(g) \/ \E p \in Players : Del(p) /\ FactionOf(p) = g
      PROVE  M \subseteq L
  <2>1. db'.master = db.master \/ db'.master = MasterWithout(g)
    BY <1>5, DeletingEffect
  <2>. QED
    BY <2>1 DEF MasterWithout, LeadersIn
<1>6. ASSUME NEW p \in Players, NEW new \in Names, Rename(p, new)
      PROVE  M \subseteq L \/ (~Exists(f) /\ \E g \in Names : M \subseteq LeadersIn(db.master, g))
  <2>. DEFINE old == FactionOf(p)
  <2>1. old \in Names /\ ~Exists(new)
    BY <1>6, RowsOfMembers DEF Rename, Leads
  <2>2. db'.master = MasterRenamed(old, new)
    BY <1>6, RenameEffect
  <2>. HIDE DEF old
  <2>3. \A q \in Members(old) : db.master[q] \in Rows /\ db.master[q].faction = old
    BY DEF Members, In, FactionOf, Database
  <2>4. CASE f = new
    <3>1. L = {}
      BY <2>1, <2>4, LeadersAreThose
    <3>2. ASSUME NEW q \in M
          PROVE  q \in LeadersIn(db.master, old)
      <4>1. q \in Members(old)
        BY <2>2, <2>4, <3>1 DEF MasterRenamed, LeadersIn
      <4>2. db'.master[q] = [db.master[q] EXCEPT !.faction = new] /\ q \in Players
        BY <2>2, <4>1 DEF MasterRenamed, LeadersIn
      <4>. QED
        BY <2>3, <4>1, <4>2 DEF LeadersIn, Rows, Members, In
    <3>. QED
      BY <2>1, <2>4, <3>2
  <2>5. CASE f # new
    BY <1>0, <2>2, <2>3, <2>5 DEF MasterRenamed, LeadersIn, Rows
  <2>. QED
    BY <2>4, <2>5
<1>. HIDE DEF L, M
<1>7. db'.master = db.master => M = L
  BY DEF L, M
<1>8. ASSUME NEW p \in Players, NEW q \in Players, HandOver(p, q)
      PROVE  \/ M \subseteq L
             \/ /\ p \in L /\ M \subseteq (L \ {p}) \union {q}
                /\ db'.master[p] = [faction |-> f, rank |-> "Member"]
  BY <1>8, HandingOver DEF L, M
<1>9. \/ M \subseteq L
      \/ /\ ~Exists(f)
         /\ (\E p \in Players : M \subseteq {p}) \/ \E g \in Names : M \subseteq LeadersIn(db.master, g)
      \/ \E p \in L, q \in Players : /\ M \subseteq (L \ {p}) \union {q}
                                   /\ db'.master[p] = [faction |-> f, rank |-> "Member"]
  BY <1>1, <1>2, <1>3, <1>4, <1>5, <1>6, <1>7, <1>8, Steps, AskingEffect, PlotsEffect,
     AllyOkEffect, UnallyEffect
<1>. QED
  BY <1>9 DEF L, M

\* A faction has one leader at most, for every number of players and factions, and
\* wherever the server is killed in a command.
THEOREM SingleLeader == Spec => []OneLeader
<1>1. TypeOK => (OneLeader <=> \A f \in Names : \A p, q \in LeadersIn(db.master, f) : p = q)
  BY RowsOfMembers DEF OneLeader, LeadersIn, SameFaction, Leads, In, FactionOf
<1>2. TypeOK' => (OneLeader' <=> \A f \in Names : \A p, q \in LeadersIn(db'.master, f) : p = q)
  <2>1. ASSUME TypeOK', NEW p \in Players, db'.master[p] # None
        PROVE  db'.master[p].faction \in Names
    BY <2>1 DEF TypeOK, Database, Rows
  <2>. QED
    BY <2>1 DEF OneLeader, LeadersIn, SameFaction, Leads, In, FactionOf
<1>3. Init => OneLeader
  BY DEF Init, OneLeader, Leads, In
<1>4. ASSUME TypeOK, OneLeader, [Next]_db
      PROVE  OneLeader'
  <2>1. CASE UNCHANGED db
    BY <1>4, <2>1 DEF OneLeader, SameFaction, Leads, In, FactionOf
  <2>2. CASE Next
    <3>1. ASSUME NEW f \in Names, NEW p \in LeadersIn(db'.master, f),
                 NEW q \in LeadersIn(db'.master, f)
          PROVE  p = q
      <4>1. \A g \in Names : \A x, y \in LeadersIn(db.master, g) : x = y
        BY <1>1, <1>4
      <4>2. CASE LeadersIn(db'.master, f) \subseteq LeadersIn(db.master, f)
        BY <4>1, <4>2
      <4>3. CASE \E x \in Players : LeadersIn(db'.master, f) \subseteq {x}
        BY <4>3
      <4>4. CASE \E g \in Names : LeadersIn(db'.master, f) \subseteq LeadersIn(db.master, g)
        BY <4>1, <4>4
      <4>5. CASE \E x \in LeadersIn(db.master, f), y \in Players :
                    LeadersIn(db'.master, f) \subseteq (LeadersIn(db.master, f) \ {x}) \union {y}
        BY <4>1, <4>5
      <4>. QED
        BY <2>2, <1>4, <4>2, <4>3, <4>4, <4>5, LeadersStep
    <3>. QED
      BY <3>1, <1>2, <1>4, TypeStep
  <2>. QED
    BY <1>4, <2>1, <2>2
<1>. QED
  BY <1>3, <1>4, TypeCorrect, PTL DEF Spec

\* Nobody takes over a faction that exists, for every number of players and
\* factions, and wherever the server is killed in a command.
THEOREM NoTakeover == Spec => OnlyHandedOver
<1>. DEFINE A == \A f \in Names : Exists(f) =>
                   \/ Leaders(f)' \subseteq Leaders(f)
                   \/ \E p \in Leaders(f) : db.master'[p] = [faction |-> f, rank |-> "Member"]
<1>1. ASSUME TypeOK, [Next]_db
      PROVE  [A]_db
  <2>1. ASSUME Next, NEW f \in Names, Exists(f)
        PROVE  \/ Leaders(f)' \subseteq Leaders(f)
               \/ \E p \in Leaders(f) : db.master'[p] = [faction |-> f, rank |-> "Member"]
    BY <1>1, <2>1, LeadersStep, LeadersAreThose
  <2>. QED
    BY <1>1, <2>1
<1>. QED
  BY <1>1, TypeCorrect, PTL DEF Spec, OnlyHandedOver

-----------------------------------------------------------------------------
(* Alliances.  A command writes both columns, or both rows, before it ends.     *)

Sides == Names \union {None}
Mutual(a) == \A x, y \in Sides : a[<<x, y>>] = a[<<y, x>>]

LEMMA MutualIsBothWays ==
    /\ AlliesBothWays <=> Mutual(db.allies)
    /\ AlliesBothWays' <=> Mutual(db'.allies)
<1>1. ASSUME NEW a
      PROVE  (\A r \in Pairs : a[r] = a[<<r[2], r[1]>>]) <=> Mutual(a)
  <2>1. ASSUME \A r \in Pairs : a[r] = a[<<r[2], r[1]>>], NEW x \in Sides, NEW y \in Sides
        PROVE  a[<<x, y>>] = a[<<y, x>>]
    <3>1. <<x, y>> \in Pairs
      BY DEF Pairs, Sides
    <3>. QED
      BY <2>1, <3>1
  <2>2. ASSUME Mutual(a), NEW r \in Pairs
        PROVE  a[r] = a[<<r[2], r[1]>>]
    <3>1. PICK x \in Sides, y \in Sides : r = <<x, y>>
      BY DEF Pairs, Sides
    <3>. QED
      BY <2>2, <3>1 DEF Mutual
  <2>. QED
    BY <2>1, <2>2 DEF Mutual
<1>. QED
  BY <1>1 DEF AlliesBothWays

LEMMA MutualOneMore ==
    ASSUME NEW a \in [Pairs -> Nat], Mutual(a), NEW f \in Sides, NEW g \in Sides
    PROVE  Mutual(OneMore(OneMore(a, g, f), f, g))
<1>. DEFINE one == OneMore(a, g, f)
            both == OneMore(one, f, g)
<1>1. ASSUME NEW x \in Sides, NEW y \in Sides
      PROVE  both[<<x, y>>] = (IF x = f /\ y = g THEN 1 ELSE 0)
                              + (IF x = g /\ y = f THEN 1 ELSE 0) + a[<<x, y>>]
  <2>1. <<x, y>> \in Pairs /\ <<f, g>> \in Pairs /\ <<g, f>> \in Pairs
    BY DEF Pairs, Sides
  <2>2. one[<<x, y>>] = IF x = g /\ y = f THEN a[<<x, y>>] + 1 ELSE a[<<x, y>>]
    BY <2>1 DEF OneMore
  <2>3. one \in [Pairs -> Nat]
    BY <2>1 DEF OneMore
  <2>. HIDE DEF one
  <2>4. both[<<x, y>>] = IF x = f /\ y = g THEN one[<<x, y>>] + 1 ELSE one[<<x, y>>]
    BY <2>1, <2>3 DEF OneMore
  <2>. HIDE DEF both
  <2>5. a[<<x, y>>] \in Nat
    BY <2>1
  <2>. QED
    BY <2>2, <2>4, <2>5
<1>. HIDE DEF both
<1>2. ASSUME NEW x \in Sides, NEW y \in Sides
      PROVE  a[<<x, y>>] = a[<<y, x>>] /\ a[<<x, y>>] \in Nat
  BY DEF Mutual, Pairs, Sides
<1>3. ASSUME NEW x \in Sides, NEW y \in Sides
      PROVE  both[<<x, y>>] = both[<<y, x>>]
  BY <1>1, <1>2
<1>4. Mutual(both)
  BY <1>3 DEF Mutual
<1>. QED
  BY <1>4 DEF both

LEMMA MutualWithout ==
    ASSUME NEW a, Mutual(a), NEW f
    PROVE  Mutual(Without(a, f))
<1>1. ASSUME NEW x \in Sides, NEW y \in Sides
      PROVE  Without(a, f)[<<x, y>>] = IF f \in {x, y} THEN 0 ELSE a[<<x, y>>]
  BY DEF Without, Pairs, Sides
<1>. QED
  BY <1>1 DEF Mutual

LEMMA MutualApart ==
    ASSUME NEW a, Mutual(a), NEW f, NEW g
    PROVE  Mutual(Apart(a, f, g))
<1>. DEFINE b == Apart(a, f, g)
<1>1. ASSUME NEW x \in Sides, NEW y \in Sides
      PROVE  b[<<x, y>>] = IF (x = f /\ y = g) \/ (x = g /\ y = f) THEN 0 ELSE a[<<x, y>>]
  BY DEF Apart, Pairs, Sides
<1>. HIDE DEF b
<1>2. Mutual(b)
  BY <1>1 DEF Mutual
<1>. QED
  BY <1>2 DEF b

LEMMA MutualRenamed ==
    ASSUME NEW a \in [Pairs -> Nat], Mutual(a), NEW old \in Names, NEW new \in Names,
           old # new
    PROVE  Mutual(RenamedSecond(RenamedFirst(a, old, new), old, new))
<1>. DEFINE b == RenamedFirst(a, old, new)
            c == RenamedSecond(b, old, new)
<1>0. old \in Sides /\ new \in Sides
  BY DEF Sides
<1>1. ASSUME NEW x \in Sides, NEW y \in Sides
      PROVE  b[<<x, y>>] = IF x = old THEN 0
                           ELSE IF x = new THEN a[<<x, y>>] + a[<<old, y>>]
                           ELSE a[<<x, y>>]
  BY DEF RenamedFirst, Pairs, Sides
<1>. HIDE DEF b
<1>2. ASSUME NEW x \in Sides, NEW y \in Sides
      PROVE  c[<<x, y>>] = IF y = old THEN 0
                           ELSE IF y = new THEN b[<<x, y>>] + b[<<x, old>>]
                           ELSE b[<<x, y>>]
  BY DEF RenamedSecond, Pairs, Sides
<1>. HIDE DEF c
<1>3. ASSUME NEW x \in Sides, NEW y \in Sides
      PROVE  a[<<x, y>>] = a[<<y, x>>] /\ a[<<x, y>>] \in Nat
  BY DEF Mutual, Pairs, Sides
<1>4. ASSUME NEW x \in Sides, NEW y \in Sides, x # old, y # old
      PROVE  c[<<x, y>>] =
                IF x = new /\ y = new
                THEN (a[<<new, new>>] + a[<<old, new>>]) + (a[<<new, old>>] + a[<<old, old>>])
                ELSE IF x = new THEN a[<<x, y>>] + a[<<old, y>>]
                ELSE IF y = new THEN a[<<x, y>>] + a[<<x, old>>]
                ELSE a[<<x, y>>]
  <2>1. b[<<x, y>>] = IF x = new THEN a[<<x, y>>] + a[<<old, y>>] ELSE a[<<x, y>>]
    BY <1>1, <1>4
  <2>2. b[<<x, old>>] = IF x = new THEN a[<<x, old>>] + a[<<old, old>>] ELSE a[<<x, old>>]
    BY <1>0, <1>1, <1>4
  <2>3. c[<<x, y>>] = IF y = new THEN b[<<x, y>>] + b[<<x, old>>] ELSE b[<<x, y>>]
    BY <1>2, <1>4
  <2>. QED
    BY <2>1, <2>2, <2>3
<1>5. ASSUME NEW x \in Sides, NEW y \in Sides, x = old \/ y = old
      PROVE  c[<<x, y>>] = 0
  <2>1. b[<<old, y>>] = 0 /\ b[<<old, old>>] = 0
    BY <1>0, <1>1
  <2>. QED
    BY <1>0, <1>2, <1>5, <2>1
<1>6. ASSUME NEW x \in Sides, NEW y \in Sides
      PROVE  c[<<x, y>>] = c[<<y, x>>]
  <2>1. CASE x = old \/ y = old
    BY <1>5, <2>1
  <2>2. CASE x # old /\ y # old
    <3>1. a[<<x, y>>] = a[<<y, x>>] /\ a[<<old, y>>] = a[<<y, old>>]
          /\ a[<<x, old>>] = a[<<old, x>>]
      BY <1>0, <1>3
    <3>2. CASE x = y
      BY <3>2
    <3>3. CASE x # y /\ x = new
      BY <1>4, <2>2, <3>1, <3>3
    <3>4. CASE x # y /\ y = new
      BY <1>4, <2>2, <3>1, <3>4
    <3>5. CASE x # new /\ y # new
      BY <1>4, <2>2, <3>1, <3>5
    <3>. QED
      BY <3>2, <3>3, <3>4, <3>5
  <2>. QED
    BY <2>1, <2>2
<1>7. Mutual(c)
  BY <1>6 DEF Mutual
<1>. QED
  BY <1>7 DEF b, c

\* An alliance is mutual, for every number of players, factions and rows, as long as
\* no command is cut off.
THEOREM MutualAlliances ==
    ASSUME ~Kills
    PROVE  Spec => []AlliesBothWays
<1>1. Init => AlliesBothWays
  BY DEF Init, AlliesBothWays, Pairs
<1>2. ASSUME TypeOK, AlliesBothWays, [Next]_db
      PROVE  AlliesBothWays'
  <2>. DEFINE a == db.allies
  <2>1. Mutual(a) /\ a \in [Pairs -> Nat]
    BY <1>2, MutualIsBothWays DEF TypeOK, Database
  <2>. USE <1>2
  <2>2. CASE UNCHANGED db
    BY <2>1, <2>2, MutualIsBothWays
  <2>3. ASSUME NEW f \in Names,
               ForceDelete(f) \/ \E p \in Players : Del(p) /\ FactionOf(p) = f
        PROVE  Mutual(db'.allies)
    BY <2>1, <2>3, DeletingEffect, MutualWithout
  <2>4. ASSUME NEW p \in Players, NEW new \in Names, Rename(p, new)
        PROVE  Mutual(db'.allies)
    <3>. DEFINE old == FactionOf(p)
    <3>1. old \in Names /\ old # new
      BY <2>4, RowsOfMembers DEF Rename, Leads, Exists, Members
    <3>2. \/ db'.allies = a
          \/ db'.allies = RenamedSecond(RenamedFirst(a, old, new), old, new)
      BY <2>4, RenameEffect
    <3>. HIDE DEF old, a
    <3>. QED
      BY <2>1, <3>1, <3>2, MutualRenamed
  <2>5. ASSUME NEW p \in Players, AllyOk(p)
        PROVE  Mutual(db'.allies)
    <3>1. PICK f \in Sides, g \in Sides : db'.allies = OneMore(OneMore(a, g, f), f, g)
      BY <2>5, AllyOkEffect DEF Sides
    <3>. HIDE DEF a
    <3>. QED
      BY <2>1, <3>1, MutualOneMore
  <2>6. ASSUME NEW p \in Players, NEW g \in Names, Unally(p, g)
        PROVE  Mutual(db'.allies)
    <3>. DEFINE f == FactionOf(p)
    <3>1. db'.allies = Apart(a, f, g)
      BY <2>6, UnallyEffect
    <3>. HIDE DEF f, a
    <3>. QED
      BY <2>1, <3>1, MutualApart
  <2>7. CASE db'.allies = db.allies
    BY <2>1, <2>7, MutualIsBothWays
  <2>8. CASE Next
    <3>1. db'.allies = db.allies \/ Mutual(db'.allies)
      BY <2>8, <2>3, <2>4, <2>5, <2>6, Steps, CreateEffect, AskingEffect, AcceptEffect,
         HandOverEffect, RankingEffect, LeavingEffect, PlotsEffect
    <3>. QED
      BY <2>7, <3>1, MutualIsBothWays
  <2>. QED
    BY <2>2, <2>8
<1>. QED
  BY <1>1, <1>2, TypeCorrect, PTL DEF Spec

-----------------------------------------------------------------------------
(* Rows of strength.  A rename ends early when both names have a plot; then the *)
(* new one has a row of strength already, because plots are claimed by members   *)
(* and go when the row goes.  So the invariant says so of plots as well.         *)

Ranked == FactionsAreRanked /\ db.plots \subseteq db.ranked

LEMMA RankedByRows ==
    ASSUME TypeOK'
    PROVE  FactionsAreRanked' <=> \A p \in Players :
               db'.master[p] # None => db'.master[p].faction \in db'.ranked
<1>1. \A p \in Players : db'.master[p] # None => db'.master[p].faction \in Names
  BY DEF TypeOK, Database, Rows
<1>2. FactionsAreRanked' <=> \A f \in Names : (\E p \in Players : db'.master[p] # None
                                                    /\ db'.master[p].faction = f)
                                             => f \in db'.ranked
  BY DEF FactionsAreRanked, Exists, Members, In, FactionOf
<1>. QED
  BY <1>1, <1>2

LEMMA RankedStep ==
    ASSUME ~Kills, ~Notices, TypeOK, Ranked, [Next]_db
    PROVE  Ranked'
<1>. DEFINE Has(d) == (\A p \in Players : d.master[p] # None => d.master[p].faction \in d.ranked)
                      /\ d.plots \subseteq d.ranked
<1>0. TypeOK' /\ db.master \in [Players -> Rows \union {None}]
  BY TypeStep DEF TypeOK, Database
<1>1. \A f \in Names : Exists(f) => f \in db.ranked
  BY DEF Ranked, FactionsAreRanked
<1>2. ASSUME NEW p \in Players, db.master[p] # None
      PROVE  db.master[p].faction \in db.ranked
  BY <1>1, <1>2, RowsOfMembers DEF Exists, Members, In, FactionOf
<1>3. db.plots \subseteq db.ranked
  BY DEF Ranked
<1>4. ASSUME db'.master = db.master, db'.plots = db.plots, db.ranked \subseteq db'.ranked
      PROVE  Has(db')
  BY <1>2, <1>3, <1>4
<1>5. ASSUME NEW p \in Players, NEW f \in Names, Create(p, f)
      PROVE  Has(db')
  <2>1. /\ db'.master = [db.master EXCEPT ![p] = [faction |-> f, rank |-> "Leader"]]
        /\ db'.plots = db.plots /\ db'.ranked = db.ranked \union {f}
    BY <1>5, CreateEffect
  <2>. QED
    BY <1>0, <1>2, <1>3, <2>1
<1>6. ASSUME NEW p \in Players, Accept(p)
      PROVE  Has(db')
  <2>1. PICK f \in Names :
            /\ db'.master = [db.master EXCEPT ![p] = [faction |-> f, rank |-> "Member"]]
            /\ db'.plots = db.plots /\ db.ranked \subseteq db'.ranked /\ f \in db'.ranked
    BY <1>6, AcceptEffect
  <2>. QED
    BY <1>0, <1>2, <1>3, <2>1
<1>7. ASSUME NEW p \in Players, NEW q \in Players, HandOver(p, q)
      PROVE  Has(db')
  <2>. DEFINE f == FactionOf(p)
              m == [db.master EXCEPT ![p] = [faction |-> f, rank |-> "Member"]]
  <2>1. f \in db.ranked
    BY <1>2, <1>7 DEF HandOver, Leads, In, FactionOf
  <2>2. \/ db'.master = m
        \/ db'.master = [m EXCEPT ![q] = [faction |-> f, rank |-> "Leader"]]
    BY <1>7, HandOverEffect
  <2>3. db'.plots = db.plots /\ db'.ranked = db.ranked
    BY <1>7, HandOverEffect
  <2>. HIDE DEF f
  <2>. QED
    BY <1>0, <1>2, <1>3, <2>1, <2>2, <2>3
<1>8. ASSUME NEW p \in Players, NEW q \in Players, Promote(p, q) \/ Demote(p, q)
      PROVE  Has(db')
  <2>1. PICK rank \in {"Officer", "Member"} :
            /\ db'.master = [db.master EXCEPT ![q] = [faction |-> FactionOf(p), rank |-> rank]]
            /\ db'.plots = db.plots /\ db'.ranked = db.ranked
            /\ Leads(p)
    BY <1>8, RankingEffect
  <2>2. FactionOf(p) \in db.ranked
    BY <1>2, <2>1 DEF Leads, In, FactionOf
  <2>. QED
    BY <1>0, <1>2, <1>3, <2>1, <2>2
<1>9. ASSUME NEW p \in Players, NEW q \in Players, Kick(p, q) \/ (p = q /\ Leave(p))
      PROVE  Has(db')
  BY <1>0, <1>2, <1>3, <1>9, LeavingEffect
<1>10. ASSUME NEW f \in Names,
              ForceDelete(f) \/ \E p \in Players : Del(p) /\ FactionOf(p) = f
       PROVE  Has(db')
  <2>1. db'.master = MasterWithout(f) /\ db'.plots = db.plots \ {f}
        /\ db'.ranked = db.ranked \ {f}
    BY <1>10, DeletingEffect
  <2>. QED
    BY <1>2, <1>3, <2>1 DEF MasterWithout, Members, In, FactionOf
<1>11. ASSUME NEW p \in Players, NEW new \in Names, Rename(p, new)
       PROVE  Has(db')
  <2>. DEFINE old == FactionOf(p)
  <2>1. old \in db.ranked /\ old \in Names
    BY <1>2, <1>11, RowsOfMembers DEF Rename, Leads, In, FactionOf
  <2>2. db'.master = MasterRenamed(old, new)
    BY <1>11, RenameEffect
  <2>3. \/ /\ db'.ranked = db.ranked /\ db'.plots = db.plots /\ {old, new} \subseteq db.plots
        \/ /\ db'.plots = RenameIn(db.plots, old, new)
           /\ \/ db'.ranked = db.ranked /\ {old, new} \subseteq db.ranked
              \/ db'.ranked = RenameIn(db.ranked, old, new)
    BY <1>11, RenameEffect
  <2>. HIDE DEF old
  <2>4. ASSUME NEW q \in Players, db'.master[q] # None
        PROVE  \/ db'.master[q].faction = new
               \/ /\ db.master[q] # None /\ db'.master[q] = db.master[q]
                  /\ db.master[q].faction # old
    <3>1. CASE q \in Members(old)
      <4>1. db.master[q] \in Rows
        BY <1>0, <3>1 DEF Members, In
      <4>. QED
        BY <2>2, <3>1, <4>1 DEF MasterRenamed, Rows
    <3>2. CASE q \notin Members(old)
      BY <2>2, <2>4, <3>2 DEF MasterRenamed, Members, In, FactionOf
    <3>. QED
      BY <3>1, <3>2
  <2>5. new \in db'.ranked /\ db.ranked \ {old} \subseteq db'.ranked
    BY <1>3, <2>1, <2>3 DEF RenameIn
  <2>6. db'.plots \subseteq db'.ranked
    BY <1>3, <2>1, <2>3 DEF RenameIn
  <2>. QED
    BY <1>2, <2>4, <2>5, <2>6
<1>12. ASSUME \/ \E p \in Players : Claim(p)
              \/ \E p \in Players, g \in Names : Overclaim(p, g)
              \/ \E f \in Names : Unclaim(f)
       PROVE  Has(db')
  BY <1>0, <1>1, <1>2, <1>3, <1>12, PlotsEffect DEF TypeOK, Database
<1>13. Has(db')
  <2>1. CASE UNCHANGED db
    BY <1>2, <1>3, <2>1
  <2>2. CASE Next
    <3>. HIDE DEF Has
    <3>1. \/ Has(db')
          \/ db'.master = db.master /\ db'.plots = db.plots /\ db.ranked \subseteq db'.ranked
      BY <2>2, <1>5, <1>6, <1>7, <1>8, <1>9, <1>10, <1>11, <1>12, Steps, AskingEffect,
         AllyOkEffect, UnallyEffect
    <3>. QED
      BY <3>1, <1>4
  <2>. QED
    BY <2>1, <2>2
<1>. QED
  BY <1>0, <1>13, RankedByRows DEF Ranked

\* Every faction has its row of strength, for every number of players and factions, as
\* long as no command is cut off and a missing row reads as zero.
THEOREM StrengthOfAll ==
    ASSUME ~Kills, ~Notices
    PROVE  Spec => []FactionsAreRanked
<1>1. Init => Ranked
  BY DEF Init, Ranked, FactionsAreRanked, Exists, Members, In
<1>2. TypeOK /\ Ranked /\ [Next]_db => Ranked'
  BY RankedStep
<1>3. Ranked => FactionsAreRanked
  BY DEF Ranked
<1>. QED
  BY <1>1, <1>2, <1>3, TypeCorrect, PTL DEF Spec
=============================================================================
