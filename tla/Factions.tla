------------------------------ MODULE Factions ------------------------------
(***************************************************************************)
(* FactionsPro: who is in which faction with which rank, invitations,        *)
(* alliances, plots, new names and deletions.  Everything is rows of SQLite   *)
(* tables.  A command writes them one statement at a time, each statement is  *)
(* on disk when it returns, and nothing is undone when the server is killed   *)
(* or a statement fails between two of them.                                  *)
(***************************************************************************)
EXTENDS Integers, FiniteSets, Functions

CONSTANTS
    Players,     \* player names; the tables do not tell capitals from small letters
    Names,       \* names of factions
    None,        \* no row, or NULL in a row
    MaxPlayers,  \* MaxPlayersPerFaction
    AllyLimit,   \* AllyLimitPerFaction
    Notices,     \* PHP 7.4 and later: reading a row that is not there throws
    Kills,       \* the server may be killed between two statements
    MaxOpen,     \* bound: invitations and requests that wait at a time
    MaxRows      \* bound: equal rows of the table allies

ASSUME NoneAssumption == None \notin Names /\ None \notin Players
ASSUME LimitAssumption == /\ MaxPlayers \in Nat \ {0}
                          /\ AllyLimit \in Nat
                          /\ MaxOpen \in Nat /\ MaxRows \in Nat
ASSUME BuildAssumption == Notices \in BOOLEAN /\ Kills \in BOOLEAN

VARIABLE db  \* the tables, as the record Database says

Ranks == {"Leader", "Officer", "Member"}
Pairs == (Names \union {None}) \X (Names \union {None})

\* Rows are values with NULL for None: a pair of nothing is no record.
Rows == [faction : Names, rank : Ranks]
Invitations == [faction : Names, fresh : BOOLEAN]
Requests == [by : Players, fresh : BOOLEAN]

Database ==
    [master   : [Players -> Rows \union {None}],         \* faction and rank
     confirm  : [Players -> Invitations \union {None}],  \* by whom he is invited
     alliance : [Players -> Requests \union {None}],     \* who asks him as leader
     allies   : [Pairs -> Nat],                          \* how many equal rows
     plots    : SUBSET Names,                            \* factions with a plot
     ranked   : SUBSET Names]                            \* factions with a row of strength

\* Every table holds rows of its kind.
TypeOK == db \in Database

Init == db = [master   |-> [p \in Players |-> None],
              confirm  |-> [p \in Players |-> None],
              alliance |-> [p \in Players |-> None],
              allies   |-> [r \in Pairs |-> 0],
              plots    |-> {},
              ranked   |-> {}]

-----------------------------------------------------------------------------
(* Queries. *)

In(p) == db.master[p] # None
FactionOf(p) == db.master[p].faction
Leads(p) == In(p) /\ db.master[p].rank = "Leader"
Officer(p) == In(p) /\ db.master[p].rank = "Officer"
Members(f) == {p \in Players : In(p) /\ FactionOf(p) = f}
Leaders(f) == {p \in Members(f) : Leads(p)}
Exists(f) == Members(f) # {}
SameFaction(p, q) == In(p) /\ In(q) /\ FactionOf(p) = FactionOf(q)
IsFactionFull(f) == Cardinality(Members(f)) >= MaxPlayers
AreAllies(f, g) == db.allies[<<f, g>>] > 0
AlliesCount(f) ==
    FoldFunctionOnSet(+, 0, db.allies, {r \in Pairs : r[1] = f})

Open == {p \in Players : db.confirm[p] # None} \X {"confirm"}
        \union {p \in Players : db.alliance[p] # None} \X {"alliance"}

\* Room for one more row of a table in which p may have one to replace.
CanAsk(table, p) == <<p, table>> \in Open \/ Cardinality(Open) < MaxOpen

-----------------------------------------------------------------------------
(* Statements: the database after one of them. *)

SetRow(d, p, f, rank) == [d EXCEPT !.master[p] = [faction |-> f, rank |-> rank]]
DropRow(d, p) == [d EXCEPT !.master[p] = None]

DropMembers(d, f) ==
    [d EXCEPT !.master = [p \in Players |-> IF p \in Members(f) THEN None ELSE @[p]]]
DropPlot(d, f) == [d EXCEPT !.plots = @ \ {f}]
DropRank(d, f) == [d EXCEPT !.ranked = @ \ {f}]
DropAllies(d, rows) ==
    [d EXCEPT !.allies = [r \in Pairs |-> IF r \in rows THEN 0 ELSE @[r]]]
First(f) == {r \in Pairs : r[1] = f}
Second(f) == {r \in Pairs : r[2] = f}

SetAllies(d, f, g) == [d EXCEPT !.allies[<<f, g>>] = @ + 1]

\* The row of f's strength is written, whatever the power; NULL has none.
SetRank(d, f) == [d EXCEPT !.ranked = @ \union ({f} \intersect Names)]

\* Adding and subtracting power reads the row first.
PowerThrows(d, f) == Notices /\ f \in Names \ d.ranked
AddPower(d, f) == IF PowerThrows(d, f) THEN d ELSE SetRank(d, f)

RenameMembers(d, old, new) ==
    [d EXCEPT !.master = [p \in Players |-> IF p \in Members(old)
                                            THEN [@[p] EXCEPT !.faction = new]
                                            ELSE @[p]]]
RenameIn(set, old, new) == IF old \in set THEN (set \ {old}) \union {new} ELSE set
RenameFirst(d, old, new) ==
    [d EXCEPT !.allies = [r \in Pairs |->
        CASE r[1] = old -> 0
          [] r[1] = new -> @[r] + @[<<old, r[2]>>]
          [] OTHER -> @[r]]]
RenameSecond(d, old, new) ==
    [d EXCEPT !.allies = [r \in Pairs |->
        CASE r[2] = old -> 0
          [] r[2] = new -> @[r] + @[<<r[1], old>>]
          [] OTHER -> @[r]]]

\* A command that has gone through the given states of the database, unless the
\* server was killed on the way.
Executes(stages, last) == db' = last \/ (Kills /\ db' \in stages)

-----------------------------------------------------------------------------
(* Membership. *)

\* Variant: the faction gets its strength with its first power.
CreateUnranked(p, f) ==
    /\ ~Exists(f) /\ ~In(p)
    /\ db' = SetRow(db, p, f, "Leader")

\* Variant: any name will do.
CreateAnyName(p, f) ==
    /\ ~In(p)
    /\ LET row == SetRow(db, p, f, "Leader")
       IN  Executes({row}, SetRank(row, f))

\* /f create
Create(p, f) ==
    /\ ~Exists(f) /\ ~In(p)
    /\ LET row == SetRow(db, p, f, "Leader")
       IN  Executes({row}, SetRank(row, f))

\* /f invite
Invite(p, q) ==
    /\ Leads(p) \/ Officer(p)
    /\ ~In(q) /\ ~IsFactionFull(FactionOf(p)) /\ CanAsk("confirm", q)
    /\ db' = [db EXCEPT !.confirm[q] = [faction |-> FactionOf(p), fresh |-> TRUE]]

\* Variant: the rank is kept.
AcceptAsRanked(p) ==
    /\ db.confirm[p] # None /\ db.confirm[p].fresh
    /\ LET f == db.confirm[p].faction
           row == SetRow(db, p, f, IF In(p) THEN db.master[p].rank ELSE "Member")
           answered == [row EXCEPT !.confirm[p] = None]
       IN  Executes({row, answered}, AddPower(answered, f))

\* /f accept within 60 seconds.  Neither the faction nor the player is looked at
\* again: he may be in another faction by now, the faction full or gone.
Accept(p) ==
    /\ db.confirm[p] # None /\ db.confirm[p].fresh
    /\ LET f == db.confirm[p].faction
           row == SetRow(db, p, f, "Member")
           answered == [row EXCEPT !.confirm[p] = None]
       IN  Executes({row, answered}, AddPower(answered, f))

\* /f deny, or /f accept when it is too late
Decline(p) ==
    /\ db.confirm[p] # None
    /\ db' = [db EXCEPT !.confirm[p] = None]

\* /f leader.  That one names somebody else is tested with capitals, so q may be
\* p himself, here and in Promote and Kick.
HandOver(p, q) ==
    /\ Leads(p) /\ SameFaction(p, q)
    /\ LET demoted == SetRow(db, p, FactionOf(p), "Member")
       IN  Executes({demoted}, SetRow(demoted, q, FactionOf(p), "Leader"))

\* /f promote
Promote(p, q) ==
    /\ Leads(p) /\ SameFaction(p, q) /\ ~Officer(q)
    /\ db' = SetRow(db, q, FactionOf(p), "Officer")

\* /f demote
Demote(p, q) ==
    /\ Leads(p) /\ SameFaction(p, q) /\ Officer(q)
    /\ db' = SetRow(db, q, FactionOf(p), "Member")

\* /f kick
Kick(p, q) ==
    /\ Leads(p) /\ SameFaction(p, q)
    /\ LET gone == DropRow(db, q)
       IN  Executes({gone}, AddPower(gone, FactionOf(p)))

\* /f leave
Leave(p) ==
    /\ In(p) /\ ~Leads(p)
    /\ LET gone == DropRow(db, p)
       IN  Executes({gone}, AddPower(gone, FactionOf(p)))

\* The tables after members and plot, in both deletions.
DeleteRest(d, f) ==
    LET first  == DropAllies(d, First(f))
        second == DropAllies(first, Second(f))
    IN  [stages |-> {d, first, second}, last |-> DropRank(second, f)]

\* /f del
Del(p) ==
    /\ Leads(p)
    /\ LET f == FactionOf(p)
           plot == DropPlot(db, f)
           rest == DeleteRest(DropMembers(plot, f), f)
       IN  Executes({plot} \union rest.stages, rest.last)

\* /f forcedelete, by an operator
ForceDelete(f) ==
    /\ Exists(f)
    /\ LET gone == DropMembers(db, f)
           rest == DeleteRest(DropPlot(gone, f), f)
       IN  Executes({gone} \union rest.stages, rest.last)

\* Variant: the second column keeps the old name.
RenameFirstOnly(p, new) ==
    /\ Leads(p) /\ ~Exists(new)
    /\ LET old == FactionOf(p)
           members == RenameMembers(db, old, new)
           plot == [members EXCEPT !.plots = RenameIn(@, old, new)]
           first == RenameFirst(plot, old, new)
       IN  db' = [first EXCEPT !.ranked = RenameIn(@, old, new)]

\* /f rename, by a leader who can pay.  A row that the new name has already, left
\* by a faction that broke up, makes the statement fail and ends the command.
Rename(p, new) ==
    /\ Leads(p) /\ ~Exists(new)
    /\ LET old == FactionOf(p)
           members == RenameMembers(db, old, new)
           plot == [members EXCEPT !.plots = RenameIn(@, old, new)]
           first == RenameFirst(plot, old, new)
           second == RenameSecond(first, old, new)
           rank == [second EXCEPT !.ranked = RenameIn(@, old, new)]
       IN  IF {old, new} \subseteq db.plots THEN db' = members
           ELSE IF {old, new} \subseteq db.ranked
           THEN Executes({members, plot, first}, second)
           ELSE Executes({members, plot, first, second}, rank)

-----------------------------------------------------------------------------
(* Plots; where they lie is left open. *)

\* /f claim
Claim(p) ==
    /\ Leads(p) /\ ~PowerThrows(db, FactionOf(p))
    /\ db' = [db EXCEPT !.plots = @ \union {FactionOf(p)}]

\* /f overclaim
Overclaim(p, g) ==
    /\ Leads(p) /\ g \in db.plots \ {FactionOf(p)}
    /\ ~PowerThrows(db, FactionOf(p)) /\ ~PowerThrows(db, g)
    /\ LET own == DropPlot(db, FactionOf(p))
           both == DropPlot(own, g)
       IN  Executes({own, both}, [both EXCEPT !.plots = @ \union {FactionOf(p)}])

\* /f unclaim, /f forceunclaim
Unclaim(f) ==
    /\ Exists(f)
    /\ db' = DropPlot(db, f)

-----------------------------------------------------------------------------
(* Alliances. *)

\* /f ally: the leader of another faction is asked.
Ally(p, q) ==
    /\ Leads(p) /\ Leads(q) /\ ~SameFaction(p, q)
    /\ ~AreAllies(FactionOf(p), FactionOf(q))
    /\ AlliesCount(FactionOf(p)) < AllyLimit /\ AlliesCount(FactionOf(q)) < AllyLimit
    /\ CanAsk("alliance", q)
    /\ db' = [db EXCEPT !.alliance[q] = [by |-> p, fresh |-> TRUE]]

\* /f allyok within 60 seconds.  The factions are those the two are in now: the
\* one who asked may be in none, and p may lead another than he was asked for.
AllyOk(p) ==
    /\ Leads(p) /\ db.alliance[p] # None /\ db.alliance[p].fresh
    /\ LET by == db.alliance[p].by
           g == IF In(by) THEN FactionOf(by) ELSE None
           f == FactionOf(p)
           one == SetAllies(db, g, f)
           both == SetAllies(one, f, g)
           own == AddPower(both, f)
           powers == AddPower(own, g)
       IN  /\ ~(Notices /\ g = None)
           /\ both.allies[<<f, g>>] <= MaxRows
           /\ IF PowerThrows(both, f) \/ PowerThrows(own, g)
              THEN Executes({one, both}, own)
              ELSE Executes({one, both, own, powers}, [powers EXCEPT !.alliance[p] = None])

\* /f allyno, or /f allyok when it is too late
AllyNo(p) ==
    /\ Leads(p) /\ db.alliance[p] # None
    /\ ~(Notices /\ db.alliance[p].fresh /\ ~In(db.alliance[p].by))
    /\ db' = [db EXCEPT !.alliance[p] = None]

\* /f unally.  The other leader is looked for first: without one, the command ends
\* with an error.
Unally(p, g) ==
    /\ Leads(p) /\ Leaders(g) # {} /\ g # FactionOf(p) /\ AreAllies(FactionOf(p), g)
    /\ LET f == FactionOf(p)
           one == DropAllies(db, {<<f, g>>})
           both == DropAllies(one, {<<g, f>>})
           own == AddPower(both, f)
       IN  Executes({one, both, own},
                    IF PowerThrows(both, f) THEN both ELSE AddPower(own, g))

\* More than 60 seconds have passed since p was invited, or asked.
TimeOut(p) ==
    \/ /\ db.confirm[p] # None /\ db.confirm[p].fresh
       /\ db' = [db EXCEPT !.confirm[p].fresh = FALSE]
    \/ /\ db.alliance[p] # None /\ db.alliance[p].fresh
       /\ db' = [db EXCEPT !.alliance[p].fresh = FALSE]

-----------------------------------------------------------------------------
Next ==
    \/ \E p \in Players :
          \/ Accept(p) \/ Decline(p) \/ Leave(p) \/ Del(p)
          \/ Claim(p) \/ AllyOk(p) \/ AllyNo(p) \/ TimeOut(p)
    \/ \E p, q \in Players :
          \/ Invite(p, q) \/ HandOver(p, q) \/ Promote(p, q)
          \/ Demote(p, q) \/ Kick(p, q) \/ Ally(p, q)
    \/ \E p \in Players, f \in Names :
          \/ Create(p, f) \/ Rename(p, f) \/ Overclaim(p, f) \/ Unally(p, f)
    \/ \E f \in Names : ForceDelete(f) \/ Unclaim(f)

Spec == Init /\ [][Next]_db

-----------------------------------------------------------------------------
(* Properties. *)

\* A faction has one leader at most, although leadership is handed over in two
\* statements, invitations are accepted by whoever leads something else by then,
\* and a name is free again as soon as nobody is left under it.
OneLeader == \A p, q \in Players : Leads(p) /\ Leads(q) /\ SameFaction(p, q) => p = q

\* Nobody takes over a faction that exists: who leads it after a step did before,
\* or got it from a leader who is a plain member now.
OnlyHandedOver ==
    [][\A f \in Names : Exists(f) =>
           \/ Leaders(f)' \subseteq Leaders(f)
           \/ \E p \in Leaders(f) : db.master'[p] = [faction |-> f, rank |-> "Member"]]_db

\* An alliance is mutual: each faction has the other in the table, as often as
\* the other has it, after requests answered under other names and factions,
\* new names, and deletions.
AlliesBothWays == \A r \in Pairs : db.allies[r] = db.allies[<<r[2], r[1]>>]

\* Every faction has a row of strength: it appears in /f top, and its vault, claims
\* and shares can be worked out.
FactionsAreRanked == \A f \in Names : Exists(f) => f \in db.ranked
=============================================================================
