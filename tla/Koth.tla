-------------------------------- MODULE Koth --------------------------------
(***************************************************************************)
(* King of the hill: /koth and its forms, KothTask, which runs every second, *)
(* and the handlers of KothListener.  Factions belong to FactionsPro; here   *)
(* they are who belongs to which, and the commands that change it under a    *)
(* running game.  The players of a game are a set: where the order in which  *)
(* the code walks them matters, any order is possible.                       *)
(***************************************************************************)
EXTENDS Integers, FiniteSets

CONSTANTS
    Player,           \* player names
    Faction,          \* faction names
    Leader,           \* the player that leads each faction
    Home,             \* the faction each player belongs to at first
    Movers,           \* players who may leave or change their faction
    Ops,              \* operators of the server
    Editors,          \* bound: leaders who use the list of members
    Allied,           \* pairs of allied factions
    SpawnCount,       \* count($spawnPoints)
    PlayersRequired,  \* $playersRequired
    RivalsRequired,   \* $rivalFactionsRequired
    CountdownTime,    \* seconds of countdown
    GameDuration,     \* $gameDuration, in seconds
    RespawnTime,      \* seconds a player who respawned cannot fight
    Goal,             \* capture progress to exceed
    KingAt,           \* capture progress above which the first is King
    MaxProgress       \* bound: progress is not counted any further

NoFaction == "no faction"
NoSpawn == -1
Unset == -1        \* no entry in $captureProgress
Spawns == 0..SpawnCount - 1

ASSUME FactionAssumption == /\ NoFaction \notin Faction
                            /\ Leader \in [Faction -> Player]
                            /\ Home \in [Player -> Faction \cup {NoFaction}]
                            /\ {Movers, Ops, Editors} \subseteq SUBSET Player
ASSUME NumberAssumption == /\ SpawnCount \in Nat \ {0} /\ PlayersRequired \in Nat \ {0}
                           /\ RivalsRequired \in Nat /\ CountdownTime \in Nat
                           /\ GameDuration \in Nat /\ RespawnTime \in Nat
                           /\ Goal \in Nat /\ KingAt \in Nat
                           /\ MaxProgress \in Nat /\ MaxProgress > Goal
ASSUME PlayerAssumption == IsFiniteSet(Player)

VARIABLES
    status,      \* KothTask::$status
    gameTick,    \* $gameTick, in seconds
    enabled,     \* $isEnabled
    players,     \* $players
    spawn,       \* $playerSpawns
    respawning,  \* $respawnTime
    progress,    \* $captureProgress
    king,        \* players with the King tag in their name tag
    frozen,      \* players set immobile
    board,       \* factions with an entry in KothListener::$leaderboard
    scored,      \* those that got a complete entry when the game began
    faction,     \* table master of FactionsPro
    added,       \* Main::$koth: the players each leader has added
    form,        \* the form of /koth a player has open
    bags,        \* lootbags handed out, modulo 2
    stuck        \* whether the server hangs in an endless loop

gameVars == <<status, gameTick, enabled, players, spawn, respawning, progress,
              king, frozen, board, scored, bags>>
vars == <<status, gameTick, enabled, players, spawn, respawning, progress, king,
          frozen, board, scored, faction, added, form, bags, stuck>>

Form == [kind: {"none"}]  \cup [kind: {"join"}]
          \cup [kind: {"roster"}, faction: Faction, members: SUBSET Player]
NoForm   == [kind |-> "none"]
JoinForm == [kind |-> "join"]

TypeOK ==
    /\ status \in {"inactive", "countdown", "running"}
    /\ gameTick \in Int
    /\ enabled \in BOOLEAN
    /\ players \subseteq Player
    /\ spawn \in [Player -> Spawns \cup {NoSpawn}]
    /\ respawning \in [Player -> 0..RespawnTime]
    /\ progress \in [Player -> 0..MaxProgress \cup {Unset}]
    /\ king \subseteq Player
    /\ frozen \subseteq Player
    /\ scored \subseteq board /\ board \subseteq Faction
    /\ faction \in [Player -> Faction \cup {NoFaction}]
    /\ added \in [Faction -> SUBSET Player]
    /\ form \in [Player -> Form]
    /\ bags \in 0..1
    /\ stuck \in BOOLEAN

Init ==
    /\ status = "inactive"
    /\ gameTick = 0
    /\ enabled = FALSE
    /\ players = {}
    /\ spawn = [p \in Player |-> NoSpawn]
    /\ respawning = [p \in Player |-> 0]
    /\ progress = [p \in Player |-> Unset]
    /\ king = {}
    /\ frozen = {}
    /\ board = {}
    /\ scored = {}
    /\ faction = Home
    /\ added = [f \in Faction |-> {}]
    /\ form = [p \in Player |-> NoForm]
    /\ bags = 0
    /\ stuck = FALSE

-----------------------------------------------------------------------------
(* What FactionsPro answers, and the two questions of checkPlayers. *)

InFaction(p) == faction[p] # NoFaction
IsLeader(p)  == InFaction(p) /\ Leader[faction[p]] = p
Members(f)   == {p \in Player : faction[p] = f}
PlayingFactions == {faction[p] : p \in players} \ {NoFaction}

\* Both orders of two rival factions count.
RivalPairs == {pair \in PlayingFactions \X PlayingFactions :
                 pair[1] # pair[2] /\ pair \notin Allied}

Enough == /\ Cardinality(players) >= PlayersRequired
          /\ Cardinality(RivalPairs) >= RivalsRequired

\* A player who plays a running game cannot use any command, and one who waits
\* only /koth.
CommandAllowed(p) == p \notin players
KothAllowed(p)    == p \in players => status # "running"

-----------------------------------------------------------------------------
(* Joining, leaving and respawning. *)

FreeSpawns == Spawns \ {spawn[p] : p \in players}

\* Variant: always the first.
FirstSpawn  == {0}
\* The first spawn if nobody has it, otherwise any that is free.
SpawnChoice == IF 0 \in FreeSpawns THEN {0} ELSE FreeSpawns

\* respawn gives a new protection only to one who has none left.
Respawned(r, S) == [p \in Player |-> IF p \in S /\ r[p] = 0 THEN RespawnTime ELSE r[p]]

AddPlayer(p) ==
    /\ \E s \in SpawnChoice : spawn' = [spawn EXCEPT ![p] = s]
    /\ respawning' = Respawned(respawning, {p})
    /\ players' = players \cup {p}
    /\ frozen' = frozen \cup {p}

\* Variants: the progress, or the frozen state, of who leaves is kept.
StillFrozen(S)     == frozen
Thawed(S)          == frozen \ S
ProgressKept(S)    == progress
ProgressWithout(S) == [p \in Player |-> IF p \in S THEN Unset ELSE progress[p]]

RemovePlayers(S) ==
    /\ players' = players \ S
    /\ spawn' = [p \in Player |-> IF p \in S THEN NoSpawn ELSE spawn[p]]
    /\ progress' = ProgressWithout(S)
    /\ frozen' = Thawed(S)

\* Variant: the status is not set back.
NeverOver ==
    /\ RemovePlayers(players)
    /\ board' = {} /\ scored' = {} /\ UNCHANGED status

\* Every player is removed; the King keeps the tag.
EndGame ==
    /\ RemovePlayers(players)
    /\ board' = {} /\ scored' = {}
    /\ status' = "inactive"

-----------------------------------------------------------------------------
(* KothTask::onRun, once a second. *)

\* Variant: the time of those who have none left goes on falling.
RespawnsFalling == [p \in Player |-> respawning[p] - 1]
RespawnsTicked  == [p \in Player |-> IF respawning[p] > 0 THEN respawning[p] - 1 ELSE 0]

\* Variant: the seconds are not counted.
SameTick == gameTick
NextTick == gameTick + 1

TickInactive ==
    /\ ~stuck
    /\ status = "inactive"
    /\ IF Enough THEN gameTick' = 0 /\ status' = "countdown"
                 ELSE gameTick' = -1 /\ UNCHANGED status
    /\ respawning' = RespawnsTicked
    /\ UNCHANGED <<enabled, players, spawn, progress, king, frozen, board, scored,
                   faction, added, form, bags, stuck>>

TickCountdown ==
    /\ ~stuck
    /\ status = "countdown"
    /\ \/ ~Enough /\ status' = "inactive" /\ UNCHANGED gameTick
       \/ Enough /\ gameTick < CountdownTime
          /\ gameTick' = NextTick /\ UNCHANGED status
    /\ respawning' = RespawnsTicked
    /\ UNCHANGED <<enabled, players, spawn, progress, king, frozen, board, scored,
                   faction, added, form, bags, stuck>>

TickStart ==
    /\ ~stuck
    /\ status = "countdown" /\ Enough /\ gameTick >= CountdownTime
    /\ gameTick' = 0
    /\ status' = "running"
    /\ board' = board \cup PlayingFactions
    /\ scored' = scored \cup PlayingFactions
    /\ frozen' = frozen \ players
    /\ respawning' = RespawnsTicked
    /\ UNCHANGED <<enabled, players, spawn, progress, king, faction, added, form, bags,
                   stuck>>

TimeOver == gameTick >= GameDuration

TickNoWinner ==
    /\ ~stuck
    /\ status = "running"
    /\ ~Enough \/ TimeOver
    /\ EndGame
    /\ respawning' = RespawnsTicked
    /\ UNCHANGED <<gameTick, enabled, king, faction, added, form, bags, stuck>>

Had(p) == IF progress[p] = Unset THEN 0 ELSE progress[p]
Capped(n) == IF n > MaxProgress THEN MaxProgress ELSE n

\* On the hill the King gains two, another player one; elsewhere one loses three.
NextProgress(p, hill) ==
    IF p \in hill THEN Capped(Had(p) + (IF p \in king THEN 2 ELSE 1))
    ELSE IF Had(p) > 3 THEN Had(p) - 3 ELSE 0

Winners(hill) == {p \in hill : NextProgress(p, hill) > Goal}
Counted(S, hill) == [p \in Player |-> IF p \in S THEN NextProgress(p, hill)
                                                 ELSE progress[p]]

\* Where the players are: on the hill, or outside the arena.
Positions == {pos \in [hill: SUBSET (players \ frozen),
                       outside: SUBSET (players \ frozen)] :
                pos.hill \cap pos.outside = {}}

\* The first in the order of progress is King above KingAt, and then nobody
\* else in the game is.
Crowned(next) ==
    LET first == {p \in players : \A q \in players : next[p] >= next[q]} IN
    \E k \in first :
        king' = IF next[k] > KingAt THEN (king \ players) \cup {k} ELSE king \ {k}

TickCapture ==
    /\ ~stuck
    /\ status = "running" /\ Enough /\ ~TimeOver
    /\ \E pos \in Positions :
         /\ Winners(pos.hill) = {}
         /\ progress' = Counted(players, pos.hill)
         /\ respawning' = Respawned(RespawnsTicked, pos.outside)
         /\ Crowned(Counted(players, pos.hill))
    /\ gameTick' = NextTick
    /\ UNCHANGED <<status, enabled, players, spawn, frozen, board, scored,
                   faction, added, form, bags, stuck>>

\* The results of a game count the leaderboard against the factions that still
\* play, and read both numbers of each entry.  Where one is missing, the notice
\* stops the task.
TooFewRewards   == Cardinality(board) > (IF PlayingFactions = {} THEN 1
                                          ELSE Cardinality(PlayingFactions))
IncompleteBoard == ~(board \subseteq scored)
Unsound == TooFewRewards \/ IncompleteBoard

\* Variant: winning does not end the game.
WinGoesOn == RemovePlayers({}) /\ UNCHANGED <<board, scored, status, enabled>>
WinEnds   == EndGame /\ enabled' = FALSE

\* The players visited before the first one found above the goal are counted,
\* those after are not; the lootbag is handed out before the results.
TickWin ==
    /\ ~stuck
    /\ status = "running" /\ Enough /\ ~TimeOver
    /\ \E pos \in Positions : \E w \in Winners(pos.hill) :
         \E before \in SUBSET (players \ Winners(pos.hill)) :
           /\ bags' = 1 - bags
           /\ respawning' = Respawned(RespawnsTicked, pos.outside \cap before)
           /\ \/ /\ ~TooFewRewards
                 /\ WinEnds
              \/ /\ Unsound
                 /\ progress' = Counted(before \cup {w}, pos.hill)
                 /\ UNCHANGED <<status, enabled, players, spawn, frozen, board, scored>>
    /\ UNCHANGED <<gameTick, king, faction, added, form, stuck>>

Tick == TickInactive \/ TickCountdown \/ TickStart \/ TickNoWinner \/ TickCapture \/ TickWin

-----------------------------------------------------------------------------
(* KothCommand::onExecute and the answers to its two forms. *)

\* With the arena on, a player whom the leader added gets the form to join or
\* leave; with it off, the leader gets the list of members to add.
JoinOffered(p, on) == /\ InFaction(p) /\ on /\ status # "running"
                      /\ p \in added[faction[p]] \/ IsLeader(p)
RosterOffered(p, on) == IsLeader(p) /\ ~on /\ p \in Editors

Roster(p) == [kind |-> "roster", faction |-> faction[p], members |-> Members(faction[p])]

\* An operator may switch the arena on or off first.
KothCommand(p) ==
    /\ ~stuck
    /\ KothAllowed(p) /\ form[p] = NoForm
    /\ enabled' \in IF p \in Ops THEN BOOLEAN ELSE {enabled}
    /\ form' = CASE JoinOffered(p, enabled')   -> [form EXCEPT ![p] = JoinForm]
                 [] RosterOffered(p, enabled') -> [form EXCEPT ![p] = Roster(p)]
                 [] OTHER                      -> form
    /\ UNCHANGED <<status, gameTick, players, spawn, respawning, progress, king,
                   frozen, board, scored, faction, added, bags, stuck>>

\* A late answer is not checked again: it joins whatever the game does.
AnswerJoin(p) ==
    /\ ~stuck
    /\ form[p] = JoinForm /\ p \notin players
    /\ FreeSpawns # {}
    /\ AddPlayer(p)
    /\ form' = [form EXCEPT ![p] = NoForm]
    /\ UNCHANGED <<status, gameTick, enabled, progress, king, board, scored, faction,
                   added, bags, stuck>>

\* addPlayer compares the number of taken spawns with the array of spawns, so a
\* full arena does not refuse: the search for a free spawn never ends.
AnswerJoinFull(p) ==
    /\ ~stuck
    /\ form[p] = JoinForm /\ p \notin players
    /\ FreeSpawns = {}
    /\ stuck' = TRUE
    /\ form' = [form EXCEPT ![p] = NoForm]
    /\ UNCHANGED <<gameVars, faction, added>>

AnswerLeave(p) ==
    /\ ~stuck
    /\ form[p] = JoinForm /\ p \in players
    /\ form' = [form EXCEPT ![p] = NoForm]
    /\ \/ status # "running" /\ RemovePlayers({p})
       \/ status = "running" /\ UNCHANGED <<players, spawn, progress, frozen>>
    /\ UNCHANGED <<status, gameTick, enabled, respawning, king, board, scored, faction,
                   added, bags, stuck>>

\* The leader's own name has no toggle; who was no member when the form was
\* built is taken off the list.
AnswerRoster(p) ==
    /\ ~stuck
    /\ form[p].kind = "roster"
    /\ \E chosen \in SUBSET (form[p].members \ {p}) :
         added' = [added EXCEPT ![form[p].faction] =
                     chosen \cup (@ \cap form[p].members \cap {p})]
    /\ form' = [form EXCEPT ![p] = NoForm]
    /\ UNCHANGED <<gameVars, faction, stuck>>

CloseForm(p) ==
    /\ ~stuck
    /\ form[p] # NoForm
    /\ form' = [form EXCEPT ![p] = NoForm]
    /\ UNCHANGED <<gameVars, faction, added, stuck>>

-----------------------------------------------------------------------------
(* KothListener: a hit that would kill, and a player who disconnects. *)

CanFight(d, v) == /\ d \in players /\ v \in players /\ d # v
                  /\ respawning[d] = 0 /\ respawning[v] = 0

\* The first of damager and victim without a faction leaves the game.
KillStray(d, v) ==
    /\ ~stuck
    /\ CanFight(d, v)
    /\ ~InFaction(d) \/ ~InFaction(v)
    /\ RemovePlayers(IF InFaction(d) THEN {v} ELSE {d})
    /\ UNCHANGED <<status, gameTick, enabled, respawning, king, board, scored,
                   faction, added, form, bags, stuck>>

\* All of the power was transferred and the leaderboard has both factions.
KillRobs(d, v) ==
    /\ ~stuck
    /\ CanFight(d, v) /\ InFaction(d) /\ InFaction(v)
    /\ {faction[d], faction[v]} \subseteq board
    /\ respawning' = Respawned(respawning, {v})
    /\ UNCHANGED <<status, gameTick, enabled, players, spawn, progress, king, frozen,
                   board, scored, faction, added, form, bags, stuck>>

\* A faction without complete entry: the notice stops the handler and leaves an
\* entry behind.  The victim's entry is written first.
KillThrows(d, v) ==
    /\ ~stuck
    /\ CanFight(d, v) /\ InFaction(d) /\ InFaction(v)
    /\ \E f \in {faction[d], faction[v]} \ scored :
         /\ f = faction[v] \/ faction[v] \in board
         /\ board' = board \cup {f}
    /\ UNCHANGED <<status, gameTick, enabled, players, spawn, respawning, progress,
                   king, frozen, scored, faction, added, form, bags, stuck>>

\* Too little power: the victim's faction is eliminated.  A player without a
\* faction stops the loop with a notice when it gets there.
KillEliminates(d, v) ==
    /\ ~stuck
    /\ CanFight(d, v) /\ InFaction(d) /\ InFaction(v)
    /\ LET losers == players \cap Members(faction[v]) IN
       \E out \in IF \E p \in players : ~InFaction(p) THEN SUBSET losers ELSE {losers} :
           RemovePlayers(out)
    /\ UNCHANGED <<status, gameTick, enabled, respawning, king, board, scored, faction,
                   added, form, bags, stuck>>

\* A new connection has its own name tag and no form.
Quit(p) ==
    /\ ~stuck
    /\ RemovePlayers({p} \cap players)
    /\ king' = king \ {p}
    /\ form' = [form EXCEPT ![p] = NoForm]
    /\ UNCHANGED <<status, gameTick, enabled, respawning, board, scored, faction,
                   added, bags, stuck>>

-----------------------------------------------------------------------------
(* FactionsPro: a member leaves or is kicked, a faction is disbanded, a        *)
(* player accepts an invitation.                                             *)

LeaveFaction(p) ==
    /\ ~stuck
    /\ p \in Movers /\ InFaction(p) /\ ~IsLeader(p)
    /\ CommandAllowed(p) \/ (IsLeader(Leader[faction[p]])
                             /\ CommandAllowed(Leader[faction[p]]))
    /\ faction' = [faction EXCEPT ![p] = NoFaction]
    /\ UNCHANGED <<gameVars, added, form, stuck>>

Disband(f) ==
    /\ ~stuck
    /\ Members(f) # {} /\ Members(f) \subseteq Movers
    /\ \E p \in Ops \cup {Leader[f]} :
         CommandAllowed(p) /\ (p \in Ops \/ faction[p] = f)
    /\ faction' = [p \in Player |-> IF faction[p] = f THEN NoFaction ELSE faction[p]]
    /\ UNCHANGED <<gameVars, added, form, stuck>>

AcceptInvitation(p, f) ==
    /\ ~stuck
    /\ p \in Movers /\ ~InFaction(p) /\ CommandAllowed(p)
    /\ Members(f) # {}
    /\ faction' = [faction EXCEPT ![p] = f]
    /\ UNCHANGED <<gameVars, added, form, stuck>>

-----------------------------------------------------------------------------
Next ==
    \/ Tick
    \/ \E p \in Player : \/ KothCommand(p) \/ AnswerJoin(p) \/ AnswerJoinFull(p)
                         \/ AnswerLeave(p) \/ AnswerRoster(p) \/ CloseForm(p)
                         \/ Quit(p) \/ LeaveFaction(p)
    \/ \E d, v \in Player : \/ KillStray(d, v) \/ KillRobs(d, v)
                            \/ KillThrows(d, v) \/ KillEliminates(d, v)
    \/ \E f \in Faction : Disband(f) \/ \E p \in Player : AcceptInvitation(p, f)

Spec == Init /\ [][Next]_vars

\* The scheduler runs KothTask every second.
FairSpec == Spec /\ WF_vars(Tick)

-----------------------------------------------------------------------------
(* Properties. *)

\* No two players of the game share a spawn, and only players of the game have
\* one: what they leave behind is free again (KothTask::addPlayer, removePlayer).
SpawnsDistinct ==
    /\ \A p \in Player : p \in players <=> spawn[p] # NoSpawn
    /\ \A p, q \in players : p # q => spawn[p] # spawn[q]

\* Nobody outside the game is left immobile, and until it starts everybody in it
\* is: no order of joining, leaving, dying and ending frees or forgets one.
FrozenWhileWaiting ==
    /\ frozen \subseteq players
    /\ status # "running" => frozen = players

\* Progress belongs to players of a running game: whoever leaves and comes back,
\* and every new game, begins at none (KothTask::onRun, removePlayer).
ProgressOnlyInGame ==
    \A p \in Player : progress[p] # Unset => p \in players /\ status = "running"

\* A lootbag is handed out only with the end of the game, which empties and
\* closes the arena, unless the leaderboard has an entry the results cannot
\* show (KothTask::onRun, the branch of the winner).
WinEndsGame ==
    [][bags' # bags => \/ status' = "inactive" /\ ~enabled' /\ players' = {}
                       \/ Unsound]_vars

\* A running game ends, whatever its players do, unless the results of its
\* winner cannot be shown or the server hangs.
GameEnds == status = "running" ~> status # "running" \/ Unsound \/ stuck

\* Enough waiting players of rival factions get their game.
GameStarts == status = "inactive" /\ Enough ~> status = "running" \/ ~Enough \/ stuck

=============================================================================
