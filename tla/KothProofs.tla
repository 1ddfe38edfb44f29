----------------------------- MODULE KothProofs -----------------------------
(***************************************************************************)
(* Proofs about Koth for every set of players and factions, every number of *)
(* spawns and every duration.  The invariant joins three facts none of which *)
(* a joining, leaving or ending step preserves alone with the types: who has *)
(* a spawn, who is frozen and who has progress is always told by who plays   *)
(* and whether the game is running.                                          *)
(***************************************************************************)
EXTENDS Koth, TLAPS

Waiting == SpawnsDistinct /\ FrozenWhileWaiting /\ ProgressOnlyInGame

IInv == TypeOK /\ Waiting

USE DEF NoSpawn, Unset

-----------------------------------------------------------------------------
(* What the helpers return. *)

\* A tick of the respawn times keeps them in their range.
LEMMA RespawnsTickedType ==
    ASSUME TypeOK
    PROVE  RespawnsTicked \in [Player -> 0..RespawnTime]
BY NumberAssumption DEF RespawnsTicked, TypeOK

\* So does a new respawn.
LEMMA RespawnedType ==
    ASSUME NEW r \in [Player -> 0..RespawnTime], NEW S
    PROVE  Respawned(r, S) \in [Player -> 0..RespawnTime]
BY NumberAssumption DEF Respawned

\* Progress counted for one second stays in its range and is a number.
LEMMA NextProgressType ==
    ASSUME TypeOK, NEW p \in Player, NEW hill
    PROVE  NextProgress(p, hill) \in 0..MaxProgress
<1>1. Had(p) \in 0..MaxProgress
  BY NumberAssumption DEF Had, TypeOK
<1>2. Capped(Had(p) + 1) \in 0..MaxProgress /\ Capped(Had(p) + 2) \in 0..MaxProgress
  BY <1>1, NumberAssumption DEF Capped
<1>3. QED
  BY <1>1, <1>2, NumberAssumption DEF NextProgress

\* Counting changes the progress of the players counted only.
LEMMA CountedType ==
    ASSUME TypeOK, NEW S, NEW hill
    PROVE  Counted(S, hill) \in [Player -> 0..MaxProgress \cup {Unset}]
BY NextProgressType DEF Counted, TypeOK

-----------------------------------------------------------------------------
(* What several steps share. *)

\* A step that leaves the game's membership and status alone, and gives no
\* player progress outside a running game, keeps the invariant's three facts.
LEMMA WaitingKept ==
    ASSUME IInv, UNCHANGED <<status, players, spawn, progress, frozen>>
    PROVE  Waiting'
BY DEF IInv, Waiting, SpawnsDistinct, FrozenWhileWaiting, ProgressOnlyInGame

\* Removing players keeps types and facts, and nobody of them keeps anything.
LEMMA Removal ==
    ASSUME IInv, NEW S \in SUBSET Player, RemovePlayers(S)
    PROVE  /\ players' \subseteq Player
           /\ spawn' \in [Player -> Spawns \cup {NoSpawn}]
           /\ progress' \in [Player -> 0..MaxProgress \cup {Unset}]
           /\ frozen' \subseteq Player
           /\ SpawnsDistinct'
           /\ frozen' \subseteq players'
           /\ frozen = players => frozen' = players'
           /\ \A p \in Player : progress'[p] # Unset => p \in players' /\ status = "running"
<1> USE DEF IInv, TypeOK, Waiting, RemovePlayers
<1>1. players' \subseteq Player /\ frozen' \subseteq Player
  BY DEF Thawed
<1>2. spawn' \in [Player -> Spawns \cup {NoSpawn}]
  OBVIOUS
<1>3. progress' \in [Player -> 0..MaxProgress \cup {Unset}]
  BY DEF ProgressWithout
<1>4. SpawnsDistinct'
  BY DEF SpawnsDistinct
<1>5. frozen' \subseteq players' /\ (frozen = players => frozen' = players')
  BY DEF FrozenWhileWaiting, Thawed
<1>6. \A p \in Player : progress'[p] # Unset => p \in players' /\ status = "running"
  BY DEF ProgressOnlyInGame, ProgressWithout
<1>7. QED
  BY <1>1, <1>2, <1>3, <1>4, <1>5, <1>6

\* One or more players leave a game that goes on as it was.
LEMMA Leaving ==
    ASSUME IInv, NEW S \in SUBSET Player, RemovePlayers(S), UNCHANGED status
    PROVE  Waiting'
<1>1. SpawnsDistinct' /\ frozen' \subseteq players' /\ (frozen = players => frozen' = players')
  BY Removal
<1>2. \A p \in Player : progress'[p] # Unset => p \in players' /\ status = "running"
  BY Removal
<1>3. FrozenWhileWaiting'
  BY <1>1 DEF FrozenWhileWaiting, IInv, Waiting
<1>4. ProgressOnlyInGame'
  BY <1>2 DEF ProgressOnlyInGame
<1>5. QED
  BY <1>1, <1>3, <1>4 DEF Waiting

\* All players leave with the end of the game.
LEMMA Ending ==
    ASSUME IInv, EndGame
    PROVE  /\ players' \subseteq Player
           /\ spawn' \in [Player -> Spawns \cup {NoSpawn}]
           /\ progress' \in [Player -> 0..MaxProgress \cup {Unset}]
           /\ frozen' \subseteq Player
           /\ status' \in {"inactive", "countdown", "running"}
           /\ scored' \subseteq board' /\ board' \subseteq Faction
           /\ Waiting'
<1>1. players \in SUBSET Player /\ RemovePlayers(players)
  BY DEF IInv, TypeOK, EndGame
<1>2. /\ players' \subseteq Player
      /\ spawn' \in [Player -> Spawns \cup {NoSpawn}]
      /\ progress' \in [Player -> 0..MaxProgress \cup {Unset}]
      /\ frozen' \subseteq Player /\ frozen' \subseteq players'
      /\ SpawnsDistinct'
      /\ \A p \in Player : progress'[p] # Unset => p \in players'
  BY <1>1, Removal
<1>3. players' = {}
  BY <1>1 DEF RemovePlayers
<1>4. FrozenWhileWaiting' /\ ProgressOnlyInGame'
  BY <1>2, <1>3 DEF FrozenWhileWaiting, ProgressOnlyInGame
<1>5. QED
  BY <1>2, <1>4 DEF Waiting, EndGame

-----------------------------------------------------------------------------
(* Init and each step. *)

\* The server starts in the invariant.
LEMMA InitIInv == Init => IInv
<1> SUFFICES ASSUME Init PROVE IInv
  OBVIOUS
<1>0. form \in [Player -> Form]
  <2>1. NoForm \in Form
    BY DEF Form, NoForm
  <2>2. QED
    BY <2>1 DEF Init
<1>1. TypeOK
  <2>1. spawn \in [Player -> Spawns \cup {NoSpawn}]
    BY DEF Init
  <2>2. respawning \in [Player -> 0..RespawnTime]
    BY NumberAssumption DEF Init
  <2>3. progress \in [Player -> 0..MaxProgress \cup {Unset}]
    BY DEF Init
  <2>4. faction \in [Player -> Faction \cup {NoFaction}]
    BY FactionAssumption DEF Init
  <2>5. added \in [Faction -> SUBSET Player]
    BY DEF Init
  <2>6. /\ status \in {"inactive", "countdown", "running"}
        /\ gameTick \in Int
        /\ enabled \in BOOLEAN /\ stuck \in BOOLEAN
    <3>1. status \in {"inactive", "countdown", "running"}
      BY DEF Init
    <3>2. gameTick \in Int
      BY DEF Init
    <3>3. enabled \in BOOLEAN /\ stuck \in BOOLEAN
      BY Zenon DEF Init
    <3>4. QED
      BY <3>1, <3>2, <3>3
  <2>7. players \subseteq Player /\ king \subseteq Player /\ frozen \subseteq Player
    BY DEF Init
  <2>8. scored \subseteq board /\ board \subseteq Faction
    BY DEF Init
  <2>9. bags \in 0..1
    BY DEF Init
  <2>10. QED
    BY <1>0, <2>1, <2>2, <2>3, <2>4, <2>5, <2>6, <2>7, <2>8, <2>9 DEF TypeOK
<1>2. Waiting
  BY DEF Init, Waiting, SpawnsDistinct, FrozenWhileWaiting, ProgressOnlyInGame
<1>3. QED
  BY <1>1, <1>2 DEF IInv

\* The second of a waiting arena, and of a countdown that goes on or is broken
\* off, only moves the status between those two.
LEMMA WaitingTickStep == IInv /\ (TickInactive \/ TickCountdown) => IInv'
<1> SUFFICES ASSUME IInv, TickInactive \/ TickCountdown PROVE IInv'
  OBVIOUS
<1>1. respawning' \in [Player -> 0..RespawnTime]
  BY RespawnsTickedType DEF IInv, TickInactive, TickCountdown
<1>2. gameTick' \in Int
  BY DEF IInv, TypeOK, TickInactive, TickCountdown, NextTick
<1>3. status # "running" /\ status' \in {"inactive", "countdown"}
  BY DEF TickInactive, TickCountdown
<1>4. TypeOK'
  BY <1>1, <1>2, <1>3 DEF IInv, TypeOK, TickInactive, TickCountdown
<1>5. Waiting'
  BY <1>3 DEF IInv, Waiting, SpawnsDistinct, FrozenWhileWaiting, ProgressOnlyInGame,
              TickInactive, TickCountdown
<1>6. QED
  BY <1>4, <1>5 DEF IInv

\* The start of a game sets its players free.
LEMMA TickStartStep == IInv /\ TickStart => IInv'
<1> SUFFICES ASSUME IInv, TickStart PROVE IInv'
  OBVIOUS
<1>1. respawning' \in [Player -> 0..RespawnTime]
  BY RespawnsTickedType DEF IInv, TickStart
<1>2. PlayingFactions \subseteq Faction
  BY DEF IInv, TypeOK, PlayingFactions
<1>3. TypeOK'
  BY <1>1, <1>2 DEF IInv, TypeOK, TickStart
<1>4. Waiting'
  BY DEF IInv, Waiting, SpawnsDistinct, FrozenWhileWaiting, ProgressOnlyInGame, TickStart
<1>5. QED
  BY <1>3, <1>4 DEF IInv

\* A game without winner ends.
LEMMA TickNoWinnerStep == IInv /\ TickNoWinner => IInv'
<1> SUFFICES ASSUME IInv, TickNoWinner PROVE IInv'
  OBVIOUS
<1>1. EndGame
  BY DEF TickNoWinner
<1>2. respawning' \in [Player -> 0..RespawnTime]
  BY RespawnsTickedType DEF IInv, TickNoWinner
<1>3. TypeOK'
  BY <1>1, <1>2, Ending DEF IInv, TypeOK, TickNoWinner
<1>4. QED
  BY <1>1, <1>3, Ending DEF IInv

\* One second of a game without a winner counts every player's progress.
LEMMA TickCaptureStep == IInv /\ TickCapture => IInv'
<1> SUFFICES ASSUME IInv, TickCapture PROVE IInv'
  OBVIOUS
<1>1. PICK pos \in Positions :
         /\ progress' = Counted(players, pos.hill)
         /\ respawning' = Respawned(RespawnsTicked, pos.outside)
         /\ Crowned(Counted(players, pos.hill))
  BY DEF TickCapture
<1>2. progress' \in [Player -> 0..MaxProgress \cup {Unset}]
  BY <1>1, CountedType DEF IInv
<1>3. respawning' \in [Player -> 0..RespawnTime]
  BY <1>1, RespawnsTickedType, RespawnedType DEF IInv
<1>4. king' \subseteq Player
  BY <1>1 DEF IInv, TypeOK, Crowned
<1>5. TypeOK'
  BY <1>2, <1>3, <1>4 DEF IInv, TypeOK, TickCapture, NextTick
<1>6. \A p \in Player : progress'[p] # Unset => p \in players
  BY <1>1 DEF IInv, Waiting, ProgressOnlyInGame, Counted
<1>7. Waiting'
  BY <1>6 DEF IInv, Waiting, SpawnsDistinct, FrozenWhileWaiting, ProgressOnlyInGame,
              TickCapture
<1>8. QED
  BY <1>5, <1>7 DEF IInv

\* The second of a winner either ends the game or, stopped by a notice, leaves
\* the progress counted so far.
LEMMA TickWinStep == IInv /\ TickWin => IInv'
<1> SUFFICES ASSUME IInv, TickWin PROVE IInv'
  OBVIOUS
<1>0. PICK pos \in Positions : \E w \in Winners(pos.hill) :
         \E before \in SUBSET (players \ Winners(pos.hill)) :
           /\ bags' = 1 - bags
           /\ respawning' = Respawned(RespawnsTicked, pos.outside \cap before)
           /\ \/ WinEnds
              \/ /\ progress' = Counted(before \cup {w}, pos.hill)
                 /\ UNCHANGED <<status, enabled, players, spawn, frozen, board, scored>>
  BY DEF TickWin
<1>1. PICK w \in Winners(pos.hill), before \in SUBSET (players \ Winners(pos.hill)) :
         /\ bags' = 1 - bags
         /\ respawning' = Respawned(RespawnsTicked, pos.outside \cap before)
         /\ \/ WinEnds
            \/ /\ progress' = Counted(before \cup {w}, pos.hill)
               /\ UNCHANGED <<status, enabled, players, spawn, frozen, board, scored>>
  BY <1>0
<1>2. respawning' \in [Player -> 0..RespawnTime]
  BY <1>1, RespawnsTickedType, RespawnedType DEF IInv
<1>3. bags' \in 0..1
  BY <1>1 DEF IInv, TypeOK
<1>4. w \in players
  BY <1>1 DEF Winners, Positions
<1>5. CASE WinEnds
  <2>1. EndGame /\ enabled' \in BOOLEAN
    BY <1>5 DEF WinEnds
  <2>2. TypeOK'
    BY <1>2, <1>3, <2>1, Ending DEF IInv, TypeOK, TickWin
  <2>3. QED
    BY <2>1, <2>2, Ending DEF IInv
<1>6. CASE /\ progress' = Counted(before \cup {w}, pos.hill)
           /\ UNCHANGED <<status, enabled, players, spawn, frozen, board, scored>>
  <2>1. progress' \in [Player -> 0..MaxProgress \cup {Unset}]
    BY <1>6, CountedType DEF IInv
  <2>2. TypeOK'
    BY <1>2, <1>3, <1>6, <2>1 DEF IInv, TypeOK, TickWin
  <2>3. \A p \in Player : progress'[p] # Unset => p \in players
    BY <1>1, <1>4, <1>6 DEF IInv, Waiting, ProgressOnlyInGame, Counted
  <2>4. Waiting'
    BY <1>6, <2>3 DEF IInv, Waiting, SpawnsDistinct, FrozenWhileWaiting,
                      ProgressOnlyInGame, TickWin
  <2>5. QED
    BY <2>2, <2>4 DEF IInv
<1>7. QED
  BY <1>1, <1>5, <1>6

\* A command changes the switch, for operators, and the player's form.
LEMMA KothCommandStep == ASSUME IInv, NEW p \in Player, KothCommand(p) PROVE IInv'
<1>1. Members(faction[p]) \in SUBSET Player
  BY DEF Members
<1>2. RosterOffered(p, enabled') => faction[p] \in Faction
  BY DEF RosterOffered, IsLeader, InFaction, IInv, TypeOK
<1>3. RosterOffered(p, enabled') => Roster(p) \in Form
  BY <1>1, <1>2 DEF Roster, Form
<1>4. JoinForm \in Form
  BY DEF JoinForm, Form
<1>5. form' \in [Player -> Form]
  BY <1>3, <1>4 DEF KothCommand, IInv, TypeOK
<1>6. enabled' \in BOOLEAN
  BY DEF KothCommand, IInv, TypeOK
<1>7. TypeOK'
  BY <1>5, <1>6 DEF KothCommand, IInv, TypeOK
<1>8. QED
  BY <1>7, WaitingKept DEF KothCommand, IInv

\* An answered or closed form is no form any more.
LEMMA FormGone ==
    ASSUME IInv, NEW p \in Player, form' = [form EXCEPT ![p] = NoForm]
    PROVE  form' \in [Player -> Form]
<1>1. NoForm \in Form
  BY DEF Form, NoForm
<1>2. QED
  BY <1>1 DEF IInv, TypeOK

\* A player who joins gets a spawn nobody has, and stands still.
LEMMA AnswerJoinStep == ASSUME IInv, NEW p \in Player, AnswerJoin(p) PROVE IInv'
<1>1. SpawnChoice \subseteq FreeSpawns
  BY DEF SpawnChoice
<1>2. PICK s \in FreeSpawns : spawn' = [spawn EXCEPT ![p] = s]
  BY <1>1 DEF AnswerJoin, AddPlayer
<1>3. s \in Spawns /\ \A q \in players : spawn[q] # s
  BY DEF FreeSpawns
<1>4. s # NoSpawn
  BY <1>3, NumberAssumption DEF Spawns
<1>5. respawning' \in [Player -> 0..RespawnTime]
  BY RespawnedType DEF IInv, TypeOK, AnswerJoin, AddPlayer
<1>6. form' \in [Player -> Form]
  BY FormGone DEF AnswerJoin
<1>7. TypeOK'
  BY <1>2, <1>3, <1>5, <1>6 DEF IInv, TypeOK, AnswerJoin, AddPlayer
<1>8. SpawnsDistinct'
  BY <1>2, <1>3, <1>4 DEF IInv, TypeOK, Waiting, SpawnsDistinct, AnswerJoin, AddPlayer
<1>9. FrozenWhileWaiting' /\ ProgressOnlyInGame'
  BY DEF IInv, Waiting, FrozenWhileWaiting, ProgressOnlyInGame, AnswerJoin, AddPlayer
<1>10. QED
  BY <1>7, <1>8, <1>9 DEF IInv, Waiting

\* The other answers.
LEMMA AnswerStep ==
    ASSUME IInv, NEW p \in Player,
           AnswerJoinFull(p) \/ AnswerLeave(p) \/ AnswerRoster(p) \/ CloseForm(p)
    PROVE  IInv'
<1>1. form' \in [Player -> Form]
  BY FormGone DEF AnswerJoinFull, AnswerLeave, AnswerRoster, CloseForm
<1>2. CASE AnswerJoinFull(p) \/ CloseForm(p)
  <2>1. TypeOK'
    BY <1>1, <1>2 DEF IInv, TypeOK, AnswerJoinFull, CloseForm, gameVars
  <2>2. QED
    BY <1>2, <2>1, WaitingKept DEF IInv, AnswerJoinFull, CloseForm, gameVars
<1>3. CASE AnswerLeave(p)
  <2>1. CASE RemovePlayers({p})
    <3>1. TypeOK'
      BY <1>1, <1>3, <2>1, Removal DEF IInv, TypeOK, AnswerLeave
    <3>2. QED
      BY <1>3, <2>1, <3>1, Leaving DEF IInv, AnswerLeave
  <2>2. CASE UNCHANGED <<players, spawn, progress, frozen>>
    <3>1. TypeOK'
      BY <1>1, <1>3, <2>2 DEF IInv, TypeOK, AnswerLeave
    <3>2. QED
      BY <1>3, <2>2, <3>1, WaitingKept DEF IInv, AnswerLeave
  <2>3. QED
    BY <1>3, <2>1, <2>2 DEF AnswerLeave
<1>4. CASE AnswerRoster(p)
  <2>1. form[p] \in Form /\ form[p].kind = "roster"
    BY <1>4 DEF AnswerRoster, IInv, TypeOK
  <2>2. form[p] \in [kind: {"roster"}, faction: Faction, members: SUBSET Player]
    BY <2>1 DEF Form
  <2>3. PICK chosen \in SUBSET (form[p].members \ {p}) :
           added' = [added EXCEPT ![form[p].faction] =
                       chosen \cup (@ \cap form[p].members \cap {p})]
    BY <1>4 DEF AnswerRoster
  <2>4. added' \in [Faction -> SUBSET Player]
    BY <2>2, <2>3 DEF IInv, TypeOK
  <2>5. TypeOK'
    BY <1>1, <1>4, <2>4 DEF IInv, TypeOK, AnswerRoster, gameVars
  <2>6. QED
    BY <1>4, <2>5, WaitingKept DEF IInv, AnswerRoster, gameVars
<1>5. QED
  BY <1>2, <1>3, <1>4

\* A blow that kills robs, stops in a notice, or takes players out of the game.
LEMMA KillStep ==
    ASSUME IInv, NEW d \in Player, NEW v \in Player,
           KillStray(d, v) \/ KillRobs(d, v) \/ KillThrows(d, v) \/ KillEliminates(d, v)
    PROVE  IInv'
<1>1. CASE KillStray(d, v)
  <2>1. PICK S \in SUBSET Player : RemovePlayers(S)
    BY <1>1 DEF KillStray
  <2>2. TypeOK'
    BY <1>1, <2>1, Removal DEF IInv, TypeOK, KillStray
  <2>3. QED
    BY <1>1, <2>1, <2>2, Leaving DEF IInv, KillStray
<1>2. CASE KillRobs(d, v)
  <2>1. respawning' \in [Player -> 0..RespawnTime]
    BY <1>2, RespawnedType DEF IInv, TypeOK, KillRobs
  <2>2. TypeOK'
    BY <1>2, <2>1 DEF IInv, TypeOK, KillRobs
  <2>3. QED
    BY <1>2, <2>2, WaitingKept DEF IInv, KillRobs
<1>3. CASE KillThrows(d, v)
  <2>1. {faction[d], faction[v]} \subseteq Faction
    BY <1>3 DEF KillThrows, InFaction, IInv, TypeOK
  <2>2. scored' \subseteq board' /\ board' \subseteq Faction
    BY <1>3, <2>1 DEF KillThrows, IInv, TypeOK
  <2>3. TypeOK'
    BY <1>3, <2>2 DEF IInv, TypeOK, KillThrows
  <2>4. QED
    BY <1>3, <2>3, WaitingKept DEF IInv, KillThrows
<1>4. CASE KillEliminates(d, v)
  <2>1. PICK S \in SUBSET Player : RemovePlayers(S)
    BY <1>4 DEF KillEliminates, IInv, TypeOK
  <2>2. TypeOK'
    BY <1>4, <2>1, Removal DEF IInv, TypeOK, KillEliminates
  <2>3. QED
    BY <1>4, <2>1, <2>2, Leaving DEF IInv, KillEliminates
<1>5. QED
  BY <1>1, <1>2, <1>3, <1>4

\* A disconnected player leaves the game.
LEMMA QuitStep == ASSUME IInv, NEW p \in Player, Quit(p) PROVE IInv'
<1>1. form' \in [Player -> Form]
  BY FormGone DEF Quit
<1>2. {p} \cap players \in SUBSET Player /\ RemovePlayers({p} \cap players)
  BY DEF Quit
<1>3. TypeOK'
  BY <1>1, <1>2, Removal DEF IInv, TypeOK, Quit
<1>4. QED
  BY <1>2, <1>3, Leaving DEF IInv, Quit

\* What factions do outside the arena changes no game.
LEMMA FactionStep ==
    ASSUME IInv, NEW f \in Faction, NEW p \in Player,
           LeaveFaction(p) \/ Disband(f) \/ AcceptInvitation(p, f)
    PROVE  IInv'
<1>1. faction' \in [Player -> Faction \cup {NoFaction}]
  BY DEF IInv, TypeOK, LeaveFaction, Disband, AcceptInvitation
<1>2. TypeOK'
  BY <1>1 DEF IInv, TypeOK, LeaveFaction, Disband, AcceptInvitation, gameVars
<1>3. QED
  BY <1>2, WaitingKept DEF IInv, LeaveFaction, Disband, AcceptInvitation, gameVars

-----------------------------------------------------------------------------
(* The theorems. *)

\* Every step preserves the inductive invariant.
LEMMA NextIInv == IInv /\ [Next]_vars => IInv'
<1> SUFFICES ASSUME IInv, [Next]_vars PROVE IInv'
  OBVIOUS
<1>1. CASE Tick
  BY <1>1, WaitingTickStep, TickStartStep, TickNoWinnerStep, TickCaptureStep, TickWinStep
     DEF Tick
<1>2. CASE \E p \in Player : \/ KothCommand(p) \/ AnswerJoin(p) \/ AnswerJoinFull(p)
                             \/ AnswerLeave(p) \/ AnswerRoster(p) \/ CloseForm(p)
                             \/ Quit(p)
  BY <1>2, KothCommandStep, AnswerJoinStep, AnswerStep, QuitStep
<1>3. CASE \E d, v \in Player : \/ KillStray(d, v) \/ KillRobs(d, v)
                                \/ KillThrows(d, v) \/ KillEliminates(d, v)
  BY <1>3, KillStep
<1>4. CASE \E f \in Faction : Disband(f) \/ \E p \in Player : AcceptInvitation(p, f)
  <2>1. PICK f \in Faction : Disband(f) \/ \E p \in Player : AcceptInvitation(p, f)
    BY <1>4
  <2>2. CASE Disband(f)
    <3>1. Leader[f] \in Player
      BY FactionAssumption
    <3>2. QED
      BY <2>2, <3>1, FactionStep
  <2>3. CASE \E p \in Player : AcceptInvitation(p, f)
    BY <2>3, FactionStep
  <2>4. QED
    BY <2>1, <2>2, <2>3
<1>5. CASE \E p \in Player : LeaveFaction(p)
  <2>1. PICK p \in Player : LeaveFaction(p)
    BY <1>5
  <2>2. faction[p] \in Faction
    BY <2>1 DEF LeaveFaction, InFaction, IInv, TypeOK
  <2>3. QED
    BY <2>1, <2>2, FactionStep
<1>6. CASE UNCHANGED vars
  BY <1>6 DEF vars, IInv, TypeOK, Waiting, SpawnsDistinct, FrozenWhileWaiting,
              ProgressOnlyInGame
<1>7. QED
  BY <1>1, <1>2, <1>3, <1>4, <1>5, <1>6 DEF Next

\* The inductive invariant holds throughout.
THEOREM KothInductive == Spec => []IInv
<1>1. Init => IInv
  BY InitIInv
<1>2. IInv /\ [Next]_vars => IInv'
  BY NextIInv
<1>3. QED
  BY <1>1, <1>2, PTL DEF Spec

\* Every variable keeps its type: respawn times and progress stay in range.
THEOREM KothTypeCorrect == Spec => []TypeOK
<1>1. IInv => TypeOK
  BY DEF IInv
<1>2. QED
  BY <1>1, KothInductive, PTL

\* No two players of a game share a spawn, and nobody else keeps one.
THEOREM OwnSpawn == Spec => []SpawnsDistinct
<1>1. IInv => SpawnsDistinct
  BY DEF IInv, Waiting
<1>2. QED
  BY <1>1, KothInductive, PTL

\* Exactly those who wait for a game are immobile; nobody is outside of it.
THEOREM NobodyLeftFrozen == Spec => []FrozenWhileWaiting
<1>1. IInv => FrozenWhileWaiting
  BY DEF IInv, Waiting
<1>2. QED
  BY <1>1, KothInductive, PTL

\* Progress is never carried out of a game or into the next one.
THEOREM NoOldProgress == Spec => []ProgressOnlyInGame
<1>1. IInv => ProgressOnlyInGame
  BY DEF IInv, Waiting
<1>2. QED
  BY <1>1, KothInductive, PTL

\* A lootbag ends and closes the game that gave it, unless its results cannot be
\* shown: no other handler hands one out.
THEOREM LootbagIsLast == Spec => WinEndsGame
<1> DEFINE Ended == \/ status' = "inactive" /\ ~enabled' /\ players' = {}
                    \/ Unsound
           Once  == bags' # bags => Ended
<1>1. ASSUME TickWin PROVE Ended
  <2>1. WinEnds \/ Unsound
    BY <1>1 DEF TickWin
  <2>2. CASE WinEnds
    <3>1. ~enabled' /\ status' = "inactive" /\ RemovePlayers(players)
      BY <2>2, Zenon DEF WinEnds, EndGame
    <3>2. players' = {}
      BY <3>1 DEF RemovePlayers
    <3>3. QED
      BY <3>1, <3>2
  <2>3. QED
    BY <2>1, <2>2
<1>2. ASSUME [Next]_vars PROVE Once
  <2>1. CASE Tick
    <3>1. TickWin \/ bags' = bags
      BY <2>1 DEF Tick, TickInactive, TickCountdown, TickStart, TickNoWinner, TickCapture
    <3>2. QED
      BY <3>1, <1>1
  <2>2. ASSUME NEW p \in Player,
               \/ KothCommand(p) \/ AnswerJoin(p) \/ AnswerJoinFull(p) \/ AnswerLeave(p)
               \/ AnswerRoster(p) \/ CloseForm(p) \/ Quit(p) \/ LeaveFaction(p)
        PROVE  bags' = bags
    BY <2>2 DEF KothCommand, AnswerJoin, AnswerJoinFull, AnswerLeave, AnswerRoster,
                CloseForm, Quit, LeaveFaction, gameVars
  <2>3. ASSUME NEW d \in Player, NEW v \in Player,
               \/ KillStray(d, v) \/ KillRobs(d, v) \/ KillThrows(d, v)
               \/ KillEliminates(d, v)
        PROVE  bags' = bags
    BY <2>3 DEF KillStray, KillRobs, KillThrows, KillEliminates
  <2>4. ASSUME NEW f \in Faction, Disband(f) \/ \E p \in Player : AcceptInvitation(p, f)
        PROVE  bags' = bags
    BY <2>4 DEF Disband, AcceptInvitation, gameVars
  <2>5. CASE UNCHANGED vars
    BY <2>5 DEF vars
  <2>6. QED
    BY <1>2, <2>1, <2>2, <2>3, <2>4, <2>5 DEF Next
<1>3. QED
  BY <1>2, PTL DEF Spec, WinEndsGame

=============================================================================
