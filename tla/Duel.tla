-------------------------------- MODULE Duel --------------------------------
(***************************************************************************)
(* The duel system of the Core plugin: the waiting queues, the challenge    *)
(* requests, the forms a player answers later, the arenas, the listener     *)
(* that awards duels, the store that keeps a kit player's own inventory,    *)
(* and DuelTask, which moves queued players to free arenas and ticks every  *)
(* arena.  The server is single-threaded: a handler runs to its end, so     *)
(* what interleaves is handlers.  DuelTask::onRun is one handler written as *)
(* a chain of steps (`step'); while it runs nothing else is enabled.        *)
(***************************************************************************)
EXTENDS Integers, FiniteSets, SequencesExt

CONSTANTS
    Players,         \* player names
    Nobody,          \* not a player: an empty array slot
    Kit,             \* the items a kit duel hands out
    NumTypes,        \* duel types are 1..NumTypes, in the order of duelQueue
    NumArenas,       \* arenas are 1..NumArenas, in the order of duelArenas
    KitTypes,        \* VANILLA, CUSTOM, SPLEEF, TNTRUN: kit, inventory returned
    FloorTypes,      \* SPLEEF, TNTRUN: decided by the floor, not by a hit
    FriendlyTypes,   \* FRIENDLY: the loser keeps the items
    ArenaTypes,      \* the duel types each arena allows
    CountdownTicks,  \* DuelArena::$countdown, 10 in the code
    DuelTime,        \* DuelArena::DUEL_TIME, 241 seconds in the code
    MenuUsers,       \* the players who open the /duel menu,
    Challengers,     \* who challenge by name, and
    Rematchers       \* who answer the result form rather than close it at once

Types  == 1..NumTypes
Arenas == 1..NumArenas
Sides  == {0, 1}

ASSUME NobodyAssumption == Nobody \notin Players
ASSUME KitAssumption    == Kit \notin Players
ASSUME CountsAssumption == NumTypes \in Nat \ {0} /\ NumArenas \in Nat \ {0}
ASSUME TypesAssumption  == /\ KitTypes \subseteq Types
                           /\ FloorTypes \subseteq KitTypes
                           /\ FriendlyTypes \subseteq Types \ KitTypes
                           /\ ArenaTypes \in [Arenas -> SUBSET Types]
ASSUME RolesAssumption  == MenuUsers \cup Challengers \cup Rematchers \subseteq Players
ASSUME TimesAssumption  == CountdownTicks \in Nat \ {0} /\ DuelTime \in Nat \ {0}

VARIABLES
    online,      \* names with a connected Player object
    queue,       \* Main::$duelQueue: per type, the names in arrival order
    request,     \* Main::$duelRequests: the last challenge each name issued
    form,        \* the duel form a player has open
    result,      \* the result form (DuelNotifyResultTask) a player has open
    status,      \* DuelArena::$gameStatus
    playing,     \* DuelArena::$playing: the Player object at index 0 and 1
    spectating,  \* DuelArena::$spectating
    duelType,    \* DuelArena::$duelType
    countdown,   \* DuelArena::$countdown
    elapsed,     \* seconds since DuelArena::$startTime, NotStarted when null
    holding,     \* what each player carries: {p} is p's own belongings
    saved,       \* RestorableInventoryManager::$inventories
    frozen,      \* players whose object is immobile
    holed,       \* arenas whose floor has blocks missing
    wins,        \* wins registered for the duel now in the arena
    step         \* what DuelTask::onRun does next: a queue, then an arena

queueVars == <<queue, request>>
formVars  == <<form, result>>
arenaVars == <<status, playing, spectating, duelType, countdown, elapsed>>
itemVars  == <<holding, saved>>
vars == <<online, queue, request, form, result, status, playing, spectating,
          duelType, countdown, elapsed, holding, saved, frozen, holed, wins, step>>

Status == {"INACTIVE", "COUNTDOWN", "ACTIVE"}
NotStarted == -1

\* A Player object, told apart from a later object of the same name by
\* whether its connection is still open.
PlayerObject == [name: Players, live: BOOLEAN]
EmptySlot == [name |-> Nobody, live |-> FALSE]
Live(p) == [name |-> p, live |-> TRUE]

NoRequest == [to |-> Nobody, type |-> 0]
Request == [to: Players, type: Types] \cup {NoRequest}

\* The forms of DuelCommand and DuelNotifyResultTask; a form remembers what
\* its closure captured when it was built.
NoForm   == [kind |-> "none"]
Form == [kind: {"none", "leave", "unspectate"}]
            \cup [kind: {"select"}, spectate: BOOLEAN]
            \cup [kind: {"spectate"}, arenas: SUBSET Arenas]
            \cup [kind: {"join"}, type: Types]
NoResult == [opponent |-> Nobody, type |-> 0, lost |-> FALSE]
Result == [opponent: Players, type: Types, lost: BOOLEAN] \cup {NoResult}

Items == Players \cup {Kit}
NotSaved == [kept |-> FALSE, items |-> {}]
Saved == [kept: BOOLEAN, items: SUBSET Items]

TypeOK ==
    /\ online \subseteq Players
    /\ queue \in [Types -> Seq(Players)]
    /\ request \in [Players -> Request]
    /\ form \in [Players -> Form]
    /\ result \in [Players -> Result]
    /\ status \in [Arenas -> Status]
    /\ playing \in [Arenas -> [Sides -> PlayerObject \cup {EmptySlot}]]
    /\ spectating \in [Arenas -> SUBSET PlayerObject]
    /\ duelType \in [Arenas -> Types \cup {NotStarted}]
    /\ countdown \in [Arenas -> 1..CountdownTicks \cup {DuelTime}]
    /\ elapsed \in [Arenas -> {NotStarted} \cup 0..DuelTime]
    /\ holding \in [Players -> SUBSET Items]
    /\ saved \in [Players -> Saved]
    /\ frozen \subseteq Players
    /\ holed \subseteq Arenas
    /\ wins \in [Arenas -> Nat]
    /\ step \in 1..(NumTypes + NumArenas)

Init ==
    /\ online = {}
    /\ queue = [t \in Types |-> <<>>]
    /\ request = [p \in Players |-> NoRequest]
    /\ form = [p \in Players |-> NoForm]
    /\ result = [p \in Players |-> NoResult]
    /\ status = [a \in Arenas |-> "INACTIVE"]
    /\ playing = [a \in Arenas |-> [i \in Sides |-> EmptySlot]]
    /\ spectating = [a \in Arenas |-> {}]
    /\ duelType = [a \in Arenas |-> NotStarted]
    /\ countdown = [a \in Arenas |-> CountdownTicks]
    /\ elapsed = [a \in Arenas |-> NotStarted]
    /\ holding = [p \in Players |-> {p}]
    /\ saved = [p \in Players |-> NotSaved]
    /\ frozen = {}
    /\ holed = {}
    /\ wins = [a \in Arenas |-> 0]
    /\ step = 1

-----------------------------------------------------------------------------
(* What the handlers look up. *)

\* isPlaying and isSpectating compare names, not objects.
IsPlaying(a, p)    == \E i \in Sides : playing[a][i].name = p
IsSpectating(a, p) == \E s \in spectating[a] : s.name = p

DuelsOf(p)     == {a \in Arenas : IsPlaying(a, p)}
SpectatedBy(p) == {a \in Arenas : IsSpectating(a, p)}
PlayerDuel(p)  == Min(DuelsOf(p))          \* getPlayerDuel, when not null
InDuel(p)      == DuelsOf(p) # {}

BothSlots(a)  == \A i \in Sides : playing[a][i] # EmptySlot
NoSlots(a)    == \A i \in Sides : playing[a][i] = EmptySlot
BothOnline(a) == \A i \in Sides : playing[a][i].live
HasKit(a)     == duelType[a] \in KitTypes     \* isKitPvp
HasFloor(a)   == duelType[a] \in FloorTypes
AtStake(a)    == duelType[a] \notin KitTypes \cup FriendlyTypes

FreeArenas(t) == {a \in Arenas : /\ status[a] = "INACTIVE"
                                 /\ t \in ArenaTypes[a]
                                 /\ NoSlots(a)}

PositionsOf(p, t) == {i \in DOMAIN queue[t] : queue[t][i] = p}
InQueue(p) == \E t \in Types : PositionsOf(p, t) # {}

\* Variant: the unset hits the copy the foreach iterates, not the property.
QuitQueueOnCopy(p) == queue

\* quitQueue leaves the first queue that holds the name, at its first position.
QuitQueue(p) ==
    LET t == Min({u \in Types : PositionsOf(p, u) # {}})
    IN  IF InQueue(p)
        THEN [queue EXCEPT ![t] = RemoveAt(@, Min(PositionsOf(p, t)))]
        ELSE queue

(* What the arena methods do to the inventories. *)

\* Variant: the entry is kept for an object that has no inventory any more.
ReturnedIfOpen(kit, objs) ==
    /\ holding' = [p \in Players |->
                     IF kit /\ saved[p].kept /\ Live(p) \in objs
                     THEN saved[p].items ELSE holding[p]]
    /\ saved' = [p \in Players |->
                   IF kit /\ Live(p) \in objs THEN NotSaved ELSE saved[p]]

\* Variant: the entry is not unset.
ReturnedOften(kit, objs) ==
    /\ holding' = [p \in Players |->
                     IF kit /\ saved[p].kept /\ Live(p) \in objs
                     THEN saved[p].items ELSE holding[p]]
    /\ UNCHANGED saved

\* returnInventory for each object in objs leaving a kit duel: the entry goes,
\* and its items reach the player only through an object that has an inventory.
Returned(kit, objs) ==
    /\ holding' = [p \in Players |->
                     IF kit /\ saved[p].kept /\ Live(p) \in objs
                     THEN saved[p].items ELSE holding[p]]
    /\ saved' = [p \in Players |->
                   IF kit /\ \E o \in objs : o.name = p
                   THEN NotSaved ELSE saved[p]]

ObjectsIn(a) == {playing[a][i] : i \in Sides}
LiveNames(objs) == {p \in Players : Live(p) \in objs}

\* Variants of the three effects below: each forgets its statement.
StillFrozen(objs)  == frozen
StillHoled(a)      == holed
StillRunning(a)    == UNCHANGED status

Unfrozen(objs) == frozen \ LiveNames(objs)                  \* setImmobile(false)
Refilled(a)    == IF HasFloor(a) THEN holed \ {a} ELSE holed \* fillBrokenBlocks
Ended(a)       == status' = [status EXCEPT ![a] = "INACTIVE"]

Vacant == [i \in Sides |-> EmptySlot]

\* Variant: addPlayer does not look whether the player is in already.
StartDuelTwice(a, t, p, q) ==
    /\ playing' = [playing EXCEPT ![a] = [i \in Sides |-> IF i = 0 THEN Live(p) ELSE Live(q)]]
    /\ spectating' = [spectating EXCEPT ![a] = {}]
    /\ duelType' = [duelType EXCEPT ![a] = t]
    /\ countdown' = [countdown EXCEPT ![a] = CountdownTicks]
    /\ elapsed' = [elapsed EXCEPT ![a] = NotStarted]
    /\ frozen' = frozen \cup {p, q}
    /\ wins' = [wins EXCEPT ![a] = 0]
    /\ UNCHANGED status

\* DuelArena::startDuel for an arena the caller got from findFreeArena.  A
\* second addPlayer of the same name is refused.
StartDuel(a, t, p, q) ==
    /\ playing' = [playing EXCEPT
           ![a] = [i \in Sides |-> IF i = 0 THEN Live(p)
                                   ELSE IF q = p THEN EmptySlot ELSE Live(q)]]
    /\ spectating' = [spectating EXCEPT ![a] = {}]
    /\ duelType' = [duelType EXCEPT ![a] = t]
    /\ countdown' = [countdown EXCEPT ![a] = CountdownTicks]
    /\ elapsed' = [elapsed EXCEPT ![a] = NotStarted]
    /\ frozen' = frozen \cup {p, q}
    /\ wins' = [wins EXCEPT ![a] = 0]
    /\ UNCHANGED status

-----------------------------------------------------------------------------
(* DuelTask::onRun, every 20 ticks. *)

\* Between two runs of the task, when the other handlers get their turn.
Idle == step = 1

\* Variant: one player too many is waited for.
CanMatchThree(t) == Len(queue[t]) > 2 /\ FreeArenas(t) # {}
CanMatch(t)      == Len(queue[t]) >= 2 /\ FreeArenas(t) # {}

\* The body of the queue loop for type t: names no longer online are dropped
\* one by one, then the two that waited longest start in a free arena.
MatchQueue(t) ==
    LET gone == {i \in DOMAIN queue[t] : queue[t][i] \notin online} IN
    /\ step = t
    /\ IF gone # {}
       THEN /\ queue' = [queue EXCEPT ![t] = RemoveAt(@, Min(gone))]
            /\ UNCHANGED <<arenaVars, frozen, wins, step>>
       ELSE /\ IF CanMatch(t)
               THEN /\ \E a \in FreeArenas(t) :
                           StartDuel(a, t, queue[t][1], queue[t][2])
                    /\ queue' = [queue EXCEPT ![t] = SubSeq(@, 3, Len(@))]
               ELSE UNCHANGED <<queue, arenaVars, frozen, wins>>
            /\ step' = step + 1
    /\ UNCHANGED <<online, request, formVars, itemVars, holed>>

\* Variant: the loop over the arenas returns after its first pass.
FirstArenaOnly == step' = 1
AtArena(a) == step = NumTypes + a
NextArena  == step' = IF step = NumTypes + NumArenas THEN 1 ELSE step + 1

\* Variant: a duel that ended with both players online does not count as finished.
ToClearOffline(a) == /\ BothSlots(a)
                     /\ elapsed[a] # NotStarted
                     /\ ~BothOnline(a)

\* The finished duel that checkAllPlayers clears: it was started, and it is
\* over or one side went offline.
ToClear(a) == /\ BothSlots(a)
              /\ elapsed[a] # NotStarted
              /\ status[a] = "INACTIVE" \/ ~BothOnline(a)

\* checkAllPlayers dereferences the level of a closed player: the players in
\* the countdown, and a spectator unless a player has the same array key (keys
\* are not modelled, so either may happen).  The exception ends this onRun.
Throws(a)   == /\ status[a] # "INACTIVE"
               /\ BothSlots(a)
               /\ ~ToClear(a)
               /\ ~BothOnline(a)
MayThrow(a) == /\ status[a] # "INACTIVE"
               /\ BothSlots(a)
               /\ ~ToClear(a)
               /\ \E s \in spectating[a] : ~s.live

TickThrows(a) ==
    /\ AtArena(a)
    /\ Throws(a) \/ MayThrow(a)
    /\ step' = 1
    /\ UNCHANGED <<online, queueVars, formVars, arenaVars, itemVars, frozen, holed, wins>>

\* Nothing to do in an empty arena, nor in one whose second player never came.
TickWaiting(a) ==
    /\ AtArena(a)
    /\ ~ToClear(a)
    /\ \/ ~BothSlots(a)
       \/ status[a] = "INACTIVE" /\ ~BothOnline(a)
    /\ Ended(a)
    /\ NextArena
    /\ UNCHANGED <<online, queueVars, formVars, playing, spectating, duelType,
                   countdown, elapsed, itemVars, frozen, holed, wins>>

\* The finished duel is cleared: players and spectators leave, inventories are
\* returned and the floor is filled.
TickClear(a) ==
    /\ AtArena(a)
    /\ ToClear(a)
    /\ Returned(HasKit(a), ObjectsIn(a))
    /\ playing' = [playing EXCEPT ![a] = Vacant]
    /\ spectating' = [spectating EXCEPT ![a] = {}]
    /\ Ended(a)
    /\ frozen' = Unfrozen(ObjectsIn(a))
    /\ holed' = Refilled(a)
    /\ NextArena
    /\ UNCHANGED <<online, queueVars, formVars, duelType, countdown, elapsed, wins>>

\* Two online players in a fresh arena: the countdown begins, and a kit duel
\* puts their inventories aside.
TickBegin(a) ==
    /\ AtArena(a)
    /\ status[a] = "INACTIVE"
    /\ BothSlots(a) /\ BothOnline(a)
    /\ ~ToClear(a)
    /\ status' = [status EXCEPT ![a] = "COUNTDOWN"]
    /\ IF HasKit(a)
       THEN /\ saved' = [p \in Players |->
                          IF IsPlaying(a, p) /\ ~saved[p].kept
                          THEN [kept |-> TRUE, items |-> holding[p]]
                          ELSE saved[p]]
            /\ holding' = [p \in Players |->
                            IF IsPlaying(a, p) THEN {Kit} ELSE holding[p]]
       ELSE UNCHANGED itemVars
    /\ frozen' = frozen \cup LiveNames(ObjectsIn(a))
    /\ NextArena
    /\ UNCHANGED <<online, queueVars, formVars, playing, spectating, duelType,
                   countdown, elapsed, holed, wins>>

\* Variant: the old value is compared, as with a post-decrement.
PostDecremented(a) == countdown[a] = 0
CountdownOver(a)   == countdown[a] - 1 = 0

TickCountdown(a) ==
    /\ AtArena(a)
    /\ status[a] = "COUNTDOWN"
    /\ BothSlots(a) /\ BothOnline(a)
    /\ IF CountdownOver(a)
       THEN /\ status' = [status EXCEPT ![a] = "ACTIVE"]
            /\ elapsed' = [elapsed EXCEPT ![a] = 0]
            /\ frozen' = Unfrozen(ObjectsIn(a))
       ELSE UNCHANGED <<status, elapsed, frozen>>
    /\ countdown' = [countdown EXCEPT ![a] = IF CountdownOver(a) THEN DuelTime ELSE @ - 1]
    /\ NextArena
    /\ UNCHANGED <<online, queueVars, formVars, playing, spectating, duelType,
                   itemVars, holed, wins>>

\* Variant: a running duel has no time limit.
NeverTimedOut(a) == FALSE
TimedOut(a)      == elapsed[a] >= DuelTime

\* A running duel; past DuelTime it ends without a winner.
TickActive(a) ==
    /\ AtArena(a)
    /\ status[a] = "ACTIVE"
    /\ BothSlots(a) /\ BothOnline(a)
    /\ status' = [status EXCEPT ![a] = IF TimedOut(a) THEN "INACTIVE" ELSE @]
    /\ NextArena
    /\ UNCHANGED <<online, queueVars, formVars, playing, spectating, duelType,
                   countdown, elapsed, itemVars, frozen, holed, wins>>

TickArena(a) == \/ TickThrows(a)  \/ TickWaiting(a)   \/ TickClear(a)
                \/ TickBegin(a)   \/ TickCountdown(a) \/ TickActive(a)

\* The wall clock; only a running duel reads it, and only against DuelTime.
Second(a) ==
    /\ status[a] = "ACTIVE"
    /\ elapsed[a] < DuelTime
    /\ elapsed' = [elapsed EXCEPT ![a] = @ + 1]
    /\ UNCHANGED <<online, queueVars, formVars, status, playing, spectating, duelType,
                   countdown, itemVars, frozen, holed, wins, step>>

-----------------------------------------------------------------------------
(* /duel and its forms. *)

\* DuelCommand shows its form: what it offers depends on where the player is.
\* The spectate button needs two players in duels of one type.
MenuFor(p) ==
    IF InQueue(p) THEN [kind |-> "leave"]
    ELSE IF SpectatedBy(p) # {} THEN [kind |-> "unspectate"]
    ELSE [kind |-> "select",
          spectate |-> \E t \in Types :
              Cardinality({q \in online : InDuel(q) /\ duelType[PlayerDuel(q)] = t}) >= 2]

\* A typed command, or the "go back" button, which types it for the player; both
\* pass onPlayerCommandPreprocess, which cancels them inside a duel.
OpenMenu(p) ==
    /\ Idle
    /\ p \in online \cap MenuUsers /\ ~InDuel(p)
    /\ form[p].kind \in {"none", "join"}
    /\ form' = [form EXCEPT ![p] = MenuFor(p)]
    /\ UNCHANGED <<online, queueVars, result, arenaVars, itemVars, frozen, holed, wins, step>>

\* A choice in the result form dispatches the command directly: no preprocess
\* event, so the player may be in a duel by then.
ResultOpensMenu(p) ==
    /\ Idle
    /\ result[p] # NoResult
    /\ form[p] = NoForm
    /\ result' = [result EXCEPT ![p] = NoResult]
    /\ form' = [form EXCEPT ![p] = MenuFor(p)]
    /\ UNCHANGED <<online, queueVars, arenaVars, itemVars, frozen, holed, wins, step>>

\* /duel <q> <t>: accepts q's challenge when q issued one to p, whatever t and
\* whatever p and q are doing now; issues a challenge to q otherwise.
AcceptOrChallenge(p, q, t) ==
    /\ q \in online
    /\ IF request[q].to = p
       THEN /\ request' = [request EXCEPT ![q] = NoRequest]
            /\ IF FreeArenas(request[q].type) # {}
               THEN \E a \in FreeArenas(request[q].type) :
                        StartDuel(a, request[q].type, p, q)
               ELSE UNCHANGED <<arenaVars, frozen, wins>>
       ELSE /\ request' = [request EXCEPT ![p] = [to |-> q, type |-> t]]
            /\ UNCHANGED <<arenaVars, frozen, wins>>
    /\ UNCHANGED <<online, queue, form, itemVars, holed, step>>

DuelCommand(p, q, t) ==
    /\ Idle
    /\ p \in online \cap Challengers /\ ~InDuel(p)
    /\ form[p] = NoForm
    /\ AcceptOrChallenge(p, q, t)
    /\ UNCHANGED result

Rematch(p) ==
    /\ Idle
    /\ result[p].lost
    /\ AcceptOrChallenge(p, result[p].opponent, result[p].type)
    /\ result' = [result EXCEPT ![p] = NoResult]

CloseForm(p) ==
    /\ Idle
    /\ form[p] # NoForm \/ result[p] # NoResult
    /\ form' = [form EXCEPT ![p] = NoForm]
    /\ result' = IF form[p] = NoForm THEN [result EXCEPT ![p] = NoResult] ELSE result
    /\ UNCHANGED <<online, queueVars, arenaVars, itemVars, frozen, holed, wins, step>>

\* The "leave queue" button, the spleef portal (whose joinQueue leaves the queue
\* and whose quitQueue then finds nothing) and /bedwars all come down to this.
LeaveQueue(p) ==
    /\ Idle
    /\ InQueue(p)
    /\ queue' = QuitQueue(p)
    /\ form' = [form EXCEPT ![p] = IF @.kind = "leave" THEN NoForm ELSE @]
    /\ UNCHANGED <<online, request, result, arenaVars, itemVars, frozen, holed, wins, step>>

Unspectate(p) ==
    /\ Idle
    /\ form[p].kind = "unspectate"
    /\ form' = [form EXCEPT ![p] = NoForm]
    /\ spectating' =
           IF SpectatedBy(p) # {}
           THEN [spectating EXCEPT ![Min(SpectatedBy(p))] = {s \in @ : s.name # p}]
           ELSE spectating
    /\ UNCHANGED <<online, queueVars, result, status, playing, duelType, countdown,
                   elapsed, itemVars, frozen, holed, wins, step>>

\* Choices of the select form: the list of running duels, or one duel type.
ChooseSpectate(p) ==
    LET running == {a \in Arenas : status[a] # "INACTIVE"} IN
    /\ Idle
    /\ form[p].kind = "select" /\ form[p].spectate
    /\ form' = [form EXCEPT ![p] = IF running = {} THEN NoForm
                                   ELSE [kind |-> "spectate", arenas |-> running]]
    /\ UNCHANGED <<online, queueVars, result, arenaVars, itemVars, frozen, holed, wins, step>>

ChooseType(p, t) ==
    /\ Idle
    /\ form[p].kind = "select"
    /\ form' = [form EXCEPT ![p] = [kind |-> "join", type |-> t]]
    /\ UNCHANGED <<online, queueVars, result, arenaVars, itemVars, frozen, holed, wins, step>>

\* addSpectator, on an arena that may have been freed or filled meanwhile.
Spectate(p, a) ==
    /\ Idle
    /\ form[p].kind = "spectate" /\ a \in form[p].arenas
    /\ form' = [form EXCEPT ![p] = NoForm]
    /\ spectating' = IF IsPlaying(a, p) \/ IsSpectating(a, p) THEN spectating
                     ELSE [spectating EXCEPT ![a] = @ \cup {Live(p)}]
    /\ UNCHANGED <<online, queueVars, result, status, playing, duelType, countdown,
                   elapsed, itemVars, frozen, holed, wins, step>>

\* "Join" in the type's form: quitQueue, then joinQueue.  Nothing looks at
\* whether the player is in a duel by now.
JoinQueue(p) ==
    /\ Idle
    /\ form[p].kind = "join"
    /\ form' = [form EXCEPT ![p] = NoForm]
    /\ queue' = [QuitQueue(p) EXCEPT ![form[p].type] = Append(@, p)]
    /\ UNCHANGED <<online, request, result, arenaVars, itemVars, frozen, holed, wins, step>>

-----------------------------------------------------------------------------
(* DuelListener. *)

Opponent(a, p) ==
    LET i == CHOOSE j \in Sides : playing[a][j].name = p
    IN  playing[a][1 - i]

\* sendResult: a form for the object that is still connected.
ResultOf(w, l, t) ==
    [p \in Players |-> IF p \notin Rematchers THEN NoResult
                       ELSE IF p = l.name /\ l.live
                         THEN [opponent |-> w.name, type |-> t, lost |-> TRUE]
                       ELSE IF p = w.name /\ w.live
                         THEN [opponent |-> l.name, type |-> t, lost |-> FALSE]
                       ELSE result[p]]

\* swipeInventory: what fits goes over, some of the rest fits back, and what
\* fits nowhere is gone.
Swipe(from, to) ==
    \E moved \in SUBSET holding[from] : \E kept \in SUBSET (holding[from] \ moved) :
        holding' = [holding EXCEPT ![from] = kept, ![to] = @ \cup moved]

\* onEntityDamageByEntity, a lethal hit on v by k; k may be v, hit by an own arrow.
Kill(v, k) ==
    LET a == PlayerDuel(v) IN
    /\ Idle
    /\ v \in online /\ k \in online
    /\ InDuel(v) /\ ~HasFloor(a) /\ IsPlaying(a, k)
    /\ status[a] = "ACTIVE"
    /\ Ended(a)
    /\ result' = ResultOf(Live(k), Live(v), duelType[a])
    /\ wins' = [wins EXCEPT ![a] = @ + 1]
    /\ IF AtStake(a) THEN Swipe(v, k) ELSE UNCHANGED holding
    /\ UNCHANGED <<online, queueVars, form, playing, spectating, duelType, countdown,
                   elapsed, saved, frozen, holed, step>>

\* onEntityDamage, a lethal fall in spleef or TNT run.  With the winner's object
\* closed sendResult throws before the win is registered.
Fall(v) ==
    LET a == PlayerDuel(v)
        w == Opponent(a, v) IN
    /\ Idle
    /\ v \in online
    /\ InDuel(v) /\ HasFloor(a)
    /\ status[a] = "ACTIVE"
    /\ Ended(a)
    /\ holed' = Refilled(a)
    /\ IF w.live
       THEN /\ result' = ResultOf(w, Live(v), duelType[a])
            /\ wins' = [wins EXCEPT ![a] = @ + 1]
       ELSE UNCHANGED <<result, wins>>
    /\ UNCHANGED <<online, queueVars, form, playing, spectating, duelType, countdown,
                   elapsed, itemVars, frozen, step>>

\* Breaking the snow, or running over the TNT, of a running spleef or TNT run.
BreakFloor(p) ==
    LET a == PlayerDuel(p) IN
    /\ Idle
    /\ p \in online
    /\ InDuel(p) /\ HasFloor(a)
    /\ status[a] = "ACTIVE"
    /\ holed' = holed \cup {a}
    /\ UNCHANGED <<online, queueVars, formVars, arenaVars, itemVars, frozen, wins, step>>

Join(p) ==
    /\ Idle
    /\ p \notin online
    /\ online' = online \cup {p}
    /\ UNCHANGED <<queueVars, formVars, arenaVars, itemVars, frozen, holed, wins, step>>

\* After onPlayerQuit the object closes: slots and spectators that hold it keep
\* it, offline.  f' is what the handler made of the arenas.
Closed(o, p) == IF o = Live(p) THEN [o EXCEPT !.live = FALSE] ELSE o
Disconnect(p, slots, watchers) ==
    /\ playing' = [a \in Arenas |-> [i \in Sides |-> Closed(slots[a][i], p)]]
    /\ spectating' = [a \in Arenas |-> {Closed(s, p) : s \in watchers[a]}]
    /\ online' = online \ {p}
    /\ form' = [form EXCEPT ![p] = NoForm]
    /\ UNCHANGED <<request, duelType, countdown, elapsed, step>>

\* onPlayerQuit is an if/elseif chain.  First: a queued player only leaves the
\* queue, even when a duel of theirs is under way.
QuitQueued(p) ==
    /\ Idle
    /\ p \in online /\ InQueue(p)
    /\ queue' = QuitQueue(p)
    /\ result' = [result EXCEPT ![p] = NoResult]
    /\ frozen' = frozen \ {p}
    /\ Disconnect(p, playing, spectating)
    /\ UNCHANGED <<status, itemVars, holed, wins>>

\* A duel in its countdown or running ends with the opponent's win.
QuitDuel(p) ==
    LET a == PlayerDuel(p)
        w == Opponent(a, p)
        left == {Live(p), w} IN
    /\ Idle
    /\ p \in online /\ ~InQueue(p)
    /\ InDuel(p) /\ status[a] # "INACTIVE"
    /\ Ended(a)
    /\ IF AtStake(a)
       THEN /\ IF w.live THEN Swipe(p, w.name)
               ELSE holding' = [holding EXCEPT ![p] = {}]
            /\ UNCHANGED saved
       ELSE Returned(HasKit(a), left)
    /\ holed' = Refilled(a)
    /\ result' = [ResultOf(w, Live(p), duelType[a]) EXCEPT ![p] = NoResult]
    /\ wins' = [wins EXCEPT ![a] = @ + 1]
    /\ frozen' = Unfrozen(left)
    /\ Disconnect(p, [playing EXCEPT ![a] = Vacant], [spectating EXCEPT ![a] = {}])
    /\ UNCHANGED queue

\* A duel that has not begun, or is over and not cleared yet, is left as it is.
QuitInactiveDuel(p) ==
    /\ Idle
    /\ p \in online /\ ~InQueue(p)
    /\ InDuel(p) /\ status[PlayerDuel(p)] = "INACTIVE"
    /\ result' = [result EXCEPT ![p] = NoResult]
    /\ frozen' = frozen \ {p}
    /\ Disconnect(p, playing, spectating)
    /\ UNCHANGED <<queue, status, itemVars, holed, wins>>

QuitOutside(p) ==
    /\ Idle
    /\ p \in online /\ ~InQueue(p) /\ ~InDuel(p)
    /\ result' = [result EXCEPT ![p] = NoResult]
    /\ frozen' = frozen \ {p}
    /\ Disconnect(p, playing,
           IF SpectatedBy(p) # {}
           THEN [spectating EXCEPT ![Min(SpectatedBy(p))] = {s \in @ : s.name # p}]
           ELSE spectating)
    /\ UNCHANGED <<queue, status, itemVars, holed, wins>>

Quit(p) == QuitQueued(p) \/ QuitDuel(p) \/ QuitInactiveDuel(p) \/ QuitOutside(p)

\* Main::onDisable takes every player out of every arena, in order, so the first
\* kit arena that holds a name uses up the saved entry; tickArena then finds
\* empty arenas.  The worlds and the players' data survive, memory does not.
Restart ==
    LET kitDuels(p) == {a \in DuelsOf(p) : HasKit(a)} IN
    /\ Idle
    /\ holding' = [p \in Players |->
           IF /\ saved[p].kept /\ kitDuels(p) # {}
              /\ Live(p) \in ObjectsIn(Min(kitDuels(p)))
           THEN saved[p].items ELSE holding[p]]
    /\ saved' = [p \in Players |-> NotSaved]
    /\ online' = {}
    /\ queue' = [t \in Types |-> <<>>]
    /\ request' = [p \in Players |-> NoRequest]
    /\ form' = [p \in Players |-> NoForm]
    /\ result' = [p \in Players |-> NoResult]
    /\ status' = [a \in Arenas |-> "INACTIVE"]
    /\ playing' = [a \in Arenas |-> Vacant]
    /\ spectating' = [a \in Arenas |-> {}]
    /\ duelType' = [a \in Arenas |-> NotStarted]
    /\ countdown' = [a \in Arenas |-> CountdownTicks]
    /\ elapsed' = [a \in Arenas |-> NotStarted]
    /\ frozen' = {}
    /\ wins' = [a \in Arenas |-> 0]
    /\ UNCHANGED <<holed, step>>

-----------------------------------------------------------------------------
DuelTask == \/ \E t \in Types : MatchQueue(t)
            \/ \E a \in Arenas : TickArena(a)

Command == \E p \in Players :
    \/ OpenMenu(p) \/ ResultOpensMenu(p) \/ Rematch(p) \/ CloseForm(p)
    \/ LeaveQueue(p) \/ Unspectate(p) \/ ChooseSpectate(p) \/ JoinQueue(p)
    \/ \E q \in Players, t \in Types : DuelCommand(p, q, t)
    \/ \E t \in Types : ChooseType(p, t)
    \/ \E a \in Arenas : Spectate(p, a)

Event == \E p \in Players :
    \/ Fall(p) \/ BreakFloor(p) \/ Join(p) \/ Quit(p)
    \/ \E k \in Players : Kill(p, k)

Clock == \E a \in Arenas : Second(a)

Next == DuelTask \/ Command \/ Event \/ Clock

Spec == Init /\ [][Next]_vars

\* The same server, shut down and started again at any moment.
NextWithRestart == Next \/ Restart
SpecWithRestart == Init /\ [][NextWithRestart]_vars

\* The scheduler runs DuelTask every second and time passes; nobody has to play.
Fairness == /\ WF_vars(DuelTask)
            /\ \A a \in Arenas : WF_vars(Second(a))
FairSpec == Spec /\ Fairness

-----------------------------------------------------------------------------
(* Properties. *)

\* A duel that counts down or runs has both array slots set, by two different
\* names: the listeners, the spectate menu and tickArena use playing[0] and
\* playing[1] unchecked whenever gameStatus is not INACTIVE.
OngoingDuelHasTwoSides ==
    \A a \in Arenas : status[a] # "INACTIVE" =>
        /\ BothSlots(a)
        /\ playing[a][0].name # playing[a][1].name

\* A name waits at most once over all queues, and only while online: otherwise
\* DuelTask would start a player against themselves, or call null.
QueuedOnceAndOnline ==
    /\ \A t, u \in Types : \A i \in DOMAIN queue[t], j \in DOMAIN queue[u] :
           queue[t][i] = queue[u][j] => t = u /\ i = j
    /\ \A t \in Types : \A i \in DOMAIN queue[t] : queue[t][i] \in online

\* An inventory is put aside only for somebody who is in a kit duel that has
\* begun: nobody outside a duel has belongings the server has forgotten to return.
SavedOnlyInKitDuel ==
    \A p \in Players : saved[p].kept =>
        \E a \in Arenas :
            /\ IsPlaying(a, p) /\ HasKit(a)
            /\ status[a] # "INACTIVE" \/ elapsed[a] # NotStarted

\* Saving, returning and swiping inventories never duplicates a belonging: each
\* is in one place at most, be it a player's hands or a saved entry.
NothingDuplicated ==
    \A item \in Players :
        /\ \A p, q \in Players : item \in holding[p] \cap holding[q] => p = q
        /\ \A p, q \in Players : item \in saved[p].items \cap saved[q].items => p = q
        /\ \A p, q \in Players : item \notin holding[p] \cap saved[q].items

\* A started duel is won at most once, however kills, falls and quits of its
\* players fall before the tick that clears the arena.
WonAtMostOnce == \A a \in Arenas : wins[a] <= 1

\* Only players of a duel that has not started are immobile: each way out of it, and
\* the end of the countdown, releases the objects that startDuel and the countdown
\* froze, also when another arena froze them too.
FrozenOnlyBeforeStart ==
    \A p \in frozen : \E a \in Arenas : Live(p) \in ObjectsIn(a) /\ elapsed[a] = NotStarted

\* An arena nobody plays in has its floor back, whichever way its last duel ended
\* (fillBrokenBlocks: "Called when the spleef/tnrun arena resets").
FloorRepaired == \A a \in Arenas : NoSlots(a) => a \notin holed

\* A player who leaves the server during a duel leaves the win to the opponent
\* who is online (onPlayerQuit: "award the player that remained online").
QuitAwardsOpponent ==
    [][\A p \in online \ online', a \in Arenas :
           (status[a] # "INACTIVE" /\ BothOnline(a) /\ Live(p) \in ObjectsIn(a))
               => wins'[a] = wins[a] + 1]_vars

\* What stops DuelTask half way: an object that closed and is still dereferenced.
Jammed == \E a \in Arenas : Throws(a) \/ MayThrow(a)

\* Two waiting players and an arena for them meet: DuelTask starts them unless
\* the queue or the arenas change first, even while a later arena makes it throw.
PairWaits(t) == Len(queue[t]) >= 2 /\ FreeArenas(t) # {}
PairIsMatched ==
    \A t \in Types : PairWaits(t) ~> ~PairWaits(t)

\* Two online players in an arena get their duel (addPlayer: "the game should
\* start when there are two online players").
ReadyToBegin(a) == /\ status[a] = "INACTIVE" /\ elapsed[a] = NotStarted
                   /\ BothSlots(a) /\ BothOnline(a)
PairBegins == \A a \in Arenas : ReadyToBegin(a) ~> (~ReadyToBegin(a) \/ Jammed)

\* No duel runs for ever, also when nobody hits, falls or leaves.
DuelEnds == \A a \in Arenas : (status[a] = "ACTIVE") ~> (status[a] # "ACTIVE" \/ Jammed)

\* The arena of a finished duel becomes free again, so the queue moves on.
Finished(a) == BothSlots(a) /\ status[a] = "INACTIVE" /\ elapsed[a] # NotStarted
FinishedArenaIsFreed ==
    \A a \in Arenas : Finished(a) ~> (NoSlots(a) \/ Jammed)

\* The phase an arena is in: gameStatus alone does not tell a pair that waits for
\* its first tick from one that waits to be cleared.
PhaseOf(a) == IF NoSlots(a) THEN "free"
              ELSE IF status[a] = "COUNTDOWN" THEN "countdown"
              ELSE IF status[a] = "ACTIVE" THEN "active"
              ELSE IF elapsed[a] = NotStarted THEN "reserved" ELSE "over"

Lifecycle == INSTANCE DuelLifecycle WITH
    phase <- [a \in Arenas |-> PhaseOf(a)],
    pair  <- [a \in Arenas |-> {p \in Players : IsPlaying(a, p)}],
    won   <- wins

\* The detailed duel system keeps the arena's promise.
RefinesLifecycle == Lifecycle!LifecycleSpec

=============================================================================
