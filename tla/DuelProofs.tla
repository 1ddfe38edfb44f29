----------------------------- MODULE DuelProofs -----------------------------
(***************************************************************************)
(* Proofs about Duel for every set of players, arenas and duel types, in    *)
(* four parts: types and sides, the refinement of DuelLifecycle, the        *)
(* waiting queues, and belongings, immobile players and floors.             *)
(* TypeOK is not inductive: the countdown stays in its range only because   *)
(* an arena that has not started holds a fresh countdown, and a duel's type *)
(* and opponent exist only because an ongoing duel has both its slots set.  *)
(* ArenaOK says this of each arena; IInv is TypeOK with it.                 *)
(***************************************************************************)
EXTENDS Duel, SequenceTheorems, WellFoundedInduction, TLAPS

ArenaOK(a) ==
    /\ status[a] # "INACTIVE" => BothSlots(a)
    /\ BothSlots(a) => playing[a][0].name # playing[a][1].name
    /\ ~NoSlots(a) => duelType[a] \in Types
    /\ status[a] = "COUNTDOWN" => elapsed[a] = NotStarted
    /\ status[a] = "ACTIVE" => elapsed[a] # NotStarted
    /\ elapsed[a] = NotStarted => countdown[a] \in 1..CountdownTicks
    /\ status[a] # "INACTIVE" => wins[a] = 0
    /\ elapsed[a] = NotStarted /\ ~NoSlots(a) => wins[a] = 0
    /\ wins[a] <= 1

ArenasOK == \A a \in Arenas : ArenaOK(a)

IInv == TypeOK /\ ArenasOK

\* The part of TypeOK about the arenas, which most steps leave alone.
ArenaTypeOK ==
    /\ status \in [Arenas -> Status]
    /\ playing \in [Arenas -> [Sides -> PlayerObject \cup {EmptySlot}]]
    /\ spectating \in [Arenas -> SUBSET PlayerObject]
    /\ duelType \in [Arenas -> Types \cup {NotStarted}]
    /\ countdown \in [Arenas -> 1..CountdownTicks \cup {DuelTime}]
    /\ elapsed \in [Arenas -> {NotStarted} \cup 0..DuelTime]
    /\ wins \in [Arenas -> Nat]

\* The rest of TypeOK.
OtherTypeOK ==
    /\ online \subseteq Players
    /\ queue \in [Types -> Seq(Players)]
    /\ request \in [Players -> Request]
    /\ form \in [Players -> Form]
    /\ result \in [Players -> Result]
    /\ holding \in [Players -> SUBSET Items]
    /\ saved \in [Players -> Saved]
    /\ frozen \subseteq Players
    /\ holed \subseteq Arenas
    /\ step \in 1..(NumTypes + NumArenas)

-----------------------------------------------------------------------------
(* What the helpers return. *)

Below == {n \in Nat \X Nat : n[1] < n[2]}

\* The smallest member of a set of numbers is in the set.
LEMMA MinIsMember ==
    ASSUME NEW S \in SUBSET Nat, S # {}
    PROVE  Min(S) \in S
<1>1. IsWellFoundedOn(Below, Nat)
  BY NatLessThanWellFounded DEF OpToRel, Below
<1>2. \E a \in S : \A b \in S : <<b, a>> \notin Below
  BY <1>1, WFMin
<1>3. \A x, y \in Nat : x < y => <<x, y>> \in Below
  BY DEF Below
<1>4. PICK a \in S : \A b \in S : <<b, a>> \notin Below
  BY <1>2
<1>5. \A b \in S : a <= b
  <2>1. TAKE b \in S
  <2>2. ~(b < a)
    BY <1>3, <1>4
  <2>3. QED
    BY <2>2
<1>6. QED
  BY <1>5 DEF Min

\* Taking one entry out of a queue leaves a queue.
LEMMA RemoveAtIsSeq ==
    ASSUME NEW T, NEW s \in Seq(T), NEW i \in 1..Len(s)
    PROVE  RemoveAt(s, i) \in Seq(T)
<1>1. Len(s) \in Nat
  BY LenProperties
<1>2. \A j \in 1..Len(s) : s[j] \in T
  BY ElementOfSeq
<1>3. SubSeq(s, 1, i - 1) \in Seq(T)
  BY <1>1, <1>2, SubSeqProperties
<1>4. SubSeq(s, i + 1, Len(s)) \in Seq(T)
  BY <1>1, <1>2, SubSeqProperties
<1>5. QED
  BY <1>3, <1>4, ConcatProperties DEF RemoveAt

\* quitQueue keeps the queues queues of names.
LEMMA QuitQueueType ==
    ASSUME TypeOK, NEW p
    PROVE  QuitQueue(p) \in [Types -> Seq(Players)]
<1>1. CASE ~InQueue(p)
  BY <1>1 DEF QuitQueue, TypeOK
<1>2. CASE InQueue(p)
  <2> DEFINE t == Min({u \in Types : PositionsOf(p, u) # {}})
             i == Min(PositionsOf(p, t))
  <2>1. {u \in Types : PositionsOf(p, u) # {}} \in SUBSET Nat
    BY DEF Types
  <2>2. t \in Types /\ PositionsOf(p, t) # {}
    BY <1>2, <2>1, MinIsMember DEF InQueue
  <2>3. queue[t] \in Seq(Players)
    BY <2>2 DEF TypeOK
  <2>4. PositionsOf(p, t) \subseteq 1..Len(queue[t])
    BY <2>3, LenProperties DEF PositionsOf
  <2>5. i \in 1..Len(queue[t])
    <3>1. PositionsOf(p, t) \in SUBSET Nat
      BY <2>3, <2>4, LenProperties
    <3>2. i \in PositionsOf(p, t)
      BY <2>2, <3>1, MinIsMember
    <3>3. QED
      BY <2>4, <3>2
  <2>6. RemoveAt(queue[t], i) \in Seq(Players)
    BY <2>3, <2>5, RemoveAtIsSeq
  <2>7. QuitQueue(p) = [queue EXCEPT ![t] = RemoveAt(queue[t], i)]
    BY <1>2 DEF QuitQueue
  <2>8. QED
    BY <2>6, <2>7 DEF TypeOK
<1>3. QED
  BY <1>1, <1>2

\* getPlayerDuel returns one of the player's arenas.
LEMMA PlayerDuelIsOne ==
    ASSUME NEW p, InDuel(p)
    PROVE  PlayerDuel(p) \in Arenas /\ IsPlaying(PlayerDuel(p), p)
<1>1. DuelsOf(p) \in SUBSET Nat
  BY DEF DuelsOf, Arenas
<1>2. PlayerDuel(p) \in DuelsOf(p)
  BY <1>1, MinIsMember DEF PlayerDuel, InDuel
<1>3. QED
  BY <1>2 DEF DuelsOf

\* The same for the arena a player watches.
LEMMA SpectatedIsOne ==
    ASSUME NEW p, SpectatedBy(p) # {}
    PROVE  Min(SpectatedBy(p)) \in Arenas
<1>1. SpectatedBy(p) \in SUBSET Nat
  BY DEF SpectatedBy, Arenas
<1>2. QED
  BY <1>1, MinIsMember DEF SpectatedBy

\* Returning inventories leaves an item set and a store entry for each name.
LEMMA ReturnedType ==
    ASSUME TypeOK, NEW kit, NEW objs, Returned(kit, objs)
    PROVE  holding' \in [Players -> SUBSET Items] /\ saved' \in [Players -> Saved]
<1>1. NotSaved \in Saved
  BY DEF NotSaved, Saved
<1>2. \A p \in Players : saved[p].items \in SUBSET Items
  BY DEF TypeOK, Saved
<1>3. QED
  BY <1>1, <1>2 DEF TypeOK, Returned

\* So does handing one player's items to another, or to the same.
LEMMA SwipeType ==
    ASSUME TypeOK, NEW from \in Players, NEW to \in Players, Swipe(from, to)
    PROVE  holding' \in [Players -> SUBSET Items]
<1>1. PICK moved \in SUBSET holding[from], kept \in SUBSET holding[from] :
          holding' = [holding EXCEPT ![from] = kept,
                                     ![to] = @ \cup moved]
  BY DEF Swipe
<1>2. holding[from] \subseteq Items /\ holding[to] \subseteq Items
  BY DEF TypeOK
<1>3. moved \subseteq Items /\ kept \subseteq Items
  BY <1>1, <1>2
<1>4. QED
  BY <1>1, <1>2, <1>3 DEF TypeOK

\* The result forms are about two names and a duel type.
LEMMA ResultOfType ==
    ASSUME TypeOK, NEW w \in PlayerObject, NEW l \in PlayerObject, NEW t \in Types
    PROVE  ResultOf(w, l, t) \in [Players -> Result]
<1>1. w.name \in Players /\ l.name \in Players
  BY DEF PlayerObject
<1>2. NoResult \in Result
  BY DEF Result
<1>3. \A q \in Players, b \in BOOLEAN :
          [opponent |-> q, type |-> t, lost |-> b] \in Result
  BY DEF Result
<1>4. QED
  BY <1>1, <1>2, <1>3 DEF TypeOK, ResultOf

\* Closing a connection changes no name and no empty slot.
LEMMA DisconnectArenas ==
    ASSUME NEW p \in Players,
           NEW slots \in [Arenas -> [Sides -> PlayerObject \cup {EmptySlot}]],
           NEW watchers \in [Arenas -> SUBSET PlayerObject],
           Disconnect(p, slots, watchers)
    PROVE  /\ playing' \in [Arenas -> [Sides -> PlayerObject \cup {EmptySlot}]]
           /\ spectating' \in [Arenas -> SUBSET PlayerObject]
           /\ \A a \in Arenas, i \in Sides :
                  /\ playing'[a][i].name = slots[a][i].name
                  /\ playing'[a][i] = EmptySlot <=> slots[a][i] = EmptySlot
<1>1. \A o \in PlayerObject : /\ Closed(o, p) \in PlayerObject
                              /\ Closed(o, p).name = o.name
                              /\ Closed(o, p) # EmptySlot /\ o # EmptySlot
  <2>1. TAKE o \in PlayerObject
  <2>2. CASE o = Live(p)
    <3>1. Closed(o, p) = [name |-> p, live |-> FALSE]
      BY <2>2 DEF Closed, Live
    <3>2. Closed(o, p).name = p /\ o.name = p /\ EmptySlot.name = Nobody
      BY <2>2, <3>1 DEF EmptySlot, Live
    <3>3. Closed(o, p) \in PlayerObject
      BY <3>1 DEF PlayerObject
    <3>4. QED
      BY <3>2, <3>3, NobodyAssumption
  <2>3. CASE o # Live(p)
    BY <2>3, NobodyAssumption DEF Closed, PlayerObject, EmptySlot
  <2>4. QED
    BY <2>2, <2>3
<1>2. Closed(EmptySlot, p) = EmptySlot
  BY NobodyAssumption DEF Closed, EmptySlot, Live
<1>3. playing' = [a \in Arenas |-> [i \in Sides |-> Closed(slots[a][i], p)]]
  BY DEF Disconnect
<1>4. spectating' = [a \in Arenas |-> {Closed(s, p) : s \in watchers[a]}]
  BY DEF Disconnect
<1>5. spectating' \in [Arenas -> SUBSET PlayerObject]
  BY <1>1, <1>4
<1>6. \A a \in Arenas, i \in Sides : slots[a][i] \in PlayerObject \cup {EmptySlot}
  OBVIOUS
<1>7. playing' \in [Arenas -> [Sides -> PlayerObject \cup {EmptySlot}]]
  BY <1>1, <1>2, <1>3, <1>6
<1>8. QED
  BY <1>1, <1>2, <1>3, <1>5, <1>6, <1>7

\* The other side of an arena whose two slots are set holds an object.
LEMMA OpponentIsObject ==
    ASSUME TypeOK, NEW a \in Arenas, NEW p, BothSlots(a), IsPlaying(a, p)
    PROVE  Opponent(a, p) \in PlayerObject
<1> DEFINE i == CHOOSE j \in Sides : playing[a][j].name = p
<1>1. i \in Sides
  BY DEF IsPlaying
<1>2. 1 - i \in Sides
  <2> HIDE DEF i
  <2>1. i = 0 \/ i = 1
    BY <1>1 DEF Sides
  <2>2. QED
    BY <2>1 DEF Sides
<1>3. playing[a][1 - i] \in PlayerObject
  BY <1>2 DEF TypeOK, BothSlots
<1>4. QED
  BY <1>3 DEF Opponent

-----------------------------------------------------------------------------
(* What the steps do to the arenas. *)

\* A step that leaves the arenas alone leaves them in order.
LEMMA ArenasUnchanged ==
    ASSUME IInv, UNCHANGED <<arenaVars, wins>>
    PROVE  ArenaTypeOK' /\ ArenasOK'
<1>1. ArenaTypeOK'
  BY DEF IInv, TypeOK, ArenaTypeOK, arenaVars
<1>2. ArenasOK'
  BY DEF IInv, ArenasOK, ArenaOK, arenaVars, BothSlots, NoSlots
<1>3. QED
  BY <1>1, <1>2

\* The two parts are the whole.
LEMMA TypeParts ==
    ASSUME ArenaTypeOK', ArenasOK', OtherTypeOK'
    PROVE  IInv'
BY DEF ArenaTypeOK, OtherTypeOK, IInv, TypeOK

\* A duel is started in a free arena: its slots, type and countdown are fresh.
LEMMA StartDuelArenas ==
    ASSUME IInv, NEW t \in Types, NEW a \in FreeArenas(t),
           NEW p \in Players, NEW q \in Players, StartDuel(a, t, p, q)
    PROVE  ArenaTypeOK' /\ ArenasOK'
<1>1. a \in Arenas /\ status[a] = "INACTIVE"
  BY DEF FreeArenas
<1>2. Live(p) \in PlayerObject /\ Live(q) \in PlayerObject
  BY DEF Live, PlayerObject
<1>3. CountdownTicks \in 1..CountdownTicks
  BY TimesAssumption
<1>4. ArenaTypeOK'
  BY <1>1, <1>2, <1>3 DEF IInv, TypeOK, ArenaTypeOK, StartDuel
<1>5. ASSUME NEW b \in Arenas PROVE ArenaOK(b)'
  <2>1. CASE b # a
    BY <1>1, <2>1 DEF IInv, TypeOK, ArenasOK, ArenaOK, StartDuel, BothSlots, NoSlots
  <2>2. CASE b = a
    <3>1. ~BothSlots(a)' \/ p # q
      BY <1>1 DEF IInv, TypeOK, StartDuel, BothSlots, Sides
    <3>2. playing'[a][0] = Live(p) /\ (p # q => playing'[a][1] = Live(q))
      BY <1>1 DEF IInv, TypeOK, StartDuel, Sides
    <3>3. status'[a] = "INACTIVE" /\ wins'[a] = 0 /\ elapsed'[a] = NotStarted
          /\ countdown'[a] = CountdownTicks /\ duelType'[a] = t
      BY <1>1 DEF IInv, TypeOK, StartDuel
    <3>4. QED
      BY <1>3, <2>2, <3>1, <3>2, <3>3 DEF ArenaOK, Live
  <2>3. QED
    BY <2>1, <2>2
<1>6. QED
  BY <1>4, <1>5 DEF ArenasOK

-----------------------------------------------------------------------------
(* Each action keeps the invariant. *)

\* One queue entry examined by DuelTask: a pair is matched, dropped or left waiting.
LEMMA MatchQueueStep ==
    ASSUME IInv, NEW t \in Types, MatchQueue(t)
    PROVE  IInv'
<1> DEFINE gone == {i \in DOMAIN queue[t] : queue[t][i] \notin online}
<1>1. queue[t] \in Seq(Players)
  BY DEF IInv, TypeOK
<1>2. Len(queue[t]) \in Nat /\ DOMAIN queue[t] = 1..Len(queue[t])
  BY <1>1, LenProperties
<1>3. step' \in 1..(NumTypes + NumArenas)
  BY CountsAssumption DEF IInv, TypeOK, MatchQueue, Types
<1>4. CASE gone # {}
  <2>1. gone \in SUBSET Nat /\ gone \subseteq 1..Len(queue[t])
    BY <1>2
  <2>2. Min(gone) \in 1..Len(queue[t])
    BY <1>4, <2>1, MinIsMember
  <2>3. RemoveAt(queue[t], Min(gone)) \in Seq(Players)
    BY <1>1, <2>2, RemoveAtIsSeq
  <2>4. /\ queue' = [queue EXCEPT ![t] = RemoveAt(queue[t], Min(gone))]
        /\ UNCHANGED <<arenaVars, frozen, wins>>
    BY <1>4 DEF MatchQueue
  <2>5. OtherTypeOK'
    BY <1>3, <2>3, <2>4 DEF IInv, TypeOK, OtherTypeOK, MatchQueue, formVars, itemVars
  <2>6. QED
    BY <2>4, <2>5, ArenasUnchanged, TypeParts
<1>5. CASE gone = {} /\ CanMatch(t)
  <2>1. PICK a \in FreeArenas(t) : StartDuel(a, t, queue[t][1], queue[t][2])
    BY <1>5 DEF MatchQueue
  <2>2. queue[t][1] \in Players /\ queue[t][2] \in Players
    BY <1>1, <1>2, <1>5, ElementOfSeq DEF CanMatch
  <2>3. ArenaTypeOK' /\ ArenasOK'
    BY <2>1, <2>2, StartDuelArenas
  <2>4. frozen' \subseteq Players
    BY <2>1, <2>2 DEF StartDuel, IInv, TypeOK
  <2>5. SubSeq(queue[t], 3, Len(queue[t])) \in Seq(Players)
    BY <1>1, <1>2, ElementOfSeq, SubSeqProperties
  <2>6. queue' = [queue EXCEPT ![t] = SubSeq(queue[t], 3, Len(queue[t]))]
    BY <1>5 DEF MatchQueue
  <2>7. OtherTypeOK'
    BY <1>3, <2>4, <2>5, <2>6 DEF IInv, TypeOK, OtherTypeOK, MatchQueue, formVars, itemVars
  <2>8. QED
    BY <2>3, <2>7, TypeParts
<1>6. CASE gone = {} /\ ~CanMatch(t)
  <2>1. UNCHANGED <<queue, arenaVars, frozen, wins>>
    BY <1>6 DEF MatchQueue
  <2>2. OtherTypeOK'
    BY <1>3, <2>1 DEF IInv, TypeOK, OtherTypeOK, MatchQueue, formVars, itemVars
  <2>3. QED
    BY <2>1, <2>2, ArenasUnchanged, TypeParts
<1>7. QED
  BY <1>4, <1>5, <1>6

\* The loop over the arenas stays in its range.
LEMMA NextArenaStep ==
    ASSUME TypeOK, NEW a \in Arenas, AtArena(a), NextArena \/ step' = 1
    PROVE  step' \in 1..(NumTypes + NumArenas)
BY CountsAssumption DEF TypeOK, AtArena, NextArena, Arenas

\* One arena tick: waiting, clearing, beginning, counting down or fighting.
LEMMA TickArenaStep ==
    ASSUME IInv, NEW a \in Arenas, TickArena(a)
    PROVE  IInv'
<1>1. ASSUME TickThrows(a) PROVE IInv'
  <2>1. OtherTypeOK'
    BY <1>1, NextArenaStep DEF IInv, TypeOK, OtherTypeOK, TickThrows, queueVars, formVars, itemVars
  <2>2. UNCHANGED <<arenaVars, wins>>
    BY <1>1 DEF TickThrows
  <2>3. QED
    BY <2>1, <2>2, ArenasUnchanged, TypeParts
<1>2. ASSUME TickWaiting(a) PROVE IInv'
  <2>1. OtherTypeOK'
    BY <1>2, NextArenaStep DEF IInv, TypeOK, OtherTypeOK, TickWaiting, queueVars, formVars, itemVars
  <2>2. ArenaTypeOK'
    BY <1>2 DEF IInv, TypeOK, ArenaTypeOK, TickWaiting, Ended, Status
  <2>3. ArenasOK'
    BY <1>2 DEF IInv, TypeOK, ArenasOK, ArenaOK, TickWaiting, Ended, BothSlots, NoSlots
  <2>4. QED
    BY <2>1, <2>2, <2>3, TypeParts
<1>3. ASSUME TickClear(a) PROVE IInv'
  <2>1. Vacant \in [Sides -> PlayerObject \cup {EmptySlot}]
    BY DEF Vacant
  <2>2. holding' \in [Players -> SUBSET Items] /\ saved' \in [Players -> Saved]
    BY <1>3, ReturnedType DEF TickClear, IInv
  <2>3. OtherTypeOK'
    BY <1>3, <2>2, NextArenaStep DEF IInv, TypeOK, OtherTypeOK, TickClear, queueVars,
                                     formVars, Unfrozen, Refilled
  <2>4. ArenaTypeOK'
    BY <1>3, <2>1 DEF IInv, TypeOK, ArenaTypeOK, TickClear, Ended, Status
  <2>5. ~BothSlots(a)' /\ NoSlots(a)' /\ status'[a] = "INACTIVE"
    BY <1>3 DEF IInv, TypeOK, TickClear, Ended, BothSlots, NoSlots, Vacant, Sides
  <2>6. ArenasOK'
    BY <1>3, <2>5 DEF IInv, TypeOK, ArenasOK, ArenaOK, TickClear, Ended, BothSlots, NoSlots
  <2>7. QED
    BY <2>3, <2>4, <2>6, TypeParts
<1>4. ASSUME TickBegin(a) PROVE IInv'
  <2>1. elapsed[a] = NotStarted
    BY <1>4 DEF TickBegin, ToClear
  <2>2. holding' \in [Players -> SUBSET Items] /\ saved' \in [Players -> Saved]
    <3>1. \A q \in Players : [kept |-> TRUE, items |-> holding[q]] \in Saved
      BY DEF IInv, TypeOK, Saved
    <3>2. {Kit} \in SUBSET Items
      BY DEF Items
    <3>3. QED
      BY <1>4, <3>1, <3>2 DEF IInv, TypeOK, TickBegin, itemVars
  <2>3. OtherTypeOK'
    BY <1>4, <2>2, NextArenaStep DEF IInv, TypeOK, OtherTypeOK, TickBegin, queueVars,
                                     formVars, LiveNames
  <2>4. ArenaTypeOK'
    BY <1>4 DEF IInv, TypeOK, ArenaTypeOK, TickBegin, Status
  <2>5. ~NoSlots(a)
    BY <1>4 DEF TickBegin, BothSlots, NoSlots, Sides
  <2>6. ArenasOK'
    BY <1>4, <2>1, <2>5 DEF IInv, TypeOK, ArenasOK, ArenaOK, TickBegin, BothSlots, NoSlots
  <2>7. QED
    BY <2>3, <2>4, <2>6, TypeParts
<1>5. ASSUME TickCountdown(a) PROVE IInv'
  <2>1. elapsed[a] = NotStarted /\ countdown[a] \in 1..CountdownTicks
    BY <1>5 DEF IInv, ArenasOK, ArenaOK, TickCountdown
  <2>2. OtherTypeOK'
    BY <1>5, NextArenaStep DEF IInv, TypeOK, OtherTypeOK, TickCountdown, queueVars, formVars,
                               itemVars, Unfrozen
  <2>3. countdown[a] - 1 # 0 => countdown[a] - 1 \in 1..CountdownTicks
    BY <2>1, TimesAssumption
  <2>4. 0 \in 0..DuelTime /\ 0 # NotStarted
    BY TimesAssumption DEF NotStarted
  <2>5. ArenaTypeOK'
    BY <1>5, <2>3, <2>4 DEF IInv, TypeOK, ArenaTypeOK, TickCountdown, CountdownOver, Status
  <2>6. ASSUME NEW b \in Arenas PROVE ArenaOK(b)'
    <3>1. CASE b # a
      BY <1>5, <3>1 DEF IInv, TypeOK, ArenasOK, ArenaOK, TickCountdown, BothSlots, NoSlots
    <3>2. CASE b = a
      BY <1>5, <2>1, <2>3, <2>4, <3>2
      DEF IInv, TypeOK, ArenasOK, ArenaOK, TickCountdown, CountdownOver, BothSlots, NoSlots
    <3>3. QED
      BY <3>1, <3>2
  <2>7. QED
    BY <2>2, <2>5, <2>6, TypeParts DEF ArenasOK
<1>6. ASSUME TickActive(a) PROVE IInv'
  <2>1. OtherTypeOK'
    BY <1>6, NextArenaStep DEF IInv, TypeOK, OtherTypeOK, TickActive, queueVars, formVars, itemVars
  <2>2. ArenaTypeOK'
    BY <1>6 DEF IInv, TypeOK, ArenaTypeOK, TickActive, Status
  <2>3. ArenasOK'
    BY <1>6 DEF IInv, TypeOK, ArenasOK, ArenaOK, TickActive, BothSlots, NoSlots
  <2>4. QED
    BY <2>1, <2>2, <2>3, TypeParts
<1>7. QED
  BY <1>1, <1>2, <1>3, <1>4, <1>5, <1>6 DEF TickArena

\* A step of a command that leaves the arenas and the inventories alone.
LEMMA QuietStep ==
    ASSUME IInv, UNCHANGED <<online, arenaVars, itemVars, frozen, holed, wins, step>>,
           queue' \in [Types -> Seq(Players)], request' \in [Players -> Request],
           form' \in [Players -> Form], result' \in [Players -> Result]
    PROVE  IInv'
<1>1. OtherTypeOK'
  BY DEF IInv, TypeOK, OtherTypeOK, itemVars
<1>2. QED
  BY <1>1, ArenasUnchanged, TypeParts

\* Only the set of spectators changes.
LEMMA SpectatorStep ==
    ASSUME IInv,
           UNCHANGED <<online, queueVars, result, status, playing, duelType, countdown,
                       elapsed, itemVars, frozen, holed, wins, step>>,
           form' \in [Players -> Form], spectating' \in [Arenas -> SUBSET PlayerObject]
    PROVE  IInv'
<1>1. OtherTypeOK'
  BY DEF IInv, TypeOK, OtherTypeOK, itemVars, queueVars
<1>2. ArenaTypeOK'
  BY DEF IInv, TypeOK, ArenaTypeOK
<1>3. ArenasOK'
  BY DEF IInv, ArenasOK, ArenaOK, BothSlots, NoSlots
<1>4. QED
  BY <1>1, <1>2, <1>3, TypeParts

\* The menu is one of the forms.
LEMMA MenuForType ==
    ASSUME NEW p
    PROVE  MenuFor(p) \in Form /\ NoForm \in Form /\ NoResult \in Result
<1>1. [kind |-> "leave"] \in Form /\ [kind |-> "unspectate"] \in Form /\ NoForm \in Form
  BY DEF Form, NoForm
<1>2. \A b \in BOOLEAN : [kind |-> "select", spectate |-> b] \in Form
  BY DEF Form
<1>3. MenuFor(p) \in Form
  BY <1>1, <1>2 DEF MenuFor
<1>4. QED
  BY <1>1, <1>3 DEF Result

\* /duel with a name, typed or from the result form.
LEMMA AcceptOrChallengeStep ==
    ASSUME IInv, NEW p \in Players, NEW q \in Players, NEW t \in Types,
           AcceptOrChallenge(p, q, t), result' \in [Players -> Result]
    PROVE  IInv'
<1>1. request' \in [Players -> Request]
  BY DEF AcceptOrChallenge, IInv, TypeOK, Request
<1>2. CASE UNCHANGED <<arenaVars, frozen, wins>>
  <2>1. OtherTypeOK'
    BY <1>1, <1>2 DEF AcceptOrChallenge, IInv, TypeOK, OtherTypeOK, itemVars
  <2>2. QED
    BY <1>2, <2>1, ArenasUnchanged, TypeParts
<1>3. CASE request[q].to = p /\ FreeArenas(request[q].type) # {}
  <2>1. request[q].type \in Types
    BY <1>3, NobodyAssumption DEF IInv, TypeOK, Request, NoRequest
  <2>2. PICK a \in FreeArenas(request[q].type) : StartDuel(a, request[q].type, p, q)
    BY <1>3 DEF AcceptOrChallenge
  <2>3. ArenaTypeOK' /\ ArenasOK'
    BY <2>1, <2>2, StartDuelArenas
  <2>4. OtherTypeOK'
    BY <1>1, <2>2 DEF AcceptOrChallenge, IInv, TypeOK, OtherTypeOK, itemVars, StartDuel
  <2>5. QED
    BY <2>3, <2>4, TypeParts
<1>4. QED
  BY <1>2, <1>3 DEF AcceptOrChallenge

\* What a player does with a form or a command.
LEMMA CommandStep ==
    ASSUME IInv, Command
    PROVE  IInv'
<1> PICK p \in Players :
        \/ OpenMenu(p) \/ ResultOpensMenu(p) \/ Rematch(p) \/ CloseForm(p)
        \/ LeaveQueue(p) \/ Unspectate(p) \/ ChooseSpectate(p) \/ JoinQueue(p)
        \/ \E q \in Players, t \in Types : DuelCommand(p, q, t)
        \/ \E t \in Types : ChooseType(p, t)
        \/ \E a \in Arenas : Spectate(p, a)
  BY DEF Command
<1>0. /\ queue \in [Types -> Seq(Players)] /\ request \in [Players -> Request]
      /\ form \in [Players -> Form] /\ result \in [Players -> Result]
      /\ spectating \in [Arenas -> SUBSET PlayerObject]
  BY DEF IInv, TypeOK
<1>1. ASSUME OpenMenu(p) PROVE IInv'
  BY <1>0, <1>1, MenuForType, QuietStep DEF OpenMenu, queueVars
<1>2. ASSUME ResultOpensMenu(p) PROVE IInv'
  BY <1>0, <1>2, MenuForType, QuietStep DEF ResultOpensMenu, queueVars
<1>3. ASSUME Rematch(p) PROVE IInv'
  <2>1. result[p].opponent \in Players /\ result[p].type \in Types
    BY <1>0, <1>3 DEF Rematch, Result, NoResult
  <2>2. result' \in [Players -> Result]
    BY <1>0, <1>3, MenuForType DEF Rematch
  <2>3. AcceptOrChallenge(p, result[p].opponent, result[p].type)
    BY <1>3 DEF Rematch
  <2>4. QED
    BY <2>1, <2>2, <2>3, AcceptOrChallengeStep
<1>4. ASSUME CloseForm(p) PROVE IInv'
  <2>1. form' \in [Players -> Form] /\ result' \in [Players -> Result]
    BY <1>0, <1>4, MenuForType DEF CloseForm
  <2>2. QED
    BY <1>0, <1>4, <2>1, QuietStep DEF CloseForm, queueVars
<1>5. ASSUME LeaveQueue(p) PROVE IInv'
  <2>1. queue' \in [Types -> Seq(Players)]
    BY <1>5, QuitQueueType DEF LeaveQueue, IInv
  <2>2. form' \in [Players -> Form]
    BY <1>0, <1>5, MenuForType DEF LeaveQueue
  <2>3. QED
    BY <1>0, <1>5, <2>1, <2>2, QuietStep DEF LeaveQueue
<1>6. ASSUME Unspectate(p) PROVE IInv'
  <2>1. form' \in [Players -> Form]
    BY <1>0, <1>6, MenuForType DEF Unspectate
  <2>2. spectating' \in [Arenas -> SUBSET PlayerObject]
    BY <1>0, <1>6, SpectatedIsOne DEF Unspectate
  <2>3. QED
    BY <1>6, <2>1, <2>2, SpectatorStep DEF Unspectate
<1>7. ASSUME ChooseSpectate(p) PROVE IInv'
  <2>1. [kind |-> "spectate", arenas |-> {a \in Arenas : status[a] # "INACTIVE"}] \in Form
    BY DEF Form
  <2>2. form' \in [Players -> Form]
    BY <1>0, <1>7, <2>1, MenuForType DEF ChooseSpectate
  <2>3. QED
    BY <1>0, <1>7, <2>2, QuietStep DEF ChooseSpectate, queueVars
<1>8. ASSUME JoinQueue(p) PROVE IInv'
  <2>1. form[p].type \in Types
    BY <1>0, <1>8 DEF JoinQueue, Form
  <2>2. QuitQueue(p) \in [Types -> Seq(Players)]
    BY QuitQueueType DEF IInv
  <2>3. Append(QuitQueue(p)[form[p].type], p) \in Seq(Players)
    BY <2>1, <2>2
  <2>4. queue' \in [Types -> Seq(Players)]
    BY <1>8, <2>2, <2>3 DEF JoinQueue
  <2>5. form' \in [Players -> Form]
    BY <1>0, <1>8, MenuForType DEF JoinQueue
  <2>6. QED
    BY <1>0, <1>8, <2>4, <2>5, QuietStep DEF JoinQueue
<1>9. ASSUME NEW q \in Players, NEW t \in Types, DuelCommand(p, q, t) PROVE IInv'
  BY <1>0, <1>9, AcceptOrChallengeStep DEF DuelCommand
<1>10. ASSUME NEW t \in Types, ChooseType(p, t) PROVE IInv'
  <2>1. [kind |-> "join", type |-> t] \in Form
    BY DEF Form
  <2>2. form' \in [Players -> Form]
    BY <1>0, <1>10, <2>1 DEF ChooseType
  <2>3. QED
    BY <1>0, <1>10, <2>2, QuietStep DEF ChooseType, queueVars
<1>11. ASSUME NEW a \in Arenas, Spectate(p, a) PROVE IInv'
  <2>1. Live(p) \in PlayerObject
    BY DEF Live, PlayerObject
  <2>2. form' \in [Players -> Form]
    BY <1>0, <1>11, MenuForType DEF Spectate
  <2>3. spectating' \in [Arenas -> SUBSET PlayerObject]
    BY <1>0, <1>11, <2>1 DEF Spectate
  <2>4. QED
    BY <1>11, <2>2, <2>3, SpectatorStep DEF Spectate
<1>12. QED
  BY <1>1, <1>2, <1>3, <1>4, <1>5, <1>6, <1>7, <1>8, <1>9, <1>10, <1>11

\* A running duel ends, and is won at most once: its win count was still 0.
LEMMA DuelDecided ==
    ASSUME IInv, NEW a \in Arenas, status[a] = "ACTIVE", Ended(a),
           wins' = [wins EXCEPT ![a] = @ + 1] \/ wins' = wins,
           UNCHANGED <<playing, spectating, duelType, countdown, elapsed>>
    PROVE  ArenaTypeOK' /\ ArenasOK'
<1>1. ArenaTypeOK'
  <2>1. status' \in [Arenas -> Status]
    BY DEF IInv, TypeOK, Ended, Status
  <2>2. wins' \in [Arenas -> Nat]
    <3>1. wins \in [Arenas -> Nat] /\ wins[a] + 1 \in Nat
      BY DEF IInv, TypeOK
    <3>2. CASE wins' = wins
      BY <3>1, <3>2
    <3>3. CASE wins' = [wins EXCEPT ![a] = wins[a] + 1]
      BY <3>1, <3>3
    <3>4. QED
      BY <3>2, <3>3
  <2>3. QED
    BY <2>1, <2>2 DEF IInv, TypeOK, ArenaTypeOK
<1>2. wins[a] = 0 /\ elapsed[a] # NotStarted /\ wins'[a] <= 1 /\ status'[a] = "INACTIVE"
  BY DEF IInv, TypeOK, ArenasOK, ArenaOK, Ended
<1>3. ASSUME NEW b \in Arenas PROVE ArenaOK(b)'
  <2>1. CASE b # a
    BY <2>1 DEF IInv, TypeOK, ArenasOK, ArenaOK, Ended, BothSlots, NoSlots
  <2>2. CASE b = a
    BY <1>2, <2>2 DEF IInv, TypeOK, ArenasOK, ArenaOK, Ended, BothSlots, NoSlots
  <2>3. QED
    BY <2>1, <2>2
<1>4. QED
  BY <1>1, <1>3 DEF ArenasOK

\* The deciding hit.
LEMMA KillStep ==
    ASSUME IInv, NEW v \in Players, NEW k \in Players, Kill(v, k)
    PROVE  IInv'
<1> DEFINE a == PlayerDuel(v)
<1>1. a \in Arenas /\ IsPlaying(a, v)
  BY PlayerDuelIsOne DEF Kill
<1>2. ArenaTypeOK' /\ ArenasOK'
  BY <1>1, DuelDecided DEF Kill
<1>3. duelType[a] \in Types
  BY <1>1 DEF Kill, IInv, ArenasOK, ArenaOK, BothSlots, NoSlots, Sides
<1>4. Live(v) \in PlayerObject /\ Live(k) \in PlayerObject
  BY DEF Live, PlayerObject
<1>5. result' \in [Players -> Result]
  BY <1>3, <1>4, ResultOfType DEF Kill, IInv
<1>6. holding' \in [Players -> SUBSET Items]
  BY SwipeType DEF Kill, IInv, TypeOK
<1>7. OtherTypeOK'
  BY <1>5, <1>6 DEF Kill, IInv, TypeOK, OtherTypeOK, queueVars
<1>8. QED
  BY <1>2, <1>7, TypeParts

\* A fall out of a spleef arena.
LEMMA FallStep ==
    ASSUME IInv, NEW v \in Players, Fall(v)
    PROVE  IInv'
<1> DEFINE a == PlayerDuel(v)
<1>1. a \in Arenas /\ IsPlaying(a, v)
  BY PlayerDuelIsOne DEF Fall
<1>2. ArenaTypeOK' /\ ArenasOK'
  BY <1>1, DuelDecided DEF Fall
<1>3. BothSlots(a) /\ duelType[a] \in Types
  BY <1>1 DEF Fall, IInv, ArenasOK, ArenaOK, BothSlots, NoSlots, Sides
<1>4. Live(v) \in PlayerObject /\ Opponent(a, v) \in PlayerObject
  BY <1>1, <1>3, OpponentIsObject DEF IInv, Live, PlayerObject
<1>5. result' \in [Players -> Result]
  BY <1>3, <1>4, ResultOfType DEF Fall, IInv, TypeOK
<1>6. OtherTypeOK'
  BY <1>5 DEF Fall, IInv, TypeOK, OtherTypeOK, queueVars, itemVars, Refilled
<1>7. QED
  BY <1>2, <1>6, TypeParts

\* A player who leaves without ending a duel: objects close, nothing else moves.
LEMMA CloseStep ==
    ASSUME IInv, NEW p \in Players, NEW watchers \in [Arenas -> SUBSET PlayerObject],
           Disconnect(p, playing, watchers),
           result' = [result EXCEPT ![p] = NoResult],
           frozen' = frozen \ {p},
           queue' \in [Types -> Seq(Players)],
           UNCHANGED <<status, itemVars, holed, wins>>
    PROVE  IInv'
<1>1. playing \in [Arenas -> [Sides -> PlayerObject \cup {EmptySlot}]]
  BY DEF IInv, TypeOK
<1>2. /\ playing' \in [Arenas -> [Sides -> PlayerObject \cup {EmptySlot}]]
      /\ spectating' \in [Arenas -> SUBSET PlayerObject]
      /\ \A a \in Arenas, i \in Sides :
             /\ playing'[a][i].name = playing[a][i].name
             /\ playing'[a][i] = EmptySlot <=> playing[a][i] = EmptySlot
  BY <1>1, DisconnectArenas
<1>3. UNCHANGED <<status, duelType, countdown, elapsed, wins, request, step, holding, saved, holed>>
  BY DEF Disconnect, itemVars
<1>4. ArenaTypeOK'
  BY <1>2, <1>3 DEF IInv, TypeOK, ArenaTypeOK
<1>5. \A a \in Arenas : (BothSlots(a)' <=> BothSlots(a)) /\ (NoSlots(a)' <=> NoSlots(a))
  BY <1>2 DEF BothSlots, NoSlots
<1>6. \A a \in Arenas : /\ playing'[a][0].name = playing[a][0].name
                        /\ playing'[a][1].name = playing[a][1].name
  BY <1>2 DEF Sides
<1>7. ArenasOK'
  BY <1>3, <1>5, <1>6 DEF IInv, ArenasOK, ArenaOK
<1>8. form' \in [Players -> Form] /\ result' \in [Players -> Result]
  BY MenuForType DEF Disconnect, IInv, TypeOK
<1>9. OtherTypeOK'
  BY <1>3, <1>8 DEF IInv, TypeOK, OtherTypeOK, Disconnect
<1>10. QED
  BY <1>4, <1>7, <1>9, TypeParts

\* Leaving the server ends the duel: its arena is empty and its win is the first.
LEMMA QuitDuelStep ==
    ASSUME IInv, NEW p \in Players, QuitDuel(p)
    PROVE  IInv'
<1> PICK a \in Arenas : a = PlayerDuel(p)
  BY PlayerDuelIsOne DEF QuitDuel
<1> DEFINE w == Opponent(a, p)
           left == {Live(p), w}
           slots == [playing EXCEPT ![a] = Vacant]
           watchers == [spectating EXCEPT ![a] = {}]
<1>1. a \in Arenas /\ IsPlaying(a, p) /\ status[a] # "INACTIVE"
  BY PlayerDuelIsOne DEF QuitDuel
<1>2. BothSlots(a) /\ duelType[a] \in Types /\ wins[a] = 0
  BY <1>1 DEF IInv, ArenasOK, ArenaOK, BothSlots, NoSlots, Sides
<1>3. Live(p) \in PlayerObject /\ w \in PlayerObject
  BY <1>1, <1>2, OpponentIsObject DEF IInv, Live, PlayerObject
<1>4. slots \in [Arenas -> [Sides -> PlayerObject \cup {EmptySlot}]]
  BY <1>1 DEF IInv, TypeOK, Vacant
<1>5. watchers \in [Arenas -> SUBSET PlayerObject]
  BY <1>1 DEF IInv, TypeOK
<1>6. Disconnect(p, slots, watchers)
  BY DEF QuitDuel
<1>7. /\ playing' \in [Arenas -> [Sides -> PlayerObject \cup {EmptySlot}]]
      /\ spectating' \in [Arenas -> SUBSET PlayerObject]
      /\ \A b \in Arenas, i \in Sides :
             /\ playing'[b][i].name = slots[b][i].name
             /\ playing'[b][i] = EmptySlot <=> slots[b][i] = EmptySlot
  BY <1>4, <1>5, <1>6, DisconnectArenas
<1>8. ArenaTypeOK'
  BY <1>1, <1>7 DEF IInv, TypeOK, ArenaTypeOK, QuitDuel, Disconnect, Ended, Status
<1>9. ASSUME NEW b \in Arenas PROVE ArenaOK(b)'
  <2>1. CASE b # a
    <3>1. slots[b] = playing[b]
      BY <2>1 DEF IInv, TypeOK
    <3>2. (BothSlots(b)' <=> BothSlots(b)) /\ (NoSlots(b)' <=> NoSlots(b))
      <4>1. \A i \in Sides : playing'[b][i] = EmptySlot <=> playing[b][i] = EmptySlot
        BY <1>7, <3>1
      <4>2. QED
        BY <4>1 DEF BothSlots, NoSlots
    <3>3. /\ playing'[b][0].name = playing[b][0].name
          /\ playing'[b][1].name = playing[b][1].name
      BY <1>7, <3>1 DEF Sides
    <3>4. /\ status'[b] = status[b] /\ wins'[b] = wins[b]
          /\ UNCHANGED <<duelType, countdown, elapsed>>
      BY <2>1 DEF IInv, TypeOK, QuitDuel, Disconnect, Ended
    <3>5. QED
      BY <3>2, <3>3, <3>4 DEF IInv, ArenasOK, ArenaOK
  <2>2. CASE b = a
    <3>1. slots[a] = Vacant
      BY <1>1 DEF IInv, TypeOK
    <3>2. \A i \in Sides : playing'[a][i] = EmptySlot
      BY <1>1, <1>7, <3>1 DEF Vacant
    <3>3. NoSlots(a)' /\ ~BothSlots(a)'
      BY <3>2 DEF NoSlots, BothSlots, Sides
    <3>4. /\ status'[a] = "INACTIVE" /\ wins'[a] = 1
          /\ UNCHANGED <<countdown, elapsed>>
      BY <1>1, <1>2 DEF IInv, TypeOK, QuitDuel, Disconnect, Ended
    <3>5. QED
      BY <1>1, <2>2, <3>3, <3>4 DEF IInv, ArenasOK, ArenaOK
  <2>3. QED
    BY <2>1, <2>2
<1>10. holding' \in [Players -> SUBSET Items] /\ saved' \in [Players -> Saved]
  <2>1. CASE AtStake(a) /\ w.live
    <3>1. Swipe(p, w.name) /\ w.name \in Players
      BY <1>3, <2>1 DEF QuitDuel, PlayerObject
    <3>2. QED
      BY <2>1, <3>1, SwipeType DEF IInv, TypeOK, QuitDuel
  <2>2. CASE AtStake(a) /\ ~w.live
    BY <2>2 DEF IInv, TypeOK, QuitDuel
  <2>3. CASE ~AtStake(a)
    <3>1. Returned(HasKit(a), left)
      BY <2>3 DEF QuitDuel
    <3>2. QED
      BY <3>1, ReturnedType DEF IInv
  <2>4. QED
    BY <2>1, <2>2, <2>3
<1>11. result' \in [Players -> Result] /\ form' \in [Players -> Form]
  <2>1. ResultOf(w, Live(p), duelType[a]) \in [Players -> Result]
    BY <1>2, <1>3, ResultOfType DEF IInv
  <2>2. QED
    BY <2>1, MenuForType DEF QuitDuel, Disconnect, IInv, TypeOK
<1>12. OtherTypeOK'
  BY <1>10, <1>11 DEF IInv, TypeOK, OtherTypeOK, QuitDuel, Disconnect, Refilled, Unfrozen
<1>13. QED
  BY <1>8, <1>9, <1>12, TypeParts DEF ArenasOK

\* A player disconnects, queued, dueling or neither.
LEMMA QuitStep ==
    ASSUME IInv, NEW p \in Players, Quit(p)
    PROVE  IInv'
<1>1. spectating \in [Arenas -> SUBSET PlayerObject] /\ queue \in [Types -> Seq(Players)]
  BY DEF IInv, TypeOK
<1>2. ASSUME QuitQueued(p) PROVE IInv'
  <2>1. queue' \in [Types -> Seq(Players)]
    BY <1>2, QuitQueueType DEF QuitQueued, IInv
  <2>2. QED
    BY <1>1, <1>2, <2>1, CloseStep DEF QuitQueued
<1>3. ASSUME QuitInactiveDuel(p) PROVE IInv'
  BY <1>1, <1>3, CloseStep DEF QuitInactiveDuel
<1>4. ASSUME QuitOutside(p) PROVE IInv'
  <2> DEFINE watchers ==
          IF SpectatedBy(p) # {}
          THEN [spectating EXCEPT ![Min(SpectatedBy(p))] =
                   {s \in spectating[Min(SpectatedBy(p))] : s.name # p}]
          ELSE spectating
  <2>1. watchers \in [Arenas -> SUBSET PlayerObject]
    BY <1>1, SpectatedIsOne
  <2>2. Disconnect(p, playing, watchers)
    BY <1>4 DEF QuitOutside
  <2>3. QED
    BY <1>1, <1>4, <2>1, <2>2, CloseStep DEF QuitOutside
<1>5. QED
  BY <1>2, <1>3, <1>4, QuitDuelStep DEF Quit

\* What happens to a player in the world: hits, falls, broken floors, logging in and out.
LEMMA EventStep ==
    ASSUME IInv, Event
    PROVE  IInv'
<1> PICK p \in Players : \/ Fall(p) \/ BreakFloor(p) \/ Join(p) \/ Quit(p)
                         \/ \E k \in Players : Kill(p, k)
  BY DEF Event
<1>1. ASSUME BreakFloor(p) PROVE IInv'
  <2>1. PlayerDuel(p) \in Arenas
    BY <1>1, PlayerDuelIsOne DEF BreakFloor
  <2>2. OtherTypeOK'
    BY <1>1, <2>1 DEF IInv, TypeOK, OtherTypeOK, BreakFloor, queueVars, formVars, itemVars
  <2>3. QED
    BY <1>1, <2>2, ArenasUnchanged, TypeParts DEF BreakFloor
<1>2. ASSUME Join(p) PROVE IInv'
  <2>1. OtherTypeOK'
    BY <1>2 DEF IInv, TypeOK, OtherTypeOK, Join, queueVars, formVars, itemVars
  <2>2. QED
    BY <1>2, <2>1, ArenasUnchanged, TypeParts DEF Join
<1>3. QED
  BY <1>1, <1>2, FallStep, QuitStep, KillStep

\* The clock of a running duel advances to its limit and no further.
LEMMA SecondStep ==
    ASSUME IInv, NEW a \in Arenas, Second(a)
    PROVE  IInv'
<1>1. elapsed[a] # NotStarted /\ elapsed[a] \in 0..DuelTime
  BY DEF IInv, TypeOK, ArenasOK, ArenaOK, Second
<1>2. elapsed[a] + 1 \in 0..DuelTime /\ elapsed[a] + 1 # NotStarted
  BY <1>1, TimesAssumption DEF Second, NotStarted
<1>3. ArenaTypeOK'
  BY <1>2 DEF IInv, TypeOK, ArenaTypeOK, Second
<1>4. OtherTypeOK'
  BY DEF IInv, TypeOK, OtherTypeOK, Second, queueVars, formVars, itemVars
<1>5. ASSUME NEW b \in Arenas PROVE ArenaOK(b)'
  <2>1. CASE b # a
    BY <2>1 DEF IInv, TypeOK, ArenasOK, ArenaOK, Second, BothSlots, NoSlots
  <2>2. CASE b = a
    BY <1>2, <2>2 DEF IInv, TypeOK, ArenasOK, ArenaOK, Second, BothSlots, NoSlots
  <2>3. QED
    BY <2>1, <2>2
<1>6. QED
  BY <1>3, <1>4, <1>5, TypeParts DEF ArenasOK

\* After a shutdown the server starts as it did first, but with its worlds and
\* its players' belongings as they were left.
LEMMA RestartStep ==
    ASSUME IInv, Restart
    PROVE  IInv'
<1>1. \A p \in Players : saved[p].items \in SUBSET Items
  BY DEF IInv, TypeOK, Saved
<1>2. holding' \in [Players -> SUBSET Items]
  BY <1>1 DEF IInv, TypeOK, Restart
<1>3. NotSaved \in Saved /\ NoRequest \in Request /\ NoForm \in Form /\ NoResult \in Result
  BY MenuForType DEF NotSaved, Saved, Request
<1>4. OtherTypeOK'
  <2>1. << >> \in Seq(Players)
    BY EmptySeq
  <2>2. QED
    BY <1>2, <1>3, <2>1 DEF IInv, TypeOK, OtherTypeOK, Restart
<1>5. CountdownTicks \in 1..CountdownTicks
  BY TimesAssumption
<1>6. ArenaTypeOK'
  BY <1>5 DEF ArenaTypeOK, Restart, Vacant, Status
<1>7. ASSUME NEW a \in Arenas PROVE ArenaOK(a)'
  <2>1. NoSlots(a)' /\ ~BothSlots(a)'
    BY DEF Restart, NoSlots, BothSlots, Vacant, Sides
  <2>2. QED
    BY <1>5, <2>1 DEF Restart, ArenaOK
<1>8. QED
  BY <1>4, <1>6, <1>7, TypeParts DEF ArenasOK

-----------------------------------------------------------------------------
(* The theorems. *)

\* The inductive invariant holds when the server starts with no duel.
LEMMA InitIInv == Init => IInv
<1> SUFFICES ASSUME Init PROVE IInv
  OBVIOUS
<1>1. NotSaved \in Saved /\ NoRequest \in Request /\ NoForm \in Form /\ NoResult \in Result
  BY MenuForType DEF NotSaved, Saved, Request
<1>2. CountdownTicks \in 1..CountdownTicks /\ 1 \in 1..(NumTypes + NumArenas)
  BY TimesAssumption, CountsAssumption
<1>3. << >> \in Seq(Players)
  BY EmptySeq
<1>4. TypeOK
  BY <1>1, <1>2, <1>3 DEF Init, TypeOK, Status, Items
<1>5. ASSUME NEW a \in Arenas PROVE ArenaOK(a)
  <2>1. NoSlots(a) /\ ~BothSlots(a)
    BY DEF Init, NoSlots, BothSlots, Sides
  <2>2. QED
    BY <1>2, <2>1 DEF Init, ArenaOK
<1>6. QED
  BY <1>4, <1>5 DEF IInv, ArenasOK

\* Every step, shutdowns included, preserves the inductive invariant.
LEMMA NextIInv == IInv /\ [NextWithRestart]_vars => IInv'
<1> SUFFICES ASSUME IInv, [NextWithRestart]_vars PROVE IInv'
  OBVIOUS
<1>1. CASE DuelTask
  BY <1>1, MatchQueueStep, TickArenaStep DEF DuelTask
<1>2. CASE Command
  BY <1>2, CommandStep
<1>3. CASE Event
  BY <1>3, EventStep
<1>4. CASE Clock
  BY <1>4, SecondStep DEF Clock
<1>5. CASE Restart
  BY <1>5, RestartStep
<1>6. CASE UNCHANGED vars
  BY <1>6 DEF vars, IInv, TypeOK, ArenasOK, ArenaOK, BothSlots, NoSlots
<1>7. QED
  BY <1>1, <1>2, <1>3, <1>4, <1>5, <1>6 DEF NextWithRestart, Next

\* The inductive invariant holds throughout, shutdowns and starts included.
THEOREM Inductive == SpecWithRestart => []IInv
<1>1. Init => IInv
  BY InitIInv
<1>2. IInv /\ [NextWithRestart]_vars => IInv'
  BY NextIInv
<1>3. QED
  BY <1>1, <1>2, PTL DEF SpecWithRestart

\* A server that is never shut down is a special case.
LEMMA SpecIsSpecial == Spec => SpecWithRestart
<1>1. [Next]_vars => [NextWithRestart]_vars
  BY DEF NextWithRestart
<1>2. QED
  BY <1>1, PTL DEF Spec, SpecWithRestart

\* Every variable keeps its type: among others a countdown never passes 0 or
\* starts from anything but its full length, and a form's type is a duel type.
THEOREM TypeCorrect == Spec => []TypeOK
<1>1. IInv => TypeOK
  BY DEF IInv
<1>2. QED
  BY <1>1, Inductive, SpecIsSpecial, PTL

\* An ongoing duel has two different players in its slots.
THEOREM TwoSides == Spec => []OngoingDuelHasTwoSides
<1>1. IInv => OngoingDuelHasTwoSides
  BY DEF IInv, ArenasOK, ArenaOK, OngoingDuelHasTwoSides
<1>2. QED
  BY <1>1, Inductive, SpecIsSpecial, PTL

\* A duel is won at most once.
THEOREM OneWin == Spec => []WonAtMostOnce
<1>1. IInv => WonAtMostOnce
  BY DEF IInv, ArenasOK, ArenaOK, WonAtMostOnce
<1>2. QED
  BY <1>1, Inductive, SpecIsSpecial, PTL

-----------------------------------------------------------------------------
(***************************************************************************)
(* The duel system implements DuelLifecycle.  The refinement mapping reads  *)
(* an arena's phase off gameStatus, the slots and startTime, its pair off   *)
(* the names in the slots.  The invariant IInv says what makes the mapped   *)
(* steps legal: an ongoing duel has both slots set, by two names, and no    *)
(* win yet.                                                                 *)
(***************************************************************************)

Pair(a) == {p \in Players : IsPlaying(a, p)}

\* What DuelLifecycle sees of the arenas.
Phases == [a \in Arenas |-> PhaseOf(a)]
Pairs  == [a \in Arenas |-> Pair(a)]
Seen   == <<Phases, Pairs, wins>>

\* What a step that is invisible, or visible in one arena, leaves as it was.
SlotsKept(a) == \A i \in Sides : /\ playing'[a][i].name = playing[a][i].name
                                 /\ playing'[a][i] = EmptySlot <=> playing[a][i] = EmptySlot
ArenaKept(a) == PhaseOf(a)' = PhaseOf(a) /\ Pair(a)' = Pair(a)

-----------------------------------------------------------------------------
(* The mapped state after a step. *)

\* Names and empty slots decide the pair and whether the arena is free.
LEMMA KeptSlots ==
    ASSUME NEW a \in Arenas, SlotsKept(a)
    PROVE  /\ Pair(a)' = Pair(a)
           /\ NoSlots(a)' <=> NoSlots(a)
           /\ BothSlots(a)' <=> BothSlots(a)
BY DEF SlotsKept, Pair, IsPlaying, NoSlots, BothSlots

\* An arena nothing relevant happens to is kept.
LEMMA KeptArena ==
    ASSUME NEW a \in Arenas, SlotsKept(a),
           status'[a] = status[a], elapsed'[a] = elapsed[a]
    PROVE  ArenaKept(a)
BY KeptSlots DEF ArenaKept, PhaseOf

\* When every arena is kept the step is invisible.
LEMMA Invisible ==
    ASSUME \A a \in Arenas : ArenaKept(a), wins' = wins
    PROVE  UNCHANGED Seen
BY DEF ArenaKept, Seen, Phases, Pairs

\* When all arenas but one are kept, that one moves.
LEMMA OneMoves ==
    ASSUME NEW a \in Arenas, \A b \in Arenas \ {a} : ArenaKept(b)
    PROVE  /\ Phases' = [Phases EXCEPT ![a] = PhaseOf(a)']
           /\ Pairs' = [Pairs EXCEPT ![a] = Pair(a)']
BY DEF ArenaKept, Phases, Pairs

\* The lifecycle's variables are what it sees.
LEMMA Mapping ==
    Lifecycle!lifecycleVars = Seen
BY DEF Lifecycle!lifecycleVars, Seen, Phases, Pairs, Pair

-----------------------------------------------------------------------------
(* Each visible step, in terms of the arena it concerns. *)

\* The countdown of a reserved arena's pair begins.
LEMMA Begins ==
    ASSUME NEW a \in Arenas, \A b \in Arenas \ {a} : ArenaKept(b),
           PhaseOf(a) = "reserved", PhaseOf(a)' = "countdown",
           NEW p \in Pair(a), NEW q \in Pair(a), p # q, Pair(a)' = Pair(a), wins' = wins
    PROVE  Lifecycle!LifecycleNext
<1>1. Phases' = [Phases EXCEPT ![a] = "countdown"] /\ Pairs' = Pairs
  BY OneMoves DEF Pairs
<1>2. Phases[a] = "reserved" /\ p \in Pairs[a] /\ q \in Pairs[a]
  BY DEF Phases, Pairs
<1>3. Lifecycle!Begin(a)
  BY <1>1, <1>2 DEF Lifecycle!Begin, Lifecycle!Go, Phases, Pairs, Pair
<1>4. QED
  BY <1>3 DEF Lifecycle!LifecycleNext, Lifecycle!Arenas, Arenas

\* The countdown is over.
LEMMA Fights ==
    ASSUME NEW a \in Arenas, \A b \in Arenas \ {a} : ArenaKept(b),
           PhaseOf(a) = "countdown", PhaseOf(a)' = "active",
           Pair(a)' = Pair(a), wins' = wins
    PROVE  Lifecycle!LifecycleNext
<1>1. Phases' = [Phases EXCEPT ![a] = "active"] /\ Pairs' = Pairs
  BY OneMoves DEF Pairs
<1>2. Phases[a] = "countdown"
  BY DEF Phases
<1>3. Lifecycle!Fight(a)
  BY <1>1, <1>2 DEF Lifecycle!Fight, Lifecycle!Go, Phases, Pairs, Pair
<1>4. QED
  BY <1>3 DEF Lifecycle!LifecycleNext, Lifecycle!Arenas, Arenas

\* A pair, or one name, takes a free arena.
LEMMA Reserves ==
    ASSUME NEW a \in Arenas, \A b \in Arenas \ {a} : ArenaKept(b),
           PhaseOf(a) = "free", PhaseOf(a)' = "reserved",
           NEW p \in Players, NEW q \in Players, Pair(a)' = {p, q},
           wins' = [wins EXCEPT ![a] = 0]
    PROVE  Lifecycle!LifecycleNext
<1>1. Phases' = [Phases EXCEPT ![a] = "reserved"] /\ Pairs' = [Pairs EXCEPT ![a] = {p, q}]
  BY OneMoves
<1>2. Phases[a] = "free"
  BY DEF Phases
<1>3. Lifecycle!Reserve(a)
  BY <1>1, <1>2 DEF Lifecycle!Reserve, Lifecycle!Go, Phases, Pairs, Pair
<1>4. QED
  BY <1>3 DEF Lifecycle!LifecycleNext, Lifecycle!Arenas, Arenas

\* A running duel is decided, or its time is over.
LEMMA Finishes ==
    ASSUME NEW a \in Arenas, \A b \in Arenas \ {a} : ArenaKept(b),
           PhaseOf(a) = "active", PhaseOf(a)' = "over", Pair(a)' = Pair(a),
           NEW w \in {0, 1}, wins' = [wins EXCEPT ![a] = w]
    PROVE  Lifecycle!LifecycleNext
<1>1. Phases' = [Phases EXCEPT ![a] = "over"] /\ Pairs' = Pairs
  BY OneMoves DEF Pairs
<1>2. Phases[a] = "active"
  BY DEF Phases
<1>3. Lifecycle!Finish(a)
  BY <1>1, <1>2 DEF Lifecycle!Finish, Lifecycle!Go, Phases, Pairs, Pair
<1>4. QED
  BY <1>3 DEF Lifecycle!LifecycleNext, Lifecycle!Arenas, Arenas

\* The arena is free at once when somebody left an ongoing duel.
LEMMA Forfeits ==
    ASSUME NEW a \in Arenas, \A b \in Arenas \ {a} : ArenaKept(b),
           PhaseOf(a) \in {"countdown", "active"}, PhaseOf(a)' = "free", Pair(a)' = {},
           NEW w \in {0, 1}, wins' = [wins EXCEPT ![a] = w]
    PROVE  Lifecycle!LifecycleNext
<1>1. Phases' = [Phases EXCEPT ![a] = "free"] /\ Pairs' = [Pairs EXCEPT ![a] = {}]
  BY OneMoves
<1>2. Phases[a] \in {"countdown", "active"}
  BY DEF Phases
<1>3. Lifecycle!Forfeit(a)
  BY <1>1, <1>2 DEF Lifecycle!Forfeit, Lifecycle!Go, Phases, Pairs, Pair
<1>4. QED
  BY <1>3 DEF Lifecycle!LifecycleNext, Lifecycle!Arenas, Arenas

\* The arena of a finished duel is emptied.
LEMMA Clears ==
    ASSUME NEW a \in Arenas, \A b \in Arenas \ {a} : ArenaKept(b),
           PhaseOf(a) = "over", PhaseOf(a)' = "free", Pair(a)' = {}, wins' = wins
    PROVE  Lifecycle!LifecycleNext
<1>1. Phases' = [Phases EXCEPT ![a] = "free"] /\ Pairs' = [Pairs EXCEPT ![a] = {}]
  BY OneMoves
<1>2. Phases[a] = "over"
  BY DEF Phases
<1>3. Lifecycle!Clear(a)
  BY <1>1, <1>2 DEF Lifecycle!Clear, Lifecycle!Go, Phases, Pairs, Pair
<1>4. QED
  BY <1>3 DEF Lifecycle!LifecycleNext, Lifecycle!Arenas, Arenas

-----------------------------------------------------------------------------
(* Each action of the duel system is a step of the lifecycle or invisible. *)

LifecycleStep == Lifecycle!LifecycleNext \/ UNCHANGED Seen

\* Slots, status and start time as they were, in every arena.
LEMMA Quiet ==
    ASSUME \A a \in Arenas : SlotsKept(a), UNCHANGED <<status, elapsed, wins>>
    PROVE  LifecycleStep
BY KeptArena, Invisible DEF LifecycleStep

\* startDuel takes a free arena for one or two names.
LEMMA StartDuelReserves ==
    ASSUME IInv, NEW t, NEW a \in FreeArenas(t), NEW p \in Players, NEW q \in Players,
           StartDuel(a, t, p, q)
    PROVE  LifecycleStep
<1>1. a \in Arenas /\ NoSlots(a) /\ status[a] = "INACTIVE"
  BY DEF FreeArenas
<1>2. ASSUME NEW b \in Arenas \ {a} PROVE ArenaKept(b)
  <2>1. playing'[b] = playing[b] /\ status'[b] = status[b] /\ elapsed'[b] = elapsed[b]
    BY DEF StartDuel, IInv, TypeOK
  <2>2. QED
    BY <2>1, KeptArena DEF SlotsKept
<1>3. /\ playing'[a][0] = Live(p)
      /\ playing'[a][1] = IF q = p THEN EmptySlot ELSE Live(q)
  BY <1>1 DEF StartDuel, IInv, TypeOK, Sides
<1>4. Pair(a)' = {p, q}
  BY <1>3, NobodyAssumption DEF Pair, IsPlaying, Live, EmptySlot, Sides
<1>5. PhaseOf(a) = "free"
  BY <1>1 DEF PhaseOf
<1>6. PhaseOf(a)' = "reserved"
  <2>1. ~NoSlots(a)'
    BY <1>3, NobodyAssumption DEF NoSlots, Live, EmptySlot, Sides
  <2>2. status'[a] = "INACTIVE" /\ elapsed'[a] = NotStarted
    BY <1>1 DEF StartDuel, IInv, TypeOK
  <2>3. QED
    BY <2>1, <2>2 DEF PhaseOf
<1>7. QED
  BY <1>1, <1>2, <1>4, <1>5, <1>6, Reserves DEF LifecycleStep, StartDuel

\* A queue entry examined by DuelTask.
LEMMA MatchQueueSeen ==
    ASSUME IInv, NEW t \in Types, MatchQueue(t)
    PROVE  LifecycleStep
<1>1. CASE UNCHANGED <<arenaVars, wins>>
  BY <1>1, Quiet DEF arenaVars, SlotsKept
<1>2. CASE CanMatch(t) /\ \E a \in FreeArenas(t) :
               StartDuel(a, t, queue[t][1], queue[t][2])
  <2>1. queue[t] \in Seq(Players)
    BY DEF IInv, TypeOK
  <2>2. queue[t][1] \in Players /\ queue[t][2] \in Players
    BY <1>2, <2>1, LenProperties, ElementOfSeq DEF CanMatch
  <2>3. QED
    BY <1>2, <2>2, StartDuelReserves
<1>3. QED
  BY <1>1, <1>2 DEF MatchQueue

\* A challenge issued, or accepted.
LEMMA AcceptOrChallengeSeen ==
    ASSUME IInv, NEW p \in Players, NEW q \in Players, NEW t \in Types,
           AcceptOrChallenge(p, q, t)
    PROVE  LifecycleStep
<1>1. CASE UNCHANGED <<arenaVars, wins>>
  BY <1>1, Quiet DEF arenaVars, SlotsKept
<1>2. CASE \E a \in FreeArenas(request[q].type) : StartDuel(a, request[q].type, p, q)
  BY <1>2, StartDuelReserves
<1>3. QED
  BY <1>1, <1>2 DEF AcceptOrChallenge

\* What a player does with a form or a command: only a challenge accepted shows.
LEMMA CommandSeen ==
    ASSUME IInv, Command
    PROVE  LifecycleStep
<1> PICK p \in Players :
        \/ OpenMenu(p) \/ ResultOpensMenu(p) \/ Rematch(p) \/ CloseForm(p)
        \/ LeaveQueue(p) \/ Unspectate(p) \/ ChooseSpectate(p) \/ JoinQueue(p)
        \/ \E q \in Players, t \in Types : DuelCommand(p, q, t)
        \/ \E t \in Types : ChooseType(p, t)
        \/ \E a \in Arenas : Spectate(p, a)
  BY DEF Command
<1>1. ASSUME UNCHANGED <<playing, status, elapsed, wins>> PROVE LifecycleStep
  BY <1>1, Quiet DEF SlotsKept
<1>2. ASSUME OpenMenu(p) \/ ResultOpensMenu(p) \/ CloseForm(p) PROVE LifecycleStep
  BY <1>1, <1>2 DEF OpenMenu, ResultOpensMenu, CloseForm, arenaVars
<1>3. ASSUME LeaveQueue(p) \/ JoinQueue(p) \/ ChooseSpectate(p) PROVE LifecycleStep
  BY <1>1, <1>3 DEF LeaveQueue, JoinQueue, ChooseSpectate, arenaVars
<1>4. ASSUME Unspectate(p) PROVE LifecycleStep
  BY <1>1, <1>4 DEF Unspectate
<1>5. ASSUME NEW t \in Types, ChooseType(p, t) PROVE LifecycleStep
  BY <1>1, <1>5 DEF ChooseType, arenaVars
<1>6. ASSUME NEW a \in Arenas, Spectate(p, a) PROVE LifecycleStep
  BY <1>1, <1>6 DEF Spectate
<1>7. ASSUME NEW q \in Players, NEW t \in Types, DuelCommand(p, q, t) PROVE LifecycleStep
  BY <1>7, AcceptOrChallengeSeen DEF DuelCommand
<1>8. ASSUME Rematch(p) PROVE LifecycleStep
  <2>1. result[p].opponent \in Players /\ result[p].type \in Types
    BY <1>8 DEF Rematch, IInv, TypeOK, Result, NoResult
  <2>2. QED
    BY <1>8, <2>1, AcceptOrChallengeSeen DEF Rematch
<1>9. QED
  BY <1>2, <1>3, <1>4, <1>5, <1>6, <1>7, <1>8

\* Two slots that are set hold two names of the pair.
LEMMA TwoNames ==
    ASSUME IInv, NEW a \in Arenas, BothSlots(a)
    PROVE  \E p, q \in Pair(a) : p # q
<1>1. 0 \in Sides /\ 1 \in Sides
  BY DEF Sides
<1>2. playing[a][0] \in PlayerObject /\ playing[a][1] \in PlayerObject
  BY <1>1 DEF IInv, TypeOK, BothSlots
<1>3. playing[a][0].name \in Pair(a) /\ playing[a][1].name \in Pair(a)
  BY <1>1, <1>2 DEF Pair, IsPlaying, PlayerObject
<1>4. playing[a][0].name # playing[a][1].name
  BY DEF IInv, ArenasOK, ArenaOK
<1>5. QED
  BY <1>3, <1>4

\* A duel that counts down or runs shows as such, and nobody has won it.
LEMMA Ongoing ==
    ASSUME IInv, NEW a \in Arenas, status[a] # "INACTIVE"
    PROVE  /\ BothSlots(a) /\ ~NoSlots(a) /\ wins[a] = 0
           /\ status[a] = "COUNTDOWN" => PhaseOf(a) = "countdown"
           /\ status[a] = "ACTIVE" => PhaseOf(a) = "active" /\ elapsed[a] # NotStarted
           /\ PhaseOf(a) \in {"countdown", "active"}
<1>1. BothSlots(a) /\ wins[a] = 0
  BY DEF IInv, ArenasOK, ArenaOK
<1>2. ~NoSlots(a)
  BY <1>1 DEF BothSlots, NoSlots, Sides
<1>3. status[a] = "COUNTDOWN" \/ status[a] = "ACTIVE"
  BY DEF IInv, TypeOK, Status
<1>4. status[a] = "ACTIVE" => elapsed[a] # NotStarted
  BY DEF IInv, ArenasOK, ArenaOK
<1>5. QED
  BY <1>1, <1>2, <1>3, <1>4 DEF PhaseOf

\* An arena whose slots are emptied is free, and has no pair.
LEMMA Emptied ==
    ASSUME NEW a \in Arenas, \A i \in Sides : playing'[a][i] = EmptySlot
    PROVE  PhaseOf(a)' = "free" /\ Pair(a)' = {}
<1>1. NoSlots(a)'
  BY DEF NoSlots
<1>2. Pair(a)' = {}
  BY NobodyAssumption DEF Pair, IsPlaying, EmptySlot
<1>3. QED
  BY <1>1, <1>2 DEF PhaseOf

\* Where only one entry of the status and of the start time is written, the
\* other arenas are kept.
LEMMA OthersKept ==
    ASSUME IInv, NEW a \in Arenas, NEW b \in Arenas \ {a}, SlotsKept(b),
           NEW s, status' = [status EXCEPT ![a] = s] \/ status' = status,
           NEW e, elapsed' = [elapsed EXCEPT ![a] = e] \/ elapsed' = elapsed
    PROVE  ArenaKept(b)
<1>1. status'[b] = status[b] /\ elapsed'[b] = elapsed[b]
  BY DEF IInv, TypeOK
<1>2. QED
  BY <1>1, KeptArena

\* A running duel that ends with its players still in the arena.
LEMMA DecidedSeen ==
    ASSUME IInv, NEW a \in Arenas, status[a] = "ACTIVE", Ended(a),
           wins' = [wins EXCEPT ![a] = @ + 1] \/ wins' = wins,
           UNCHANGED <<playing, elapsed>>
    PROVE  LifecycleStep
<1>1. PhaseOf(a) = "active" /\ ~NoSlots(a) /\ wins[a] = 0 /\ elapsed[a] # NotStarted
  BY Ongoing
<1>2. \A b \in Arenas : SlotsKept(b)
  BY DEF SlotsKept
<1>3. \A b \in Arenas \ {a} : ArenaKept(b)
  BY <1>2, OthersKept DEF Ended
<1>4. Pair(a)' = Pair(a) /\ ~NoSlots(a)'
  BY <1>1, <1>2, KeptSlots
<1>5. status'[a] = "INACTIVE"
  BY DEF Ended, IInv, TypeOK
<1>6. PhaseOf(a)' = "over"
  BY <1>1, <1>4, <1>5 DEF PhaseOf
<1>7. \E w \in {0, 1} : wins' = [wins EXCEPT ![a] = w]
  <2>1. CASE wins' = [wins EXCEPT ![a] = wins[a] + 1]
    BY <1>1, <2>1
  <2>2. CASE wins' = wins
    BY <1>1, <2>2 DEF IInv, TypeOK
  <2>3. QED
    BY <2>1, <2>2
<1>8. QED
  BY <1>1, <1>3, <1>4, <1>6, <1>7, Finishes DEF LifecycleStep

\* The clearing tick: the arena of a duel that is over, or that ended just now
\* because a player's object closed.
LEMMA TickClearSeen ==
    ASSUME IInv, NEW a \in Arenas, TickClear(a)
    PROVE  LifecycleStep
<1>1. BothSlots(a) /\ ~NoSlots(a) /\ elapsed[a] # NotStarted
  BY DEF TickClear, ToClear, BothSlots, NoSlots, Sides
<1>2. playing' = [playing EXCEPT ![a] = Vacant] /\ elapsed' = elapsed /\ wins' = wins
  BY DEF TickClear
<1>3. ASSUME NEW b \in Arenas \ {a} PROVE ArenaKept(b)
  <2>1. SlotsKept(b)
    BY <1>2 DEF SlotsKept, IInv, TypeOK
  <2>2. status' = [status EXCEPT ![a] = "INACTIVE"]
    BY DEF TickClear, Ended
  <2>3. QED
    BY <1>2, <2>1, <2>2, OthersKept
<1>4. \A i \in Sides : playing'[a][i] = EmptySlot
  BY <1>2 DEF IInv, TypeOK, Vacant
<1>5. PhaseOf(a)' = "free" /\ Pair(a)' = {}
  BY <1>4, Emptied
<1>6. CASE status[a] = "INACTIVE"
  <2>1. PhaseOf(a) = "over"
    BY <1>1, <1>6 DEF PhaseOf
  <2>2. QED
    BY <1>2, <1>3, <1>5, <2>1, Clears DEF LifecycleStep
<1>7. CASE status[a] # "INACTIVE"
  <2>1. PhaseOf(a) \in {"countdown", "active"} /\ wins[a] = 0
    BY <1>7, Ongoing
  <2>2. wins' = [wins EXCEPT ![a] = 0]
    BY <1>2, <2>1 DEF IInv, TypeOK
  <2>3. QED
    BY <1>3, <1>5, <2>1, <2>2, Forfeits DEF LifecycleStep
<1>8. QED
  BY <1>6, <1>7

\* The tick of one arena.
LEMMA TickArenaSeen ==
    ASSUME IInv, NEW a \in Arenas, TickArena(a)
    PROVE  LifecycleStep
<1>1. ASSUME TickThrows(a) PROVE LifecycleStep
  BY <1>1, Quiet DEF TickThrows, arenaVars, SlotsKept
<1>2. ASSUME TickWaiting(a) PROVE LifecycleStep
  <2>1. status[a] = "INACTIVE"
    BY <1>2, Ongoing DEF TickWaiting
  <2>2. status' = status
    BY <1>2, <2>1 DEF TickWaiting, Ended, IInv, TypeOK
  <2>3. QED
    BY <1>2, <2>2, Quiet DEF TickWaiting, SlotsKept
<1>3. ASSUME TickBegin(a) PROVE LifecycleStep
  <2>1. BothSlots(a) /\ ~NoSlots(a) /\ elapsed[a] = NotStarted /\ status[a] = "INACTIVE"
    BY <1>3 DEF TickBegin, ToClear, BothSlots, NoSlots, Sides
  <2>2. \A b \in Arenas : SlotsKept(b)
    BY <1>3 DEF TickBegin, SlotsKept
  <2>3. \A b \in Arenas \ {a} : ArenaKept(b)
    BY <1>3, <2>2, OthersKept DEF TickBegin
  <2>4. PhaseOf(a) = "reserved"
    BY <2>1 DEF PhaseOf
  <2>5. Pair(a)' = Pair(a) /\ ~NoSlots(a)'
    BY <2>1, <2>2, KeptSlots
  <2>6. status'[a] = "COUNTDOWN"
    BY <1>3 DEF TickBegin, IInv, TypeOK
  <2>7. PhaseOf(a)' = "countdown"
    BY <2>5, <2>6 DEF PhaseOf
  <2>8. \E p, q \in Pair(a) : p # q
    BY <2>1, TwoNames
  <2>9. wins' = wins
    BY <1>3 DEF TickBegin
  <2>10. QED
    BY <2>3, <2>4, <2>5, <2>7, <2>8, <2>9, Begins DEF LifecycleStep
<1>4. ASSUME TickCountdown(a) PROVE LifecycleStep
  <2>1. \A b \in Arenas : SlotsKept(b)
    BY <1>4 DEF TickCountdown, SlotsKept
  <2>2. CASE ~CountdownOver(a)
    BY <1>4, <2>1, <2>2, Quiet DEF TickCountdown
  <2>3. CASE CountdownOver(a)
    <3>1. PhaseOf(a) = "countdown" /\ ~NoSlots(a)
      BY <1>4, Ongoing DEF TickCountdown
    <3>2. \A b \in Arenas \ {a} : ArenaKept(b)
      BY <1>4, <2>1, <2>3, OthersKept DEF TickCountdown
    <3>3. Pair(a)' = Pair(a) /\ ~NoSlots(a)'
      BY <2>1, <3>1, KeptSlots
    <3>4. status'[a] = "ACTIVE"
      BY <1>4, <2>3 DEF TickCountdown, IInv, TypeOK
    <3>5. PhaseOf(a)' = "active"
      BY <3>3, <3>4 DEF PhaseOf
    <3>6. wins' = wins
      BY <1>4 DEF TickCountdown
    <3>7. QED
      BY <3>1, <3>2, <3>3, <3>5, <3>6, Fights DEF LifecycleStep
  <2>4. QED
    BY <2>2, <2>3
<1>5. ASSUME TickActive(a) PROVE LifecycleStep
  <2>1. CASE TimedOut(a)
    BY <1>5, <2>1, DecidedSeen DEF TickActive, Ended
  <2>2. CASE ~TimedOut(a)
    <3>1. status' = status
      BY <1>5, <2>2 DEF TickActive, IInv, TypeOK
    <3>2. QED
      BY <1>5, <3>1, Quiet DEF TickActive, SlotsKept
  <2>3. QED
    BY <2>1, <2>2
<1>6. QED
  BY <1>1, <1>2, <1>3, <1>4, <1>5, TickClearSeen DEF TickArena

\* A player who leaves without ending a duel stays the same name in a slot.
LEMMA CloseSeen ==
    ASSUME IInv, NEW p \in Players, NEW watchers \in [Arenas -> SUBSET PlayerObject],
           Disconnect(p, playing, watchers), UNCHANGED <<status, wins>>
    PROVE  LifecycleStep
<1>1. playing \in [Arenas -> [Sides -> PlayerObject \cup {EmptySlot}]]
  BY DEF IInv, TypeOK
<1>2. \A a \in Arenas : SlotsKept(a)
  BY <1>1, DisconnectArenas DEF SlotsKept
<1>3. QED
  BY <1>2, Quiet DEF Disconnect

\* Leaving the server during a duel forfeits it.
LEMMA QuitDuelSeen ==
    ASSUME IInv, NEW p \in Players, QuitDuel(p)
    PROVE  LifecycleStep
<1> PICK a \in Arenas : a = PlayerDuel(p)
  BY PlayerDuelIsOne DEF QuitDuel
<1> DEFINE slots == [playing EXCEPT ![a] = Vacant]
           watchers == [spectating EXCEPT ![a] = {}]
<1>1. status[a] # "INACTIVE" /\ Ended(a) /\ Disconnect(p, slots, watchers)
  BY DEF QuitDuel
<1>2. wins' = [wins EXCEPT ![a] = wins[a] + 1]
  BY DEF QuitDuel
<1>3. PhaseOf(a) \in {"countdown", "active"} /\ wins[a] = 0
  BY <1>1, Ongoing
<1>4. slots \in [Arenas -> [Sides -> PlayerObject \cup {EmptySlot}]]
  BY DEF IInv, TypeOK, Vacant
<1>5. watchers \in [Arenas -> SUBSET PlayerObject]
  BY DEF IInv, TypeOK
<1>6. \A b \in Arenas, i \in Sides :
          /\ playing'[b][i].name = slots[b][i].name
          /\ playing'[b][i] = EmptySlot <=> slots[b][i] = EmptySlot
  BY <1>1, <1>4, <1>5, DisconnectArenas
<1>7. ASSUME NEW b \in Arenas \ {a} PROVE ArenaKept(b)
  <2>1. slots[b] = playing[b]
    BY DEF IInv, TypeOK
  <2>2. SlotsKept(b)
    BY <1>6, <2>1 DEF SlotsKept
  <2>3. elapsed' = elapsed /\ status' = [status EXCEPT ![a] = "INACTIVE"]
    BY <1>1 DEF Disconnect, Ended
  <2>4. QED
    BY <2>2, <2>3, OthersKept
<1>8. \A i \in Sides : playing'[a][i] = EmptySlot
  <2>1. slots[a] = Vacant
    BY DEF IInv, TypeOK
  <2>2. QED
    BY <1>6, <2>1 DEF Vacant
<1>9. PhaseOf(a)' = "free" /\ Pair(a)' = {}
  BY <1>8, Emptied
<1>10. wins' = [wins EXCEPT ![a] = 1]
  BY <1>2, <1>3
<1>11. QED
  BY <1>3, <1>7, <1>9, <1>10, Forfeits DEF LifecycleStep

\* A player leaves the server, queued, in a duel, watching or idle.
LEMMA QuitSeen ==
    ASSUME IInv, NEW p \in Players, Quit(p)
    PROVE  LifecycleStep
<1>1. spectating \in [Arenas -> SUBSET PlayerObject]
  BY DEF IInv, TypeOK
<1>2. ASSUME QuitQueued(p) \/ QuitInactiveDuel(p) PROVE LifecycleStep
  BY <1>1, <1>2, CloseSeen DEF QuitQueued, QuitInactiveDuel
<1>3. ASSUME QuitOutside(p) PROVE LifecycleStep
  <2> DEFINE watchers ==
          IF SpectatedBy(p) # {}
          THEN [spectating EXCEPT ![Min(SpectatedBy(p))] =
                   {s \in spectating[Min(SpectatedBy(p))] : s.name # p}]
          ELSE spectating
  <2>1. watchers \in [Arenas -> SUBSET PlayerObject]
    BY <1>1, SpectatedIsOne
  <2>2. Disconnect(p, playing, watchers) /\ UNCHANGED <<status, wins>>
    BY <1>3 DEF QuitOutside
  <2>3. QED
    BY <2>1, <2>2, CloseSeen
<1>4. QED
  BY <1>2, <1>3, QuitDuelSeen DEF Quit

\* What happens to a player in the world.
LEMMA EventSeen ==
    ASSUME IInv, Event
    PROVE  LifecycleStep
<1> PICK p \in Players : \/ Fall(p) \/ BreakFloor(p) \/ Join(p) \/ Quit(p)
                         \/ \E k \in Players : Kill(p, k)
  BY DEF Event
<1>1. ASSUME BreakFloor(p) \/ Join(p) PROVE LifecycleStep
  BY <1>1, Quiet DEF BreakFloor, Join, arenaVars, SlotsKept
<1>2. ASSUME Fall(p) PROVE LifecycleStep
  BY <1>2, PlayerDuelIsOne, DecidedSeen DEF Fall
<1>3. ASSUME NEW k \in Players, Kill(p, k) PROVE LifecycleStep
  BY <1>3, PlayerDuelIsOne, DecidedSeen DEF Kill
<1>4. QED
  BY <1>1, <1>2, <1>3, QuitSeen

\* A second of a running duel shows nothing: its start time was set before.
LEMMA SecondSeen ==
    ASSUME IInv, NEW a \in Arenas, Second(a)
    PROVE  LifecycleStep
<1>1. elapsed[a] \in 0..DuelTime /\ elapsed[a] # NotStarted
  BY DEF Second, IInv, TypeOK, ArenasOK, ArenaOK
<1>2. elapsed'[a] # NotStarted
  BY <1>1 DEF Second, IInv, TypeOK, NotStarted
<1>3. ASSUME NEW b \in Arenas PROVE ArenaKept(b)
  <2>1. SlotsKept(b)
    BY DEF Second, SlotsKept
  <2>2. CASE b # a
    BY <2>1, <2>2, OthersKept DEF Second
  <2>3. CASE b = a
    <3>1. Pair(a)' = Pair(a) /\ (NoSlots(a)' <=> NoSlots(a)) /\ status' = status
      BY <2>1, <2>3, KeptSlots DEF Second
    <3>2. PhaseOf(a)' = PhaseOf(a)
      BY <1>1, <1>2, <3>1 DEF PhaseOf
    <3>3. QED
      BY <2>3, <3>1, <3>2 DEF ArenaKept
  <2>4. QED
    BY <2>2, <2>3
<1>4. QED
  BY <1>3, Invisible DEF LifecycleStep, Second

-----------------------------------------------------------------------------
(* The theorem. *)

\* The server starts with every arena free.
LEMMA InitSeen == Init => Lifecycle!LifecycleInit
<1> SUFFICES ASSUME Init PROVE Lifecycle!LifecycleInit
  OBVIOUS
<1>1. ASSUME NEW a \in Arenas PROVE PhaseOf(a) = "free" /\ Pair(a) = {}
  BY NobodyAssumption DEF Init, PhaseOf, Pair, NoSlots, IsPlaying, EmptySlot
<1>2. wins = [a \in Arenas |-> 0]
  BY DEF Init
<1>3. QED
  BY <1>1, <1>2 DEF Lifecycle!LifecycleInit, Lifecycle!Arenas, Arenas, Pair

\* A step of the server is a step of the lifecycle of one arena, or shows nothing.
LEMMA NextSeen == IInv /\ [Next]_vars => [Lifecycle!LifecycleNext]_(Lifecycle!lifecycleVars)
<1> SUFFICES ASSUME IInv, [Next]_vars PROVE LifecycleStep
  BY Mapping DEF LifecycleStep, Lifecycle!lifecycleVars, Seen, Phases, Pairs, Pair
<1>1. CASE DuelTask
  BY <1>1, MatchQueueSeen, TickArenaSeen DEF DuelTask
<1>2. CASE Command
  BY <1>2, CommandSeen
<1>3. CASE Event
  BY <1>3, EventSeen
<1>4. CASE Clock
  BY <1>4, SecondSeen DEF Clock
<1>5. CASE UNCHANGED vars
  BY <1>5, Quiet DEF vars, SlotsKept
<1>6. QED
  BY <1>1, <1>2, <1>3, <1>4, <1>5 DEF Next

\* The duel system keeps the arena's promise, whatever the number of players,
\* arenas and duel types: the pair in an arena is never exchanged, a duel that is
\* over never resumes, and the arena is free before the next pair takes it.
THEOREM Refinement == Spec => RefinesLifecycle
<1>1. Spec => []IInv
  BY Inductive, SpecIsSpecial, PTL
<1>2. Init => Lifecycle!LifecycleInit
  BY InitSeen
<1>3. IInv /\ [Next]_vars => [Lifecycle!LifecycleNext]_(Lifecycle!lifecycleVars)
  BY NextSeen
<1>4. QED
  BY <1>1, <1>2, <1>3, PTL DEF Spec, RefinesLifecycle, Lifecycle!LifecycleSpec

-----------------------------------------------------------------------------
(***************************************************************************)
(* The waiting queues: nobody waits twice, and nobody waits who has left.   *)
(* Neither holds by itself.  quitQueue removes one entry only, so that a    *)
(* player who leaves is out of the queues because they waited once; and the *)
(* forms join a queue without looking whether the player is connected, so   *)
(* that open forms, and the live objects in the arenas whose duels end with *)
(* such a form, belong to connected players: ClientsOnline.                 *)
(***************************************************************************)

UniqueIn(q) == \A t, u \in Types : \A i \in DOMAIN q[t], j \in DOMAIN q[u] :
                   q[t][i] = q[u][j] => t = u /\ i = j
Waits(q, p) == \E t \in Types : \E i \in DOMAIN q[t] : q[t][i] = p

\* s is r without some of its entries.
Selected(s, r) == \E f \in [DOMAIN s -> DOMAIN r] :
    /\ \A i, j \in DOMAIN s : f[i] = f[j] => i = j
    /\ \A i \in DOMAIN s : s[i] = r[f[i]]

\* Forms are open at, and live objects belong to, players who are connected.
ClientsOnline ==
    /\ \A p \in Players : form[p] # NoForm \/ result[p] # NoResult => p \in online
    /\ \A a \in Arenas, i \in Sides : playing[a][i].live => playing[a][i].name \in online

QueueInv == QueuedOnceAndOnline /\ ClientsOnline

-----------------------------------------------------------------------------
(* Sequences. *)

\* What is at each place once one entry is gone.
LEMMA RemoveAtEntries ==
    ASSUME NEW T, NEW s \in Seq(T), NEW k \in 1..Len(s)
    PROVE  /\ RemoveAt(s, k) \in Seq(T)
           /\ DOMAIN RemoveAt(s, k) = 1..(Len(s) - 1)
           /\ \A i \in 1..(Len(s) - 1) :
                  RemoveAt(s, k)[i] = IF i < k THEN s[i] ELSE s[i + 1]
<1> DEFINE a == SubSeq(s, 1, k - 1)
           b == SubSeq(s, k + 1, Len(s))
<1>1. Len(s) \in Nat /\ k \in Nat /\ \A i \in 1..Len(s) : s[i] \in T
  BY LenProperties, ElementOfSeq
<1>2. /\ a \in Seq(T) /\ Len(a) = k - 1
      /\ \A i \in 1..(k - 1) : a[i] = s[i]
  <2>1. \A i \in 1..(k - 1) : s[i] \in T
    BY <1>1
  <2>2. 1 \in Int /\ k - 1 \in Int
    BY <1>1
  <2>3. /\ a \in Seq(T)
        /\ Len(a) = IF 1 <= k - 1 THEN (k - 1) - 1 + 1 ELSE 0
        /\ \A i \in 1..((k - 1) - 1 + 1) : a[i] = s[1 + i - 1]
    BY <2>1, <2>2, SubSeqProperties
  <2>4. QED
    BY <1>1, <2>3
<1>3. /\ b \in Seq(T) /\ Len(b) = Len(s) - k
      /\ \A i \in 1..(Len(s) - k) : b[i] = s[k + i]
  <2>1. \A i \in (k + 1)..Len(s) : s[i] \in T
    BY <1>1
  <2>2. k + 1 \in Int /\ Len(s) \in Int
    BY <1>1
  <2>3. /\ b \in Seq(T)
        /\ Len(b) = IF k + 1 <= Len(s) THEN Len(s) - (k + 1) + 1 ELSE 0
        /\ \A i \in 1..(Len(s) - (k + 1) + 1) : b[i] = s[(k + 1) + i - 1]
    BY <2>1, <2>2, SubSeqProperties
  <2>4. QED
    BY <1>1, <2>3
<1>4. RemoveAt(s, k) = a \o b
  BY DEF RemoveAt
<1> HIDE DEF a, b
<1>5. /\ a \o b \in Seq(T)
      /\ Len(a \o b) = Len(a) + Len(b)
      /\ \A i \in 1..(Len(a) + Len(b)) :
             (a \o b)[i] = IF i <= Len(a) THEN a[i] ELSE b[i - Len(a)]
  BY <1>2, <1>3, ConcatProperties
<1>6. DOMAIN (a \o b) = 1..(Len(s) - 1)
  BY <1>1, <1>2, <1>3, <1>5, LenProperties
<1>7. ASSUME NEW i \in 1..(Len(s) - 1)
      PROVE  (a \o b)[i] = IF i < k THEN s[i] ELSE s[i + 1]
  <2>1. (a \o b)[i] = IF i <= k - 1 THEN a[i] ELSE b[i - (k - 1)]
    BY <1>1, <1>2, <1>3, <1>5
  <2>2. CASE i < k
    BY <1>1, <1>2, <2>1, <2>2
  <2>3. CASE ~(i < k)
    <3>1. i - (k - 1) \in 1..(Len(s) - k) /\ k + (i - (k - 1)) = i + 1
      BY <1>1, <2>3
    <3>2. QED
      BY <1>1, <1>3, <2>1, <2>3, <3>1
  <2>4. QED
    BY <2>2, <2>3
<1>8. QED
  BY <1>4, <1>5, <1>6, <1>7

\* Taking one entry out selects the others, and not that one.
LEMMA RemoveAtSelects ==
    ASSUME NEW T, NEW s \in Seq(T), NEW k \in 1..Len(s)
    PROVE  /\ Selected(RemoveAt(s, k), s)
           /\ \A i \in DOMAIN RemoveAt(s, k) :
                  \E j \in DOMAIN s : j # k /\ RemoveAt(s, k)[i] = s[j]
<1> DEFINE r == RemoveAt(s, k)
           f == [i \in DOMAIN r |-> IF i < k THEN i ELSE i + 1]
<1>1. Len(s) \in Nat /\ DOMAIN s = 1..Len(s)
  BY LenProperties
<1>2. DOMAIN r = 1..(Len(s) - 1)
  BY RemoveAtEntries
<1>3. \A i \in DOMAIN r : r[i] = IF i < k THEN s[i] ELSE s[i + 1]
  BY <1>2, RemoveAtEntries
<1> HIDE DEF r
<1>4. f \in [DOMAIN r -> DOMAIN s]
  BY <1>1, <1>2
<1>5. \A i \in DOMAIN r : r[i] = s[f[i]] /\ f[i] # k
  BY <1>1, <1>2, <1>3
<1>6. \A i, j \in DOMAIN r : f[i] = f[j] => i = j
  BY <1>1, <1>2
<1> HIDE DEF f
<1>7. Selected(r, s)
  BY <1>4, <1>5, <1>6 DEF Selected
<1>8. \A i \in DOMAIN r : \E j \in DOMAIN s : j # k /\ r[i] = s[j]
  BY <1>4, <1>5
<1>9. QED
  BY <1>7, <1>8 DEF r

\* Taking the first two entries selects the others.
LEMMA TailSelects ==
    ASSUME NEW T, NEW s \in Seq(T), Len(s) >= 2
    PROVE  Selected(SubSeq(s, 3, Len(s)), s)
<1> DEFINE r == SubSeq(s, 3, Len(s))
           f == [i \in DOMAIN r |-> i + 2]
<1>1. Len(s) \in Nat /\ DOMAIN s = 1..Len(s) /\ \A i \in 1..Len(s) : s[i] \in T
  BY LenProperties, ElementOfSeq
<1>2. /\ r \in Seq(T) /\ Len(r) = Len(s) - 2
      /\ \A i \in 1..(Len(s) - 2) : r[i] = s[i + 2]
  <2>1. \A i \in 3..Len(s) : s[i] \in T
    BY <1>1
  <2>2. /\ r \in Seq(T)
        /\ Len(r) = IF 3 <= Len(s) THEN Len(s) - 3 + 1 ELSE 0
        /\ \A i \in 1..(Len(s) - 3 + 1) : r[i] = s[3 + i - 1]
    BY <1>1, <2>1, SubSeqProperties
  <2>3. QED
    BY <1>1, <2>2
<1> HIDE DEF r
<1>3. DOMAIN r = 1..(Len(s) - 2)
  BY <1>2, LenProperties
<1>4. f \in [DOMAIN r -> DOMAIN s]
  BY <1>1, <1>3
<1>5. \A i \in DOMAIN r : r[i] = s[f[i]]
  BY <1>2, <1>3
<1>6. \A i, j \in DOMAIN r : f[i] = f[j] => i = j
  BY <1>3
<1> HIDE DEF f
<1>7. QED
  BY <1>4, <1>5, <1>6 DEF Selected, r

\* A sequence selects itself.
LEMMA SameSelects == \A s : Selected(s, s)
<1>1. TAKE s
<1> DEFINE f == [i \in DOMAIN s |-> i]
<1>2. f \in [DOMAIN s -> DOMAIN s] /\ \A i \in DOMAIN s : f[i] = i
  OBVIOUS
<1> HIDE DEF f
<1>3. QED
  BY <1>2 DEF Selected

\* Queues with fewer entries hold nobody twice either, and nobody new.
LEMMA SelectedUnique ==
    ASSUME NEW q, NEW r, UniqueIn(r), \A t \in Types : Selected(q[t], r[t])
    PROVE  UniqueIn(q) /\ \A p : Waits(q, p) => Waits(r, p)
<1>1. ASSUME NEW t \in Types, NEW u \in Types, NEW i \in DOMAIN q[t], NEW j \in DOMAIN q[u],
             q[t][i] = q[u][j]
      PROVE  t = u /\ i = j
  <2>1. PICK f \in [DOMAIN q[t] -> DOMAIN r[t]] :
            /\ \A k, l \in DOMAIN q[t] : f[k] = f[l] => k = l
            /\ \A k \in DOMAIN q[t] : q[t][k] = r[t][f[k]]
    BY DEF Selected
  <2>2. PICK g \in [DOMAIN q[u] -> DOMAIN r[u]] : \A k \in DOMAIN q[u] : q[u][k] = r[u][g[k]]
    BY DEF Selected
  <2>3. f[i] \in DOMAIN r[t] /\ g[j] \in DOMAIN r[u] /\ r[t][f[i]] = r[u][g[j]]
    BY <1>1, <2>1, <2>2
  <2>4. t = u
    BY <2>3 DEF UniqueIn
  <2>5. f[j] \in DOMAIN r[t] /\ r[t][f[i]] = r[t][f[j]]
    BY <1>1, <2>1, <2>4
  <2>6. f[i] = f[j]
    BY <2>3, <2>5 DEF UniqueIn
  <2>7. QED
    BY <2>1, <2>4, <2>6
<1>2. \A p : Waits(q, p) => Waits(r, p)
  BY DEF Waits, Selected
<1>3. QED
  BY <1>1, <1>2 DEF UniqueIn

-----------------------------------------------------------------------------
(* What the operations on the queues do. *)

\* quitQueue takes out the one entry there is.
LEMMA QuitQueueLeaves ==
    ASSUME TypeOK, UniqueIn(queue), NEW p
    PROVE  /\ UniqueIn(QuitQueue(p))
           /\ ~Waits(QuitQueue(p), p)
           /\ \A r : Waits(QuitQueue(p), r) => Waits(queue, r)
<1>1. CASE ~InQueue(p)
  <2>1. QuitQueue(p) = queue
    BY <1>1 DEF QuitQueue
  <2>2. ~Waits(queue, p)
    BY <1>1 DEF InQueue, PositionsOf, Waits
  <2>3. QED
    BY <2>1, <2>2
<1>2. CASE InQueue(p)
  <2> DEFINE t == Min({u \in Types : PositionsOf(p, u) # {}})
             k == Min(PositionsOf(p, t))
  <2>1. {u \in Types : PositionsOf(p, u) # {}} \in SUBSET Nat
    BY DEF Types
  <2>2. t \in Types /\ PositionsOf(p, t) # {}
    BY <1>2, <2>1, MinIsMember DEF InQueue
  <2>3. queue[t] \in Seq(Players)
    BY <2>2 DEF TypeOK
  <2>4. DOMAIN queue[t] = 1..Len(queue[t]) /\ Len(queue[t]) \in Nat
    BY <2>3, LenProperties
  <2>5. k \in 1..Len(queue[t]) /\ queue[t][k] = p
    <3>1. PositionsOf(p, t) \in SUBSET Nat
      BY <2>4 DEF PositionsOf
    <3>2. k \in PositionsOf(p, t)
      BY <2>2, <3>1, MinIsMember
    <3>3. QED
      BY <2>4, <3>2 DEF PositionsOf
  <2>6. QuitQueue(p) = [queue EXCEPT ![t] = RemoveAt(queue[t], k)]
    BY <1>2 DEF QuitQueue
  <2> HIDE DEF t, k
  <2>7. QuitQueue(p)[t] = RemoveAt(queue[t], k)
        /\ \A u \in Types : u # t => QuitQueue(p)[u] = queue[u]
    BY <2>2, <2>6 DEF TypeOK
  <2>8. \A u \in Types : Selected(QuitQueue(p)[u], queue[u])
    BY <2>3, <2>5, <2>7, RemoveAtSelects, SameSelects
  <2>9. UniqueIn(QuitQueue(p)) /\ \A r : Waits(QuitQueue(p), r) => Waits(queue, r)
    BY <2>8, SelectedUnique
  <2>10. ASSUME NEW u \in Types, NEW i \in DOMAIN QuitQueue(p)[u], QuitQueue(p)[u][i] = p
         PROVE  FALSE
    <3>1. CASE u = t
      <4>1. PICK j \in DOMAIN queue[t] : j # k /\ queue[t][j] = p
        BY <2>3, <2>5, <2>7, <2>10, <3>1, RemoveAtSelects
      <4>2. QED
        BY <2>2, <2>4, <2>5, <4>1 DEF UniqueIn
    <3>2. CASE u # t
      BY <2>2, <2>4, <2>5, <2>7, <2>10, <3>2 DEF UniqueIn
    <3>3. QED
      BY <3>1, <3>2
  <2>11. QED
    BY <2>9, <2>10 DEF Waits
<1>3. QED
  BY <1>1, <1>2

\* joinQueue adds somebody who waits nowhere.
LEMMA AppendUnique ==
    ASSUME NEW q \in [Types -> Seq(Players)], UniqueIn(q), NEW t \in Types,
           NEW p \in Players, ~Waits(q, p)
    PROVE  LET r == [q EXCEPT ![t] = Append(@, p)]
           IN  UniqueIn(r) /\ \A n : Waits(r, n) => Waits(q, n) \/ n = p
<1> DEFINE r == [q EXCEPT ![t] = Append(q[t], p)]
<1>1. Len(q[t]) \in Nat /\ DOMAIN q[t] = 1..Len(q[t])
  BY LenProperties
<1>2. /\ Append(q[t], p) \in Seq(Players)
      /\ Len(Append(q[t], p)) = Len(q[t]) + 1
      /\ \A i \in 1..Len(q[t]) : Append(q[t], p)[i] = q[t][i]
      /\ Append(q[t], p)[Len(q[t]) + 1] = p
  BY AppendProperties
<1>3. DOMAIN Append(q[t], p) = 1..(Len(q[t]) + 1)
  BY <1>2, LenProperties
<1>4. r[t] = Append(q[t], p) /\ \A u \in Types : u # t => r[u] = q[u]
  OBVIOUS
<1> HIDE DEF r
<1>5. ASSUME NEW u \in Types, NEW i \in DOMAIN r[u]
      PROVE  \/ i \in DOMAIN q[u] /\ r[u][i] = q[u][i]
             \/ u = t /\ i = Len(q[t]) + 1 /\ r[u][i] = p
  <2>1. CASE u # t
    BY <1>4, <2>1
  <2>2. CASE u = t /\ i # Len(q[t]) + 1
    BY <1>1, <1>2, <1>3, <1>4, <2>2
  <2>3. CASE u = t /\ i = Len(q[t]) + 1
    BY <1>2, <1>4, <2>3
  <2>4. QED
    BY <2>1, <2>2, <2>3
<1>6. UniqueIn(r)
  <2>1. ASSUME NEW u \in Types, NEW v \in Types, NEW i \in DOMAIN r[u], NEW j \in DOMAIN r[v],
               r[u][i] = r[v][j]
        PROVE  u = v /\ i = j
    <3>1. \A w \in Types : \A k \in DOMAIN q[w] : q[w][k] # p
      BY DEF Waits
    <3>2. CASE r[u][i] = p
      <4>1. u = t /\ i = Len(q[t]) + 1
        BY <1>5, <3>1, <3>2
      <4>2. r[v][j] = p
        BY <2>1, <3>2
      <4>3. v = t /\ j = Len(q[t]) + 1
        BY <1>5, <3>1, <4>2
      <4>4. QED
        BY <4>1, <4>3
    <3>3. CASE r[u][i] # p
      <4>1. i \in DOMAIN q[u] /\ j \in DOMAIN q[v] /\ q[u][i] = q[v][j]
        BY <1>5, <2>1, <3>3
      <4>2. QED
        BY <4>1 DEF UniqueIn
    <3>4. QED
      BY <3>2, <3>3
  <2>2. QED
    BY <2>1 DEF UniqueIn
<1>7. \A n : Waits(r, n) => Waits(q, n) \/ n = p
  BY <1>5 DEF Waits
<1>8. QED
  BY <1>6, <1>7 DEF r

-----------------------------------------------------------------------------
(* Each action keeps the invariant. *)

\* QueuedOnceAndOnline in terms of one queue function.
Good(q, names) == UniqueIn(q) /\ \A p : Waits(q, p) => p \in names

\* The invariant says it of the queues and the connections of a state,
LEMMA GoodQueues == QueuedOnceAndOnline <=> Good(queue, online)
BY DEF QueuedOnceAndOnline, Good, UniqueIn, Waits

\* and of the next state.
LEMMA GoodQueuesNext == QueuedOnceAndOnline' <=> Good(queue', online')
BY DEF QueuedOnceAndOnline, Good, UniqueIn, Waits

\* A step during which nobody disconnects.
LEMMA Keeps ==
    ASSUME QueueInv, online \subseteq online', Good(queue', online'),
           \A p \in Players : form'[p] # NoForm => form[p] # NoForm \/ p \in online',
           \A p \in Players : result'[p] # NoResult => result[p] # NoResult \/ p \in online',
           \A a \in Arenas, i \in Sides : playing'[a][i].live =>
               playing'[a][i] = playing[a][i] \/ playing'[a][i].name \in online'
    PROVE  QueueInv'
<1>1. QueuedOnceAndOnline'
  BY GoodQueuesNext
<1>2. \A p \in Players : form'[p] # NoForm \/ result'[p] # NoResult => p \in online'
  BY DEF QueueInv, ClientsOnline
<1>3. \A a \in Arenas, i \in Sides : playing'[a][i].live => playing'[a][i].name \in online'
  BY DEF QueueInv, ClientsOnline
<1>4. QED
  BY <1>1, <1>2, <1>3 DEF QueueInv, ClientsOnline

\* A step that leaves queues, forms, arenas' slots and connections alone.
LEMMA KeepsQuiet ==
    ASSUME QueueInv, UNCHANGED <<online, queue, form, result, playing>>
    PROVE  QueueInv'
BY DEF QueueInv, QueuedOnceAndOnline, ClientsOnline

\* A step of a connected player's forms.
LEMMA KeepsForms ==
    ASSUME QueueInv, UNCHANGED <<online, queue, playing>>,
           \A p \in Players : form'[p] # NoForm => form[p] # NoForm \/ p \in online,
           \A p \in Players : result'[p] # NoResult => result[p] # NoResult \/ p \in online
    PROVE  QueueInv'
<1>1. Good(queue', online')
  BY GoodQueues DEF QueueInv
<1>2. QED
  BY <1>1, Keeps

\* A duel starts with two players, or one twice, who are connected.
LEMMA StartDuelKeeps ==
    ASSUME QueueInv, TypeOK, NEW t, NEW a \in FreeArenas(t), NEW p \in online, NEW q \in online,
           StartDuel(a, t, p, q), UNCHANGED <<online, form>>, Good(queue', online),
           \A r \in Players : result'[r] # NoResult => result[r] # NoResult
    PROVE  QueueInv'
<1>1. a \in Arenas
  BY DEF FreeArenas
<1>2. ASSUME NEW b \in Arenas, NEW i \in Sides, playing'[b][i].live
      PROVE  playing'[b][i] = playing[b][i] \/ playing'[b][i].name \in online
  <2>1. CASE b # a
    BY <2>1 DEF StartDuel, TypeOK
  <2>2. CASE b = a
    <3>1. playing'[a][i] \in {Live(p), Live(q), EmptySlot}
      BY <1>1 DEF StartDuel, TypeOK
    <3>2. Live(p).name = p /\ Live(q).name = q /\ EmptySlot.live = FALSE
      BY DEF Live, EmptySlot
    <3>3. QED
      BY <1>2, <2>2, <3>1, <3>2
  <2>3. QED
    BY <2>1, <2>2
<1>3. QED
  BY <1>2, Keeps

\* DuelTask drops those who left and starts two of the others.
LEMMA MatchQueueKeeps ==
    ASSUME IInv, QueueInv, NEW t \in Types, MatchQueue(t)
    PROVE  QueueInv'
<1> DEFINE gone == {i \in DOMAIN queue[t] : queue[t][i] \notin online}
<1>1. queue \in [Types -> Seq(Players)] /\ queue[t] \in Seq(Players)
  BY DEF IInv, TypeOK
<1>2. UNCHANGED <<online, form, result>>
  BY DEF MatchQueue, formVars
<1>3. gone = {}
  BY DEF QueueInv, QueuedOnceAndOnline
<1>4. CASE CanMatch(t) /\ gone = {}
  <2>1. /\ \E a \in FreeArenas(t) : StartDuel(a, t, queue[t][1], queue[t][2])
        /\ queue' = [queue EXCEPT ![t] = SubSeq(queue[t], 3, Len(queue[t]))]
    BY <1>4 DEF MatchQueue
  <2>2. Len(queue[t]) \in Nat /\ Len(queue[t]) >= 2 /\ DOMAIN queue[t] = 1..Len(queue[t])
    BY <1>1, <1>4, LenProperties DEF CanMatch
  <2>3. queue[t][1] \in online /\ queue[t][2] \in online
    BY <2>2 DEF QueueInv, QueuedOnceAndOnline
  <2>4. \A u \in Types : Selected(queue'[u], queue[u])
    BY <1>1, <2>1, <2>2, TailSelects, SameSelects
  <2>5. Good(queue', online)
    BY <2>4, SelectedUnique, GoodQueues DEF QueueInv, Good
  <2>6. QED
    BY <1>2, <2>1, <2>3, <2>5, StartDuelKeeps DEF IInv
<1>5. CASE ~CanMatch(t) /\ gone = {}
  BY <1>2, <1>5, KeepsQuiet DEF MatchQueue, arenaVars
<1>6. QED
  BY <1>3, <1>4, <1>5

\* Ticks never fill a slot.
LEMMA TickArenaKeeps ==
    ASSUME IInv, QueueInv, NEW a \in Arenas, TickArena(a)
    PROVE  QueueInv'
<1>1. UNCHANGED <<online, queue, form, result>>
  BY DEF TickArena, TickThrows, TickWaiting, TickClear, TickBegin, TickCountdown, TickActive,
         queueVars, formVars
<1>2. CASE playing' = playing
  BY <1>1, <1>2, KeepsQuiet
<1>3. CASE TickClear(a)
  <2>1. playing' = [playing EXCEPT ![a] = Vacant]
    BY <1>3 DEF TickClear
  <2>2. \A b \in Arenas, i \in Sides : playing'[b][i].live => playing'[b][i] = playing[b][i]
    BY <2>1 DEF IInv, TypeOK, Vacant, EmptySlot
  <2>3. Good(queue', online')
    BY <1>1, GoodQueues DEF QueueInv
  <2>4. QED
    BY <1>1, <2>2, <2>3, Keeps
<1>4. QED
  BY <1>2, <1>3 DEF TickArena, TickThrows, TickWaiting, TickBegin, TickCountdown, TickActive, arenaVars


\* A challenge is issued or accepted by two connected players.
LEMMA AcceptOrChallengeKeeps ==
    ASSUME IInv, QueueInv, NEW p \in online, NEW q \in Players, NEW t,
           AcceptOrChallenge(p, q, t),
           \A r \in Players : result'[r] # NoResult => result[r] # NoResult
    PROVE  QueueInv'
<1>1. q \in online /\ UNCHANGED <<online, queue, form>>
  BY DEF AcceptOrChallenge
<1>2. Good(queue', online)
  BY <1>1, GoodQueues DEF QueueInv
<1>3. CASE UNCHANGED arenaVars
  BY <1>1, <1>3, KeepsForms DEF arenaVars
<1>4. CASE \E a \in FreeArenas(request[q].type) : StartDuel(a, request[q].type, p, q)
  BY <1>1, <1>2, <1>4, StartDuelKeeps DEF IInv
<1>5. QED
  BY <1>3, <1>4 DEF AcceptOrChallenge

\* Every form is answered by somebody who is connected.
LEMMA CommandKeeps ==
    ASSUME IInv, QueueInv, Command
    PROVE  QueueInv'
<1> PICK p \in Players :
        \/ OpenMenu(p) \/ ResultOpensMenu(p) \/ Rematch(p) \/ CloseForm(p)
        \/ LeaveQueue(p) \/ Unspectate(p) \/ ChooseSpectate(p) \/ JoinQueue(p)
        \/ \E q \in Players, t \in Types : DuelCommand(p, q, t)
        \/ \E t \in Types : ChooseType(p, t)
        \/ \E a \in Arenas : Spectate(p, a)
  BY DEF Command
<1>0. /\ form \in [Players -> Form] /\ result \in [Players -> Result]
      /\ queue \in [Types -> Seq(Players)]
  BY DEF IInv, TypeOK
<1>1. ASSUME OpenMenu(p) PROVE QueueInv'
  <2>1. \A r \in Players : form'[r] # NoForm => form[r] # NoForm \/ r \in online
    BY <1>0, <1>1 DEF OpenMenu
  <2>2. QED
    BY <1>1, <2>1, KeepsForms DEF OpenMenu, queueVars, arenaVars
<1>2. ASSUME form[p] # NoForm \/ result[p] # NoResult PROVE p \in online
  BY <1>2 DEF QueueInv, ClientsOnline
<1>3. ASSUME form[p].kind # "none" PROVE p \in online
  BY <1>2, <1>3 DEF NoForm
<1>4. ASSUME ResultOpensMenu(p) PROVE QueueInv'
  <2>1. \A r \in Players : /\ form'[r] # NoForm => form[r] # NoForm \/ r \in online
                           /\ result'[r] # NoResult => result[r] # NoResult
    BY <1>0, <1>2, <1>4 DEF ResultOpensMenu
  <2>2. QED
    BY <1>4, <2>1, KeepsForms DEF ResultOpensMenu, queueVars, arenaVars
<1>5. ASSUME CloseForm(p) PROVE QueueInv'
  <2>1. \A r \in Players : /\ form'[r] # NoForm => form[r] # NoForm
                           /\ result'[r] # NoResult => result[r] # NoResult
    BY <1>0, <1>5 DEF CloseForm
  <2>2. QED
    BY <1>5, <2>1, KeepsForms DEF CloseForm, queueVars, arenaVars
<1>6. ASSUME NEW a \in Arenas, NEW t \in Types,
             Unspectate(p) \/ ChooseSpectate(p) \/ ChooseType(p, t) \/ Spectate(p, a)
      PROVE  QueueInv'
  <2>1. p \in online
    BY <1>3, <1>6 DEF Unspectate, ChooseSpectate, ChooseType, Spectate
  <2>2. \A r \in Players : form'[r] # NoForm => form[r] # NoForm \/ r \in online
    BY <1>0, <1>6, <2>1 DEF Unspectate, ChooseSpectate, ChooseType, Spectate
  <2>3. UNCHANGED <<online, queue, result, playing>>
    BY <1>6 DEF Unspectate, ChooseSpectate, ChooseType, Spectate, queueVars, arenaVars
  <2>4. QED
    BY <2>2, <2>3, KeepsForms
<1>7. ASSUME LeaveQueue(p) PROVE QueueInv'
  <2>1. Good(QuitQueue(p), online)
    BY QuitQueueLeaves, GoodQueues DEF QueueInv, Good, IInv
  <2>2. \A r \in Players : form'[r] # NoForm => form[r] # NoForm
    BY <1>0, <1>7 DEF LeaveQueue
  <2>3. QED
    BY <1>7, <2>1, <2>2, Keeps DEF LeaveQueue, arenaVars
<1>8. ASSUME JoinQueue(p) PROVE QueueInv'
  <2>1. p \in online /\ form[p].type \in Types
    BY <1>0, <1>3, <1>8 DEF JoinQueue, Form
  <2>2. /\ UniqueIn(QuitQueue(p)) /\ ~Waits(QuitQueue(p), p)
        /\ \A r : Waits(QuitQueue(p), r) => Waits(queue, r)
    BY QuitQueueLeaves, GoodQueues DEF QueueInv, Good, IInv
  <2>3. QuitQueue(p) \in [Types -> Seq(Players)]
    BY QuitQueueType DEF IInv
  <2>4. queue' = [QuitQueue(p) EXCEPT ![form[p].type] = Append(@, p)]
    BY <1>8 DEF JoinQueue
  <2>5. UniqueIn(queue') /\ \A r : Waits(queue', r) => Waits(QuitQueue(p), r) \/ r = p
    BY <2>1, <2>2, <2>3, <2>4, AppendUnique
  <2>6. Good(queue', online)
    BY <2>1, <2>2, <2>5, GoodQueues DEF QueueInv, Good
  <2>7. \A r \in Players : form'[r] # NoForm => form[r] # NoForm
    BY <1>0, <1>8 DEF JoinQueue
  <2>8. QED
    BY <1>8, <2>6, <2>7, Keeps DEF JoinQueue, arenaVars
<1>9. ASSUME NEW q \in Players, NEW t \in Types, DuelCommand(p, q, t) PROVE QueueInv'
  BY <1>9, AcceptOrChallengeKeeps DEF DuelCommand
<1>10. ASSUME Rematch(p) PROVE QueueInv'
  <2>1. result[p] # NoResult /\ result[p].opponent \in Players
    BY <1>0, <1>10 DEF Rematch, Result, NoResult
  <2>2. \A r \in Players : result'[r] # NoResult => result[r] # NoResult
    BY <1>0, <1>10 DEF Rematch
  <2>3. QED
    BY <1>2, <1>10, <2>1, <2>2, AcceptOrChallengeKeeps DEF Rematch
<1>11. 1 \in Types /\ 1 \in Arenas
  BY CountsAssumption DEF Types, Arenas
<1>12. QED
  BY <1>1, <1>4, <1>5, <1>6, <1>7, <1>8, <1>9, <1>10, <1>11

\* The opponent's object is in a slot.
LEMMA OpponentSlot ==
    ASSUME NEW a \in Arenas, NEW p, IsPlaying(a, p)
    PROVE  \E i \in Sides : Opponent(a, p) = playing[a][i]
<1> PICK i \in Sides : i = CHOOSE j \in Sides : playing[a][j].name = p
  BY DEF IsPlaying
<1>1. \A j \in Sides : 1 - j \in Sides
  BY DEF Sides
<1>2. QED
  BY <1>1 DEF Opponent

\* A result form opens at a live object only, which is a connected player's.
LEMMA ResultOfOnline ==
    ASSUME QueueInv, NEW w, NEW l, NEW t, w.live => w.name \in online, l.live => l.name \in online
    PROVE  \A r \in Players : ResultOf(w, l, t)[r] # NoResult => r \in online
BY DEF ResultOf, QueueInv, ClientsOnline

\* A deciding hit or fall opens the result forms.
LEMMA DecidedKeeps ==
    ASSUME IInv, QueueInv, NEW v \in Players, NEW k \in Players, Kill(v, k) \/ Fall(v)
    PROVE  QueueInv'
<1>1. UNCHANGED <<online, queue, form, playing>>
  BY DEF Kill, Fall, queueVars
<1>2. \A r \in Players : result'[r] # NoResult => result[r] # NoResult \/ r \in online
  <2>1. ASSUME Kill(v, k) PROVE \A r \in Players : result'[r] # NoResult => r \in online
    <3>1. v \in online /\ k \in online /\ result' = ResultOf(Live(k), Live(v), duelType[PlayerDuel(v)])
      BY <2>1 DEF Kill
    <3>2. Live(k).name = k /\ Live(v).name = v
      BY DEF Live
    <3>3. QED
      BY <3>1, <3>2, ResultOfOnline
  <2>2. ASSUME Fall(v) PROVE \A r \in Players : result'[r] # NoResult => result[r] # NoResult \/ r \in online
    <3> DEFINE w == Opponent(PlayerDuel(v), v)
    <3>1. v \in online /\ PlayerDuel(v) \in Arenas /\ IsPlaying(PlayerDuel(v), v)
      BY <2>2, PlayerDuelIsOne DEF Fall
    <3>2. \E i \in Sides : w = playing[PlayerDuel(v)][i]
      BY <3>1, OpponentSlot
    <3>3. w.live => w.name \in online
      BY <3>1, <3>2 DEF QueueInv, ClientsOnline
    <3>4. Live(v).name = v
      BY DEF Live
    <3>5. result' = ResultOf(w, Live(v), duelType[PlayerDuel(v)]) \/ result' = result
      BY <2>2 DEF Fall
    <3>6. QED
      BY <3>1, <3>3, <3>4, <3>5, ResultOfOnline
  <2>3. QED
    BY <2>1, <2>2
<1>3. QED
  BY <1>1, <1>2, KeepsForms


\* Somebody disconnects: the queues must not hold the name, nor the result forms.
LEMMA CloseKeeps ==
    ASSUME QueueInv, NEW p \in Players,
           NEW slots \in [Arenas -> [Sides -> PlayerObject \cup {EmptySlot}]],
           NEW watchers, Disconnect(p, slots, watchers),
           \A a \in Arenas, i \in Sides : slots[a][i].live => slots[a][i].name \in online,
           Good(queue', online), ~Waits(queue', p), form \in [Players -> Form],
           \A r \in Players : result'[r] # NoResult => r \in online /\ r # p
    PROVE  QueueInv'
<1>1. online' = online \ {p} /\ form' = [form EXCEPT ![p] = NoForm]
  BY DEF Disconnect
<1>2. QueuedOnceAndOnline'
  BY <1>1, GoodQueuesNext DEF Good
<1>3. \A r \in Players : form'[r] # NoForm => r \in online'
  BY <1>1 DEF QueueInv, ClientsOnline
<1>4. ASSUME NEW a \in Arenas, NEW i \in Sides, playing'[a][i].live
      PROVE  playing'[a][i].name \in online'
  <2> DEFINE o == slots[a][i]
  <2>1. playing'[a][i] = Closed(o, p)
    BY DEF Disconnect
  <2>2. o # Live(p)
    BY <1>4, <2>1 DEF Closed, Live
  <2>3. playing'[a][i] = o /\ o.live
    BY <1>4, <2>1, <2>2 DEF Closed
  <2>4. o \in PlayerObject
    BY <2>3 DEF EmptySlot
  <2>5. o.name # p
    BY <2>2, <2>3, <2>4 DEF PlayerObject, Live
  <2>6. QED
    BY <1>1, <2>3, <2>5
<1>5. QED
  BY <1>1, <1>2, <1>3, <1>4 DEF QueueInv, ClientsOnline

\* Leaving the server takes the name out of the queue, the forms and the slots.
LEMMA QuitKeeps ==
    ASSUME IInv, QueueInv, NEW p \in Players, Quit(p)
    PROVE  QueueInv'
<1>1. /\ playing \in [Arenas -> [Sides -> PlayerObject \cup {EmptySlot}]]
      /\ form \in [Players -> Form] /\ result \in [Players -> Result]
  BY DEF IInv, TypeOK
<1>2. Good(queue, online)
  BY GoodQueues DEF QueueInv
<1>3. \A a \in Arenas, i \in Sides : playing[a][i].live => playing[a][i].name \in online
  BY DEF QueueInv, ClientsOnline
<1>4. ~InQueue(p) => ~Waits(queue, p)
  BY DEF InQueue, PositionsOf, Waits
<1>5. ASSUME result' = [result EXCEPT ![p] = NoResult]
      PROVE  \A r \in Players : result'[r] # NoResult => r \in online /\ r # p
  BY <1>1, <1>5 DEF QueueInv, ClientsOnline
<1>6. ASSUME QuitQueued(p) PROVE QueueInv'
  <2>1. Good(queue', online) /\ ~Waits(queue', p)
    BY <1>2, <1>6, QuitQueueLeaves DEF QuitQueued, Good, IInv
  <2>2. QED
    BY <1>1, <1>3, <1>5, <1>6, <2>1, CloseKeeps DEF QuitQueued
<1>7. ASSUME QuitInactiveDuel(p) PROVE QueueInv'
  BY <1>1, <1>2, <1>3, <1>4, <1>5, <1>7, CloseKeeps DEF QuitInactiveDuel
<1>8. ASSUME QuitOutside(p) PROVE QueueInv'
  <2>1. PICK watchers : Disconnect(p, playing, watchers)
    BY <1>8 DEF QuitOutside
  <2>2. QED
    BY <1>1, <1>2, <1>3, <1>4, <1>5, <1>8, <2>1, CloseKeeps DEF QuitOutside
<1>9. ASSUME QuitDuel(p) PROVE QueueInv'
  <2> PICK a \in Arenas : a = PlayerDuel(p) /\ IsPlaying(a, p)
    BY <1>9, PlayerDuelIsOne DEF QuitDuel
  <2> DEFINE w == Opponent(a, p)
             slots == [playing EXCEPT ![a] = Vacant]
             watchers == [spectating EXCEPT ![a] = {}]
  <2>1. p \in online /\ Disconnect(p, slots, watchers) /\ queue' = queue /\ ~InQueue(p)
    BY <1>9 DEF QuitDuel
  <2>2. slots \in [Arenas -> [Sides -> PlayerObject \cup {EmptySlot}]]
    BY <1>1 DEF Vacant
  <2>3. \A b \in Arenas, i \in Sides : slots[b][i].live => slots[b][i].name \in online
    BY <1>1, <1>3 DEF Vacant, EmptySlot
  <2>4. \E i \in Sides : w = playing[a][i]
    BY OpponentSlot
  <2>5. w.live => w.name \in online
    BY <1>3, <2>4
  <2>6. \A r \in Players : ResultOf(w, Live(p), duelType[a])[r] # NoResult => r \in online
    BY <2>1, <2>5, ResultOfOnline DEF Live
  <2>7. result' = [ResultOf(w, Live(p), duelType[a]) EXCEPT ![p] = NoResult]
    BY <1>9 DEF QuitDuel
  <2>8. \A r \in Players : result'[r] # NoResult => r \in online /\ r # p
    BY <2>6, <2>7 DEF ResultOf
  <2>9. QED
    BY <1>1, <1>2, <1>4, <2>1, <2>2, <2>3, <2>8, CloseKeeps
<1>10. QED
  BY <1>6, <1>7, <1>8, <1>9 DEF Quit

\* A shutdown empties everything.
LEMMA RestartKeeps ==
    ASSUME Restart
    PROVE  QueueInv'
<1>1. \A t \in Types : queue'[t] = << >> /\ DOMAIN queue'[t] = {}
  BY DEF Restart
<1>2. QueuedOnceAndOnline'
  BY <1>1 DEF QueuedOnceAndOnline
<1>3. ClientsOnline'
  BY DEF ClientsOnline, Restart, Vacant, EmptySlot
<1>4. QED
  BY <1>2, <1>3 DEF QueueInv

\* Every step, shutdowns included.
LEMMA QueueStep == IInv /\ QueueInv /\ [NextWithRestart]_vars => QueueInv'
<1> SUFFICES ASSUME IInv, QueueInv, [NextWithRestart]_vars PROVE QueueInv'
  OBVIOUS
<1>1. ASSUME NEW p \in Players, BreakFloor(p) \/ Join(p) PROVE QueueInv'
  <2>1. UNCHANGED <<queue, form, result, playing>> /\ online \subseteq online'
    BY <1>1 DEF BreakFloor, Join, queueVars, formVars, arenaVars
  <2>2. Good(queue', online')
    BY <2>1, GoodQueues DEF QueueInv, Good
  <2>3. QED
    BY <2>1, <2>2, Keeps
<1>2. CASE DuelTask
  BY <1>2, MatchQueueKeeps, TickArenaKeeps DEF DuelTask
<1>3. CASE Command
  BY <1>3, CommandKeeps
<1>4. CASE Event
  BY <1>1, <1>4, DecidedKeeps, QuitKeeps DEF Event
<1>5. CASE Clock
  BY <1>5, KeepsQuiet DEF Clock, Second, queueVars, formVars
<1>6. CASE Restart
  BY <1>6, RestartKeeps
<1>7. CASE UNCHANGED vars
  BY <1>7, KeepsQuiet DEF vars
<1>8. QED
  BY <1>2, <1>3, <1>4, <1>5, <1>6, <1>7 DEF NextWithRestart, Next

\* Nobody waits in two places, and nobody waits who has left: a duel is never
\* started by DuelTask with one name twice, nor with a name that is not there.
THEOREM QueuedOnce == SpecWithRestart => []QueuedOnceAndOnline
<1>1. Init => IInv /\ QueueInv
  <2>1. Init => QueuedOnceAndOnline
    <3>1. Init => \A t \in Types : queue[t] = << >> /\ DOMAIN queue[t] = {}
      BY DEF Init
    <3>2. QED
      BY <3>1 DEF QueuedOnceAndOnline
  <2>2. Init => ClientsOnline
    BY DEF Init, ClientsOnline, EmptySlot
  <2>3. QED
    BY <2>1, <2>2, InitIInv DEF QueueInv
<1>2. IInv /\ QueueInv /\ [NextWithRestart]_vars => (IInv /\ QueueInv)'
  BY NextIInv, QueueStep
<1>3. QueueInv => QueuedOnceAndOnline
  BY DEF QueueInv
<1>4. QED
  BY <1>1, <1>2, <1>3, PTL DEF SpecWithRestart

-----------------------------------------------------------------------------
(***************************************************************************)
(* Belongings, immobile players and floors.  Each of the four parts of Safe *)
(* survives a step together with IInv; FloorRepaired alone needs a          *)
(* strengthening: blocks are missing only where a floor duel is, so the     *)
(* isSpleef/isTNTRun test before fillBrokenBlocks never skips them.         *)
(***************************************************************************)

FloorInv == \A a \in holed : ~NoSlots(a) /\ HasFloor(a)

\* The parts that also survive a shutdown, which takes the arenas' memory away.
Safe == SavedOnlyInKitDuel /\ NothingDuplicated /\ FrozenOnlyBeforeStart

-----------------------------------------------------------------------------
(* What decides the three parts of Safe. *)

\* The part of SavedOnlyInKitDuel and FrozenOnlyBeforeStart about one arena.
KitDuelOf(a, p) == /\ IsPlaying(a, p) /\ HasKit(a)
                   /\ status[a] # "INACTIVE" \/ elapsed[a] # NotStarted
Holds(a, p) == Live(p) \in ObjectsIn(a) /\ elapsed[a] = NotStarted

\* SavedOnlyInKitDuel survives when no entry appears and its duel goes on.
LEMMA SavedKept ==
    ASSUME SavedOnlyInKitDuel,
           \A p \in Players : saved'[p].kept =>
               /\ saved[p].kept
               /\ \A a \in Arenas : KitDuelOf(a, p) => \E b \in Arenas : KitDuelOf(b, p)'
    PROVE  SavedOnlyInKitDuel'
<1>1. ASSUME NEW p \in Players, saved'[p].kept PROVE \E b \in Arenas : KitDuelOf(b, p)'
  <2>1. saved[p].kept
    BY <1>1
  <2>2. PICK a \in Arenas : KitDuelOf(a, p)
    BY <2>1 DEF SavedOnlyInKitDuel, KitDuelOf
  <2>3. QED
    BY <1>1, <2>2
<1>2. QED
  BY <1>1 DEF SavedOnlyInKitDuel, KitDuelOf

\* FrozenOnlyBeforeStart survives when who stays frozen stays in such an arena.
LEMMA FrozenKept ==
    ASSUME FrozenOnlyBeforeStart, frozen \subseteq Players, frozen' \subseteq frozen,
           \A p \in frozen' : \A a \in Arenas : Holds(a, p) => \E b \in Arenas : Holds(b, p)'
    PROVE  FrozenOnlyBeforeStart'
<1>1. ASSUME NEW p \in frozen' PROVE \E b \in Arenas : Holds(b, p)'
  <2>1. PICK a \in Arenas : Holds(a, p)
    BY <1>1 DEF FrozenOnlyBeforeStart, Holds
  <2>2. QED
    BY <1>1, <2>1
<1>2. QED
  BY <1>1 DEF FrozenOnlyBeforeStart, Holds

\* Nothing is duplicated while nobody's things move.
LEMMA ThingsKept ==
    ASSUME NothingDuplicated, UNCHANGED itemVars
    PROVE  NothingDuplicated'
BY DEF NothingDuplicated, itemVars

\* Nor when one player's things are divided between two, or left behind.
LEMMA SwipeMoves ==
    ASSUME NothingDuplicated, IInv, NEW from \in Players, NEW to \in Players,
           Swipe(from, to), saved' = saved
    PROVE  NothingDuplicated'
<1>1. PICK moved \in SUBSET holding[from], kept \in SUBSET holding[from] :
          /\ kept \cap moved = {}
          /\ holding' = [holding EXCEPT ![from] = kept, ![to] = @ \cup moved]
  BY DEF Swipe
<1>2. \A p \in Players, item \in Players :
          item \in holding'[p] => item \in holding[p] \/ (p = to /\ item \in moved)
  BY <1>1 DEF IInv, TypeOK
<1>3. \A p \in Players, item \in Players :
          item \in holding'[p] /\ item \in moved => p = to
  <2>1. TAKE p \in Players, item \in Players
  <2>2. HAVE item \in holding'[p] /\ item \in moved
  <2>3. SUFFICES ASSUME p # to PROVE FALSE
    OBVIOUS
  <2>4. CASE p = from
    BY <1>1, <2>2, <2>3, <2>4 DEF IInv, TypeOK
  <2>5. CASE p # from
    <3>1. item \in holding[p] \cap holding[from]
      BY <1>1, <2>2, <2>3, <2>5 DEF IInv, TypeOK
    <3>2. QED
      BY <2>5, <3>1 DEF NothingDuplicated
  <2>6. QED
    BY <2>4, <2>5
<1>4. ASSUME NEW item \in Players, NEW p \in Players, NEW q \in Players,
             item \in holding'[p] \cap holding'[q]
      PROVE  p = q
  BY <1>2, <1>3, <1>4 DEF NothingDuplicated
<1>5. ASSUME NEW item \in Players, NEW p \in Players, NEW q \in Players
      PROVE  item \notin holding'[p] \cap saved'[q].items
  BY <1>2 DEF NothingDuplicated
<1>6. QED
  BY <1>4, <1>5 DEF NothingDuplicated

\* Nor when saved things are returned: the entry they were in is gone.
LEMMA ReturnedMoves ==
    ASSUME NothingDuplicated, NEW kit, NEW objs, Returned(kit, objs)
    PROVE  NothingDuplicated'
<1>1. \A p \in Players : Live(p) \in objs => \E o \in objs : o.name = p
  BY DEF Live
<1>2. ASSUME NEW p \in Players
      PROVE  \/ (holding'[p] = holding[p] /\ saved'[p].items \subseteq saved[p].items)
             \/ (holding'[p] = saved[p].items /\ saved'[p].items = {})
  BY <1>1 DEF Returned, NotSaved
<1>3. QED
  BY <1>2 DEF NothingDuplicated

-----------------------------------------------------------------------------
(* Each action keeps Safe. *)

\* Steps of the queues, forms and spectators.
LEMMA SafeQuiet ==
    ASSUME Safe, UNCHANGED <<playing, status, elapsed, duelType, itemVars, frozen>>
    PROVE  Safe'
<1>1. NothingDuplicated'
  BY ThingsKept DEF Safe
<1>2. SavedOnlyInKitDuel'
  BY DEF Safe, SavedOnlyInKitDuel, IsPlaying, HasKit, itemVars
<1>3. FrozenOnlyBeforeStart'
  BY DEF Safe, FrozenOnlyBeforeStart, ObjectsIn
<1>4. QED
  BY <1>1, <1>2, <1>3 DEF Safe

\* What is true of an arena whose entries stay.
LEMMA EntriesStay ==
    ASSUME NEW b \in Arenas, playing'[b] = playing[b], status'[b] = status[b],
           elapsed'[b] = elapsed[b], duelType'[b] = duelType[b]
    PROVE  \A p \in Players : (KitDuelOf(b, p) => KitDuelOf(b, p)') /\ (Holds(b, p) => Holds(b, p)')
BY DEF KitDuelOf, Holds, IsPlaying, HasKit, ObjectsIn

\* A free arena holds nobody, so starting a duel there ends no other.
LEMMA StartDuelSafe ==
    ASSUME IInv, Safe, NEW t, NEW a \in FreeArenas(t), NEW p \in Players, NEW q \in Players,
           StartDuel(a, t, p, q), UNCHANGED itemVars
    PROVE  Safe'
<1>1. a \in Arenas /\ NoSlots(a)
  BY DEF FreeArenas
<1>2. \A r \in Players : ~KitDuelOf(a, r) /\ ~Holds(a, r)
  BY <1>1, NobodyAssumption DEF KitDuelOf, Holds, IsPlaying, ObjectsIn, NoSlots, EmptySlot, Live
<1>3. ASSUME NEW b \in Arenas \ {a}
      PROVE  \A r \in Players : (KitDuelOf(b, r) => KitDuelOf(b, r)') /\ (Holds(b, r) => Holds(b, r)')
  <2>1. /\ playing'[b] = playing[b] /\ status'[b] = status[b]
        /\ elapsed'[b] = elapsed[b] /\ duelType'[b] = duelType[b]
    BY DEF StartDuel, IInv, TypeOK
  <2>2. QED
    BY <2>1, EntriesStay
<1>4. SavedOnlyInKitDuel'
  BY <1>2, <1>3, SavedKept DEF Safe, itemVars
<1>5. FrozenOnlyBeforeStart'
  <2>1. playing'[a][0] = Live(p) /\ playing'[a][1] = IF q = p THEN EmptySlot ELSE Live(q)
    BY <1>1 DEF StartDuel, IInv, TypeOK, Sides
  <2>2. Holds(a, p)' /\ Holds(a, q)'
    <3>1. elapsed'[a] = NotStarted
      BY <1>1 DEF StartDuel, IInv, TypeOK
    <3>2. QED
      BY <2>1, <3>1 DEF Holds, ObjectsIn, Sides
  <2>3. ASSUME NEW r \in frozen' PROVE \E b \in Arenas : Holds(b, r)'
    <3>1. CASE r \in {p, q}
      BY <1>1, <2>2, <3>1
    <3>2. CASE r \in frozen
      <4>1. r \in Players
        BY <3>2 DEF IInv, TypeOK
      <4>2. PICK b \in Arenas : Holds(b, r)
        BY <3>2 DEF Safe, FrozenOnlyBeforeStart, Holds
      <4>3. QED
        BY <1>2, <1>3, <4>1, <4>2
    <3>3. QED
      BY <2>3, <3>1, <3>2 DEF StartDuel
  <2>4. QED
    BY <2>3 DEF FrozenOnlyBeforeStart, Holds
<1>6. QED
  BY <1>4, <1>5, ThingsKept DEF Safe

\* A running duel that is over, or a countdown that is, keeps its kit duel going
\* and its players in their slots.
LEMMA DuelGoesOn ==
    ASSUME IInv, Safe, NEW a \in Arenas, status[a] # "INACTIVE" => elapsed'[a] # NotStarted,
           \A b \in Arenas \ {a} : status'[b] = status[b] /\ elapsed'[b] = elapsed[b],
           UNCHANGED <<playing, duelType, saved>>, elapsed[a] # NotStarted => elapsed'[a] # NotStarted,
           frozen' \subseteq frozen, NothingDuplicated',
           elapsed[a] = NotStarted => \A p \in frozen' : Live(p) \notin ObjectsIn(a)
    PROVE  Safe'
<1>1. ASSUME NEW b \in Arenas, NEW p \in Players, KitDuelOf(b, p)
      PROVE  KitDuelOf(b, p)'
  <2>1. CASE b # a
    BY <1>1, <2>1, EntriesStay
  <2>2. CASE b = a
    BY <1>1, <2>2 DEF KitDuelOf, IsPlaying, HasKit
  <2>3. QED
    BY <2>1, <2>2
<1>2. SavedOnlyInKitDuel'
  BY <1>1, SavedKept DEF Safe
<1>3. FrozenOnlyBeforeStart'
  <2>1. ASSUME NEW p \in frozen', NEW b \in Arenas, Holds(b, p) PROVE Holds(b, p)'
    <3>1. b # a
      BY <2>1 DEF Holds
    <3>2. QED
      BY <2>1, <3>1 DEF Holds, ObjectsIn
  <2>2. QED
    BY <2>1, FrozenKept DEF Safe, IInv, TypeOK
<1>4. QED
  BY <1>2, <1>3 DEF Safe

\* The clearing tick returns the inventories of a kit duel and releases its players.
LEMMA TickClearSafe ==
    ASSUME IInv, Safe, NEW a \in Arenas, TickClear(a)
    PROVE  Safe'
<1>1. ASSUME NEW b \in Arenas \ {a}
      PROVE  \A p \in Players : (KitDuelOf(b, p) => KitDuelOf(b, p)') /\ (Holds(b, p) => Holds(b, p)')
  <2>1. /\ playing'[b] = playing[b] /\ status'[b] = status[b]
        /\ elapsed'[b] = elapsed[b] /\ duelType'[b] = duelType[b]
    BY DEF TickClear, Ended, IInv, TypeOK
  <2>2. QED
    BY <2>1, EntriesStay
<1>2. ASSUME NEW p \in Players, saved'[p].kept
      PROVE  saved[p].kept /\ ~KitDuelOf(a, p)
  <2>1. IsPlaying(a, p) => \E o \in ObjectsIn(a) : o.name = p
    BY DEF IsPlaying, ObjectsIn
  <2>2. Returned(HasKit(a), ObjectsIn(a))
    BY DEF TickClear
  <2>3. QED
    BY <1>2, <2>1, <2>2 DEF Returned, NotSaved, KitDuelOf
<1>3. SavedOnlyInKitDuel'
  BY <1>1, <1>2, SavedKept DEF Safe
<1>4. ASSUME NEW p \in frozen' PROVE p \in Players /\ ~Holds(a, p)
  BY <1>4 DEF TickClear, Unfrozen, LiveNames, Holds, IInv, TypeOK
<1>5. frozen' \subseteq frozen
  BY DEF TickClear, Unfrozen
<1>6. FrozenOnlyBeforeStart'
  BY <1>1, <1>4, <1>5, FrozenKept DEF Safe, IInv, TypeOK
<1>7. NothingDuplicated'
  BY ReturnedMoves DEF TickClear, Safe
<1>8. QED
  BY <1>3, <1>6, <1>7 DEF Safe

\* The beginning of a duel freezes its players; a kit duel puts their things aside.
LEMMA TickBeginSafe ==
    ASSUME IInv, Safe, NEW a \in Arenas, TickBegin(a)
    PROVE  Safe'
<1>1. ASSUME NEW b \in Arenas, NEW p \in Players
      PROVE  /\ KitDuelOf(b, p) => KitDuelOf(b, p)'
             /\ Holds(b, p) => Holds(b, p)'
  <2>1. playing' = playing /\ duelType' = duelType /\ elapsed' = elapsed
    BY DEF TickBegin
  <2>2. status'[b] # "INACTIVE" \/ status'[b] = status[b]
    BY DEF TickBegin, IInv, TypeOK
  <2>3. QED
    BY <2>1, <2>2 DEF KitDuelOf, Holds, IsPlaying, HasKit, ObjectsIn
<1>2. status'[a] = "COUNTDOWN" /\ playing' = playing /\ duelType' = duelType
  BY DEF TickBegin, IInv, TypeOK
<1>3. SavedOnlyInKitDuel'
  <2>1. ASSUME NEW p \in Players, saved'[p].kept PROVE \E b \in Arenas : KitDuelOf(b, p)'
    <3>1. CASE saved[p].kept
      <4>1. PICK b \in Arenas : KitDuelOf(b, p)
        BY <3>1 DEF Safe, SavedOnlyInKitDuel, KitDuelOf
      <4>2. QED
        BY <1>1, <4>1
    <3>2. CASE ~saved[p].kept
      <4>1. HasKit(a) /\ IsPlaying(a, p)
        BY <2>1, <3>2 DEF TickBegin, itemVars
      <4>2. KitDuelOf(a, p)'
        BY <1>2, <4>1 DEF KitDuelOf, IsPlaying, HasKit
      <4>3. QED
        BY <4>2
    <3>3. QED
      BY <3>1, <3>2
  <2>2. QED
    BY <2>1 DEF SavedOnlyInKitDuel, KitDuelOf
<1>4. FrozenOnlyBeforeStart'
  <2>1. ASSUME NEW p \in frozen' PROVE \E b \in Arenas : Holds(b, p)'
    <3>1. CASE p \in frozen
      BY <1>1, <3>1 DEF Safe, FrozenOnlyBeforeStart, Holds, IInv, TypeOK
    <3>2. CASE p \in LiveNames(ObjectsIn(a))
      <4>1. Holds(a, p) /\ p \in Players
        BY <3>2 DEF LiveNames, Holds, TickBegin, ToClear
      <4>2. QED
        BY <1>1, <4>1
    <3>3. QED
      BY <2>1, <3>1, <3>2 DEF TickBegin
  <2>2. QED
    BY <2>1 DEF FrozenOnlyBeforeStart, Holds
<1>5. NothingDuplicated'
  <2>1. CASE HasKit(a)
    <3>1. ASSUME NEW p \in Players
          PROVE  \/ holding'[p] = holding[p] /\ saved'[p] = saved[p]
                 \/ holding'[p] = {Kit} /\ saved'[p].items \in {holding[p], saved[p].items}
      BY <2>1 DEF TickBegin
    <3>2. QED
      BY <3>1, KitAssumption DEF Safe, NothingDuplicated
  <2>2. CASE ~HasKit(a)
    BY <2>2, ThingsKept DEF TickBegin, Safe
  <2>3. QED
    BY <2>1, <2>2
<1>6. QED
  BY <1>3, <1>4, <1>5 DEF Safe

\* A countdown, a running duel, its clock and its decision leave the belongings
\* put aside to the duel.
LEMMA RunningSafe ==
    ASSUME IInv, Safe, NEW a \in Arenas, TickCountdown(a) \/ TickActive(a) \/ Second(a)
    PROVE  Safe'
<1>1. NothingDuplicated'
  BY ThingsKept DEF TickCountdown, TickActive, Second, Safe
<1>2. UNCHANGED <<playing, duelType, saved>>
  BY DEF TickCountdown, TickActive, Second, itemVars
<1>3. ASSUME TickCountdown(a) PROVE Safe'
  <2>1. CASE CountdownOver(a)
    <3>1. 0 # NotStarted
      BY DEF NotStarted
    <3>2. elapsed'[a] # NotStarted
      BY <1>3, <2>1, <3>1 DEF TickCountdown, IInv, TypeOK
    <3>3. \A b \in Arenas \ {a} : status'[b] = status[b] /\ elapsed'[b] = elapsed[b]
      BY <1>3, <2>1 DEF TickCountdown, IInv, TypeOK
    <3>4. frozen' = frozen \ LiveNames(ObjectsIn(a))
      BY <1>3, <2>1 DEF TickCountdown, Unfrozen
    <3>5. \A p \in frozen' : Live(p) \notin ObjectsIn(a)
      BY <3>4 DEF LiveNames, IInv, TypeOK
    <3>6. QED
      BY <1>1, <1>2, <3>2, <3>3, <3>4, <3>5, DuelGoesOn
  <2>2. CASE ~CountdownOver(a)
    BY <1>3, <2>2, SafeQuiet DEF TickCountdown
  <2>3. QED
    BY <2>1, <2>2
<1>4. ASSUME TickActive(a) PROVE Safe'
  <2>1. elapsed' = elapsed /\ frozen' = frozen /\ elapsed[a] # NotStarted
    BY <1>4 DEF TickActive, IInv, ArenasOK, ArenaOK
  <2>2. \A b \in Arenas \ {a} : status'[b] = status[b]
    BY <1>4 DEF TickActive, IInv, TypeOK
  <2>3. QED
    BY <1>1, <1>2, <2>1, <2>2, DuelGoesOn
<1>5. ASSUME Second(a) PROVE Safe'
  <2>1. elapsed[a] \in 0..DuelTime /\ elapsed[a] # NotStarted
    BY <1>5 DEF Second, IInv, TypeOK, ArenasOK, ArenaOK
  <2>2. elapsed'[a] # NotStarted
    BY <1>5, <2>1 DEF Second, IInv, TypeOK, NotStarted
  <2>3. \A b \in Arenas \ {a} : status'[b] = status[b] /\ elapsed'[b] = elapsed[b]
    BY <1>5 DEF Second, IInv, TypeOK
  <2>4. frozen' \subseteq frozen
    BY <1>5 DEF Second
  <2>5. QED
    BY <1>1, <1>2, <2>1, <2>2, <2>3, <2>4, DuelGoesOn
<1>6. QED
  BY <1>3, <1>4, <1>5

\* A hit that decides: the belongings at stake change hands.
LEMMA KillSafe ==
    ASSUME IInv, Safe, NEW v \in Players, NEW k \in Players, Kill(v, k)
    PROVE  Safe'
<1> PICK a \in Arenas : a = PlayerDuel(v)
  BY PlayerDuelIsOne DEF Kill
<1>1. elapsed' = elapsed /\ elapsed[a] # NotStarted
  BY DEF Kill, IInv, ArenasOK, ArenaOK
<1>2. \A b \in Arenas \ {a} : status'[b] = status[b]
  BY DEF Kill, Ended, IInv, TypeOK
<1>3. UNCHANGED <<playing, duelType, saved, frozen>>
  BY DEF Kill
<1>4. NothingDuplicated'
  <2>1. Swipe(v, k) \/ UNCHANGED itemVars
    BY <1>3 DEF Kill, itemVars
  <2>2. QED
    BY <1>3, <2>1, SwipeMoves, ThingsKept DEF Safe
<1>5. QED
  BY <1>1, <1>2, <1>3, <1>4, DuelGoesOn

\* A fall that decides.
LEMMA FallSafe ==
    ASSUME IInv, Safe, NEW v \in Players, Fall(v)
    PROVE  Safe'
<1> PICK a \in Arenas : a = PlayerDuel(v)
  BY PlayerDuelIsOne DEF Fall
<1>1. elapsed' = elapsed /\ elapsed[a] # NotStarted
  BY DEF Fall, IInv, ArenasOK, ArenaOK
<1>2. \A b \in Arenas \ {a} : status'[b] = status[b]
  BY DEF Fall, Ended, IInv, TypeOK
<1>3. UNCHANGED <<playing, duelType, itemVars, frozen>>
  BY DEF Fall
<1>4. NothingDuplicated'
  BY <1>3, ThingsKept DEF Safe
<1>5. QED
  BY <1>1, <1>2, <1>3, <1>4, DuelGoesOn DEF itemVars

\* What closing p's object leaves: the names, and every other live object.
LEMMA OthersStay ==
    ASSUME NEW p \in Players,
           NEW slots \in [Arenas -> [Sides -> PlayerObject \cup {EmptySlot}]],
           NEW watchers \in [Arenas -> SUBSET PlayerObject],
           Disconnect(p, slots, watchers),
           NEW b \in Arenas, slots[b] = playing[b], status'[b] = status[b]
    PROVE  \A r \in Players : /\ KitDuelOf(b, r) => KitDuelOf(b, r)'
                              /\ r # p /\ Holds(b, r) => Holds(b, r)'
<1>1. \A i \in Sides : playing'[b][i].name = playing[b][i].name
  BY DisconnectArenas
<1>2. UNCHANGED <<duelType, elapsed>>
  BY DEF Disconnect
<1>3. \A r \in Players : KitDuelOf(b, r) => KitDuelOf(b, r)'
  BY <1>1, <1>2 DEF KitDuelOf, IsPlaying, HasKit
<1>4. ASSUME NEW r \in Players, r # p, Holds(b, r) PROVE Holds(b, r)'
  <2>1. PICK i \in Sides : playing[b][i] = Live(r)
    BY <1>4 DEF Holds, ObjectsIn
  <2>2. Live(r) # Live(p)
    BY <1>4 DEF Live
  <2>3. playing'[b][i] = Live(r)
    BY <2>1, <2>2 DEF Disconnect, Closed
  <2>4. QED
    BY <1>2, <1>4, <2>3 DEF Holds, ObjectsIn
<1>5. QED
  BY <1>3, <1>4

\* A player who leaves without ending a duel is not immobile any more.
LEMMA CloseSafe ==
    ASSUME IInv, Safe, NEW p \in Players, NEW watchers \in [Arenas -> SUBSET PlayerObject],
           Disconnect(p, playing, watchers), frozen' = frozen \ {p},
           UNCHANGED <<status, itemVars>>
    PROVE  Safe'
<1>1. playing \in [Arenas -> [Sides -> PlayerObject \cup {EmptySlot}]]
  BY DEF IInv, TypeOK
<1>2. ASSUME NEW b \in Arenas, NEW r \in Players
      PROVE  /\ KitDuelOf(b, r) => KitDuelOf(b, r)'
             /\ r # p /\ Holds(b, r) => Holds(b, r)'
  BY <1>1, OthersStay
<1>3. SavedOnlyInKitDuel'
  BY <1>2, SavedKept DEF Safe, itemVars
<1>4. FrozenOnlyBeforeStart'
  BY <1>2, FrozenKept DEF Safe, IInv, TypeOK
<1>5. QED
  BY <1>3, <1>4, ThingsKept DEF Safe

\* Everybody in an arena is p or p's opponent there.
LEMMA OnlyTwoSides ==
    ASSUME NEW a \in Arenas, NEW p \in Players, NEW r \in Players, IsPlaying(a, p)
    PROVE  /\ IsPlaying(a, r) => r = p \/ r = Opponent(a, p).name
           /\ Holds(a, r) => r = p \/ Live(r) = Opponent(a, p)
<1> PICK i \in Sides : i = CHOOSE j \in Sides : playing[a][j].name = p
  BY DEF IsPlaying
<1>1. playing[a][i].name = p
  BY DEF IsPlaying
<1>2. \A j \in Sides : j = i \/ j = 1 - i
  BY DEF Sides
<1>3. Opponent(a, p) = playing[a][1 - i]
  BY DEF Opponent
<1>4. \A j \in Sides : playing[a][j].name = r => r = p \/ r = Opponent(a, p).name
  BY <1>1, <1>2, <1>3
<1>5. \A j \in Sides : playing[a][j] = Live(r) => r = p \/ Live(r) = Opponent(a, p)
  <2>1. Live(r).name = r
    BY DEF Live
  <2>2. QED
    BY <1>1, <1>2, <1>3, <2>1
<1>6. QED
  BY <1>4, <1>5 DEF IsPlaying, Holds, ObjectsIn

\* Leaving during a duel returns or hands over the belongings and releases both.
LEMMA QuitDuelSafe ==
    ASSUME IInv, Safe, NEW p \in Players, QuitDuel(p)
    PROVE  Safe'
<1> PICK a \in Arenas : a = PlayerDuel(p)
  BY PlayerDuelIsOne DEF QuitDuel
<1> DEFINE w == Opponent(a, p)
           left == {Live(p), w}
           slots == [playing EXCEPT ![a] = Vacant]
           watchers == [spectating EXCEPT ![a] = {}]
<1>1. IsPlaying(a, p) /\ BothSlots(a)
  BY PlayerDuelIsOne DEF QuitDuel, IInv, ArenasOK, ArenaOK
<1>2. w \in PlayerObject
  BY <1>1, OpponentIsObject DEF IInv
<1>3. slots \in [Arenas -> [Sides -> PlayerObject \cup {EmptySlot}]]
  BY DEF IInv, TypeOK, Vacant
<1>4. watchers \in [Arenas -> SUBSET PlayerObject]
  BY DEF IInv, TypeOK
<1>5. Disconnect(p, slots, watchers)
  BY DEF QuitDuel
<1>6. ASSUME NEW b \in Arenas \ {a}, NEW r \in Players
      PROVE  /\ KitDuelOf(b, r) => KitDuelOf(b, r)'
             /\ r # p /\ Holds(b, r) => Holds(b, r)'
  <2>1. slots[b] = playing[b] /\ status'[b] = status[b]
    BY DEF QuitDuel, Ended, IInv, TypeOK
  <2>2. QED
    BY <1>3, <1>4, <1>5, <2>1, OthersStay
<1>7. FrozenOnlyBeforeStart'
  <2>1. frozen' = frozen \ LiveNames(left)
    BY DEF QuitDuel, Unfrozen
  <2>2. ASSUME NEW r \in frozen' PROVE r \in Players /\ r # p /\ ~Holds(a, r)
    <3>1. r \in Players /\ r \notin LiveNames(left)
      BY <2>1, <2>2 DEF IInv, TypeOK
    <3>2. Live(r) # Live(p) /\ Live(r) # w
      BY <3>1 DEF LiveNames
    <3>3. r # p
      BY <3>2
    <3>4. QED
      BY <1>1, <3>1, <3>2, <3>3, OnlyTwoSides
  <2>3. QED
    BY <1>6, <2>1, <2>2, FrozenKept DEF Safe, IInv, TypeOK
<1>8. SavedOnlyInKitDuel'
  <2>1. ASSUME NEW r \in Players, saved'[r].kept
        PROVE  saved[r].kept /\ ~KitDuelOf(a, r)
    <3>1. CASE AtStake(a)
      BY <2>1, <3>1 DEF QuitDuel, AtStake, KitDuelOf, HasKit
    <3>2. CASE ~AtStake(a)
      <4>1. Returned(HasKit(a), left)
        BY <3>2 DEF QuitDuel
      <4>2. saved[r].kept /\ ~(HasKit(a) /\ \E o \in left : o.name = r)
        BY <2>1, <4>1 DEF Returned, NotSaved
      <4>3. IsPlaying(a, r) => \E o \in left : o.name = r
        BY <1>1, OnlyTwoSides DEF Live
      <4>4. QED
        BY <4>2, <4>3 DEF KitDuelOf
    <3>3. QED
      BY <3>1, <3>2
  <2>2. QED
    BY <1>6, <2>1, SavedKept DEF Safe
<1>9. NothingDuplicated'
  <2>1. CASE ~AtStake(a)
    BY <2>1, ReturnedMoves DEF QuitDuel, Safe
  <2>2. CASE AtStake(a) /\ w.live
    <3>1. Swipe(p, w.name) /\ w.name \in Players /\ saved' = saved
      BY <1>2, <2>2 DEF QuitDuel, PlayerObject
    <3>2. QED
      BY <3>1, SwipeMoves DEF Safe
  <2>3. CASE AtStake(a) /\ ~w.live
    <3>1. holding' = [holding EXCEPT ![p] = {}] /\ saved' = saved
      BY <2>3 DEF QuitDuel
    <3>2. \A r \in Players : holding'[r] \subseteq holding[r]
      BY <3>1 DEF IInv, TypeOK
    <3>3. QED
      BY <3>1, <3>2 DEF Safe, NothingDuplicated
  <2>4. QED
    BY <2>1, <2>2, <2>3
<1>10. QED
  BY <1>7, <1>8, <1>9 DEF Safe

\* onDisable returns what was put aside, or loses it, and forgets the rest.
LEMMA RestartSafe ==
    ASSUME IInv, Safe, Restart
    PROVE  Safe'
<1>1. \A p \in Players : /\ saved'[p] = NotSaved
                         /\ holding'[p] = holding[p] \/ holding'[p] = saved[p].items
  BY DEF Restart
<1>2. NothingDuplicated'
  BY <1>1 DEF Safe, NothingDuplicated, NotSaved
<1>3. SavedOnlyInKitDuel' /\ FrozenOnlyBeforeStart'
  BY <1>1 DEF SavedOnlyInKitDuel, FrozenOnlyBeforeStart, NotSaved, Restart
<1>4. QED
  BY <1>2, <1>3 DEF Safe

\* Nothing that players, floors and belongings in the arenas depend on changes, or
\* only a duel starts.
ArenasQuiet == UNCHANGED <<playing, status, elapsed, duelType, itemVars, frozen, holed>>
DuelStarts  == /\ \E p, q \in Players : \E t \in Types : \E a \in FreeArenas(t) :
                      StartDuel(a, t, p, q)
               /\ UNCHANGED <<itemVars, holed>>

\* A queue entry examined by DuelTask.
LEMMA MatchQueueQuiet ==
    ASSUME IInv, NEW t \in Types, MatchQueue(t)
    PROVE  ArenasQuiet \/ DuelStarts
<1>1. UNCHANGED <<itemVars, holed>>
  BY DEF MatchQueue
<1>2. CASE UNCHANGED <<arenaVars, frozen>>
  BY <1>1, <1>2 DEF ArenasQuiet, arenaVars
<1>3. CASE CanMatch(t) /\ \E a \in FreeArenas(t) :
               StartDuel(a, t, queue[t][1], queue[t][2])
  <2>1. queue[t] \in Seq(Players)
    BY DEF IInv, TypeOK
  <2>2. queue[t][1] \in Players /\ queue[t][2] \in Players
    BY <1>3, <2>1, LenProperties, ElementOfSeq DEF CanMatch
  <2>3. QED
    BY <1>1, <1>3, <2>2 DEF DuelStarts
<1>4. QED
  BY <1>2, <1>3 DEF MatchQueue

\* A form or a command: at most a challenge is accepted.
LEMMA CommandQuiet ==
    ASSUME IInv, Command
    PROVE  ArenasQuiet \/ DuelStarts
<1> PICK p \in Players :
        \/ OpenMenu(p) \/ ResultOpensMenu(p) \/ Rematch(p) \/ CloseForm(p)
        \/ LeaveQueue(p) \/ Unspectate(p) \/ ChooseSpectate(p) \/ JoinQueue(p)
        \/ \E q \in Players, t \in Types : DuelCommand(p, q, t)
        \/ \E t \in Types : ChooseType(p, t)
        \/ \E a \in Arenas : Spectate(p, a)
  BY DEF Command
<1>1. ASSUME NEW q \in Players, NEW t, AcceptOrChallenge(p, q, t)
      PROVE  ArenasQuiet \/ DuelStarts
  <2>1. UNCHANGED <<itemVars, holed>>
    BY <1>1 DEF AcceptOrChallenge
  <2>2. CASE UNCHANGED <<arenaVars, frozen>>
    BY <2>1, <2>2 DEF ArenasQuiet, arenaVars
  <2>3. CASE request[q].to = p /\ \E a \in FreeArenas(request[q].type) :
                 StartDuel(a, request[q].type, p, q)
    <3>1. request[q].type \in Types
      BY <2>3, NobodyAssumption DEF IInv, TypeOK, Request, NoRequest
    <3>2. QED
      BY <2>1, <2>3, <3>1 DEF DuelStarts
  <2>4. QED
    BY <1>1, <2>2, <2>3 DEF AcceptOrChallenge
<1>2. ASSUME OpenMenu(p) \/ ResultOpensMenu(p) \/ CloseForm(p) PROVE ArenasQuiet
  BY <1>2 DEF OpenMenu, ResultOpensMenu, CloseForm, arenaVars, ArenasQuiet
<1>3. ASSUME LeaveQueue(p) \/ ChooseSpectate(p) \/ JoinQueue(p) PROVE ArenasQuiet
  BY <1>3 DEF LeaveQueue, ChooseSpectate, JoinQueue, arenaVars, ArenasQuiet
<1>4. ASSUME Unspectate(p) \/ \E a \in Arenas : Spectate(p, a) PROVE ArenasQuiet
  BY <1>4 DEF Unspectate, Spectate, ArenasQuiet
<1>5. ASSUME NEW t \in Types, ChooseType(p, t) PROVE ArenasQuiet
  BY <1>5 DEF ChooseType, arenaVars, ArenasQuiet
<1>6. ASSUME NEW q \in Players, NEW t \in Types, DuelCommand(p, q, t)
      PROVE  ArenasQuiet \/ DuelStarts
  BY <1>1, <1>6 DEF DuelCommand
<1>7. ASSUME Rematch(p) PROVE ArenasQuiet \/ DuelStarts
  <2>1. result[p].opponent \in Players
    BY <1>7 DEF Rematch, IInv, TypeOK, Result, NoResult
  <2>2. QED
    BY <1>1, <1>7, <2>1 DEF Rematch
<1>8. QED
  BY <1>2, <1>3, <1>4, <1>5, <1>6, <1>7

\* Every step, shutdowns included, preserves Safe.
LEMMA SafeStep == IInv /\ Safe /\ [NextWithRestart]_vars => Safe'
<1> SUFFICES ASSUME IInv, Safe, [NextWithRestart]_vars PROVE Safe'
  OBVIOUS
<1>1. ASSUME ArenasQuiet \/ DuelStarts PROVE Safe'
  BY <1>1, SafeQuiet, StartDuelSafe DEF ArenasQuiet, DuelStarts
<1>2. ASSUME NEW a \in Arenas, TickArena(a) PROVE Safe'
  <2>1. ASSUME TickThrows(a) PROVE Safe'
    BY <2>1, SafeQuiet DEF TickThrows, arenaVars
  <2>2. ASSUME TickWaiting(a) PROVE Safe'
    <3>1. status' = status
      BY <2>2 DEF TickWaiting, Ended, IInv, TypeOK, ArenasOK, ArenaOK
    <3>2. QED
      BY <2>2, <3>1, SafeQuiet DEF TickWaiting
  <2>3. QED
    BY <1>2, <2>1, <2>2, TickClearSafe, TickBeginSafe, RunningSafe DEF TickArena
<1>3. ASSUME NEW p \in Players, Quit(p) PROVE Safe'
  <2>1. spectating \in [Arenas -> SUBSET PlayerObject]
    BY DEF IInv, TypeOK
  <2>2. ASSUME QuitQueued(p) \/ QuitInactiveDuel(p) PROVE Safe'
    BY <2>1, <2>2, CloseSafe DEF QuitQueued, QuitInactiveDuel
  <2>3. ASSUME QuitOutside(p) PROVE Safe'
    <3> DEFINE watchers ==
            IF SpectatedBy(p) # {}
            THEN [spectating EXCEPT ![Min(SpectatedBy(p))] =
                     {s \in spectating[Min(SpectatedBy(p))] : s.name # p}]
            ELSE spectating
    <3>1. watchers \in [Arenas -> SUBSET PlayerObject]
      BY <2>1, SpectatedIsOne
    <3>2. Disconnect(p, playing, watchers)
      BY <2>3 DEF QuitOutside
    <3>3. QED
      BY <2>3, <3>1, <3>2, CloseSafe DEF QuitOutside
  <2>4. QED
    BY <1>3, <2>2, <2>3, QuitDuelSafe DEF Quit
<1>4. ASSUME NEW p \in Players, BreakFloor(p) \/ Join(p) PROVE Safe'
  BY <1>4, SafeQuiet DEF BreakFloor, Join, arenaVars
<1>5. CASE DuelTask
  BY <1>1, <1>2, <1>5, MatchQueueQuiet DEF DuelTask
<1>6. CASE Command
  BY <1>1, <1>6, CommandQuiet
<1>7. CASE Event
  BY <1>3, <1>4, <1>7, FallSafe, KillSafe DEF Event
<1>8. CASE Clock
  BY <1>8, RunningSafe DEF Clock
<1>9. CASE Restart
  BY <1>9, RestartSafe
<1>10. CASE UNCHANGED vars
  BY <1>10, SafeQuiet DEF vars, itemVars
<1>11. QED
  BY <1>5, <1>6, <1>7, <1>8, <1>9, <1>10 DEF NextWithRestart, Next

-----------------------------------------------------------------------------
(* Floors. *)

\* What leaves a floor duel's arena occupied leaves its floor to it.
LEMMA FloorQuiet ==
    ASSUME FloorInv, UNCHANGED <<duelType, holed>>,
           \A a \in Arenas : NoSlots(a)' => NoSlots(a), holed \subseteq Arenas
    PROVE  FloorInv'
BY DEF FloorInv, HasFloor

\* A duel starts where no block is missing.
LEMMA FloorStart ==
    ASSUME IInv, FloorInv, DuelStarts
    PROVE  FloorInv'
<1>1. PICK p \in Players, q \in Players, t \in Types, a \in Arenas :
          a \in FreeArenas(t) /\ StartDuel(a, t, p, q) /\ holed' = holed
  BY DEF DuelStarts, FreeArenas
<1>2. a \notin holed
  BY <1>1 DEF FreeArenas, FloorInv
<1>3. ASSUME NEW b \in holed PROVE ~NoSlots(b)' /\ HasFloor(b)'
  <2>1. b \in Arenas /\ b # a
    BY <1>2 DEF IInv, TypeOK
  <2>2. playing'[b] = playing[b] /\ duelType'[b] = duelType[b]
    BY <1>1, <2>1 DEF StartDuel, IInv, TypeOK
  <2>3. QED
    BY <2>2 DEF FloorInv, NoSlots, HasFloor
<1>4. QED
  BY <1>1, <1>3 DEF FloorInv

\* An arena that is emptied has its floor filled, and no other floor changes.
LEMMA FloorEmptied ==
    ASSUME IInv, FloorInv, NEW a \in Arenas, holed' = Refilled(a), duelType' = duelType,
           \A b \in Arenas \ {a} : NoSlots(b)' => NoSlots(b)
    PROVE  FloorInv'
<1>1. a \notin holed' /\ holed' \subseteq holed
  BY DEF Refilled, FloorInv
<1>2. ASSUME NEW b \in holed' PROVE ~NoSlots(b)' /\ HasFloor(b)'
  <2>1. b \in Arenas \ {a} /\ b \in holed
    BY <1>1 DEF IInv, TypeOK
  <2>2. QED
    BY <2>1 DEF FloorInv, HasFloor
<1>3. QED
  BY <1>2 DEF FloorInv

\* Closing p's object empties no slot.
LEMMA FloorClosed ==
    ASSUME IInv, NEW p \in Players, NEW watchers \in [Arenas -> SUBSET PlayerObject],
           Disconnect(p, playing, watchers), FloorInv, holed' = holed
    PROVE  FloorInv'
<1>1. playing \in [Arenas -> [Sides -> PlayerObject \cup {EmptySlot}]]
  BY DEF IInv, TypeOK
<1>2. \A a \in Arenas : NoSlots(a)' <=> NoSlots(a)
  BY <1>1, DisconnectArenas DEF NoSlots
<1>3. QED
  BY <1>2, FloorQuiet DEF Disconnect, IInv, TypeOK

\* Leaving during a duel empties its arena.
LEMMA FloorForfeited ==
    ASSUME IInv, FloorInv, NEW p \in Players, QuitDuel(p)
    PROVE  FloorInv'
<1> PICK a \in Arenas : a = PlayerDuel(p)
  BY PlayerDuelIsOne DEF QuitDuel
<1> DEFINE slots == [playing EXCEPT ![a] = Vacant]
           watchers == [spectating EXCEPT ![a] = {}]
<1>1. /\ slots \in [Arenas -> [Sides -> PlayerObject \cup {EmptySlot}]]
      /\ watchers \in [Arenas -> SUBSET PlayerObject]
  BY DEF IInv, TypeOK, Vacant
<1>2. Disconnect(p, slots, watchers) /\ holed' = Refilled(a)
  BY DEF QuitDuel
<1>3. \A b \in Arenas, i \in Sides : playing'[b][i] = EmptySlot <=> slots[b][i] = EmptySlot
  BY <1>1, <1>2, DisconnectArenas
<1>4. ASSUME NEW b \in Arenas \ {a} PROVE NoSlots(b)' => NoSlots(b)
  <2>1. slots[b] = playing[b]
    BY DEF IInv, TypeOK
  <2>2. QED
    BY <1>3, <2>1 DEF NoSlots
<1>5. QED
  BY <1>2, <1>4, FloorEmptied DEF Disconnect

\* Every step but a shutdown, which fills nothing, preserves FloorInv.
LEMMA FloorStep == IInv /\ FloorInv /\ [Next]_vars => FloorInv'
<1> SUFFICES ASSUME IInv, FloorInv, [Next]_vars PROVE FloorInv'
  OBVIOUS
<1>1. ASSUME UNCHANGED <<playing, duelType, holed>> PROVE FloorInv'
  BY <1>1, FloorQuiet DEF NoSlots, IInv, TypeOK
<1>2. ASSUME ArenasQuiet \/ DuelStarts PROVE FloorInv'
  BY <1>1, <1>2, FloorStart DEF ArenasQuiet
<1>3. ASSUME NEW a \in Arenas, TickArena(a) PROVE FloorInv'
  <2>1. ASSUME TickClear(a) PROVE FloorInv'
    <3>1. \A b \in Arenas \ {a} : playing'[b] = playing[b]
      BY <2>1 DEF TickClear, IInv, TypeOK
    <3>2. QED
      BY <2>1, <3>1, FloorEmptied DEF TickClear, NoSlots
  <2>2. ASSUME ~TickClear(a) PROVE FloorInv'
    BY <1>1, <1>3, <2>2
    DEF TickArena, TickThrows, TickWaiting, TickBegin, TickCountdown, TickActive, arenaVars
  <2>3. QED
    BY <2>1, <2>2
<1>4. ASSUME NEW p \in Players, BreakFloor(p) PROVE FloorInv'
  <2>1. PICK a \in Arenas : a = PlayerDuel(p) /\ IsPlaying(a, p)
    BY <1>4, PlayerDuelIsOne DEF BreakFloor
  <2>2. ~NoSlots(a) /\ HasFloor(a)
    BY <1>4, <2>1, NobodyAssumption DEF BreakFloor, IsPlaying, NoSlots, EmptySlot
  <2>3. QED
    BY <1>4, <2>1, <2>2 DEF BreakFloor, FloorInv, arenaVars, NoSlots, HasFloor
<1>5. ASSUME NEW p \in Players, Fall(p) PROVE FloorInv'
  <2>1. PICK a \in Arenas : a = PlayerDuel(p)
    BY <1>5, PlayerDuelIsOne DEF Fall
  <2>2. QED
    BY <1>5, <2>1, FloorEmptied DEF Fall, NoSlots
<1>6. ASSUME NEW p \in Players, Quit(p) PROVE FloorInv'
  <2>1. spectating \in [Arenas -> SUBSET PlayerObject]
    BY DEF IInv, TypeOK
  <2>2. ASSUME QuitQueued(p) \/ QuitInactiveDuel(p) PROVE FloorInv'
    BY <2>1, <2>2, FloorClosed DEF QuitQueued, QuitInactiveDuel
  <2>3. ASSUME QuitOutside(p) PROVE FloorInv'
    <3> DEFINE watchers ==
            IF SpectatedBy(p) # {}
            THEN [spectating EXCEPT ![Min(SpectatedBy(p))] =
                     {s \in spectating[Min(SpectatedBy(p))] : s.name # p}]
            ELSE spectating
    <3>1. watchers \in [Arenas -> SUBSET PlayerObject]
      BY <2>1, SpectatedIsOne
    <3>2. Disconnect(p, playing, watchers) /\ holed' = holed
      BY <2>3 DEF QuitOutside
    <3>3. QED
      BY <3>1, <3>2, FloorClosed
  <2>4. QED
    BY <1>6, <2>2, <2>3, FloorForfeited DEF Quit
<1>7. CASE DuelTask
  BY <1>2, <1>3, <1>7, MatchQueueQuiet DEF DuelTask
<1>8. CASE Command
  BY <1>2, <1>8, CommandQuiet
<1>9. CASE Event
  <2>1. ASSUME NEW p \in Players, NEW k \in Players, Kill(p, k) PROVE FloorInv'
    BY <1>1, <2>1 DEF Kill
  <2>2. ASSUME NEW p \in Players, Join(p) PROVE FloorInv'
    BY <1>1, <2>2 DEF Join, arenaVars
  <2>3. QED
    BY <1>4, <1>5, <1>6, <1>9, <2>1, <2>2 DEF Event
<1>10. CASE Clock
  BY <1>1, <1>10 DEF Clock, Second
<1>11. CASE UNCHANGED vars
  BY <1>1, <1>11 DEF vars
<1>12. QED
  BY <1>7, <1>8, <1>9, <1>10, <1>11 DEF Next

-----------------------------------------------------------------------------
(* The theorems. *)

\* A server that starts has put nothing aside, frozen nobody and holed no floor.
LEMMA InitSafe == Init => Safe
<1> SUFFICES ASSUME Init PROVE Safe
  OBVIOUS
<1>1. \A p \in Players : saved[p] = NotSaved /\ holding[p] = {p}
  BY DEF Init
<1>2. NothingDuplicated
  BY <1>1 DEF NothingDuplicated, NotSaved
<1>3. SavedOnlyInKitDuel /\ FrozenOnlyBeforeStart
  BY <1>1 DEF SavedOnlyInKitDuel, FrozenOnlyBeforeStart, NotSaved, Init
<1>4. QED
  BY <1>2, <1>3 DEF Safe

\* Both invariants, shutdowns and starts included.
THEOREM SafeAlways == SpecWithRestart => []Safe
<1>1. Init => IInv /\ Safe
  BY InitIInv, InitSafe
<1>2. IInv /\ Safe /\ [NextWithRestart]_vars => (IInv /\ Safe)'
  BY NextIInv, SafeStep
<1>3. QED
  BY <1>1, <1>2, PTL DEF SpecWithRestart

\* An inventory is put aside only for somebody in a kit duel that has begun.
THEOREM SavedInKitDuels == SpecWithRestart => []SavedOnlyInKitDuel
<1>1. Safe => SavedOnlyInKitDuel
  BY DEF Safe
<1>2. QED
  BY <1>1, SafeAlways, PTL

\* No belonging is ever in two places, whoever kills, leaves, crashes or returns.
THEOREM NoDuplication == SpecWithRestart => []NothingDuplicated
<1>1. Safe => NothingDuplicated
  BY DEF Safe
<1>2. QED
  BY <1>1, SafeAlways, PTL

\* Nobody stays immobile but in an arena whose duel has not started yet.
THEOREM Unfreezes == SpecWithRestart => []FrozenOnlyBeforeStart
<1>1. Safe => FrozenOnlyBeforeStart
  BY DEF Safe
<1>2. QED
  BY <1>1, SafeAlways, PTL

\* An arena nobody plays in has its whole floor, however its last duel ended.
THEOREM FloorsRepaired == Spec => []FloorRepaired
<1>1. Spec => []IInv
  BY Inductive, SpecIsSpecial, PTL
<1>2. Init => FloorInv
  BY DEF Init, FloorInv
<1>3. IInv /\ FloorInv /\ [Next]_vars => FloorInv'
  BY FloorStep
<1>4. FloorInv => FloorRepaired
  BY DEF FloorInv, FloorRepaired
<1>5. QED
  BY <1>1, <1>2, <1>3, <1>4, PTL DEF Spec
=============================================================================
