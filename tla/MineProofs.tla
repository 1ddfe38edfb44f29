----------------------------- MODULE MineProofs -----------------------------
(***************************************************************************)
(* Proofs about MineReset and PersonalMines: their types, and that a reset,  *)
(* which puts whole chunks back as they were when it began, changes its mine  *)
(* only, overwrites no edit and buries nobody, for any number of mines,       *)
(* resets, players and stops.                                                 *)
(***************************************************************************)
EXTENDS PersonalMines, SequenceTheorems, TLAPS

-----------------------------------------------------------------------------
(* The bag of tasks. *)

LEMMA Submitted ==
    ASSUME IsABag(tasks), NEW new, tasks' = tasks (+) SetToBag(new)
    PROVE  /\ IsABag(tasks') /\ DOMAIN tasks' = DOMAIN tasks \cup new
           /\ \A t \in DOMAIN tasks' :
                  tasks'[t] = (IF t \in DOMAIN tasks THEN tasks[t] ELSE 0)
                              + (IF t \in new THEN 1 ELSE 0)
<1>1. /\ DOMAIN tasks' = DOMAIN tasks \cup new
      /\ tasks' = [t \in DOMAIN tasks' |-> tasks'[t]]
      /\ \A t \in DOMAIN tasks' :
             tasks'[t] = (IF t \in DOMAIN tasks THEN tasks[t] ELSE 0)
                         + (IF t \in new THEN 1 ELSE 0)
  BY DEF (+), SetToBag
<1>2. \A t \in DOMAIN tasks' : tasks'[t] \in {n \in Nat : n > 0}
  BY <1>1 DEF IsABag
<1> QED
  BY <1>1, <1>2 DEF IsABag

LEMMA Collected ==
    ASSUME IsABag(tasks), NEW t \in DOMAIN tasks, tasks' = tasks (-) SetToBag({t})
    PROVE  /\ IsABag(tasks') /\ DOMAIN tasks' \subseteq DOMAIN tasks
           /\ \A u \in DOMAIN tasks \ {t} : u \in DOMAIN tasks' /\ tasks'[u] = tasks[u]
           /\ tasks[t] = 1 => t \notin DOMAIN tasks'
           /\ tasks' # tasks
<1>1. \A u \in DOMAIN tasks : tasks[u] \in Nat /\ tasks[u] > 0
  BY DEF IsABag
<1>2. /\ DOMAIN tasks' = {u \in DOMAIN tasks : (IF u = t THEN tasks[u] - 1 ELSE tasks[u]) > 0}
      /\ tasks' = [u \in DOMAIN tasks' |-> tasks'[u]]
      /\ \A u \in DOMAIN tasks' : tasks'[u] = IF u = t THEN tasks[u] - 1 ELSE tasks[u]
  BY DEF (-), SetToBag
<1>3. \A u \in DOMAIN tasks' : tasks'[u] \in {n \in Nat : n > 0}
  BY <1>1, <1>2
<1>4. IsABag(tasks')
  BY <1>2, <1>3 DEF IsABag
<1>5. \A u \in DOMAIN tasks \ {t} : u \in DOMAIN tasks' /\ tasks'[u] = tasks[u]
  BY <1>1, <1>2
<1>6. tasks[t] = 1 => t \notin DOMAIN tasks'
  BY <1>2
<1>7. DOMAIN tasks' \subseteq DOMAIN tasks
  BY <1>2
<1>8. tasks' # tasks
  BY <1>1, <1>2
<1> QED
  BY <1>4, <1>5, <1>6, <1>7, <1>8

LEMMA NoTasks == tasks' = EmptyBag => IsABag(tasks') /\ DOMAIN tasks' = {}
BY DEF EmptyBag, SetToBag, IsABag

-----------------------------------------------------------------------------
(* Types of MineReset. *)

\* What mines and tasks have in common.
LEMMA AreaInCells ==
    ASSUME NEW m, m.a \in Cell, m.b \in Cell
    PROVE  Area(m) \subseteq Cell /\ m.a \in Nat /\ m.b \in Nat
<1>1. m.a \in Nat /\ m.b \in Nat /\ 0..m.b \subseteq Cell
  BY GeometryAssumption
<1>2. m.a..m.b \subseteq 0..m.b
  BY <1>1
<1> QED
  BY <1>1, <1>2 DEF Area

LEMMA MineFacts ==
    ASSUME TypeOK, NEW n \in DOMAIN mines
    PROVE  /\ n \in Name /\ mines[n] \in Mine
           /\ mines[n].a \in Cell /\ mines[n].b \in Cell /\ mines[n].a <= mines[n].b
           /\ mines[n] = [a |-> mines[n].a, b |-> mines[n].b, data |-> mines[n].data,
                          resetting |-> mines[n].resetting]
           /\ mines[n].data \in BOOLEAN /\ mines[n].resetting \in BOOLEAN
BY DEF TypeOK, Mine

LEMMA NewMineType ==
    ASSUME NEW a \in Cell, NEW b \in Cell, a <= b, NEW data \in BOOLEAN
    PROVE  NewMine(a, b, data) \in Mine
BY DEF NewMine, Mine

\* A mine is put under a name, or taken away.
LEMMA PutTypes ==
    ASSUME TypeOK, NEW n \in Name, NEW m \in Mine, Put(n, m)
    PROVE  /\ DOMAIN mines' \subseteq Name /\ mines' \in [DOMAIN mines' -> Mine]
           /\ stale' \subseteq Name
BY DEF TypeOK, Put

LEMMA TakeTypes ==
    ASSUME TypeOK, NEW n \in Name, Take(n)
    PROVE  /\ DOMAIN mines' \subseteq Name /\ mines' \in [DOMAIN mines' -> Mine]
           /\ stale' \subseteq Name
BY DEF TypeOK, Take

LEMMA DoneTypes ==
    ASSUME TypeOK, NEW t \in DOMAIN tasks, Done(t)
    PROVE  /\ IsABag(tasks') /\ DOMAIN tasks' \subseteq DOMAIN tasks
           /\ stale' \subseteq stale
<1>1. IsABag(tasks) /\ tasks' = tasks (-) SetToBag({t})
  BY DEF TypeOK, Done
<1> QED
  BY <1>1, Collected DEF Done

LEMMA StartResetsTypes ==
    ASSUME TypeOK, NEW ns \in SUBSET DOMAIN mines, StartResets(ns)
    PROVE  TypeOK'
<1> DEFINE new == {Task(n) : n \in ns}
<1>1. UNCHANGED <<full, at, session, asked, stale>>
  BY DEF StartResets
<1>2. /\ DOMAIN mines' = DOMAIN mines
      /\ mines' \in [DOMAIN mines -> Mine]
  <2>1. mines' = [n \in DOMAIN mines |->
                     IF n \in ns THEN [mines[n] EXCEPT !.resetting = TRUE] ELSE mines[n]]
    BY DEF StartResets
  <2>2. \A n \in DOMAIN mines : [mines[n] EXCEPT !.resetting = TRUE] \in Mine
    BY MineFacts DEF Mine
  <2> QED
    BY <2>1, <2>2, MineFacts
<1>3. \A t \in new : /\ t.name \in Name /\ t.copy \subseteq Cell
                     /\ t.a \in Cell /\ t.b \in Cell /\ t.a <= t.b
  BY MineFacts DEF Task, TypeOK
<1>4. tasks' = tasks (+) SetToBag(new) /\ IsABag(tasks)
  BY DEF StartResets, TypeOK
<1> HIDE DEF new
<1>5. IsABag(tasks') /\ DOMAIN tasks' = DOMAIN tasks \cup new
  BY <1>4, Submitted
<1>6. \A t \in DOMAIN tasks' : /\ t.name \in Name /\ t.copy \subseteq Cell
                               /\ t.a \in Cell /\ t.b \in Cell /\ t.a <= t.b
  BY <1>3, <1>5 DEF TypeOK
<1> QED
  BY <1>1, <1>2, <1>5, <1>6 DEF TypeOK

LEMMA CompleteTypes ==
    ASSUME TypeOK, NEW t \in DOMAIN tasks, Complete(t) \/ Crash(t)
    PROVE  TypeOK'
<1>1. IsABag(tasks') /\ DOMAIN tasks' \subseteq DOMAIN tasks /\ stale' \subseteq stale
  BY DoneTypes DEF Complete, Crash
<1>2. UNCHANGED <<session, asked>>
  BY DEF Complete, Crash
<1>3. full' \subseteq Cell
  <2>1. Area(t) \subseteq Cell /\ t.copy \subseteq Cell
    BY AreaInCells DEF TypeOK
  <2> QED
    BY <2>1 DEF Complete, Crash, TypeOK, Filled, Area
<1>4. at' \in [Walkers -> Coordinate \cup {Away}]
  BY DEF Complete, Crash, Cleared, TypeOK
<1>5. DOMAIN mines' \subseteq Name /\ mines' \in [DOMAIN mines' -> Mine]
  <2>1. CASE mines' = mines
    BY <2>1 DEF TypeOK
  <2>2. CASE t.name \in DOMAIN mines /\ mines' = [mines EXCEPT ![t.name].resetting = FALSE]
    <3>1. [mines[t.name] EXCEPT !.resetting = FALSE] \in Mine
      BY <2>2, MineFacts DEF Mine
    <3> QED
      BY <2>2, <3>1 DEF TypeOK
  <2> QED
    BY <2>1, <2>2 DEF Complete, Crash, Notified
<1> QED
  BY <1>1, <1>2, <1>3, <1>4, <1>5 DEF TypeOK

LEMMA PlayerTypes ==
    ASSUME TypeOK,
           \/ \E c \in Cell : Break(c) \/ Place(c)
           \/ \E p \in Walkers, x \in Coordinate \cup {Away} : Walk(p, x)
    PROVE  TypeOK'
BY DEF TypeOK, Break, Place, Walk

LEMMA SessionTypes ==
    ASSUME TypeOK, NEW p \in Admin
    PROVE  /\ session[p].stage = "A" => session[p].name \in DOMAIN Site
           /\ session[p].stage = "B" => session[p].name \in DOMAIN Site /\ session[p].a \in Cell
           /\ session[p] \in Session
BY DEF TypeOK, Session, NoSession

LEMMA AdminTypes ==
    ASSUME TypeOK, NEW p \in Admin,
           \/ \E n \in Name : Create(p, n) \/ DestroyAsk(p, n) \/ Destroy(p, n)
           \/ \E c \in Cell : TapFirst(p, c) \/ TapSecond(p, c)
           \/ TapElsewhere(p)
    PROVE  TypeOK'
<1>1. UNCHANGED <<tasks, full, at>>
  BY DEF Create, DestroyAsk, Destroy, TapFirst, TapSecond, TapElsewhere
<1>2. DOMAIN mines' \subseteq Name /\ mines' \in [DOMAIN mines' -> Mine] /\ stale' \subseteq Name
  <2>1. CASE \E n \in Name : Destroy(p, n)
    BY <2>1, TakeTypes DEF Destroy
  <2>2. CASE \E c \in Cell : TapSecond(p, c)
    <3>1. PICK a, b : <<a, b>> \in Site[session[p].name] /\ Put(session[p].name, NewMine(a, b, FALSE))
      BY <2>2 DEF TapSecond
    <3>2. session[p].name \in DOMAIN Site /\ session[p].name \in Name
      BY <2>2, SessionTypes, MinesAssumption DEF TapSecond
    <3>3. a \in Cell /\ b \in Cell /\ a <= b
      BY <3>1, <3>2, MinesAssumption
    <3>4. NewMine(a, b, FALSE) \in Mine
      BY <3>3, NewMineType
    <3> QED
      BY <3>1, <3>2, <3>4, PutTypes
  <2>3. CASE UNCHANGED <<mines, stale>>
    BY <2>3 DEF TypeOK
  <2> QED
    BY <2>1, <2>2, <2>3 DEF Create, DestroyAsk, TapFirst, TapElsewhere
<1>3. session' \in [Admin -> Session]
  <2>1. NoSession \in Session /\ session \in [Admin -> Session]
    BY DEF Session, TypeOK
  <2>2. \A n \in DOMAIN Site : [stage |-> "A", name |-> n] \in Session
    BY DEF Session
  <2>3. \A c \in Cell : session[p].stage = "A"
            => [stage |-> "B", name |-> session[p].name, a |-> c] \in Session
    BY SessionTypes DEF Session
  <2> QED
    BY <2>1, <2>2, <2>3
       DEF Create, DestroyAsk, Destroy, TapFirst, TapSecond, TapElsewhere
<1>4. asked' \subseteq Admin
  BY DEF TypeOK, Create, DestroyAsk, Destroy, TapFirst, TapSecond, TapElsewhere
<1> QED
  BY <1>1, <1>2, <1>3, <1>4 DEF TypeOK

LEMMA RestartTypes == TypeOK /\ Restart => TypeOK'
<1> SUFFICES ASSUME TypeOK, Restart PROVE TypeOK'
  OBVIOUS
<1>1. DOMAIN mines' = DOMAIN mines /\ mines' \in [DOMAIN mines -> Mine]
  <2>1. \A n \in DOMAIN mines : [mines[n] EXCEPT !.resetting = FALSE] \in Mine
    BY MineFacts DEF Mine
  <2> QED
    BY <2>1 DEF Restart
<1>2. IsABag(tasks') /\ DOMAIN tasks' = {}
  BY NoTasks DEF Restart
<1> QED
  BY <1>1, <1>2 DEF TypeOK, Restart, Session

LEMMA StepTypes == TypeOK /\ Step => TypeOK'
<1> SUFFICES ASSUME TypeOK, Step PROVE TypeOK'
  OBVIOUS
<1>1. CASE \E n \in Name : Reset(n)
  BY <1>1, StartResetsTypes DEF Reset, Resettable
<1>2. CASE ResetAll
  BY <1>2, StartResetsTypes DEF ResetAll, Resettable
<1>3. CASE \E n \in Name : Set(n)
  <2>1. PICK n \in DOMAIN mines : Set(n)
    BY <1>3 DEF Set
  <2>2. [mines[n] EXCEPT !.data = TRUE] \in Mine
    BY MineFacts DEF Mine
  <2>3. DOMAIN mines' = DOMAIN mines /\ mines' \in [DOMAIN mines -> Mine]
    BY <2>1, <2>2 DEF Set, TypeOK
  <2> QED
    BY <2>1, <2>3 DEF Set, TypeOK
<1> QED
  BY <1>1, <1>2, <1>3, PlayerTypes, CompleteTypes, AdminTypes DEF Step

-----------------------------------------------------------------------------
(* Regions and the book of them. *)

LEMMA RegionFacts ==
    ASSUME NEW from \in Parcel
    PROVE  /\ from \in Nat /\ from \in Cell /\ Region(from) \subseteq Cell
           /\ ShaftAt(from).a \in Cell /\ ShaftAt(from).b \in Cell
           /\ ShaftAt(from).a <= ShaftAt(from).b
           /\ Area(ShaftAt(from)) \subseteq Region(from)
           /\ {from + o : o \in Template} \subseteq Region(from)
<1>1. from \in Nat /\ from \in Cell /\ Region(from) \subseteq Cell
  BY GeometryAssumption DEF Parcel
<1>2. /\ Width \in Nat \ {0} /\ Template \subseteq 0..(Width - 1)
      /\ Shaft[1] \in 0..Shaft[2] /\ Shaft[2] \in 0..(Width - 1)
  BY RegionAssumption
<1>3. Shaft[1] \in Nat /\ Shaft[2] \in Nat /\ Shaft[1] <= Shaft[2] /\ Shaft[2] <= Width - 1
  BY <1>2
<1>4. ShaftAt(from).a = from + Shaft[1] /\ ShaftAt(from).b = from + Shaft[2]
  BY DEF ShaftAt
<1>5. from + Shaft[1] \in Region(from) /\ from + Shaft[2] \in Region(from)
  BY <1>1, <1>2, <1>3 DEF Region
<1>6. Area(ShaftAt(from)) \subseteq Region(from)
  BY <1>1, <1>2, <1>3, <1>4 DEF Region, Area
<1>7. {from + o : o \in Template} \subseteq Region(from)
  BY <1>1, <1>2 DEF Region
<1> QED
  BY <1>1, <1>3, <1>4, <1>5, <1>6, <1>7

\* The region after a region, if it is in the world.
LEMMA NextParcel ==
    ASSUME NEW from \in Parcel, Region(from + Width) \subseteq Cell
    PROVE  from + Width \in Parcel
<1>1. PICK k \in 0..from : from = Start + k * Width
  BY DEF Parcel
<1>2. from \in Nat /\ k \in Nat /\ k <= from /\ Start \in Nat /\ Width \in Nat /\ Width > 0
  BY RegionFacts, RegionAssumption
<1>3. from + Width = Start + (k + 1) * Width
  BY <1>1, <1>2
<1>4. k + 1 \in 0..(from + Width)
  BY <1>2
<1>5. from + Width \in Cell
  <2>1. from + Width \in Region(from + Width)
    BY <1>2 DEF Region
  <2> QED
    BY <2>1
<1> QED
  BY <1>3, <1>4, <1>5 DEF Parcel

LEMMA FirstParcel == Region(Start) \subseteq Cell => Start \in Parcel
<1>1. Start \in Nat /\ Width \in Nat /\ Width > 0
  BY RegionAssumption
<1>2. Start = Start + 0 * Width /\ 0 \in 0..Start
  BY <1>1
<1>3. Start \in Region(Start)
  BY <1>1 DEF Region
<1> QED
  BY <1>2, <1>3 DEF Parcel

LEMMA BookFacts ==
    ASSUME NEW b \in Book
    PROVE  /\ b \in Seq(Settler \X Parcel) /\ Len(b) \in Nat /\ DOMAIN b = 1..Len(b)
           /\ \A i \in DOMAIN b : /\ b[i] \in Settler \X Parcel
                                  /\ b[i][1] \in Settler /\ b[i][2] \in Parcel
           /\ \A i, j \in DOMAIN b : b[i][1] = b[j][1] => i = j
<1>1. /\ b \in Seq(Settler \X Parcel)
      /\ \A i, j \in DOMAIN b : b[i][1] = b[j][1] => i = j
  BY DEF Book
<1>2. Len(b) \in Nat /\ DOMAIN b = 1..Len(b)
  BY <1>1, LenProperties
<1>3. \A i \in DOMAIN b : b[i] \in Settler \X Parcel
  BY <1>1, <1>2
<1> QED
  BY <1>1, <1>2, <1>3

\* An entry less.
LEMMA EntryRemoved ==
    ASSUME NEW b \in Book, NEW i \in DOMAIN b
    PROVE  /\ RemoveAt(b, i) \in Book
           /\ \A k \in DOMAIN RemoveAt(b, i) : \E j \in DOMAIN b \ {i} : RemoveAt(b, i)[k] = b[j]
           /\ \A j \in DOMAIN b \ {i} : \E k \in DOMAIN RemoveAt(b, i) : RemoveAt(b, i)[k] = b[j]
           /\ Len(RemoveAt(b, i)) = Len(b) - 1
           /\ \A k \in DOMAIN RemoveAt(b, i) :
                  RemoveAt(b, i)[k] = b[IF k < i THEN k ELSE k + 1]
<1> DEFINE S == Settler \X Parcel
           n == Len(b)
           front == SubSeq(b, 1, i - 1)
           back == SubSeq(b, i + 1, n)
           r == front \o back
           at1(k) == IF k < i THEN k ELSE k + 1
<1>1. /\ b \in Seq(S) /\ n \in Nat /\ DOMAIN b = 1..n /\ i \in 1..n
      /\ \A j \in 1..n : b[j] \in S
      /\ \A j, k \in 1..n : b[j][1] = b[k][1] => j = k
  BY BookFacts
<1>2. /\ front \in Seq(S) /\ Len(front) = i - 1
      /\ \A k \in 1..(i - 1) : front[k] = b[k]
  <2>1. \A k \in 1..(i - 1) : b[k] \in S
    BY <1>1
  <2>2. /\ SubSeq(b, 1, i - 1) \in Seq(S)
        /\ Len(SubSeq(b, 1, i - 1)) = IF 1 <= i - 1 THEN i - 1 - 1 + 1 ELSE 0
        /\ \A k \in 1..(i - 1 - 1 + 1) : SubSeq(b, 1, i - 1)[k] = b[1 + k - 1]
    BY <1>1, <2>1, SubSeqProperties
  <2> QED
    BY <1>1, <2>2
<1>3. /\ back \in Seq(S) /\ Len(back) = n - i
      /\ \A k \in 1..(n - i) : back[k] = b[i + k]
  <2>1. \A k \in (i + 1)..n : b[k] \in S
    BY <1>1
  <2>2. /\ SubSeq(b, i + 1, n) \in Seq(S)
        /\ Len(SubSeq(b, i + 1, n)) = IF i + 1 <= n THEN n - (i + 1) + 1 ELSE 0
        /\ \A k \in 1..(n - (i + 1) + 1) : SubSeq(b, i + 1, n)[k] = b[i + 1 + k - 1]
    BY <1>1, <2>1, SubSeqProperties
  <2>3. n - (i + 1) + 1 = n - i /\ (i + 1 <= n \/ n - i = 0)
    BY <1>1
  <2> HIDE DEF n
  <2>4. back \in Seq(S) /\ Len(back) = n - i
    BY <2>2, <2>3
  <2>5. ASSUME NEW k \in 1..(n - i) PROVE back[k] = b[i + k]
    <3>1. i + 1 + k - 1 = i + k
      BY <1>1
    <3> QED
      BY <2>2, <2>3, <3>1
  <2> QED
    BY <2>4, <2>5
<1> HIDE DEF S, front, back
<1>4. /\ r \in Seq(S) /\ Len(r) = n - 1
      /\ \A k \in 1..(n - 1) : r[k] = IF k <= i - 1 THEN front[k] ELSE back[k - (i - 1)]
  <2>1. /\ r \in Seq(S) /\ Len(r) = Len(front) + Len(back)
        /\ \A k \in 1..(Len(front) + Len(back)) :
               r[k] = IF k <= Len(front) THEN front[k] ELSE back[k - Len(front)]
    BY <1>2, <1>3, ConcatProperties
  <2> QED
    BY <1>1, <1>2, <1>3, <2>1
<1>5. DOMAIN r = 1..(n - 1)
  BY <1>4, LenProperties
<1> HIDE DEF r
<1>6. \A k \in 1..(n - 1) : r[k] = b[at1(k)] /\ at1(k) \in 1..n /\ at1(k) # i
  <2> SUFFICES ASSUME NEW k \in 1..(n - 1)
               PROVE  r[k] = b[at1(k)] /\ at1(k) \in 1..n /\ at1(k) # i
    OBVIOUS
  <2>1. CASE k <= i - 1
    BY <1>1, <1>2, <1>4, <2>1
  <2>2. CASE ~(k <= i - 1)
    <3>1. /\ k - (i - 1) \in 1..(n - i) /\ i + (k - (i - 1)) = k + 1
          /\ at1(k) = k + 1 /\ at1(k) \in 1..n /\ at1(k) # i
      BY <1>1, <2>2
    <3>2. r[k] = back[k - (i - 1)]
      BY <1>4, <2>2
    <3>3. back[k - (i - 1)] = b[i + (k - (i - 1))]
      BY <1>3, <3>1
    <3> QED
      BY <3>1, <3>2, <3>3
  <2> QED
    BY <2>1, <2>2
<1>7. \A j \in 1..n : j # i => \E k \in 1..(n - 1) : at1(k) = j
  <2> SUFFICES ASSUME NEW j \in 1..n, j # i PROVE \E k \in 1..(n - 1) : at1(k) = j
    OBVIOUS
  <2>1. CASE j < i
    <3>1. j \in 1..(n - 1) /\ at1(j) = j
      BY <1>1, <2>1
    <3> QED
      BY <3>1
  <2>2. CASE j > i
    <3>1. j - 1 \in 1..(n - 1) /\ at1(j - 1) = j
      BY <1>1, <2>2
    <3> QED
      BY <3>1
  <2> QED
    BY <1>1, <2>1, <2>2
<1>8. \A j, k \in 1..(n - 1) : at1(j) = at1(k) => j = k
  BY <1>1
<1>14. \A k \in DOMAIN r : r[k] = b[IF k < i THEN k ELSE k + 1]
  BY <1>5, <1>6
<1> HIDE DEF at1
<1>9. \A j, k \in DOMAIN r : r[j][1] = r[k][1] => j = k
  BY <1>1, <1>5, <1>6, <1>8
<1>10. r \in Book
  BY <1>4, <1>9 DEF Book, S
<1>11. RemoveAt(b, i) = r
  BY DEF RemoveAt, r, front, back
<1>12. \A k \in DOMAIN r : \E j \in DOMAIN b \ {i} : r[k] = b[j]
  BY <1>1, <1>5, <1>6
<1>13. \A j \in DOMAIN b \ {i} : \E k \in DOMAIN r : r[k] = b[j]
  BY <1>1, <1>5, <1>6, <1>7
<1>15. Len(r) = Len(b) - 1
  BY <1>4
<1> QED
  BY <1>10, <1>11, <1>12, <1>13, <1>14, <1>15

\* What a book has of a player.
Has(b, p, from) == \E i \in DOMAIN b : b[i][1] = p /\ b[i][2] = from

LEMMA InTheBook ==
    ASSUME book \in Book, NEW p, NEW from
    PROVE  Listed(p) /\ FromOf(p) = from <=> Has(book, p, from)
<1>1. \A i, j \in DOMAIN book : book[i][1] = book[j][1] => i = j
  BY BookFacts
<1>2. ASSUME Listed(p) PROVE EntryOf(p) \in DOMAIN book /\ book[EntryOf(p)][1] = p
  BY <1>2 DEF Listed, EntryOf
<1>3. Listed(p) /\ FromOf(p) = from => Has(book, p, from)
  BY <1>2 DEF Has, FromOf
<1>4. Has(book, p, from) => Listed(p) /\ FromOf(p) = from
  <2> SUFFICES ASSUME NEW i \in DOMAIN book, book[i][1] = p, book[i][2] = from
               PROVE  Listed(p) /\ FromOf(p) = from
    BY DEF Has
  <2>1. Listed(p)
    BY DEF Listed
  <2>2. EntryOf(p) = i
    BY <1>1, <1>2, <2>1
  <2> QED
    BY <2>1, <2>2 DEF FromOf
<1> QED
  BY <1>3, <1>4

LEMMA OthersFacts ==
    ASSUME book \in Book, NEW p \in Settler
    PROVE  /\ Others(p) \in Book
           /\ \A k \in DOMAIN Others(p) : Others(p)[k][1] # p
           /\ \A q, from : q # p /\ Has(book, q, from) => Has(Others(p), q, from)
<1>1. CASE ~Listed(p)
  <2>1. Others(p) = book
    BY <1>1 DEF Others
  <2> QED
    BY <1>1, <2>1 DEF Listed
<1>2. CASE Listed(p)
  <2> DEFINE i == EntryOf(p)
  <2>1. i \in DOMAIN book /\ book[i][1] = p
    BY <1>2 DEF Listed, EntryOf
  <2>2. Others(p) = RemoveAt(book, i)
    BY <1>2 DEF Others
  <2> HIDE DEF i
  <2>3. /\ Others(p) \in Book
        /\ \A k \in DOMAIN Others(p) : \E j \in DOMAIN book \ {i} : Others(p)[k] = book[j]
        /\ \A j \in DOMAIN book \ {i} : \E k \in DOMAIN Others(p) : Others(p)[k] = book[j]
    BY <2>1, <2>2, EntryRemoved
  <2>4. \A k \in DOMAIN Others(p) : Others(p)[k][1] # p
    BY <2>1, <2>3, BookFacts
  <2>5. \A q, from : q # p /\ Has(book, q, from) => Has(Others(p), q, from)
    BY <2>1, <2>3 DEF Has
  <2> QED
    BY <2>3, <2>4, <2>5
<1> QED
  BY <1>1, <1>2

LEMMA NextFromIsParcel ==
    ASSUME NEW b \in Book, Region(NextFrom(b)) \subseteq Cell
    PROVE  NextFrom(b) \in Parcel
<1>1. CASE b = <<>>
  BY <1>1, FirstParcel DEF NextFrom
<1>2. CASE b # <<>>
  <2>1. Len(b) \in DOMAIN b
    <3>1. b \in Seq(Settler \X Parcel) /\ Len(b) \in Nat /\ DOMAIN b = 1..Len(b)
      BY BookFacts
    <3>2. Len(b) # 0
      BY <1>2, <3>1, EmptySeq
    <3> QED
      BY <3>1, <3>2
  <2>2. b[Len(b)][2] \in Parcel
    BY <2>1, BookFacts
  <2>3. NextFrom(b) = b[Len(b)][2] + Width
    BY <1>2 DEF NextFrom, Last
  <2> QED
    BY <2>2, <2>3, NextParcel
<1> QED
  BY <1>1, <1>2

LEMMA EntryAdded ==
    ASSUME NEW b \in Book, NEW p \in Settler, NEW from \in Parcel,
           \A k \in DOMAIN b : b[k][1] # p
    PROVE  /\ Append(b, <<p, from>>) \in Book
           /\ Has(Append(b, <<p, from>>), p, from)
           /\ \A q, old : Has(b, q, old) => Has(Append(b, <<p, from>>), q, old)
<1> DEFINE more == Append(b, <<p, from>>)
           n == Len(b)
<1>1. /\ b \in Seq(Settler \X Parcel) /\ n \in Nat /\ DOMAIN b = 1..n
      /\ <<p, from>> \in Settler \X Parcel
      /\ \A i, j \in DOMAIN b : b[i][1] = b[j][1] => i = j
  BY BookFacts
<1>2. /\ more \in Seq(Settler \X Parcel) /\ Len(more) = n + 1
      /\ \A i \in 1..n : more[i] = b[i]
      /\ more[n + 1] = <<p, from>>
  BY <1>1, AppendProperties
<1>3. DOMAIN more = 1..(n + 1)
  BY <1>2, LenProperties
<1> HIDE DEF more, n
<1>4. \A i, j \in DOMAIN more : more[i][1] = more[j][1] => i = j
  <2> SUFFICES ASSUME NEW i \in 1..(n + 1), NEW j \in 1..(n + 1), more[i][1] = more[j][1]
               PROVE  i = j
    BY <1>3
  <2>1. \A k \in 1..n : more[k][1] = b[k][1] /\ more[k][1] # p
    BY <1>1, <1>2
  <2>2. more[n + 1][1] = p
    BY <1>2
  <2>3. CASE i \in 1..n /\ j \in 1..n
    BY <1>1, <2>1, <2>3
  <2>4. CASE i = n + 1 \/ j = n + 1
    <3>1. \A k \in 1..(n + 1) : k \in 1..n \/ k = n + 1
      BY <1>1
    <3> QED
      BY <2>1, <2>2, <2>4, <3>1
  <2>5. \A k \in 1..(n + 1) : k \in 1..n \/ k = n + 1
    BY <1>1
  <2> QED
    BY <2>3, <2>4, <2>5
<1>5. more \in Book
  BY <1>2, <1>4 DEF Book
<1>6. Has(more, p, from)
  <2>1. n + 1 \in DOMAIN more
    BY <1>1, <1>3
  <2> QED
    BY <1>2, <2>1 DEF Has
<1>7. \A q, old : Has(b, q, old) => Has(more, q, old)
  <2>1. \A i \in DOMAIN b : i \in DOMAIN more /\ more[i] = b[i]
    BY <1>1, <1>2, <1>3
  <2> QED
    BY <2>1 DEF Has
<1> QED
  BY <1>5, <1>6, <1>7 DEF more

-----------------------------------------------------------------------------
(* Types of PersonalMines. *)

PTypes == /\ TypeOK
          /\ book \in Book /\ filed \in Book
          /\ DOMAIN areas \subseteq Settler /\ areas \in [DOMAIN areas -> Parcel]
          /\ pending \in [Settler -> Paste]
          /\ \A p \in Settler : pending[p] # NoPaste => Has(book, p, pending[p].from)

LEMMA PTypesAre == PTypes <=> PTypeOK
BY InTheBook DEF PTypes, PTypeOK

LEMMA PasteFacts ==
    ASSUME PTypes, NEW p \in Settler, pending[p] # NoPaste
    PROVE  /\ pending[p].from \in Parcel
           /\ pending[p].stage = "populating"
                  => pending[p] = [stage |-> "populating", from |-> pending[p].from]
           /\ pending[p].stage = "pasting" => pending[p].copy \subseteq Cell
BY DEF PTypes, Paste

LEMMA MineOfFacts ==
    ASSUME NEW p \in Settler
    PROVE  MineOf[p] \in Name \ DOMAIN Mines /\ MineOf[p] \in Range(MineOf) /\ p \in Player
BY RegionAssumption DEF Settler, Range

LEMMA PersonalMineTypes ==
    ASSUME PTypes, NEW p \in Settler, PersonalMine(p)
    PROVE  PTypes'
<1> DEFINE from == NextFrom(Others(p))
<1>1. /\ Region(from) \subseteq Cell /\ pending[p] = NoPaste
      /\ book' = Append(Others(p), <<p, from>>)
      /\ pending' = [pending EXCEPT ![p] = [stage |-> "populating", from |-> from]]
      /\ UNCHANGED <<vars, filed, areas>>
  BY DEF PersonalMine
<1>2. /\ Others(p) \in Book
      /\ \A k \in DOMAIN Others(p) : Others(p)[k][1] # p
      /\ \A q, old : q # p /\ Has(book, q, old) => Has(Others(p), q, old)
  BY OthersFacts DEF PTypes
<1>3. from \in Parcel
  BY <1>1, <1>2, NextFromIsParcel
<1> HIDE DEF from
<1>4. /\ book' \in Book /\ Has(book', p, from)
      /\ \A q, old : Has(Others(p), q, old) => Has(book', q, old)
  BY <1>1, <1>2, <1>3, EntryAdded
<1>5. pending' \in [Settler -> Paste] /\ pending'[p].from = from
      /\ \A q \in Settler : q # p => pending'[q] = pending[q]
  BY <1>1, <1>3 DEF PTypes, Paste
<1>6. \A q \in Settler : pending'[q] # NoPaste => Has(book', q, pending'[q].from)
  <2> SUFFICES ASSUME NEW q \in Settler, pending'[q] # NoPaste
               PROVE  Has(book', q, pending'[q].from)
    OBVIOUS
  <2>1. CASE q = p
    BY <1>4, <1>5, <2>1
  <2>2. CASE q # p
    BY <1>2, <1>4, <1>5, <2>2 DEF PTypes
  <2> QED
    BY <2>1, <2>2
<1>7. TypeOK'
  BY <1>1 DEF PTypes, TypeOK, vars
<1>8. (\A q \in Settler : pending[q] # NoPaste => Has(book, q, pending[q].from))'
  BY <1>6 DEF Has
<1> QED
  BY <1>1, <1>4, <1>5, <1>7, <1>8 DEF PTypes

LEMMA SubmitPasteTypes ==
    ASSUME PTypes, NEW p \in Settler, SubmitPaste(p)
    PROVE  PTypes'
<1>1. /\ pending[p].stage = "populating" /\ pending[p] # NoPaste
      /\ pending' = [pending EXCEPT ![p] = [stage |-> "pasting", from |-> @.from,
                                            copy |-> full \cap (Touched(@.from) \ Region(@.from))]]
      /\ UNCHANGED <<vars, book, filed, areas>>
  BY DEF SubmitPaste, NoPaste
<1>2. pending[p].from \in Parcel /\ full \subseteq Cell
  BY <1>1, PasteFacts DEF PTypes, TypeOK
<1>3. /\ pending' \in [Settler -> Paste] /\ pending'[p].from = pending[p].from
      /\ \A q \in Settler : q # p => pending'[q] = pending[q]
  BY <1>1, <1>2 DEF PTypes, Paste
<1>4. \A q \in Settler : pending'[q] # NoPaste => Has(book, q, pending'[q].from)
  BY <1>1, <1>3 DEF PTypes
<1>5. (\A q \in Settler : pending[q] # NoPaste => Has(book, q, pending[q].from))'
  BY <1>1, <1>4 DEF Has
<1> QED
  BY <1>1, <1>3, <1>5 DEF PTypes, TypeOK, vars

LEMMA PasteEnds ==
    ASSUME NEW p \in Settler, FinishPaste(p)
    PROVE  /\ pending[p].stage = "pasting" /\ pending[p] # NoPaste
           /\ full' = Pasted(pending[p].from, pending[p].copy)
           /\ areas' = [q \in DOMAIN areas \cup {p} |->
                            IF q = p THEN pending[p].from ELSE areas[q]]
           /\ Put(MineOf[p], NewMine(pending[p].from + Shaft[1], pending[p].from + Shaft[2], TRUE))
           /\ pending' = [pending EXCEPT ![p] = NoPaste]
           /\ UNCHANGED <<tasks, at, session, asked, book, filed>>
<1>1. pending[p].stage = "pasting"
  BY DEF FinishPaste
<1>2. pending[p] # NoPaste
  BY <1>1 DEF NoPaste
<1> QED
  BY <1>1, <1>2, Zenon DEF FinishPaste

LEMMA FinishPasteTypes ==
    ASSUME PTypes, NEW p \in Settler, FinishPaste(p)
    PROVE  PTypes'
<1> DEFINE from == pending[p].from
<1>1. /\ pending[p].stage = "pasting" /\ pending[p] # NoPaste
      /\ full' = Pasted(from, pending[p].copy)
      /\ areas' = [q \in DOMAIN areas \cup {p} |-> IF q = p THEN from ELSE areas[q]]
      /\ Put(MineOf[p], NewMine(from + Shaft[1], from + Shaft[2], TRUE))
      /\ pending' = [pending EXCEPT ![p] = NoPaste]
      /\ UNCHANGED <<tasks, at, session, asked, book, filed>>
  BY PasteEnds
<1>2. from \in Parcel /\ pending[p].copy \subseteq Cell
  BY <1>1, PasteFacts
<1>3. /\ DOMAIN mines' \subseteq Name /\ mines' \in [DOMAIN mines' -> Mine]
      /\ stale' \subseteq Name
  <2>1. NewMine(from + Shaft[1], from + Shaft[2], TRUE) \in Mine
    BY <1>2, RegionFacts, NewMineType DEF ShaftAt
  <2> QED
    BY <1>1, <2>1, MineOfFacts, PutTypes DEF PTypes
<1>4. full' \subseteq Cell
  BY <1>1, <1>2, RegionFacts DEF Pasted, PTypes, TypeOK
<1>5. areas' \in [DOMAIN areas' -> Parcel] /\ DOMAIN areas' \subseteq Settler
  BY <1>1, <1>2 DEF PTypes
<1>6. pending' \in [Settler -> Paste]
  BY <1>1 DEF PTypes, Paste
<1>7. (\A q \in Settler : pending[q] # NoPaste => Has(book, q, pending[q].from))'
  BY <1>1 DEF PTypes, Has
<1>8. TypeOK'
  BY <1>1, <1>3, <1>4 DEF PTypes, TypeOK
<1> QED
  BY <1>1, <1>5, <1>6, <1>7, <1>8 DEF PTypes

LEMMA DeleteAreaTypes ==
    ASSUME PTypes, NEW p \in Settler, DeleteArea(p)
    PROVE  PTypes'
BY DEF PTypes, TypeOK, DeleteArea, vars, Has

LEMMA StopTypes == PTypes /\ (Stop \/ CrashServer) => PTypes'
<1> SUFFICES ASSUME PTypes, Stop \/ CrashServer PROVE PTypes'
  OBVIOUS
<1>1. TypeOK'
  BY RestartTypes DEF PTypes, Stop, CrashServer
<1>2. /\ book' \in Book /\ filed' \in Book /\ UNCHANGED areas
      /\ pending' = [p \in Settler |-> NoPaste]
  BY DEF PTypes, Stop, CrashServer
<1> QED
  BY <1>1, <1>2 DEF PTypes, Paste

LEMMA PNextTypes == PTypes /\ [PNext]_pvars => PTypes'
<1> SUFFICES ASSUME PTypes, [PNext]_pvars PROVE PTypes'
  OBVIOUS
<1>1. CASE Step /\ UNCHANGED <<book, filed, areas, pending>>
  <2>1. TypeOK'
    BY <1>1, StepTypes DEF PTypes
  <2> QED
    BY <1>1, <2>1 DEF PTypes, Has
<1>2. CASE Settle
  BY <1>2, PersonalMineTypes, SubmitPasteTypes, FinishPasteTypes, DeleteAreaTypes DEF Settle
<1>3. CASE Stop \/ CrashServer
  BY <1>3, StopTypes
<1>4. CASE UNCHANGED pvars
  BY <1>4 DEF pvars, vars, PTypes, TypeOK, Has
<1> QED
  BY <1>1, <1>2, <1>3, <1>4 DEF PNext, Orderly

LEMMA PInitTypes == PInit => PTypes
<1> SUFFICES ASSUME PInit PROVE PTypes
  OBVIOUS
<1>1. TypeOK
  <2>1. IsABag(EmptyBag) /\ DOMAIN EmptyBag = {}
    BY DEF EmptyBag, SetToBag, IsABag
  <2> QED
    BY <2>1, MinesAssumption DEF PInit, Init, TypeOK, Session
<1>2. <<>> \in Book
  BY DEF Book
<1>3. areas = <<>> /\ DOMAIN areas = {} /\ areas \in [DOMAIN areas -> Parcel]
  BY DEF PInit
<1> QED
  BY <1>1, <1>2, <1>3 DEF PInit, PTypes, Paste

-----------------------------------------------------------------------------
(* Where mines are, and what changes around them.                             *)

Plot(m) == [a |-> m.a, b |-> m.b]

\* A region has been pasted: around the mine in it it looks like the clipboard.
Laid(world, from) ==
    world \cap Around(ShaftAt(from)) = {from + o : o \in Template} \cap Around(ShaftAt(from))

\* A mine of this name is where mines may be: in one of the places of administrators,
\* or in a region that has been pasted, if it is a personal one.
Placed(n, m, world) ==
    \/ Plot(m) \in Places
    \/ n \in Range(MineOf) /\ \E from \in Parcel : Plot(m) = ShaftAt(from) /\ Laid(world, from)

AllPlaced == /\ \A n \in DOMAIN mines : Placed(n, mines[n], full)
             /\ \A t \in DOMAIN tasks : Placed(t.name, t, full)

\* Around its mine the world still is as a task has copied it.
CopiesHold == \A t \in DOMAIN tasks : t.copy = full \cap Around(t)

\* What a paste has copied is of the chunks around its region.
PastesFit == \A p \in Settler : pending[p].stage = "pasting" =>
                 pending[p].copy \subseteq Touched(pending[p].from) \ Region(pending[p].from)

World == AllPlaced /\ CopiesHold /\ PastesFit

\* A task that is not stale is the only one of its name, and its mine is where it was,
\* and being reset.
Fresh(t) == /\ t.name \in DOMAIN mines /\ mines[t.name].resetting
            /\ Plot(mines[t.name]) = Plot(t)
            /\ tasks[t] = 1
            /\ \A u \in DOMAIN tasks : u.name = t.name => u = t
FreshTasks == \A t \in DOMAIN tasks : t.name \notin stale => Fresh(t)

Inv == PTypes /\ World /\ FreshTasks

\* An area in which blocks may change: none that was copied for another mine.
Harmless(D) == /\ \A m \in Places : D \cap Around(m) = {}
               /\ \A from \in Parcel : D \cap Around(ShaftAt(from)) = {}

Within(D) == \A c : c \notin D => (c \in full' <=> c \in full)

LEMMA SamePlot ==
    ASSUME NEW m, NEW other, Plot(m) = Plot(other)
    PROVE  m.a = other.a /\ m.b = other.b /\ Area(m) = Area(other) /\ Around(m) = Around(other)
<1>1. m.a = other.a /\ m.b = other.b
  BY DEF Plot
<1> QED
  BY <1>1 DEF Area, Around, CopiedCells, Copied

LEMMA PlotOfPlot ==
    ASSUME NEW m
    PROVE  /\ Plot(Plot(m)) = Plot(m)
           /\ Area(Plot(m)) = Area(m) /\ Around(Plot(m)) = Around(m)
<1>1. Plot(Plot(m)) = Plot(m)
  BY DEF Plot
<1> QED
  BY <1>1, SamePlot

LEMMA ShaftPlot ==
    ASSUME NEW m, NEW from, Plot(m) = ShaftAt(from)
    PROVE  Area(m) = Area(ShaftAt(from)) /\ Around(m) = Around(ShaftAt(from))
BY PlotOfPlot

LEMMA TouchedFacts ==
    ASSUME Apart, NEW from \in Parcel
    PROVE  /\ Region(from) \subseteq Touched(from)
           /\ Around(ShaftAt(from)) \subseteq Region(from)
           /\ Area(ShaftAt(from)) \subseteq Region(from)
<1>1. Region(from) \subseteq Cell /\ Area(ShaftAt(from)) \subseteq Region(from)
  BY RegionFacts
<1>2. Region(from) \subseteq Touched(from)
  BY <1>1 DEF Touched
<1>3. Around(ShaftAt(from)) \subseteq Region(from)
  BY DEF Apart, Around
<1> QED
  BY <1>1, <1>2, <1>3

\* Nothing that was copied is touched.
LEMMA Undisturbed ==
    ASSUME NEW D, Harmless(D), Within(D), NEW n, NEW m, Placed(n, m, full)
    PROVE  Placed(n, m, full') /\ full' \cap Around(m) = full \cap Around(m)
<1>1. ASSUME NEW S, D \cap S = {} PROVE full' \cap S = full \cap S
  BY <1>1 DEF Within
<1>2. CASE Plot(m) \in Places
  <2>1. D \cap Around(Plot(m)) = {}
    BY <1>2 DEF Harmless
  <2>2. full' \cap Around(m) = full \cap Around(m)
    BY <1>1, <2>1, PlotOfPlot
  <2> QED
    BY <1>2, <2>2 DEF Placed
<1>3. CASE n \in Range(MineOf) /\ \E from \in Parcel :
               Plot(m) = ShaftAt(from) /\ Laid(full, from)
  <2>1. PICK from \in Parcel : Plot(m) = ShaftAt(from) /\ Laid(full, from)
    BY <1>3
  <2>2. full' \cap Around(ShaftAt(from)) = full \cap Around(ShaftAt(from))
    BY <1>1 DEF Harmless
  <2>3. Laid(full', from)
    BY <2>1, <2>2 DEF Laid
  <2> QED
    BY <1>3, <2>1, <2>2, <2>3, ShaftPlot DEF Placed
<1> QED
  BY <1>2, <1>3 DEF Placed

LEMMA OpenIsHarmless ==
    ASSUME Apart, NEW c \in Open
    PROVE  Harmless({c})
<1>1. \A m \in Places : {c} \cap Around(m) = {}
  BY DEF Apart
<1>2. ASSUME NEW from \in Parcel PROVE {c} \cap Around(ShaftAt(from)) = {}
  <2>1. Touched(from) \cap Open \subseteq Area(ShaftAt(from))
    BY DEF Apart
  <2>2. Around(ShaftAt(from)) \subseteq Touched(from)
    BY TouchedFacts
  <2> QED
    BY <2>1, <2>2 DEF Around
<1> QED
  BY <1>1, <1>2 DEF Harmless

LEMMA NothingIsHarmless == Harmless({})
BY DEF Harmless

LEMMA PlaceIsHarmless ==
    ASSUME Apart, NEW w \in Places
    PROVE  Harmless(Area(w))
<1>1. \A m \in Places : Area(w) \cap Around(m) = {}
  BY DEF Apart
<1>2. \A from \in Parcel : Area(w) \cap Touched(from) = {}
  BY DEF Apart
<1> QED
  BY <1>1, <1>2, TouchedFacts DEF Harmless

\* What a paste touches, but around its own mine.
LEMMA PasteIsHarmless ==
    ASSUME Apart, NEW own \in Parcel
    PROVE  /\ \A m \in Places : Touched(own) \cap Around(m) = {}
           /\ \A from \in Parcel : from # own => Touched(own) \cap Around(ShaftAt(from)) = {}
BY DEF Apart

LEMMA ShaftIsHarmless ==
    ASSUME Apart, NEW own \in Parcel
    PROVE  Harmless(Area(ShaftAt(own)))
<1>1. Area(ShaftAt(own)) \subseteq Touched(own)
  BY TouchedFacts
<1>2. Area(ShaftAt(own)) \cap Around(ShaftAt(own)) = {}
  BY DEF Around
<1> QED
  BY <1>1, <1>2, PasteIsHarmless DEF Harmless

LEMMA MineIsHarmless ==
    ASSUME Apart, NEW n, NEW m, Placed(n, m, full)
    PROVE  Harmless(Area(m))
<1>1. CASE Plot(m) \in Places
  BY <1>1, PlaceIsHarmless, PlotOfPlot
<1>2. CASE \E from \in Parcel : Plot(m) = ShaftAt(from)
  BY <1>2, ShaftIsHarmless, ShaftPlot
<1> QED
  BY <1>1, <1>2 DEF Placed

\* What the end of a reset puts into the world is its mine and nothing else.
LEMMA ResetFills ==
    ASSUME NEW t, t.copy = full \cap Around(t),
           full' = (full \ CopiedCells(t)) \cup t.copy \cup Filled(t)
    PROVE  full' = full \cup Area(t)
BY DEF Around, Filled, Area

\* And a paste changes nothing but its chunks, and makes its region what it is to be.
LEMMA PasteFills ==
    ASSUME Apart, NEW from \in Parcel, NEW copy \in SUBSET (Touched(from) \ Region(from)),
           full' = Pasted(from, copy)
    PROVE  Within(Touched(from)) /\ Laid(full', from)
<1>1. {from + o : o \in Template} \subseteq Touched(from)
  BY RegionFacts, TouchedFacts
<1>2. Around(ShaftAt(from)) \subseteq Region(from) /\ Region(from) \subseteq Touched(from)
  BY TouchedFacts
<1>3. Within(Touched(from))
  BY <1>1 DEF Pasted, Within
<1>4. Laid(full', from)
  BY <1>2 DEF Pasted, Laid
<1> QED
  BY <1>3, <1>4

-----------------------------------------------------------------------------
(* Steps that put no mine, task or paste anywhere: blocks change where they   *)
(* may, mines are taken away or told something, tasks and pastes end.         *)

LEMMA WorldStays ==
    ASSUME PTypes, World, NEW D, Harmless(D), Within(D),
           \A n \in DOMAIN mines' : n \in DOMAIN mines /\ Plot(mines'[n]) = Plot(mines[n]),
           DOMAIN tasks' \subseteq DOMAIN tasks,
           \A p \in Settler : pending'[p].stage = "pasting" => pending'[p] = pending[p]
    PROVE  World'
<1>1. \A n, m : Placed(n, m, full) =>
          Placed(n, m, full') /\ full' \cap Around(m) = full \cap Around(m)
  BY Undisturbed
<1>2. ASSUME NEW n \in DOMAIN mines' PROVE Placed(n, mines'[n], full')
  <2>1. Placed(n, mines[n], full')
    BY <1>1 DEF World, AllPlaced
  <2> QED
    BY <2>1 DEF Placed
<1>3. ASSUME NEW t \in DOMAIN tasks'
      PROVE  Placed(t.name, t, full') /\ t.copy = full' \cap Around(t)
  BY <1>1 DEF World, AllPlaced, CopiesHold
<1>4. AllPlaced'
  BY <1>2, <1>3 DEF AllPlaced
<1>5. CopiesHold'
  BY <1>3 DEF CopiesHold
<1>6. PastesFit'
  BY DEF World, PastesFit
<1> QED
  BY <1>4, <1>5, <1>6 DEF World

LEMMA PlayersKeepWorld ==
    ASSUME Apart, PTypes, World,
           \/ \E c \in Cell : Break(c) \/ Place(c)
           \/ \E p \in Walkers, x \in Coordinate \cup {Away} : Walk(p, x),
           UNCHANGED pending
    PROVE  World'
<1>1. UNCHANGED <<mines, tasks>>
  BY DEF Break, Place, Walk
<1>2. CASE \E c \in Cell : Break(c) \/ Place(c)
  <2>1. PICK c \in Open : full' = full \ {c} \/ full' = full \cup {c}
    BY <1>2 DEF Break, Place
  <2>2. Within({c})
    BY <2>1 DEF Within
  <2> QED
    BY <1>1, <2>2, OpenIsHarmless, WorldStays
<1>3. CASE full' = full
  <2>1. Within({})
    BY <1>3 DEF Within
  <2> QED
    BY <1>1, <2>1, NothingIsHarmless, WorldStays
<1> QED
  BY <1>2, <1>3 DEF Walk

LEMMA CompleteKeepsWorld ==
    ASSUME Apart, PTypes, World, NEW t \in DOMAIN tasks, Complete(t) \/ Crash(t),
           UNCHANGED pending
    PROVE  World'
<1>1. DOMAIN tasks' \subseteq DOMAIN tasks
  BY DoneTypes DEF PTypes, Complete, Crash
<1>2. \A n \in DOMAIN mines' : n \in DOMAIN mines /\ Plot(mines'[n]) = Plot(mines[n])
  BY DEF Complete, Crash, Notified, PTypes, TypeOK, Mine, Plot
<1>3. CASE Complete(t)
  <2>1. full' = full \cup Area(t)
    BY <1>3, ResetFills DEF Complete, World, CopiesHold
  <2>2. Within(Area(t))
    BY <2>1 DEF Within
  <2>3. Harmless(Area(t))
    BY MineIsHarmless DEF World, AllPlaced
  <2> QED
    BY <1>1, <1>2, <2>2, <2>3, WorldStays
<1>4. CASE Crash(t)
  <2>1. Within({})
    BY <1>4 DEF Crash, Within
  <2> QED
    BY <1>1, <1>2, <2>1, NothingIsHarmless, WorldStays
<1> QED
  BY <1>3, <1>4

LEMMA AdminsKeepWorld ==
    ASSUME PTypes, World, NEW p \in Admin,
           \/ \E n \in Name : Create(p, n) \/ DestroyAsk(p, n) \/ Destroy(p, n) \/ Set(n)
           \/ \E c \in Cell : TapFirst(p, c)
           \/ TapElsewhere(p),
           UNCHANGED pending
    PROVE  World'
<1>1. UNCHANGED <<tasks, full>>
  BY DEF Create, DestroyAsk, Destroy, Set, TapFirst, TapElsewhere
<1>2. \A n \in DOMAIN mines' : n \in DOMAIN mines /\ Plot(mines'[n]) = Plot(mines[n])
  <2>1. CASE UNCHANGED mines
    BY <2>1
  <2>2. ASSUME NEW n \in Name, Set(n)
        PROVE  \A k \in DOMAIN mines' : k \in DOMAIN mines /\ Plot(mines'[k]) = Plot(mines[k])
    BY <2>2, MineFacts DEF Set, PTypes, Plot, Mine
  <2>3. ASSUME NEW n \in Name, Destroy(p, n)
        PROVE  \A k \in DOMAIN mines' : k \in DOMAIN mines /\ Plot(mines'[k]) = Plot(mines[k])
    BY <2>3 DEF Destroy, Take
  <2> QED
    BY <2>1, <2>2, <2>3 DEF Create, DestroyAsk, TapFirst, TapElsewhere
<1>3. Within({})
  BY <1>1 DEF Within
<1> QED
  BY <1>1, <1>2, <1>3, NothingIsHarmless, WorldStays

LEMMA StopKeepsWorld ==
    ASSUME PTypes, World, Stop \/ CrashServer
    PROVE  World'
<1>1. /\ DOMAIN tasks' = {} /\ full' = full /\ pending' = [p \in Settler |-> NoPaste]
      /\ mines' = [n \in DOMAIN mines |-> [mines[n] EXCEPT !.resetting = FALSE]]
  BY NoTasks DEF Stop, CrashServer, Restart
<1>2. \A n \in DOMAIN mines' : n \in DOMAIN mines /\ Plot(mines'[n]) = Plot(mines[n])
  BY <1>1, MineFacts DEF PTypes, Plot, Mine
<1>3. Within({})
  BY <1>1 DEF Within
<1>4. \A p \in Settler : pending'[p].stage = "pasting" => pending'[p] = pending[p]
  BY <1>1 DEF NoPaste
<1> QED
  BY <1>1, <1>2, <1>3, <1>4, NothingIsHarmless, WorldStays

LEMMA BookKeepsWorld ==
    ASSUME PTypes, World, NEW p \in Settler, PersonalMine(p) \/ DeleteArea(p)
    PROVE  World'
<1>1. UNCHANGED <<mines, tasks, full>>
  BY DEF PersonalMine, DeleteArea, vars
<1>2. Within({})
  BY <1>1 DEF Within
<1>3. \A q \in Settler : pending'[q].stage = "pasting" => pending'[q] = pending[q]
  BY DEF PersonalMine, DeleteArea, PTypes
<1> QED
  BY <1>1, <1>2, <1>3, NothingIsHarmless, WorldStays

-----------------------------------------------------------------------------
(* Steps that do. *)

LEMMA ResetKeepsWorld ==
    ASSUME PTypes, World, NEW ns \in SUBSET DOMAIN mines, StartResets(ns), UNCHANGED pending
    PROVE  World'
<1> DEFINE new == {Task(n) : n \in ns}
<1>1. full' = full /\ tasks' = tasks (+) SetToBag(new) /\ IsABag(tasks)
  BY DEF StartResets, PTypes, TypeOK
<1>2. ASSUME NEW n \in DOMAIN mines' PROVE Placed(n, mines'[n], full)
  <2>1. n \in DOMAIN mines /\ Plot(mines'[n]) = Plot(mines[n])
    BY MineFacts DEF StartResets, PTypes, Plot, Mine
  <2>2. Placed(n, mines[n], full)
    BY <2>1 DEF World, AllPlaced
  <2> QED
    BY <2>1, <2>2 DEF Placed
<1>3. ASSUME NEW t \in new PROVE Placed(t.name, t, full) /\ t.copy = full \cap Around(t)
  <2>1. PICK n \in ns : t = Task(n)
    OBVIOUS
  <2>2. /\ t.name = n /\ Plot(t) = Plot(mines[n])
        /\ t.copy = full \cap Around(mines[n])
    BY <2>1 DEF Task, Plot, Around
  <2>3. Placed(n, mines[n], full)
    BY DEF World, AllPlaced
  <2>4. Placed(t.name, t, full)
    BY <2>2, <2>3 DEF Placed
  <2>5. Around(t) = Around(mines[n])
    BY <2>2, SamePlot
  <2> QED
    BY <2>2, <2>4, <2>5
<1> HIDE DEF new
<1>4. DOMAIN tasks' = DOMAIN tasks \cup new
  BY <1>1, Submitted
<1>5. \A t \in DOMAIN tasks' : Placed(t.name, t, full) /\ t.copy = full \cap Around(t)
  BY <1>3, <1>4 DEF World, AllPlaced, CopiesHold
<1>6. AllPlaced'
  BY <1>1, <1>2, <1>5 DEF AllPlaced
<1>7. CopiesHold'
  BY <1>1, <1>5 DEF CopiesHold
<1>8. PastesFit'
  BY <1>1 DEF World, PastesFit
<1> QED
  BY <1>6, <1>7, <1>8 DEF World

LEMMA SiteIsPlace ==
    ASSUME NEW n \in DOMAIN Site, NEW a, NEW b, <<a, b>> \in Site[n]
    PROVE  Plot(NewMine(a, b, FALSE)) \in Places
<1>1. Plot(NewMine(a, b, FALSE)) = [a |-> a, b |-> b]
  BY DEF Plot, NewMine
<1>2. <<a, b>> \in UNION {Site[k] : k \in DOMAIN Site}
  OBVIOUS
<1>3. \A w \in UNION {Site[k] : k \in DOMAIN Site} : [a |-> w[1], b |-> w[2]] \in Places
  BY DEF Places
<1> QED
  BY <1>1, <1>2, <1>3

LEMMA TapKeepsWorld ==
    ASSUME PTypes, World, NEW p \in Admin, NEW c \in Cell, TapSecond(p, c), UNCHANGED pending
    PROVE  World'
<1>1. UNCHANGED <<tasks, full>> /\ session[p].name \in DOMAIN Site
  BY SessionTypes DEF TapSecond, PTypes
<1>2. PICK a, b : /\ <<a, b>> \in Site[session[p].name]
                  /\ Put(session[p].name, NewMine(a, b, FALSE))
  BY DEF TapSecond
<1>3. Plot(NewMine(a, b, FALSE)) \in Places
  BY <1>1, <1>2, SiteIsPlace
<1>4. \A n \in DOMAIN mines' : Placed(n, mines'[n], full)
  BY <1>2, <1>3 DEF Put, Placed, World, AllPlaced
<1>5. AllPlaced'
  BY <1>1, <1>4 DEF World, AllPlaced
<1> QED
  BY <1>1, <1>5 DEF World, CopiesHold, PastesFit

LEMMA SubmitKeepsWorld ==
    ASSUME PTypes, World, NEW p \in Settler, SubmitPaste(p)
    PROVE  World'
<1>1. UNCHANGED <<mines, tasks, full>>
  BY DEF SubmitPaste, vars
<1>2. /\ pending'[p].copy \subseteq Touched(pending'[p].from) \ Region(pending'[p].from)
      /\ \A q \in Settler : q # p => pending'[q] = pending[q]
  BY DEF SubmitPaste, PTypes
<1>3. PastesFit'
  BY <1>1, <1>2 DEF World, PastesFit
<1> QED
  BY <1>1, <1>3 DEF World, AllPlaced, CopiesHold

\* A paste changes its chunks.  Around the mine in its region it changes nothing if that
\* had been pasted before, and if not there is no mine in it yet.
LEMMA PasteKeepsWorld ==
    ASSUME Apart, PTypes, World, NEW p \in Settler, FinishPaste(p)
    PROVE  World'
<1> DEFINE own == pending[p].from
           mine == NewMine(own + Shaft[1], own + Shaft[2], TRUE)
           rest == Touched(own) \ Around(ShaftAt(own))
<1>1. /\ pending[p].stage = "pasting" /\ pending[p] # NoPaste
      /\ full' = Pasted(own, pending[p].copy)
      /\ Put(MineOf[p], mine)
      /\ pending' = [pending EXCEPT ![p] = NoPaste]
      /\ UNCHANGED tasks
  BY PasteEnds
<1>2. own \in Parcel
  BY <1>1, PasteFacts
<1>3. pending[p].copy \subseteq Touched(own) \ Region(own)
  BY <1>1 DEF World, PastesFit
<1> HIDE DEF own
<1>4. Within(Touched(own)) /\ Laid(full', own)
  BY <1>1, <1>2, <1>3, PasteFills
<1>5. ASSUME NEW n, NEW m, Placed(n, m, full)
      PROVE  Placed(n, m, full') /\ full' \cap Around(m) = full \cap Around(m)
  <2>1. CASE Laid(full, own)
    <3>1. full' \cap Around(ShaftAt(own)) = full \cap Around(ShaftAt(own))
      BY <1>4, <2>1 DEF Laid
    <3>2. Within(rest)
      BY <1>4, <3>1 DEF Within
    <3>3. Harmless(rest)
      BY <1>2, PasteIsHarmless DEF Harmless
    <3> QED
      BY <1>5, <3>2, <3>3, Undisturbed
  <2>2. CASE ~Laid(full, own)
    <3>1. ASSUME NEW S, Touched(own) \cap S = {} PROVE full' \cap S = full \cap S
      BY <1>4, <3>1 DEF Within
    <3>2. CASE Plot(m) \in Places
      <4>1. Touched(own) \cap Around(Plot(m)) = {}
        BY <1>2, <3>2, PasteIsHarmless
      <4> QED
        BY <3>1, <3>2, <4>1, PlotOfPlot DEF Placed
    <3>3. CASE n \in Range(MineOf) /\ \E from \in Parcel :
                   Plot(m) = ShaftAt(from) /\ Laid(full, from)
      <4>1. PICK from \in Parcel : Plot(m) = ShaftAt(from) /\ Laid(full, from)
        BY <3>3
      <4>2. Touched(own) \cap Around(ShaftAt(from)) = {}
        BY <1>2, <2>2, <4>1, PasteIsHarmless
      <4>3. full' \cap Around(ShaftAt(from)) = full \cap Around(ShaftAt(from))
        BY <3>1, <4>2
      <4>4. Laid(full', from)
        BY <4>1, <4>3 DEF Laid
      <4> QED
        BY <3>3, <4>1, <4>3, <4>4, ShaftPlot DEF Placed
    <3> QED
      BY <1>5, <3>2, <3>3 DEF Placed
  <2> QED
    BY <2>1, <2>2
<1>6. Placed(MineOf[p], mine, full')
  <2>1. Plot(mine) = ShaftAt(own)
    BY DEF Plot, NewMine, ShaftAt
  <2> QED
    BY <1>2, <1>4, <2>1, MineOfFacts DEF Placed
<1> HIDE DEF mine
<1>7. \A n \in DOMAIN mines' : Placed(n, mines'[n], full')
  <2>1. \A n \in DOMAIN mines : Placed(n, mines[n], full')
    BY <1>5 DEF World, AllPlaced
  <2> QED
    BY <1>1, <1>6, <2>1 DEF Put
<1>8. \A t \in DOMAIN tasks : Placed(t.name, t, full') /\ t.copy = full' \cap Around(t)
  BY <1>5 DEF World, AllPlaced, CopiesHold
<1>9. \A q \in Settler : pending'[q].stage = "pasting" => pending'[q] = pending[q]
  BY <1>1 DEF NoPaste, PTypes
<1>10. AllPlaced'
  BY <1>1, <1>7, <1>8 DEF AllPlaced
<1>11. CopiesHold'
  BY <1>1, <1>8 DEF CopiesHold
<1>12. PastesFit'
  BY <1>9 DEF World, PastesFit
<1> QED
  BY <1>10, <1>11, <1>12 DEF World

-----------------------------------------------------------------------------
(* Tasks that are not stale stay what they are. *)

LEMMA FreshStays ==
    ASSUME FreshTasks, DOMAIN tasks' \subseteq DOMAIN tasks,
           \A t \in DOMAIN tasks' : t.name \notin stale' =>
               /\ t.name \notin stale /\ tasks'[t] = tasks[t]
               /\ t.name \in DOMAIN mines'
               /\ Plot(mines'[t.name]) = Plot(mines[t.name])
               /\ mines'[t.name].resetting = mines[t.name].resetting
    PROVE  FreshTasks'
<1> SUFFICES ASSUME NEW t \in DOMAIN tasks', t.name \notin stale'
             PROVE  Fresh(t)'
  BY DEF FreshTasks
<1>1. Fresh(t)
  BY DEF FreshTasks
<1> QED
  BY <1>1 DEF Fresh

LEMMA CompleteKeepsFresh ==
    ASSUME TypeOK, FreshTasks, NEW t \in DOMAIN tasks, Complete(t) \/ Crash(t)
    PROVE  FreshTasks'
<1>1. /\ tasks' = tasks (-) SetToBag({t}) /\ IsABag(tasks)
      /\ stale' = {n \in stale : \E u \in DOMAIN tasks' : u.name = n}
      /\ mines' = mines \/ mines' = Notified(t)
  BY DEF Complete, Crash, Done, TypeOK
<1>2. /\ DOMAIN tasks' \subseteq DOMAIN tasks
      /\ \A u \in DOMAIN tasks \ {t} : tasks'[u] = tasks[u]
      /\ tasks[t] = 1 => t \notin DOMAIN tasks'
  BY <1>1, Collected
<1>3. ASSUME NEW u \in DOMAIN tasks', u.name \notin stale'
      PROVE  /\ u.name \notin stale /\ tasks'[u] = tasks[u]
             /\ u.name \in DOMAIN mines' /\ mines'[u.name] = mines[u.name]
  <2>1. u.name \notin stale /\ u \in DOMAIN tasks
    BY <1>1, <1>2, <1>3
  <2>2. Fresh(u)
    BY <2>1 DEF FreshTasks
  <2>3. u # t /\ u.name # t.name
    BY <1>2, <2>1, <2>2 DEF Fresh
  <2>4. u.name \in DOMAIN mines' /\ mines'[u.name] = mines[u.name]
    BY <1>1, <2>2, <2>3 DEF Fresh, Notified, TypeOK
  <2> QED
    BY <1>2, <2>1, <2>3, <2>4
<1> QED
  BY <1>2, <1>3, FreshStays

LEMMA MinesKeepFresh ==
    ASSUME TypeOK, FreshTasks, UNCHANGED tasks,
           NEW n, Take(n) \/ \E m : Put(n, m)
    PROVE  FreshTasks'
<1>1. ASSUME NEW t \in DOMAIN tasks', t.name \notin stale'
      PROVE  /\ t.name \notin stale /\ tasks'[t] = tasks[t]
             /\ t.name \in DOMAIN mines' /\ mines'[t.name] = mines[t.name]
  <2>1. t \in DOMAIN tasks /\ t.name \notin stale /\ t.name # n
    BY <1>1 DEF Put, Take, UnderWay
  <2>2. t.name \in DOMAIN mines
    BY <2>1 DEF FreshTasks, Fresh
  <2>3. t.name \in DOMAIN mines' /\ mines'[t.name] = mines[t.name]
    BY <2>1, <2>2 DEF Put, Take
  <2> QED
    BY <2>1, <2>3
<1> QED
  BY <1>1, FreshStays

LEMMA ResetKeepsFresh ==
    ASSUME TypeOK, FreshTasks, NEW ns \in SUBSET Resettable, StartResets(ns)
    PROVE  FreshTasks'
<1> DEFINE new == {Task(n) : n \in ns}
<1>1. /\ tasks' = tasks (+) SetToBag(new) /\ IsABag(tasks) /\ stale' = stale
      /\ mines' = [n \in DOMAIN mines |->
                     IF n \in ns THEN [mines[n] EXCEPT !.resetting = TRUE] ELSE mines[n]]
  BY DEF StartResets, TypeOK
<1>2. /\ \A t \in new : t.name \in ns /\ Plot(t) = Plot(mines[t.name]) /\ t = Task(t.name)
      /\ \A n \in ns : n \in DOMAIN mines /\ ~mines[n].resetting
  BY DEF Task, Plot, Resettable
<1>3. \A n \in ns : mines'[n].resetting /\ Plot(mines'[n]) = Plot(mines[n])
  BY <1>1, <1>2, MineFacts DEF Plot, Mine
<1> HIDE DEF new
<1>4. /\ DOMAIN tasks' = DOMAIN tasks \cup new
      /\ \A t \in DOMAIN tasks' :
             tasks'[t] = (IF t \in DOMAIN tasks THEN tasks[t] ELSE 0)
                         + (IF t \in new THEN 1 ELSE 0)
  BY <1>1, Submitted
<1>5. \A t \in DOMAIN tasks : t.name \notin stale => t.name \notin ns
  BY <1>2 DEF FreshTasks, Fresh
<1>6. \A t \in DOMAIN tasks : tasks[t] \in Nat
  BY <1>1 DEF IsABag
<1>7. ASSUME NEW t \in DOMAIN tasks', t.name \notin stale'
      PROVE  Fresh(t)'
  <2>1. CASE t \in new
    <3>1. t.name \in DOMAIN mines' /\ mines'[t.name].resetting /\ Plot(mines'[t.name]) = Plot(t)
      BY <1>1, <1>2, <1>3, <2>1
    <3>2. \A u \in DOMAIN tasks : u.name # t.name
      BY <1>1, <1>2, <1>5, <1>7, <2>1
    <3>3. tasks'[t] = 1
      BY <1>4, <2>1, <3>2
    <3>4. \A u \in DOMAIN tasks' : u.name = t.name => u = t
      BY <1>2, <1>4, <2>1, <3>2
    <3> QED
      BY <3>1, <3>3, <3>4 DEF Fresh
  <2>2. CASE t \notin new
    <3>1. t \in DOMAIN tasks /\ t.name \notin ns /\ Fresh(t)
      BY <1>1, <1>4, <1>5, <1>7, <2>2 DEF FreshTasks
    <3>2. t.name \in DOMAIN mines' /\ mines'[t.name] = mines[t.name]
      BY <1>1, <3>1 DEF Fresh
    <3>3. tasks'[t] = 1
      BY <1>4, <2>2, <3>1 DEF Fresh
    <3>4. \A u \in DOMAIN tasks' : u.name = t.name => u = t
      BY <1>2, <1>4, <3>1 DEF Fresh
    <3> QED
      BY <3>1, <3>2, <3>3, <3>4 DEF Fresh
  <2> QED
    BY <2>1, <2>2
<1> QED
  BY <1>7 DEF FreshTasks

\* All steps of PersonalMines.
LEMMA FreshKept == PTypes /\ FreshTasks /\ [PNext]_pvars => FreshTasks'
<1> SUFFICES ASSUME PTypes, FreshTasks, [PNext]_pvars PROVE FreshTasks'
  OBVIOUS
<1>0. TypeOK
  BY DEF PTypes
<1>1. CASE UNCHANGED <<mines, tasks, stale>>
  BY <1>1 DEF FreshTasks, Fresh
<1>2. ASSUME NEW t \in DOMAIN tasks, Complete(t) \/ Crash(t) PROVE FreshTasks'
  BY <1>0, <1>2, CompleteKeepsFresh
<1>3. ASSUME NEW n, Reset(n) \/ ResetAll PROVE FreshTasks'
  BY <1>0, <1>3, ResetKeepsFresh DEF Reset, ResetAll
<1>4. ASSUME NEW n \in Name, Set(n) PROVE FreshTasks'
  <2>1. UNCHANGED <<tasks, stale>>
    BY <1>4 DEF Set
  <2>2. \A k \in DOMAIN mines : /\ k \in DOMAIN mines' /\ Plot(mines'[k]) = Plot(mines[k])
                                 /\ mines'[k].resetting = mines[k].resetting
    BY <1>0, <1>4, MineFacts DEF Set, Plot, Mine
  <2>3. \A t \in DOMAIN tasks : t.name \notin stale => t.name \in DOMAIN mines
    BY DEF FreshTasks, Fresh
  <2> QED
    BY <2>1, <2>2, <2>3, FreshStays
<1>5. ASSUME NEW p, NEW n, Destroy(p, n) PROVE FreshTasks'
  BY <1>0, <1>5, MinesKeepFresh DEF Destroy
<1>6. ASSUME NEW p, NEW c, TapSecond(p, c) PROVE FreshTasks'
  BY <1>0, <1>6, MinesKeepFresh DEF TapSecond
<1>7. ASSUME NEW p, FinishPaste(p) PROVE FreshTasks'
  BY <1>0, <1>7, MinesKeepFresh DEF FinishPaste
<1>8. CASE Stop \/ CrashServer
  BY <1>8, NoTasks DEF Stop, CrashServer, Restart, FreshTasks
<1>9. CASE Step
  BY <1>1, <1>2, <1>3, <1>4, <1>5, <1>6, <1>9
  DEF Step, Break, Place, Walk, Create, DestroyAsk, TapFirst, TapElsewhere
<1>10. CASE Settle
  BY <1>1, <1>7, <1>10 DEF Settle, PersonalMine, SubmitPaste, DeleteArea, vars
<1> QED
  BY <1>1, <1>8, <1>9, <1>10 DEF PNext, Orderly, pvars, vars

-----------------------------------------------------------------------------
(* The invariant, the types, and what a reset does to its mine and who is in it. *)

LEMMA WorldKept == Apart /\ PTypes /\ World /\ [PNext]_pvars => World'
<1> SUFFICES ASSUME Apart, PTypes, World, [PNext]_pvars PROVE World'
  OBVIOUS
<1>1. CASE Step /\ UNCHANGED <<book, filed, areas, pending>>
  <2>1. CASE \/ \E c \in Cell : Break(c) \/ Place(c)
             \/ \E p \in Walkers, x \in Coordinate \cup {Away} : Walk(p, x)
    BY <1>1, <2>1, PlayersKeepWorld
  <2>2. ASSUME NEW ns \in SUBSET DOMAIN mines, StartResets(ns) PROVE World'
    BY <1>1, <2>2, ResetKeepsWorld
  <2>3. ASSUME NEW t \in DOMAIN tasks, Complete(t) \/ Crash(t) PROVE World'
    BY <1>1, <2>3, CompleteKeepsWorld
  <2>4. ASSUME NEW n \in Name, Set(n) PROVE World'
    <3>1. full' = full /\ UNCHANGED tasks
      BY <2>4 DEF Set
    <3>2. \A k \in DOMAIN mines' : k \in DOMAIN mines /\ Plot(mines'[k]) = Plot(mines[k])
      BY <2>4, MineFacts DEF Set, PTypes, Plot, Mine
    <3>3. Within({})
      BY <3>1 DEF Within
    <3> QED
      BY <1>1, <3>1, <3>2, <3>3, NothingIsHarmless, WorldStays
  <2>5. ASSUME NEW p \in Admin,
               \/ \E n \in Name : Create(p, n) \/ DestroyAsk(p, n) \/ Destroy(p, n)
               \/ \E c \in Cell : TapFirst(p, c)
               \/ TapElsewhere(p)
        PROVE  World'
    BY <1>1, <2>5, AdminsKeepWorld
  <2>6. ASSUME NEW p \in Admin, NEW c \in Cell, TapSecond(p, c) PROVE World'
    BY <1>1, <2>6, TapKeepsWorld
  <2> QED
    BY <1>1, <2>1, <2>2, <2>3, <2>4, <2>5, <2>6 DEF Step, Reset, ResetAll, Resettable
<1>2. CASE Settle
  BY <1>2, BookKeepsWorld, SubmitKeepsWorld, PasteKeepsWorld DEF Settle
<1>3. CASE Stop \/ CrashServer
  BY <1>3, StopKeepsWorld
<1>4. CASE UNCHANGED pvars
  <2>1. UNCHANGED <<mines, tasks, full, pending>>
    BY <1>4 DEF pvars, vars
  <2>2. Within({})
    BY <2>1 DEF Within
  <2> QED
    BY <2>1, <2>2, NothingIsHarmless, WorldStays
<1> QED
  BY <1>1, <1>2, <1>3, <1>4 DEF PNext, Orderly

LEMMA InvInit == PInit => Inv
<1> SUFFICES ASSUME PInit PROVE Inv
  OBVIOUS
<1>1. /\ mines = Mines /\ DOMAIN tasks = {}
      /\ pending = [p \in Settler |-> NoPaste]
  BY DEF PInit, Init, EmptyBag, SetToBag
<1>2. \A n \in DOMAIN mines : Placed(n, mines[n], full)
  BY <1>1 DEF Placed, Plot, Places
<1>3. World
  BY <1>1, <1>2 DEF World, AllPlaced, CopiesHold, PastesFit, NoPaste
<1>4. FreshTasks
  BY <1>1 DEF FreshTasks
<1> QED
  BY <1>3, <1>4, PInitTypes DEF Inv

LEMMA InvKept == Apart /\ Inv /\ [PNext]_pvars => Inv'
BY PNextTypes, WorldKept, FreshKept DEF Inv

\* Nothing is ever what the code cannot store or would trip over, in whatever order
\* players, administrators, resets, pastes, stops and crashes come.
THEOREM TypeCorrect == PSpec => []PTypeOK
<1>1. PSpec => []PTypes
  BY PInitTypes, PNextTypes, PTL DEF PSpec
<1> QED
  BY <1>1, PTypesAre, PTL

LEMMA CompleteFills ==
    ASSUME Inv, NEW t \in DOMAIN tasks, Complete(t)
    PROVE  full' = full \cup Area(t)
BY ResetFills DEF Complete, Inv, World, CopiesHold

\* Where mines lie apart a reset changes its mine only, whoever builds next to it while
\* it is under way and however many others are.
THEOREM ResetsOnlyTheirMine ==
    ASSUME Apart PROVE PSpec => OnlyItsMine
<1> DEFINE A == \A t \in DOMAIN tasks : Complete(t) => full' \ Area(t) = full \ Area(t)
<1>1. Inv => A
  BY CompleteFills
<1>2. Inv /\ [PNext]_pvars => Inv'
  BY InvKept
<1>3. PSpec => []Inv
  BY <1>2, InvInit, PTL DEF PSpec
<1>4. Inv => [A]_vars
  BY <1>1
<1> QED
  BY <1>3, <1>4, PTL DEF OnlyItsMine

\* Who stands in a block of the mine and is not inside for the comparison is past the
\* last corner.
LEMMA PastTheLastCorner ==
    ASSUME NEW a \in Nat, NEW b \in Nat, NEW x \in Nat, x \div 2 \in a..b,
           ~(2 * a <= x /\ x <= 2 * b)
    PROVE  x = 2 * b + 1
<1> DEFINE c == x \div 2
<1>1. c \in Nat /\ (x = 2 * c \/ x = 2 * c + 1) /\ a <= c /\ c <= b
  OBVIOUS
<1> HIDE DEF c
<1> QED
  BY <1>1

LEMMA BelowZero ==
    ASSUME NEW x \in Int, x < 0
    PROVE  ~(x \div 2 \in Nat)
OBVIOUS

LEMMA NotBuried ==
    ASSUME Inv, NEW t \in DOMAIN tasks, Complete(t), t.name \notin stale,
           NEW p \in Walkers, CellAt(at'[p]) \in full'
    PROVE  CellAt(at[p]) \in full \/ at[p] = 2 * t.b + 1
<1> DEFINE x == at[p]
<1>1. full' = full \cup Area(t)
  BY CompleteFills
<1>2. t.name \in DOMAIN mines /\ mines[t.name].a = t.a /\ mines[t.name].b = t.b
  BY SamePlot DEF Inv, FreshTasks, Fresh
<1>3. full \cup Area(t) \subseteq Cell /\ Cell \subseteq Nat /\ t.a \in Nat /\ t.b \in Nat
  BY AreaInCells, GeometryAssumption DEF Inv, PTypes, TypeOK, GeometryAssumption
<1>4. CellAt(Away) \notin full'
  <2>1. Away \in Int /\ Away < 0
    BY DEF Away
  <2>2. CellAt(Away) \notin Nat
    BY <2>1, BelowZero DEF CellAt
  <2> QED
    BY <2>2, <1>1, <1>3
<1>5. at' = [q \in Walkers |-> IF IsPointInside(t, at[q]) THEN Away ELSE at[q]]
  BY <1>2 DEF Complete, Cleared, IsPointInside
<1>6. at'[p] = x /\ ~IsPointInside(t, x)
  BY <1>4, <1>5
<1>7. x \in Nat
  <2>1. x \in Coordinate \cup {Away}
    BY DEF Inv, PTypes, TypeOK
  <2>2. x # Away
    BY <1>4, <1>6
  <2>3. PICK c \in Cell : x = 2 * c \/ x = 2 * c + 1
    BY <2>1, <2>2 DEF Coordinate
  <2>4. c \in Nat
    BY <1>3
  <2> QED
    BY <2>3, <2>4
<1>8. CellAt(x) \in full \/ CellAt(x) \in t.a..t.b
  BY <1>1, <1>6 DEF Area
<1>9. CASE CellAt(x) \in t.a..t.b
  <2>1. x \div 2 \in t.a..t.b /\ ~(2 * t.a <= x /\ x <= 2 * t.b)
    BY <1>6, <1>9 DEF CellAt, IsPointInside
  <2>2. x = 2 * t.b + 1
    BY <1>3, <1>7, <2>1, PastTheLastCorner
  <2> QED
    BY <2>2
<1> QED
  BY <1>8, <1>9

\* The end of a reset leaves nobody inside the blocks it puts down but who stands in the
\* last one, unless its mine was destroyed or replaced while it was under way.
THEOREM ResetsBuryNobody ==
    ASSUME Apart PROVE PSpec => NobodyBuried
<1> DEFINE A == \A t \in DOMAIN tasks : Complete(t) =>
                    \A p \in Walkers : CellAt(at'[p]) \in full' =>
                        CellAt(at[p]) \in full \/ t.name \in stale \/ at[p] = 2 * t.b + 1
<1>1. Inv => [A]_vars
  BY NotBuried
<1>2. Inv /\ [PNext]_pvars => Inv'
  BY InvKept
<1>3. PSpec => []Inv
  BY <1>2, InvInit, PTL DEF PSpec
<1> QED
  BY <1>1, <1>3, PTL DEF NobodyBuried

-----------------------------------------------------------------------------
(* Whose land it is, while the server always saves its book. *)

Increasing(b) == \A i, j \in DOMAIN b : i < j => b[i][2] < b[j][2]

\* The last entry is where the next one would be put without it.
Compact(b) == /\ Len(b) = 1 => b[1][2] = Start
              /\ Len(b) > 1 => b[Len(b)][2] = b[Len(b) - 1][2] + Width

\* A region is, or was, a player's and never another's.
Holds(b, p, from) == /\ \E last : Has(b, p, last) /\ from <= last
                     /\ \A q \in Settler : q # p => ~Has(b, q, from)

HeldMine(b, n, m) ==
    \/ Plot(m) \in Places
    \/ \E p \in Settler, from \in Parcel :
           n = MineOf[p] /\ Plot(m) = ShaftAt(from) /\ Holds(b, p, from)

Owners == /\ Increasing(book) /\ Compact(book)
          /\ \A p \in DOMAIN areas : Holds(book, p, areas[p])
          /\ \A p, q \in DOMAIN areas : p # q => areas[p] # areas[q]
          /\ \A n \in DOMAIN mines : HeldMine(book, n, mines[n])
          /\ \A t \in DOMAIN tasks : HeldMine(book, t.name, t)

LEMMA OthersIncrease ==
    ASSUME book \in Book, Increasing(book), NEW p \in Settler
    PROVE  /\ Increasing(Others(p))
           /\ \A q, from : Has(Others(p), q, from) => Has(book, q, from)
<1>1. CASE ~Listed(p)
  BY <1>1 DEF Others
<1>2. CASE Listed(p)
  <2> DEFINE i == EntryOf(p)
             o == Others(p)
             at1(k) == IF k < i THEN k ELSE k + 1
  <2>1. i \in DOMAIN book
    BY <1>2 DEF Listed, EntryOf
  <2>2. o = RemoveAt(book, i)
    BY <1>2 DEF Others
  <2>3. DOMAIN book = 1..Len(book) /\ Len(book) \in Nat /\ \A k \in DOMAIN book : book[k][2] \in Nat
    BY BookFacts, RegionFacts
  <2> HIDE DEF i, o
  <2>4. /\ o \in Book /\ Len(o) = Len(book) - 1
        /\ \A k \in DOMAIN o : o[k] = book[at1(k)]
    BY <2>1, <2>2, EntryRemoved
  <2>5. DOMAIN o = 1..(Len(book) - 1)
    BY <2>4, BookFacts
  <2>6. \A k \in DOMAIN o : at1(k) \in DOMAIN book
    BY <2>1, <2>3, <2>5
  <2>7. \A j, k \in DOMAIN o : j < k => at1(j) < at1(k)
    BY <2>1, <2>3, <2>5
  <2> HIDE DEF at1
  <2>8. Increasing(o)
    BY <2>4, <2>6, <2>7 DEF Increasing
  <2>9. \A q, from : Has(o, q, from) => Has(book, q, from)
    BY <2>4, <2>6 DEF Has
  <2> QED
    BY <2>8, <2>9 DEF o
<1> QED
  BY <1>1, <1>2

\* The region after the last is beyond all others' land, and not before his own.
LEMMA LandAhead ==
    ASSUME book \in Book, Increasing(book), Compact(book), NEW p \in Settler
    PROVE  /\ \A q, from : Has(Others(p), q, from) => from < NextFrom(Others(p))
           /\ \A from : Has(book, p, from) => from <= NextFrom(Others(p))
<1> DEFINE o == Others(p)
           n == Len(o)
<1>1. /\ o \in Book /\ n \in Nat /\ DOMAIN o = 1..n /\ Increasing(o)
      /\ \A k \in DOMAIN o : o[k][2] \in Nat
  BY OthersFacts, OthersIncrease, BookFacts, RegionFacts
<1>2. Width \in Nat /\ Width > 0
  BY RegionAssumption
<1>3. n = 0 <=> o = <<>>
  <2>1. o \in Seq(Settler \X Parcel)
    BY <1>1, BookFacts
  <2> QED
    BY <2>1, EmptySeq
<1>4. n # 0 => NextFrom(o) = o[n][2] + Width
  BY <1>3 DEF NextFrom, Last
<1>5. n = 0 => NextFrom(o) = Start
  BY <1>3 DEF NextFrom
<1> HIDE DEF o, n
<1>6. \A k \in 1..n : o[k][2] < NextFrom(o)
  <2> SUFFICES ASSUME NEW k \in 1..n PROVE o[k][2] < NextFrom(o)
    OBVIOUS
  <2>1. n \in 1..n /\ n # 0 /\ o[n][2] \in Nat /\ o[k][2] \in Nat
    BY <1>1
  <2>2. o[k][2] <= o[n][2]
    BY <1>1, <2>1 DEF Increasing
  <2> QED
    BY <1>2, <1>4, <2>1, <2>2
<1>7. \A q, from : Has(o, q, from) => from < NextFrom(o)
  BY <1>1, <1>6 DEF Has
<1>8. ASSUME NEW from, Has(book, p, from) PROVE from <= NextFrom(o)
  <2>1. PICK i \in DOMAIN book : book[i][1] = p /\ book[i][2] = from
    BY <1>8 DEF Has
  <2>2. /\ DOMAIN book = 1..Len(book) /\ Len(book) \in Nat
        /\ \A k \in DOMAIN book : book[k][2] \in Nat
        /\ \A j, k \in DOMAIN book : book[j][1] = book[k][1] => j = k
    BY BookFacts, RegionFacts
  <2>3. o = RemoveAt(book, i)
    <3>1. Listed(p) /\ EntryOf(p) \in DOMAIN book /\ book[EntryOf(p)][1] = p
      BY <2>1 DEF Listed, EntryOf
    <3> QED
      BY <2>1, <2>2, <3>1 DEF Others, o
  <2>4. n = Len(book) - 1 /\ \A k \in DOMAIN o : o[k] = book[IF k < i THEN k ELSE k + 1]
    BY <2>1, <2>3, EntryRemoved DEF n
  <2>5. CASE n = 0
    <3>1. i = 1 /\ Len(book) = 1
      <4>1. i \in 1..Len(book) /\ Len(book) \in Nat /\ n = 0 /\ n = Len(book) - 1
        BY <2>1, <2>2, <2>4, <2>5
      <4> QED
        BY ONLY <4>1
    <3>2. from = Start
      BY <2>1, <3>1 DEF Compact
    <3> QED
      BY <1>5, <2>5, <3>2, RegionAssumption
  <2>6. CASE n # 0
    <3>1. n \in DOMAIN o /\ Len(book) = n + 1 /\ Len(book) > 1
      BY <1>1, <2>2, <2>4, <2>6
    <3>2. CASE i = n + 1
      <4>1. o[n] = book[n]
        BY <1>1, <2>4, <3>1, <3>2
      <4>2. book[n + 1][2] = book[n][2] + Width
        <5>1. Len(book) = n + 1 /\ Len(book) - 1 = n
          BY <1>1, <3>1
        <5>2. book[Len(book)][2] = book[Len(book) - 1][2] + Width
          BY <3>1 DEF Compact
        <5> QED
          BY <5>1, <5>2
      <4>3. from = NextFrom(o)
        BY <1>4, <2>1, <2>6, <3>2, <4>1, <4>2
      <4> QED
        BY <2>1, <2>2, <4>3
    <3>3. CASE i < n + 1
      <4>1. o[n] = book[n + 1]
        BY <1>1, <2>1, <2>2, <2>4, <3>1, <3>3
      <4>2. n + 1 \in DOMAIN book
        BY <1>1, <2>2, <3>1
      <4>3. from < book[n + 1][2]
        BY <2>1, <3>3, <4>2 DEF Increasing
      <4> QED
        BY <1>2, <1>4, <2>1, <2>2, <2>6, <4>1, <4>2, <4>3
    <3> QED
      BY <1>1, <2>1, <2>2, <3>1, <3>2, <3>3
  <2> QED
    BY <2>5, <2>6
<1> QED
  BY <1>7, <1>8 DEF o

LEMMA AppendKeepsOrder ==
    ASSUME NEW b \in Book, Increasing(b), NEW p \in Settler, NextFrom(b) \in Parcel,
           \A k \in DOMAIN b : b[k][2] < NextFrom(b)
    PROVE  /\ Increasing(Append(b, <<p, NextFrom(b)>>))
           /\ Compact(Append(b, <<p, NextFrom(b)>>))
           /\ \A q, from : Has(Append(b, <<p, NextFrom(b)>>), q, from) =>
                  Has(b, q, from) \/ (q = p /\ from = NextFrom(b))
<1> DEFINE next == NextFrom(b)
           more == Append(b, <<p, next>>)
           n == Len(b)
<1>1. /\ b \in Seq(Settler \X Parcel) /\ n \in Nat /\ DOMAIN b = 1..n
      /\ <<p, next>> \in Settler \X Parcel
  BY BookFacts
<1>2. /\ more \in Seq(Settler \X Parcel) /\ Len(more) = n + 1
      /\ \A i \in 1..n : more[i] = b[i]
      /\ more[n + 1] = <<p, next>>
  BY <1>1, AppendProperties
<1>3. DOMAIN more = 1..(n + 1)
  BY <1>2, LenProperties
<1>4. n = 0 <=> b = <<>>
  BY <1>1, EmptySeq
<1>5. /\ n # 0 => next = b[n][2] + Width
      /\ n = 0 => next = Start
  BY <1>4 DEF NextFrom, Last
<1>6. \A k \in 1..n : b[k][2] < next
  BY <1>1
<1> HIDE DEF more, n, next
<1>7. \A k \in 1..(n + 1) : k \in 1..n \/ k = n + 1
  BY <1>1
<1>8. Increasing(more)
  <2> SUFFICES ASSUME NEW i \in 1..(n + 1), NEW j \in 1..(n + 1), i < j
               PROVE  more[i][2] < more[j][2]
    BY <1>3 DEF Increasing
  <2>1. i \in 1..n
    BY <1>1
  <2>2. CASE j \in 1..n
    BY <1>1, <1>2, <2>1, <2>2 DEF Increasing
  <2>3. CASE j = n + 1
    BY <1>2, <1>6, <2>1, <2>3
  <2> QED
    BY <1>7, <2>2, <2>3
<1>9. Compact(more)
  <2>1. CASE n = 0
    <3>1. more[1][2] = Start /\ Len(more) = 1
      BY <1>2, <1>5, <2>1
    <3> QED
      BY <3>1 DEF Compact
  <2>2. CASE n # 0
    <3>1. n \in 1..n /\ n + 1 - 1 = n /\ n + 1 # 1
      BY <1>1, <2>2
    <3>2. more[n + 1][2] = more[n][2] + Width
      BY <1>2, <1>5, <2>2, <3>1
    <3> QED
      BY <1>2, <3>1, <3>2 DEF Compact
  <2> QED
    BY <2>1, <2>2
<1>10. \A q, from : Has(more, q, from) => Has(b, q, from) \/ (q = p /\ from = next)
  <2> SUFFICES ASSUME NEW q, NEW from, NEW i \in 1..(n + 1), more[i][1] = q, more[i][2] = from
               PROVE  Has(b, q, from) \/ (q = p /\ from = next)
    BY <1>3 DEF Has
  <2>1. CASE i \in 1..n
    BY <1>1, <1>2, <2>1 DEF Has
  <2>2. CASE i = n + 1
    BY <1>2, <2>2
  <2> QED
    BY <1>7, <2>1, <2>2
<1> QED
  BY <1>8, <1>9, <1>10 DEF more, next

\* A player is given land.
LEMMA LandGiven ==
    ASSUME PTypes, Owners, NEW p \in Settler, PersonalMine(p)
    PROVE  /\ Increasing(book') /\ Compact(book')
           /\ \A q \in Settler, from \in Parcel : Holds(book, q, from) => Holds(book', q, from)
<1> DEFINE o == Others(p)
           next == NextFrom(o)
<1>1. Region(next) \subseteq Cell /\ book' = Append(o, <<p, next>>)
  BY DEF PersonalMine
<1>2. /\ o \in Book /\ \A k \in DOMAIN o : o[k][1] # p
      /\ \A q, from : q # p /\ Has(book, q, from) => Has(o, q, from)
  BY OthersFacts DEF PTypes
<1>3. next \in Parcel
  BY <1>1, <1>2, NextFromIsParcel
<1>4. /\ Increasing(o)
      /\ \A q, from : Has(o, q, from) => Has(book, q, from)
  BY OthersIncrease DEF PTypes, Owners
<1>5. /\ \A q, from : Has(o, q, from) => from < next
      /\ \A from : Has(book, p, from) => from <= next
  BY LandAhead DEF PTypes, Owners
<1>6. \A k \in DOMAIN o : o[k][2] < next
  BY <1>5 DEF Has
<1> HIDE DEF o
<1>7. /\ Increasing(book') /\ Compact(book')
      /\ \A q, from : Has(book', q, from) => Has(o, q, from) \/ (q = p /\ from = next)
  BY <1>1, <1>2, <1>3, <1>4, <1>6, AppendKeepsOrder
<1>8. Has(book', p, next) /\ \A q, from : Has(o, q, from) => Has(book', q, from)
  BY <1>1, <1>2, <1>3, EntryAdded
<1> HIDE DEF next
<1>9. ASSUME NEW q \in Settler, NEW from \in Parcel, Holds(book, q, from)
      PROVE  /\ \E last : Has(book', q, last) /\ from <= last
             /\ \A r \in Settler : r # q => ~Has(book', r, from)
  <2>1. PICK last : Has(book, q, last) /\ from <= last
    BY <1>9 DEF Holds
  <2>2. \A r \in Settler : r # q => ~Has(book, r, from)
    BY <1>9 DEF Holds
  <2>3. last \in Nat /\ next \in Nat /\ from \in Nat
    BY <1>3, <2>1, BookFacts, RegionFacts DEF PTypes, Has
  <2>4. CASE q = p
    <3>1. Has(book', q, next) /\ from <= next
      BY <1>5, <1>8, <2>1, <2>3, <2>4
    <3>2. \A r \in Settler : r # q => ~Has(book', r, from)
      BY <1>4, <1>7, <2>2, <2>4
    <3> QED
      BY <3>1, <3>2
  <2>5. CASE q # p
    <3>1. Has(o, q, last)
      BY <1>2, <2>1, <2>5
    <3>2. Has(book', q, last) /\ from # next
      BY <1>5, <1>8, <2>1, <2>3, <3>1
    <3>3. \A r \in Settler : r # q => ~Has(book', r, from)
      BY <1>4, <1>7, <2>2, <3>2
    <3> QED
      BY <2>1, <3>2, <3>3
  <2> QED
    BY <2>4, <2>5
<1>10. \A q \in Settler, from \in Parcel : Holds(book, q, from) => Holds(book', q, from)
  BY <1>9 DEF Holds
<1> QED
  BY <1>7, <1>10

\* Where the mines and the resets of the next state are.
SamePlots == \A n \in DOMAIN mines' : \/ n \in DOMAIN mines /\ Plot(mines'[n]) = Plot(mines[n])
                                      \/ Plot(mines'[n]) \in Places
KnownTasks == \A t \in DOMAIN tasks' : \/ t \in DOMAIN tasks
                                       \/ t.name \in DOMAIN mines /\ Plot(t) = Plot(mines[t.name])

LEMMA StepPlots == PTypes /\ Step => SamePlots /\ KnownTasks
<1> SUFFICES ASSUME PTypes, Step PROVE SamePlots /\ KnownTasks
  OBVIOUS
<1>0. TypeOK
  BY DEF PTypes
<1>1. CASE UNCHANGED <<mines, tasks>>
  BY <1>1 DEF SamePlots, KnownTasks
<1>2. ASSUME NEW ns \in SUBSET DOMAIN mines, StartResets(ns) PROVE SamePlots /\ KnownTasks
  <2> DEFINE new == {Task(n) : n \in ns}
  <2>1. tasks' = tasks (+) SetToBag(new) /\ IsABag(tasks)
    BY <1>0, <1>2 DEF StartResets, TypeOK
  <2>2. SamePlots
    BY <1>0, <1>2, MineFacts DEF StartResets, SamePlots, Plot, Mine
  <2>3. \A t \in new : t.name \in DOMAIN mines /\ Plot(t) = Plot(mines[t.name])
    BY DEF Task, Plot
  <2> HIDE DEF new
  <2>4. DOMAIN tasks' = DOMAIN tasks \cup new
    BY <2>1, Submitted
  <2> QED
    BY <2>2, <2>3, <2>4 DEF KnownTasks
<1>3. ASSUME NEW t \in DOMAIN tasks, Complete(t) \/ Crash(t) PROVE SamePlots /\ KnownTasks
  <2>1. DOMAIN tasks' \subseteq DOMAIN tasks
    BY <1>0, <1>3, DoneTypes DEF Complete, Crash
  <2>2. SamePlots
    BY <1>0, <1>3 DEF Complete, Crash, Notified, SamePlots, TypeOK, Mine, Plot
  <2> QED
    BY <2>1, <2>2 DEF KnownTasks
<1>4. ASSUME NEW n \in Name, Set(n) PROVE SamePlots /\ KnownTasks
  BY <1>0, <1>4, MineFacts DEF Set, SamePlots, KnownTasks, Plot, Mine
<1>5. ASSUME NEW p \in Admin, NEW n \in Name, Destroy(p, n) PROVE SamePlots /\ KnownTasks
  BY <1>5 DEF Destroy, Take, SamePlots, KnownTasks
<1>6. ASSUME NEW p \in Admin, NEW c \in Cell, TapSecond(p, c) PROVE SamePlots /\ KnownTasks
  <2>1. UNCHANGED tasks /\ session[p].name \in DOMAIN Site
    BY <1>0, <1>6, SessionTypes DEF TapSecond
  <2>2. PICK a, b : /\ <<a, b>> \in Site[session[p].name]
                    /\ Put(session[p].name, NewMine(a, b, FALSE))
    BY <1>6 DEF TapSecond
  <2>3. Plot(NewMine(a, b, FALSE)) \in Places
    BY <2>1, <2>2, SiteIsPlace
  <2>4. SamePlots
    BY <2>2, <2>3 DEF Put, SamePlots
  <2> QED
    BY <2>1, <2>4 DEF KnownTasks
<1> QED
  BY <1>1, <1>2, <1>3, <1>4, <1>5, <1>6
  DEF Step, Reset, ResetAll, Resettable, Break, Place, Walk, Create, DestroyAsk, TapFirst, TapElsewhere

LEMMA OwnersStay ==
    ASSUME Owners, Increasing(book'), Compact(book'),
           \A q \in Settler, from \in Parcel : Holds(book, q, from) => Holds(book', q, from),
           \A p \in DOMAIN areas' : p \in DOMAIN areas /\ areas'[p] = areas[p] /\ p \in Settler
                                    /\ areas[p] \in Parcel,
           \A n \in DOMAIN mines' : HeldMine(book, n, mines'[n]),
           \A t \in DOMAIN tasks' : HeldMine(book, t.name, t)
    PROVE  Owners'
<1>1. \A n, m : HeldMine(book, n, m) => HeldMine(book', n, m)
  BY DEF HeldMine
<1>2. \A n \in DOMAIN mines' : HeldMine(book', n, mines'[n])
  BY <1>1
<1>3. \A t \in DOMAIN tasks' : HeldMine(book', t.name, t)
  BY <1>1
<1>4. \A p \in DOMAIN areas' : Holds(book', p, areas'[p])
  BY DEF Owners
<1>5. \A p, q \in DOMAIN areas' : p # q => areas'[p] # areas'[q]
  BY DEF Owners
<1> QED
  BY <1>2, <1>3, <1>4, <1>5 DEF Owners

LEMMA PlotsAreHeld ==
    ASSUME Owners, SamePlots, KnownTasks
    PROVE  /\ \A n \in DOMAIN mines' : HeldMine(book, n, mines'[n])
           /\ \A t \in DOMAIN tasks' : HeldMine(book, t.name, t)
BY DEF Owners, SamePlots, KnownTasks, HeldMine

LEMMA PasteKeepsOwners ==
    ASSUME PTypes, Owners, NEW p \in Settler, FinishPaste(p)
    PROVE  Owners'
<1> DEFINE own == pending[p].from
           mine == NewMine(own + Shaft[1], own + Shaft[2], TRUE)
<1>1. /\ pending[p] # NoPaste
      /\ areas' = [q \in DOMAIN areas \cup {p} |-> IF q = p THEN own ELSE areas[q]]
      /\ Put(MineOf[p], mine)
      /\ UNCHANGED <<tasks, book>>
  BY PasteEnds
<1>2. own \in Parcel /\ Has(book, p, own) /\ own \in Nat
  BY <1>1, PasteFacts, RegionFacts DEF PTypes
<1>3. Plot(mine) = ShaftAt(own)
  BY DEF Plot, NewMine, ShaftAt
<1> HIDE DEF own
<1>4. Holds(book, p, own)
  <2>1. \A i, j \in DOMAIN book : book[i][2] = book[j][2] => i = j
    <3>1. \A i \in DOMAIN book : i \in Nat /\ book[i][2] \in Nat
      BY BookFacts, RegionFacts DEF PTypes
    <3>2. \A i, j \in DOMAIN book : i < j \/ j < i \/ i = j
      BY <3>1
    <3> QED
      BY <3>1, <3>2 DEF Owners, Increasing
  <2>2. \A q \in Settler : q # p => ~Has(book, q, own)
    BY <1>2, <2>1 DEF Has
  <2> QED
    BY <1>2, <2>2 DEF Holds
<1>5. \A q, from : Holds(book', q, from) <=> Holds(book, q, from)
  BY <1>1 DEF Holds
<1>6. \A n, m : HeldMine(book', n, m) <=> HeldMine(book, n, m)
  BY <1>5 DEF HeldMine
<1>7. HeldMine(book, MineOf[p], mine)
  BY <1>2, <1>3, <1>4 DEF HeldMine
<1> HIDE DEF mine
<1>8. \A n \in DOMAIN mines' : HeldMine(book', n, mines'[n])
  BY <1>1, <1>6, <1>7 DEF Put, Owners
<1>9. \A t \in DOMAIN tasks' : HeldMine(book', t.name, t)
  BY <1>1, <1>6 DEF Owners
<1>10. \A q \in DOMAIN areas' : Holds(book', q, areas'[q])
  BY <1>1, <1>4, <1>5 DEF Owners
<1>11. \A q \in DOMAIN areas : q # p => areas[q] # own
  BY <1>2 DEF Owners, Holds
<1>12. \A q, r \in DOMAIN areas' : q # r => areas'[q] # areas'[r]
  BY <1>1, <1>11 DEF Owners
<1> QED
  BY <1>1, <1>8, <1>9, <1>10, <1>12 DEF Owners

LEMMA OwnersKept == PTypes /\ Owners /\ [Orderly]_pvars => Owners'
<1> SUFFICES ASSUME PTypes, Owners, [Orderly]_pvars PROVE Owners'
  OBVIOUS
<1>1. \A p \in DOMAIN areas : p \in Settler /\ areas[p] \in Parcel
  BY DEF PTypes
<1>2. ASSUME UNCHANGED book
      PROVE  /\ Increasing(book') /\ Compact(book')
             /\ \A q \in Settler, from \in Parcel : Holds(book, q, from) => Holds(book', q, from)
  BY <1>2 DEF Owners, Holds
<1>3. ASSUME UNCHANGED <<mines, tasks>> PROVE SamePlots /\ KnownTasks
  BY <1>3 DEF SamePlots, KnownTasks
<1>4. ASSUME \A p \in DOMAIN areas' : p \in DOMAIN areas /\ areas'[p] = areas[p],
             UNCHANGED book, SamePlots, KnownTasks
      PROVE  Owners'
  BY <1>1, <1>2, <1>4, PlotsAreHeld, OwnersStay
<1>5. CASE Step /\ UNCHANGED <<book, filed, areas, pending>>
  BY <1>4, <1>5, StepPlots
<1>6. ASSUME NEW p \in Settler, PersonalMine(p) PROVE Owners'
  <2>1. UNCHANGED <<mines, tasks, areas>>
    BY <1>6 DEF PersonalMine, vars
  <2>2. /\ Increasing(book') /\ Compact(book')
        /\ \A q \in Settler, from \in Parcel : Holds(book, q, from) => Holds(book', q, from)
    BY <1>6, LandGiven
  <2> QED
    BY <1>1, <1>3, <2>1, <2>2, PlotsAreHeld, OwnersStay
<1>7. ASSUME NEW p \in Settler, SubmitPaste(p) \/ DeleteArea(p) PROVE Owners'
  <2>1. UNCHANGED <<mines, tasks, book>>
    BY <1>7 DEF SubmitPaste, DeleteArea, vars
  <2>2. \A q \in DOMAIN areas' : q \in DOMAIN areas /\ areas'[q] = areas[q]
    BY <1>7 DEF SubmitPaste, DeleteArea
  <2> QED
    BY <1>3, <1>4, <2>1, <2>2
<1>8. CASE Stop
  <2>1. UNCHANGED <<book, areas>> /\ DOMAIN tasks' = {}
    BY <1>8, NoTasks DEF Stop, Restart
  <2>2. SamePlots /\ KnownTasks
    BY <1>8, <2>1, MineFacts DEF Stop, Restart, SamePlots, KnownTasks, PTypes, Plot, Mine
  <2> QED
    BY <1>4, <2>1, <2>2
<1>9. CASE UNCHANGED pvars
  <2>1. UNCHANGED <<mines, tasks, book, areas>>
    BY <1>9 DEF pvars, vars
  <2> QED
    BY <1>3, <1>4, <2>1
<1> QED
  BY <1>5, <1>6, <1>7, <1>8, <1>9, PasteKeepsOwners DEF Orderly, Settle

LEMMA OwnersInit == PInit => Owners
<1> SUFFICES ASSUME PInit PROVE Owners
  OBVIOUS
<1>1. /\ DOMAIN book = {} /\ Len(book) = 0 /\ DOMAIN areas = {} /\ DOMAIN tasks = {}
      /\ mines = Mines
  BY DEF PInit, Init, EmptyBag, SetToBag
<1>2. \A n \in DOMAIN mines : HeldMine(book, n, mines[n])
  BY <1>1 DEF HeldMine, Plot, Places
<1> QED
  BY <1>1, <1>2 DEF Owners, Increasing, Compact

LEMMA RegionsDisjoint ==
    ASSUME NEW from \in Parcel, NEW other \in Parcel, from # other
    PROVE  Region(from) \cap Region(other) = {}
<1>1. ASSUME NEW a \in Nat, NEW b \in Nat, NEW w \in Nat, a < b
      PROVE  a * w + w <= b * w
  <2>1. (a + 1) * w <= b * w
    BY <1>1
  <2> QED
    BY <2>1
<1>2. PICK i \in Nat : from = Start + i * Width
  BY RegionFacts DEF Parcel
<1>3. PICK j \in Nat : other = Start + j * Width
  BY RegionFacts DEF Parcel
<1>4. Start \in Nat /\ Width \in Nat /\ Width > 0 /\ from \in Nat /\ other \in Nat
  BY RegionFacts, RegionAssumption
<1>5. from + Width <= other \/ other + Width <= from
  <2>1. i < j \/ j < i
    BY <1>2, <1>3
  <2>2. i * Width \in Nat /\ j * Width \in Nat
    BY <1>4
  <2>3. i * Width + Width <= j * Width \/ j * Width + Width <= i * Width
    BY <1>1, <1>4, <2>1
  <2> QED
    BY <1>2, <1>3, <1>4, <2>2, <2>3
<1> QED
  BY <1>4, <1>5 DEF Region

\* As long as the server always saves its book nobody is given the land of another: it
\* takes a crash, as in the run mine_land.
THEOREM LandHasOneOwner == OrderlySpec => []OneOwnerOfLand
<1>1. PInit => PTypes /\ Owners
  BY PInitTypes, OwnersInit
<1>2. PTypes /\ Owners /\ [Orderly]_pvars => (PTypes /\ Owners)'
  BY PNextTypes, OwnersKept DEF PNext
<1>3. PTypes /\ Owners => OneOwnerOfLand
  BY RegionsDisjoint DEF OneOwnerOfLand, Owners, PTypes
<1> QED
  BY <1>1, <1>2, <1>3, PTL DEF OrderlySpec

-----------------------------------------------------------------------------
(* Edits. *)

\* No one's clipboard is being pasted where a mine of another name is being filled.
Unshared == \A t \in DOMAIN tasks, p \in Settler :
                pending[p].stage = "pasting" =>
                    t.name = MineOf[p] \/ Area(t) \cap Touched(pending[p].from) = {}

LEMMA PlacesUnshared ==
    ASSUME Apart, NEW t, Plot(t) \in Places, NEW from \in Parcel
    PROVE  Area(t) \cap Touched(from) = {}
<1>1. Touched(from) \cap Area(Plot(t)) = {}
  BY DEF Apart
<1> QED
  BY <1>1, PlotOfPlot

LEMMA AloneUnshared ==
    ASSUME Apart, Inv, \A p, q \in Settler : p = q
    PROVE  Unshared
<1> SUFFICES ASSUME NEW t \in DOMAIN tasks, NEW p \in Settler, pending[p].stage = "pasting"
             PROVE  t.name = MineOf[p] \/ Area(t) \cap Touched(pending[p].from) = {}
  BY DEF Unshared
<1>1. pending[p].from \in Parcel
  BY PasteFacts DEF Inv, PTypes, NoPaste
<1>2. Plot(t) \in Places \/ t.name \in Range(MineOf)
  BY DEF Inv, World, AllPlaced, Placed
<1>3. t.name \in Range(MineOf) => t.name = MineOf[p]
  BY DEF Range, Settler
<1> QED
  BY <1>1, <1>2, <1>3, PlacesUnshared

LEMMA OwnersUnshared ==
    ASSUME Apart, Inv, Owners
    PROVE  Unshared
<1> SUFFICES ASSUME NEW t \in DOMAIN tasks, NEW p \in Settler, pending[p].stage = "pasting"
             PROVE  t.name = MineOf[p] \/ Area(t) \cap Touched(pending[p].from) = {}
  BY DEF Unshared
<1>1. pending[p] # NoPaste
  BY DEF NoPaste
<1>2. pending[p].from \in Parcel /\ Has(book, p, pending[p].from)
  BY <1>1, PasteFacts DEF Inv, PTypes
<1>3. CASE Plot(t) \in Places
  BY <1>2, <1>3, PlacesUnshared
<1>4. ASSUME NEW q \in Settler, NEW from \in Parcel,
             t.name = MineOf[q], Plot(t) = ShaftAt(from), Holds(book, q, from)
      PROVE  t.name = MineOf[p] \/ Area(t) \cap Touched(pending[p].from) = {}
  <2>1. CASE q # p
    <3>1. from # pending[p].from
      BY <1>2, <1>4, <2>1 DEF Holds
    <3>2. Touched(pending[p].from) \cap Area(ShaftAt(from)) = {}
      BY <1>2, <1>4, <3>1 DEF Apart
    <3> QED
      BY <1>4, <3>2, ShaftPlot
  <2> QED
    BY <1>4, <2>1
<1> QED
  BY <1>3, <1>4 DEF Owners, HeldMine

LEMMA EditSurvives ==
    ASSUME Apart, Inv, Unshared, [PNext]_pvars, NEW t \in DOMAIN tasks, tasks' = tasks,
           full' \cap Area(t) # full \cap Area(t)
    PROVE  t.name \in stale'
<1>1. ASSUME NEW c, Break(c) \/ Place(c) PROVE t.name \in stale'
  <2>1. c \in Area(t) /\ stale' = stale /\ ~ResettingAt(c)
    BY <1>1 DEF Break, Place
  <2>2. ASSUME t.name \notin stale PROVE FALSE
    <3>1. Fresh(t)
      BY <2>2 DEF Inv, FreshTasks
    <3>2. Area(mines[t.name]) = Area(t)
      BY <3>1, SamePlot DEF Fresh
    <3> QED
      BY <2>1, <3>1, <3>2 DEF Fresh, ResettingAt
  <2> QED
    BY <2>1, <2>2
<1>2. ASSUME NEW u \in DOMAIN tasks, Complete(u) PROVE FALSE
  <2>1. tasks' = tasks (-) SetToBag({u}) /\ IsABag(tasks)
    BY <1>2 DEF Complete, Done, Inv, PTypes, TypeOK
  <2> QED
    BY <2>1, Collected
<1>3. ASSUME NEW p \in Settler, FinishPaste(p) PROVE t.name \in stale'
  <2> DEFINE own == pending[p].from
  <2>1. /\ pending[p].stage = "pasting" /\ own \in Parcel
        /\ full' = Pasted(own, pending[p].copy)
        /\ stale' = IF UnderWay(MineOf[p]) THEN stale \cup {MineOf[p]} ELSE stale
    BY <1>3, PasteEnds, PasteFacts DEF Put, Inv
  <2>2. pending[p].copy \subseteq Touched(own) \ Region(own)
    BY <2>1 DEF Inv, World, PastesFit
  <2>3. t.name = MineOf[p] \/ Area(t) \cap Touched(own) = {}
    BY <2>1 DEF Unshared
  <2> HIDE DEF own
  <2>4. Within(Touched(own))
    BY <2>1, <2>2, PasteFills
  <2>5. t.name = MineOf[p]
    BY <2>3, <2>4 DEF Within
  <2> QED
    BY <2>1, <2>5 DEF UnderWay
<1>4. full' # full
  OBVIOUS
<1>5. CASE Step
  BY <1>1, <1>2, <1>4, <1>5
  DEF Step, Walk, Reset, ResetAll, StartResets, Crash, Set, Create, DestroyAsk, Destroy, TapFirst,
      TapSecond, TapElsewhere
<1>6. CASE Settle
  BY <1>3, <1>4, <1>6 DEF Settle, PersonalMine, SubmitPaste, DeleteArea, vars
<1>7. CASE Stop \/ CrashServer \/ UNCHANGED pvars
  BY <1>4, <1>7 DEF Stop, CrashServer, Restart, pvars, vars
<1> QED
  BY <1>5, <1>6, <1>7 DEF PNext, Orderly

EditKept == \A t \in DOMAIN tasks : tasks' = tasks /\ full' \cap Area(t) # full \cap Area(t) =>
                t.name \in stale'

\* While the server always saves its book no edit in a mine is overwritten, by a reset
\* that began before it or by a paste, unless the mine was destroyed or replaced
\* meanwhile: whoever may still edit loses nothing.
THEOREM EditsSurviveInOrder ==
    ASSUME Apart PROVE OrderlySpec => EditsSurvive
<1>1. PInit => Inv /\ Owners
  BY InvInit, OwnersInit
<1>2. Inv /\ Owners /\ [Orderly]_pvars => (Inv /\ Owners)'
  BY InvKept, OwnersKept DEF PNext, Inv
<1>3. Inv /\ Owners /\ [Orderly]_pvars => [EditKept]_vars
  BY OwnersUnshared, EditSurvives DEF PNext, EditKept
<1> QED
  BY <1>1, <1>2, <1>3, PTL DEF OrderlySpec, EditsSurvive, EditKept

\* With one settler no edit is overwritten even if the server crashes; with two, a crash
\* gives one of them the land of the other and his paste fills the other's mine.
THEOREM EditsSurviveCrashes ==
    ASSUME Apart, \A p, q \in Settler : p = q PROVE PSpec => EditsSurvive
<1>1. Inv /\ [PNext]_pvars => Inv'
  BY InvKept
<1>2. Inv /\ [PNext]_pvars => [EditKept]_vars
  BY AloneUnshared, EditSurvives DEF EditKept
<1> QED
  BY <1>1, <1>2, InvInit, PTL DEF PSpec, EditsSurvive, EditKept

=============================================================================
