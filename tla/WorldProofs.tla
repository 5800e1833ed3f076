------------------------------ MODULE WorldProofs ------------------------------
(* What a bot knows of its world: its answers to dialogs, its pack and what  *)
(* others read of it, for any items, maps and packets; and its paths, which  *)
(* join their ends over free cells of maps of every size.                    *)
EXTENDS BotWorld, Pathfind, Iteration, SequenceTheorems, FiniteSetTheorems, FunctionTheorems,
        TLAPS

----------------------------------------------------------------------------
(* Dialogs. The answer that is due comes after all that were given.          *)

After(a, b) == b[1] < a[1] \/ (b[1] = a[1] /\ a[2] < b[2])
AskedInv ==
  /\ asked \in Nat /\ callback \in Nat \X Nat /\ answers \in Seq(Nat \X Nat)
  /\ callback[1] <= asked /\ \A i \in DOMAIN answers : answers[i][1] <= asked
  /\ callback # NoCallback => \A i \in DOMAIN answers : After(callback, answers[i])
  /\ OneAnswerEach

LEMMA AskedStays == ASSUME AskedInv, UNCHANGED talk PROVE AskedInv'
BY DEF AskedInv, talk, OneAnswerEach, After

LEMMA Asking == ASSUME AskedInv, NEW more \in {0, 1}, Asks(more) PROVE AskedInv'
<1>1. asked' = asked + 1 /\ callback' = <<asked + 1, more>> /\ UNCHANGED answers BY DEF Asks
<1>2. asked' \in Nat /\ callback' \in Nat \X Nat /\ callback'[1] = asked + 1 BY <1>1 DEF AskedInv
<1>3. \A i \in DOMAIN answers : answers[i][1] \in Nat BY DEF AskedInv
<1>4. \A i \in DOMAIN answers : After(callback', answers[i]) /\ answers[i][1] <= asked'
  BY <1>1, <1>2, <1>3 DEF AskedInv, After
<1> QED BY <1>1, <1>2, <1>4 DEF AskedInv, OneAnswerEach, After

LEMMA Answering == ASSUME AskedInv, Dialog PROVE AskedInv'
<1> DEFINE n == Len(answers)
<1>1. callback # NoCallback /\ answers' = Append(answers, callback) /\ UNCHANGED asked
      /\ callback' = IF callback[2] > 0 THEN <<callback[1], callback[2] - 1>> ELSE NoCallback
  BY DEF Dialog
<1>2. /\ answers' \in Seq(Nat \X Nat) /\ n \in Nat /\ DOMAIN answers = 1..n /\ DOMAIN answers' = 1..(n + 1)
      /\ \A i \in 1..n : answers'[i] = answers[i]
      /\ answers'[n + 1] = callback
  BY <1>1 DEF AskedInv
<1> HIDE DEF n
<1>3. callback[1] \in Nat /\ callback[2] \in Nat /\ callback[1] <= asked /\ asked \in Nat BY DEF AskedInv
<1>4. callback' \in Nat \X Nat /\ callback'[1] <= asked
  <2>1. CASE callback[2] > 0 BY <1>1, <1>3, <2>1
  <2>2. CASE ~(callback[2] > 0) BY <1>1, <1>3, <2>2 DEF NoCallback
  <2> QED BY <2>1, <2>2
<1>5. \A i \in DOMAIN answers' : answers'[i][1] <= asked
  BY <1>2, <1>3 DEF AskedInv
<1>6. callback' # NoCallback => \A i \in DOMAIN answers' : After(callback', answers'[i])
  <2> SUFFICES ASSUME callback' # NoCallback, NEW i \in DOMAIN answers' PROVE After(callback', answers'[i])
    OBVIOUS
  <2>1. callback'[1] = callback[1] /\ callback'[2] = callback[2] - 1 BY <1>1, <1>3
  <2>2. CASE i = n + 1 BY <1>2, <1>3, <2>1, <2>2 DEF After
  <2>3. CASE i \in 1..n
    <3>1. After(callback, answers[i]) /\ answers[i][1] \in Nat /\ answers[i][2] \in Nat
      BY <1>1, <1>2, <2>3 DEF AskedInv
    <3> QED BY <1>2, <1>3, <2>1, <2>3, <3>1, SMTT(30) DEF After
  <2> QED BY <1>2, <2>2, <2>3
<1>7. OneAnswerEach'
  <2> SUFFICES ASSUME NEW i \in DOMAIN answers', NEW j \in DOMAIN answers', i < j
               PROVE  After(answers'[j], answers'[i])
    BY DEF OneAnswerEach, After
  <2>1. i \in 1..n BY <1>2
  <2>2. CASE j = n + 1 BY <1>1, <1>2, <2>1, <2>2 DEF AskedInv
  <2>3. CASE j \in 1..n
    <3>1. /\ answers[i][1] \in Nat /\ answers[i][2] \in Nat /\ answers[j][1] \in Nat /\ answers[j][2] \in Nat
          /\ answers'[i] = answers[i] /\ answers'[j] = answers[j]
      BY <1>2, <2>1, <2>3, SMTT(30) DEF AskedInv
    <3>2. \/ answers[i][1] < answers[j][1]
          \/ answers[i][1] = answers[j][1] /\ answers[i][2] > answers[j][2]
      BY <1>2, <2>1, <2>3 DEF AskedInv, OneAnswerEach
    <3> QED BY <3>1, <3>2 DEF After
  <2> QED BY <1>2, <2>2, <2>3, SMTT(30)
<1> QED BY <1>1, <1>2, <1>3, <1>4, <1>5, <1>6, <1>7 DEF AskedInv

LEMMA AskedStep == AskedInv /\ [WorldNext]_worldVars => AskedInv'
<1> SUFFICES ASSUME AskedInv, [WorldNext]_worldVars PROVE AskedInv' OBVIOUS
<1>1. CASE UNCHANGED worldVars BY <1>1, AskedStays DEF worldVars
<1>2. CASE Commands
  <2>1. CASE DropItem \/ AcceptAccess BY <2>1, Asking DEF DropItem, AcceptAccess
  <2>2. ASSUME NEW i \in Items, Wear(i) \/ Unwear(i) PROVE AskedInv'
    BY <2>2, AskedStays DEF Wear, Unwear, Marks
  <2>3. ASSUME NEW c \in Places, WalkTo(c) PROVE AskedInv' BY <2>3, AskedStays DEF WalkTo, WalkRest
  <2>4. CASE Place \/ SetAutoCollect BY <2>4, AskedStays DEF Place, SetAutoCollect
  <2> QED BY <1>2, <2>1, <2>2, <2>3, <2>4 DEF Commands
<1>3. CASE Packets /\ ~Dialog
  <2>1. UNCHANGED talk
    <3>1. CASE InventoryState \/ ModifyItem BY <3>1 DEF InventoryState, ModifyItem
    <3>2. CASE TileChange \/ TreeState \/ SendLock \/ TileUpdate
      BY <3>2 DEF TileChange, TreeState, SendLock, TileUpdate, TileRest
    <3>3. CASE ObjectDropped \/ ObjectCounted \/ ObjectTaken
      BY <3>3 DEF ObjectDropped, ObjectCounted, ObjectTaken, Objects
    <3>4. CASE SpawnSelf \/ SpawnOther \/ Remove \/ StateOther
      BY <3>4 DEF SpawnSelf, SpawnOther, Remove, StateOther, PlayersRest
    <3>5. CASE StateSelf \/ SetPos \/ SelectMenu \/ Disconnected \/ Connected
      BY <3>5 DEF StateSelf, SetPos, SelectMenu, Disconnected, Connected
    <3>6. ASSUME NEW t, NEW m \in t, MapData(m) PROVE UNCHANGED talk BY <3>6 DEF MapData
    <3>7. ASSUME NEW i \in Items, ConsoleMessage(i) PROVE UNCHANGED talk BY <3>7 DEF ConsoleMessage, Marks
    <3> QED BY <1>3, <3>1, <3>2, <3>3, <3>4, <3>5, <3>6, <3>7 DEF Packets
  <2> QED BY <2>1, AskedStays
<1>4. CASE Expire \/ WalkReplans \/ WalkStep
  BY <1>4, AskedStays DEF Expire, WalkReplans, WalkStep, WalkRest
<1> QED BY <1>1, <1>2, <1>3, <1>4, Answering DEF WorldNext

LEMMA AskedBegins == WorldInit => AskedInv
BY DEF WorldInit, AskedInv, NoCallback, OneAnswerEach

(* bot_world.cpp, dialog_callback: a request is answered once, and never     *)
(* after a later one was.                                                    *)
THEOREM AnswersAreOne == WorldSpec => []OneAnswerEach
<1>1. AskedInv => OneAnswerEach BY DEF AskedInv
<1> QED BY <1>1, AskedBegins, AskedStep, PTL DEF WorldSpec

----------------------------------------------------------------------------
(* What others read of the bot, its pack and the objects                     *)

SnapFields == {"name", "fg", "bg", "objects", "players", "items", "pos", "collecting"}
PackOK(p) == /\ DOMAIN p = {"items", "count"} /\ IsFiniteSet(DOMAIN p.items)
             /\ p.count = Cardinality(DOMAIN p.items)
StateInv == /\ PackOK(pack) /\ DOMAIN snap = SnapFields
            /\ (Loaded => IsMap(world)) /\ topic \in Topics
            /\ SnapshotAgrees

LEMMA StateIs == StateInv => StateAgrees
BY DEF StateInv, StateAgrees, PackOK, PackCounted, UidsDiffer, IsMap

(* The pack                                                                  *)
LEMMA AddedOK == ASSUME NEW p, PackOK(p), NEW i, NEW n PROVE PackOK(Added(p, i, n))
<1>1. CASE i \in DOMAIN p.items
  <2>1. Added(p, i, n) = [p EXCEPT !.items[i].n = Least(Byte, @ + n)] BY <1>1 DEF Added
  <2>2. /\ DOMAIN Added(p, i, n) = {"items", "count"} /\ Added(p, i, n).count = p.count
        /\ DOMAIN Added(p, i, n).items = DOMAIN p.items
    BY <2>1 DEF PackOK
  <2> QED BY <2>2 DEF PackOK
<1>2. CASE i \notin DOMAIN p.items
  <2>1. /\ DOMAIN Added(p, i, n) = {"items", "count"} /\ Added(p, i, n).count = p.count + 1
        /\ DOMAIN Added(p, i, n).items = DOMAIN p.items \cup {i}
    BY <1>2 DEF Added, With
  <2>2. IsFiniteSet(DOMAIN p.items \cup {i}) /\ Cardinality(DOMAIN p.items \cup {i}) = p.count + 1
    BY <1>2, FS_AddElement DEF PackOK
  <2> QED BY <2>1, <2>2 DEF PackOK
<1> QED BY <1>1, <1>2

LEMMA RemovedOK == ASSUME NEW p, PackOK(p), NEW S PROVE PackOK(Removed(p, S))
<1> DEFINE D == DOMAIN p.items
           gone == S \cap D
<1>1. /\ DOMAIN Removed(p, S) = {"items", "count"} /\ Removed(p, S).count = p.count - Cardinality(gone)
      /\ DOMAIN Removed(p, S).items = D \ gone
  BY DEF Removed, Without
<1>2. IsFiniteSet(D) /\ p.count = Cardinality(D) BY DEF PackOK
<1>3. D \cap gone = gone OBVIOUS
<1> HIDE DEF D, gone
<1>4. IsFiniteSet(D \ gone) /\ Cardinality(D \ gone) = Cardinality(D) - Cardinality(D \cap gone)
  BY <1>2, FS_Difference
<1> QED BY <1>1, <1>2, <1>3, <1>4 DEF PackOK

LEMMA SubbedOK == ASSUME NEW p, PackOK(p), NEW i, NEW n PROVE PackOK(Subbed(p, i, n))
<1>1. CASE Amount(p, i) <= n BY <1>1, RemovedOK DEF Subbed
<1>2. CASE ~(Amount(p, i) <= n)
  <2> DEFINE q == [p EXCEPT !.items[i].n = @ - n]
  <2>1. Subbed(p, i, n) = q BY <1>2 DEF Subbed
  <2>2. DOMAIN q = {"items", "count"} /\ q.count = p.count /\ DOMAIN q.items = DOMAIN p.items BY DEF PackOK
  <2> HIDE DEF q
  <2>3. PackOK(q) BY <2>2 DEF PackOK
  <2> QED BY <2>1, <2>3
<1> QED BY <1>1, <1>2

LEMMA FlaggedOK == ASSUME NEW p, PackOK(p), NEW i, NEW on PROVE PackOK(Flagged(p, i, on))
<1> DEFINE q == [p EXCEPT !.items[i].worn = on]
<1>1. DOMAIN q = {"items", "count"} /\ q.count = p.count /\ DOMAIN q.items = DOMAIN p.items BY DEF PackOK
<1> HIDE DEF q
<1>2. PackOK(q) BY <1>1 DEF PackOK
<1> QED BY <1>2 DEF Flagged, q

(* Steps that only tell of the pack, of the players, or of the position.     *)
LEMMA PackMoves ==
  ASSUME StateInv, PackOK(pack'), Emits(pack'),
         UNCHANGED <<world, players, pos, collecting, topic, astray>>
  PROVE  StateInv'
BY DEF StateInv, Emits, SnapshotAgrees, Loaded, SnapFields

LEMMA PlayersMove ==
  ASSUME StateInv, snap' = [snap EXCEPT !.players = players'] \/ (UNCHANGED <<snap, players>>),
         UNCHANGED <<world, pack, pos, collecting, topic, astray>>
  PROVE  StateInv'
BY DEF StateInv, SnapshotAgrees, Loaded, SnapFields

LEMMA PosMoves ==
  ASSUME StateInv, (\E c : At(c)) \/ UNCHANGED <<pos, snap>>,
         UNCHANGED <<world, pack, players, collecting, topic, astray>>
  PROVE  StateInv'
BY DEF StateInv, SnapshotAgrees, Loaded, SnapFields, At

LEMMA StateStays ==
  ASSUME StateInv, UNCHANGED <<world, pack, players, pos, collecting, snap, topic, astray>>
  PROVE  StateInv'
BY DEF StateInv, SnapshotAgrees, Loaded

(* One tile in the world and in the snapshot.                                *)
LEMMA TileMoves ==
  ASSUME StateInv, Loaded, NEW c, NEW f, NEW b,
         world' = [world EXCEPT !.fg[c] = f, !.bg[c] = b],
         \/ snap' = [snap EXCEPT !.fg[c] = f, !.bg[c] = b] /\ UNCHANGED pack
         \/ snap' = [snap EXCEPT !.fg[c] = f, !.bg[c] = b, !.items = pack'.items] /\ PackOK(pack'),
         UNCHANGED <<players, pos, collecting, topic, astray>>
  PROVE  StateInv'
<1> USE DEF StateInv, IsMap, SnapFields
<1>1. /\ DOMAIN world' = {"name", "fg", "bg", "objects", "next"}
      /\ world'.fg = [world.fg EXCEPT ![c] = f] /\ world'.bg = [world.bg EXCEPT ![c] = b]
      /\ world'.objects = world.objects /\ world'.next = world.next
  OBVIOUS
<1>2. IsMap(world') BY <1>1
<1>3. /\ DOMAIN snap' = SnapFields
      /\ snap'.fg = [snap.fg EXCEPT ![c] = f] /\ snap'.bg = [snap.bg EXCEPT ![c] = b]
      /\ snap'.objects = snap.objects /\ snap'.players = snap.players /\ snap'.pos = snap.pos
      /\ snap'.collecting = snap.collecting
  OBVIOUS
<1>4. PackOK(pack') /\ snap'.items = pack'.items
  BY DEF SnapshotAgrees
<1>5. SnapshotAgrees' BY <1>1, <1>3, <1>4 DEF SnapshotAgrees
<1> QED BY <1>2, <1>3, <1>4, <1>5

(* The objects of the world and of the snapshot                              *)
LEMMA ObjectsMove ==
  ASSUME StateInv, Loaded, NEW w, IsMap(w), NEW q, PackOK(q), Objects(w, q),
         w.fg = world.fg, w.bg = world.bg
  PROVE  StateInv'
BY DEF StateInv, Objects, SnapshotAgrees, Loaded, SnapFields

LEMMA DropsOK ==
  ASSUME StateInv, ObjectDropped \/ ObjectCounted \/ ObjectTaken PROVE StateInv'
<1> USE DEF IsMap
<1>0. /\ Loaded /\ PackOK(pack) /\ IsMap(world) BY DEF StateInv, ObjectDropped, ObjectCounted, ObjectTaken
<1>1. CASE ObjectDropped
  <2>1. PICK i \in Items, c \in DOMAIN world.fg, n \in 1..Byte :
          Objects([world EXCEPT !.objects = @ \cup {[uid |-> world.next, item |-> i, at |-> c, n |-> n]},
                                !.next = @ + 1], pack)
    BY <1>1 DEF ObjectDropped
  <2> DEFINE o == [uid |-> world.next, item |-> i, at |-> c, n |-> n]
             w == [world EXCEPT !.objects = @ \cup {o}, !.next = @ + 1]
  <2>2. DOMAIN o = {"uid", "item", "at", "n"} /\ o.uid = world.next OBVIOUS
  <2> HIDE DEF o
  <2>3. /\ DOMAIN w = {"name", "fg", "bg", "objects", "next"} /\ w.fg = world.fg /\ w.bg = world.bg
        /\ w.objects = world.objects \cup {o} /\ w.next = world.next + 1
    BY <1>0
  <2> HIDE DEF w
  <2>4. \A p \in world.objects : p.uid \in Nat /\ p.uid < world.next + 1 /\ p.uid # world.next BY <1>0
  <2>5. IsMap(w) BY <1>0, <2>2, <2>3, <2>4
  <2> QED BY <1>0, <2>1, <2>3, <2>5, ObjectsMove DEF w, o
<1>2. CASE ObjectCounted
  <2>1. PICK o \in world.objects, n \in 1..Byte :
          Objects([world EXCEPT !.objects = (@ \ {o}) \cup {[o EXCEPT !.n = n]}], pack)
    BY <1>2 DEF ObjectCounted
  <2> DEFINE p == [o EXCEPT !.n = n]
             w == [world EXCEPT !.objects = (@ \ {o}) \cup {p}]
  <2>2. DOMAIN p = {"uid", "item", "at", "n"} /\ p.uid = o.uid BY <1>0
  <2> HIDE DEF p
  <2>3. /\ DOMAIN w = {"name", "fg", "bg", "objects", "next"} /\ w.fg = world.fg /\ w.bg = world.bg
        /\ w.objects = (world.objects \ {o}) \cup {p} /\ w.next = world.next
    BY <1>0
  <2> HIDE DEF w
  <2>4. IsMap(w) BY <1>0, <2>2, <2>3
  <2> QED BY <1>0, <2>1, <2>3, <2>4, ObjectsMove DEF w, p
<1>3. CASE ObjectTaken
  <2>0. PICK o \in world.objects : \E q : PackOK(q) /\ Objects([world EXCEPT !.objects = @ \ {o}], q)
    BY <1>0, <1>3, AddedOK DEF ObjectTaken
  <2>1. PICK q : PackOK(q) /\ Objects([world EXCEPT !.objects = @ \ {o}], q)
    BY <2>0
  <2> DEFINE w == [world EXCEPT !.objects = @ \ {o}]
  <2>2. /\ DOMAIN w = {"name", "fg", "bg", "objects", "next"} /\ w.fg = world.fg /\ w.bg = world.bg
        /\ w.objects = world.objects \ {o} /\ w.next = world.next
    BY <1>0
  <2> HIDE DEF w
  <2>3. IsMap(w) BY <1>0, <2>2
  <2> QED BY <1>0, <2>1, <2>2, <2>3, ObjectsMove DEF w
<1> QED BY <1>1, <1>2, <1>3

LEMMA TilesOK ==
  ASSUME StateInv, TileChange \/ TreeState \/ SendLock \/ TileUpdate PROVE StateInv'
<1>0. Loaded BY DEF TileChange, TreeState, SendLock, TileUpdate
<1>1. ASSUME NEW c, NEW f, NEW b, TileBecomes(c, f, b), TileRest PROVE StateInv'
  BY <1>0, <1>1, TileMoves DEF TileBecomes, TileRest
<1>2. CASE TileUpdate
  <2>1. PICK c \in DOMAIN world.fg, f \in Items \cup {"air"}, b \in Items \cup {"air"} :
          /\ world' = [world EXCEPT !.fg[c] = f, !.bg[c] = b]
          /\ snap' = [snap EXCEPT !.fg[c] = f, !.bg[c] = b, !.items = pack'.items]
          /\ UNCHANGED pack \/ \E i : pack' = Subbed(pack, i, 1)
    BY <1>2 DEF TileUpdate
  <2>2. PackOK(pack') BY <2>1, SubbedOK DEF StateInv
  <2>3. UNCHANGED <<players, pos, collecting, topic, astray>> BY <1>2 DEF TileUpdate
  <2> QED BY <1>0, <2>1, <2>2, <2>3, TileMoves
<1>3. CASE TileChange \/ TreeState \/ SendLock
  <2>1. TileRest /\ \E c, f, b : TileBecomes(c, f, b) BY <1>3 DEF TileChange, TreeState, SendLock
  <2> QED BY <1>1, <2>1
<1> QED BY <1>2, <1>3

LEMMA PackStepsOK ==
  ASSUME StateInv,
         InventoryState \/ ModifyItem \/ \E i \in Items : Wear(i) \/ Unwear(i) \/ ConsoleMessage(i)
  PROVE  StateInv'
<1>0. PackOK(pack) BY DEF StateInv
<1>1. CASE InventoryState
  <2>1. PICK S \in SUBSET Items, w \in SUBSET Items :
          pack' = [items |-> [i \in S |-> [n |-> 1, worn |-> i \in w]], count |-> Cardinality(S)]
    BY <1>1 DEF InventoryState
  <2>2. IsFiniteSet(S) BY FS_Subset, WorldAssumption
  <2>3. DOMAIN pack' = {"items", "count"} /\ DOMAIN pack'.items = S /\ pack'.count = Cardinality(S) BY <2>1
  <2>4. PackOK(pack') BY <2>2, <2>3 DEF PackOK
  <2> QED BY <1>1, <2>4, PackMoves DEF InventoryState
<1>2. CASE ModifyItem
  <2>1. PackOK(pack') BY <1>0, <1>2, AddedOK, SubbedOK DEF ModifyItem
  <2> QED BY <1>2, <2>1, PackMoves DEF ModifyItem
<1>3. ASSUME NEW i, NEW on, Marks(i, on) PROVE StateInv'
  <2>1. PackOK(pack') BY <1>0, <1>3, FlaggedOK DEF Marks
  <2> QED BY <1>3, <2>1, PackMoves DEF Marks
<1> QED BY <1>1, <1>2, <1>3 DEF Wear, Unwear, ConsoleMessage

LEMMA PlayersOK ==
  ASSUME StateInv, SpawnSelf \/ SpawnOther \/ Remove \/ StateOther PROVE StateInv'
<1>1. CASE SpawnSelf \/ SpawnOther \/ Remove
  BY <1>1, PlayersMove DEF SpawnSelf, SpawnOther, Remove, PlayersRest
<1>2. CASE StateOther
  <2>1. PICK q \in DOMAIN players, c \in Places :
          /\ players' = [players EXCEPT ![q] = c]
          /\ snap' = [snap EXCEPT !.players = [x \in DOMAIN @ |-> IF x = q THEN c ELSE @[x]]]
    BY <1>2 DEF StateOther
  <2>2. UNCHANGED <<world, pack, pos, collecting, topic, astray>> BY <1>2 DEF StateOther, PlayersRest
  <2>3. snap.players = players => snap'.players = players'
    BY <2>1 DEF StateInv, SnapFields
  <2> QED BY <2>1, <2>2, <2>3 DEF StateInv, SnapshotAgrees, Loaded, SnapFields
<1> QED BY <1>1, <1>2

LEMMA WorldsOK ==
  ASSUME StateInv, SelectMenu \/ Disconnected \/ \E m \in topic.maps : MapData(m) PROVE StateInv'
<1>1. ASSUME NEW m \in topic.maps, MapData(m) PROVE StateInv'
  <2>1. IsMap(m) BY <1>1, TopicsAssumption DEF StateInv
  <2>2. CASE UNCHANGED <<world, snap>> /\ astray' = TRUE
    BY <1>1, <2>2 DEF MapData, StateInv, SnapshotAgrees, Loaded
  <2>3. CASE /\ world' = m /\ astray' = FALSE
             /\ snap' = [snap EXCEPT !.name = m.name, !.fg = m.fg, !.bg = m.bg,
                                     !.objects = m.objects, !.players = Empty]
    BY <1>1, <2>1, <2>3 DEF MapData, StateInv, SnapshotAgrees, Loaded, SnapFields
  <2> QED BY <1>1, <2>2, <2>3 DEF MapData
<1>2. CASE SelectMenu
  <2>1. PackOK(pack') BY <1>2, RemovedOK DEF SelectMenu, StateInv
  <2> QED BY <1>2, <2>1 DEF SelectMenu, StateInv, SnapshotAgrees, Loaded, SnapFields
<1>3. CASE Disconnected
  BY <1>3 DEF Disconnected, own, StateInv, SnapshotAgrees, Loaded, SnapFields
<1> QED BY <1>1, <1>2, <1>3

LEMMA WalksOK ==
  ASSUME StateInv, (\E c \in Places : WalkTo(c)) \/ WalkReplans \/ WalkStep \/ StateSelf \/ SetPos PROVE StateInv'
<1>1. ASSUME NEW goal, Plan(goal), WalkRest PROVE StateInv'
  <2>1. (\E c : At(c)) \/ UNCHANGED <<pos, snap>> BY <1>1 DEF Plan, Goes
  <2> QED BY <1>1, <2>1, PosMoves DEF WalkRest
<1>2. CASE WalkStep
  <2>1. (\E c : At(c)) \/ UNCHANGED <<pos, snap>> BY <1>2 DEF WalkStep
  <2> QED BY <1>2, <2>1, PosMoves DEF WalkStep, WalkRest
<1>3. CASE StateSelf \/ SetPos BY <1>3, PosMoves DEF StateSelf, SetPos
<1> QED BY <1>1, <1>2, <1>3 DEF WalkTo, WalkReplans

LEMMA StateStep == StateInv /\ [WorldNext]_worldVars => StateInv'
<1> SUFFICES ASSUME StateInv, [WorldNext]_worldVars PROVE StateInv' OBVIOUS
<1>1. CASE UNCHANGED worldVars BY <1>1, StateStays DEF worldVars, own
<1>2. CASE Place \/ Expire \/ DropItem \/ AcceptAccess \/ Dialog \/ Connected
  BY <1>2, StateStays DEF Place, Expire, DropItem, AcceptAccess, Asks, Dialog, Connected, own
<1>3. CASE SetAutoCollect
  BY <1>3 DEF SetAutoCollect, own, StateInv, SnapshotAgrees, Loaded, SnapFields
<1> QED
  BY <1>1, <1>2, <1>3, PackStepsOK, TilesOK, DropsOK, PlayersOK, WorldsOK, WalksOK
  DEF WorldNext, Packets, Commands

LEMMA StateBegins == WorldInit => StateInv
<1> SUFFICES ASSUME WorldInit PROVE StateInv OBVIOUS
<1>1. PackOK(pack)
  <2>1. DOMAIN pack = {"items", "count"} /\ DOMAIN pack.items = {} /\ pack.count = 0
    BY DEF WorldInit, Empty
  <2> QED BY <2>1, FS_EmptySet DEF PackOK
<1> QED BY <1>1 DEF WorldInit, StateInv, SnapshotAgrees, Loaded, SnapFields, Empty

(* bot_handlers.cpp: the snapshot shows what the bot knows, the pack counts  *)
(* its items and uids differ, whatever packets come in whatever order.       *)
THEOREM SnapshotIsTrue == WorldSpec => []StateAgrees
BY StateBegins, StateStep, StateIs, PTL DEF WorldSpec

----------------------------------------------------------------------------
(* Paths: a free cell before a walkable path keeps it one.                   *)
\* A free cell before a walkable path from which its first cell is legal.
LEMMA Prepended ==
  ASSUME NEW m \in Maps, NEW a \in BOOLEAN, NEW c \in Nat \X Nat,
         NEW p \in Seq(Nat \X Nat), p # <<>>, Walkable(m, p, a),
         ~Blocked(m, c, a), Legal(m, c, p[1], a)
  PROVE  LET q == <<c>> \o p
         IN /\ q \in Seq(Nat \X Nat) /\ q # <<>> /\ q[1] = c
            /\ q[Len(q)] = p[Len(p)] /\ Walkable(m, q, a)
<1> DEFINE q == <<c>> \o p
<1>1. /\ q \in Seq(Nat \X Nat) /\ Len(q) = Len(p) + 1 /\ q[1] = c
      /\ \A i \in 2..Len(q) : q[i] = p[i - 1]
      /\ Len(p) \in Nat \ {0}
  OBVIOUS
<1>2. q[Len(q)] = p[Len(p)]
  BY <1>1
<1>3. \A i \in 1..Len(q) : ~Blocked(m, q[i], a)
  <2> SUFFICES ASSUME NEW i \in 1..Len(q) PROVE ~Blocked(m, q[i], a)
    OBVIOUS
  <2>1. CASE i = 1
    BY <2>1, <1>1
  <2>2. CASE i \in 2..Len(q)
    <3>1. i - 1 \in 1..Len(p) /\ q[i] = p[i - 1]
      BY <2>2, <1>1
    <3> QED BY <3>1 DEF Walkable
  <2> QED BY <2>1, <2>2, <1>1
<1>4. \A i \in 1..(Len(q) - 1) : Legal(m, q[i], q[i + 1], a)
  <2> SUFFICES ASSUME NEW i \in 1..(Len(q) - 1) PROVE Legal(m, q[i], q[i + 1], a)
    OBVIOUS
  <2>1. CASE i = 1
    BY <2>1, <1>1
  <2>2. CASE i # 1
    <3>1. i - 1 \in 1..(Len(p) - 1) /\ q[i] = p[i - 1] /\ q[i + 1] = p[(i - 1) + 1]
      BY <2>2, <1>1
    <3> QED BY <3>1 DEF Walkable
  <2> QED BY <2>1, <2>2
<1>5. Walkable(m, q, a) BY <1>3, <1>4 DEF Walkable
<1> QED BY <1>1, <1>2, <1>5

\* A cell a legal step leads to is free, and one of the map.
LEMMA LegalEnds ==
  ASSUME NEW m, NEW x, NEW c, NEW a, Legal(m, x, c, a)
  PROVE  ~Blocked(m, c, a) /\ c \in Cells(m)
BY DEF Legal, Blocked

LEMMA CellsNat ==
  ASSUME NEW m \in Maps PROVE Cells(m) \subseteq Nat \X Nat
BY MapsAssumption DEF Cells

LEMMA QueryType ==
  ASSUME NEW k \in Queries
  PROVE  k \in (Nat \X Nat) \X (Nat \X Nat) \X BOOLEAN
BY MapsAssumption

\* The path of one cell.
LEMMA Single ==
  ASSUME NEW m \in Maps, NEW c \in Nat \X Nat, NEW a, ~Blocked(m, c, a)
  PROVE  /\ <<c>> \in Seq(Nat \X Nat) /\ <<c>> # <<>> /\ <<c>>[1] = c
         /\ <<c>>[Len(<<c>>)] = c /\ Walkable(m, <<c>>, a)
BY DEF Walkable

LEMMA PathInitIInv == ASSUME PathInit PROVE PathIInv
<1>1. map \in Maps /\ phase = "idle" /\ path = <<>> /\ DOMAIN cache = {}
  BY MapsAssumption DEF PathInit, NoEntries, NoPath
<1>2. PathTypeOK
  BY <1>1 DEF PathInit, PathTypeOK, NoKey
<1> QED BY <1>1, <1>2 DEF PathIInv, AnswersJoin

\* An answer that joins the ends of its query keeps the invariant.
LEMMA AnswerIInv ==
  ASSUME PathIInv, PathTypeOK', NEW p \in Seq(Nat \X Nat), Answer(p), cache' = cache \/ Caches(key', p),
         ~kept => Joins(map, key', p)
  PROVE  PathIInv'
<1>1. phase' = "done" /\ path' = p /\ map' = map /\ kept' = kept
  BY DEF Answer
<1>2. AnswersJoin'
  BY <1>1 DEF AnswersJoin, Joins, Walkable
<1>3. ASSUME NEW k \in DOMAIN cache'
      PROVE  cache'[k] \in Seq(Nat \X Nat) /\ (~kept => Joins(map, k, cache'[k]))
  <2>1. CASE cache' = cache
    BY <2>1 DEF PathIInv
  <2>2. CASE Caches(key', p)
    <3>1. CASE k = key'
      BY <2>2, <3>1 DEF Caches
    <3>2. CASE k # key'
      <4>1. k \in DOMAIN cache /\ cache'[k] = cache[k]
        BY <2>2, <3>2 DEF Caches
      <4> QED BY <4>1 DEF PathIInv
    <3> QED BY <3>1, <3>2
  <2> QED BY <2>1, <2>2
<1>4. \A k \in DOMAIN cache' : Joins(map, k, cache'[k]) <=> Joins(map, k, cache[k])'
  BY <1>1 DEF Joins, Walkable
<1> QED BY <1>1, <1>2, <1>3, <1>4 DEF PathIInv

LEMMA PathStep == ASSUME PathIInv, [PathNext]_pathVars PROVE PathIInv'
<1> USE DEF PathIInv
<1>t. map \in Maps /\ PathTypeOK
  BY DEF PathTypeOK
<1>1. ASSUME NEW m \in Maps, Update(m) PROVE PathIInv'
  <2>1. /\ map' = m /\ phase' = "idle" /\ path' = <<>> /\ key' = key /\ asks' = asks
        /\ kept' = (cache' # NoEntries) /\ cache' \in {NoEntries, cache}
    BY <1>1 DEF Update, CacheAfter, NoPath
  <2>2. PathTypeOK' /\ AnswersJoin' /\ path' \in Seq(Nat \X Nat)
    BY <2>1 DEF PathTypeOK, AnswersJoin
  <2>3. \A k \in DOMAIN cache' : cache'[k] \in Seq(Nat \X Nat)
    BY <2>1 DEF NoEntries
  <2>4. ~kept' => \A k \in DOMAIN cache' : Joins(map, k, cache[k])'
    BY <2>1 DEF NoEntries
  <2> QED BY <2>1, <2>2, <2>3, <2>4
<1>2. ASSUME NEW k \in Queries, AskCached(k) PROVE PathIInv'
  <2>1. /\ k \in DOMAIN cache /\ key' = k /\ asks' = asks + 1 /\ cache' = cache /\ Answer(cache[k])
        /\ cache[k] \in Seq(Nat \X Nat) /\ (~kept => Joins(map, k, cache[k]))
    BY <1>2 DEF AskCached, Ask
  <2>2. PathTypeOK'
    BY <2>1, <1>t, QueryType DEF PathTypeOK, Answer
  <2> QED BY <2>1, <2>2, AnswerIInv
<1>3. ASSUME NEW k \in Queries, AskTrivial(k) PROVE PathIInv'
  <2> DEFINE none == Blocked(map, k[1], k[3]) \/ Blocked(map, k[2], k[3])
             p == IF none THEN NoPath ELSE <<k[1]>>
  <2>1. /\ none \/ k[1] = k[2]
        /\ key' = k /\ asks' = asks + 1 /\ Answer(p) /\ Caches(k, p)
    BY <1>3 DEF AskTrivial, Ask
  <2>2. PathTypeOK'
    BY <2>1, <1>t, QueryType DEF PathTypeOK, Answer
  <2>3. p \in Seq(Nat \X Nat) /\ Joins(map, k, p)
    <3>1. CASE none
      BY <3>1 DEF NoPath, Joins
    <3>2. CASE ~none
      <4>1. k[1] \in Nat \X Nat /\ k[1] = k[2] /\ p = <<k[1]>>
        BY <2>1, <3>2, QueryType
      <4> QED BY <4>1, <3>2, <1>t, Single DEF Joins
    <3> QED BY <3>1, <3>2
  <2> HIDE DEF p
  <2> QED BY <2>1, <2>2, <2>3, AnswerIInv
<1>4. ASSUME NEW k \in Queries, AskSearch(k) PROVE PathIInv'
  <2>1. /\ key' = k /\ asks' = asks + 1 /\ map' = map /\ cache' = cache /\ kept' = kept
        /\ phase' = "searching" /\ path' = <<>> /\ cameFrom' = [c \in {} |-> c]
        /\ open' = {Node(k[1], 0, k[2])} /\ ~Blocked(map, k[1], k[3])
    BY <1>4 DEF AskSearch, Ask, NoPath
  <2>2. PathTypeOK' /\ AnswersJoin' /\ path' \in Seq(Nat \X Nat)
    BY <2>1, <1>t, QueryType DEF PathTypeOK, AnswersJoin
  <2>3. /\ ~Blocked(map, From, Access)' /\ \A n \in open' : n.c \in Found'
        /\ DOMAIN cameFrom' = {}
    BY <2>1 DEF From, Access, Blocked, Cells, Found, Node
  <2>4. \A e \in DOMAIN cache : Joins(map, e, cache[e]) <=> Joins(map, e, cache[e])'
    BY <2>1 DEF Joins, Walkable
  <2> QED BY <2>1, <2>2, <2>3, <2>4
<1>5. CASE Exhausted
  <2>1. key' = key /\ asks' = asks /\ Answer(<<>>) /\ Caches(key', <<>>)
    BY <1>5 DEF Exhausted, NoPath
  <2>2. PathTypeOK'
    BY <2>1, <1>t DEF PathTypeOK, Answer
  <2>3. <<>> \in Seq(Nat \X Nat) /\ Joins(map, key', <<>>)
    BY DEF Joins, NoPath
  <2> QED BY <2>1, <2>2, <2>3, AnswerIInv
<1>6. ASSUME NEW n \in open, Pop(n) PROVE PathIInv'
  <2>0. /\ phase = "searching" /\ n.c \in Found
        /\ UNCHANGED <<map, cache, key, asks, kept>>
    BY <1>6 DEF Pop, PopGoal, PopClosed, PopExpand
  <2>1. (From = From /\ To = To /\ Access = Access)' /\ From' = From /\ To' = To /\ Access' = Access
    BY <2>0 DEF From, To, Access
  <2>2. \A e \in DOMAIN cache : Joins(map, e, cache[e]) <=> Joins(map, e, cache[e])'
    BY <2>0 DEF Joins, Walkable
  <2>3. CASE PopGoal(n)
    <3>1. /\ n.c = To /\ phase' = "retracing" /\ path' = <<To>> /\ open' \subseteq open
          /\ cameFrom' = cameFrom
      BY <2>3 DEF PopGoal
    <3>2. To \in Nat \X Nat /\ ~Blocked(map, To, Access)
      <4>1. CASE To = From
        BY <4>1, <2>0, <1>t DEF PathTypeOK, From
      <4>2. CASE To \in DOMAIN cameFrom
        BY <4>2, <2>0, <1>t, LegalEnds, CellsNat
      <4> QED BY <4>1, <4>2, <3>1, <2>0 DEF Found
    <3>3. /\ path' \in Seq(Nat \X Nat) /\ path' # <<>> /\ path'[1] = To /\ path'[Len(path')] = To
          /\ Walkable(map, path', Access)
      BY <3>1, <3>2, <1>t, Single
    <3>4. PathTypeOK' /\ AnswersJoin'
      BY <2>0, <3>1, <1>t DEF PathTypeOK, AnswersJoin
    <3>5. Found' = Found /\ To \in Found
      BY <2>0, <2>1, <3>1 DEF Found
    <3> HIDE DEF From, To, Access
    <3> QED BY <2>0, <2>1, <2>2, <3>1, <3>3, <3>4, <3>5 DEF Walkable, NoPath, Blocked, Cells, Legal
  <2>4. CASE PopClosed(n)
    <3>1. UNCHANGED <<phase, path, cameFrom>> /\ open' \subseteq open
      BY <2>4 DEF PopClosed
    <3>2. PathTypeOK' /\ AnswersJoin' /\ Found' = Found
      BY <2>0, <2>1, <3>1, <1>t DEF PathTypeOK, AnswersJoin, Found
    <3> QED BY <2>0, <2>1, <2>2, <3>1, <3>2 DEF Walkable, Blocked, Cells, Legal
  <2>5. CASE PopExpand(n)
    <3>1. /\ UNCHANGED <<phase, path>>
          /\ cameFrom' = [c \in DOMAIN cameFrom \cup Improved(n) |->
                            IF c \in Improved(n) THEN n.c ELSE cameFrom[c]]
          /\ \A o \in open' : o \in open \/ o.c \in Improved(n)
      BY <2>5 DEF PopExpand, Node
    <3>2. \A c \in Improved(n) : Legal(map, n.c, c, Access)
      BY DEF Improved
    <3>3. Found \subseteq Found' /\ Improved(n) \subseteq Found'
      BY <2>1, <3>1 DEF Found
    <3>4. \A o \in open' : o.c \in Found'
      BY <3>1, <3>3, <2>0
    <3>5. ASSUME NEW c \in DOMAIN cameFrom'
          PROVE  cameFrom'[c] \in Found' /\ Legal(map, cameFrom'[c], c, Access)
      <4>1. CASE c \in Improved(n)
        BY <4>1, <3>1, <3>2, <3>3, <2>0
      <4>2. CASE c \notin Improved(n)
        <5>1. c \in DOMAIN cameFrom /\ cameFrom'[c] = cameFrom[c]
          BY <4>2, <3>1
        <5> QED BY <5>1, <3>3, <2>0
      <4> QED BY <4>1, <4>2
    <3>6. PathTypeOK' /\ AnswersJoin'
      BY <2>0, <3>1, <1>t DEF PathTypeOK, AnswersJoin
    <3>7. \A c \in DOMAIN cameFrom' : Legal(map, cameFrom'[c], c, Access) <=> Legal(map, cameFrom[c], c, Access)'
      BY <2>0, <2>1 DEF Legal, Blocked, Cells
    <3>8. ~Blocked(map, From, Access)'
      BY <2>0, <2>1 DEF Blocked, Cells
    <3> QED BY <2>0, <2>2, <3>1, <3>4, <3>5, <3>6, <3>7, <3>8
  <2> QED BY <1>6, <2>3, <2>4, <2>5 DEF Pop
<1>7. CASE RetraceStep
  <2> DEFINE c == cameFrom[path[1]]
  <2>1. /\ phase = "retracing" /\ path[1] # From /\ path' = <<c>> \o path
        /\ UNCHANGED <<map, cache, key, phase, asks, kept, searchVars>>
    BY <1>7 DEF RetraceStep
  <2>2. c \in Found /\ Legal(map, c, path[1], Access)
    BY <2>1 DEF Found
  <2>3. ~Blocked(map, c, Access) /\ c \in Nat \X Nat
    <3>1. CASE c = From
      BY <3>1, <2>1, <1>t DEF PathTypeOK, From
    <3>2. CASE c \in DOMAIN cameFrom
      BY <3>2, <2>1, <1>t, LegalEnds, CellsNat
    <3> QED BY <3>1, <3>2, <2>2 DEF Found
  <2>4. Access \in BOOLEAN
    BY <1>t DEF PathTypeOK, Access
  <2> HIDE DEF c
  <2>5. /\ path' \in Seq(Nat \X Nat) /\ path' # <<>> /\ path'[1] = c /\ path'[Len(path')] = To
        /\ Walkable(map, path', Access)
    BY <2>1, <2>2, <2>3, <2>4, <1>t, Prepended DEF NoPath
  <2>6. PathTypeOK' /\ AnswersJoin' /\ From' = From /\ To' = To /\ Access' = Access /\ Found' = Found
    BY <2>1, <1>t DEF PathTypeOK, AnswersJoin, From, To, Access, Found, searchVars
  <2>7. \A e \in DOMAIN cache : Joins(map, e, cache[e]) <=> Joins(map, e, cache[e])'
    BY <2>1 DEF Joins, Walkable
  <2>8. Walkable(map, path, Access)' <=> Walkable(map, path', Access)
    BY <2>1, <2>6 DEF Walkable, Legal, Blocked, Cells
  <2>9. /\ ~Blocked(map, From, Access)'
        /\ \A x \in DOMAIN cameFrom : Legal(map, cameFrom[x], x, Access) <=> Legal(map, cameFrom[x], x, Access)'
    BY <2>1, <2>6 DEF Legal, Blocked, Cells, searchVars
  <2> HIDE DEF From, To, Access
  <2> QED BY <2>1, <2>2, <2>5, <2>6, <2>7, <2>8, <2>9 DEF searchVars, NoPath
<1>8. CASE RetraceEnd
  <2>1. /\ phase = "retracing" /\ path[1] = From /\ key' = key /\ asks' = asks
        /\ Answer(path) /\ Caches(key', path)
    BY <1>8 DEF RetraceEnd
  <2>2. PathTypeOK'
    BY <2>1, <1>t DEF PathTypeOK, Answer
  <2>3. Joins(map, key', path)
    BY <2>1 DEF Joins, From, To, Access
  <2> QED BY <2>1, <2>2, <2>3, AnswerIInv
<1>9. CASE UNCHANGED pathVars
  BY <1>9 DEF pathVars, PathTypeOK, AnswersJoin, Found, From, To, Access
<1> QED BY <1>1, <1>2, <1>3, <1>4, <1>5, <1>6, <1>7, <1>8, <1>9 DEF PathNext

\* Every path find_path returns, computed or cached, joins the ends of the query
\* over free cells of the grid of the last update, unless the cache outlived a
\* change of the map's size.
THEOREM JoinsEnds == PathSpec => []AnswersJoin
<1>1. PathIInv => AnswersJoin
  BY DEF PathIInv
<1> QED BY PathInitIInv, PathStep, <1>1, PTL DEF PathSpec

----------------------------------------------------------------------------
(* What the ways from s over the free cells of m cost: the smallest set of   *)
(* pairs <<cell, cost>> that holds the start and is closed under a step.     *)
Pairs == (Nat \X Nat) \X Nat
StepsTo(m, a, v, u) == u[1] \in Cells(m) /\ Legal(m, v[1], u[1], a) /\ u[2] = v[2] + StepCost(v[1], u[1])
ClosedWays(m, s, a, S) == <<s, 0>> \in S /\ \A v \in S, u \in Pairs : StepsTo(m, a, v, u) => u \in S
Costs(m, s, a) == {v \in Pairs : \A S \in SUBSET Pairs : ClosedWays(m, s, a, S) => v \in S}
CheapestWay(m, s, a, v) == v \in Costs(m, s, a) /\ \A u \in Costs(m, s, a) : u[1] = v[1] => v[2] <= u[2]

LEMMA StepCostType == ASSUME NEW x, NEW y PROVE StepCost(x, y) \in {10, 14}
BY DEF StepCost

LEMMA PairType == ASSUME NEW v \in Pairs PROVE v = <<v[1], v[2]>> /\ v[1] \in Nat \X Nat /\ v[2] \in Nat
BY DEF Pairs

LEMMA CostsClosed ==
  ASSUME NEW m, NEW s \in Nat \X Nat, NEW a
  PROVE  /\ Costs(m, s, a) \subseteq Pairs /\ <<s, 0>> \in Costs(m, s, a)
         /\ \A v \in Costs(m, s, a), u \in Pairs : StepsTo(m, a, v, u) => u \in Costs(m, s, a)
<1>1. <<s, 0>> \in Pairs BY DEF Pairs
<1> QED BY <1>1 DEF Costs, ClosedWays

(* Induction over the ways.                                                  *)
LEMMA CostsLeast ==
  ASSUME NEW m, NEW s \in Nat \X Nat, NEW a, NEW S, <<s, 0>> \in S,
         \A v \in Costs(m, s, a) \cap S, u \in Costs(m, s, a) : StepsTo(m, a, v, u) => u \in S
  PROVE  Costs(m, s, a) \subseteq S
<1> DEFINE D == Costs(m, s, a) \cap S
<1>1. D \subseteq Pairs BY CostsClosed
<1>2. ClosedWays(m, s, a, D)
  BY CostsClosed DEF ClosedWays
<1> HIDE DEF D
<1>3. Costs(m, s, a) \subseteq D
  BY <1>1, <1>2 DEF Costs
<1> QED BY <1>3 DEF D

(* A way ends at the start or has a last step.                               *)
LEMMA LastStep ==
  ASSUME NEW m, NEW s \in Nat \X Nat, NEW a, NEW v \in Costs(m, s, a)
  PROVE  v = <<s, 0>> \/ \E u \in Costs(m, s, a) : StepsTo(m, a, u, v)
<1> DEFINE S == {x \in Costs(m, s, a) : x = <<s, 0>> \/ \E u \in Costs(m, s, a) : StepsTo(m, a, u, x)}
<1>1. <<s, 0>> \in S BY CostsClosed
<1>2. \A x \in Costs(m, s, a) \cap S, u \in Costs(m, s, a) : StepsTo(m, a, x, u) => u \in S
  OBVIOUS
<1> HIDE DEF S
<1>3. Costs(m, s, a) \subseteq S BY <1>1, <1>2, CostsLeast
<1> QED BY <1>3 DEF S

(* A cell with a way to it has a cheapest one.                               *)
LEMMA CheapestExists ==
  ASSUME NEW m, NEW s \in Nat \X Nat, NEW a, NEW v \in Costs(m, s, a)
  PROVE  \E u : CheapestWay(m, s, a, u) /\ u[1] = v[1]
<1> DEFINE G == {g \in Nat : <<v[1], g>> \in Costs(m, s, a)}
<1>1. v \in Pairs /\ v = <<v[1], v[2]>> /\ v[2] \in Nat
  BY CostsClosed, PairType
<1>2. v[2] \in G BY <1>1
<1>3. PICK g \in G : \A h \in G : g <= h
  <2> HIDE DEF G
  <2>1. G \subseteq Nat BY DEF G
  <2> QED BY <1>2, <2>1, LeastNat
<1>4. ASSUME NEW u \in Costs(m, s, a), u[1] = v[1] PROVE g <= u[2]
  <2>1. u = <<v[1], u[2]>> /\ u[2] \in Nat BY <1>4, CostsClosed, PairType
  <2>2. u[2] \in G BY <2>1
  <2> QED BY <2>2, <1>3
<1>5. CheapestWay(m, s, a, <<v[1], g>>)
  BY <1>3, <1>4 DEF CheapestWay
<1> QED BY <1>5

(* The last step of a cheapest way comes from one that is cheaper.           *)
LEMMA CheapestStep ==
  ASSUME NEW m, NEW s \in Nat \X Nat, NEW a, NEW v, CheapestWay(m, s, a, v), v # <<s, 0>>
  PROVE  \E u : CheapestWay(m, s, a, u) /\ StepsTo(m, a, u, v) /\ u[2] < v[2]
<1>1. PICK u \in Costs(m, s, a) : StepsTo(m, a, u, v)
  BY LastStep DEF CheapestWay
<1>2. /\ u \in Pairs /\ v \in Pairs /\ u[2] \in Nat /\ v[2] = u[2] + StepCost(u[1], v[1])
      /\ StepCost(u[1], v[1]) \in {10, 14}
  BY <1>1, CostsClosed, PairType, StepCostType DEF StepsTo, CheapestWay
<1>3. ASSUME NEW x \in Costs(m, s, a), x[1] = u[1] PROVE u[2] <= x[2]
  <2> DEFINE y == <<v[1], x[2] + StepCost(x[1], v[1])>>
  <2>1. x[2] \in Nat /\ x \in Pairs BY CostsClosed, PairType
  <2>2. y \in Pairs /\ y[1] = v[1] /\ y[2] = x[2] + StepCost(u[1], v[1])
    <3>1. v[1] \in Nat \X Nat BY <1>2, PairType
    <3> QED BY <1>2, <1>3, <2>1, <3>1 DEF Pairs
  <2>3. StepsTo(m, a, x, y) BY <1>1, <1>3, <2>2 DEF StepsTo
  <2> HIDE DEF y
  <2>4. y \in Costs(m, s, a) BY <2>2, <2>3, CostsClosed
  <2>5. v[2] <= y[2] BY <2>2, <2>4 DEF CheapestWay
  <2> QED BY <1>2, <2>1, <2>2, <2>5
<1>4. CheapestWay(m, s, a, u) BY <1>3 DEF CheapestWay
<1> QED BY <1>1, <1>2, <1>4

----------------------------------------------------------------------------
(* One round of the reference.                                               *)
LEMMA Round ==
  ASSUME NEW m \in Maps, NEW a, NEW K, K \subseteq Pairs
  PROVE  Relaxed(m, a, K) =
           LET all == {u \in Pairs : u \in K \/ \E v \in K : StepsTo(m, a, v, u)}
           IN {u \in all : \A o \in all : o[1] = u[1] => u[2] <= o[2]}
<1> DEFINE all == {u \in Pairs : u \in K \/ \E v \in K : StepsTo(m, a, v, u)}
           U == K \cup UNION {{<<c, v[2] + StepCost(v[1], c)>> :
                               c \in {x \in Cells(m) : Legal(m, v[1], x, a)}} : v \in K}
<1>1. U \subseteq all
  <2> SUFFICES ASSUME NEW u \in U PROVE u \in all OBVIOUS
  <2>1. CASE u \in K BY <2>1
  <2>2. CASE u \notin K
    <3>1. PICK v \in K : \E c \in {x \in Cells(m) : Legal(m, v[1], x, a)} : u = <<c, v[2] + StepCost(v[1], c)>>
      BY <2>2
    <3>2. PICK c \in Cells(m) : Legal(m, v[1], c, a) /\ u = <<c, v[2] + StepCost(v[1], c)>>
      BY <3>1
    <3>3. v[2] \in Nat /\ c \in Nat \X Nat BY CellsNat, PairType
    <3>4. v[2] + StepCost(v[1], c) \in Nat BY <3>3, StepCostType
    <3>5. u \in Pairs BY <3>2, <3>3, <3>4 DEF Pairs
    <3>6. StepsTo(m, a, v, u) BY <3>2 DEF StepsTo
    <3> QED BY <3>5, <3>6
  <2> QED BY <2>1, <2>2
<1>2. all \subseteq U
  <2> SUFFICES ASSUME NEW u \in all, u \notin K PROVE u \in U OBVIOUS
  <2>1. PICK v \in K : StepsTo(m, a, v, u) OBVIOUS
  <2>2. u = <<u[1], v[2] + StepCost(v[1], u[1])>> /\ u[1] \in {x \in Cells(m) : Legal(m, v[1], x, a)}
    BY <2>1, PairType DEF StepsTo
  <2> QED BY <2>2
<1>3. Relaxed(m, a, K) = Cheapest(U) BY DEF Relaxed
<1> HIDE DEF all, U
<1>4. all = U BY <1>1, <1>2
<1>5. Relaxed(m, a, K) = {u \in all : \A o \in all : o[1] = u[1] => u[2] <= o[2]}
  BY <1>3, <1>4 DEF Cheapest
<1> QED BY <1>5 DEF all

(* The rounds of the reference are a function of their number.               *)
Rounds(m, s, a, f) == /\ f \in [Nat -> SUBSET Pairs] /\ f[0] = {<<s, 0>>}
                      /\ \A n \in Nat : f[n + 1] = Relaxed(m, a, f[n])
(* The reference is the last of its rounds.                                  *)
LEMMA WaysAreRounds ==
  ASSUME NEW m \in Maps, NEW s \in Nat \X Nat, NEW a
  PROVE  \E f : Rounds(m, s, a, f) /\ Ways(m, s, a) = f[Cardinality(Cells(m))]
<1> DEFINE R == CHOOSE f : f = [n \in Nat |-> IF n = 0 THEN {<<s, 0>>} ELSE Relaxed(m, a, f[n - 1])]
<1>0. PICK X : X = SUBSET Pairs OBVIOUS
<1>1. PICK b \in X : b = {<<s, 0>>}
  <2>1. <<s, 0>> \in Pairs BY DEF Pairs
  <2> QED BY <1>0, <2>1
<1>2. \A K \in X : Relaxed(m, a, K) \in X
  BY <1>0, Round
<1>3. PICK T \in [Nat \X X -> X] : \A n \in Nat, K \in X : T[<<n, K>>] = Relaxed(m, a, K)
  <2> DEFINE t == [x \in Nat \X X |-> Relaxed(m, a, x[2])]
  <2>1. \A x \in Nat \X X : x[2] \in X OBVIOUS
  <2>2. t \in [Nat \X X -> X] BY <1>2, <2>1
  <2>3. \A n \in Nat, K \in X : t[<<n, K>>] = Relaxed(m, a, K) OBVIOUS
  <2> QED BY <2>2, <2>3
<1> HIDE DEF R
<1>4. PICK f : Iter(f, X, b, T)
  BY Iterates, Zenon
<1>5. f \in [Nat -> X] /\ f[0] = b /\ \A n \in Nat : f[n + 1] = T[<<n, f[n]>>]
  BY <1>4 DEF Iter
<1> USE DEF R
<1>6. \A n \in Nat : f[n + 1] = Relaxed(m, a, f[n])
  BY <1>3, <1>5
<1>7. f = [n \in Nat |-> IF n = 0 THEN {<<s, 0>>} ELSE Relaxed(m, a, f[n - 1])]
  <2>1. \A n \in Nat : f[n] = IF n = 0 THEN {<<s, 0>>} ELSE Relaxed(m, a, f[n - 1])
    <3> TAKE n \in Nat
    <3>1. CASE n = 0 BY <3>1, <1>1, <1>5
    <3>2. CASE n # 0
      <4>1. n - 1 \in Nat /\ (n - 1) + 1 = n BY <3>2
      <4>2. f[(n - 1) + 1] = Relaxed(m, a, f[n - 1]) BY <4>1, <1>6
      <4> QED BY <3>2, <4>1, <4>2
    <3> QED BY <3>1, <3>2
  <2> QED BY <1>5, <2>1
<1>8. R = [n \in Nat |-> IF n = 0 THEN {<<s, 0>>} ELSE Relaxed(m, a, R[n - 1])]
  BY <1>7
<1>9. Ways(m, s, a) = R[Cardinality(Cells(m))]
  BY DEF Ways
<1> HIDE DEF R
<1>10. \A n \in Nat : R[n] = f[n]
  <2> DEFINE E == {n \in Nat : R[n] = f[n]}
  <2>1. 0 \in E
    <3>1. R[0] = {<<s, 0>>} BY <1>8
    <3> QED BY <3>1, <1>1, <1>5
  <2>2. ASSUME NEW n \in Nat, n \in E PROVE n + 1 \in E
    <3>1. R[n + 1] = Relaxed(m, a, R[(n + 1) - 1])
      <4>1. n + 1 \in Nat /\ n + 1 # 0 OBVIOUS
      <4> QED BY <1>8, <4>1
    <3>2. (n + 1) - 1 = n OBVIOUS
    <3> QED BY <3>1, <3>2, <2>2, <1>6
  <2> HIDE DEF E
  <2>3. Nat \subseteq E BY <2>1, <2>2, AllNat
  <2> QED BY <2>3 DEF E
<1>11. Cardinality(Cells(m)) \in Nat
  <2>1. IsFiniteSet(Cells(m))
    <3>1. 0 \in Int /\ m.w - 1 \in Int /\ m.h - 1 \in Int BY MapsAssumption
    <3>2. IsFiniteSet(0..(m.w - 1)) /\ IsFiniteSet(0..(m.h - 1)) BY <3>1, FS_Interval
    <3> QED BY <3>2, FS_Product DEF Cells
  <2> QED BY <2>1, FS_CardinalityType
<1>12. Rounds(m, s, a, f) BY <1>0, <1>1, <1>5, <1>6 DEF Rounds
<1> QED BY <1>9, <1>10, <1>11, <1>12

LEMMA CellsFinite ==
  ASSUME NEW m \in Maps
  PROVE  IsFiniteSet(Cells(m)) /\ Cardinality(Cells(m)) \in Nat
<1>1. 0 \in Int /\ m.w - 1 \in Int /\ m.h - 1 \in Int BY MapsAssumption
<1>2. IsFiniteSet(0..(m.w - 1)) /\ IsFiniteSet(0..(m.h - 1)) BY <1>1, FS_Interval
<1>3. IsFiniteSet(Cells(m)) BY <1>2, FS_Product DEF Cells
<1> QED BY <1>3, FS_CardinalityType

(* Nothing a round finds is cheaper than a way.                              *)
LEMMA RoundsAreWays ==
  ASSUME NEW m \in Maps, NEW s \in Nat \X Nat, NEW a, NEW f, Rounds(m, s, a, f)
  PROVE  \A n \in Nat : f[n] \subseteq Costs(m, s, a)
<1> DEFINE E == {n \in Nat : f[n] \subseteq Costs(m, s, a)}
<1>1. 0 \in E
  <2>1. f[0] = {<<s, 0>>} BY DEF Rounds
  <2> QED BY <2>1, CostsClosed
<1>2. ASSUME NEW n \in Nat, n \in E PROVE n + 1 \in E
  <2>1. f[n + 1] = Relaxed(m, a, f[n]) /\ f[n] \subseteq Pairs /\ f[n] \subseteq Costs(m, s, a)
    BY <1>2 DEF Rounds
  <2>2. ASSUME NEW u \in f[n + 1] PROVE u \in Costs(m, s, a)
    <3>1. u \in Pairs /\ (u \in f[n] \/ \E v \in f[n] : StepsTo(m, a, v, u))
      BY <2>1, Round
    <3> QED BY <2>1, <3>1, CostsClosed
  <2> QED BY <2>2
<1> HIDE DEF E
<1>3. Nat \subseteq E BY <1>1, <1>2, AllNat
<1> QED BY <1>3 DEF E

(* A cheapest way that a round can find is found, and stays.                 *)
LEMMA RoundFinds ==
  ASSUME NEW m \in Maps, NEW s \in Nat \X Nat, NEW a, NEW f, Rounds(m, s, a, f), NEW n \in Nat,
         NEW v, CheapestWay(m, s, a, v), v \in f[n] \/ \E u \in f[n] : StepsTo(m, a, u, v)
  PROVE  v \in f[n + 1]
<1>1. /\ f[n + 1] = Relaxed(m, a, f[n]) /\ f[n] \subseteq Pairs /\ f[n] \subseteq Costs(m, s, a)
      /\ v \in Pairs
  BY RoundsAreWays, CostsClosed DEF Rounds, CheapestWay
<1> DEFINE all == {u \in Pairs : u \in f[n] \/ \E x \in f[n] : StepsTo(m, a, x, u)}
<1>2. f[n + 1] = {u \in all : \A o \in all : o[1] = u[1] => u[2] <= o[2]}
  BY <1>1, Round
<1>3. v \in all BY <1>1
<1>4. ASSUME NEW o \in all, o[1] = v[1] PROVE v[2] <= o[2]
  <2>1. o \in Costs(m, s, a) BY <1>1, CostsClosed
  <2> QED BY <1>4, <2>1 DEF CheapestWay
<1> HIDE DEF all
<1> QED BY <1>2, <1>3, <1>4

(* The cells that are nearer than the end of v.                              *)
Nearer(m, s, a, v) == {x \in Cells(m) : \E u \in Costs(m, s, a) : u[1] = x /\ u[2] < v[2]}

LEMMA WayEnds ==
  ASSUME NEW m \in Maps, NEW s \in Cells(m), NEW a, NEW v \in Costs(m, s, a)
  PROVE  v[1] \in Cells(m) /\ v \in Pairs /\ v[2] \in Nat
<1>1. s \in Nat \X Nat BY CellsNat
<1>2. v = <<s, 0>> \/ v[1] \in Cells(m) BY <1>1, LastStep DEF StepsTo
<1> QED BY <1>1, <1>2, CostsClosed, PairType

(* As many rounds as there are cells nearer to the start find a cheapest way. *)
LEMMA RoundsFindAll ==
  ASSUME NEW m \in Maps, NEW s \in Cells(m), NEW a, NEW f, Rounds(m, s, a, f)
  PROVE  \A n \in Nat : \A v : CheapestWay(m, s, a, v) /\ Cardinality(Nearer(m, s, a, v)) <= n
                                  => v \in f[n]
<1>0. s \in Nat \X Nat BY CellsNat
<1>n. ASSUME NEW v, CheapestWay(m, s, a, v)
      PROVE  /\ IsFiniteSet(Nearer(m, s, a, v)) /\ Cardinality(Nearer(m, s, a, v)) \in Nat
             /\ v \in Costs(m, s, a)
  <2>1. Nearer(m, s, a, v) \subseteq Cells(m) BY DEF Nearer
  <2> QED BY <1>n, <2>1, CellsFinite, FS_Subset, FS_CardinalityType DEF CheapestWay
<1> DEFINE P(n) == \A v : CheapestWay(m, s, a, v) /\ Cardinality(Nearer(m, s, a, v)) <= n => v \in f[n]
           E == {n \in Nat : P(n)}
<1>p. ASSUME NEW v, CheapestWay(m, s, a, v), v # <<s, 0>>
      PROVE  \E u : /\ CheapestWay(m, s, a, u) /\ StepsTo(m, a, u, v)
                    /\ Cardinality(Nearer(m, s, a, u)) < Cardinality(Nearer(m, s, a, v))
  <2>1. PICK u : CheapestWay(m, s, a, u) /\ StepsTo(m, a, u, v) /\ u[2] < v[2]
    BY <1>0, <1>p, CheapestStep
  <2>2. u[1] \in Cells(m) /\ u[2] \in Nat /\ v[2] \in Nat
    BY <1>p, <2>1, <1>n, WayEnds
  <2>3. u[1] \in Nearer(m, s, a, v) /\ u[1] \notin Nearer(m, s, a, u)
    <3>1. u \in Costs(m, s, a) BY <2>1, <1>n
    <3>2. \A x \in Costs(m, s, a) : x[1] = u[1] => ~(x[2] < u[2])
      <4>1. \A x \in Costs(m, s, a) : x[2] \in Nat BY WayEnds
      <4>2. \A x \in Costs(m, s, a) : x[1] = u[1] => u[2] <= x[2] BY <2>1 DEF CheapestWay
      <4> QED BY <2>2, <4>1, <4>2
    <3> QED BY <2>1, <2>2, <3>1, <3>2 DEF Nearer
  <2>4. Nearer(m, s, a, u) \subseteq Nearer(m, s, a, v)
    <3> SUFFICES ASSUME NEW x \in Cells(m), NEW w \in Costs(m, s, a), w[1] = x, w[2] < u[2]
                 PROVE  w[2] < v[2]
      BY DEF Nearer
    <3>1. w[2] \in Nat BY WayEnds
    <3> QED BY <2>1, <2>2, <3>1
  <2>5. Cardinality(Nearer(m, s, a, u)) < Cardinality(Nearer(m, s, a, v))
    <3>1. IsFiniteSet(Nearer(m, s, a, v)) /\ Nearer(m, s, a, u) # Nearer(m, s, a, v)
      BY <1>n, <1>p, <2>3
    <3>2. Cardinality(Nearer(m, s, a, u)) \in Nat /\ Cardinality(Nearer(m, s, a, v)) \in Nat
      BY <1>n, <1>p, <2>1
    <3>3. /\ Cardinality(Nearer(m, s, a, u)) <= Cardinality(Nearer(m, s, a, v))
          /\ Cardinality(Nearer(m, s, a, u)) # Cardinality(Nearer(m, s, a, v))
      BY <2>4, <3>1, FS_Subset
    <3> QED BY <3>2, <3>3
  <2> QED BY <2>1, <2>5
<1>1. 0 \in E
  <2> SUFFICES ASSUME NEW v, CheapestWay(m, s, a, v), Cardinality(Nearer(m, s, a, v)) <= 0
               PROVE  v \in f[0]
    OBVIOUS
  <2>1. f[0] = {<<s, 0>>} BY DEF Rounds
  <2>2. CASE v # <<s, 0>>
    <3>1. PICK u : CheapestWay(m, s, a, u) /\ Cardinality(Nearer(m, s, a, u)) < Cardinality(Nearer(m, s, a, v))
      BY <1>p, <2>2
    <3>2. Cardinality(Nearer(m, s, a, u)) \in Nat /\ Cardinality(Nearer(m, s, a, v)) \in Nat
      BY <1>n, <3>1
    <3> QED BY <3>1, <3>2
  <2> QED BY <2>1, <2>2
<1>2. ASSUME NEW n \in Nat, n \in E PROVE n + 1 \in E
  <2> SUFFICES ASSUME NEW v, CheapestWay(m, s, a, v), Cardinality(Nearer(m, s, a, v)) <= n + 1
               PROVE  v \in f[n + 1]
    OBVIOUS
  <2>n. P(n) BY <1>2
  <2>1. CASE v = <<s, 0>>
    <3>1. \A x \in Costs(m, s, a) : x[2] \in Nat BY WayEnds
    <3>2. Nearer(m, s, a, v) = {} BY <2>1, <3>1 DEF Nearer
    <3>3. Cardinality(Nearer(m, s, a, v)) <= n BY <3>2, FS_EmptySet
    <3>4. v \in f[n] BY <2>n, <3>3
    <3> HIDE DEF P
    <3> QED BY <1>0, <3>4, RoundFinds
  <2>2. CASE v # <<s, 0>>
    <3>1. PICK u : /\ CheapestWay(m, s, a, u) /\ StepsTo(m, a, u, v)
                   /\ Cardinality(Nearer(m, s, a, u)) < Cardinality(Nearer(m, s, a, v))
      BY <1>p, <2>2
    <3>2. Cardinality(Nearer(m, s, a, u)) \in Nat /\ Cardinality(Nearer(m, s, a, v)) \in Nat
      BY <1>n, <3>1
    <3>3. Cardinality(Nearer(m, s, a, u)) <= n BY <3>1, <3>2
    <3>4. u \in f[n] BY <2>n, <3>1, <3>3
    <3> HIDE DEF P
    <3> QED BY <1>0, <3>1, <3>4, RoundFinds
  <2> QED BY <2>1, <2>2
<1> HIDE DEF E
<1>3. Nat \subseteq E BY <1>1, <1>2, AllNat
<1> QED BY <1>3 DEF E

(* The reference is right: it is the cheapest ways, and nothing else.        *)
LEMMA WaysAreCheapest ==
  ASSUME NEW m \in Maps, NEW s \in Cells(m), NEW a
  PROVE  \A v : v \in Ways(m, s, a) <=> CheapestWay(m, s, a, v)
<1> DEFINE N == Cardinality(Cells(m))
<1>0. s \in Nat \X Nat BY CellsNat
<1>1. PICK f : Rounds(m, s, a, f) /\ Ways(m, s, a) = f[N]
  BY <1>0, WaysAreRounds
<1>2. N \in Nat /\ N # 0 /\ IsFiniteSet(Cells(m))
  BY CellsFinite, FS_EmptySet
<1> HIDE DEF N
<1>3. ASSUME NEW v, CheapestWay(m, s, a, v) PROVE v \in f[N]
  <2>1. Nearer(m, s, a, v) \subseteq Cells(m) BY DEF Nearer
  <2>2. Cardinality(Nearer(m, s, a, v)) <= N BY <1>2, <2>1, FS_Subset DEF N
  <2> QED BY <1>1, <1>2, <1>3, <2>2, RoundsFindAll
<1>4. ASSUME NEW v \in f[N] PROVE CheapestWay(m, s, a, v)
  <2>1. N - 1 \in Nat /\ (N - 1) + 1 = N BY <1>2
  <2>2. f[N] = Relaxed(m, a, f[N - 1]) /\ f[N - 1] \subseteq Pairs
    BY <1>1, <2>1 DEF Rounds
  <2>3. \A o \in f[N] : o[1] = v[1] => v[2] <= o[2]
    BY <2>2, Round
  <2>4. v \in Costs(m, s, a) BY <1>0, <1>1, <1>2, RoundsAreWays
  <2>5. PICK u : CheapestWay(m, s, a, u) /\ u[1] = v[1] BY <1>0, <2>4, CheapestExists
  <2>6. v[2] <= u[2] BY <2>3, <2>5, <1>3
  <2>7. \A x \in Costs(m, s, a) : x[2] \in Nat BY WayEnds
  <2>8. \A x \in Costs(m, s, a) : x[1] = v[1] => v[2] <= x[2]
    BY <2>4, <2>5, <2>6, <2>7 DEF CheapestWay
  <2> QED BY <2>4, <2>8 DEF CheapestWay
<1> QED BY <1>1, <1>3, <1>4

(* The octile distance never falls by more than the step costs.              *)
LEMMA OctileType ==
  ASSUME NEW x \in Nat \X Nat, NEW t \in Nat \X Nat
  PROVE  Octile(x, t) \in Nat
<1>1. Distance(x[1], t[1]) \in Nat /\ Distance(x[2], t[2]) \in Nat BY DEF Distance
<1> QED BY <1>1 DEF Octile

LEMMA OctileConsistent ==
  ASSUME NEW x \in Nat \X Nat, NEW y \in Nat \X Nat, NEW t \in Nat \X Nat, Adjacent(x, y)
  PROVE  Octile(x, t) <= StepCost(x, y) + Octile(y, t)
<1> DEFINE a == Distance(x[1], t[1])
           b == Distance(x[2], t[2])
           c == Distance(y[1], t[1])
           d == Distance(y[2], t[2])
           u == Distance(x[1], y[1])
           v == Distance(x[2], y[2])
<1>1. /\ a \in Nat /\ b \in Nat /\ c \in Nat /\ d \in Nat /\ u \in {0, 1} /\ v \in {0, 1}
      /\ a <= c + u /\ b <= d + v /\ u + v >= 1
  <2>1. x[1] \in Nat /\ x[2] \in Nat /\ y[1] \in Nat /\ y[2] \in Nat /\ t[1] \in Nat /\ t[2] \in Nat
    OBVIOUS
  <2>2. x[1] # y[1] \/ x[2] # y[2] BY DEF Adjacent
  <2>3. Distance(x[1], y[1]) <= 1 /\ Distance(x[2], y[2]) <= 1 BY DEF Adjacent
  <2>4. \A p, q, r \in Nat : /\ Distance(p, q) \in Nat /\ Distance(p, r) <= Distance(q, r) + Distance(p, q)
                             /\ (p # q => Distance(p, q) >= 1)
    BY DEF Distance
  <2>5. a <= c + u /\ b <= d + v
    BY <2>1, <2>4
  <2>6. a \in Nat /\ b \in Nat /\ c \in Nat /\ d \in Nat /\ u \in Nat /\ v \in Nat
    BY <2>1, <2>4
  <2>7. u >= 1 \/ v >= 1
    BY <2>1, <2>2, <2>4
  <2>8. u <= 1 /\ v <= 1
    BY <2>3
  <2> HIDE DEF a, b, c, d, u, v
  <2> QED BY <2>5, <2>6, <2>7, <2>8
<1>2. StepCost(x, y) = IF u = 1 /\ v = 1 THEN 14 ELSE 10
  BY DEF StepCost
<1>3. /\ Octile(x, t) = IF a < b THEN 14 * a + 10 * (b - a) ELSE 14 * b + 10 * (a - b)
      /\ Octile(y, t) = IF c < d THEN 14 * c + 10 * (d - c) ELSE 14 * d + 10 * (c - d)
  BY DEF Octile
<1> HIDE DEF a, b, c, d, u, v
<1>4. CASE u = 1 /\ v = 1 BY <1>1, <1>2, <1>3, <1>4
<1>5. CASE u = 0 /\ v = 1 BY <1>1, <1>2, <1>3, <1>5
<1>6. CASE u = 1 /\ v = 0 BY <1>1, <1>2, <1>3, <1>6
<1> QED BY <1>1, <1>4, <1>5, <1>6

----------------------------------------------------------------------------
(* Costs along a path, of which Length is the last.                          *)
Along(p, L) == /\ L \in [1..Len(p) -> Nat] /\ L[1] = 0
               /\ \A i \in 1..(Len(p) - 1) : L[i + 1] = L[i] + StepCost(p[i], p[i + 1])

LEMMA LengthAlong ==
  ASSUME NEW p \in Seq(Nat \X Nat), p # <<>>
  PROVE  \E L : Along(p, L) /\ Length(p) = L[Len(p)]
<1> DEFINE n == Len(p)
           C == CHOOSE L : L = [i \in 1..Len(p) |-> IF i = 1 THEN 0 ELSE L[i - 1] + StepCost(p[i - 1], p[i])]
<1>0. n \in Nat \ {0} OBVIOUS
<1>1. PICK T \in [Nat \X Nat -> Nat] :
        \A x \in Nat \X Nat : T[x] = x[2] + StepCost(p[x[1] + 1], p[x[1] + 2])
  <2> DEFINE t == [x \in Nat \X Nat |-> x[2] + StepCost(p[x[1] + 1], p[x[1] + 2])]
  <2>1. \A x \in Nat \X Nat : x[2] + StepCost(p[x[1] + 1], p[x[1] + 2]) \in Nat
    <3> TAKE x \in Nat \X Nat
    <3>1. StepCost(p[x[1] + 1], p[x[1] + 2]) \in {10, 14} BY StepCostType
    <3> HIDE DEF n
    <3> QED BY <3>1
  <2>2. t \in [Nat \X Nat -> Nat] BY <2>1
  <2> QED BY <2>2
<1>2a. PICK X : X = Nat OBVIOUS
<1>2. PICK z \in X : X = Nat /\ z = 0 BY <1>2a
<1>3. T \in [Nat \X X -> X] BY <1>2
<1>4. PICK f : Iter(f, X, z, T) BY <1>3, Iterates, Zenon
<1>5. /\ f \in [Nat -> Nat] /\ f[0] = 0
      /\ \A i \in Nat : f[i + 1] = f[i] + StepCost(p[i + 1], p[i + 2])
  <2>1. f \in [Nat -> Nat] /\ f[0] = 0 /\ \A i \in Nat : f[i + 1] = T[<<i, f[i]>>]
    BY <1>2, <1>4 DEF Iter
  <2>2. ASSUME NEW i \in Nat PROVE f[i + 1] = f[i] + StepCost(p[i + 1], p[i + 2])
    <3> DEFINE x == <<i, f[i]>>
    <3>1. x \in Nat \X Nat /\ x[1] = i /\ x[2] = f[i] BY <2>1
    <3> HIDE DEF x
    <3>2. T[x] = x[2] + StepCost(p[x[1] + 1], p[x[1] + 2]) BY <1>1, <3>1
    <3>3. f[i + 1] = T[x] BY <2>1 DEF x
    <3> QED BY <3>1, <3>2, <3>3
  <2> QED BY <2>1, <2>2
<1> DEFINE K == [i \in 1..n |-> f[i - 1]]
<1>6. K = [i \in 1..n |-> IF i = 1 THEN 0 ELSE K[i - 1] + StepCost(p[i - 1], p[i])]
  <2>1. ASSUME NEW i \in 1..n PROVE f[i - 1] = IF i = 1 THEN 0 ELSE f[i - 2] + StepCost(p[i - 1], p[i])
    <3>1. CASE i = 1 BY <3>1, <1>5
    <3>2. CASE i # 1
      <4>1. i - 2 \in Nat /\ (i - 2) + 1 = i - 1 /\ (i - 2) + 2 = i BY <3>2
      <4>2. f[(i - 2) + 1] = f[i - 2] + StepCost(p[(i - 2) + 1], p[(i - 2) + 2])
        BY <4>1, <1>5
      <4> QED BY <3>2, <4>1, <4>2
    <3> QED BY <3>1, <3>2
  <2>2. ASSUME NEW i \in 1..n, i # 1 PROVE K[i - 1] = f[i - 2]
    <3>1. i - 1 \in 1..n /\ (i - 1) - 1 = i - 2 BY <1>0, <2>2
    <3> HIDE DEF n
    <3> QED BY <3>1
  <2>3. \A i \in 1..n : f[i - 1] = IF i = 1 THEN 0 ELSE K[i - 1] + StepCost(p[i - 1], p[i])
    BY <2>1, <2>2
  <2>4. K = [i \in 1..n |-> f[i - 1]] OBVIOUS
  <2> HIDE DEF K, n
  <2> QED BY <2>3, <2>4
<1> HIDE DEF K
<1>7. C = [i \in 1..Len(p) |-> IF i = 1 THEN 0 ELSE C[i - 1] + StepCost(p[i - 1], p[i])]
  BY <1>6
<1>8. Length(p) = C[Len(p)] BY DEF Length
<1> HIDE DEF C
<1>c. \A i \in 1..n : C[i] = IF i = 1 THEN 0 ELSE C[i - 1] + StepCost(p[i - 1], p[i])
  BY <1>7
<1>9. \A i \in 1..(n - 1) : C[i + 1] = C[i] + StepCost(p[i], p[i + 1])
  <2> TAKE i \in 1..(n - 1)
  <2>1. i + 1 \in 1..n /\ i + 1 # 1 /\ (i + 1) - 1 = i BY <1>0
  <2> HIDE DEF n
  <2> QED BY <1>c, <2>1
<1>10. \A i \in 1..n : C[i] \in Nat
  <2> DEFINE E == {i \in Nat : i + 1 \in 1..n => C[i + 1] \in Nat}
  <2>1. 0 \in E BY <1>0, <1>c
  <2>2. ASSUME NEW i \in Nat, i \in E PROVE i + 1 \in E
    <3> SUFFICES ASSUME (i + 1) + 1 \in 1..n PROVE C[(i + 1) + 1] \in Nat
      OBVIOUS
    <3>1. i + 1 \in 1..(n - 1) /\ i + 1 \in 1..n BY <1>0
    <3>2. C[i + 1] \in Nat BY <2>2, <3>1
    <3>3. StepCost(p[i + 1], p[(i + 1) + 1]) \in {10, 14} BY StepCostType
    <3>4. C[(i + 1) + 1] = C[i + 1] + StepCost(p[i + 1], p[(i + 1) + 1]) BY <1>9, <3>1
    <3>5. \A x \in Nat, y \in {10, 14} : x + y \in Nat OBVIOUS
    <3> HIDE DEF E, n
    <3> QED BY <3>2, <3>3, <3>4, <3>5
  <2> HIDE DEF E
  <2>3. Nat \subseteq E BY <2>1, <2>2, AllNat
  <2>4. \A i \in 1..n : i - 1 \in Nat /\ (i - 1) + 1 = i BY <1>0
  <2> QED BY <2>3, <2>4 DEF E
<1>11. Along(p, C)
  <2>1. C \in [1..n -> Nat]
    <3>1. DOMAIN C = 1..n /\ C = [i \in DOMAIN C |-> C[i]]
      <4> HIDE DEF n
      <4> QED BY <1>7 DEF n
    <3> HIDE DEF n
    <3> QED BY <3>1, <1>10
  <2>2. C[1] = 0 BY <1>0, <1>c
  <2> QED BY <1>9, <2>1, <2>2 DEF Along
<1> QED BY <1>8, <1>11

(* The length of a path of one cell, and of one with a cell before it.       *)
LEMMA LengthOne ==
  ASSUME NEW c \in Nat \X Nat PROVE Length(<<c>>) = 0
<1>1. <<c>> \in Seq(Nat \X Nat) /\ <<c>> # <<>> /\ Len(<<c>>) = 1 OBVIOUS
<1>2. PICK L : Along(<<c>>, L) /\ Length(<<c>>) = L[Len(<<c>>)] BY <1>1, LengthAlong
<1> QED BY <1>1, <1>2 DEF Along

LEMMA LengthPrepended ==
  ASSUME NEW p \in Seq(Nat \X Nat), p # <<>>, NEW c \in Nat \X Nat
  PROVE  Length(<<c>> \o p) = StepCost(c, p[1]) + Length(p) /\ Length(p) \in Nat
<1> DEFINE q == <<c>> \o p
           n == Len(p)
<1>0. /\ q \in Seq(Nat \X Nat) /\ q # <<>> /\ Len(q) = n + 1 /\ n \in Nat \ {0}
      /\ q[1] = c /\ \A i \in 1..n : q[i + 1] = p[i]
  OBVIOUS
<1>1. PICK L : Along(p, L) /\ Length(p) = L[n] BY LengthAlong
<1>2. PICK K : Along(q, K) /\ Length(q) = K[n + 1]
  <2>1. PICK K : Along(q, K) /\ Length(q) = K[Len(q)]
    <3> HIDE DEF q
    <3> QED BY <1>0, LengthAlong
  <2> HIDE DEF q, n
  <2> QED BY <1>0, <2>1
<1>3. /\ L[1] = 0 /\ \A i \in 1..(n - 1) : L[i + 1] = L[i] + StepCost(p[i], p[i + 1])
      /\ \A i \in 1..n : L[i] \in Nat
  BY <1>1 DEF Along
<1>4. K[1] = 0 /\ \A i \in 1..n : K[i + 1] = K[i] + StepCost(q[i], q[i + 1])
  <2>1. (n + 1) - 1 = n BY <1>0
  <2> HIDE DEF q, n
  <2> QED BY <1>0, <1>2, <2>1 DEF Along
<1> HIDE DEF q, n
<1> DEFINE s == StepCost(c, p[1])
           E == {i \in Nat : i + 1 \in 1..n => K[(i + 1) + 1] = s + L[i + 1]}
<1>5. s \in {10, 14} BY StepCostType
<1>6. 0 \in E
  <2>1. 1 \in 1..n BY <1>0
  <2>2. K[1 + 1] = K[1] + StepCost(q[1], q[1 + 1]) BY <1>4, <2>1
  <2>3. q[1 + 1] = p[1] /\ q[1] = c BY <1>0, <2>1
  <2>4. K[1] = 0 /\ L[1] = 0 BY <1>3, <1>4
  <2>5. K[1 + 1] = s + L[1] BY <1>5, <2>2, <2>3, <2>4
  <2> QED BY <2>5
<1>7. ASSUME NEW i \in Nat, i \in E PROVE i + 1 \in E
  <2> SUFFICES ASSUME (i + 1) + 1 \in 1..n PROVE K[((i + 1) + 1) + 1] = s + L[(i + 1) + 1]
    OBVIOUS
  <2>1. i + 1 \in 1..(n - 1) /\ i + 1 \in 1..n BY <1>0
  <2>2. K[(i + 1) + 1] = s + L[i + 1] BY <1>7, <2>1
  <2>3. K[((i + 1) + 1) + 1] = K[(i + 1) + 1] + StepCost(q[(i + 1) + 1], q[((i + 1) + 1) + 1])
    BY <1>4
  <2>4. q[(i + 1) + 1] = p[i + 1] /\ q[((i + 1) + 1) + 1] = p[(i + 1) + 1]
    BY <1>0, <2>1
  <2>5. L[(i + 1) + 1] = L[i + 1] + StepCost(p[i + 1], p[(i + 1) + 1]) BY <1>3, <2>1
  <2>6. L[i + 1] \in Nat /\ StepCost(p[i + 1], p[(i + 1) + 1]) \in {10, 14}
    BY <1>3, <2>1, StepCostType
  <2>7. \A x, y \in Nat, z \in {10, 14} : (x + y) + z = x + (y + z)
    OBVIOUS
  <2>8. s \in Nat
    BY <1>5
  <2> HIDE DEF s
  <2>9. K[((i + 1) + 1) + 1] = s + L[(i + 1) + 1]
    BY <2>2, <2>3, <2>4, <2>5, <2>6, <2>7, <2>8
  <2> QED BY <2>9
<1> HIDE DEF E
<1>8. Nat \subseteq E BY <1>6, <1>7, AllNat
<1>9. K[n + 1] = s + L[n]
  <2>1. n - 1 \in E /\ (n - 1) + 1 = n /\ n \in 1..n BY <1>0, <1>8
  <2> HIDE DEF s
  <2> QED BY <2>1 DEF E
<1> QED BY <1>0, <1>1, <1>2, <1>3, <1>9 DEF q, n

----------------------------------------------------------------------------
(* The reference and the answers.                                            *)
LEMMA FreeIsCell == ASSUME NEW m, NEW c, NEW a, ~Blocked(m, c, a) PROVE c \in Cells(m)
BY DEF Blocked

\* No answer is the right one where no way leads.
LEMMA NoWayIsRight ==
  ASSUME NEW m \in Maps, NEW k \in (Nat \X Nat) \X (Nat \X Nat) \X BOOLEAN,
         ~Blocked(m, k[1], k[3]), \A v \in Costs(m, k[1], k[3]) : v[1] # k[2]
  PROVE  Right(m, k, NoPath)
<1>1. \A v \in Ways(m, k[1], k[3]) : v[1] # k[2]
  BY FreeIsCell, WaysAreCheapest DEF CheapestWay
<1> QED BY <1>1 DEF Right

\* A path that joins the ends at the cost of a cheapest way is the right one.
LEMMA CheapestIsRight ==
  ASSUME NEW m \in Maps, NEW k \in (Nat \X Nat) \X (Nat \X Nat) \X BOOLEAN,
         ~Blocked(m, k[1], k[3]), ~Blocked(m, k[2], k[3]),
         NEW p, p # NoPath, Joins(m, k, p), CheapestWay(m, k[1], k[3], <<k[2], Length(p)>>)
  PROVE  Right(m, k, p)
<1> DEFINE v == <<k[2], Length(p)>>
<1>1. v \in Ways(m, k[1], k[3])
  BY FreeIsCell, WaysAreCheapest
<1>2. v[1] = k[2] /\ v[2] = Length(p) OBVIOUS
<1> HIDE DEF v
<1>3. Length(p) \in {x[2] : x \in {y \in Ways(m, k[1], k[3]) : y[1] = k[2]}}
  BY <1>1, <1>2
<1> QED BY <1>3 DEF Right

----------------------------------------------------------------------------
(* The inductive invariant of the search. The cost of a cell found is that   *)
(* of a way to it; a closed cell's is the cheapest, and its neighbours know  *)
(* of it; every cell found and not closed waits on the open list with its    *)
(* cost; and the path under reconstruction lacks the cost of its first cell. *)
SearchInv ==
  /\ ~Blocked(map, To, Access) /\ From # To
  /\ DOMAIN gScore = Found /\ gScore[From] = 0 /\ From \notin DOMAIN cameFrom
  /\ \A c \in Found : <<c, gScore[c]>> \in Costs(map, From, Access)
  /\ \A c \in DOMAIN cameFrom : /\ cameFrom[c] \in closed
                                /\ gScore[c] = gScore[cameFrom[c]] + StepCost(cameFrom[c], c)
  /\ \A n \in open : n.g \in Nat /\ n.g >= gScore[n.c] /\ n.h = Octile(n.c, To)
  /\ closed \subseteq Found /\ To \notin closed
  /\ \A c \in closed : /\ CheapestWay(map, From, Access, <<c, gScore[c]>>)
                       /\ \A x \in Cells(map) : Legal(map, c, x, Access) =>
                                   x \in Found /\ gScore[x] <= gScore[c] + StepCost(c, x)
WaitInv == \A c \in Found \ closed : \E n \in open : n.c = c /\ n.g = gScore[c]
TraceInv == /\ CheapestWay(map, From, Access, <<To, gScore[To]>>)
            /\ Length(path) + gScore[path[1]] = gScore[To]
RightInv ==
  /\ phase \in {"searching", "retracing"} => SearchInv
  /\ phase = "searching" => WaitInv
  /\ phase = "retracing" => TraceInv
  /\ ~kept => \A k \in DOMAIN cache : Right(map, k, cache[k])
  /\ AnswersRight

(* The cells of the query and the cells found are on the map.                *)
LEMMA Typed ==
  ASSUME PathIInv
  PROVE  /\ map \in Maps /\ From \in Nat \X Nat /\ To \in Nat \X Nat /\ Access \in BOOLEAN
         /\ key \in (Nat \X Nat) \X (Nat \X Nat) \X BOOLEAN
         /\ phase \in {"searching", "retracing"} => From \in Cells(map) /\ Found \subseteq Nat \X Nat
<1>1. /\ map \in Maps /\ From \in Nat \X Nat /\ To \in Nat \X Nat /\ Access \in BOOLEAN
      /\ key \in (Nat \X Nat) \X (Nat \X Nat) \X BOOLEAN
  BY DEF PathIInv, PathTypeOK, From, To, Access
<1>2. ASSUME phase \in {"searching", "retracing"} PROVE From \in Cells(map) /\ Found \subseteq Nat \X Nat
  <2>1. From \in Cells(map)
    BY <1>2, FreeIsCell DEF PathIInv
  <2>2. \A c \in DOMAIN cameFrom : c \in Cells(map)
    BY <1>2, LegalEnds DEF PathIInv
  <2> QED BY <1>1, <2>1, <2>2, CellsNat DEF Found
<1> QED BY <1>1, <1>2

\* The cost of a cell found.
LEMMA Scored ==
  ASSUME PathIInv, SearchInv, phase \in {"searching", "retracing"}
  PROVE  \A c \in Found : gScore[c] \in Nat
<1> TAKE c \in Found
<1>1. <<c, gScore[c]>> \in Pairs
  BY Typed, CostsClosed DEF SearchInv
<1> QED BY <1>1 DEF Pairs

\* No way to a cell is cheaper than the search knows: the cell is closed at
\* that cost, or a node of the open list promises no more.
LEMMA LowerBound ==
  ASSUME PathIInv, SearchInv, WaitInv, phase = "searching", NEW v \in Costs(map, From, Access)
  PROVE  \/ v[1] \in closed /\ gScore[v[1]] <= v[2]
         \/ \E o \in open : o.g + o.h <= v[2] + Octile(v[1], To)
<1> DEFINE W == Costs(map, From, Access)
           Shut(u) == u[1] \in closed /\ gScore[u[1]] <= u[2]
           Waits(u) == \E o \in open : o.g + o.h <= u[2] + Octile(u[1], To)
           S == {u \in Pairs : Shut(u) \/ Waits(u)}
<1>t. /\ From \in Nat \X Nat /\ To \in Nat \X Nat /\ map \in Maps /\ Found \subseteq Nat \X Nat
      /\ W \subseteq Pairs /\ <<From, 0>> \in W
  BY Typed, CostsClosed
<1>g. \A c \in Found : gScore[c] \in Nat
  BY Scored
<1>o. \A o \in open : /\ o.g \in Nat /\ o.c \in Found /\ o.h = Octile(o.c, To) /\ o.h \in Nat
  <2>1. \A o \in open : o.g \in Nat /\ o.h = Octile(o.c, To)
    BY DEF SearchInv
  <2>2. \A o \in open : o.c \in Found
    BY DEF PathIInv
  <2>3. \A x \in Nat \X Nat : Octile(x, To) \in Nat
    BY <1>t, OctileType
  <2> QED BY <1>t, <2>1, <2>2, <2>3
<1>1. ASSUME NEW u \in W, u[1] \in Found, gScore[u[1]] <= u[2] PROVE Shut(u) \/ Waits(u)
  <2>1. u[2] \in Nat /\ u[1] \in Nat \X Nat
    BY <1>t, PairType
  <2>2. CASE u[1] \in closed
    BY <2>2, <1>1
  <2>3. CASE u[1] \notin closed
    <3>1. PICK o \in open : o.c = u[1] /\ o.g = gScore[u[1]]
      BY <2>3, <1>1 DEF WaitInv
    <3>2. o.g \in Nat /\ o.h = Octile(u[1], To) /\ o.h \in Nat /\ gScore[u[1]] \in Nat
      BY <3>1, <1>o, <1>g, <1>1
    <3>3. o.g + o.h <= u[2] + Octile(u[1], To)
      BY <3>1, <3>2, <2>1, <1>1
    <3> QED BY <3>3
  <2> QED BY <2>2, <2>3
<1>2. <<From, 0>> \in S
  <2> DEFINE u == <<From, 0>>
  <2>1. u \in W /\ u[1] = From /\ u[2] = 0 /\ u \in Pairs
    BY <1>t
  <2>2. From \in Found /\ gScore[From] <= 0
    BY DEF Found, SearchInv
  <2> HIDE DEF u
  <2>3. Shut(u) \/ Waits(u)
    BY <1>1, <2>1, <2>2
  <2> QED BY <2>1, <2>3 DEF u
<1>3. ASSUME NEW u \in W \cap S, NEW w \in W, StepsTo(map, Access, u, w)
      PROVE  w \in S
  <2>0. /\ w \in Pairs /\ u[1] \in Nat \X Nat /\ u[2] \in Nat /\ w[1] \in Nat \X Nat /\ w[2] \in Nat
        /\ Legal(map, u[1], w[1], Access) /\ Adjacent(u[1], w[1]) /\ w[2] = u[2] + StepCost(u[1], w[1])
        /\ StepCost(u[1], w[1]) \in Nat /\ w[1] \in Cells(map)
    BY <1>3, <1>t, PairType, StepCostType DEF StepsTo, Legal
  <2>1. CASE Shut(u)
    <3>1. /\ w[1] \in Found /\ gScore[w[1]] <= gScore[u[1]] + StepCost(u[1], w[1])
          /\ u[1] \in Found
      BY <2>0, <2>1 DEF SearchInv
    <3>2. gScore[w[1]] <= w[2]
      BY <2>0, <2>1, <3>1, <1>g
    <3> QED BY <1>1, <2>0, <3>1, <3>2
  <2>2. CASE Waits(u)
    <3>1. PICK o \in open : o.g + o.h <= u[2] + Octile(u[1], To)
      BY <2>2
    <3>2. Octile(u[1], To) <= StepCost(u[1], w[1]) + Octile(w[1], To)
      BY <2>0, <1>t, OctileConsistent
    <3>3. Octile(u[1], To) \in Nat /\ Octile(w[1], To) \in Nat
      BY <2>0, <1>t, OctileType
    <3>4. o.g + o.h <= w[2] + Octile(w[1], To)
      BY <3>1, <3>2, <3>3, <2>0, <1>o
    <3> QED BY <3>4, <2>0
  <2> QED BY <2>1, <2>2, <1>3
<1> HIDE DEF S, W
<1>4. W \subseteq S
  BY <1>t, <1>2, <1>3, CostsLeast DEF W
<1> QED BY <1>4 DEF W, S

\* A best node of an open cell carries the cost of a cheapest way.
LEMMA PoppedIsCheapest ==
  ASSUME PathIInv, SearchInv, WaitInv, phase = "searching", NEW n \in Best(open), n.c \notin closed
  PROVE  n.g = gScore[n.c] /\ CheapestWay(map, From, Access, <<n.c, n.g>>)
<1> DEFINE W == Costs(map, From, Access)
<1>1. /\ n \in open /\ n.c \in Found /\ n.g \in Nat /\ n.g >= gScore[n.c]
      /\ n.h = Octile(n.c, To) /\ n.h \in Nat
      /\ \A o \in open : o.g \in Nat /\ o.h \in Nat
  <2>1. \A o \in open : /\ o.c \in Found /\ o.g \in Nat /\ o.g >= gScore[o.c] /\ o.h = Octile(o.c, To)
    BY DEF SearchInv, PathIInv
  <2>2. \A o \in open : o.h \in Nat
    BY <2>1, Typed, OctileType
  <2>3. n \in open
    BY DEF Best
  <2> QED BY <2>1, <2>2, <2>3
<1>2. gScore[n.c] \in Nat /\ <<n.c, gScore[n.c]>> \in W /\ W \subseteq Pairs
  BY <1>1, Scored, Typed, CostsClosed DEF SearchInv
<1>3. ASSUME NEW u \in W, u[1] = n.c PROVE n.g <= u[2]
  <2>1. u[2] \in Nat
    BY <1>2, PairType
  <2>2. PICK o \in open : o.g + o.h <= u[2] + Octile(n.c, To)
    BY <1>3, LowerBound
  <2>3. ~Before(o, n)
    BY DEF Best
  <2>4. n.g + n.h <= o.g + o.h
    BY <1>1, <2>3 DEF Before
  <2> QED BY <1>1, <2>1, <2>2, <2>4
<1>4. n.g <= gScore[n.c]
  <2> DEFINE u == <<n.c, gScore[n.c]>>
  <2>1. u \in W /\ u[1] = n.c /\ u[2] = gScore[n.c] BY <1>2
  <2> HIDE DEF u, W
  <2> QED BY <1>3, <2>1
<1>5. n.g = gScore[n.c] BY <1>1, <1>2, <1>4
<1> QED
  <2> DEFINE u == <<n.c, n.g>>
  <2>1. u \in W /\ u[1] = n.c /\ u[2] = n.g BY <1>2, <1>5
  <2>2. CheapestWay(map, From, Access, u)
    <3> HIDE DEF u
    <3> QED BY <1>3, <2>1 DEF CheapestWay
  <2> QED BY <1>5, <2>2

\* An answer that is right keeps the invariant.
LEMMA AnswerRight ==
  ASSUME RightInv, NEW p, Answer(p), cache' = cache \/ Caches(key', p),
         ~kept => Right(map, key', p)
  PROVE  RightInv'
<1>1. phase' = "done" /\ path' = p /\ map' = map /\ kept' = kept
  BY DEF Answer
<1>2. AnswersRight'
  BY <1>1 DEF AnswersRight
<1>3. ASSUME NEW k \in DOMAIN cache', ~kept
      PROVE  Right(map, k, cache'[k])
  <2>1. CASE cache' = cache
    BY <2>1, <1>3 DEF RightInv
  <2>2. CASE Caches(key', p)
    <3>1. CASE k = key'
      BY <2>2, <3>1, <1>3 DEF Caches
    <3>2. CASE k # key'
      <4>1. k \in DOMAIN cache /\ cache'[k] = cache[k]
        BY <2>2, <3>2 DEF Caches
      <4> QED BY <4>1, <1>3 DEF RightInv
    <3> QED BY <3>1, <3>2
  <2> QED BY <2>1, <2>2
<1> QED BY <1>1, <1>2, <1>3 DEF RightInv

LEMMA RightStarts == ASSUME PathInit PROVE RightInv
<1>1. phase = "idle" /\ DOMAIN cache = {}
  BY DEF PathInit, NoEntries
<1> QED BY <1>1 DEF RightInv, AnswersRight

\* The queries that need no search.
LEMMA TrivialIsRight ==
  ASSUME NEW m \in Maps, NEW k \in (Nat \X Nat) \X (Nat \X Nat) \X BOOLEAN
  PROVE  /\ Blocked(m, k[1], k[3]) \/ Blocked(m, k[2], k[3]) => Right(m, k, NoPath)
         /\ ~Blocked(m, k[1], k[3]) /\ k[1] = k[2] => Right(m, k, <<k[1]>>)
<1>1. ASSUME Blocked(m, k[1], k[3]) \/ Blocked(m, k[2], k[3]) PROVE Right(m, k, NoPath)
  BY <1>1 DEF Right
<1>2. ASSUME ~Blocked(m, k[1], k[3]), k[1] = k[2] PROVE Right(m, k, <<k[1]>>)
  <2> DEFINE p == <<k[1]>>
             v == <<k[2], 0>>
  <2>1. k[1] \in Nat \X Nat /\ k[3] \in BOOLEAN
    OBVIOUS
  <2>2. p \in Seq(Nat \X Nat) /\ p # <<>> /\ p[1] = k[1] /\ p[Len(p)] = k[2] /\ Walkable(m, p, k[3])
    BY <1>2, <2>1, Single
  <2>3. Length(p) = 0
    BY <2>1, LengthOne
  <2>4. CheapestWay(m, k[1], k[3], v)
    <3>1. v \in Costs(m, k[1], k[3]) /\ v[2] = 0
      BY <1>2, <2>1, CostsClosed
    <3>2. \A u \in Costs(m, k[1], k[3]) : u[2] \in Nat
      BY <2>1, CostsClosed, PairType
    <3> HIDE DEF v
    <3> QED BY <3>1, <3>2 DEF CheapestWay
  <2> HIDE DEF p
  <2>5. Joins(m, k, p) /\ p # NoPath
    BY <2>2 DEF Joins, NoPath
  <2> QED BY <1>2, <2>3, <2>4, <2>5, CheapestIsRight DEF p
<1> QED BY <1>1, <1>2

\* A search begins with its start, found at no cost and waiting.
LEMMA SearchBegins ==
  ASSUME PathIInv, RightInv, NEW k \in Queries, AskSearch(k) PROVE RightInv'
<1>1. /\ key' = k /\ map' = map /\ cache' = cache /\ kept' = kept /\ phase' = "searching"
      /\ cameFrom' = [c \in {} |-> c] /\ gScore' = [c \in {k[1]} |-> 0] /\ closed' = {}
      /\ open' = {Node(k[1], 0, k[2])} /\ ~Blocked(map, k[2], k[3]) /\ k[1] # k[2]
  BY DEF AskSearch, Ask
<1>2. From' = k[1] /\ To' = k[2] /\ Access' = k[3] /\ Found' = {k[1]}
  BY <1>1 DEF From, To, Access, Found
<1>3. <<k[1], 0>> \in Costs(map, k[1], k[3])
  BY QueryType, CostsClosed
<1> DEFINE n == Node(k[1], 0, k[2])
<1>4. n.c = k[1] /\ n.g = 0 /\ n.h = Octile(k[1], k[2])
  BY DEF Node
<1> HIDE DEF n
<1>5. open' = {n}
  BY <1>1 DEF n
<1>6. SearchInv'
  <2>1. /\ ~Blocked(map', To', Access') /\ From' # To'
        /\ DOMAIN gScore' = Found' /\ gScore'[From'] = 0 /\ From' \notin DOMAIN cameFrom'
    BY <1>1, <1>2
  <2>2. \A c \in Found' : <<c, gScore'[c]>> \in Costs(map', From', Access')
    BY <1>1, <1>2, <1>3
  <2>3. DOMAIN cameFrom' = {} /\ closed' = {}
    BY <1>1
  <2>4. \A o \in open' : o.g \in Nat /\ o.g >= gScore'[o.c] /\ o.h = Octile(o.c, To')
    <3>1. gScore'[n.c] = 0 /\ n.h = Octile(n.c, To')
      BY <1>1, <1>2, <1>4
    <3>2. n.g \in Nat /\ n.g >= gScore'[n.c]
      BY <1>4, <3>1
    <3> QED BY <1>5, <3>1, <3>2
  <2> QED BY <2>1, <2>2, <2>3, <2>4 DEF SearchInv
<1>7. WaitInv'
  BY <1>1, <1>2, <1>4, <1>5 DEF WaitInv
<1>8. AnswersRight' /\ (~kept => \A e \in DOMAIN cache : Right(map, e, cache[e]))
  BY <1>1 DEF AnswersRight, RightInv
<1> QED BY <1>1, <1>6, <1>7, <1>8 DEF RightInv

\* The open list is empty: the goal has no way.
LEMMA SearchFails == ASSUME PathIInv, RightInv, Exhausted PROVE RightInv'
<1>1. phase = "searching" /\ open = {} /\ key' = key /\ Answer(NoPath) /\ Caches(key', NoPath)
  BY DEF Exhausted
<1>2. SearchInv /\ WaitInv
  BY <1>1 DEF RightInv
<1>3. ASSUME NEW v \in Costs(map, From, Access) PROVE v[1] # To
  <2>1. v[1] \in closed
    BY <1>1, <1>2, <1>3, LowerBound
  <2> QED BY <2>1, <1>2 DEF SearchInv
<1>4. Right(map, key, NoPath)
  BY <1>1, <1>3, Typed, NoWayIsRight DEF PathIInv, From, To, Access
<1> QED BY <1>1, <1>4, AnswerRight

\* The goal is popped: it is the one cell of the path to come.
LEMMA GoalPops ==
  ASSUME PathIInv, RightInv, phase = "searching", NEW n \in Best(open), PopGoal(n) PROVE RightInv'
<1>1. /\ n.c = To /\ phase' = "retracing" /\ path' = <<To>> /\ open' \subseteq open
      /\ UNCHANGED <<map, cache, key, kept, cameFrom, gScore, closed>>
  BY DEF PopGoal
<1>2. SearchInv /\ WaitInv
  BY DEF RightInv
<1>3. From' = From /\ To' = To /\ Access' = Access /\ Found' = Found
  BY <1>1 DEF From, To, Access, Found
<1>4. n.g = gScore[To] /\ CheapestWay(map, From, Access, <<To, gScore[To]>>)
  BY <1>1, <1>2, PoppedIsCheapest DEF SearchInv
<1>5. SearchInv'
  BY <1>1, <1>2, <1>3 DEF SearchInv
<1>6. TraceInv'
  <2>1. Length(path') = 0 /\ path'[1] = To /\ gScore[To] \in Nat
    <3>1. To \in Found
      BY <1>1 DEF Best, PathIInv
    <3> QED BY <1>1, <1>2, <3>1, Typed, LengthOne, Scored
  <2> QED BY <1>1, <1>3, <1>4, <2>1 DEF TraceInv
<1>7. AnswersRight' /\ (~kept => \A e \in DOMAIN cache : Right(map, e, cache[e]))
  BY <1>1 DEF AnswersRight, RightInv
<1> QED BY <1>1, <1>5, <1>6, <1>7 DEF RightInv

\* A node of a closed cell is dropped.
LEMMA ClosedPops ==
  ASSUME PathIInv, RightInv, phase = "searching", NEW n \in Best(open), PopClosed(n) PROVE RightInv'
<1>1. /\ n.c \in closed /\ open' = open \ {n}
      /\ UNCHANGED <<map, cache, key, kept, phase, cameFrom, gScore, closed>>
  BY DEF PopClosed
<1>2. SearchInv /\ WaitInv
  BY DEF RightInv
<1>3. From' = From /\ To' = To /\ Access' = Access /\ Found' = Found
  BY <1>1 DEF From, To, Access, Found
<1>4. SearchInv'
  BY <1>1, <1>2, <1>3 DEF SearchInv
<1>5. WaitInv'
  <2> SUFFICES ASSUME NEW c \in Found \ closed PROVE \E o \in open' : o.c = c /\ o.g = gScore[c]
    BY <1>1, <1>3 DEF WaitInv
  <2>1. PICK o \in open : o.c = c /\ o.g = gScore[c]
    BY <1>2 DEF WaitInv
  <2> QED BY <1>1, <2>1
<1>6. AnswersRight' /\ (~kept => \A e \in DOMAIN cache : Right(map, e, cache[e]))
  BY <1>1 DEF AnswersRight, RightInv
<1> QED BY <1>1, <1>4, <1>5, <1>6 DEF RightInv

\* The path gains a cell, and the cost of the step from it.
LEMMA Retraces == ASSUME PathIInv, RightInv, RetraceStep PROVE RightInv'
<1> DEFINE c == cameFrom[path[1]]
<1>1. /\ phase = "retracing" /\ path[1] # From /\ path' = <<c>> \o path
      /\ UNCHANGED <<map, cache, key, phase, kept, open, cameFrom, gScore, closed>>
  BY DEF RetraceStep, searchVars
<1>2. SearchInv /\ TraceInv
  BY <1>1 DEF RightInv
<1>3. From' = From /\ To' = To /\ Access' = Access /\ Found' = Found
  BY <1>1 DEF From, To, Access, Found
<1>4. SearchInv'
  BY <1>1, <1>2, <1>3 DEF SearchInv
<1>5. path \in Seq(Nat \X Nat) /\ path # <<>> /\ path[1] \in DOMAIN cameFrom /\ path[1] \in Found
  BY <1>1 DEF PathIInv, Found, NoPath
<1>6. c \in Found /\ c \in Nat \X Nat /\ gScore[path[1]] = gScore[c] + StepCost(c, path[1])
  BY <1>1, <1>2, <1>5, Typed DEF SearchInv
<1>7. gScore[c] \in Nat /\ gScore[path[1]] \in Nat
  BY <1>1, <1>2, <1>5, <1>6, Scored
<1> HIDE DEF c
<1>8. /\ path'[1] = c /\ Length(path') = StepCost(c, path[1]) + Length(path) /\ Length(path) \in Nat
      /\ StepCost(c, path[1]) \in {10, 14}
  BY <1>1, <1>5, <1>6, LengthPrepended, StepCostType
<1>9. Length(path') + gScore[c] = gScore[To]
  <2>1. Length(path) + gScore[path[1]] = gScore[To]
    BY <1>2 DEF TraceInv
  <2> QED BY <2>1, <1>6, <1>7, <1>8
<1>10. TraceInv'
  BY <1>1, <1>2, <1>3, <1>8, <1>9 DEF TraceInv
<1>11. AnswersRight' /\ (~kept => \A e \in DOMAIN cache : Right(map, e, cache[e]))
  BY <1>1 DEF AnswersRight, RightInv
<1> QED BY <1>1, <1>4, <1>10, <1>11 DEF RightInv

\* The path is whole, and its length is the cost of a cheapest way.
LEMMA RetraceEnds == ASSUME PathIInv, RightInv, RetraceEnd PROVE RightInv'
<1>1. /\ phase = "retracing" /\ path[1] = From /\ key' = key
      /\ Answer(path) /\ Caches(key', path)
  BY DEF RetraceEnd
<1>2. SearchInv /\ TraceInv
  BY <1>1 DEF RightInv
<1>3. /\ path \in Seq(Nat \X Nat) /\ path # NoPath /\ Joins(map, key, path)
      /\ ~Blocked(map, key[1], key[3]) /\ ~Blocked(map, key[2], key[3])
  BY <1>1, <1>2 DEF PathIInv, SearchInv, Joins, From, To, Access
<1>4. CheapestWay(map, key[1], key[3], <<key[2], Length(path)>>)
  <2>1. Length(path) \in Nat
    <3>1. path # <<>> /\ From \in Nat \X Nat
      BY <1>3, Typed DEF NoPath
    <3> QED BY <1>3, <3>1, LengthPrepended
  <2>2. Length(path) + 0 = gScore[To]
    BY <1>1, <1>2 DEF TraceInv, SearchInv
  <2>3. Length(path) = gScore[To]
    BY <2>1, <2>2
  <2> QED BY <2>3, <1>2 DEF TraceInv, From, To, Access
<1>5. Right(map, key, path)
  BY <1>3, <1>4, Typed, CheapestIsRight
<1> QED BY <1>1, <1>5, AnswerRight

\* A cell is closed, and its neighbours hear of it.
LEMMA Expands ==
  ASSUME PathIInv, RightInv, phase = "searching", NEW n \in Best(open), PopExpand(n) PROVE RightInv'
<1> DEFINE better == Improved(n)
           cost(c) == n.g + StepCost(n.c, c)
           W == Costs(map, From, Access)
<1>1. /\ n.c # To /\ n.c \notin closed /\ closed' = closed \cup {n.c}
      /\ gScore' = [c \in DOMAIN gScore \cup better |-> IF c \in better THEN cost(c) ELSE gScore[c]]
      /\ cameFrom' = [c \in DOMAIN cameFrom \cup better |-> IF c \in better THEN n.c ELSE cameFrom[c]]
      /\ open' = (open \ {n}) \cup {Node(c, cost(c), To) : c \in better}
      /\ UNCHANGED <<map, cache, key, kept, phase>>
  BY DEF PopExpand
<1>2. SearchInv /\ WaitInv
  BY DEF RightInv
<1>3. /\ n.g = gScore[n.c] /\ CheapestWay(map, From, Access, <<n.c, gScore[n.c]>>)
      /\ <<n.c, gScore[n.c]>> \in W
  BY <1>1, <1>2, PoppedIsCheapest DEF CheapestWay
<1>4. From' = From /\ To' = To /\ Access' = Access /\ Found' = Found \cup better
  BY <1>1 DEF From, To, Access, Found
<1>5. /\ n \in open /\ n.c \in Found /\ \A o \in open : o.c \in Found
      /\ \A c \in Found : c \in Nat \X Nat /\ gScore[c] \in Nat
      /\ map \in Maps /\ From \in Nat \X Nat
  <2>1. n \in open /\ \A o \in open : o.c \in Found
    BY DEF Best, PathIInv
  <2> QED BY <2>1, <1>2, Typed, Scored
<1>6. ASSUME NEW c \in better
      PROVE  /\ c \notin closed /\ c # n.c /\ c \in Cells(map) /\ Legal(map, n.c, c, Access)
             /\ c \in Found => cost(c) < gScore[c]
             /\ cost(c) \in Nat /\ cost(c) > gScore[n.c]
  <2>1. n.g \in Nat /\ StepCost(n.c, c) \in {10, 14} /\ n.g = gScore[n.c]
    BY <1>3, <1>5, StepCostType
  <2>2. cost(c) \in Nat /\ cost(c) > gScore[n.c]
    BY <2>1
  <2>3. /\ c \notin closed /\ c # n.c /\ c \in Cells(map) /\ Legal(map, n.c, c, Access)
        /\ c \in DOMAIN gScore => cost(c) < gScore[c]
    BY DEF Improved
  <2>4. DOMAIN gScore = Found
    BY <1>2 DEF SearchInv
  <2> HIDE DEF cost, better
  <2> QED BY <2>2, <2>3, <2>4
<1>7. ASSUME NEW c \in better PROVE <<c, cost(c)>> \in W
  <2> DEFINE u == <<n.c, gScore[n.c]>>
             v == <<c, cost(c)>>
  <2>1. u \in W /\ u[1] = n.c /\ u[2] = n.g
    BY <1>3
  <2>2. v \in Pairs /\ v[1] = c /\ v[2] = n.g + StepCost(n.c, c)
    BY <1>5, <1>6, CellsNat DEF Pairs
  <2> HIDE DEF u, v
  <2>3. StepsTo(map, Access, u, v)
    BY <1>6, <2>1, <2>2 DEF StepsTo
  <2>4. v \in W
    BY <1>5, <2>1, <2>2, <2>3, CostsClosed
  <2> QED BY <2>4 DEF v
<1> HIDE DEF W
<1>8. From \notin better
  <2>1. From \in Found /\ gScore[From] = 0 /\ gScore[n.c] \in Nat
    BY <1>2, <1>5 DEF SearchInv, Found
  <2> HIDE DEF better, cost
  <2>2. ASSUME From \in better PROVE FALSE
    <3>1. cost(From) < 0 /\ cost(From) \in Nat
      BY <1>6, <2>1, <2>2
    <3> QED BY <3>1
  <2> QED BY <2>2
<1>9. /\ DOMAIN gScore' = Found'
      /\ \A c \in better : gScore'[c] = cost(c) /\ cameFrom'[c] = n.c
      /\ \A c \in Found \ better : gScore'[c] = gScore[c]
      /\ DOMAIN cameFrom' = DOMAIN cameFrom \cup better
      /\ \A c \in DOMAIN cameFrom \ better : cameFrom'[c] = cameFrom[c]
  <2>1. DOMAIN gScore = Found
    BY <1>2 DEF SearchInv
  <2> HIDE DEF better, cost
  <2> QED BY <1>1, <1>4, <2>1
<1>10. \A c \in closed' : c \notin better /\ c \in Found
  <2>1. closed \subseteq Found
    BY <1>2 DEF SearchInv
  <2> HIDE DEF better, cost
  <2> QED BY <1>1, <1>5, <1>6, <2>1
<1> HIDE DEF better
<1>11. \A c \in Found : gScore'[c] <= gScore[c] /\ gScore'[c] \in Nat
  <2> TAKE c \in Found
  <2>1. CASE c \in better
    <3>1. gScore'[c] = cost(c) /\ cost(c) < gScore[c] /\ cost(c) \in Nat /\ gScore[c] \in Nat
      BY <1>5, <1>6, <1>9, <2>1
    <3> HIDE DEF cost
    <3> QED BY <3>1
  <2>2. CASE c \notin better
    BY <1>5, <1>9, <2>2
  <2> QED BY <2>1, <2>2
<1>12. /\ ~Blocked(map', To', Access') /\ From' # To' /\ gScore'[From'] = 0
       /\ From' \notin DOMAIN cameFrom'
  <2>1. From \in Found BY DEF Found
  <2> QED BY <1>1, <1>2, <1>4, <1>8, <1>9, <2>1 DEF SearchInv
<1>13. \A c \in Found' : <<c, gScore'[c]>> \in Costs(map', From', Access')
  <2> SUFFICES ASSUME NEW c \in Found' PROVE <<c, gScore'[c]>> \in W
    BY <1>1, <1>4 DEF W
  <2>1. CASE c \in better
    BY <1>7, <1>9, <2>1
  <2>2. CASE c \notin better
    <3>1. c \in Found /\ gScore'[c] = gScore[c]
      BY <1>4, <1>9, <2>2
    <3> QED BY <1>2, <3>1 DEF SearchInv, W
  <2> QED BY <2>1, <2>2
<1>14. ASSUME NEW c \in DOMAIN cameFrom'
       PROVE  /\ cameFrom'[c] \in closed'
              /\ gScore'[c] = gScore'[cameFrom'[c]] + StepCost(cameFrom'[c], c)
  <2>1. CASE c \in better
    <3>1. gScore'[n.c] = gScore[n.c] /\ n.c \in closed'
      BY <1>1, <1>9, <1>10
    <3> QED BY <1>3, <1>9, <2>1, <3>1
  <2>2. CASE c \notin better
    <3> DEFINE b == cameFrom[c]
    <3>1. /\ c \in DOMAIN cameFrom /\ cameFrom'[c] = b /\ c \in Found
          /\ b \in closed /\ gScore[c] = gScore[b] + StepCost(b, c)
      BY <1>2, <1>9, <2>2 DEF SearchInv, Found
    <3> HIDE DEF b
    <3>2. b \in closed' /\ gScore'[b] = gScore[b] /\ gScore'[c] = gScore[c]
      BY <1>1, <1>9, <1>10, <2>2, <3>1
    <3> QED BY <3>1, <3>2
  <2> QED BY <2>1, <2>2
<1>15. ASSUME NEW o \in open'
       PROVE  o.g \in Nat /\ o.g >= gScore'[o.c] /\ o.h = Octile(o.c, To')
  <2>1. CASE o \in open
    <3>1. /\ o.g \in Nat /\ o.g >= gScore[o.c] /\ o.h = Octile(o.c, To) /\ o.c \in Found
          /\ gScore[o.c] \in Nat /\ gScore'[o.c] <= gScore[o.c] /\ gScore'[o.c] \in Nat
      BY <1>2, <1>5, <1>11, <2>1 DEF SearchInv
    <3> QED BY <1>4, <3>1
  <2>2. ASSUME NEW c \in better, o = Node(c, cost(c), To)
        PROVE  o.g \in Nat /\ o.g >= gScore'[o.c] /\ o.h = Octile(o.c, To')
    <3>1. o.c = c /\ o.g = cost(c) /\ o.h = Octile(c, To) /\ cost(c) \in Nat /\ gScore'[c] = cost(c)
      BY <1>6, <1>9, <2>2 DEF Node
    <3> HIDE DEF cost
    <3> QED BY <1>4, <3>1
  <2> QED BY <1>1, <2>1, <2>2
<1>16. closed' \subseteq Found' /\ To' \notin closed'
  BY <1>1, <1>2, <1>4, <1>10 DEF SearchInv
<1>17. ASSUME NEW c \in closed'
       PROVE  /\ CheapestWay(map', From', Access', <<c, gScore'[c]>>)
              /\ \A x \in Cells(map') : Legal(map', c, x, Access') =>
                    x \in Found' /\ gScore'[x] <= gScore'[c] + StepCost(c, x)
  <2>1. CASE c = n.c
    <3>1. gScore'[c] = gScore[c] /\ gScore[c] \in Nat /\ c \in Found /\ n.g = gScore[c]
      BY <1>3, <1>5, <1>9, <1>10, <2>1
    <3>2. ASSUME NEW x \in Cells(map), Legal(map, c, x, Access)
          PROVE  x \in Found' /\ gScore'[x] <= gScore[c] + StepCost(c, x)
      <4>0. x # c /\ StepCost(c, x) \in {10, 14} /\ x \in Nat \X Nat
        BY <1>5, <3>2, CellsNat, StepCostType DEF Legal, Adjacent
      <4>1. CASE x \in better
        <5>1. gScore'[x] = gScore[c] + StepCost(c, x)
          BY <1>9, <2>1, <3>1, <4>1
        <5> QED BY <1>4, <3>1, <4>0, <4>1, <5>1
      <4>2. CASE x \in closed
        <5> DEFINE u == <<c, gScore[c]>>
                   v == <<x, gScore[c] + StepCost(c, x)>>
                   w == <<x, gScore[x]>>
        <5>1. /\ u \in W /\ u[1] = c /\ u[2] = gScore[c]
              /\ v \in Pairs /\ v[1] = x /\ v[2] = gScore[c] + StepCost(c, x)
              /\ w[1] = x /\ w[2] = gScore[x]
          BY <1>3, <2>1, <3>1, <4>0 DEF Pairs
        <5>2. CheapestWay(map, From, Access, w)
          BY <1>2, <4>2 DEF SearchInv
        <5> HIDE DEF u, v, w
        <5>3. StepsTo(map, Access, u, v)
          BY <3>2, <5>1 DEF StepsTo
        <5>4. v \in W
          BY <1>5, <5>1, <5>3, CostsClosed DEF W
        <5>5. gScore[x] <= gScore[c] + StepCost(c, x)
          BY <5>1, <5>2, <5>4 DEF CheapestWay, W
        <5>6. x \in closed' /\ x \in Found' /\ gScore'[x] = gScore[x]
          BY <1>1, <1>4, <1>9, <1>10, <4>2
        <5> QED BY <5>5, <5>6
      <4>3. CASE x \notin better /\ x \notin closed
        <5>1. x \in DOMAIN gScore /\ ~(n.g + StepCost(n.c, x) < gScore[x])
          BY <2>1, <3>2, <4>0, <4>3 DEF better, Improved
        <5>2. x \in Found /\ gScore'[x] = gScore[x] /\ gScore[x] \in Nat
          BY <1>2, <1>5, <1>9, <4>3, <5>1 DEF SearchInv
        <5>3. gScore[x] <= gScore[c] + StepCost(c, x)
          BY <2>1, <3>1, <4>0, <5>1, <5>2
        <5> QED BY <1>4, <5>2, <5>3
      <4> QED BY <4>1, <4>2, <4>3
    <3> QED BY <1>1, <1>3, <1>4, <2>1, <3>1, <3>2
  <2>2. CASE c # n.c
    <3>1. /\ c \in closed /\ gScore'[c] = gScore[c] /\ gScore[c] \in Nat
          /\ CheapestWay(map, From, Access, <<c, gScore[c]>>)
      BY <1>1, <1>2, <1>5, <1>9, <1>10, <2>2 DEF SearchInv
    <3>2. ASSUME NEW x \in Cells(map), Legal(map, c, x, Access)
          PROVE  x \in Found' /\ gScore'[x] <= gScore[c] + StepCost(c, x)
      <4>1. x \in Found /\ gScore[x] <= gScore[c] + StepCost(c, x)
        BY <1>2, <3>1, <3>2 DEF SearchInv
      <4>2. StepCost(c, x) \in {10, 14} /\ gScore'[x] <= gScore[x] /\ gScore'[x] \in Nat /\ gScore[x] \in Nat
        BY <1>5, <1>11, <4>1, StepCostType
      <4> QED BY <1>4, <3>1, <4>1, <4>2
    <3> QED BY <1>1, <1>4, <3>1, <3>2
  <2> QED BY <2>1, <2>2
<1>18. SearchInv'
  BY <1>9, <1>12, <1>13, <1>14, <1>15, <1>16, <1>17 DEF SearchInv
<1>19. WaitInv'
  <2> SUFFICES ASSUME NEW c \in Found' \ closed' PROVE \E o \in open' : o.c = c /\ o.g = gScore'[c]
    BY DEF WaitInv
  <2>1. CASE c \in better
    <3> DEFINE o == Node(c, cost(c), To)
    <3>1. o \in open' /\ o.c = c /\ o.g = gScore'[c]
      BY <1>1, <1>9, <2>1 DEF Node
    <3> QED BY <3>1
  <2>2. CASE c \notin better
    <3>1. c \in Found \ closed /\ c # n.c /\ gScore'[c] = gScore[c]
      BY <1>1, <1>4, <1>9, <2>2
    <3>2. PICK o \in open : o.c = c /\ o.g = gScore[c]
      BY <1>2, <3>1 DEF WaitInv
    <3>3. o \in open'
      BY <1>1, <3>1, <3>2
    <3> QED BY <3>1, <3>2, <3>3
  <2> QED BY <2>1, <2>2
<1>20. AnswersRight' /\ (~kept => \A e \in DOMAIN cache : Right(map, e, cache[e]))
  BY <1>1 DEF AnswersRight, RightInv
<1> QED BY <1>1, <1>18, <1>19, <1>20 DEF RightInv

\* Every step of the pathfinder keeps the invariant.
LEMMA RightStep == ASSUME PathIInv, RightInv, [PathNext]_pathVars PROVE RightInv'
<1>1. ASSUME NEW m \in Maps, Update(m) PROVE RightInv'
  <2>1. phase' = "idle" /\ kept' = (cache' # NoEntries)
    BY <1>1 DEF Update
  <2> QED BY <2>1 DEF RightInv, AnswersRight, NoEntries
<1>2. ASSUME NEW k \in Queries, AskCached(k) PROVE RightInv'
  <2>1. key' = k /\ Answer(cache[k]) /\ cache' = cache /\ k \in DOMAIN cache
    BY <1>2 DEF AskCached, Ask
  <2>2. ~kept => Right(map, key', cache[k])
    BY <2>1 DEF RightInv
  <2> QED BY <2>1, <2>2, AnswerRight
<1>3. ASSUME NEW k \in Queries, AskTrivial(k) PROVE RightInv'
  <2> DEFINE none == Blocked(map, k[1], k[3]) \/ Blocked(map, k[2], k[3])
             p == IF none THEN NoPath ELSE <<k[1]>>
  <2>1. (none \/ k[1] = k[2]) /\ key' = k /\ Answer(p) /\ Caches(k, p)
    BY <1>3 DEF AskTrivial, Ask
  <2>2. Right(map, k, p)
    BY <2>1, Typed, QueryType, TrivialIsRight
  <2> HIDE DEF p
  <2> QED BY <2>1, <2>2, AnswerRight
<1>4. ASSUME NEW k \in Queries, AskSearch(k) PROVE RightInv'
  BY <1>4, SearchBegins
<1>5. CASE Exhausted
  BY <1>5, SearchFails
<1>6. ASSUME NEW n \in open, Pop(n) PROVE RightInv'
  BY <1>6, GoalPops, ClosedPops, Expands DEF Pop
<1>7. CASE RetraceStep
  BY <1>7, Retraces
<1>8. CASE RetraceEnd
  BY <1>8, RetraceEnds
<1>9. CASE UNCHANGED pathVars
  <2>1. UNCHANGED <<map, cache, key, phase, open, cameFrom, gScore, closed, path, kept>>
    BY <1>9 DEF pathVars
  <2> QED BY <2>1 DEF RightInv, SearchInv, WaitInv, TraceInv, AnswersRight, Found, From, To, Access
<1> QED BY <1>1, <1>2, <1>3, <1>4, <1>5, <1>6, <1>7, <1>8, <1>9 DEF PathNext

\* What find_path returns, computed or cached, is a shortest path of the grid of
\* the last update, or none when there is none, whatever the map and the ends,
\* unless the cache outlived a change of the map's size.
THEOREM AnswersAreShortest == PathSpec => []AnswersRight
<1>1. RightInv => AnswersRight
  BY DEF RightInv
<1> QED BY PathInitIInv, PathStep, RightStarts, RightStep, <1>1, PTL DEF PathSpec
================================================================================
