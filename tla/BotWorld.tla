------------------------------ MODULE BotWorld ------------------------------
(* What one bot knows of the world it is in, bot/bot_handlers.cpp and        *)
(* bot/bot_world.cpp: the handlers of the server's packets, the commands     *)
(* that act in the world, and find_path, whose waits serve packets. Each     *)
(* handler keeps the bot's own state and the snapshot the UI and the other   *)
(* threads read; pending places are those of PlaceConfirm, and a path is any *)
(* walkable one (Pathfind). A world is a corridor of tiles here.             *)
EXTENDS Integers, Sequences, FiniteSets

CONSTANTS Width,      \* tiles of the longest corridor
          Items,      \* item ids; "air" is 0 and "fist" 18
          Temporary,  \* TEMPORARY_ITEM_IDS
          PackSize,   \* slots of the inventory
          Cap,        \* PER_ITEM_INV_CAP
          Byte,       \* the largest u8
          Peers,      \* net ids of other players; the bot's own is "me"
          Topics,     \* a behaviour's packets and commands (of) and the worlds it visits (maps)
          MaxUid, MaxQuestions, MaxMoves  \* bounds: drops seen, requests made, positions corrected

Places == 1..Width
ASSUME WorldAssumption ==
  /\ Width \in Nat \ {0} /\ Temporary \subseteq Items /\ {"air", "fist"} \cap Items = {}
  /\ IsFiniteSet(Items) /\ PackSize \in Nat /\ Cap \in Nat /\ Byte \in Nat /\ Cap <= Byte
  /\ MaxUid \in Nat /\ MaxQuestions \in Nat /\ MaxMoves \in Nat

\* A map as the server sends it: its objects have uids of their own, all used up.
IsMap(m) ==
  /\ DOMAIN m = {"name", "fg", "bg", "objects", "next"} /\ m.next \in Nat
  /\ \A o \in m.objects : DOMAIN o = {"uid", "item", "at", "n"} /\ o.uid \in Nat /\ o.uid < m.next
  /\ \A o, q \in m.objects : o.uid = q.uid => o = q
ASSUME TopicsAssumption == \A t \in Topics : \A m \in t.maps : IsMap(m)

VARIABLES peer,      \* peer_id_ has a value
          world,     \* world_
          pack,      \* inventory_: items and item_count
          equipped,  \* equipped_items_
          players,   \* players_: net id to position
          me,        \* local_.net_id, "me" or "none"
          pos,       \* pos_x_, in tiles
          pending,   \* pending_places_: at most one here
          target, recalc,  \* pathfind_target_, pathfind_recalc_
          rest,      \* the nodes find_path has still to walk
          walking,   \* the bot's thread is inside find_path
          callback,  \* temporary_data_.dialog_callback
          collecting,\* auto_collect_
          snap,      \* the shared BotState
          topic,     \* what happens in this behaviour
          asked, answers,  \* history: requests that await a dialog, and answers sent
          moves,     \* history: positions corrected by the server
          astray     \* history: a map failed to parse, or the connection dropped, since the last map

own == <<world, pack, equipped, players, me, pos, pending>>
walk == <<target, recalc, rest, walking>>
talk == <<callback, asked, answers>>
worldVars == <<peer, own, walk, talk, collecting, snap, topic, moves, astray>>

NoWorld == [name |-> "none"]
Loaded == world # NoWorld
Empty == [x \in {} |-> 0]
NoCallback == <<0, 0>>

WorldInit ==
  /\ peer = TRUE /\ world = NoWorld /\ topic \in Topics
  /\ pack = [items |-> Empty, count |-> 0] /\ equipped = {}
  /\ players = Empty /\ me = "none" /\ pos = 1 /\ pending = {}
  /\ target = 0 /\ recalc = FALSE /\ rest = <<>> /\ walking = FALSE
  /\ callback = NoCallback /\ collecting = TRUE
  /\ snap = [name |-> "none", fg |-> <<>>, bg |-> <<>>, objects |-> {}, players |-> Empty,
             items |-> Empty, pos |-> 1, collecting |-> TRUE]
  /\ asked = 0 /\ answers = <<>> /\ moves = 0 /\ astray = FALSE

Receives(kind) == peer /\ kind \in topic.of
Does(kind) == ~walking /\ kind \in topic.of

----------------------------------------------------------------------------
(* Inventory                                                                 *)

With(f, k, v) == [x \in DOMAIN f \cup {k} |-> IF x = k THEN v ELSE f[x]]
Without(f, S) == [x \in DOMAIN f \ S |-> f[x]]
Least(a, b) == IF a < b THEN a ELSE b

Amount(p, i) == IF i \in DOMAIN p.items THEN p.items[i].n ELSE 0
\* add_item: saturates at a byte, a new item takes a slot.
Added(p, i, n) ==
  IF i \in DOMAIN p.items
  THEN [p EXCEPT !.items[i].n = Least(Byte, @ + n)]
  ELSE [items |-> With(p.items, i, [n |-> n, worn |-> FALSE]), count |-> p.count + 1]
\* remove_item: the slot is given back.
Removed(p, S) ==
  LET gone == S \cap DOMAIN p.items
  IN [items |-> Without(p.items, gone), count |-> p.count - Cardinality(gone)]
Subbed(p, i, n) == IF Amount(p, i) <= n THEN Removed(p, {i}) ELSE [p EXCEPT !.items[i].n = @ - n]
Flagged(p, i, on) == IF i \in DOMAIN p.items THEN [p EXCEPT !.items[i].worn = on] ELSE p

\* emit_inventory_update
Emits(p) == snap' = [snap EXCEPT !.items = p.items]

\* SendInventoryState: what it says replaces everything.
InventoryState ==
  /\ Receives("state")
  /\ \E S \in SUBSET Items, w \in SUBSET Items :
       /\ w \subseteq S /\ Cardinality(S) <= PackSize
       /\ pack' = [items |-> [i \in S |-> [n |-> 1, worn |-> i \in w]], count |-> Cardinality(S)]
       /\ equipped' = w /\ Emits(pack')
  /\ UNCHANGED <<peer, world, players, me, pos, pending, walk, talk, collecting, topic, moves, astray>>

\* on_modify_item_inventory: what is used up is not worn any more.
ModifyItem ==
  /\ Receives("inventory")
  /\ \E i \in Items :
       \/ /\ pack' = Added(pack, i, 1) /\ UNCHANGED equipped
       \/ /\ pack' = Subbed(pack, i, 1)
          /\ equipped' = IF i \in DOMAIN pack'.items THEN equipped ELSE equipped \ {i}
  /\ Emits(pack')
  /\ UNCHANGED <<peer, world, players, me, pos, pending, walk, talk, collecting, topic, moves, astray>>

\* mark_item_equipped
Marks(i, on) == /\ equipped' = (IF on THEN equipped \cup {i} ELSE equipped \ {i})
                /\ pack' = Flagged(pack, i, on) /\ Emits(pack')
                /\ UNCHANGED <<peer, world, players, me, pos, pending, walk, talk,
                               collecting, topic, moves, astray>>
IsEquipped(i) == i \in equipped \/ (i \in DOMAIN pack.items /\ pack.items[i].worn)
\* wear skips what is worn; unwear sends and marks without a test.
Wear(i) == Does("wear") /\ ~IsEquipped(i) /\ Marks(i, TRUE)
Unwear(i) == Does("wear") /\ Marks(i, FALSE)
\* sync_geiger_state_from_console: what the console says of the counters.
ConsoleMessage(i) == Receives("console") /\ \E on \in BOOLEAN : Marks(i, on)

----------------------------------------------------------------------------
(* Tiles                                                                     *)

\* One tile of the world changes, and the same tile of the snapshot.
TileBecomes(c, f, b) ==
  /\ world' = [world EXCEPT !.fg[c] = f, !.bg[c] = b]
  /\ snap' = [snap EXCEPT !.fg[c] = f, !.bg[c] = b]
TileRest == UNCHANGED <<peer, pack, equipped, players, me, pos, pending, walk, talk,
                        collecting, topic, moves, astray>>

\* on_tile_change: a fist breaks the foreground first; anything else is placed.
TileChange ==
  /\ Receives("tiles") /\ Loaded
  /\ \E c \in DOMAIN world.fg, i \in Items \cup {"fist"} :
       IF i # "fist" THEN TileBecomes(c, i, world.bg[c])
       ELSE IF world.fg[c] # "air" THEN TileBecomes(c, "air", world.bg[c])
       ELSE TileBecomes(c, "air", "air")
  /\ TileRest

\* on_send_tile_tree_state writes the foreground only, on_send_lock as well.
TreeStateUnseen == /\ Receives("trees") /\ Loaded
                   /\ \E c \in DOMAIN world.fg : world' = [world EXCEPT !.fg[c] = "air"]
                   /\ UNCHANGED snap /\ TileRest
TreeState == /\ Receives("trees") /\ Loaded
             /\ \E c \in DOMAIN world.fg : TileBecomes(c, "air", world.bg[c])
             /\ TileRest
SendLock == /\ Receives("trees") /\ Loaded
            /\ \E c \in DOMAIN world.fg, i \in Items : TileBecomes(c, i, world.bg[c])
            /\ TileRest

\* on_send_tile_update_data, and each tile of its batched form: a place that
\* waits on the tile is resolved, and charged if the tile shows it.
TileUpdate ==
  /\ Receives("tiles") /\ Loaded
  /\ \E c \in DOMAIN world.fg, f \in Items \cup {"air"}, b \in Items \cup {"air"} :
       LET here == {p \in pending : p.at = c}
           paid == {p.item : p \in {q \in here : q.item \in {f, b}}}
       IN /\ pending' = pending \ here
          /\ pack' = IF paid = {} THEN pack ELSE Subbed(pack, CHOOSE i \in paid : TRUE, 1)
          /\ world' = [world EXCEPT !.fg[c] = f, !.bg[c] = b]
          /\ snap' = [snap EXCEPT !.fg[c] = f, !.bg[c] = b, !.items = pack'.items]
  /\ UNCHANGED <<peer, equipped, players, me, pos, walk, talk, collecting, topic, moves, astray>>

\* place(): sent, and waiting for its tile.
Place == /\ Does("place") /\ pending = {}
         /\ \E i \in DOMAIN pack.items, c \in Places : pending' = {[at |-> c, item |-> i]}
         /\ UNCHANGED <<peer, world, pack, equipped, players, me, pos, walk, talk,
                        collecting, snap, topic, moves, astray>>
\* expire_pending_places
Expire == /\ ~walking /\ pending # {} /\ pending' = {}
          /\ UNCHANGED <<peer, world, pack, equipped, players, me, pos, walk, talk,
                         collecting, snap, topic, moves, astray>>

----------------------------------------------------------------------------
(* Objects                                                                   *)

Objects(w, q) == /\ world' = w
                 /\ pack' = q
                 /\ snap' = [snap EXCEPT !.objects = w.objects, !.items = q.items]
                 /\ UNCHANGED <<peer, equipped, players, me, pos, pending, walk, talk,
                                collecting, topic, moves, astray>>

\* A new drop takes the next uid.
ObjectDropped ==
  /\ Receives("objects") /\ Loaded /\ world.next <= MaxUid
  /\ \E i \in Items, c \in DOMAIN world.fg, n \in 1..Byte :
       Objects([world EXCEPT !.objects = @ \cup {[uid |-> world.next, item |-> i, at |-> c, n |-> n]},
                             !.next = @ + 1], pack)
\* A stack on a tile changes its size.
ObjectCounted ==
  /\ Receives("objects") /\ Loaded
  /\ \E o \in world.objects, n \in 1..Byte :
       Objects([world EXCEPT !.objects = (@ \ {o}) \cup {[o EXCEPT !.n = n]}], pack)
\* Somebody collects one; what this bot collects fills its stack to the cap.
ObjectTaken ==
  /\ Receives("objects") /\ Loaded
  /\ \E o \in world.objects, by \in Peers \cup {"me"} :
       LET room == Cap - Least(Cap, Amount(pack, o.item))
       IN Objects([world EXCEPT !.objects = @ \ {o}],
                  IF by = "me" /\ me = "me" THEN Added(pack, o.item, Least(o.n, room)) ELSE pack)

\* The setting and its mirror.
SetAutoCollect == /\ Does("settings")
                  /\ collecting' = ~collecting /\ snap' = [snap EXCEPT !.collecting = collecting']
                  /\ UNCHANGED <<peer, own, walk, talk, topic, moves, astray>>

----------------------------------------------------------------------------
(* Players and positions                                                     *)

PlayersRest == UNCHANGED <<peer, world, pack, equipped, pos, pending, walk, talk,
                           collecting, topic, moves, astray>>

\* OnSpawn of the bot itself, and of others; OnRemove.
SpawnSelf == /\ Receives("players") /\ me' = "me" /\ UNCHANGED <<players, snap>> /\ PlayersRest
SpawnOther == /\ Receives("players")
              /\ \E q \in Peers, c \in Places : players' = With(players, q, c)
              /\ snap' = [snap EXCEPT !.players = players'] /\ UNCHANGED me /\ PlayersRest
Remove == /\ Receives("players")
          /\ \E q \in Peers : players' = Without(players, {q})
          /\ snap' = [snap EXCEPT !.players = players'] /\ UNCHANGED me /\ PlayersRest
\* on_state of another player: the entry with its net id, if there is one.
StateOther ==
  /\ Receives("players")
  /\ \E q \in DOMAIN players, c \in Places :
       /\ players' = [players EXCEPT ![q] = c]
       /\ snap' = [snap EXCEPT !.players = [x \in DOMAIN @ |-> IF x = q THEN c ELSE @[x]]]
  /\ UNCHANGED me /\ PlayersRest

At(c) == pos' = c /\ snap' = [snap EXCEPT !.pos = c]
\* on_state of the bot, and OnSetPos, which makes a walk plan again.
StateSelf == /\ Receives("moves") /\ moves < MaxMoves /\ moves' = moves + 1
             /\ \E c \in Places : At(c)
             /\ UNCHANGED <<peer, world, pack, equipped, players, me, pending, walk, talk,
                            collecting, topic, astray>>
SetPos == /\ Receives("moves") /\ moves < MaxMoves /\ moves' = moves + 1
          /\ \E c \in Places : At(c)
          /\ recalc' = (recalc \/ target # 0)
          /\ UNCHANGED <<peer, world, pack, equipped, players, me, pending, target, rest, walking,
                         talk, collecting, topic, astray>>

----------------------------------------------------------------------------
(* find_path                                                                 *)

Steps(a, b) == IF a <= b THEN [i \in 1..(b - a) |-> a + i] ELSE [i \in 1..(a - b) |-> a - i]
Passable(w, c) == c \in DOMAIN w.fg /\ w.fg[c] = "air"
\* The pathfinder's answers: the cells after the first, or none.
Plans(w, a, b) == LET p == Steps(a, b)
                  IN IF Passable(w, a) /\ \A i \in DOMAIN p : Passable(w, p[i]) THEN {p} ELSE {}

Stops == target' = 0 /\ rest' = <<>> /\ walking' = FALSE
\* One round of the outer loop: nowhere to go, no path, or the first node.
\* Nodes are walked one after the other, each followed by a wait.
Goes(p) == /\ rest' = Tail(p) /\ walking' = TRUE /\ recalc' = FALSE /\ At(Head(p))
Plan(goal) ==
  IF ~Loaded \/ pos = goal \/ Plans(world, pos, goal) = {}
  THEN Stops /\ recalc' = FALSE /\ UNCHANGED <<pos, snap>>
  ELSE target' = goal /\ \E p \in Plans(world, pos, goal) : Goes(p)
WalkRest == UNCHANGED <<peer, world, pack, equipped, players, me, pending, talk,
                        collecting, topic, moves, astray>>

WalkTo(goal) == Does("walk") /\ Plan(goal) /\ WalkRest
\* The wait after a node is over: plan again, stop, or the next node; nodes
\* the bot already stands on are skipped.
Ahead == IF rest # <<>> /\ Head(rest) = pos THEN Tail(rest) ELSE rest
WalkRetries == /\ walking /\ recalc /\ WalkRest
               /\ IF target # 0 /\ pos # target THEN \E p \in Plans(world, pos, target) : Goes(p) /\ UNCHANGED target
                  ELSE Plan(target)
WalkReplans == walking /\ recalc /\ Plan(target) /\ WalkRest
WalkStep == /\ walking /\ ~recalc
            /\ IF Ahead = <<>> THEN Stops /\ UNCHANGED <<pos, snap>>
               ELSE rest' = Tail(Ahead) /\ At(Head(Ahead)) /\ UNCHANGED <<target, walking>>
            /\ UNCHANGED recalc /\ WalkRest

----------------------------------------------------------------------------
(* Dialogs                                                                   *)

\* drop_item and trash_item install the answer to the next dialog, accept_access
\* the first of two: the request's number, and the answers that remain.
Asks(more) == /\ Does("dialogs") /\ asked < MaxQuestions
              /\ asked' = asked + 1 /\ callback' = <<asked', more>>
              /\ UNCHANGED <<peer, own, walk, answers, collecting, snap, topic, moves, astray>>
DropItem == Asks(0)
AcceptAccess == Asks(1)
\* OnDialogRequest: the callback is taken out, then run; it may install another.
DialogKeeps == /\ Receives("dialogs") /\ callback # NoCallback /\ Len(answers) < 2 * MaxQuestions
               /\ answers' = Append(answers, callback) /\ UNCHANGED callback
               /\ UNCHANGED <<peer, own, walk, asked, collecting, snap, topic, moves, astray>>
Dialog == /\ Receives("dialogs") /\ callback # NoCallback
          /\ answers' = Append(answers, callback)
          /\ callback' = IF callback[2] > 0 THEN <<callback[1], callback[2] - 1>> ELSE NoCallback
          /\ UNCHANGED <<peer, own, walk, asked, collecting, snap, topic, moves, astray>>

----------------------------------------------------------------------------
(* Worlds and connections                                                    *)

\* load_world: players, the bot's own and pending places go first, and a map
\* that does not parse leaves the old world in place.
MapData(m) ==
  /\ peer
  /\ players' = Empty /\ me' = "none" /\ pending' = {}
  /\ \/ /\ world' = m /\ astray' = FALSE
        /\ snap' = [snap EXCEPT !.name = m.name, !.fg = m.fg, !.bg = m.bg,
                                !.objects = m.objects, !.players = Empty]
     \/ astray' = TRUE /\ UNCHANGED <<world, snap>>
  /\ UNCHANGED <<peer, pack, equipped, pos, walk, talk, collecting, topic, moves>>

\* OnRequestWorldSelectMenu: temporary items go, the rest of the snapshot stays.
SelectMenu ==
  /\ peer
  /\ world' = NoWorld /\ target' = 0 /\ recalc' = FALSE
  /\ pack' = Removed(pack, Temporary)
  /\ snap' = [snap EXCEPT !.name = "EXIT", !.items = pack'.items]
  /\ UNCHANGED <<peer, equipped, players, me, pos, pending, rest, walking, talk,
                 collecting, topic, moves, astray>>

\* on_disconnect: the world stays. BotSession models what follows.
Disconnected ==
  /\ peer /\ peer' = FALSE /\ target' = 0 /\ recalc' = FALSE
  /\ snap' = [snap EXCEPT !.name = "", !.players = Empty] /\ astray' = TRUE
  /\ UNCHANGED <<own, rest, walking, talk, collecting, topic, moves>>
Connected == /\ ~peer /\ peer' = TRUE
             /\ UNCHANGED <<own, walk, talk, collecting, snap, topic, moves, astray>>

Packets == \/ InventoryState \/ ModifyItem \/ TileChange \/ TreeState \/ SendLock \/ TileUpdate
           \/ ObjectDropped \/ ObjectCounted \/ ObjectTaken
           \/ SpawnSelf \/ SpawnOther \/ Remove \/ StateOther \/ StateSelf \/ SetPos
           \/ Dialog \/ SelectMenu \/ Disconnected \/ Connected
           \/ \E m \in topic.maps : MapData(m)
           \/ \E i \in Items : ConsoleMessage(i)
Commands == \/ Place \/ SetAutoCollect \/ DropItem \/ AcceptAccess
            \/ \E i \in Items : Wear(i) \/ Unwear(i)
            \/ \E c \in Places : WalkTo(c)
WorldNext == Packets \/ Commands \/ Expire \/ WalkReplans \/ WalkStep
WorldSpec == WorldInit /\ [][WorldNext]_worldVars /\ WF_worldVars(WalkReplans \/ WalkStep)

----------------------------------------------------------------------------
(* Properties                                                                *)

\* Every reader of the snapshot sees what the bot knows: the pack, the position
\* and the setting always; tiles, objects and players while a world is loaded,
\* the players unless a map failed to parse or the connection dropped since.
SnapshotAgrees ==
  /\ snap.items = pack.items /\ snap.pos = pos /\ snap.collecting = collecting
  /\ Loaded => snap.fg = world.fg /\ snap.bg = world.bg /\ snap.objects = world.objects
  /\ Loaded /\ ~astray => snap.players = players

\* item_count, by which collect() decides that the pack is full, is the number
\* of items in it, whatever adds, uses up, places, collects and expires.
PackCounted == pack.count = Cardinality(DOMAIN pack.items)

\* Claims on objects are by uid: no two objects of a world share one.
UidsDiffer == Loaded => \A o, q \in world.objects : o.uid = q.uid => o = q

\* What the bot knows, and what readers of the snapshot see of it.
StateAgrees == SnapshotAgrees /\ PackCounted /\ UidsDiffer

\* A request is answered once, and never after a later one was answered.
OneAnswerEach == \A i, j \in DOMAIN answers : i < j =>
                   \/ answers[i][1] < answers[j][1]
                   \/ answers[i][1] = answers[j][1] /\ answers[i][2] > answers[j][2]

\* A walk ends once the server corrects the position no more, though the world
\* may have changed, emptied or disconnected under it.
WalkEnds == walking ~> ~walking
=============================================================================
