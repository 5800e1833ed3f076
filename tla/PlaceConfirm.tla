----------------------------- MODULE PlaceConfirm -----------------------------
(***************************************************************************)
(* Placing items, bot/bot_world.cpp: a place is sent at once, its item is  *)
(* reserved, and the inventory is charged only when the server's tile      *)
(* update shows it.  The bot's side is pending_places_, place_reserved_    *)
(* and inventory_; the server owns the true amounts and the tiles, and     *)
(* both directions of the ENet channel are reliable and in order.          *)
(*                                                                         *)
(* A pending place is [n, tile, item], n its rank: pending_places_ is in   *)
(* the order of sending and so of the 5 s deadlines.  Tiles are the cells  *)
(* in reach.                                                               *)
(***************************************************************************)
EXTENDS Integers, Sequences, FiniteSets

CONSTANTS
  Items, Tiles,
  Empty,         \* the content of an empty tile
  MaxAmount,     \* the largest amount of a stack (u8)
  MaxSent,      \* bound: places ever sent
  Plays         \* what happens around the bot, see PlayType

ASSUME PlaceAssumption ==
  /\ Empty \notin Items /\ IsFiniteSet(Items)
  /\ MaxAmount \in Nat \ {0} /\ MaxSent \in Nat

(* Whether answers may take longer than the 5 s deadline; whether others   *)
(* touch the tiles and the server moves the bot; bounds: the places sent,  *)
(* and the events the server starts by itself.                             *)
PlayType == [late : BOOLEAN, crowd : BOOLEAN, sent : 0 .. MaxSent, events : Nat]
ASSUME PlaysAssumption == Plays \subseteq PlayType

VARIABLES
  have,        \* inventory_: the amount of each item, 0 when absent
  pending,     \* pending_places_
  reserved,    \* place_reserved_
  inWorld,     \* world_.has_value()
  sent,        \* places sent so far
  wire,        \* the place requests under way to the server
  feed,        \* the packets under way to the bot
  owned, grid, \* the server: the bot's true amounts, the tiles
  events,      \* server events so far
  play         \* what happens around the bot in this behaviour

bot    == <<have, pending, reserved, inWorld, sent>>
server == <<owned, grid, events, play>>
placeVars == <<bot, wire, feed, server>>

Packets == [kind : {"tile"}, tile : Tiles, content : Items \cup {Empty}]
           \cup [kind : {"give", "take"}, item : Items]
           \cup [kind : {"inventory"}, amounts : [Items -> Nat]]
           \cup [kind : {"map", "menu"}]

PlaceInit ==
  /\ have = [i \in Items |-> 1] /\ owned = have
  /\ pending = {} /\ reserved = [i \in Items |-> 0]
  /\ inWorld = TRUE /\ sent = 0
  /\ wire = <<>> /\ feed = <<>>
  /\ grid = [t \in Tiles |-> Empty] /\ events = 0
  /\ play \in Plays

-----------------------------------------------------------------------------
(* The bot. *)

PendingOf(i) == {p \in pending : p.item = i}

(* if (r->second > 0) --r->second *)
Freed(r, i) == [r EXCEPT ![i] = IF @ > 0 THEN @ - 1 ELSE 0]

(* Mutant: in-flight places do not count. *)
PlaceUnreserved(t, i) ==
  /\ sent < play.sent
  /\ have[i] >= 1
  /\ pending' = pending \cup {[n |-> sent, tile |-> t, item |-> i]}
  /\ reserved' = [reserved EXCEPT ![i] = @ + 1]
  /\ sent' = sent + 1
  /\ wire' = Append(wire, [tile |-> t, item |-> i])
  /\ UNCHANGED <<have, inWorld, feed, server>>

(* place() of an item that is consumed.  It does not ask for a world. *)
Place(t, i) ==
  /\ sent < play.sent
  /\ have[i] >= 1
  /\ have[i] > reserved[i]
  /\ pending' = pending \cup {[n |-> sent, tile |-> t, item |-> i]}
  /\ reserved' = [reserved EXCEPT ![i] = @ + 1]
  /\ sent' = sent + 1
  /\ wire' = Append(wire, [tile |-> t, item |-> i])
  /\ UNCHANGED <<have, inWorld, feed, server>>

(* The pending places on a tile, and the first of them. *)
At(t)    == {p \in pending : p.tile = t}
First(t) == {p \in At(t) : \A q \in At(t) : p.n <= q.n}

AddItem(h, i) == [h EXCEPT ![i] = IF @ < MaxAmount THEN @ + 1 ELSE MaxAmount]
SubItem(h, i) == [h EXCEPT ![i] = IF @ > 0 THEN @ - 1 ELSE 0]

(* confirm_place: an update resolves the first pending place on its tile,  *)
(* which is charged only when the tile shows its item.                     *)
Confirm(t, content) ==
  \/ At(t) = {} /\ UNCHANGED <<have, pending, reserved>>
  \/ \E p \in First(t) :
       /\ pending' = pending \ {p}
       /\ reserved' = Freed(reserved, p.item)
       /\ have' = IF content = p.item THEN SubItem(have, p.item) ELSE have

(* Mutant: a new world forgets the pending places, not their reservations. *)
LoadMapKeepsReserved == /\ pending' = {} /\ inWorld' = TRUE
                        /\ UNCHANGED <<have, reserved>>

(* load_world: both are dropped first, whether the map parses or not. *)
LoadMap ==
  /\ pending' = {} /\ reserved' = [i \in Items |-> 0]
  /\ \/ inWorld' = TRUE
     \/ inWorld' = inWorld
  /\ UNCHANGED have

(* on_send_tile_update_data, and each tile of its batched form. *)
TileUpdate(m) ==
  /\ m.kind = "tile"
  /\ IF inWorld THEN Confirm(m.tile, m.content)
              ELSE UNCHANGED <<have, pending, reserved>>
  /\ UNCHANGED inWorld

ModifyItemInventory(m) ==
  /\ \/ m.kind = "give" /\ have' = AddItem(have, m.item)
     \/ m.kind = "take" /\ have' = SubItem(have, m.item)
  /\ UNCHANGED <<pending, reserved, inWorld>>

InventoryState(m) ==
  /\ m.kind = "inventory" /\ have' = m.amounts
  /\ UNCHANGED <<pending, reserved, inWorld>>

WorldSelectMenu(m) ==
  /\ m.kind = "menu" /\ inWorld' = FALSE
  /\ UNCHANGED <<have, pending, reserved>>

(* on_receive of the packet in front. *)
Receive ==
  LET m == Head(feed) IN
  /\ feed # <<>>
  /\ feed' = Tail(feed)
  /\ \/ TileUpdate(m) \/ ModifyItemInventory(m) \/ InventoryState(m)
     \/ WorldSelectMenu(m) \/ (m.kind = "map" /\ LoadMap)
  /\ UNCHANGED <<sent, wire, server>>

(* The places no younger than n, and those of them that hold item i. *)
Late(n)      == {p \in pending : p.n <= n}
LateOf(n, i) == {p \in Late(n) : p.item = i}
Minus(a, b)  == IF a > b THEN a - b ELSE 0

(* expire_pending_places: deadlines pass in the order of sending. *)
Expire ==
  /\ play.late
  /\ \E q \in pending :
       /\ pending' = pending \ Late(q.n)
       /\ reserved' = [i \in Items |->
                         Minus(reserved[i], Cardinality(LateOf(q.n, i)))]
  /\ UNCHANGED <<have, inWorld, sent, wire, feed, server>>

-----------------------------------------------------------------------------
(* The server, as the bot's code expects it. *)

(* It handles the request in front: a place succeeds on a free tile, with  *)
(* an item to place, and is echoed; otherwise nothing happens.             *)
Serve ==
  LET r == Head(wire)
      ok == grid[r.tile] = Empty /\ owned[r.item] > 0 IN
  /\ wire # <<>>
  /\ wire' = Tail(wire)
  /\ IF ok
     THEN /\ grid' = [grid EXCEPT ![r.tile] = r.item]
          /\ owned' = [owned EXCEPT ![r.item] = @ - 1]
          /\ feed' = Append(feed, [kind |-> "tile", tile |-> r.tile,
                                   content |-> r.item])
     ELSE UNCHANGED <<grid, owned, feed>>
  /\ UNCHANGED <<bot, events, play>>

Event == events < play.events /\ events' = events + 1 /\ UNCHANGED <<bot, wire, play>>

(* Items collected, and the inventory sent afresh. *)
Give(i) ==
  /\ Event /\ owned[i] < MaxAmount
  /\ owned' = [owned EXCEPT ![i] = @ + 1]
  /\ feed' = Append(feed, [kind |-> "give", item |-> i])
  /\ UNCHANGED grid
SendInventory ==
  /\ Event
  /\ feed' = Append(feed, [kind |-> "inventory", amounts |-> owned])
  /\ UNCHANGED <<owned, grid>>

(* In a crowd: items dropped or trashed, tiles changed by others, the bot  *)
(* moved to another world or out of it.                                    *)
Take(i) ==
  /\ play.crowd /\ Event /\ owned[i] > 0
  /\ owned' = [owned EXCEPT ![i] = @ - 1]
  /\ feed' = Append(feed, [kind |-> "take", item |-> i])
  /\ UNCHANGED grid
Others(t, content) ==
  /\ play.crowd /\ Event
  /\ grid' = [grid EXCEPT ![t] = content]
  /\ feed' = Append(feed, [kind |-> "tile", tile |-> t, content |-> content])
  /\ UNCHANGED owned
Move(kind) ==
  /\ play.crowd /\ Event
  /\ grid' = [t \in Tiles |-> Empty]
  /\ feed' = Append(feed, [kind |-> kind])
  /\ UNCHANGED owned

(* Every bounded event has happened and every packet is delivered. *)
Over ==
  /\ sent = play.sent \/ \A i \in Items : have[i] <= reserved[i]
  /\ wire = <<>> /\ feed = <<>>
  /\ UNCHANGED placeVars

PlaceNext ==
  \/ \E t \in Tiles, i \in Items : Place(t, i)
  \/ Receive \/ Expire \/ Serve
  \/ \E i \in Items : Give(i) \/ Take(i)
  \/ SendInventory
  \/ \E t \in Tiles, c \in Items \cup {Empty} : Others(t, c)
  \/ \E k \in {"map", "menu"} : Move(k)
  \/ Over

PlaceSpec == PlaceInit /\ [][PlaceNext]_placeVars

-----------------------------------------------------------------------------
BotTypeOK ==
  /\ have \in [Items -> Nat]
  /\ pending \subseteq [n : 0 .. sent - 1, tile : Tiles, item : Items]
  /\ IsFiniteSet(pending)
  /\ reserved \in [Items -> Nat]
  /\ inWorld \in BOOLEAN /\ sent \in Nat
ServerTypeOK ==
  /\ wire \in Seq([tile : Tiles, item : Items])
  /\ feed \in Seq(Packets)
  /\ owned \in [Items -> Nat] /\ events \in Nat /\ play \in Plays
  /\ grid \in [Tiles -> Items \cup {Empty}]
PlaceTypeOK == BotTypeOK /\ ServerTypeOK

(* The counters of place_reserved_ are the pending places, item by item,   *)
(* through confirmations, expiries and world changes: one that leaked      *)
(* would block an item for ever, one too low would send it twice.          *)
ReservedIsPending ==
  \A i \in Items : reserved[i] = Cardinality(PendingOf(i))

(* bot.h: "so we never send more places than we own": every place on its   *)
(* way to the server has an item of the server's to pay for it, as long as *)
(* answers come in time and nobody else takes items.                       *)
Calm == ~play.late /\ ~play.crowd
Covered ==
  Calm => \A i \in Items :
    Cardinality({k \in DOMAIN wire : wire[k].item = i}) <= owned[i]

(* With nothing under way the inventory is then the server's, although it  *)
(* is only inferred from the tiles.                                        *)
Settled == Calm /\ wire = <<>> /\ feed = <<>> => have = owned

(* The two sides of the protocol agree.                                    *)
NeverOverspent == Covered /\ Settled
=============================================================================
