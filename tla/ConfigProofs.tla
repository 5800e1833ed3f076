----------------------------- MODULE ConfigProofs -----------------------------
(* What the game proxy pool, the reservations of items and the automation of *)
(* a fleet guarantee, for every set of exits, bots, items and edits.         *)
EXTENDS ProxyPool, PlaceConfirm, Automation, SequenceTheorems,
        FiniteSetTheorems, FunctionTheorems, TLAPS

----------------------------------------------------------------------------
(* The reservations of PlaceConfirm are exact, whatever the server does.     *)

PlaceOK == PlaceTypeOK /\ ReservedIsPending

(* What a packet of each kind carries. *)
LEMMA PacketFields ==
  ASSUME NEW m \in Packets
  PROVE  /\ m.kind = "tile" =>
              m.tile \in Tiles /\ m.content \in Items \cup {Empty}
         /\ m.kind \in {"give", "take"} => m.item \in Items
         /\ m.kind = "inventory" => m.amounts \in [Items -> Nat]
BY DEF Packets

LEMMA PacketKinds ==
  /\ \A t \in Tiles, c \in Items \cup {Empty} :
       [kind |-> "tile", tile |-> t, content |-> c] \in Packets
  /\ \A i \in Items : /\ [kind |-> "give", item |-> i] \in Packets
                      /\ [kind |-> "take", item |-> i] \in Packets
  /\ \A a \in [Items -> Nat] :
       [kind |-> "inventory", amounts |-> a] \in Packets
  /\ [kind |-> "map"] \in Packets /\ [kind |-> "menu"] \in Packets
BY DEF Packets

(* The head of a queue, and what is left of it. *)
LEMMA Queue ==
  ASSUME NEW S, NEW q \in Seq(S), q # <<>>
  PROVE  Head(q) \in S /\ Tail(q) \in Seq(S)
BY HeadTailProperties

LEMMA PlaceBegins == PlaceInit => PlaceOK
<1> SUFFICES ASSUME PlaceInit PROVE PlaceOK OBVIOUS
<1>1. pending = {} /\ IsFiniteSet(pending) /\ sent = 0
  BY FS_EmptySet DEF PlaceInit
<1>2. BotTypeOK
  BY <1>1 DEF PlaceInit, BotTypeOK
<1>3. ServerTypeOK
  BY EmptySeq DEF PlaceInit, ServerTypeOK
<1>4. \A i \in Items : PendingOf(i) = {}
  BY <1>1 DEF PendingOf
<1> QED
  BY <1>2, <1>3, <1>4, FS_EmptySet DEF PlaceInit, PlaceOK, PlaceTypeOK, ReservedIsPending

(* A place reserves its item and is new among the pending ones. *)
LEMMA Placing ==
  ASSUME PlaceOK, NEW t \in Tiles, NEW i \in Items, Place(t, i) PROVE PlaceOK'
<1> DEFINE p == [n |-> sent, tile |-> t, item |-> i]
           r == [tile |-> t, item |-> i]
<1> USE DEF PlaceOK, PlaceTypeOK
<1>1. /\ pending' = pending \cup {p} /\ sent' = sent + 1
      /\ reserved' = [reserved EXCEPT ![i] = @ + 1]
      /\ wire' = Append(wire, r)
      /\ UNCHANGED <<have, inWorld, feed, owned, grid, events, play>>
  BY DEF Place, server
<1>2. p \notin pending
  BY DEF BotTypeOK
<1>3. IsFiniteSet(pending')
  BY <1>1, FS_AddElement DEF BotTypeOK
<1>4. BotTypeOK'
  <2>1. pending' \subseteq [n : 0 .. sent' - 1, tile : Tiles, item : Items]
    BY <1>1 DEF BotTypeOK
  <2> QED BY <1>1, <1>3, <2>1 DEF BotTypeOK
<1>5. ServerTypeOK'
  <2> DEFINE R == [tile : Tiles, item : Items]
  <2>1. r \in R /\ wire \in Seq(R)
    BY DEF ServerTypeOK
  <2> HIDE DEF R, r
  <2>2. wire' \in Seq(R)
    BY <1>1, <2>1, AppendProperties
  <2> QED BY <1>1, <2>2 DEF ServerTypeOK, R
<1>6. ReservedIsPending'
  <2> SUFFICES ASSUME NEW j \in Items
               PROVE  reserved'[j] = Cardinality(PendingOf(j)')
    BY DEF ReservedIsPending
  <2>1. /\ IsFiniteSet(PendingOf(j)) /\ reserved[j] = Cardinality(PendingOf(j))
        /\ reserved[j] \in Nat
    BY FS_Subset DEF BotTypeOK, PendingOf, ReservedIsPending
  <2>2. CASE j = i
    <3>1. PendingOf(j)' = PendingOf(j) \cup {p} /\ p \notin PendingOf(j)
      BY <1>1, <1>2, <2>2 DEF PendingOf
    <3>2. reserved'[j] = reserved[j] + 1
      BY <1>1, <2>2 DEF BotTypeOK
    <3> QED BY <2>1, <3>1, <3>2, FS_AddElement
  <2>3. CASE j # i
    <3>1. PendingOf(j)' = PendingOf(j)
      BY <1>1, <2>3 DEF PendingOf
    <3> QED BY <1>1, <2>1, <2>3, <3>1 DEF BotTypeOK
  <2> QED BY <2>2, <2>3
<1> QED BY <1>4, <1>5, <1>6

(* A confirmation takes one place away and one reservation. *)
LEMMA Confirming ==
  ASSUME PlaceOK, NEW t \in Tiles, NEW c \in Items \cup {Empty}, Confirm(t, c),
         UNCHANGED <<inWorld, sent>>
  PROVE  BotTypeOK' /\ ReservedIsPending'
<1> USE DEF PlaceOK, PlaceTypeOK
<1>1. CASE UNCHANGED <<have, pending, reserved>>
  BY <1>1 DEF BotTypeOK, ReservedIsPending, PendingOf
<1>2. ASSUME NEW p \in First(t),
             pending' = pending \ {p}, reserved' = Freed(reserved, p.item),
             have' = IF c = p.item THEN SubItem(have, p.item) ELSE have
      PROVE  BotTypeOK' /\ ReservedIsPending'
  <2>1. p \in pending /\ p.item \in Items
    BY DEF First, At, BotTypeOK
  <2>2. IsFiniteSet(pending')
    BY <1>2, FS_RemoveElement DEF BotTypeOK
  <2>3. BotTypeOK'
    BY <1>2, <2>1, <2>2 DEF BotTypeOK, Freed, SubItem
  <2>4. ASSUME NEW j \in Items
        PROVE  reserved'[j] = Cardinality(PendingOf(j)')
    <3>1. /\ IsFiniteSet(PendingOf(j))
          /\ reserved[j] = Cardinality(PendingOf(j)) /\ reserved[j] \in Nat
      BY FS_Subset DEF BotTypeOK, PendingOf, ReservedIsPending
    <3>2. CASE j = p.item
      <4>1. PendingOf(j)' = PendingOf(j) \ {p} /\ p \in PendingOf(j)
        BY <1>2, <2>1, <3>2 DEF PendingOf
      <4>2. /\ Cardinality(PendingOf(j) \ {p}) = reserved[j] - 1
            /\ Cardinality(PendingOf(j) \ {p}) \in Nat
        BY <3>1, <4>1, FS_RemoveElement, FS_CardinalityType
      <4> QED BY <1>2, <3>1, <3>2, <4>1, <4>2 DEF Freed, BotTypeOK
    <3>3. CASE j # p.item
      <4>1. PendingOf(j)' = PendingOf(j)
        BY <1>2, <3>3 DEF PendingOf
      <4> QED BY <1>2, <3>1, <3>3, <4>1 DEF Freed, BotTypeOK
    <3> QED BY <3>2, <3>3
  <2> QED BY <2>3, <2>4 DEF ReservedIsPending
<1> QED BY <1>1, <1>2 DEF Confirm

LEMMA LoadingWorld ==
  ASSUME PlaceOK, LoadMap, UNCHANGED sent
  PROVE  BotTypeOK' /\ ReservedIsPending'
<1>1. pending' = {} /\ IsFiniteSet(pending')
  BY FS_EmptySet DEF LoadMap
<1>2. \A i \in Items : PendingOf(i)' = {}
  BY <1>1 DEF PendingOf
<1> QED
  BY <1>1, <1>2, FS_EmptySet
  DEF LoadMap, PlaceOK, PlaceTypeOK, BotTypeOK, ReservedIsPending

LEMMA Receiving == ASSUME PlaceOK, Receive PROVE PlaceOK'
<1> DEFINE m == Head(feed)
<1>1. /\ feed # <<>> /\ feed' = Tail(feed) /\ UNCHANGED <<sent, wire, server>>
  BY DEF Receive
<1>2. m \in Packets /\ feed' \in Seq(Packets)
  BY <1>1, Queue DEF PlaceOK, PlaceTypeOK, ServerTypeOK
<1>3. /\ m.kind = "tile" =>
           m.tile \in Tiles /\ m.content \in Items \cup {Empty}
      /\ m.kind \in {"give", "take"} => m.item \in Items
      /\ m.kind = "inventory" => m.amounts \in [Items -> Nat]
  BY <1>2, PacketFields
<1>4. ServerTypeOK'
  BY <1>1, <1>2 DEF PlaceOK, PlaceTypeOK, ServerTypeOK, server
<1>5. BotTypeOK' /\ ReservedIsPending'
  <2>1. CASE m.kind = "tile" /\ Confirm(m.tile, m.content) /\ UNCHANGED inWorld
    BY <1>1, <1>3, <2>1, Confirming
  <2>2. CASE LoadMap
    BY <1>1, <2>2, LoadingWorld
  <2>3. ASSUME UNCHANGED <<pending, reserved>>, have' \in [Items -> Nat],
               inWorld' \in BOOLEAN
        PROVE  BotTypeOK' /\ ReservedIsPending'
    BY <1>1, <2>3
    DEF PlaceOK, PlaceTypeOK, BotTypeOK, ReservedIsPending, PendingOf
  <2> HIDE DEF m
  <2>4. CASE /\ m.kind \in {"tile", "menu"}
             /\ UNCHANGED <<have, pending, reserved>>
             /\ inWorld' \in BOOLEAN
    BY <2>3, <2>4 DEF PlaceOK, PlaceTypeOK, BotTypeOK
  <2>5. CASE /\ m.kind = "give" /\ have' = AddItem(have, m.item)
             /\ UNCHANGED <<pending, reserved, inWorld>>
    BY <1>3, <2>3, <2>5, PlaceAssumption
    DEF PlaceOK, PlaceTypeOK, BotTypeOK, AddItem
  <2>6. CASE /\ m.kind = "take" /\ have' = SubItem(have, m.item)
             /\ UNCHANGED <<pending, reserved, inWorld>>
    BY <1>3, <2>3, <2>6 DEF PlaceOK, PlaceTypeOK, BotTypeOK, SubItem
  <2>7. CASE /\ m.kind = "inventory" /\ have' = m.amounts
             /\ UNCHANGED <<pending, reserved, inWorld>>
    BY <1>3, <2>3, <2>7 DEF PlaceOK, PlaceTypeOK, BotTypeOK
  <2> QED
    BY <2>1, <2>2, <2>4, <2>5, <2>6, <2>7
    DEF Receive, TileUpdate, ModifyItemInventory, InventoryState,
        WorldSelectMenu, PlaceOK, PlaceTypeOK, BotTypeOK, m
<1> QED BY <1>4, <1>5 DEF PlaceOK, PlaceTypeOK

(* Expiry takes the oldest places away, of each item as many as it counts. *)
LEMMA Expiring == ASSUME PlaceOK, Expire PROVE PlaceOK'
<1> USE DEF PlaceOK, PlaceTypeOK
<1>1. PICK q \in pending :
        /\ pending' = pending \ Late(q.n)
        /\ reserved' = [i \in Items |->
             Minus(reserved[i], Cardinality(LateOf(q.n, i)))]
  BY DEF Expire
<1>2. UNCHANGED <<have, inWorld, sent, wire, feed, owned, grid, events, play>>
  BY DEF Expire, server
<1>3. IsFiniteSet(pending')
  BY <1>1, FS_Difference DEF BotTypeOK
<1>4. ASSUME NEW j \in Items
      PROVE  reserved'[j] = Cardinality(PendingOf(j)') /\ reserved'[j] \in Nat
  <2>1. /\ IsFiniteSet(PendingOf(j)) /\ reserved[j] \in Nat
        /\ reserved[j] = Cardinality(PendingOf(j))
    BY FS_Subset DEF BotTypeOK, PendingOf, ReservedIsPending
  <2>2. /\ PendingOf(j)' = PendingOf(j) \ LateOf(q.n, j)
        /\ PendingOf(j) \cap LateOf(q.n, j) = LateOf(q.n, j)
        /\ LateOf(q.n, j) \in SUBSET PendingOf(j)
    BY <1>1 DEF PendingOf, Late, LateOf
  <2>3. /\ Cardinality(LateOf(q.n, j)) <= reserved[j]
        /\ Cardinality(LateOf(q.n, j)) \in Nat
    BY <2>1, <2>2, FS_Subset, FS_CardinalityType
  <2>4. Cardinality(PendingOf(j)') = reserved[j] - Cardinality(LateOf(q.n, j))
    <3>1. Cardinality(PendingOf(j) \ LateOf(q.n, j))
            = Cardinality(PendingOf(j))
              - Cardinality(PendingOf(j) \cap LateOf(q.n, j))
      BY <2>1, FS_Difference
    <3> QED BY <2>1, <2>2, <3>1
  <2> QED BY <1>1, <2>1, <2>3, <2>4 DEF Minus
<1>5. BotTypeOK'
  BY <1>1, <1>2, <1>3, <1>4 DEF BotTypeOK
<1> QED BY <1>2, <1>4, <1>5 DEF ReservedIsPending, ServerTypeOK

(* What the server does leaves the bot alone. *)
LEMMA ServerSteps ==
  ASSUME PlaceOK, UNCHANGED bot, ServerTypeOK' PROVE PlaceOK'
BY DEF PlaceOK, PlaceTypeOK, BotTypeOK, ReservedIsPending, PendingOf, bot

LEMMA Sends ==
  ASSUME PlaceOK, NEW m \in Packets, feed' = Append(feed, m)
  PROVE  feed' \in Seq(Packets)
BY AppendProperties DEF PlaceOK, PlaceTypeOK, ServerTypeOK

LEMMA Serving == ASSUME PlaceOK, Serve PROVE PlaceOK'
<1> DEFINE R == [tile : Tiles, item : Items]
           r == Head(wire)
<1>1. /\ wire # <<>> /\ wire' = Tail(wire) /\ UNCHANGED <<bot, events, play>>
  BY DEF Serve
<1>2. wire \in Seq(R) /\ (\A x \in R : x.tile \in Tiles /\ x.item \in Items)
  BY DEF PlaceOK, PlaceTypeOK, ServerTypeOK
<1> HIDE DEF R
<1>3. r \in R /\ wire' \in Seq(R)
  BY <1>1, <1>2, Queue
<1>4. CASE UNCHANGED <<grid, owned, feed>>
  BY <1>1, <1>3, <1>4, ServerSteps DEF PlaceOK, PlaceTypeOK, ServerTypeOK, R
<1>5. CASE /\ owned[r.item] > 0
           /\ grid' = [grid EXCEPT ![r.tile] = r.item]
           /\ owned' = [owned EXCEPT ![r.item] = @ - 1]
           /\ feed' = Append(feed, [kind |-> "tile", tile |-> r.tile,
                                    content |-> r.item])
  <2>1. [kind |-> "tile", tile |-> r.tile, content |-> r.item] \in Packets
    BY <1>2, <1>3, PacketKinds
  <2>2. feed' \in Seq(Packets)
    BY <1>5, <2>1, Sends
  <2>3. owned' \in [Items -> Nat] /\ grid' \in [Tiles -> Items \cup {Empty}]
    BY <1>2, <1>3, <1>5 DEF PlaceOK, PlaceTypeOK, ServerTypeOK
  <2> QED
    BY <1>1, <1>3, <2>2, <2>3, ServerSteps
    DEF PlaceOK, PlaceTypeOK, ServerTypeOK, R
<1> QED BY <1>4, <1>5 DEF Serve

LEMMA Happening ==
  ASSUME PlaceOK, NEW m \in Packets, feed' = Append(feed, m), Event,
         owned' \in [Items -> Nat], grid' \in [Tiles -> Items \cup {Empty}]
  PROVE  PlaceOK'
<1>1. feed' \in Seq(Packets)
  BY Sends
<1> QED
  BY <1>1, ServerSteps DEF Event, PlaceOK, PlaceTypeOK, ServerTypeOK

LEMMA PlaceStep == ASSUME PlaceOK, [PlaceNext]_placeVars PROVE PlaceOK'
<1> USE DEF PlaceOK, PlaceTypeOK
<1>1. CASE UNCHANGED placeVars
  BY <1>1
  DEF placeVars, bot, server, BotTypeOK, ServerTypeOK, ReservedIsPending, PendingOf
<1>2. ASSUME NEW i \in Items, Give(i) \/ Take(i) PROVE PlaceOK'
  <2>1. owned' \in [Items -> Nat] /\ UNCHANGED grid /\ Event
    <3>1. CASE Give(i)
      BY <3>1 DEF Give, ServerTypeOK
    <3>2. CASE Take(i)
      BY <3>2 DEF Take, ServerTypeOK
    <3> QED BY <1>2, <3>1, <3>2
  <2>2. CASE feed' = Append(feed, [kind |-> "give", item |-> i])
    BY <2>1, <2>2, Happening, PacketKinds DEF ServerTypeOK
  <2>3. CASE feed' = Append(feed, [kind |-> "take", item |-> i])
    BY <2>1, <2>3, Happening, PacketKinds DEF ServerTypeOK
  <2> QED BY <1>2, <2>2, <2>3 DEF Give, Take
<1>3. CASE SendInventory
  BY <1>3, Happening, PacketKinds DEF SendInventory, ServerTypeOK
<1>4. ASSUME NEW t \in Tiles, NEW c \in Items \cup {Empty}, Others(t, c)
      PROVE  PlaceOK'
  BY <1>4, Happening, PacketKinds DEF Others, ServerTypeOK
<1>5. ASSUME NEW k \in {"map", "menu"}, Move(k) PROVE PlaceOK'
  BY <1>5, Happening, PacketKinds DEF Move, ServerTypeOK
<1> QED
  BY <1>1, <1>2, <1>3, <1>4, <1>5, Placing, Receiving, Expiring, Serving
  DEF PlaceNext, Over

(* place_reserved_ counts the pending places, for any server. *)
THEOREM ReservationsCorrect == PlaceSpec => [](PlaceTypeOK /\ ReservedIsPending)
<1>1. PlaceOK /\ [PlaceNext]_placeVars => PlaceOK'
  BY PlaceStep
<1> QED BY <1>1, PlaceBegins, PTL DEF PlaceSpec, PlaceOK

----------------------------------------------------------------------------
(* No place is sent without an item to pay for it, in calm weather. What the *)
(* bot will believe after each packet on its way, amounts v and reservations *)
(* r, has more items than reservations, and never fewer free ones than now;  *)
(* at its end are the server's amounts, and a reservation for each request   *)
(* under way. That holds because the echo of a place resolves that very      *)
(* place: a tile is taken by the first place on it.                          *)
Requests == [tile : Tiles, item : Items]
Asked(q, i) == Cardinality({k \in DOMAIN q : q[k].item = i})
Ahead == 1..Len(feed) + 1
Last == Len(feed) + 1
Oldest == sent - Len(wire)

(* What a packet makes of amounts x and reservations s. *)
One(b) == IF b THEN 1 ELSE 0
Effect(m, x, s, y, z) ==
  \/ /\ m.kind = "tile" /\ m.content \in Items /\ x[m.content] > 0 /\ s[m.content] > 0
     /\ \A i \in Items : /\ y[i] = x[i] - One(i = m.content)
                        /\ z[i] = s[i] - One(i = m.content)
  \/ /\ m.kind = "give" /\ x[m.item] < MaxAmount
     /\ \A i \in Items : y[i] = x[i] + One(i = m.item) /\ z[i] = s[i]
  \/ /\ m.kind = "inventory" /\ m.amounts = x
     /\ y = x /\ z = s

Chain(v, r) ==
  /\ v \in [Ahead -> [Items -> Nat]] /\ r \in [Ahead -> [Items -> Nat]]
  /\ v[1] = have /\ r[1] = reserved /\ v[Last] = owned
  /\ \A k \in 1..Len(feed) : Effect(feed[k], v[k], r[k], v[k + 1], r[k + 1])
  /\ \A k \in Ahead, i \in Items : v[k][i] >= r[k][i]
  /\ \A k, l \in Ahead, i \in Items :
       k <= l => v[l][i] - r[l][i] >= v[k][i] - r[k][i]
  /\ \A i \in Items : r[Last][i] >= Asked(wire, i)

(* What is under way: the requests are the newest pending places, in order;  *)
(* a tile still empty has no older one and no echo; an echo is of the first  *)
(* place on its tile, and the only one there.                                *)
Ranked == \A p, q \in pending : p.n = q.n => p = q
OnWire ==
  /\ Oldest \in Nat
  /\ \A k \in DOMAIN wire :
       [n |-> Oldest + k - 1, tile |-> wire[k].tile, item |-> wire[k].item] \in pending
Vacant ==
  \A t \in Tiles : grid[t] = Empty =>
    /\ \A p \in At(t) : p.n >= Oldest
    /\ \A k \in DOMAIN feed : feed[k].kind = "tile" => feed[k].tile # t
Echoed ==
  \A k \in DOMAIN feed : feed[k].kind = "tile" =>
    /\ \E p \in First(feed[k].tile) : p.item = feed[k].content /\ p.n < Oldest
    /\ \A j \in DOMAIN feed : feed[j].kind = "tile" /\ feed[j].tile = feed[k].tile => j = k
Foreseen == \E v, r : Chain(v, r)

Queued == inWorld /\ Ranked /\ OnWire /\ Vacant /\ Echoed

SpendInv ==
  /\ PlaceOK
  /\ Calm => inWorld /\ Ranked /\ OnWire /\ Vacant /\ Echoed /\ Foreseen

LEMMA AskedType ==
  ASSUME NEW q \in Seq(Requests), NEW i \in Items
  PROVE  /\ IsFiniteSet({k \in DOMAIN q : q[k].item = i})
         /\ Asked(q, i) \in Nat
<1> DEFINE S == {k \in DOMAIN q : q[k].item = i}
<1>1. DOMAIN q = 1..Len(q) /\ Len(q) \in Nat
  OBVIOUS
<1>2. S \in SUBSET (1..Len(q)) /\ IsFiniteSet(1..Len(q))
  BY <1>1, FS_Interval
<1> HIDE DEF S
<1>3. IsFiniteSet(S)
  BY <1>2, FS_Subset
<1> QED
  BY <1>3, FS_CardinalityType DEF Asked, S

LEMMA AskedMore ==
  ASSUME NEW q \in Seq(Requests), NEW w \in Requests, NEW i \in Items
  PROVE  /\ Asked(q, i) \in Nat
         /\ Asked(Append(q, w), i) = Asked(q, i) + IF w.item = i THEN 1 ELSE 0
<1> DEFINE S == {k \in DOMAIN q : q[k].item = i}
           T == {k \in DOMAIN Append(q, w) : Append(q, w)[k].item = i}
           n == Len(q) + 1
<1>1. /\ DOMAIN q = 1..Len(q) /\ DOMAIN Append(q, w) = 1..n /\ Len(q) \in Nat
      /\ Append(q, w)[n] = w /\ \A k \in 1..Len(q) : Append(q, w)[k] = q[k]
  BY AppendProperties
<1>2. IsFiniteSet(S) /\ Cardinality(S) \in Nat
  BY AskedType DEF Asked
<1>3. CASE w.item = i
  <2>1. T = S \cup {n} /\ n \notin S
    BY <1>1, <1>3
  <2> HIDE DEF S, T, n
  <2>2. Cardinality(T) = Cardinality(S) + 1
    BY <1>2, <2>1, FS_AddElement
  <2> QED
    BY <1>2, <1>3, <2>2 DEF Asked, S, T
<1>4. CASE w.item # i
  <2>1. T = S
    BY <1>1, <1>4
  <2> HIDE DEF S, T
  <2>2. Cardinality(T) = Cardinality(S)
    BY <2>1
  <2>3. Asked(Append(q, w), i) = Cardinality(T) /\ Asked(q, i) = Cardinality(S)
    BY DEF Asked, S, T
  <2> QED
    BY <1>2, <1>4, <2>2, <2>3
<1> QED
  BY <1>3, <1>4

LEMMA AskedLess ==
  ASSUME NEW q \in Seq(Requests), q # <<>>, NEW i \in Items
  PROVE  Asked(Tail(q), i) = Asked(q, i) - IF Head(q).item = i THEN 1 ELSE 0
<1> DEFINE S == {k \in DOMAIN q : q[k].item = i}
           T == {k \in DOMAIN Tail(q) : Tail(q)[k].item = i}
           U == S \ {1}
           f == [k \in T |-> k + 1]
<1>1. /\ DOMAIN q = 1..Len(q) /\ Len(q) \in Nat \ {0} /\ Head(q) = q[1]
      /\ DOMAIN Tail(q) = 1..Len(q) - 1
      /\ \A k \in 1..Len(q) - 1 : Tail(q)[k] = q[k + 1]
  BY HeadTailProperties
<1>0. Tail(q) \in Seq(Requests)
  BY HeadTailProperties
<1>2. IsFiniteSet(S) /\ Cardinality(S) \in Nat /\ IsFiniteSet(T)
  BY <1>0, AskedType DEF Asked
<1>3. f \in Bijection(T, U)
  <2>1. f \in [T -> U]
    BY <1>1
  <2>2. \A a, b \in T : f[a] = f[b] => a = b
    BY <1>1
  <2>3. \A u \in U : \E a \in T : f[a] = u
    <3> SUFFICES ASSUME NEW u \in U PROVE \E a \in T : f[a] = u
      OBVIOUS
    <3>1. u - 1 \in T /\ f[u - 1] = u
      BY <1>1
    <3> QED
      BY <3>1
  <2> HIDE DEF f, T, U
  <2> QED
    BY <2>1, <2>2, <2>3, Fun_IsBij
<1>4. Cardinality(U) = Cardinality(T)
  <2> HIDE DEF f, T, U
  <2> QED
    BY <1>2, <1>3, FS_Bijection, SMTT(30) DEF ExistsBijection
<1>5. 1 \in S <=> Head(q).item = i
  BY <1>1
<1> HIDE DEF S, T
<1>6. Cardinality(U) = IF 1 \in S THEN Cardinality(S) - 1 ELSE Cardinality(S)
  BY <1>2, FS_RemoveElement
<1>7. Cardinality(T) = Cardinality(S) - IF Head(q).item = i THEN 1 ELSE 0
  BY <1>2, <1>4, <1>5, <1>6
<1> QED
  BY <1>7 DEF Asked, S, T

LEMMA Spending ==
  ASSUME SpendInv PROVE NeverOverspent
<1>1. CASE ~ Calm
  BY <1>1 DEF NeverOverspent, Covered, Settled
<1>2. CASE Calm
  <2>1. PICK v, r : Chain(v, r)
    BY <1>2 DEF SpendInv, Foreseen
  <2>0. feed \in Seq(Packets) /\ wire \in Seq(Requests)
    BY DEF SpendInv, PlaceOK, PlaceTypeOK, ServerTypeOK, Requests
  <2>2. Len(feed) \in Nat /\ Last \in Ahead
    BY <2>0 DEF Last, Ahead
  <2>3. ASSUME NEW i \in Items PROVE Asked(wire, i) <= owned[i]
    <3>1. /\ v[Last][i] >= r[Last][i] /\ r[Last][i] >= Asked(wire, i)
          /\ v[Last] = owned /\ v[Last][i] \in Nat /\ r[Last][i] \in Nat
      BY <2>1, <2>2 DEF Chain
    <3>2. Asked(wire, i) \in Nat
      BY <2>0, AskedType
    <3> QED
      BY <3>1, <3>2
  <2>4. feed = <<>> => have = owned
    BY <2>1 DEF Chain, Last
  <2> QED
    BY <2>3, <2>4 DEF NeverOverspent, Covered, Settled, Asked
<1> QED
  BY <1>1, <1>2

(* What a calm bot's steps start from. *)
LEMMA SpendTypes ==
  ASSUME SpendInv
  PROVE  /\ feed \in Seq(Packets) /\ wire \in Seq(Requests)
         /\ Len(feed) \in Nat /\ Len(wire) \in Nat /\ sent \in Nat
         /\ DOMAIN feed = 1..Len(feed) /\ DOMAIN wire = 1..Len(wire)
         /\ have \in [Items -> Nat] /\ reserved \in [Items -> Nat] /\ owned \in [Items -> Nat]
         /\ grid \in [Tiles -> Items \cup {Empty}]
         /\ \A p \in pending : p.n \in 0..sent - 1 /\ p.tile \in Tiles /\ p.item \in Items
         /\ Last = Len(feed) + 1 /\ Ahead = 1..Len(feed) + 1 /\ Last \in Ahead /\ 1 \in Ahead
         /\ \A k \in 1..Len(wire) : wire[k].tile \in Tiles /\ wire[k].item \in Items
<1>1. /\ feed \in Seq(Packets) /\ wire \in Seq(Requests) /\ sent \in Nat
      /\ have \in [Items -> Nat] /\ reserved \in [Items -> Nat] /\ owned \in [Items -> Nat]
      /\ grid \in [Tiles -> Items \cup {Empty}]
      /\ \A p \in pending : p.n \in 0..sent - 1 /\ p.tile \in Tiles /\ p.item \in Items
  BY DEF SpendInv, PlaceOK, PlaceTypeOK, ServerTypeOK, BotTypeOK, Requests
<1>2. \A w \in Requests : w.tile \in Tiles /\ w.item \in Items
  BY DEF Requests
<1> HIDE DEF Requests
<1>3. /\ Len(feed) \in Nat /\ Len(wire) \in Nat
      /\ DOMAIN feed = 1..Len(feed) /\ DOMAIN wire = 1..Len(wire)
      /\ \A k \in 1..Len(wire) : wire[k] \in Requests
  BY <1>1
<1> QED
  BY <1>1, <1>2, <1>3 DEF Last, Ahead

(* A place: every reservation ahead grows by one, and there is room for it.  *)
LEMMA PlaceForeseen ==
  ASSUME SpendInv, Calm, NEW t \in Tiles, NEW i \in Items, Place(t, i)
  PROVE  Foreseen'
<1>0. /\ Len(feed) \in Nat /\ Last = Len(feed) + 1 /\ Ahead = 1..Len(feed) + 1
      /\ have \in [Items -> Nat] /\ reserved \in [Items -> Nat] /\ wire \in Seq(Requests)
  BY SpendTypes
<1>1. PICK v, r : Chain(v, r)
  BY DEF SpendInv, Foreseen
<1> DEFINE w == [tile |-> t, item |-> i]
<1>s. PICK s : s = [k \in Ahead |-> [r[k] EXCEPT ![i] = @ + 1]]
  OBVIOUS
<1>2. /\ have[i] > reserved[i] /\ reserved' = [reserved EXCEPT ![i] = @ + 1]
      /\ wire' = Append(wire, w) /\ UNCHANGED <<have, feed, owned>>
  BY DEF Place, server
<1>a. /\ v \in [Ahead -> [Items -> Nat]] /\ r \in [Ahead -> [Items -> Nat]]
      /\ s \in [Ahead -> [Items -> Nat]]
  BY <1>1, <1>s DEF Chain
<1>b. \A k \in Ahead : s[k] = [r[k] EXCEPT ![i] = @ + 1]
  BY <1>s
<1> HIDE DEF w
<1>c. \A k \in Ahead : r[k] \in [Items -> Nat] /\ v[k] \in [Items -> Nat]
  BY <1>a
<1>3. \A k \in Ahead, j \in Items :
        /\ s[k][j] = IF j = i THEN r[k][j] + 1 ELSE r[k][j]
        /\ v[k][j] \in Nat /\ r[k][j] \in Nat
  BY <1>b, <1>c, ZenonT(30)
<1>d. 1 \in Ahead /\ Last \in Ahead
  BY <1>0
<1>4. s[1] = reserved' /\ v[1] = have' /\ v[Last] = owned'
  BY <1>1, <1>2, <1>b, <1>d DEF Chain
<1>5. \A k \in 1..Len(feed) : Effect(feed[k], v[k], s[k], v[k + 1], s[k + 1])
  <2> SUFFICES ASSUME NEW k \in 1..Len(feed)
               PROVE  Effect(feed[k], v[k], s[k], v[k + 1], s[k + 1])
    OBVIOUS
  <2>1. k \in Ahead /\ k + 1 \in Ahead
    BY <1>0
  <2>2. Effect(feed[k], v[k], r[k], v[k + 1], r[k + 1])
    BY <1>1 DEF Chain
  <2>3. \A j \in Items :
          /\ s[k][j] = r[k][j] + One(j = i) /\ s[k + 1][j] = r[k + 1][j] + One(j = i)
          /\ r[k][j] \in Nat /\ r[k + 1][j] \in Nat
    BY <1>3, <2>1 DEF One
  <2>4. s[k + 1] = s[k] <=> \A j \in Items : s[k + 1][j] = s[k][j]
    <3>1. s[k] \in [Items -> Nat] /\ s[k + 1] \in [Items -> Nat]
      BY <1>a, <2>1
    <3> QED
      BY <3>1
  <2> DEFINE m == feed[k]
             y == v[k + 1]
             z == r[k + 1]
             u == s[k + 1]
  <2> HIDE DEF m, y, z, u
  <2>5. \A j \in Items :
          /\ s[k][j] = r[k][j] + One(j = i) /\ u[j] = z[j] + One(j = i)
          /\ r[k][j] \in Nat /\ z[j] \in Nat
    BY <2>3 DEF z, u
  <2>6. Effect(m, v[k], r[k], y, z)
    BY <2>2 DEF m, y, z
  <2>7. CASE m.kind = "tile" /\ m.content \in Items
    <3>1. /\ v[k][m.content] > 0 /\ r[k][m.content] > 0
          /\ \A j \in Items : /\ y[j] = v[k][j] - One(j = m.content)
                            /\ z[j] = r[k][j] - One(j = m.content)
      BY <2>6, <2>7 DEF Effect
    <3>2. One(m.content = i) \in Nat /\ \A j \in Items : One(j = i) \in Nat /\ One(j = m.content) \in Nat
      BY DEF One
    <3>3. s[k][m.content] > 0
      BY <2>5, <2>7, <3>1, <3>2
    <3>4. \A j \in Items : u[j] = s[k][j] - One(j = m.content)
      BY <2>5, <3>1, <3>2
    <3>5. Effect(m, v[k], s[k], y, u)
      BY <2>7, <3>1, <3>3, <3>4 DEF Effect
    <3> QED
      BY <3>5 DEF m, y, u
  <2>8. CASE m.kind = "give"
    <3>1. /\ v[k][m.item] < MaxAmount
          /\ \A j \in Items : y[j] = v[k][j] + One(j = m.item) /\ z[j] = r[k][j]
      BY <2>6, <2>8 DEF Effect
    <3>2. \A j \in Items : u[j] = s[k][j]
      BY <2>5, <3>1
    <3>3. Effect(m, v[k], s[k], y, u)
      BY <2>8, <3>1, <3>2 DEF Effect
    <3> QED
      BY <3>3 DEF m, y, u
  <2>9. CASE m.kind = "inventory"
    <3>1. m.amounts = v[k] /\ y = v[k] /\ z = r[k]
      BY <2>6, <2>9 DEF Effect
    <3>2. u = s[k]
      BY <2>4, <2>5, <3>1 DEF u
    <3>3. Effect(m, v[k], s[k], y, u)
      BY <2>9, <3>1, <3>2 DEF Effect
    <3> QED
      BY <3>3 DEF m, y, u
  <2> QED
    BY <2>6, <2>7, <2>8, <2>9 DEF Effect
<1>6. \A k \in Ahead, j \in Items : v[k][j] >= s[k][j]
  <2> SUFFICES ASSUME NEW k \in Ahead, NEW j \in Items PROVE v[k][j] >= s[k][j]
    OBVIOUS
  <2>1. /\ v[k][j] \in Nat /\ r[k][j] \in Nat /\ v[k][j] >= r[k][j]
        /\ s[k][j] = IF j = i THEN r[k][j] + 1 ELSE r[k][j]
    BY <1>1, <1>3 DEF Chain
  <2>2. 1 <= k
    BY <1>0
  <2>3. v[k][i] - r[k][i] >= v[1][i] - r[1][i]
    BY <1>1, <1>d, <2>2 DEF Chain
  <2>4. v[1][i] = have[i] /\ r[1][i] = reserved[i]
    BY <1>1 DEF Chain
  <2>5. v[k][i] \in Nat /\ r[k][i] \in Nat /\ have[i] \in Nat /\ reserved[i] \in Nat
    BY <1>0, <1>3
  <2>6. v[k][i] >= r[k][i] + 1
    BY <1>2, <2>3, <2>4, <2>5
  <2> QED
    BY <2>1, <2>6
<1>7. \A k, l \in Ahead, j \in Items : k <= l => v[l][j] - s[l][j] >= v[k][j] - s[k][j]
  <2> SUFFICES ASSUME NEW k \in Ahead, NEW l \in Ahead, NEW j \in Items, k <= l
               PROVE  v[l][j] - s[l][j] >= v[k][j] - s[k][j]
    OBVIOUS
  <2>1. v[l][j] - r[l][j] >= v[k][j] - r[k][j]
    BY <1>1 DEF Chain
  <2>2. /\ v[l][j] \in Nat /\ r[l][j] \in Nat /\ v[k][j] \in Nat /\ r[k][j] \in Nat
        /\ s[l][j] = IF j = i THEN r[l][j] + 1 ELSE r[l][j]
        /\ s[k][j] = IF j = i THEN r[k][j] + 1 ELSE r[k][j]
    BY <1>3
  <2> QED
    BY <2>1, <2>2
<1>8. \A j \in Items : s[Last][j] >= Asked(wire', j)
  <2> SUFFICES ASSUME NEW j \in Items PROVE s[Last][j] >= Asked(wire', j)
    OBVIOUS
  <2>1. w \in Requests /\ w.item = i
    BY DEF Requests, w
  <2>2. Asked(wire', j) = Asked(wire, j) + IF i = j THEN 1 ELSE 0
    BY <1>0, <1>2, <2>1, AskedMore
  <2>3. Asked(wire, j) \in Nat
    BY <1>0, AskedType
  <2>4. r[Last][j] >= Asked(wire, j)
    BY <1>1 DEF Chain
  <2>5. r[Last][j] \in Nat /\ s[Last][j] = IF j = i THEN r[Last][j] + 1 ELSE r[Last][j]
    BY <1>3, <1>d
  <2> QED
    BY <2>2, <2>3, <2>4, <2>5
<1>9. Ahead' = Ahead /\ Last' = Last /\ feed' = feed
  BY <1>2 DEF Ahead, Last
<1>10. Chain(v, s)'
  <2>1. v[1] = have /\ v[Last] = owned
    BY <1>1 DEF Chain
  <2> QED
    BY <1>2, <1>a, <1>4, <1>5, <1>6, <1>7, <1>8, <1>9, <2>1 DEF Chain
<1> QED
  BY <1>10 DEF Foreseen

(* A packet more on its way: the chain is one longer. *)
LEMMA Extend ==
  ASSUME SpendInv, NEW v, NEW r, Chain(v, r), NEW m,
         NEW y \in [Items -> Nat], NEW z \in [Items -> Nat],
         Effect(m, owned, r[Last], y, z),
         \A i \in Items : /\ y[i] >= z[i] /\ z[i] >= Asked(wire', i)
                         /\ y[i] - z[i] >= owned[i] - r[Last][i],
         feed' = Append(feed, m), owned' = y, UNCHANGED <<have, reserved>>
  PROVE  Foreseen'
<1>0. /\ Len(feed) \in Nat /\ Last = Len(feed) + 1 /\ Ahead = 1..Len(feed) + 1
      /\ owned \in [Items -> Nat] /\ feed \in Seq(Packets)
  BY SpendTypes
<1>1. /\ Len(feed') = Len(feed) + 1 /\ feed'[Last] = m
      /\ \A k \in 1..Len(feed) : feed'[k] = feed[k]
  BY <1>0
<1>2. /\ Last' = Last + 1 /\ Ahead' = 1..Last + 1 /\ Last \in Nat
      /\ \A k \in Ahead : k \in Ahead' /\ k # Last + 1
  BY <1>0, <1>1 DEF Last, Ahead
<1>3. /\ v \in [Ahead -> [Items -> Nat]] /\ r \in [Ahead -> [Items -> Nat]]
      /\ v[1] = have /\ r[1] = reserved /\ v[Last] = owned
  BY DEF Chain
<1>4. PICK a : a = [k \in 1..Last + 1 |-> IF k = Last + 1 THEN y ELSE v[k]]
  OBVIOUS
<1>5. PICK b : b = [k \in 1..Last + 1 |-> IF k = Last + 1 THEN z ELSE r[k]]
  OBVIOUS
<1>6. \A k \in Ahead : a[k] = v[k] /\ b[k] = r[k]
  BY <1>0, <1>4, <1>5
<1>7. a[Last + 1] = y /\ b[Last + 1] = z
  BY <1>0, <1>4, <1>5
<1>8. a \in [Ahead' -> [Items -> Nat]] /\ b \in [Ahead' -> [Items -> Nat]]
  <2>1. \A k \in 1..Last + 1 : k = Last + 1 \/ k \in Ahead
    BY <1>0
  <2>2. \A k \in 1..Last + 1 : a[k] \in [Items -> Nat] /\ b[k] \in [Items -> Nat]
    BY <1>3, <1>6, <1>7, <2>1
  <2> QED
    BY <1>2, <1>4, <1>5, <2>2
<1>9. /\ 1 \in Ahead /\ Last \in Ahead
      /\ \A k \in Ahead' : k = Last + 1 \/ k \in Ahead
  BY <1>0, <1>2
<1>10. \A k \in 1..Len(feed') : Effect(feed'[k], a[k], b[k], a[k + 1], b[k + 1])
  <2> SUFFICES ASSUME NEW k \in 1..Len(feed')
               PROVE  Effect(feed'[k], a[k], b[k], a[k + 1], b[k + 1])
    OBVIOUS
  <2>1. CASE k \in 1..Len(feed)
    <3>1. k \in Ahead /\ k + 1 \in Ahead
      BY <1>0, <2>1
    <3>2. Effect(feed[k], v[k], r[k], v[k + 1], r[k + 1])
      BY <2>1 DEF Chain
    <3> QED
      BY <1>1, <1>6, <2>1, <3>1, <3>2
  <2>2. CASE k = Last
    <3>1. a[k] = owned /\ b[k] = r[Last] /\ a[k + 1] = y /\ b[k + 1] = z /\ feed'[k] = m
      BY <1>1, <1>3, <1>6, <1>7, <1>9, <2>2
    <3> QED
      BY <3>1
  <2> QED
    BY <1>0, <1>1, <2>1, <2>2
<1>11. \A k \in Ahead, i \in Items :
         /\ v[k][i] \in Nat /\ r[k][i] \in Nat /\ v[k][i] >= r[k][i]
         /\ owned[i] - r[Last][i] >= v[k][i] - r[k][i]
         /\ y[i] \in Nat /\ z[i] \in Nat /\ owned[i] \in Nat /\ r[Last][i] \in Nat
  <2> SUFFICES ASSUME NEW k \in Ahead, NEW i \in Items
               PROVE  /\ v[k][i] \in Nat /\ r[k][i] \in Nat /\ v[k][i] >= r[k][i]
                      /\ owned[i] - r[Last][i] >= v[k][i] - r[k][i]
                      /\ y[i] \in Nat /\ z[i] \in Nat /\ owned[i] \in Nat
                      /\ r[Last][i] \in Nat
    OBVIOUS
  <2>1. /\ v[k] \in [Items -> Nat] /\ r[k] \in [Items -> Nat] /\ r[Last] \in [Items -> Nat]
    BY <1>3, <1>9
  <2>2. k <= Last
    BY <1>0
  <2>3. v[Last][i] - r[Last][i] >= v[k][i] - r[k][i] /\ v[k][i] >= r[k][i]
    BY <1>9, <2>2 DEF Chain
  <2> QED
    BY <1>0, <1>3, <2>1, <2>3
<1>12. \A k \in Ahead', i \in Items : a[k][i] >= b[k][i]
  <2> SUFFICES ASSUME NEW k \in Ahead', NEW i \in Items PROVE a[k][i] >= b[k][i]
    OBVIOUS
  <2>1. CASE k \in Ahead
    BY <1>6, <1>11, <2>1
  <2>2. CASE k = Last + 1
    BY <1>7, <2>2
  <2> QED
    BY <1>9, <2>1, <2>2
<1>13. \A k, l \in Ahead', i \in Items :
         k <= l => a[l][i] - b[l][i] >= a[k][i] - b[k][i]
  <2> SUFFICES ASSUME NEW k \in Ahead', NEW l \in Ahead', NEW i \in Items, k <= l
               PROVE  a[l][i] - b[l][i] >= a[k][i] - b[k][i]
    OBVIOUS
  <2>1. CASE l \in Ahead
    <3>1. k \in Ahead
      BY <1>0, <1>2, <2>1
    <3>2. v[l][i] - r[l][i] >= v[k][i] - r[k][i]
      BY <2>1, <3>1 DEF Chain
    <3> QED
      BY <1>6, <2>1, <3>1, <3>2
  <2>2. CASE l = Last + 1 /\ k = Last + 1
    BY <1>7, <1>9, <1>11, <2>2
  <2>3. CASE l = Last + 1 /\ k \in Ahead
    <3>1. owned[i] - r[Last][i] >= v[k][i] - r[k][i]
      BY <1>11, <2>3
    <3>2. y[i] - z[i] >= owned[i] - r[Last][i]
      OBVIOUS
    <3>3. y[i] - z[i] >= v[k][i] - r[k][i]
      BY <1>11, <2>3, <3>1, <3>2
    <3> QED
      BY <1>6, <1>7, <2>3, <3>3
  <2> QED
    BY <1>9, <2>1, <2>2, <2>3
<1>14. a[1] = have' /\ b[1] = reserved' /\ a[Last'] = owned' /\ b[Last'] = z
  BY <1>2, <1>3, <1>6, <1>7, <1>9
<1>15. Chain(a, b)'
  BY <1>8, <1>10, <1>12, <1>13, <1>14 DEF Chain
<1> QED
  BY <1>15 DEF Foreseen

(* The packet in front is handled: the chain loses its first link. *)
LEMMA Shift ==
  ASSUME SpendInv, NEW v, NEW r, Chain(v, r), feed # <<>>,
         feed' = Tail(feed), have' = v[2], reserved' = r[2], UNCHANGED <<wire, owned>>
  PROVE  Foreseen'
<1>0. /\ Len(feed) \in Nat \ {0} /\ Last = Len(feed) + 1 /\ Ahead = 1..Len(feed) + 1
      /\ feed \in Seq(Packets)
  <2>1. feed \in Seq(Packets) /\ Last = Len(feed) + 1 /\ Ahead = 1..Len(feed) + 1
    BY SpendTypes
  <2> QED
    BY <2>1
<1>1. /\ Len(feed') = Len(feed) - 1
      /\ \A k \in 1..Len(feed) - 1 : feed'[k] = feed[k + 1]
  BY <1>0, HeadTailProperties
<1>2. Last' = Len(feed) /\ Ahead' = 1..Len(feed)
  BY <1>0, <1>1 DEF Last, Ahead
<1>3. v \in [Ahead -> [Items -> Nat]] /\ r \in [Ahead -> [Items -> Nat]]
  BY DEF Chain
<1>4. PICK a : a = [k \in 1..Len(feed) |-> v[k + 1]]
  OBVIOUS
<1>5. PICK b : b = [k \in 1..Len(feed) |-> r[k + 1]]
  OBVIOUS
<1>6. \A k \in Ahead' : k \in Nat /\ k + 1 \in Ahead /\ a[k] = v[k + 1] /\ b[k] = r[k + 1]
  BY <1>0, <1>2, <1>4, <1>5
<1>7. a \in [Ahead' -> [Items -> Nat]] /\ b \in [Ahead' -> [Items -> Nat]]
  <2>1. \A k \in 1..Len(feed) : v[k + 1] \in [Items -> Nat] /\ r[k + 1] \in [Items -> Nat]
    BY <1>2, <1>3, <1>6
  <2> QED
    BY <1>2, <1>4, <1>5, <2>1
<1>8. a[1] = have' /\ b[1] = reserved' /\ a[Last'] = v[Last] /\ b[Last'] = r[Last]
  BY <1>0, <1>2, <1>4, <1>5
<1>9. \A k \in 1..Len(feed') : Effect(feed'[k], a[k], b[k], a[k + 1], b[k + 1])
  <2> SUFFICES ASSUME NEW k \in 1..Len(feed')
               PROVE  Effect(feed'[k], a[k], b[k], a[k + 1], b[k + 1])
    OBVIOUS
  <2>1. k \in Ahead' /\ k + 1 \in Ahead' /\ k + 1 \in 1..Len(feed)
    BY <1>0, <1>1, <1>2
  <2>2. Effect(feed[k + 1], v[k + 1], r[k + 1], v[(k + 1) + 1], r[(k + 1) + 1])
    BY <2>1 DEF Chain
  <2>3. feed'[k] = feed[k + 1]
    BY <1>1
  <2>4. /\ a[k] = v[k + 1] /\ b[k] = r[k + 1]
        /\ a[k + 1] = v[(k + 1) + 1] /\ b[k + 1] = r[(k + 1) + 1]
    BY <1>6, <2>1
  <2> QED
    BY <2>2, <2>3, <2>4
<1>10. \A k \in Ahead', i \in Items : a[k][i] >= b[k][i]
  BY <1>6 DEF Chain
<1>11. \A k, l \in Ahead', i \in Items :
         k <= l => a[l][i] - b[l][i] >= a[k][i] - b[k][i]
  <2> SUFFICES ASSUME NEW k \in Ahead', NEW l \in Ahead', NEW i \in Items, k <= l
               PROVE  a[l][i] - b[l][i] >= a[k][i] - b[k][i]
    OBVIOUS
  <2>1. k + 1 \in Ahead /\ l + 1 \in Ahead /\ k + 1 <= l + 1
    BY <1>6
  <2>2. v[l + 1][i] - r[l + 1][i] >= v[k + 1][i] - r[k + 1][i]
    BY <2>1 DEF Chain
  <2> QED
    BY <1>6, <2>2
<1>12. v[Last] = owned /\ \A i \in Items : r[Last][i] >= Asked(wire, i)
  BY DEF Chain
<1>13. Chain(a, b)'
  BY <1>7, <1>8, <1>9, <1>10, <1>11, <1>12 DEF Chain
<1> QED
  BY <1>13 DEF Foreseen

(* The server answers a request: its echo, or nothing. *)
LEMMA ServeForeseen ==
  ASSUME SpendInv, Calm, Serve PROVE Foreseen'
<1>0. /\ Len(feed) \in Nat /\ Last = Len(feed) + 1 /\ Ahead = 1..Len(feed) + 1
      /\ owned \in [Items -> Nat] /\ wire \in Seq(Requests) /\ Last \in Ahead
      /\ Head(wire).item \in Items
  <2>1. wire # <<>>
    BY DEF Serve
  <2>2. Head(wire) = wire[1] /\ 1 \in 1..Len(wire)
    BY <2>1, SpendTypes
  <2> QED
    BY <2>2, SpendTypes
<1>1. PICK v, r : Chain(v, r)
  BY DEF SpendInv, Foreseen
<1> DEFINE w == Head(wire)
           c == w.item
<1>2. wire # <<>> /\ wire' = Tail(wire) /\ UNCHANGED <<have, reserved>>
  BY DEF Serve, bot
<1> HIDE DEF c
<1>3. \A j \in Items : /\ Asked(wire, j) \in Nat /\ Asked(wire', j) \in Nat
                      /\ Asked(wire', j) = Asked(wire, j) - One(j = c)
  <2> SUFFICES ASSUME NEW j \in Items
               PROVE  /\ Asked(wire, j) \in Nat /\ Asked(wire', j) \in Nat
                      /\ Asked(wire', j) = Asked(wire, j) - One(j = c)
    OBVIOUS
  <2>1. Tail(wire) \in Seq(Requests)
    BY <1>0, <1>2, HeadTailProperties
  <2>2. Asked(wire, j) \in Nat /\ Asked(wire', j) \in Nat
    BY <1>0, <1>2, <2>1, AskedType
  <2>3. Asked(wire', j) = Asked(wire, j) - IF w.item = j THEN 1 ELSE 0
    BY <1>0, <1>2, AskedLess
  <2> QED
    BY <2>2, <2>3 DEF One, c
<1>4. /\ v[Last] = owned /\ r[Last] \in [Items -> Nat]
      /\ \A j \in Items : owned[j] >= r[Last][j] /\ r[Last][j] >= Asked(wire, j)
  BY <1>0, <1>1 DEF Chain
<1>5. CASE grid[w.tile] = Empty /\ owned[w.item] > 0
  <2> DEFINE m == [kind |-> "tile", tile |-> w.tile, content |-> w.item]
             z == [j \in Items |-> r[Last][j] - One(j = c)]
             y == [owned EXCEPT ![w.item] = @ - 1]
  <2>1. feed' = Append(feed, m) /\ owned' = y
    BY <1>5 DEF Serve
  <2>2. c \in Items /\ m.kind = "tile" /\ m.content = c /\ owned[c] > 0
    BY <1>0, <1>5 DEF c
  <2>3. \A j \in Items : y[j] = owned[j] - One(j = c)
    BY <1>0 DEF One, c
  <2>4. r[Last][c] > 0
    BY <1>3, <1>4, <2>2 DEF One
  <2>5. \A j \in Items : owned[j] \in Nat /\ r[Last][j] \in Nat
    BY <1>0, <1>4
  <2>6. y \in [Items -> Nat]
    BY <1>0, <2>2, <2>5 DEF c
  <2>7. \A j \in Items : z[j] = r[Last][j] - One(j = c)
    OBVIOUS
  <2>8. \A j \in Items : z[j] \in Nat
    BY <2>4, <2>5, <2>7 DEF One
  <2>9. z \in [Items -> Nat]
    BY <2>8
  <2> HIDE DEF y, z, m
  <2>10. Effect(m, owned, r[Last], y, z)
    BY <2>2, <2>3, <2>4, <2>7 DEF Effect
  <2>11. \A j \in Items : /\ y[j] >= z[j] /\ z[j] >= Asked(wire', j)
                         /\ y[j] - z[j] >= owned[j] - r[Last][j]
    BY <1>3, <1>4, <2>3, <2>5, <2>7 DEF One
  <2> QED
    BY <1>1, <1>2, <2>1, <2>6, <2>9, <2>10, <2>11, Extend
<1>6. CASE ~ (grid[w.tile] = Empty /\ owned[w.item] > 0)
  <2>1. UNCHANGED <<feed, owned>>
    BY <1>6 DEF Serve
  <2>2. Ahead' = Ahead /\ Last' = Last
    BY <2>1 DEF Ahead, Last
  <2>3. r[Last] \in [Items -> Nat] /\ \A j \in Items : r[Last][j] >= Asked(wire', j)
    <3>1. \A j \in Items : r[Last][j] \in Nat
      BY <1>4
    <3> QED
      BY <1>3, <1>4, <3>1 DEF One
  <2>4. Chain(v, r)'
    BY <1>1, <1>2, <2>1, <2>2, <2>3 DEF Chain
  <2> QED
    BY <2>4 DEF Foreseen
<1> QED
  BY <1>5, <1>6

(* Items the server gives, and the inventory it sends. *)
LEMMA GiveForeseen ==
  ASSUME SpendInv, Calm, NEW c \in Items, Give(c) PROVE Foreseen'
<1>0. owned \in [Items -> Nat] /\ Last \in Ahead
  BY SpendTypes
<1>1. PICK v, r : Chain(v, r)
  BY DEF SpendInv, Foreseen
<1> DEFINE m == [kind |-> "give", item |-> c]
           y == [owned EXCEPT ![c] = @ + 1]
<1>2. /\ feed' = Append(feed, m) /\ owned' = y /\ owned[c] < MaxAmount
      /\ UNCHANGED <<have, reserved, wire>>
  BY DEF Give, Event, bot
<1>3. /\ v[Last] = owned /\ r[Last] \in [Items -> Nat]
      /\ \A j \in Items : owned[j] >= r[Last][j] /\ r[Last][j] >= Asked(wire, j)
  BY <1>0, <1>1 DEF Chain
<1>4. y \in [Items -> Nat] /\ \A j \in Items : y[j] = owned[j] + One(j = c)
  BY <1>0 DEF One
<1>5. \A j \in Items : owned[j] \in Nat /\ r[Last][j] \in Nat
  BY <1>0, <1>3
<1>6. m.kind = "give" /\ m.item = c
  OBVIOUS
<1> HIDE DEF y, m
<1>7. Effect(m, owned, r[Last], y, r[Last])
  BY <1>2, <1>4, <1>6 DEF Effect
<1>8. \A j \in Items : /\ y[j] >= r[Last][j] /\ r[Last][j] >= Asked(wire', j)
                      /\ y[j] - r[Last][j] >= owned[j] - r[Last][j]
  BY <1>2, <1>3, <1>4, <1>5, SMTT(30) DEF One
<1> QED
  BY <1>1, <1>2, <1>3, <1>4, <1>7, <1>8, Extend

LEMMA SendForeseen ==
  ASSUME SpendInv, Calm, SendInventory PROVE Foreseen'
<1>0. owned \in [Items -> Nat] /\ Last \in Ahead
  BY SpendTypes
<1>1. PICK v, r : Chain(v, r)
  BY DEF SpendInv, Foreseen
<1> DEFINE m == [kind |-> "inventory", amounts |-> owned]
<1>2. feed' = Append(feed, m) /\ owned' = owned /\ UNCHANGED <<have, reserved, wire>>
  BY DEF SendInventory, Event, bot
<1>3. /\ r[Last] \in [Items -> Nat] /\ v[Last] = owned
      /\ \A j \in Items : owned[j] >= r[Last][j] /\ r[Last][j] >= Asked(wire, j)
  BY <1>0, <1>1 DEF Chain
<1>4. Effect(m, owned, r[Last], owned, r[Last])
  BY DEF Effect
<1>5. \A j \in Items : owned[j] - r[Last][j] >= owned[j] - r[Last][j]
  BY <1>0, <1>3
<1> HIDE DEF m
<1> QED
  BY <1>0, <1>1, <1>2, <1>3, <1>4, <1>5, Extend

(* What the bot makes of the packet in front: what was foreseen; an echo     *)
(* resolves the place it echoes.                                             *)
LEMMA Received ==
  ASSUME SpendInv, Calm, Receive, NEW v, NEW r, Chain(v, r)
  PROVE  /\ feed # <<>> /\ feed' = Tail(feed) /\ have' = v[2] /\ reserved' = r[2]
         /\ UNCHANGED <<inWorld, sent, wire, owned, grid, play>>
         /\ \/ /\ Head(feed).kind = "tile"
               /\ \E p \in First(Head(feed).tile) : p.n < Oldest /\ pending' = pending \ {p}
            \/ pending' = pending /\ Head(feed).kind # "tile"
<1> DEFINE m == Head(feed)
<1>1. /\ feed # <<>> /\ feed' = Tail(feed) /\ UNCHANGED <<sent, wire, owned, grid, play>>
      /\ \/ TileUpdate(m) \/ ModifyItemInventory(m) \/ InventoryState(m)
         \/ WorldSelectMenu(m) \/ (m.kind = "map" /\ LoadMap)
  BY DEF Receive, server
<1>2. /\ m = feed[1] /\ 1 \in 1..Len(feed) /\ 1 \in DOMAIN feed
      /\ have \in [Items -> Nat] /\ reserved \in [Items -> Nat] /\ m \in Packets
      /\ 1 \in Ahead /\ 1 + 1 \in Ahead /\ 1 + 1 = 2
      /\ \A p \in pending : p.n \in Nat
  <2>1. feed \in Seq(Packets) /\ Len(feed) \in Nat /\ Ahead = 1..Len(feed) + 1
    BY SpendTypes
  <2>2. m = feed[1] /\ 1 \in 1..Len(feed) /\ m \in Packets /\ 1 \in DOMAIN feed
    BY <1>1, <2>1
  <2>3. have \in [Items -> Nat] /\ reserved \in [Items -> Nat]
    BY SpendTypes
  <2>4. \A p \in pending : p.n \in 0..sent - 1
    BY SpendTypes
  <2> QED
    BY <2>1, <2>2, <2>3, <2>4
<1> HIDE DEF m
<1>3. /\ v[1] = have /\ r[1] = reserved
      /\ v[2] \in [Items -> Nat] /\ r[2] \in [Items -> Nat]
  BY <1>2 DEF Chain
<1>4. Effect(m, have, reserved, v[2], r[2])
  <2>1. Effect(feed[1], v[1], r[1], v[1 + 1], r[1 + 1])
    BY <1>2 DEF Chain
  <2> QED
    BY <1>2, <1>3, <2>1
<1>5. m.kind \in {"tile", "give", "inventory"}
  BY <1>4 DEF Effect
<1>6. CASE m.kind = "tile"
  <2>1. TileUpdate(m)
    BY <1>1, <1>6 DEF ModifyItemInventory, InventoryState, WorldSelectMenu
  <2>2. inWorld /\ inWorld' = inWorld /\ Confirm(m.tile, m.content)
    BY <2>1 DEF TileUpdate, SpendInv
  <2>3. PICK p \in First(m.tile) : p.item = m.content /\ p.n < Oldest
    BY <1>2, <1>6 DEF SpendInv, Echoed
  <2>4. p \in At(m.tile) /\ p \in pending
    BY <2>3 DEF First, At
  <2>5. PICK q \in First(m.tile) :
          /\ pending' = pending \ {q}
          /\ reserved' = Freed(reserved, q.item)
          /\ have' = IF m.content = q.item THEN SubItem(have, q.item) ELSE have
    BY <2>2, <2>4 DEF Confirm
  <2>6. q = p
    <3>1. q \in pending /\ q.n <= p.n /\ p.n <= q.n
      BY <2>3, <2>4, <2>5 DEF First, At
    <3>2. p.n = q.n
      BY <1>2, <2>4, <3>1
    <3> QED
      BY <2>4, <3>1, <3>2 DEF SpendInv, Ranked
  <2>7. PICK c : c = m.content
    OBVIOUS
  <2>8. /\ c \in Items /\ have[c] > 0 /\ reserved[c] > 0
        /\ \A j \in Items : /\ v[2][j] = have[j] - One(j = c)
                          /\ r[2][j] = reserved[j] - One(j = c)
    BY <1>4, <1>6, <2>7 DEF Effect
  <2>9. have' = SubItem(have, c) /\ reserved' = Freed(reserved, c)
    BY <2>3, <2>5, <2>6, <2>7
  <2>10. \A j \in Items : have'[j] = v[2][j] /\ reserved'[j] = r[2][j]
    BY <1>2, <2>8, <2>9 DEF SubItem, Freed, One
  <2>11. have' = [j \in Items |-> have'[j]] /\ reserved' = [j \in Items |-> reserved'[j]]
    BY <1>2, <2>9 DEF SubItem, Freed
  <2>12. have' = v[2] /\ reserved' = r[2]
    BY <1>3, <2>10, <2>11
  <2> QED
    BY <1>1, <1>6, <2>2, <2>3, <2>5, <2>6, <2>12 DEF m
<1>7. CASE m.kind = "give"
  <2>1. /\ have' = AddItem(have, m.item) /\ UNCHANGED <<pending, reserved, inWorld>>
    BY <1>1, <1>7 DEF TileUpdate, ModifyItemInventory, InventoryState, WorldSelectMenu
  <2>2. PICK c : c = m.item
    OBVIOUS
  <2>3. /\ have[c] < MaxAmount
        /\ \A j \in Items : v[2][j] = have[j] + One(j = c) /\ r[2][j] = reserved[j]
    BY <1>4, <1>7, <2>2 DEF Effect
  <2>4. have' = AddItem(have, c)
    BY <2>1, <2>2
  <2>5. \A j \in Items : have'[j] = v[2][j]
    BY <1>2, <2>3, <2>4 DEF AddItem, One
  <2>6. have' = [j \in Items |-> have'[j]]
    BY <1>2, <2>4 DEF AddItem
  <2>7. have' = v[2] /\ reserved' = r[2]
    BY <1>2, <1>3, <2>1, <2>3, <2>5, <2>6
  <2> QED
    BY <1>1, <1>7, <2>1, <2>7 DEF m
<1>8. CASE m.kind = "inventory"
  <2>1. have' = m.amounts /\ UNCHANGED <<pending, reserved, inWorld>>
    BY <1>1, <1>8 DEF TileUpdate, ModifyItemInventory, InventoryState, WorldSelectMenu
  <2>2. m.amounts = have /\ v[2] = have /\ r[2] = reserved
    BY <1>4, <1>8 DEF Effect
  <2> QED
    BY <1>1, <1>8, <2>1, <2>2 DEF m
<1> QED
  BY <1>5, <1>6, <1>7, <1>8

LEMMA PlaceQueued ==
  ASSUME SpendInv, Calm, NEW t \in Tiles, NEW i \in Items, Place(t, i) PROVE Queued'
<1>0. /\ wire \in Seq(Requests) /\ Len(wire) \in Nat /\ sent \in Nat
      /\ DOMAIN wire = 1..Len(wire)
      /\ \A p \in pending : p.n \in 0..sent - 1
  BY SpendTypes
<1> DEFINE w == [tile |-> t, item |-> i]
           p == [n |-> sent, tile |-> t, item |-> i]
<1>1. /\ wire' = Append(wire, w) /\ pending' = pending \cup {p} /\ sent' = sent + 1
      /\ UNCHANGED <<inWorld, feed, grid>>
  BY DEF Place, server
<1>2. p.n = sent /\ p.tile = t /\ p.item = i /\ w.tile = t /\ w.item = i
  OBVIOUS
<1>3. /\ DOMAIN wire' = 1..Len(wire) + 1 /\ Len(wire') = Len(wire) + 1
      /\ wire'[Len(wire) + 1] = w /\ \A k \in 1..Len(wire) : wire'[k] = wire[k]
  BY <1>0, <1>1, AppendProperties DEF Requests
<1>4. Oldest' = Oldest /\ Oldest \in Nat /\ Oldest + Len(wire) = sent
  BY <1>0, <1>1, <1>3 DEF Oldest, SpendInv, OnWire
<1>p. p = [n |-> sent, tile |-> w.tile, item |-> w.item]
  OBVIOUS
<1> HIDE DEF p, w
<1>5. Ranked'
  <2> SUFFICES ASSUME NEW a \in pending', NEW b \in pending', a.n = b.n PROVE a = b
    BY DEF Ranked
  <2>1. CASE a \in pending /\ b \in pending
    BY <2>1 DEF SpendInv, Ranked
  <2>2. \A q \in pending : q.n # p.n
    BY <1>0, <1>2
  <2> QED
    BY <1>1, <2>1, <2>2
<1>6. OnWire'
  <2> SUFFICES ASSUME NEW k \in DOMAIN wire'
               PROVE  [n |-> Oldest + k - 1, tile |-> wire'[k].tile,
                       item |-> wire'[k].item] \in pending'
    BY <1>4 DEF OnWire
  <2>1. CASE k \in 1..Len(wire)
    <3>1. [n |-> Oldest + k - 1, tile |-> wire[k].tile, item |-> wire[k].item] \in pending
      BY <1>0, <2>1 DEF SpendInv, OnWire
    <3> QED
      BY <1>1, <1>3, <2>1, <3>1
  <2>2. CASE k = Len(wire) + 1
    <3>1. Oldest + k - 1 = sent /\ wire'[k] = w
      BY <1>0, <1>3, <1>4, <2>2
    <3> QED
      BY <1>1, <1>p, <3>1
  <2> QED
    BY <1>0, <1>3, <2>1, <2>2
<1>7. Vacant'
  <2> SUFFICES ASSUME NEW x \in Tiles, grid[x] = Empty
               PROVE  /\ \A q \in At(x)' : q.n >= Oldest
                      /\ \A k \in DOMAIN feed : feed[k].kind = "tile" => feed[k].tile # x
    BY <1>1, <1>4 DEF Vacant
  <2>1. \A q \in At(x)' : q \in At(x) \/ q = p
    BY <1>1 DEF At
  <2>2. p.n >= Oldest
    BY <1>0, <1>2, <1>4
  <2> QED
    BY <2>1, <2>2 DEF SpendInv, Vacant
<1>8. Echoed'
  <2> SUFFICES ASSUME NEW k \in DOMAIN feed, feed[k].kind = "tile"
               PROVE  /\ \E q \in First(feed[k].tile)' :
                           q.item = feed[k].content /\ q.n < Oldest
                      /\ \A j \in DOMAIN feed :
                           feed[j].kind = "tile" /\ feed[j].tile = feed[k].tile => j = k
    BY <1>1, <1>4 DEF Echoed
  <2>1. PICK q \in First(feed[k].tile) : q.item = feed[k].content /\ q.n < Oldest
    BY DEF SpendInv, Echoed
  <2>2. q \in At(feed[k].tile) /\ q.n \in 0..sent - 1
    BY <1>0, <2>1 DEF First, At
  <2>3. q.n <= p.n
    BY <1>0, <1>2, <2>2
  <2>4. q \in First(feed[k].tile)'
    <3>1. \A a \in At(feed[k].tile)' : a \in At(feed[k].tile) \/ a = p
      BY <1>1 DEF At
    <3>2. q \in At(feed[k].tile)'
      BY <1>1, <2>2 DEF At
    <3>3. \A a \in At(feed[k].tile) : q.n <= a.n
      BY <2>1 DEF First
    <3>4. \A a \in At(feed[k].tile)' : q.n <= a.n
      BY <2>3, <3>1, <3>3
    <3>5. First(feed[k].tile)' = {a \in At(feed[k].tile)' : \A b \in At(feed[k].tile)' : a.n <= b.n}
      BY <1>1 DEF First
    <3> QED
      BY <3>2, <3>4, <3>5
  <2>5. \A j \in DOMAIN feed :
          feed[j].kind = "tile" /\ feed[j].tile = feed[k].tile => j = k
    BY DEF SpendInv, Echoed
  <2> QED
    BY <2>1, <2>4, <2>5
<1> QED
  BY <1>1, <1>5, <1>6, <1>7, <1>8 DEF Queued, SpendInv

LEMMA ServeQueued ==
  ASSUME SpendInv, Calm, Serve PROVE Queued'
<1>0. /\ wire \in Seq(Requests) /\ feed \in Seq(Packets) /\ DOMAIN feed = 1..Len(feed)
      /\ grid \in [Tiles -> Items \cup {Empty}] /\ Len(feed) \in Nat
      /\ \A p \in pending : p.n \in Nat
  <2>1. \A p \in pending : p.n \in 0..sent - 1
    BY SpendTypes
  <2> QED
    BY <2>1, SpendTypes
<1> DEFINE w == Head(wire)
           p == [n |-> Oldest, tile |-> w.tile, item |-> w.item]
<1>1. /\ wire # <<>> /\ wire' = Tail(wire)
      /\ UNCHANGED <<inWorld, pending, sent>>
      /\ \/ /\ grid[w.tile] = Empty
            /\ grid' = [grid EXCEPT ![w.tile] = w.item]
            /\ feed' = Append(feed, [kind |-> "tile", tile |-> w.tile, content |-> w.item])
         \/ (grid[w.tile] # Empty \/ ~ owned[w.item] > 0) /\ UNCHANGED <<grid, feed>>
  BY DEF Serve, bot
<1>2. /\ w = wire[1] /\ Len(wire) \in Nat \ {0} /\ 1 \in DOMAIN wire
      /\ Len(wire') = Len(wire) - 1 /\ DOMAIN wire' = 1..Len(wire) - 1
      /\ DOMAIN wire = 1..Len(wire)
      /\ \A k \in 1..Len(wire) - 1 : wire'[k] = wire[k + 1]
  <2>1. wire' \in Seq(Requests)
    BY <1>0, <1>1, HeadTailProperties
  <2> QED
    BY <1>0, <1>1, <2>1, HeadTailProperties
<1>3. Oldest \in Nat /\ Oldest' = Oldest + 1 /\ sent \in Nat
  <2>1. sent \in Nat
    BY SpendTypes
  <2> QED
    BY <1>1, <1>2, <2>1 DEF Oldest, SpendInv, OnWire
<1>4. p \in pending /\ p.n = Oldest /\ p.tile = w.tile /\ p.item = w.item
      /\ w.tile \in Tiles /\ w.item \in Items
  <2>1. [n |-> Oldest + 1 - 1, tile |-> wire[1].tile, item |-> wire[1].item] \in pending
    BY <1>2 DEF SpendInv, OnWire
  <2>2. Oldest + 1 - 1 = Oldest
    BY <1>3
  <2>3. wire[1].tile \in Tiles /\ wire[1].item \in Items
    BY <1>2, SpendTypes
  <2> QED
    BY <1>2, <2>1, <2>2, <2>3
<1>5. \A q \in pending : q.n = Oldest => q = p
  BY <1>4 DEF SpendInv, Ranked
<1>6. owned[w.item] > 0
  <2>1. Asked(wire, w.item) <= owned[w.item]
    BY <1>4, Spending DEF NeverOverspent, Covered, Asked
  <2>2. Asked(Tail(wire), w.item) = Asked(wire, w.item) - 1
    BY <1>0, <1>1, <1>4, AskedLess
  <2>3. Tail(wire) \in Seq(Requests)
    BY <1>0, <1>1, HeadTailProperties
  <2>4. Asked(Tail(wire), w.item) \in Nat /\ Asked(wire, w.item) \in Nat
    BY <1>0, <1>4, <2>3, AskedType
  <2>5. owned[w.item] \in Nat
    <3>1. owned \in [Items -> Nat]
      BY SpendTypes
    <3> QED
      BY <1>4, <3>1
  <2> QED
    BY <2>1, <2>2, <2>4, <2>5
<1>7. \/ /\ grid[w.tile] = Empty /\ grid'[w.tile] # Empty
         /\ \A x \in Tiles : x # w.tile => grid'[x] = grid[x]
         /\ DOMAIN feed' = 1..Len(feed) + 1
         /\ \A k \in 1..Len(feed) : feed'[k] = feed[k]
         /\ feed'[Len(feed) + 1].tile = w.tile /\ feed'[Len(feed) + 1].content = w.item
      \/ grid[w.tile] # Empty /\ UNCHANGED <<grid, feed>>
  <2>1. CASE /\ grid[w.tile] = Empty
             /\ grid' = [grid EXCEPT ![w.tile] = w.item]
             /\ feed' = Append(feed, [kind |-> "tile", tile |-> w.tile, content |-> w.item])
    <3>1. grid'[w.tile] = w.item /\ \A x \in Tiles : x # w.tile => grid'[x] = grid[x]
      BY <1>0, <1>4, <2>1
    <3>2. w.item # Empty
      BY <1>4, PlaceAssumption
    <3>3. [kind |-> "tile", tile |-> w.tile, content |-> w.item] \in Packets
      BY <1>4, PacketKinds
    <3>4. /\ DOMAIN feed' = 1..Len(feed) + 1
          /\ \A k \in 1..Len(feed) : feed'[k] = feed[k]
          /\ feed'[Len(feed) + 1] = [kind |-> "tile", tile |-> w.tile, content |-> w.item]
      BY <1>0, <2>1, <3>3, AppendProperties
    <3> QED
      BY <2>1, <3>1, <3>2, <3>4
  <2> QED
    BY <1>1, <1>6, <2>1
<1> HIDE DEF p, w
<1>8. OnWire'
  <2> SUFFICES ASSUME NEW k \in DOMAIN wire'
               PROVE  [n |-> Oldest + 1 + k - 1, tile |-> wire'[k].tile,
                       item |-> wire'[k].item] \in pending
    BY <1>1, <1>3 DEF OnWire
  <2>1. k + 1 \in DOMAIN wire /\ wire'[k] = wire[k + 1]
    BY <1>2
  <2>2. [n |-> Oldest + (k + 1) - 1, tile |-> wire[k + 1].tile,
         item |-> wire[k + 1].item] \in pending
    BY <2>1 DEF SpendInv, OnWire
  <2>3. Oldest + (k + 1) - 1 = Oldest + 1 + k - 1
    BY <1>2, <1>3
  <2> QED
    BY <2>1, <2>2, <2>3
<1>9. Vacant'
  <2> SUFFICES ASSUME NEW x \in Tiles, grid'[x] = Empty
               PROVE  /\ \A q \in At(x) : q.n >= Oldest + 1
                      /\ \A k \in DOMAIN feed' : feed'[k].kind = "tile" => feed'[k].tile # x
    BY <1>1, <1>3 DEF Vacant, At
  <2>1. x # w.tile /\ grid[x] = Empty
    BY <1>7
  <2>2. /\ \A q \in At(x) : q.n >= Oldest
        /\ \A k \in DOMAIN feed : feed[k].kind = "tile" => feed[k].tile # x
    BY <2>1 DEF SpendInv, Vacant
  <2>3. \A q \in At(x) : q.n # Oldest /\ q.n \in Nat
    BY <1>0, <1>4, <1>5, <2>1 DEF At
  <2>4. \A q \in At(x) : q.n >= Oldest + 1
    BY <1>3, <2>2, <2>3
  <2>5. \A k \in DOMAIN feed' : feed'[k].kind = "tile" => feed'[k].tile # x
    BY <1>0, <1>7, <2>1, <2>2, SMTT(30)
  <2> QED
    BY <2>4, <2>5
<1>10. Echoed'
  <2> SUFFICES ASSUME NEW k \in DOMAIN feed', feed'[k].kind = "tile"
               PROVE  /\ \E q \in First(feed'[k].tile) :
                           q.item = feed'[k].content /\ q.n < Oldest + 1
                      /\ \A j \in DOMAIN feed' :
                           feed'[j].kind = "tile" /\ feed'[j].tile = feed'[k].tile => j = k
    BY <1>1, <1>3 DEF Echoed, First, At
  <2>1. \A j \in DOMAIN feed : feed[j].kind = "tile" =>
          /\ \E q \in First(feed[j].tile) : q.item = feed[j].content /\ q.n < Oldest + 1
          /\ \A l \in DOMAIN feed :
               feed[l].kind = "tile" /\ feed[l].tile = feed[j].tile => l = j
    <3> SUFFICES ASSUME NEW j \in DOMAIN feed, feed[j].kind = "tile"
                 PROVE /\ \E q \in First(feed[j].tile) :
                            q.item = feed[j].content /\ q.n < Oldest + 1
                       /\ \A l \in DOMAIN feed :
                            feed[l].kind = "tile" /\ feed[l].tile = feed[j].tile => l = j
      OBVIOUS
    <3>1. PICK q \in First(feed[j].tile) : q.item = feed[j].content /\ q.n < Oldest
      BY DEF SpendInv, Echoed
    <3>2. q.n < Oldest + 1
      BY <1>0, <1>3, <3>1 DEF First, At
    <3> QED
      BY <3>1, <3>2 DEF SpendInv, Echoed
  <2>2. CASE grid[w.tile] = Empty
    <3>1. /\ DOMAIN feed' = 1..Len(feed) + 1 /\ \A j \in 1..Len(feed) : feed'[j] = feed[j]
          /\ feed'[Len(feed) + 1].tile = w.tile /\ feed'[Len(feed) + 1].content = w.item
      BY <1>7, <2>2
    <3>2. /\ \A q \in At(w.tile) : q.n >= Oldest
          /\ \A j \in DOMAIN feed : feed[j].kind = "tile" => feed[j].tile # w.tile
      BY <1>4, <2>2 DEF SpendInv, Vacant
    <3>3. p \in First(w.tile) /\ p.n < Oldest + 1
      BY <1>3, <1>4, <3>2 DEF First, At
    <3>4. \A j \in DOMAIN feed' : j = Len(feed) + 1 \/ (j \in DOMAIN feed /\ feed'[j] = feed[j])
      BY <1>0, <3>1
    <3>5. CASE k = Len(feed) + 1
      <4>1. \A j \in DOMAIN feed' :
              feed'[j].kind = "tile" /\ feed'[j].tile = feed'[k].tile => j = k
        BY <3>1, <3>2, <3>4, <3>5
      <4> QED
        BY <1>4, <3>1, <3>3, <3>5, <4>1
    <3>6. CASE k \in DOMAIN feed /\ feed'[k] = feed[k]
      <4>1. feed'[k].tile # w.tile
        BY <3>2, <3>6
      <4>2. \A j \in DOMAIN feed' :
              feed'[j].kind = "tile" /\ feed'[j].tile = feed'[k].tile => j = k
        BY <2>1, <3>1, <3>4, <3>6, <4>1
      <4> QED
        BY <2>1, <3>6, <4>2
    <3> QED
      BY <3>4, <3>5, <3>6
  <2>3. CASE grid[w.tile] # Empty
    BY <1>7, <2>1, <2>3
  <2> QED
    BY <2>2, <2>3
<1> QED
  BY <1>1, <1>8, <1>9, <1>10 DEF Queued, SpendInv, Ranked

(* A packet that shows no tile: given items, the inventory. *)
LEMMA SentQueued ==
  ASSUME SpendInv, Calm, NEW m \in Packets, m.kind # "tile", feed' = Append(feed, m),
         UNCHANGED <<bot, wire, grid>>
  PROVE  Queued'
<1>0. feed \in Seq(Packets) /\ DOMAIN feed = 1..Len(feed) /\ Len(feed) \in Nat
  BY SpendTypes
<1>1. /\ DOMAIN feed' = 1..Len(feed) + 1 /\ feed'[Len(feed) + 1] = m
      /\ \A k \in 1..Len(feed) : feed'[k] = feed[k]
  BY <1>0, AppendProperties
<1>2. \A k \in DOMAIN feed' : feed'[k].kind = "tile" => k \in DOMAIN feed /\ feed'[k] = feed[k]
  BY <1>0, <1>1
<1>3. Oldest' = Oldest /\ UNCHANGED <<inWorld, pending, sent>>
  BY DEF Oldest, bot
<1>4. Vacant'
  BY <1>2, <1>3 DEF SpendInv, Vacant, At
<1>5. Echoed'
  <2>1. \A t : First(t)' = First(t)
    BY <1>3 DEF First, At
  <2> QED
    BY <1>2, <1>3, <2>1 DEF SpendInv, Echoed
<1> QED
  BY <1>3, <1>4, <1>5 DEF Queued, SpendInv, Ranked, OnWire

LEMMA ReceiveQueued ==
  ASSUME SpendInv, Calm, Receive PROVE Queued'
<1>1. PICK v, r : Chain(v, r)
  BY DEF SpendInv, Foreseen
<1>2. /\ feed # <<>> /\ feed' = Tail(feed)
      /\ UNCHANGED <<inWorld, sent, wire, owned, grid, play>>
      /\ \/ /\ Head(feed).kind = "tile"
            /\ \E p \in First(Head(feed).tile) : p.n < Oldest /\ pending' = pending \ {p}
         \/ pending' = pending /\ Head(feed).kind # "tile"
  BY <1>1, Received
<1>3. feed \in Seq(Packets) /\ DOMAIN feed = 1..Len(feed) /\ Len(feed) \in Nat
  BY SpendTypes
<1>4. /\ Head(feed) = feed[1] /\ 1 \in DOMAIN feed
      /\ \A k \in DOMAIN feed' : /\ k + 1 \in DOMAIN feed /\ k + 1 # 1
                               /\ feed'[k] = feed[k + 1] /\ k \in Nat
  <2>1. feed' \in Seq(Packets) /\ Len(feed') = Len(feed) - 1
    BY <1>2, <1>3, HeadTailProperties
  <2>2. \A k \in 1..Len(feed') : feed'[k] = feed[k + 1]
    BY <1>2, <1>3, HeadTailProperties
  <2> QED
    BY <1>2, <1>3, <2>1, <2>2
<1>5. /\ pending' \subseteq pending /\ Oldest' = Oldest
      /\ \A q \in pending : q \notin pending' =>
           /\ Head(feed).kind = "tile" /\ q.tile = Head(feed).tile
           /\ q.n < Oldest
  BY <1>2 DEF Oldest, First, At
<1>6. Ranked'
  BY <1>5 DEF SpendInv, Ranked
<1>7. OnWire'
  <2> SUFFICES ASSUME NEW k \in DOMAIN wire
               PROVE  [n |-> Oldest + k - 1, tile |-> wire[k].tile,
                       item |-> wire[k].item] \in pending'
    BY <1>2, <1>5 DEF OnWire, SpendInv
  <2> DEFINE q == [n |-> Oldest + k - 1, tile |-> wire[k].tile, item |-> wire[k].item]
  <2>1. q \in pending /\ q.n = Oldest + k - 1
    BY DEF SpendInv, OnWire
  <2>2. Oldest \in Nat /\ k \in Nat \ {0}
    <3>1. DOMAIN wire = 1..Len(wire)
      BY SpendTypes
    <3> QED
      BY <3>1 DEF SpendInv, OnWire
  <2>3. ~ q.n < Oldest
    BY <2>1, <2>2
  <2> HIDE DEF q
  <2>4. q \in pending'
    BY <1>5, <2>1, <2>3
  <2> QED
    BY <2>4 DEF q
<1>8. Vacant'
  <2> SUFFICES ASSUME NEW x \in Tiles, grid[x] = Empty
               PROVE  /\ \A q \in At(x)' : q.n >= Oldest
                      /\ \A k \in DOMAIN feed' : feed'[k].kind = "tile" => feed'[k].tile # x
    BY <1>2, <1>5 DEF Vacant
  <2>1. \A q \in At(x)' : q \in At(x)
    BY <1>5 DEF At
  <2> QED
    BY <1>4, <2>1 DEF SpendInv, Vacant
<1>9. Echoed'
  <2> SUFFICES ASSUME NEW k \in DOMAIN feed', feed'[k].kind = "tile",
                      NEW x, x = feed'[k].tile
               PROVE  /\ \E q \in First(x)' :
                           q.item = feed'[k].content /\ q.n < Oldest
                      /\ \A j \in DOMAIN feed' :
                           feed'[j].kind = "tile" /\ feed'[j].tile = feed'[k].tile => j = k
    BY <1>5 DEF Echoed, First, At
  <2>1. /\ \E q \in First(feed[k + 1].tile) : q.item = feed[k + 1].content /\ q.n < Oldest
        /\ \A j \in DOMAIN feed :
             feed[j].kind = "tile" /\ feed[j].tile = feed[k + 1].tile => j = k + 1
    BY <1>4 DEF SpendInv, Echoed
  <2>2. \A j \in DOMAIN feed' :
          feed'[j].kind = "tile" /\ feed'[j].tile = feed'[k].tile => j = k
    <3> SUFFICES ASSUME NEW j \in DOMAIN feed', feed'[j].kind = "tile",
                        feed'[j].tile = feed'[k].tile
                 PROVE  j = k
      OBVIOUS
    <3>1. j + 1 = k + 1
      BY <1>4, <2>1
    <3> QED
      BY <1>4, <3>1
  <2>3. Head(feed).kind = "tile" => Head(feed).tile # feed[k + 1].tile
    BY <1>4, <2>1
  <2>4. First(x)' = First(x) /\ x = feed[k + 1].tile
    <3>1. x = feed[k + 1].tile
      BY <1>4
    <3>2. At(x)' = At(x)
      BY <1>5, <2>3, <3>1 DEF At
    <3> QED
      BY <3>1, <3>2 DEF First
  <2> QED
    BY <1>4, <2>1, <2>2, <2>4
<1> QED
  BY <1>2, <1>6, <1>7, <1>8, <1>9 DEF Queued, SpendInv

LEMMA ReceiveForeseen ==
  ASSUME SpendInv, Calm, Receive PROVE Foreseen'
<1>1. PICK v, r : Chain(v, r)
  BY DEF SpendInv, Foreseen
<1>2. /\ feed # <<>> /\ feed' = Tail(feed) /\ have' = v[2] /\ reserved' = r[2]
      /\ UNCHANGED <<wire, owned>>
  BY <1>1, Received
<1> QED
  BY <1>1, <1>2, Shift

LEMMA SpendBegins == PlaceInit => SpendInv
<1> SUFFICES ASSUME PlaceInit PROVE SpendInv
  OBVIOUS
<1>1. PlaceOK
  BY PlaceBegins
<1>2. Queued
  BY DEF PlaceInit, Queued, Ranked, OnWire, Oldest, Vacant, At, Echoed
<1>3. Foreseen
  <2>0. Ahead = 1..1 /\ Last = 1 /\ Len(feed) = 0 /\ wire \in Seq(Requests)
    BY DEF PlaceInit, Ahead, Last
  <2>1. /\ have \in [Items -> Nat] /\ reserved \in [Items -> Nat] /\ owned = have
        /\ \A i \in Items : have[i] = 1 /\ reserved[i] = 0
    BY DEF PlaceInit
  <2>2. PICK v : v = [k \in 1..1 |-> have]
    OBVIOUS
  <2>3. PICK r : r = [k \in 1..1 |-> reserved]
    OBVIOUS
  <2>4. \A k \in Ahead : k = 1 /\ v[k] = have /\ r[k] = reserved
    BY <2>0, <2>2, <2>3
  <2>5. v \in [Ahead -> [Items -> Nat]] /\ r \in [Ahead -> [Items -> Nat]]
    BY <2>0, <2>1, <2>2, <2>3
  <2>6. \A i \in Items : Asked(wire, i) = 0
    <3> SUFFICES ASSUME NEW i \in Items PROVE Asked(wire, i) = 0
      OBVIOUS
    <3>1. {k \in DOMAIN wire : wire[k].item = i} = {}
      BY DEF PlaceInit
    <3> QED
      BY <3>1, FS_EmptySet DEF Asked
  <2>7. Chain(v, r)
    BY <2>0, <2>1, <2>4, <2>5, <2>6 DEF Chain
  <2> QED
    BY <2>7 DEF Foreseen
<1> QED
  BY <1>1, <1>2, <1>3 DEF SpendInv, Queued

LEMMA SpendStep == ASSUME SpendInv, [PlaceNext]_placeVars PROVE SpendInv'
<1>1. PlaceOK'
  BY PlaceStep DEF SpendInv
<1>2. Calm' => Calm
  <2>1. play' = play
    BY DEF PlaceNext, Place, Receive, Expire, Serve, Give, Take, SendInventory, Others,
           Move, Event, Over, placeVars, server
  <2> QED
    BY <2>1 DEF Calm
<1>3. ASSUME Calm PROVE Queued' /\ Foreseen'
  <2>1. ASSUME NEW t \in Tiles, NEW i \in Items, Place(t, i) PROVE Queued' /\ Foreseen'
    BY <1>3, <2>1, PlaceQueued, PlaceForeseen
  <2>2. CASE Receive
    BY <1>3, <2>2, ReceiveQueued, ReceiveForeseen
  <2>3. CASE Serve
    BY <1>3, <2>3, ServeQueued, ServeForeseen
  <2>4. ASSUME NEW i \in Items, Give(i) PROVE Queued' /\ Foreseen'
    <3>1. /\ feed' = Append(feed, [kind |-> "give", item |-> i])
          /\ UNCHANGED <<bot, wire, grid>>
      BY <2>4 DEF Give, Event
    <3> QED
      BY <1>3, <2>4, <3>1, GiveForeseen, SentQueued, PacketKinds
  <2>5. CASE SendInventory
    <3>1. /\ feed' = Append(feed, [kind |-> "inventory", amounts |-> owned])
          /\ UNCHANGED <<bot, wire, grid>>
      BY <2>5 DEF SendInventory, Event
    <3>2. owned \in [Items -> Nat]
      BY SpendTypes
    <3> QED
      BY <1>3, <2>5, <3>1, <3>2, SendForeseen, SentQueued, PacketKinds
  <2>6. CASE UNCHANGED placeVars
    <3>1. UNCHANGED <<have, reserved, pending, inWorld, sent, wire, feed, owned, grid>>
      BY <2>6 DEF placeVars, bot, server
    <3> QED
      BY <1>3, <3>1 DEF SpendInv, Queued, Foreseen, Chain, Ahead, Last, Ranked, OnWire,
                        Oldest, Vacant, Echoed, At, First
  <2>7. ~ Expire /\ (\A i \in Items : ~ Take(i)) /\ (\A k : ~ Move(k))
        /\ \A t, c : ~ Others(t, c)
    BY <1>3 DEF Calm, Expire, Take, Others, Move
  <2> QED
    BY <2>1, <2>2, <2>3, <2>4, <2>5, <2>6, <2>7 DEF PlaceNext, Over
<1> QED
  BY <1>1, <1>2, <1>3 DEF SpendInv, Queued

(* bot.h: "so we never send more places than we own", and the inventory the  *)
(* bot infers from tiles is the server's when nothing is under way.          *)
THEOREM SpendingCorrect == PlaceSpec => []NeverOverspent
<1>1. SpendInv /\ [PlaceNext]_placeVars => SpendInv'
  BY SpendStep
<1> QED
  BY <1>1, SpendBegins, Spending, PTL DEF PlaceSpec

----------------------------------------------------------------------------
(* The game proxy pool                                                       *)

(* Every candidate of the scan, and the exit it ends with, has room: the   *)
(* owner's calls do not overlap, so no key and no setting changes under it. *)
CandidatesHaveRoom ==
  \A i \in call.cands : /\ i \in DOMAIN config.proxies
                        /\ Load(config.proxies[i]) < config.capacity

PickedHasRoom ==
  call.saving /\ call.bot # NoBot =>
    call.picked \in Exits /\ Load(call.picked) < config.capacity

PoolOK == TypeOK /\ PublishedIsConfig /\ CursorInPool /\ CandidatesHaveRoom
       /\ PickedHasRoom

(* Division with remainder. *)
LEMMA Remainder ==
  ASSUME NEW n \in Nat \ {0}, NEW q \in Int, NEW k \in 0 .. n - 1
  PROVE  (n * q + k) % n = k
<1> DEFINE d == (n * q + k) \div n
<1> DEFINE m == (n * q + k) % n
<1>1. n * q + k \in Int /\ d \in Int /\ m \in 0 .. n - 1 /\ n * q + k = n * d + m
  BY SMT
<1>2. n * (q - d) = m - k
  BY <1>1, SMT
<1>3. q - d < 1
  <2> SUFFICES ASSUME q - d >= 1 PROVE FALSE
    BY <1>1, SMT
  <2>1. n * (q - d) >= n
    BY <1>1, SMT
  <2> QED
    BY <1>1, <1>2, <2>1, SMT
<1>4. d - q < 1
  <2> SUFFICES ASSUME d - q >= 1 PROVE FALSE
    BY <1>1, SMT
  <2>1. n * (d - q) >= n
    BY <1>1, SMT
  <2>2. n * (d - q) = k - m
    BY <1>1, SMT
  <2> QED
    BY <1>1, <2>1, <2>2, SMT
<1> QED
  BY <1>1, <1>3, <1>4, SMT

LEMMA RemainderBound ==
  ASSUME NEW i \in Nat, NEW n \in Nat \ {0}
  PROVE  i % n \in Nat /\ i % n <= n
  BY SMT

LEMMA RemainderBelow ==
  ASSUME NEW i \in Nat, NEW n \in Nat \ {0}
  PROVE  i % n \in 0 .. n - 1
  BY SMT

(* The search of next_game_proxy passes every slot, wherever it starts. *)
LEMMA SearchPassesAll ==
  ASSUME NEW r \in Nat, NEW n \in Nat \ {0}, NEW k \in 0 .. n - 1
  PROVE  \E i \in 0 .. n - 1 : (r + i) % n = k
<1> DEFINE q == r \div n
<1> DEFINE m == r % n
<1>1. q \in Int /\ m \in 0 .. n - 1 /\ r = n * q + m
  BY SMT
<1> HIDE DEF q, m
<1>2. CASE k >= m
  <2>1. k - m \in 0 .. n - 1 /\ r + (k - m) = n * q + k
    BY <1>1, <1>2, SMT
  <2> QED
    BY <1>1, <2>1, Remainder
<1>3. CASE k < m
  <2>1. k - m + n \in 0 .. n - 1 /\ r + (k - m + n) = n * (q + 1) + k /\ q + 1 \in Int
    BY <1>1, <1>3, SMT
  <2> QED
    BY <1>1, <2>1, Remainder
<1> QED
  BY <1>1, <1>2, <1>3, SMT

(* An edit leaves a well-formed configuration with its cursor in the pool. *)
LEMMA EditedType ==
  ASSUME TypeOK, NEW e \in Edits
  PROVE  /\ Edited(e) \in ConfigType
         /\ Edited(e).next <= Len(Edited(e).proxies)
         /\ Snapshot(Edited(e)) \in [proxies : Seq(Exits), shuffle : BOOLEAN]
<1>1. e \in EditType /\ config \in ConfigType
  BY EditAssumption DEF TypeOK
<1>2. Len(e.proxies) \in Nat
  BY <1>1 DEF EditType
<1> QED
  BY <1>1, <1>2 DEF Edited, EditType, ConfigType, AtMost, Snapshot

LEMMA DefaultType ==
  /\ Default \in ConfigType
  /\ Default.next <= Len(Default.proxies)
  /\ Snapshot(Default) \in [proxies : Seq(Exits), shuffle : BOOLEAN]
<1>1. <<>> \in Seq(Exits) /\ Len(<<>>) = 0
  OBVIOUS
<1> QED
  BY <1>1 DEF Default, ConfigType, Modes, Snapshot

LEMMA IdleType == Idle \in CallType /\ Idle.cands = {} /\ ~Idle.saving
  BY DEF Idle, CallType

(* next_game_proxy returns an exit or none and keeps its cursor. *)
LEMMA RotationType ==
  ASSUME TypeOK, NEW current, NEW fresh \in Exits \cup {NoExit},
         NextGameProxy(current, fresh)
  PROVE  rr' \in 0 .. RRPeriod - 1
<1>1. Len(published.proxies) \in Nat /\ rr \in Nat /\ RRPeriod \in Nat \ {0}
  BY PeriodAssumption DEF TypeOK
<1> QED
  BY <1>1 DEF NextGameProxy, TypeOK

-----------------------------------------------------------------------------

LEMMA PoolBegins == Init => PoolOK
<1> SUFFICES ASSUME Init PROVE PoolOK
  OBVIOUS
<1>1. TypeOK
  BY DefaultType, IdleType, PeriodAssumption DEF Init, TypeOK, PCs
<1>2. PublishedIsConfig /\ CursorInPool
  BY DefaultType DEF Init, PublishedIsConfig, CursorInPool
<1>3. CandidatesHaveRoom /\ PickedHasRoom
  BY IdleType DEF Init, CandidatesHaveRoom, PickedHasRoom
<1> QED
  BY <1>1, <1>2, <1>3 DEF PoolOK

LEMMA Editing ==
  ASSUME PoolOK, NEW e \in Edits, Update(e) \/ TornUpdate(e)
  PROVE  PoolOK'
<1>1. TypeOK'
  BY EditedType, IdleType, ZenonT(30) DEF PoolOK, TypeOK, Update, TornUpdate, CallType, botVars
<1>2. PublishedIsConfig' /\ CursorInPool'
  BY EditedType DEF PoolOK, PublishedIsConfig, CursorInPool, Update, TornUpdate
<1>3. call'.cands = {} /\ (call'.saving => call'.bot = NoBot)
  BY IdleType DEF Update, TornUpdate, Idle
<1>4. CandidatesHaveRoom' /\ PickedHasRoom'
  BY <1>3 DEF CandidatesHaveRoom, PickedHasRoom
<1> QED
  BY <1>1, <1>2, <1>4 DEF PoolOK

LEMMA Starting ==
  ASSUME PoolOK, NEW b \in Bots, StartChoose(b) \/ SpawnDirect(b) \/ Remove(b)
  PROVE  PoolOK'
<1>1. call' \in CallType
  <2>1. CASE StartChoose(b)
    <3>1. call' = [at |-> 1, bot |-> b, cands |-> {}, picked |-> NoExit,
                   saving |-> FALSE]
      BY <2>1 DEF StartChoose, Idle
    <3> QED
      BY <3>1 DEF CallType
  <2>2. CASE SpawnDirect(b) \/ Remove(b)
    BY <2>2 DEF SpawnDirect, Remove, PoolOK, TypeOK
  <2> QED
    BY <2>1, <2>2
<1>2. pc' \in [Bots -> PCs] /\ key' \in [Bots -> Exits \cup {NoExit}]
  BY DEF PoolOK, TypeOK, StartChoose, SpawnDirect, Remove, PCs, botVars
<1>3. exit' \in [Bots -> Exits \cup {NoExit}] /\ cur' \in [Bots -> Exits \cup {NoExit}]
  BY DEF PoolOK, TypeOK, StartChoose, SpawnDirect, Remove, botVars
<1>4. TypeOK'
  BY <1>1, <1>2, <1>3 DEF PoolOK, TypeOK, StartChoose, SpawnDirect, Remove, poolVars
<1>5. PublishedIsConfig' /\ CursorInPool'
  BY DEF PoolOK, PublishedIsConfig, CursorInPool, StartChoose, SpawnDirect,
         Remove, poolVars
<1>6. call'.cands = {} /\ ~call'.saving
  BY IdleType DEF StartChoose, SpawnDirect, Remove, Idle
<1>7. CandidatesHaveRoom' /\ PickedHasRoom'
  BY <1>6 DEF CandidatesHaveRoom, PickedHasRoom
<1> QED
  BY <1>4, <1>5, <1>7 DEF PoolOK

(* A candidate of the scan has room when it is looked at. *)
LEMMA Scanning == ASSUME PoolOK, ScanEntry PROVE PoolOK'
<1> DEFINE looked == IF Free(config.proxies[call.at]) THEN call.cands \cup {call.at}
                     ELSE call.cands
<1>1. /\ call \in CallType /\ call.at \in Nat
      /\ call' = [call EXCEPT !.at = @ + 1, !.cands = looked]
      /\ looked \in SUBSET Nat
  BY DEF PoolOK, TypeOK, ScanEntry, CallType
<1>2. \A i \in looked : i \in call.cands
                        \/ (i = call.at /\ Free(config.proxies[call.at]))
  OBVIOUS
<1> HIDE DEF looked
<1>3. /\ call' \in CallType /\ call'.cands = looked
      /\ call'.saving = call.saving /\ call'.bot = call.bot
      /\ call'.picked = call.picked
  <2>1. call' = [at |-> call.at + 1, bot |-> call.bot, cands |-> looked,
                 picked |-> call.picked, saving |-> call.saving]
    BY <1>1 DEF CallType
  <2>2. /\ call.at + 1 \in Nat /\ call.bot \in Bots \cup {NoBot}
        /\ call.picked \in Exits \cup {NoExit} /\ call.saving \in BOOLEAN
    BY <1>1 DEF CallType
  <2> QED
    BY <1>1, <2>1, <2>2 DEF CallType
<1>4. TypeOK'
  BY <1>3 DEF PoolOK, TypeOK, ScanEntry, poolVars, botVars
<1>5. PublishedIsConfig' /\ CursorInPool'
  BY DEF PoolOK, PublishedIsConfig, CursorInPool, ScanEntry, poolVars
<1>6. CandidatesHaveRoom'
  <2>1. DOMAIN config.proxies = 1 .. Len(config.proxies)
    BY DEF PoolOK, TypeOK, ConfigType
  <2>2. call.at \in DOMAIN config.proxies /\ config' = config /\ key' = key
    BY <2>1 DEF ScanEntry, poolVars, botVars
  <2>3. \A i \in call'.cands : i \in call.cands \/ (i = call.at /\ Free(config.proxies[i]))
    BY <1>2, <1>3
  <2> QED
    BY <2>2, <2>3 DEF CandidatesHaveRoom, PoolOK, Free, Load
<1>7. PickedHasRoom'
  BY <1>3 DEF PoolOK, PickedHasRoom, ScanEntry, Load, poolVars, botVars
<1> QED
  BY <1>4, <1>5, <1>6, <1>7 DEF PoolOK

LEMMA FindingNone == ASSUME PoolOK, NoneFree PROVE PoolOK'
<1>1. TypeOK'
  BY IdleType DEF PoolOK, TypeOK, NoneFree, PCs, poolVars
<1>2. PublishedIsConfig' /\ CursorInPool'
  BY DEF PoolOK, PublishedIsConfig, CursorInPool, NoneFree, poolVars
<1>3. CandidatesHaveRoom' /\ PickedHasRoom'
  BY IdleType DEF CandidatesHaveRoom, PickedHasRoom, NoneFree
<1> QED
  BY <1>1, <1>2, <1>3 DEF PoolOK

(* The pick is one of the candidates, and saving it changes no load. *)
LEMMA Picking == ASSUME PoolOK, Pick PROVE PoolOK'
<1>1. PICK i \in Pickable :
        /\ config' = [config EXCEPT !.next = i % Len(config.proxies)]
        /\ call' = [Idle EXCEPT !.bot = call.bot, !.picked = config.proxies[i],
                                !.saving = TRUE]
  BY DEF Pick
<1>2. i \in call.cands
  BY <1>1 DEF Pickable, Eligible
<1>3. /\ i \in DOMAIN config.proxies
      /\ Load(config.proxies[i]) < config.capacity
  BY <1>2 DEF PoolOK, CandidatesHaveRoom
<1>4. config \in ConfigType /\ Len(config.proxies) \in Nat
  BY DEF PoolOK, TypeOK, ConfigType
<1>5. Len(config.proxies) > 0 /\ i \in Nat /\ config.proxies[i] \in Exits
  BY <1>3, <1>4 DEF ConfigType
<1>6. i % Len(config.proxies) \in Nat /\ i % Len(config.proxies) <= Len(config.proxies)
  <2>1. Len(config.proxies) \in Nat \ {0}
    BY <1>4, <1>5
  <2> QED
    BY <1>5, <2>1, RemainderBound
<1>7. config' \in ConfigType /\ call' \in CallType
  BY <1>1, <1>4, <1>5, <1>6 DEF ConfigType, CallType, Idle, PoolOK, TypeOK
<1>8. TypeOK'
  BY <1>7 DEF PoolOK, TypeOK, Pick, botVars
<1>9. PublishedIsConfig' /\ CursorInPool'
  BY <1>1, <1>4, <1>6 DEF PoolOK, PublishedIsConfig, CursorInPool, Pick, Snapshot,
     ConfigType
<1>10. CandidatesHaveRoom' /\ PickedHasRoom'
  <2>1. call'.cands = {} /\ call'.picked = config.proxies[i]
    BY <1>1 DEF Idle
  <2>2. config'.capacity = config.capacity /\ key' = key
    BY <1>1, <1>4 DEF Pick, botVars, ConfigType
  <2> QED
    BY <1>3, <1>5, <2>1, <2>2 DEF CandidatesHaveRoom, PickedHasRoom, Load
<1> QED
  BY <1>8, <1>9, <1>10 DEF PoolOK

LEMMA Saving == ASSUME PoolOK, Saved PROVE PoolOK'
<1>1. TypeOK'
  BY IdleType DEF PoolOK, TypeOK, Saved, CallType, PCs
<1>2. PublishedIsConfig' /\ CursorInPool'
  BY DEF PoolOK, PublishedIsConfig, CursorInPool, Saved
<1>3. CandidatesHaveRoom' /\ PickedHasRoom'
  BY IdleType DEF CandidatesHaveRoom, PickedHasRoom, Saved
<1> QED
  BY <1>1, <1>2, <1>3 DEF PoolOK

LEMMA Restarting == ASSUME PoolOK, Restart PROVE PoolOK'
<1>1. TypeOK'
  BY DefaultType, IdleType, PeriodAssumption
     DEF PoolOK, TypeOK, Restart, Emptied, Snapshot, ConfigType, PCs
<1>2. PublishedIsConfig' /\ CursorInPool'
  BY DefaultType DEF PoolOK, PublishedIsConfig, CursorInPool, Restart
<1>3. CandidatesHaveRoom' /\ PickedHasRoom'
  BY IdleType DEF CandidatesHaveRoom, PickedHasRoom, Restart, Emptied
<1> QED
  BY <1>1, <1>2, <1>3 DEF PoolOK

(* A bot touches neither the settings nor the owner's call nor any key. *)
LEMMA BotStep ==
  ASSUME PoolOK, NEW b \in Bots, Bot(b)
  PROVE  PoolOK'
<1>1. UNCHANGED <<poolVars, call, key>>
  BY DEF Bot, FetchOk, Fetch403, Swap, Drop, Redial, Refresh, Reject, Rotate, Stall
<1>2. rr' \in 0 .. RRPeriod - 1
  BY RotationType DEF PoolOK, TypeOK, Bot, FetchOk, Fetch403, Swap, Drop, Redial,
     Refresh, Reject, Rotate, Stall
<1>3. quarantined' \subseteq Exits
  BY DEF PoolOK, TypeOK, Bot, FetchOk, Fetch403, Swap, Drop, Redial, Refresh,
     Reject, Rotate, Stall
<1>4. /\ pc' \in [Bots -> PCs]
      /\ exit' \in [Bots -> Exits \cup {NoExit}]
      /\ cur' \in [Bots -> Exits \cup {NoExit}]
  BY DEF PoolOK, TypeOK, Bot, FetchOk, Fetch403, Swap, Drop, Redial, Refresh,
     Reject, Rotate, Stall, PCs
<1>5. TypeOK'
  BY <1>1, <1>2, <1>3, <1>4 DEF PoolOK, TypeOK, poolVars
<1> QED
  BY <1>1, <1>5 DEF PoolOK, PublishedIsConfig, CursorInPool, CandidatesHaveRoom,
     PickedHasRoom, Load, poolVars

LEMMA PoolStep == PoolOK /\ [Next]_vars => PoolOK'
<1> SUFFICES ASSUME PoolOK, [Next]_vars PROVE PoolOK'
  OBVIOUS
<1>1. CASE Owner
  <2>1. CASE ClearQuarantine
    BY <2>1 DEF ClearQuarantine, PoolOK, TypeOK, PublishedIsConfig, CursorInPool,
       CandidatesHaveRoom, PickedHasRoom, Load, poolVars, botVars
  <2> QED
    BY <1>1, <2>1, Editing, Starting, Scanning, FindingNone, Picking, Saving,
       Restarting DEF Owner
<1>2. CASE \E b \in Bots : Bot(b)
  BY <1>2, BotStep
<1>3. CASE UNCHANGED vars
  BY <1>3 DEF vars, poolVars, botVars, PoolOK, TypeOK, PublishedIsConfig,
     CursorInPool, CandidatesHaveRoom, PickedHasRoom, Load
<1> QED
  BY <1>1, <1>2, <1>3 DEF Next

-----------------------------------------------------------------------------

(* For every pool, edit and crash: bots rotate through the pool the editor *)
(* shows, and the cursor stays in it (update, load_default, choose).       *)
THEOREM PoolCorrect == Spec => [](PublishedIsConfig /\ CursorInPool)
<1>1. PoolOK => PublishedIsConfig /\ CursorInPool
  BY DEF PoolOK
<1> QED
  BY <1>1, PoolBegins, PoolStep, PTL DEF Spec

(* choose() never hands out an exit that is full by the counts it was      *)
(* given, whatever the bots quarantine while it looks.                     *)
THEOREM LimitCorrect == Spec => SpawnUnderLimit
<1> DEFINE Step == \A b \in Bots : key'[b] \notin {key[b], NoExit} =>
                                      Load(key'[b]) < config.capacity
<1>1. PoolOK /\ Next => Step
  <2> SUFFICES ASSUME PoolOK, Next, NEW b \in Bots, key'[b] \notin {key[b], NoExit}
               PROVE  Load(key'[b]) < config.capacity
    OBVIOUS
  <2>1. key' # key
    OBVIOUS
  <2>2. CASE Saved
    <3>1. call.saving /\ call.bot # NoBot
      BY <2>1, <2>2 DEF Saved
    <3>2. call.picked \in Exits /\ Load(call.picked) < config.capacity
      BY <3>1 DEF PoolOK, PickedHasRoom
    <3>3. key'[b] = call.picked
      BY <2>2, <3>1 DEF Saved, PoolOK, TypeOK
    <3> QED
      BY <3>2, <3>3
  <2>3. CASE Restart \/ \E c \in Bots : Remove(c)
    BY <2>3 DEF Restart, Emptied, Remove, PoolOK, TypeOK
  <2>4. CASE \E c \in Bots : Bot(c)
    BY <2>1, <2>4 DEF Bot, FetchOk, Fetch403, Swap, Drop, Redial, Refresh,
       Reject, Rotate, Stall
  <2>5. CASE Owner /\ ~Saved /\ ~Restart /\ ~ \E c \in Bots : Remove(c)
    BY <2>1, <2>5 DEF Owner, Update, TornUpdate, StartChoose, SpawnDirect,
       ScanEntry, NoneFree, Pick, ClearQuarantine, botVars
  <2> QED
    BY <2>2, <2>3, <2>4, <2>5 DEF Next
<1>2. PoolOK /\ [Next]_vars => [Step]_vars
  BY <1>1
<1> QED
  BY <1>2, PoolBegins, PoolStep, PTL DEF Spec, SpawnUnderLimit

(* A search that comes back with the exit it started from, or with none,   *)
(* has looked at every slot and found no other clean exit.                 *)
LEMMA EmptySearch ==
  ASSUME TypeOK, NEW current, NEW fresh, NextGameProxy(current, fresh),
         fresh \in {NoExit, current}
  PROVE  Nothing(current)
<1> DEFINE len == Len(published.proxies)
<1> DEFINE found == {i \in 0 .. len - 1 : Clean((rr + i) % len, current)}
<1>1. len \in Nat /\ rr \in Nat /\ DOMAIN published.proxies = 1 .. len
  BY PeriodAssumption DEF TypeOK
<1>2. CASE len < 2
  BY <1>2 DEF Nothing
<1>3. CASE len >= 2
  <2>1. ASSUME NEW i \in found PROVE Entry((rr + i) % len) \notin {NoExit, current}
    <3>0. rr + i \in Nat /\ len \in Nat \ {0}
      BY <1>1, <1>3
    <3>1. (rr + i) % len \in 0 .. len - 1
      BY <3>0, RemainderBelow
    <3>2. Entry((rr + i) % len) \in Exits
      BY <1>1, <3>1 DEF Entry, TypeOK
    <3> QED
      BY <3>2, <2>1, ExitAssumption DEF Clean
  <2>2. found = {}
    BY <1>3, <2>1 DEF NextGameProxy
  <2>3. ASSUME NEW j \in DOMAIN published.proxies
        PROVE  published.proxies[j] \in quarantined \cup {current}
    <3>1. j - 1 \in 0 .. len - 1 /\ len \in Nat \ {0} /\ (j - 1) + 1 = j
      BY <1>1, <1>3, <2>3
    <3>2. PICK i \in 0 .. len - 1 : (rr + i) % len = j - 1
      BY <1>1, <3>1, SearchPassesAll
    <3>3. ~Clean(j - 1, current)
      BY <2>2, <3>2
    <3> QED
      BY <3>1, <3>3 DEF Clean, Entry
  <2> QED
    BY <2>3 DEF Nothing
<1> QED
  BY <1>1, <1>2, <1>3

(* A bot that finds no other exit really had none: the shared cursor skips *)
(* no slot, whatever the other bots do with it.                            *)
THEOREM RotationCorrect == Spec => RotationFindsClean
<1> DEFINE Step(b) ==
      /\ pc[b] = "swap" /\ pc'[b] = "done" => Nothing(cur[b])
      /\ pc[b] = "rotate" /\ pc'[b] = "down" /\ exit'[b] = exit[b]
           => Nothing(exit[b])
<1>1. ASSUME PoolOK, Next, NEW b \in Bots PROVE Step(b)
  <2>1. CASE Swap(b)
    <3>1. PICK fresh \in Exits \cup {NoExit} :
            /\ NextGameProxy(cur[b], fresh)
            /\ IF fresh = NoExit THEN pc' = [pc EXCEPT ![b] = "done"]
                                 ELSE pc' = [pc EXCEPT ![b] = "fetch"]
      BY <2>1 DEF Swap
    <3>2. pc[b] = "swap" /\ b \in DOMAIN pc /\ TypeOK
      BY <1>1, <2>1 DEF Swap, PoolOK, TypeOK
    <3>3. CASE fresh = NoExit
      BY <3>1, <3>2, <3>3, EmptySearch
    <3>4. CASE fresh # NoExit
      BY <3>1, <3>2, <3>4
    <3> QED
      BY <3>3, <3>4
  <2>2. CASE Rotate(b)
    <3>1. PICK fresh \in Exits \cup {NoExit} :
            /\ NextGameProxy(exit[b], fresh)
            /\ exit' = IF fresh = NoExit THEN exit ELSE [exit EXCEPT ![b] = fresh]
      BY <2>2 DEF Rotate
    <3>2. pc[b] = "rotate" /\ b \in DOMAIN exit /\ TypeOK
      BY <1>1, <2>2 DEF Rotate, PoolOK, TypeOK
    <3>3. CASE fresh \in {NoExit, exit[b]}
      BY <3>1, <3>2, <3>3, EmptySearch
    <3>4. CASE fresh \notin {NoExit, exit[b]}
      BY <3>1, <3>2, <3>4
    <3> QED
      BY <3>3, <3>4
  <2>3. ASSUME ~Swap(b), ~Rotate(b) PROVE pc[b] \in {"swap", "rotate"} =>
                                            pc'[b] \in {pc[b], "out", "fetch"}
    BY <1>1, <2>3, ZenonT(30)
    DEF Next, Owner, Bot, Update, TornUpdate, StartChoose, SpawnDirect,
       Remove, ScanEntry, NoneFree, Pick, Saved, ClearQuarantine, Restart, Emptied,
       FetchOk, Fetch403, Swap, Drop, Redial, Refresh, Reject, Rotate, Stall,
       PoolOK, TypeOK, botVars
  <2> QED
    BY <2>1, <2>2, <2>3
<1>2. PoolOK /\ [Next]_vars => [\A b \in Bots : Step(b)]_vars
  BY <1>1
<1> QED
  BY <1>2, PoolBegins, PoolStep, PTL DEF Spec, RotationFindsClean

----------------------------------------------------------------------------
(* The automation of a fleet. A backup is a fleet, too: it has no two bots   *)
(* of one account, unless the account is a token.                            *)

IsFleet(f) == /\ IsFiniteSet(DOMAIN f) /\ DOMAIN f \subseteq Nat
              /\ \A i, j \in DOMAIN f : f[i].account = f[j].account /\ f[i].account \notin Tokens => i = j
IsConfig(c) == DOMAIN c = {"on", "scoped", "scope", "byGroup", "defined", "group"}
Fleets == /\ IsFleet(bots) /\ next \in Nat /\ \A i \in DOMAIN bots : i < next
          /\ IsFleet(backup.records)
Configs == IsConfig(cfg) /\ IsConfig(disk.cfg) /\ IsConfig(profile.cfg) /\ IsConfig(backup.cfg)
AutoInv == Fleets /\ Configs

(* The members of a finite set of numbers are told apart by how many are     *)
(* below them.                                                               *)
LEMMA Ranks ==
  ASSUME NEW F, IsFiniteSet(F), F \subseteq Nat, NEW r \in F
  PROVE  /\ Cardinality({x \in F : x < r}) \in Nat /\ Cardinality(F) \in Nat
         /\ Cardinality({x \in F : x < r}) < Cardinality(F)
         /\ \A q \in F : q < r => Cardinality({x \in F : x < q}) < Cardinality({x \in F : x < r})
<1> DEFINE Below(n) == {x \in F : x < n}
<1>1. \A n \in F : IsFiniteSet(Below(n)) /\ Cardinality(Below(n)) \in Nat
  BY FS_Subset, FS_CardinalityType
<1>2. Cardinality(Below(r)) < Cardinality(F)
  <2>1. Below(r) \subseteq F /\ Below(r) # F OBVIOUS
  <2> QED BY <2>1, FS_Subset, FS_CardinalityType
<1>3. ASSUME NEW q \in F, q < r PROVE Cardinality(Below(q)) < Cardinality(Below(r))
  <2>0. q \in Nat /\ r \in Nat /\ \A x \in F : x \in Nat OBVIOUS
  <2>1. (\A x \in F : x < q => x < r) /\ ~(q < q) BY <1>3, <2>0
  <2>2. Below(q) \subseteq Below(r) /\ q \in Below(r) /\ q \notin Below(q) BY <1>3, <2>1
  <2>3. Below(q) # Below(r) BY <2>2
  <2> HIDE DEF Below
  <2> QED BY <1>1, <2>2, <2>3, FS_Subset, FS_CardinalityType
<1> QED BY <1>1, <1>2, <1>3, FS_CardinalityType

LEMMA OneRank ==
  ASSUME NEW F, IsFiniteSet(F), F \subseteq Nat, NEW q \in F, NEW r \in F,
         Cardinality({x \in F : x < q}) = Cardinality({x \in F : x < r})
  PROVE  q = r
<1> DEFINE rank(n) == Cardinality({x \in F : x < n})
<1>1. rank(q) \in Nat /\ rank(r) \in Nat /\ rank(q) = rank(r) BY Ranks
<1>2. q < r => rank(q) < rank(r) BY Ranks
<1>3. r < q => rank(r) < rank(q) BY Ranks
<1> HIDE DEF rank
<1>4. q \in Nat /\ r \in Nat OBVIOUS
<1> QED BY <1>1, <1>2, <1>3, <1>4

LEMMA BaseFleet ==
  ASSUME Fleets, NEW replace
  PROVE  IsFleet(Base(replace)) /\ \A i \in DOMAIN Base(replace) : i < next
<1>1. IsFleet(NoBots) /\ DOMAIN NoBots = {} BY FS_EmptySet DEF IsFleet, NoBots
<1> QED BY <1>1 DEF Base, Fleets

(* The ids of a restored fleet                                               *)
LEMMA NewIds ==
  ASSUME Fleets, NEW replace, NEW S, S \subseteq Records
  PROVE  LET new == Fresh(replace, S)
             m == Mapping(replace, S)
         IN /\ IsFiniteSet(new) /\ new \subseteq S /\ Cardinality(new) \in Nat
            /\ \A r \in new : m[r] \in Nat /\ next <= m[r] /\ m[r] < next + Cardinality(new)
            /\ \A q, r \in new : m[q] = m[r] => q = r
<1> DEFINE new == Fresh(replace, S)
           m == Mapping(replace, S)
<1>1. IsFiniteSet(new) /\ new \subseteq S /\ new \subseteq Nat /\ Cardinality(new) \in Nat
  <2>1. new \subseteq S BY DEF Fresh
  <2>2. IsFiniteSet(Records) /\ Records \subseteq Nat BY DEF Fleets, IsFleet, Records
  <2>3. IsFiniteSet(new) BY <2>1, <2>2, FS_Subset
  <2> QED BY <2>1, <2>2, <2>3, FS_CardinalityType
<1> DEFINE rank(r) == Cardinality({q \in new : q < r})
<1>2. \A r \in new : m[r] = next + rank(r)
  BY <1>1 DEF Mapping
<1> HIDE DEF new, m
<1>3. next \in Nat BY DEF Fleets
<1>4. \A r \in new : rank(r) \in Nat /\ rank(r) < Cardinality(new)
  BY <1>1, Ranks
<1>5. ASSUME NEW q \in new, NEW r \in new, m[q] = m[r] PROVE q = r
  <2> HIDE DEF rank
  <2>1. rank(q) = rank(r)
    BY <1>2, <1>3, <1>4, <1>5
  <2> QED BY <1>1, <2>1, OneRank DEF rank
<1> HIDE DEF rank
<1>6. \A r \in new : m[r] \in Nat /\ next <= m[r] /\ m[r] < next + Cardinality(new)
  BY <1>1, <1>2, <1>3, <1>4
<1> QED BY <1>1, <1>5, <1>6 DEF new, m

LEMMA OldIds ==
  ASSUME Fleets, NEW replace, NEW S, S \subseteq Records, NEW r \in S \ Fresh(replace, S)
  PROVE  LET i == Mapping(replace, S)[r]
             base == Base(replace)
         IN i \in DOMAIN base /\ base[i].account = backup.records[r].account /\ backup.records[r].account \notin Tokens
<1> DEFINE base == Base(replace)
           K == Known(base, backup.records[r].account)
<1>1. K # {} BY DEF Fresh
<1>2. Mapping(replace, S)[r] = CHOOSE i \in K : TRUE BY DEF Mapping
<1>3. Mapping(replace, S)[r] \in K BY <1>1, <1>2
<1> QED BY <1>3 DEF Known

LEMMA OneId ==
  ASSUME Fleets, NEW replace, NEW S, S \subseteq Records,
         NEW q \in S, NEW r \in S, Mapping(replace, S)[q] = Mapping(replace, S)[r]
  PROVE  q = r
<1> DEFINE new == Fresh(replace, S)
           m == Mapping(replace, S)
<1>1. CASE q \in new /\ r \in new BY <1>1, NewIds
<1>2. CASE q \notin new /\ r \notin new
  <2>1. /\ backup.records[q].account = backup.records[r].account
        /\ backup.records[q].account \notin Tokens
    BY <1>2, OldIds
  <2> QED BY <2>1 DEF Fleets, IsFleet, Records
<1>3. ASSUME NEW f \in new, NEW k \in S \ new PROVE m[f] # m[k]
  <2>1. next <= m[f] /\ m[f] \in Nat BY NewIds
  <2>2. m[k] \in DOMAIN Base(replace) BY OldIds
  <2>3. m[k] < next /\ m[k] \in Nat BY <2>2, BaseFleet DEF IsFleet
  <2> QED BY <2>1, <2>3 DEF Fleets
<1>4. CASE q \in new /\ r \notin new BY <1>3, <1>4
<1>5. CASE q \notin new /\ r \in new BY <1>3, <1>5
<1> QED BY <1>1, <1>2, <1>4, <1>5

(* A restored fleet is one.                                                  *)
LEMMA Restored ==
  ASSUME Fleets, NEW replace, NEW auto, NEW S, Restores(replace, auto, S)
  PROVE  /\ IsFleet(bots') /\ next' \in Nat /\ \A i \in DOMAIN bots' : i < next'
<1> DEFINE m == Mapping(replace, S)
           new == Fresh(replace, S)
           base == Base(replace)
           ids == {m[r] : r \in new}
           of(i) == CHOOSE q \in new : m[q] = i
<1>1. /\ S \subseteq Records
      /\ next' = next + Cardinality(new)
      /\ bots' = [i \in DOMAIN base \cup ids |->
                    IF i \in DOMAIN base THEN base[i] ELSE BotOf(backup.records[of(i)].account, Pooled(of(i)))]
  BY DEF Restores, Fitting
<1>2. /\ IsFiniteSet(new) /\ new \subseteq S /\ Cardinality(new) \in Nat
      /\ \A r \in new : m[r] \in Nat /\ next <= m[r] /\ m[r] < next + Cardinality(new)
      /\ \A q, r \in new : m[q] = m[r] => q = r
  BY <1>1, NewIds
<1>3. IsFleet(base) /\ (\A i \in DOMAIN base : i < next) /\ next \in Nat
  BY BaseFleet DEF Fleets
<1>4. \A r \in new : Known(base, backup.records[r].account) = {}
  BY DEF Fresh
<1>5. \A i \in ids : of(i) \in new /\ m[of(i)] = i
  OBVIOUS
<1> HIDE DEF m, new, base, of
<1>6. DOMAIN bots' = DOMAIN base \cup ids BY <1>1
<1>7. IsFiniteSet(DOMAIN bots') /\ DOMAIN bots' \subseteq Nat
  <2>1. IsFiniteSet(ids)
    <3> DEFINE e == next + Cardinality(new)
    <3>1. e \in Nat BY <1>2, <1>3
    <3>2. \A r \in new : m[r] \in Nat /\ m[r] <= e BY <1>2, <1>3
    <3> HIDE DEF e
    <3>3. ids \subseteq 0..e BY <3>1, <3>2
    <3>4. 0 \in Int /\ e \in Int BY <3>1
    <3>5. IsFiniteSet(0..e) BY <3>4, FS_Interval
    <3> HIDE DEF ids
    <3> QED BY <3>3, <3>5, FS_Subset
  <2>2. ids \subseteq Nat BY <1>2
  <2> HIDE DEF ids
  <2> QED BY <1>3, <1>6, <2>1, <2>2, FS_Union DEF IsFleet
<1>8. next' \in Nat /\ \A i \in DOMAIN bots' : i < next'
  <2>1. next' \in Nat /\ next <= next' BY <1>1, <1>2, <1>3
  <2>2. \A i \in DOMAIN base : i \in Nat /\ i < next BY <1>3 DEF IsFleet
  <2>3. \A i \in DOMAIN base : i < next' BY <1>3, <2>1, <2>2
  <2>4. \A i \in ids : i < next' BY <1>1, <1>2
  <2> QED BY <1>6, <2>1, <2>3, <2>4
<1>9. ASSUME NEW i \in DOMAIN bots', NEW j \in DOMAIN bots',
             bots'[i].account = bots'[j].account, bots'[i].account \notin Tokens
      PROVE  i = j
  <2>1. \A k \in DOMAIN base : bots'[k] = base[k] BY <1>1
  <2>2. \A k \in ids \ DOMAIN base : bots'[k].account = backup.records[of(k)].account /\ of(k) \in new /\ m[of(k)] = k
    BY <1>1, <1>5 DEF BotOf
  <2>3. CASE i \in DOMAIN base /\ j \in DOMAIN base
    BY <1>3, <1>9, <2>1, <2>3 DEF IsFleet
  <2>4. CASE i \notin DOMAIN base /\ j \notin DOMAIN base
    <3>1. of(i) \in DOMAIN backup.records /\ of(j) \in DOMAIN backup.records
      BY <1>1, <1>2, <1>6, <2>2, <2>4 DEF Records
    <3>2. of(i) = of(j) BY <1>6, <1>9, <2>2, <2>4, <3>1 DEF Fleets, IsFleet
    <3> QED BY <1>6, <2>2, <2>4, <3>2
  <2>5. \A k \in DOMAIN base, l \in ids \ DOMAIN base :
          ~(bots'[k].account = bots'[l].account /\ bots'[k].account \notin Tokens)
    BY <1>4, <2>1, <2>2 DEF Known
  <2> QED BY <1>6, <1>9, <2>3, <2>4, <2>5
<1> QED BY <1>7, <1>8, <1>9 DEF IsFleet

(* and runs what it ran.                                                     *)
LEMMA RunsAsSaved ==
  ASSUME AutoInv, backup.kind = "fleet", NEW replace, NEW S, Restores(replace, TRUE, S), NEW r \in S
  PROVE  RunsOn(cfg', Mapping(replace, S)[r]) <=> RunsOn(backup.cfg, r)
<1> DEFINE m == Mapping(replace, S)
           c == backup.cfg
           Images(ids) == {m[q] : q \in ids \cap DOMAIN m}
<1>1. S \subseteq Records /\ cfg' = Remap(c, m) BY DEF Restores, Fitting
<1>2. DOMAIN m = S BY DEF Mapping
<1>3. \A q \in S : m[q] = m[r] => q = r BY <1>1, OneId DEF AutoInv
<1> HIDE DEF m
<1>4. /\ cfg'.on = c.on /\ cfg'.scoped = c.scoped /\ cfg'.byGroup = c.byGroup /\ cfg'.defined = c.defined
      /\ cfg'.scope = Images(c.scope) /\ cfg'.group = Images(c.group)
  BY <1>1 DEF Remap, AutoInv, Configs, IsConfig
<1>5. \A ids : m[r] \in Images(ids) <=> r \in ids
  BY <1>2, <1>3
<1> QED BY <1>4, <1>5 DEF RunsOn, m

----------------------------------------------------------------------------
(* The steps                                                                 *)

LEMMA FleetsStay ==
  ASSUME Fleets, UNCHANGED <<bots, next>>, backup'.records \in {backup.records, bots} PROVE Fleets'
BY DEF Fleets, IsFleet

LEMMA NoFleet == IsFleet(NoBots) /\ DOMAIN NoBots = {}
BY FS_EmptySet DEF IsFleet, NoBots

LEMMA Spawns == ASSUME Fleets, NEW a \in Accounts, SpawnUser(a) PROVE Fleets'
<1> DEFINE b == BotOf(a, a \in Pooling)
<1>1. /\ bots' = [j \in DOMAIN bots \cup {next} |-> IF j = next THEN b ELSE bots[j]]
      /\ next' = next + 1 /\ Known(bots, a) = {} /\ UNCHANGED backup /\ b.account = a
  BY DEF SpawnUser, With, BotOf
<1> HIDE DEF b
<1>2. next \in Nat /\ next \notin DOMAIN bots BY DEF Fleets
<1>3. IsFiniteSet(DOMAIN bots') /\ DOMAIN bots' \subseteq Nat
  BY <1>1, <1>2, FS_AddElement DEF Fleets, IsFleet
<1>4. \A i \in DOMAIN bots' : i < next'
  BY <1>1, <1>2 DEF Fleets, IsFleet
<1>5. \A i, j \in DOMAIN bots' : bots'[i].account = bots'[j].account /\ bots'[i].account \notin Tokens => i = j
  BY <1>1, <1>2 DEF Fleets, IsFleet, Known
<1>6. next' \in Nat /\ backup' = backup BY <1>1, <1>2
<1>7. IsFleet(bots') BY <1>3, <1>5 DEF IsFleet
<1> HIDE DEF IsFleet
<1> QED BY <1>4, <1>6, <1>7 DEF Fleets

LEMMA Stops == ASSUME Fleets, NEW i, StopBot(i) PROVE Fleets'
<1>1. bots' = [j \in DOMAIN bots \ {i} |-> bots[j]] /\ UNCHANGED <<next, backup>> BY DEF StopBot, Less
<1>2. IsFiniteSet(DOMAIN bots') BY <1>1, FS_Subset DEF Fleets, IsFleet
<1> QED BY <1>1, <1>2 DEF Fleets, IsFleet

LEMMA FleetsStep == ASSUME Fleets, [AutoNext]_autoVars PROVE Fleets'
<1>1. CASE UNCHANGED autoVars BY <1>1, FleetsStay DEF autoVars
<1>2. CASE Crash \/ CrashInSave \/ CrashInProfile
  <2>1. bots' = NoBots /\ next' = 1 /\ UNCHANGED backup BY <1>2 DEF Crash, CrashInSave, CrashInProfile, Dies
  <2> QED BY <2>1, NoFleet DEF Fleets, IsFleet
<1>3. CASE SaveBackup BY <1>3, FleetsStay DEF SaveBackup, Backup
<1>4. CASE SaveText BY <1>4, FleetsStay DEF SaveText, Backup
<1>5. ASSUME NEW replace, NEW auto, LoadBackup(replace, auto) PROVE Fleets'
  BY <1>5, Restored DEF LoadBackup, Fleets
<1>6. CASE Recover
  <2>1. UNCHANGED backup BY <1>6 DEF Recover
  <2>2. CASE UNCHANGED <<bots, next, cfg>> BY <2>1, <2>2, FleetsStay
  <2>3. ASSUME NEW S, Restores(FALSE, TRUE, S) PROVE Fleets' BY <2>1, <2>3, Restored DEF Fleets
  <2> QED BY <1>6, <2>2, <2>3 DEF Recover
<1>7. CASE SwitchPool \/ SaveShared \/ LuaAllBots \/ SaveProfile \/ LoadProfile \/ StartUp
  BY <1>7, FleetsStay DEF SwitchPool, SaveShared, LuaAllBots, SaveProfile, LoadProfile, StartUp, Beside, Publishes, Persists
<1>8. CASE EditsById \/ EditsAny
  BY <1>8, FleetsStay DEF EditsById, EditsAny, LuaSetBots, DefineGroup, SetModuleBots, LuaEnable, SetModuleGroup,
     ClearModuleGroup, SetEnabled, Publishes, Persists, Beside
<1>9. ASSUME NEW i \in Ids, Toggle(i) PROVE Fleets'
  BY <1>9, FleetsStay DEF Toggle, Publishes, Beside
<1> QED BY <1>1, <1>2, <1>3, <1>4, <1>5, <1>6, <1>7, <1>8, <1>9, Spawns, Stops DEF AutoNext

(* Every edit leaves a configuration.                                        *)
LEMMA EditsKeep ==
  ASSUME NEW c, IsConfig(c)
  PROVE  /\ \A S : IsConfig(Listed(c, S)) /\ IsConfig(Unlisted(c)) /\ IsConfig(Ungrouped(c))
         /\ \A on : IsConfig(Enabled(c, on))
         /\ \A on : IsConfig([c EXCEPT !.byGroup = on]) 
         /\ \A S : IsConfig([c EXCEPT !.defined = TRUE, !.group = S])
         /\ \A m : IsConfig(Remap(c, m))
BY DEF IsConfig, Listed, Unlisted, Ungrouped, Enabled, Remap

LEMMA OffIs == IsConfig(Off)
BY DEF IsConfig, Off

LEMMA EditsStep ==
  ASSUME Configs, EditsById \/ EditsAny \/ LuaAllBots \/ (\E i \in Ids : Toggle(i))
  PROVE  Configs'
<1> USE DEF Configs
<1>1. UNCHANGED <<profile, backup>> /\ disk' \in {disk, File(cfg', "whole")} /\ IsConfig(cfg')
  <2>1. CASE EditsById
    <3>1. ASSUME NEW S, LuaSetBots(S) PROVE UNCHANGED <<profile, backup>> /\ disk' = File(cfg', "whole") /\ IsConfig(cfg')
      BY <3>1, EditsKeep DEF LuaSetBots, Persists, Publishes, Beside
    <3>2. ASSUME NEW S, DefineGroup(S) PROVE UNCHANGED <<profile, backup, disk>> /\ IsConfig(cfg')
      BY <3>2, EditsKeep DEF DefineGroup, Publishes, Beside
    <3>3. ASSUME NEW S, NEW on, SetModuleBots(S, on) PROVE UNCHANGED <<profile, backup, disk>> /\ IsConfig(cfg')
      <4> DEFINE c == IF S = {} THEN Unlisted(cfg) ELSE Ungrouped(Listed(cfg, S))
      <4>1. IsConfig(c) BY EditsKeep
      <4> HIDE DEF c
      <4>2. IsConfig(Enabled(c, on)) BY <4>1, EditsKeep
      <4> QED BY <3>3, <4>2 DEF SetModuleBots, Publishes, Beside, c
    <3> QED BY <2>1, <3>1, <3>2, <3>3 DEF EditsById
  <2>2. CASE EditsAny
    <3>1. ASSUME NEW on, LuaEnable(on) PROVE UNCHANGED <<profile, backup>> /\ disk' = File(cfg', "whole") /\ IsConfig(cfg')
      BY <3>1, EditsKeep DEF LuaEnable, Persists, Publishes, Beside
    <3>2. ASSUME NEW on, SetModuleGroup(on) PROVE UNCHANGED <<profile, backup, disk>> /\ IsConfig(cfg')
      <4> DEFINE c == Unlisted(Enabled(cfg, on))
      <4>1. IsConfig(c) BY EditsKeep
      <4> HIDE DEF c
      <4>2. IsConfig([c EXCEPT !.byGroup = TRUE]) BY <4>1, EditsKeep
      <4> QED BY <3>2, <4>2 DEF SetModuleGroup, Publishes, Beside, c
    <3>3. ASSUME NEW on, ClearModuleGroup(on) \/ SetEnabled(on) PROVE UNCHANGED <<profile, backup, disk>> /\ IsConfig(cfg')
      BY <3>3, EditsKeep DEF ClearModuleGroup, SetEnabled, Publishes, Beside
    <3> QED BY <2>2, <3>1, <3>2, <3>3 DEF EditsAny
  <2>3. CASE LuaAllBots BY <2>3, EditsKeep DEF LuaAllBots, Publishes, Persists, Beside
  <2>4. ASSUME NEW i \in Ids, Toggle(i) PROVE UNCHANGED <<profile, backup, disk>> /\ IsConfig(cfg')
    BY <2>4, EditsKeep DEF Toggle, ToggledOn, ToggledOff, Publishes, Beside
  <2> QED BY <2>1, <2>2, <2>3, <2>4
<1>2. IsConfig(disk'.cfg) BY <1>1 DEF File
<1> QED BY <1>1, <1>2

LEMMA RestoresConfig ==
  ASSUME Configs, NEW replace, NEW auto, NEW S, Restores(replace, auto, S) PROVE IsConfig(cfg')
BY EditsKeep DEF Configs, Restores

LEMMA ConfigsStep == ASSUME Configs, [AutoNext]_autoVars PROVE Configs'
<1> USE DEF Configs
<1>1. CASE UNCHANGED autoVars BY <1>1 DEF autoVars
<1>2. CASE Crash \/ CrashInSave \/ CrashInProfile
  BY <1>2, OffIs DEF Crash, CrashInSave, CrashInProfile, Dies, File
<1>3. CASE SaveBackup BY <1>3 DEF SaveBackup, Backup
<1>4. CASE SaveText BY <1>4, OffIs DEF SaveText, Backup
<1>5. ASSUME NEW replace, NEW auto, LoadBackup(replace, auto) PROVE Configs'
  BY <1>5, RestoresConfig DEF LoadBackup
<1>6. CASE Recover BY <1>6, RestoresConfig DEF Recover
<1>7. CASE SwitchPool BY <1>7 DEF SwitchPool
<1>8. CASE SaveShared BY <1>8 DEF SaveShared, File, Beside
<1>9. CASE SaveProfile BY <1>9 DEF SaveProfile, File
<1>10. CASE LoadProfile BY <1>10 DEF LoadProfile, Publishes, Beside
<1>11. CASE StartUp BY <1>11, OffIs, EditsKeep DEF StartUp
<1>12. ASSUME NEW a \in Accounts, SpawnUser(a) PROVE Configs' BY <1>12 DEF SpawnUser
<1>13. ASSUME NEW i \in Ids, StopBot(i) PROVE Configs' BY <1>13 DEF StopBot
<1> QED
  BY <1>1, <1>2, <1>3, <1>4, <1>5, <1>6, <1>7, <1>8, <1>9, <1>10, <1>11, <1>12, <1>13, EditsStep DEF AutoNext

LEMMA AutoBegins == AutoInit => AutoInv
BY NoFleet, OffIs DEF AutoInit, AutoInv, Fleets, Configs, File, Backup

(* A backup restored with its configuration: each of its bots runs what it   *)
(* ran, for every fleet, subset restored, and history of edits and crashes.  *)
THEOREM RestoreCorrect == AutoSpec => RestoredAsSaved
<1> DEFINE Same == backup.kind = "fleet" /\ UNCHANGED <<edits, saves, backup>> /\ DOMAIN bots' # {} =>
                     \A replace \in BOOLEAN, S \in SUBSET Records :
                       Restores(replace, TRUE, S) =>
                         \A r \in S : RunsOn(cfg', Mapping(replace, S)[r]) <=> RunsOn(backup.cfg, r)
<1>1. AutoInv /\ [AutoNext]_autoVars => AutoInv' BY FleetsStep, ConfigsStep DEF AutoInv
<1>2. AutoInv => Same BY RunsAsSaved
<1> QED BY <1>1, <1>2, AutoBegins, PTL DEF AutoSpec, RestoredAsSaved, Same
===============================================================================
