------------------------------ MODULE Pathfind ------------------------------
(* AStar, the pathfinder of one bot: the grid rebuilt from the tiles before  *)
(* a search, the search itself one node of the open list at a time, and the  *)
(* cache of answers. Which of several best nodes the heap pops is a choice.  *)
(* update_single_tile and clear_cache have no caller and are left out.       *)
EXTENDS Integers, Sequences, FiniteSets

CONSTANTS Maps,       \* the maps a bot may search: [w, h, ct], ct from cells to collision types
          Starts,     \* the maps it may search first
          Warps,      \* pairs <<m, n>>: after m it may be on n
          Queries,    \* what may be asked: <<from, to, has_access>>
          CacheLimit, \* 1000 in reset()
          MaxAsks     \* bound: searches of a behaviour, for the map they are asked on

Cells(m) == (0..(m.w - 1)) \X (0..(m.h - 1))
ASSUME MapsAssumption ==
  /\ \A m \in Maps : m.w \in Nat \ {0} /\ m.h \in Nat \ {0} /\ m.ct \in [Cells(m) -> Nat]
  /\ Starts \subseteq Maps /\ Warps \subseteq Maps \X Maps
  /\ Queries \subseteq (Nat \X Nat) \X (Nat \X Nat) \X BOOLEAN
  /\ CacheLimit \in Nat /\ MaxAsks \in [Maps -> Nat]

VARIABLES map,       \* width, height and grid
          cache,     \* path_cache
          key,       \* the query of the search that runs or ran last
          phase,     \* "idle", "searching", "retracing", "done"
          open,      \* open_list: nodes [c, g, h]
          cameFrom, gScore, closed,
          path,      \* the path under reconstruction, or the answer
          asks,      \* history: searches so far
          kept       \* history: the cache survived the change to this map

pathVars == <<map, cache, key, phase, open, cameFrom, gScore, closed, path, asks, kept>>
searchVars == <<open, cameFrom, gScore, closed>>

NoPath == <<>>       \* std::nullopt: a path has at least one cell

----------------------------------------------------------------------------
(* Geometry                                                                  *)

Distance(a, b) == IF a < b THEN b - a ELSE a - b
\* movement_cost of a step.
StepCost(a, b) == IF Distance(a[1], b[1]) = 1 /\ Distance(a[2], b[2]) = 1 THEN 14 ELSE 10
\* calculate_h: the octile distance.
Octile(a, b) ==
  LET dx == Distance(a[1], b[1])
      dy == Distance(a[2], b[2])
  IN IF dx < dy THEN 14 * dx + 10 * (dy - dx) ELSE 14 * dy + 10 * (dx - dy)

\* is_blocked: solid, or a lock without access; out of the grid as well.
Blocked(m, c, access) ==
  ~(c \in Cells(m) /\ m.ct[c] \notin {1, 6} /\ (m.ct[c] = 3 => access))

Adjacent(a, b) == a # b /\ Distance(a[1], b[1]) <= 1 /\ Distance(a[2], b[2]) <= 1
\* The neighbours process_neighbors accepts: no corner is cut.
Legal(m, a, b, access) ==
  /\ Adjacent(a, b) /\ ~Blocked(m, b, access)
  /\ a[1] # b[1] /\ a[2] # b[2] =>
       ~Blocked(m, <<b[1], a[2]>>, access) /\ ~Blocked(m, <<a[1], b[2]>>, access)

Node(c, g, to) == [c |-> c, g |-> g, h |-> Octile(c, to)]
\* PathNodeGreater: smallest f, then smallest h.
Before(n, o) == \/ n.g + n.h < o.g + o.h
                \/ n.g + n.h = o.g + o.h /\ n.h < o.h
Best(nodes) == {n \in nodes : \A o \in nodes : ~Before(o, n)}

From == key[1]
To == key[2]
Access == key[3]

----------------------------------------------------------------------------
(* The grid                                                                  *)

NoKey == <<<<0, 0>>, <<0, 0>>, FALSE>>
NoEntries == [k \in {} |-> NoPath]
PathInit == /\ map \in Starts /\ cache = NoEntries /\ key = NoKey /\ phase = "idle"
            /\ open = {} /\ cameFrom = [c \in {} |-> c] /\ gScore = [c \in {} |-> 0]
            /\ closed = {} /\ path = NoPath /\ asks = 0 /\ kept = FALSE

SameSize(m, n) == m.w = n.w /\ m.h = n.h
\* A change of size runs reset(), which drops a large cache only.
CacheAfter(m) == IF SameSize(map, m) \/ Cardinality(DOMAIN cache) > CacheLimit
                 THEN NoEntries ELSE cache

\* update_from_tiles, which every caller of find_path runs first.
Update(m) ==
  /\ phase \in {"idle", "done"} /\ asks < MaxAsks[m]
  /\ m = map \/ <<map, m>> \in Warps
  /\ map' = m
  /\ cache' = CacheAfter(m)
  /\ kept' = (cache' # NoEntries)
  /\ phase' = "idle" /\ path' = NoPath
  /\ UNCHANGED <<key, asks, searchVars>>

----------------------------------------------------------------------------
(* find_path                                                                 *)

Ask(k) == /\ phase = "idle" /\ asks < MaxAsks[map]
          /\ asks' = asks + 1 /\ key' = k

Answer(p) == /\ phase' = "done" /\ path' = p
             /\ UNCHANGED <<map, searchVars, kept>>
Caches(k, p) == cache' = [x \in DOMAIN cache \cup {k} |-> IF x = k THEN p ELSE cache[x]]

AskCached(k) == /\ Ask(k) /\ k \in DOMAIN cache
                /\ Answer(cache[k]) /\ UNCHANGED cache

\* Ends outside the map or blocked, or one end.
AskTrivial(k) ==
  /\ Ask(k) /\ k \notin DOMAIN cache
  /\ LET none == Blocked(map, k[1], k[3]) \/ Blocked(map, k[2], k[3])
         p == IF none THEN NoPath ELSE <<k[1]>>
     IN /\ none \/ k[1] = k[2]
        /\ Answer(p) /\ Caches(k, p)

AskSearch(k) ==
  /\ Ask(k) /\ k \notin DOMAIN cache /\ k[1] # k[2]
  /\ ~Blocked(map, k[1], k[3]) /\ ~Blocked(map, k[2], k[3])
  /\ open' = {Node(k[1], 0, k[2])}
  /\ gScore' = [c \in {k[1]} |-> 0] /\ cameFrom' = [c \in {} |-> c] /\ closed' = {}
  /\ phase' = "searching" /\ path' = NoPath
  /\ UNCHANGED <<map, cache, kept>>

\* The open list is empty: no path.
Exhausted == /\ phase = "searching" /\ open = {}
             /\ Answer(NoPath) /\ Caches(key, NoPath)
             /\ UNCHANGED <<key, asks>>

\* Mutant: the first way found to a cell stays.
ImprovedOnce(n) == {c \in Cells(map) \ closed : /\ c # n.c /\ Legal(map, n.c, c, Access)
                                               /\ c \notin DOMAIN gScore}
\* Neighbours of n that are worth a visit: open to it, and cheaper through it.
Improved(n) ==
  {c \in Cells(map) \ closed : /\ c # n.c /\ Legal(map, n.c, c, Access)
                               /\ c \in DOMAIN gScore => n.g + StepCost(n.c, c) < gScore[c]}

PopGoal(n) == /\ n.c = To
              /\ phase' = "retracing" /\ path' = <<To>> /\ open' = open \ {n}
              /\ UNCHANGED <<map, cache, key, asks, kept, cameFrom, gScore, closed>>
PopClosed(n) == /\ n.c # To /\ n.c \in closed
                /\ open' = open \ {n}
                /\ UNCHANGED <<map, cache, key, asks, kept, phase, path, cameFrom, gScore, closed>>
PopExpand(n) ==
  /\ n.c # To /\ n.c \notin closed
  /\ LET better == Improved(n)
         cost(c) == n.g + StepCost(n.c, c)
     IN /\ closed' = closed \cup {n.c}
        /\ gScore' = [c \in DOMAIN gScore \cup better |-> IF c \in better THEN cost(c) ELSE gScore[c]]
        /\ cameFrom' = [c \in DOMAIN cameFrom \cup better |-> IF c \in better THEN n.c ELSE cameFrom[c]]
        /\ open' = (open \ {n}) \cup {Node(c, cost(c), To) : c \in better}
  /\ UNCHANGED <<map, cache, key, asks, kept, phase, path>>
Pop(n) == /\ phase = "searching" /\ n \in Best(open)
          /\ PopGoal(n) \/ PopClosed(n) \/ PopExpand(n)

\* reconstruct_optimized_path: pushed back and reversed, here prepended. Every
\* cell but the start has a predecessor (Retraced), so the walk never breaks off.
RetraceStep == /\ phase = "retracing" /\ path[1] # From
               /\ path' = <<cameFrom[path[1]]>> \o path
               /\ UNCHANGED <<map, cache, key, phase, asks, kept, searchVars>>
RetraceEnd == /\ phase = "retracing" /\ path[1] = From
              /\ Answer(path) /\ Caches(key, path)
              /\ UNCHANGED <<key, asks>>

PathNext == \/ \E m \in Maps : Update(m)
            \/ \E k \in Queries : AskCached(k) \/ AskTrivial(k) \/ AskSearch(k)
            \/ Exhausted
            \/ \E n \in open : Pop(n)
            \/ RetraceStep \/ RetraceEnd
PathSpec == PathInit /\ [][PathNext]_pathVars /\ WF_pathVars(PathNext)

----------------------------------------------------------------------------
(* The reference: the cheapest ways to every cell, by rounds of relaxation.  *)

Cheapest(ways) == {v \in ways : \A o \in ways : o[1] = v[1] => v[2] <= o[2]}
Relaxed(m, access, known) ==
  Cheapest(known \cup UNION {{<<c, v[2] + StepCost(v[1], c)>> :
                               c \in {x \in Cells(m) : Legal(m, v[1], x, access)}} : v \in known})
\* Pairs <<cell, cost>> reached from `from' in as many steps as the map has cells.
Ways(m, from, access) ==
  LET Reached[n \in Nat] == IF n = 0 THEN {<<from, 0>>} ELSE Relaxed(m, access, Reached[n - 1])
  IN Reached[Cardinality(Cells(m))]

Length(p) == LET L[i \in 1..Len(p)] == IF i = 1 THEN 0 ELSE L[i - 1] + StepCost(p[i - 1], p[i])
             IN L[Len(p)]
Walkable(m, p, access) == /\ \A i \in 1..Len(p) : ~Blocked(m, p[i], access)
                          /\ \A i \in 1..(Len(p) - 1) : Legal(m, p[i], p[i + 1], access)

\* p joins the ends of the query k on m, if it is a path.
Joins(m, k, p) == p # NoPath => /\ p[1] = k[1] /\ p[Len(p)] = k[2]
                                /\ Walkable(m, p, k[3])
\* What find_path promises of its answer p to the query k on the grid m.
Right(m, k, p) ==
  LET none == Blocked(m, k[1], k[3]) \/ Blocked(m, k[2], k[3])
  IN IF none THEN p = NoPath
     ELSE LET costs == {v[2] : v \in {x \in Ways(m, k[1], k[3]) : x[1] = k[2]}}
          IN IF costs = {} THEN p = NoPath
             ELSE p # NoPath /\ Joins(m, k, p) /\ Length(p) \in costs

----------------------------------------------------------------------------
(* Properties                                                                *)

PathTypeOK ==
  /\ map \in Maps /\ phase \in {"idle", "searching", "retracing", "done"}
  /\ asks \in Nat /\ kept \in BOOLEAN
  /\ key \in (Nat \X Nat) \X (Nat \X Nat) \X BOOLEAN

\* An answer is a shortest path on the grid of the last update, no corner cut
\* and no blocked cell entered, or none when there is none; from the cache as
\* well, unless the cache survived a change of the map's size.
AnswersRight == phase = "done" /\ ~kept => Right(map, key, path)

\* What docs/port-specs/10-world.md:580 says of the cache: it is cleared when
\* the grid's content changes, so an answer is right on every map.
AnswersRightAnywhere == phase = "done" => Right(map, key, path)

\* An answer that is a path joins the ends of the query over free cells, no
\* corner cut: the part of AnswersRight that holds for maps of every size.
AnswersJoin == phase = "done" /\ ~kept => Joins(map, key, path)

\* The inductive invariant behind it: every cell found has a legal predecessor
\* that was found as well, and the cache holds answers for the map at hand.
Found == {From} \cup DOMAIN cameFrom
PathIInv ==
  /\ PathTypeOK
  /\ path \in Seq(Nat \X Nat)
  /\ phase \in {"searching", "retracing"} =>
       /\ ~Blocked(map, From, Access)
       /\ \A n \in open : n.c \in Found
       /\ \A c \in DOMAIN cameFrom : cameFrom[c] \in Found /\ Legal(map, cameFrom[c], c, Access)
  /\ phase = "retracing" => /\ path # NoPath /\ path[1] \in Found /\ path[Len(path)] = To
                            /\ Walkable(map, path, Access)
  /\ \A k \in DOMAIN cache : cache[k] \in Seq(Nat \X Nat)
  /\ ~kept => \A k \in DOMAIN cache : Joins(map, k, cache[k])
  /\ AnswersJoin
=============================================================================
