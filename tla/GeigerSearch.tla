---------------------------- MODULE GeigerSearch ----------------------------
(* The search of automation/modules/geiger.cpp: a reading of the counter     *)
(* says how far the prize is from the tile it was taken on, and each reading *)
(* keeps the candidates at such a distance. The world is a corridor, with    *)
(* the code's own bands; distances are squared and in quarters of a tile.    *)
(* One hunt world, a worn counter; Geiger models the farm around the search. *)
EXTENDS Integers, FiniteSetsExt

CONSTANTS GridWidth,  \* tiles of the corridor, grid_width_
          Hideouts,   \* tiles the game may hide a prize on
          HuntSteps,  \* max_steps
          MaxAvoid    \* bound: failed walks of a hunt
ASSUME GeigerAssumption ==
  /\ GridWidth \in Nat \ {0} /\ Hideouts \subseteq 0..(GridWidth - 1)
  /\ HuntSteps \in Nat \ {0} /\ MaxAvoid \in Nat

Grid == 0..(GridWidth - 1)
Door == 0

VARIABLES prize,       \* the tile the game hides the prize on
          candidates,  \* candidates_
          focus,       \* last_observation_
          active,      \* hunt_active_
          steps,       \* steps_this_hunt_
          history,     \* target_history_: how often a tile was probed, or avoided
          misses,      \* no_signal_probes_
          refreshed,   \* signal_refresh_attempts_ is not 0
          spot,        \* where the bot stands
          shown,       \* the signal in the bot's state, if newer than last_signal_ts_
          lost,        \* history: a particle was lost in this hunt
          early        \* history: a reading of this hunt called rapid green green

huntVars == <<candidates, focus, active, steps, history, misses, refreshed, shown, lost, early>>
searchVars == <<prize, spot, huntVars>>

Colors == {"red", "yellow", "green", "rapid", "nil"}
Nothing == [area |-> "nil", x |-> 0]
Reading(area, x) == [area |-> area, x |-> x]

Dist2(a, b) == 4 * (a - b) * (a - b)
NarrowBand(area) == CASE area = "red"    -> [min |-> 900, max |-> 3600]
                      [] area = "yellow" -> [min |-> 225, max |-> 784]
                      [] area = "green"  -> [min |-> 64,  max |-> 225]
                      [] OTHER           -> [min |-> 0,   max |-> 64]
\* area_band
Band(area) == CASE area = "red"    -> [min |-> 900, max |-> 3600]
                [] area = "yellow" -> [min |-> 225, max |-> 900]
                [] area = "green"  -> [min |-> 64,  max |-> 225]
                [] OTHER           -> [min |-> 0,   max |-> 64]
\* The band the prize is in, seen from d.
Color(d) == IF d <= 64 THEN "rapid" ELSE IF d <= 225 THEN "green"
            ELSE IF d <= 900 THEN "yellow" ELSE IF d <= 3600 THEN "red" ELSE "nil"

----------------------------------------------------------------------------
(* Elimination: apply_observation                                            *)

InBand(o, c) == IF o.area = "nil" THEN Dist2(c, o.x) > 3600
                ELSE Band(o.area).min <= Dist2(c, o.x) /\ Dist2(c, o.x) <= Band(o.area).max
Keeps(S, o) == {c \in S : InBand(o, c)}
\* A contradiction filters the full grid once more, and is ignored if it stays.
ObservedBy(S, o) == LET kept == Keeps(S, o)
                        rebased == Keeps(Grid, o)
                    IN IF kept # {} THEN kept ELSE IF rebased # {} THEN rebased ELSE Grid

----------------------------------------------------------------------------
(* Probes: choose_probe and build_probe_points                               *)

Radius(area) == CASE area = "yellow" -> 15 [] area = "green" -> 8 [] area = "rapid" -> 4 [] OTHER -> 30
Stride(area) == CASE area = "yellow" -> 4 [] area = "green" -> 2 [] area = "rapid" -> 1 [] OTHER -> 8
Clamp(x) == CASE x \in Grid -> x [] x < 0 -> 0 [] OTHER -> GridWidth - 1
\* The points of a lattice within the radius; its rows all fall on the corridor.
Disc == [area \in Colors |->
           LET r == Radius(area)
               row == {d \in -r..r : (d + r) % Stride(area) = 0}
           IN {dx \in row : \E dy \in row : dx * dx + dy * dy <= r * r}]
\* Once there are few survivors, they and their neighbours are probed as well.
ProbePoints(S, anchor, area) ==
  {Clamp(anchor + dx) : dx \in Disc[area]}
  \cup (IF Cardinality(S) <= 24 THEN {Clamp(c + k) : c \in S, k \in {-1, 0, 1}} ELSE {})
Centroid(S) == SumSet(S) \div Cardinality(S)
\* score_probe, times a thousand times the number of survivors: how unevenly a
\* reading on p would split them, near bands preferred, repeats and ways dear.
Score(S, p, o) ==
  LET n(c) == Cardinality({x \in S : Color(Dist2(p, x)) = c})
      split == [rapid |-> n("rapid"), green |-> n("green"), yellow |-> n("yellow"), red |-> n("red"), nil |-> n("nil")]
      biggest == CHOOSE k \in {split[c] : c \in Colors} : \A c \in Colors : split[c] <= k
      weight == CASE o.area = "rapid" -> -900 * split.rapid - 150 * split.green + 200 * split.yellow
                                         + 450 * split.red + 650 * split.nil
                  [] OTHER -> -650 * split.rapid - 350 * split.green - 80 * split.yellow
                              + (IF o.area = "red" THEN 350 * split.nil ELSE 160 * split.red + 300 * split.nil)
      away == IF p > o.x THEN p - o.x ELSE o.x - p
  IN 1000 * biggest + weight + Cardinality(S) * (180 * history[p] + 12 * away)
\* choose_probe: the best point around the last reading, or around the middle.
Targets ==
  LET o == IF focus.area # "nil" THEN focus ELSE Reading("nil", Centroid(candidates))
      scores == {<<p, Score(candidates, p, o)>> : p \in ProbePoints(candidates, o.x, o.area)}
      best == CHOOSE s \in {q[2] : q \in scores} : \A q \in scores : s <= q[2]
  IN {q[1] : q \in {r \in scores : r[2] = best}}

----------------------------------------------------------------------------
(* The hunt                                                                  *)

\* reset_hunt_state
Reset == /\ active' = FALSE /\ candidates' = {} /\ focus' = Nothing /\ steps' = 0 /\ misses' = 0
         /\ history' = [x \in Grid |-> 0]
         /\ lost' = FALSE /\ early' = FALSE
\* on_prize: the reading is consumed, and the game hides the next prize.
Prize == Reset /\ refreshed' = FALSE /\ shown' = Nothing /\ prize' \in Hideouts

SearchInit ==
  /\ prize \in Hideouts /\ spot = Door
  /\ candidates = {} /\ focus = Nothing /\ active = FALSE /\ steps = 0 /\ misses = 0
  /\ history = [x \in Grid |-> 0]
  /\ refreshed = FALSE /\ shown = Nothing /\ lost = FALSE /\ early = FALSE

\* Particles arrive between hunts too.
Particle ==
  /\ ~active /\ shown = Nothing /\ spot # prize
  /\ Color(Dist2(spot, prize)) \in {"red", "yellow"}
  /\ shown' = Reading(Color(Dist2(spot, prize)), spot)
  /\ UNCHANGED <<prize, spot, candidates, focus, active, steps, history, misses, refreshed, lost, early>>

\* 5a: the grid anew, less what a fresh reading rules out.
StartHunt ==
  /\ ~active /\ active' = TRUE /\ steps' = 0 /\ shown' = Nothing
  /\ candidates' = (IF shown = Nothing THEN Grid ELSE ObservedBy(Grid, shown))
  /\ focus' = shown
  /\ UNCHANGED <<prize, spot, history, misses, refreshed, lost, early>>

\* 5b: the budget of probes is spent.
GiveUp == active /\ steps >= HuntSteps /\ Reset /\ UNCHANGED <<prize, spot, refreshed, shown>>

Close == focus.area \in {"green", "rapid"} \/ Cardinality(candidates) <= 8
\* What the counter may show once the bot went to t: the last particle came on
\* the way or on t. A second green on one tile within 2500 ms is rapid; a far
\* probe takes the first reading, so it sees that only if it started there.
\* Of the way, its first tile stands for all: a reading says where it was taken.
Seen(t, x) == LET c == Color(Dist2(x, prize))
              IN IF c # "rapid" THEN {c}
                 ELSE IF x = t /\ (Close \/ spot = t) THEN {"green", "rapid"} ELSE {"green"}
Readings(t) == {Reading("nil", t)} \cup UNION {{Reading(c, x) : c \in Seen(t, x) \ {"nil"}} : x \in {spot, t}}

\* 5e on: the walk may stop elsewhere, or end in another world.
Avoids(t, n) == history' = [history EXCEPT ![t] = @ + n]
Unreached(t) == /\ spot' \in {spot, Door} /\ Avoids(t, 4)
                /\ UNCHANGED <<prize, candidates, focus, active, steps, misses, refreshed, shown, lost, early>>
Interrupted == active /\ steps < HuntSteps /\ Reset /\ spot' = Door /\ UNCHANGED <<prize, refreshed, shown>>
\* The prize is found by its particle or by the inventory.
Finds(t) == t = prize /\ spot' = Door /\ Prize
\* Two probes without a particle, or three: refresh_hunt_world.
Refresh(t) == /\ misses + 1 >= (IF refreshed THEN 3 ELSE 2) /\ spot' = Door
              /\ Reset /\ refreshed' = TRUE /\ UNCHANGED <<prize, shown>>
Learns(t, o) ==
  /\ o.area # "nil" \/ misses + 1 < (IF refreshed THEN 3 ELSE 2)
  /\ spot' = t /\ steps' = steps + 1 /\ Avoids(t, 1)
  /\ misses' = (IF o.area = "nil" THEN misses + 1 ELSE 0)
  /\ refreshed' = (refreshed /\ o.area = "nil")
  /\ candidates' = ObservedBy(candidates, o) /\ focus' = o
  /\ lost' = (lost \/ (o.area = "nil" /\ Color(Dist2(t, prize)) # "nil"))
  /\ early' = (early \/ (o.area = "green" /\ Color(Dist2(o.x, prize)) = "rapid"))
  /\ UNCHANGED <<prize, active, shown>>
\* Bound: failed walks leave penalties on MaxAvoid tiles of a hunt at most.
Blocked == /\ active /\ steps < HuntSteps
           /\ \E t \in Targets : Cardinality({x \in Grid : history[x] >= 4}) < MaxAvoid /\ Unreached(t)
Probe == /\ active /\ steps < HuntSteps
         /\ \E t \in Targets : \/ Finds(t) \/ Refresh(t)
                               \/ \E o \in Readings(t) : Learns(t, o)

SearchNext == Particle \/ StartHunt \/ GiveUp \/ Blocked \/ Interrupted \/ Probe
SearchSpec == SearchInit /\ [][SearchNext]_searchVars

----------------------------------------------------------------------------
(* Properties                                                                *)

\* As long as no particle was lost and no rapid green was taken for green, the
\* prize is among the candidates, whatever was probed, contradicted, rebuilt.
PrizeKept == active /\ ~lost /\ ~early => prize \in candidates

\* geiger.h:9 says the set holds every tile the prize could still be on: with
\* every particle delivered that would be so.
PrizeStaysCandidate == active /\ ~lost => prize \in candidates

\* No reading, however wrong, leaves a hunt without a candidate.
NeverWiped == active => candidates # {}

\* The candidates a hunt goes by.
CandidatesSound == PrizeKept /\ NeverWiped
=============================================================================
