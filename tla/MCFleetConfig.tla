---------------------------- MODULE MCFleetConfig ---------------------------
(* What the window edits: the automation of the fleet and the game proxy     *)
(* pool; and one bot's places. A behaviour is one of the three, the others   *)
(* standing still.                                                           *)
EXTENDS Automation, ProxyPool, PlaceConfirm, TLC
CONSTANTS Scenes, p1, p2,
          MaxChanges    \* bound: edits, saves and crashes together

VARIABLE scene
sceneVars == <<scene, autoVars, vars, placeVars>>

\* Both spread modes, a shuffled pool, endpoints listed twice.
Listing(n, m, s, ps) == [enabled |-> TRUE, capacity |-> n, mode |-> m, shuffle |-> s, proxies |-> ps]
Either == {Listing(1, "least_loaded", TRUE, <<p1, p2>>),
           Listing(2, "round_robin", FALSE, <<p2, p1, p1, p2>>)}

\* Answers in time and nobody near; or late answers, other players, moves.
InTime == [late |-> FALSE, crowd |-> FALSE, sent |-> 5, events |-> 3]
Rough  == [late |-> TRUE, crowd |-> TRUE, sent |-> 2, events |-> 2]
Both   == {InTime, Rough}

MCInit == /\ scene \in Scenes
          /\ AutoInit /\ Init /\ PlaceInit
          /\ scene # "place" => play = InTime
MCNext ==
  \/ /\ scene = "automation" /\ AutoNext /\ edits' + saves' <= MaxChanges
     /\ UNCHANGED <<scene, vars, placeVars>>
  \/ scene = "pool" /\ Next /\ UNCHANGED <<scene, autoVars, placeVars>>
  \/ scene = "place" /\ PlaceNext /\ UNCHANGED <<scene, autoVars, vars>>
MCSpec == MCInit /\ [][MCNext]_sceneVars

Alike == Permutations(Bots)
=============================================================================
