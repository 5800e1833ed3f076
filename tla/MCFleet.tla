------------------------------- MODULE MCFleet -------------------------------
(* Small fleets for TLC, from two sides. "claims": nameless bots that never  *)
(* fail, the coordinate module switched on and off, commands left waiting.   *)
(* "roster": spawns, stops, failures and names that collide, the module on   *)
(* for the first bot.                                                        *)
EXTENDS Fleet
CONSTANTS n1, w1
VARIABLE scene
sceneVars == <<scene, vars>>

AllOn   == [on |-> Ids, worlds |-> <<w1>>]
FirstOn == [on |-> {0}, worlds |-> <<w1>>]
AllOrFirst == {AllOn, FirstOn}

Nameless == \A b \in Ids : username'[b] = NoName
Unfailing == \A b \in Ids : /\ ~crashed'[b] /\ ~stopRequested'[b]
                            /\ ~(pc[b] = "create" /\ pc'[b] = "closing")
NoCommands == \A b \in Ids : queue'[b] > queue[b] => stopFlag'[b]
MCInit == Init /\ scene \in {"claims", "roster"} /\ (scene = "roster" => config = FirstOn)
MCNext == /\ Next /\ UNCHANGED scene
          /\ scene = "claims" => Nameless /\ Unfailing
          /\ scene = "roster" => UNCHANGED config /\ NoCommands
MCSpec == MCInit /\ [][MCNext]_sceneVars
=============================================================================
