------------------------------- MODULE MCFarm -------------------------------
(* The farm, its collecting bots, its reports, one bot's search for the      *)
(* prize, and the ways bots are started, side by side: a behaviour is one    *)
(* of one of them, the others standing still.                                *)
EXTENDS Geiger, Collect, GeigerReport, GeigerSearch, Spawning, TLC
CONSTANTS Scenes, ann, cat

VARIABLE scene
sceneVars == <<scene, farmVars, collectVars, reportVars, searchVars, spawnVars>>

\* A GrowID with its password, and a provider's record.
Line(name, pass, token) == [name |-> name, pass |-> pass, token |-> token]
MCParse == [a \in {ann, cat} |->
              IF a = ann THEN Line("ann", TRUE, "none") ELSE Line("ltoken_cat", FALSE, "provider")]
MCContents == {<<ann, cat, ann>>, <<cat, ann>>}

MCInit == /\ scene \in Scenes
          /\ FarmInit /\ CollectInit /\ ReportInit /\ SearchInit /\ SpawnInit
          /\ scene # "collect" => \A h \in Hands, o \in Objects : reach[h][o] = "circle"
          /\ scene # "search" => prize = CHOOSE t \in Hideouts : TRUE
MCNext ==
  \/ scene = "farm" /\ FarmNext /\ UNCHANGED <<scene, collectVars, reportVars, searchVars, spawnVars>>
  \/ scene = "collect" /\ CollectNext /\ UNCHANGED <<scene, farmVars, reportVars, searchVars, spawnVars>>
  \/ scene = "report" /\ ReportNext /\ UNCHANGED <<scene, farmVars, collectVars, searchVars, spawnVars>>
  \/ scene = "search" /\ SearchNext /\ UNCHANGED <<scene, farmVars, collectVars, reportVars, spawnVars>>
  \/ scene = "spawning" /\ SpawnNext /\ UNCHANGED <<scene, farmVars, collectVars, reportVars, searchVars>>
MCSpec == MCInit /\ [][MCNext]_sceneVars

\* Bots and objects are alike, and every property is one of states.
Alike == Permutations(Bots) \cup Permutations(Objects)
=============================================================================
