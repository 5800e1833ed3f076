------------------------------ MODULE MCScripts ------------------------------
(* The application's bridge to its stdio servers, and the scripts that the   *)
(* window and such a server store and run. A behaviour is one of the two,    *)
(* the other standing still.                                                 *)
EXTENDS AppBridge, Scripts
CONSTANT Scenes

VARIABLE scene
sceneVars == <<scene, bridgeVars, scriptVars>>

MCInit == /\ scene \in Scenes
          /\ BridgeInit /\ ScriptsInit
          /\ scene # "bridge" => \A c \in Clients : client[c].mode = "auto"
MCNext ==
  \/ scene = "bridge" /\ BridgeNext /\ UNCHANGED <<scene, scriptVars>>
  \/ scene = "scripts" /\ ScriptsNext /\ UNCHANGED <<scene, bridgeVars>>

\* The fairness of AppBridge and of Scripts, each in its scene.
InBridge(A) == scene = "bridge" /\ A
InScripts(A) == scene = "scripts" /\ A
BridgeIsFair ==
  /\ WF_bridgeVars(InBridge(Owner)) /\ WF_bridgeVars(InBridge(Server))
  /\ \A c \in Clients : WF_bridgeVars(InBridge(Forward(c)))
ScriptsAreFair ==
  \A p \in Processes : WF_scriptVars(InScripts(Works(p))) /\ WF_scriptVars(InScripts(Late(p)))
MCSpec == MCInit /\ [][MCNext]_sceneVars /\ BridgeIsFair /\ ScriptsAreFair
=============================================================================
