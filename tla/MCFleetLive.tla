----------------------------- MODULE MCFleetLive -----------------------------
(* The fleet under fairness and a gate, side by side: a behaviour is one of  *)
(* either, the other standing still.                                         *)
EXTENDS Fleet, Gates
CONSTANTS w1, b1, b2, b3
VARIABLE scene
sceneVars == <<scene, vars, gateVars>>

FirstOn == {[on |-> {0}, worlds |-> <<w1>>]}

MCInit == scene \in {"fleet", "gate"} /\ Init /\ GateInit
MCNext == \/ scene = "fleet" /\ Next /\ UNCHANGED <<scene, gateVars>>
          \/ scene = "gate" /\ GateNext /\ UNCHANGED <<scene, vars>>
InFleet(A) == scene = "fleet" /\ A
MCFairness == /\ \A b \in Ids : WF_vars(InFleet(Thread(b)))
              /\ WF_vars(InFleet(StopErase)) /\ WF_vars(InFleet(DestroyJoin)) /\ WF_vars(InFleet(List))
MCSpec == MCInit /\ [][MCNext]_sceneVars /\ MCFairness
=============================================================================
