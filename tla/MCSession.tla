------------------------------ MODULE MCSession ------------------------------
(* A bot's session, and the desk's AI, side by side: a behaviour is one of   *)
(* either, the other standing still.                                         *)
EXTENDS BotSession, AiController
VARIABLE scene
sceneVars == <<scene, vars, aiVars>>

Bot(kind, proxy, rotating, reasons, commands) ==
  [kind |-> kind, proxy |-> proxy, rotating |-> rotating,
   reasons |-> reasons, commands |-> commands]

(* Left to itself, in every way a bot is logged in, by an exit of either     *)
(* pool; and with a user who interferes.                                     *)
Refusals == {"2fa", "throttle", "relogon", "update"}
All      == {"warp", "reconnect", "disconnect", "auto"}
Alone    == {Bot(k, p, ~p, Refusals, {}) : k \in {"ltoken", "provider", "legacy"}, p \in BOOLEAN}
Handled  == {Bot("ltoken", TRUE, FALSE, {"2fa"}, All \ {"reconnect"}), Bot("legacy", FALSE, TRUE, {"2fa"}, All)}
Every    == Alone \cup Handled

(* What the model may answer, and how it may be reached.                     *)
A == [id |-> "a", tool |-> "look"]
B == [id |-> "b", tool |-> "look"]
Away == [id |-> "a", tool |-> "fly"]
MCReplies == {<<>>, <<A>>, <<A, B>>, <<A, A>>, <<Away>>}
Here == [scheme |-> "http", host |-> "loopback", userinfo |-> FALSE]
Official == [scheme |-> "https", host |-> "remote", userinfo |-> FALSE]
Unsafe == [scheme |-> "http", host |-> "remote", userinfo |-> FALSE]
C(p, a, e) == [provider |-> p, autonomy |-> a, endpoint |-> e, model |-> TRUE, key |-> TRUE, tokens |-> 4096]
MCSendings == {C("openai", "ask", Here), C("anthropic", "auto", Official), C("openai", "auto", Unsafe)}

MCInit == /\ scene \in {"session", "ai"} /\ Init /\ AiInit
          /\ scene # "session" => method = CHOOSE m \in Methods : TRUE
          /\ scene # "ai" => settings.autonomy = "ask"
MCNext == \/ scene = "session" /\ Next /\ UNCHANGED <<scene, aiVars>>
          \/ scene = "ai" /\ AiNext /\ UNCHANGED <<scene, vars>>
InSession(Action) == scene = "session" /\ Action
MCFairness == /\ WF_vars(InSession(Settle)) /\ WF_vars(InSession(EndLoginWait)) /\ WF_vars(InSession(EndWarpWait))
              /\ SF_vars(InSession(Elapse)) /\ SF_vars(InSession(Watchdog))
MCSpec == MCInit /\ [][MCNext]_sceneVars /\ MCFairness
=============================================================================
