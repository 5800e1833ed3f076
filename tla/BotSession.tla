------------------------------ MODULE BotSession ------------------------------
(***************************************************************************)
(* One bot's connection to the game: the login, redirect and reconnect     *)
(* state machine of Bot (bot_connection.cpp, bot_handlers.cpp), its ENet   *)
(* host, and a server that answers as the handlers expect.                 *)
(*                                                                         *)
(* The gateway greets with ServerHello, takes the login packet and hands   *)
(* out a redirect (OnSendToServer); the bot then connects to a subserver,  *)
(* which takes the redirect packet and spawns it in a world.  Anything may *)
(* drop, stall or be refused on the way.                                   *)
(*                                                                         *)
(* Deadlines are abstract: a delay that is set may elapse at any time.     *)
(* Proxies are not chosen here, only whether the bot has one.              *)
(***************************************************************************)
EXTENDS Naturals, Sequences

CONSTANTS
  Methods      \* how a bot is logged in and what happens to it:
               \*   kind             login_method_
               \*   proxy, rotating  whether proxy_ and login_proxy_ have a value
               \*   reasons          why the server may refuse it
               \*   commands         what its user may do

(* The reasons in the order logon_fail looks for them. *)
Ladder == <<"2fa", "overload", "tooMany", "throttle", "place", "relogon",
            "update", "maintenance">>
Delayed == {"2fa", "overload", "tooMany", "place", "maintenance"}

ASSUME SessionAssumption ==
  Methods \subseteq
    [kind : {"ltoken", "provider", "legacy"},
     proxy : BOOLEAN, rotating : BOOLEAN,
     reasons : SUBSET {Ladder[k] : k \in DOMAIN Ladder},
     commands : SUBSET {"warp", "reconnect", "disconnect", "auto"}]

VARIABLES
  method,             \* how this bot is logged in
  link, leg,          \* host_: its one connection, and where it leads
  said,               \* the logon packets sent over that connection
  hello, since, onSub, addr,
                      \* saw_server_hello_, connected_since_,
                      \* on_subserver_connect_, server_addr_
  redirect, attempts, connectFails,  \* redirect_, redirect_attempts_, ..
  preHello, subFails, rejects, throttles,
                      \* pre_hello_disconnects_, subserver_connect_fails_,
                      \* login_reject_streak_, login_throttle_streak_
  timer, refresh,     \* reconnect_after_, refresh_token_on_reconnect_
  world, wasInWorld, notes,  \* world_, was_in_world_, pending_*
  auto, stopReq, wait        \* auto_reconnect_, stop_requested_, the gate
                             \* wait under way

conn    == <<link, leg, said, hello, onSub, addr>>
redir   == <<redirect, attempts, connectFails>>
streaks == <<preHello, subFails, rejects, throttles>>
plan    == <<timer, refresh>>
life    == <<world, wasInWorld, notes>>
ctl     == <<method, auto, wait>>
vars    == <<conn, since, redir, streaks, plan, life, ctl, stopReq>>

Init ==
  /\ method \in Methods
  /\ link = "connecting" /\ leg = "gateway" /\ said = <<>>
  /\ hello = FALSE /\ since = FALSE /\ onSub = FALSE /\ addr = TRUE
  /\ redirect = FALSE /\ attempts = 0 /\ connectFails = 0
  /\ preHello = 0 /\ subFails = 0 /\ rejects = 0 /\ throttles = 0
  /\ timer = FALSE /\ refresh = FALSE
  /\ world = FALSE /\ wasInWorld = FALSE /\ notes = {}
  /\ auto = TRUE /\ stopReq = FALSE /\ wait = "none"

REDIRECT_MAX_GAME_PROXY_TRIES == 6
AtMost(n, max) == IF n < max THEN n ELSE max

-----------------------------------------------------------------------------
(* Reconnecting. *)

(* A new host starts to connect; nothing was said over it yet. *)
Dial(to) ==
  /\ link' = "connecting" /\ leg' = to
  /\ said' = <<>> /\ hello' = FALSE

(* host_ without a connection: the peer is gone. *)
NoPeer ==
  /\ link' = "idle" /\ said' = <<>>
  /\ UNCHANGED leg

(* The server_data loop: it ends with an address, or with one that does    *)
(* not resolve and a retry in 10 s.                                        *)
FetchServer(t) ==
  \/ Dial("gateway") /\ addr' = TRUE /\ timer' = t
  \/ NoPeer /\ hello' = FALSE /\ addr' = FALSE /\ timer' = TRUE

(* reconnect_main, called with redirect_, redirect_attempts_ and           *)
(* reconnect_after_ as r, a and t.  refresh_token may fail, which stops    *)
(* the bot, or (but for "ltoken") bring an address along.                  *)
ReconnectMain(fresh, r, a, t) ==
  /\ onSub' = FALSE
 
  /\ \/ /\ ~fresh /\ addr
        /\ Dial("gateway") /\ timer' = t
        /\ redirect' = r /\ attempts' = a
        /\ UNCHANGED <<addr, stopReq>>
     \/ /\ ~fresh /\ ~addr /\ ~stopReq
        /\ FetchServer(t)
        /\ redirect' = r /\ attempts' = a
        /\ UNCHANGED stopReq
     \/ /\ ~fresh /\ ~addr /\ stopReq
        /\ NoPeer /\ hello' = FALSE /\ timer' = t
        /\ redirect' = r /\ attempts' = a
        /\ UNCHANGED <<addr, stopReq>>
     \/ /\ fresh                      \* the token cannot be refreshed
        /\ NoPeer /\ hello' = FALSE /\ addr' = FALSE /\ timer' = t
        /\ redirect' = r /\ attempts' = a
        /\ stopReq' = TRUE
     \/ /\ fresh                      \* a new session, address included
        /\ method.kind # "ltoken"
        /\ Dial("gateway") /\ addr' = TRUE /\ timer' = t
        /\ IF method.kind = "legacy" THEN redirect' = FALSE /\ attempts' = 0
                              ELSE redirect' = r /\ attempts' = a
        /\ UNCHANGED stopReq
     \/ /\ fresh /\ ~stopReq           \* a token, no address
        /\ method.kind # "provider"
        /\ FetchServer(t)
        /\ IF method.kind = "legacy" THEN redirect' = FALSE /\ attempts' = 0
                              ELSE redirect' = r /\ attempts' = a
        /\ UNCHANGED stopReq

-----------------------------------------------------------------------------
(* ENet events.  Every attempt to connect ends in one of them, and so does *)
(* every disconnect; while a disconnect is under way nothing is received.  *)

Connected ==     \* on_connect
  /\ link = "connecting"
  /\ link' = "up" /\ hello' = FALSE /\ since' = TRUE
  /\ UNCHANGED <<leg, said, onSub, addr, redir, streaks, plan, life,
                 ctl, stopReq>>

(* Mutant: a redirect that leads nowhere is kept. *)
RedirectingKeepsRedirect ==
  /\ redirect /\ attempts = 0
  /\ connectFails' = 0
  /\ ReconnectMain(FALSE, TRUE, 0, timer)
  /\ UNCHANGED <<refresh, streaks, wasInWorld>>

(* (A) of on_disconnect: a redirect in hand leads to the subserver.        *)
Redirecting ==
  /\ redirect
  /\ \/ /\ attempts > 0                       \* its token was used
        /\ ReconnectMain(FALSE, FALSE, 0, timer)
        /\ UNCHANGED <<connectFails, refresh>>
     \/ /\ attempts = 0
        /\ connectFails + 1 >= REDIRECT_MAX_GAME_PROXY_TRIES
        /\ connectFails' = 0
        /\ ReconnectMain(TRUE, FALSE, 0, timer)
        /\ UNCHANGED refresh
     \/ /\ attempts = 0
        /\ connectFails + 1 < REDIRECT_MAX_GAME_PROXY_TRIES
        /\ connectFails' = connectFails + 1
        /\ Dial("sub")
        /\ onSub' = (method.proxy /\ method.kind # "provider")
        /\ UNCHANGED <<addr, redirect, attempts, plan, stopReq>>
     \/ /\ attempts = 0                       \* it does not resolve
        /\ connectFails' = 0
        /\ ReconnectMain(FALSE, FALSE, 0, timer)
        /\ UNCHANGED refresh
  /\ UNCHANGED <<streaks, wasInWorld>>

(* Mutant: a subserver that drops the bot leaves no timer behind. *)
RetryWorldJoinAtOnce ==
  /\ ~hello /\ onSub /\ method.proxy
  /\ onSub' = FALSE /\ preHello' = 0
  /\ subFails' = IF subFails + 1 >= 2 THEN 0 ELSE subFails + 1
  /\ UNCHANGED timer /\ refresh' = FALSE
  /\ UNCHANGED <<rejects, throttles, wasInWorld>>

(* (C) of on_disconnect, first branch: the game proxy did not reach the    *)
(* subserver; after two such drops it is replaced.                         *)
RetryWorldJoin ==
  /\ ~hello /\ onSub /\ method.proxy
  /\ onSub' = FALSE /\ preHello' = 0
  /\ subFails' = IF subFails + 1 >= 2 THEN 0 ELSE subFails + 1
  /\ timer' = TRUE /\ refresh' = FALSE
  /\ UNCHANGED <<rejects, throttles, wasInWorld>>

(* Second branch: no ServerHello; the third time the exit address is set   *)
(* aside and the token refreshed.                                          *)
RetryPreHello ==
  /\ ~hello /\ ~(onSub /\ method.proxy)
  /\ preHello' = (preHello + 1) % 3
  /\ timer' = TRUE /\ refresh' = (refresh \/ preHello + 1 = 3)
  /\ UNCHANGED <<onSub, subFails, rejects, throttles, wasInWorld>>

(* Third branch: a session in the world is started from scratch. *)
RestartInWorld ==
  /\ hello /\ wasInWorld
  /\ wasInWorld' = FALSE /\ preHello' = 0
  /\ timer' = TRUE /\ refresh' = TRUE
  /\ UNCHANGED <<onSub, subFails, rejects, throttles>>

(* Last branch: the gateway dropped the bot after ServerHello. *)
RetryRejected ==
  LET r == rejects + 1 IN
  /\ hello /\ ~wasInWorld
  /\ preHello' = 0
  /\ rejects' = r % 3
  /\ timer' = TRUE /\ refresh' = (r = 3 \/ refresh)
  /\ UNCHANGED <<onSub, subFails, throttles, wasInWorld>>

(* on_disconnect. *)
Disconnected ==
  /\ link # "idle"
  /\ since' = FALSE
  /\ \/ Redirecting
     \/ /\ ~redirect /\ (timer \/ ~auto)       \* (B) and (D)
        /\ NoPeer
        /\ UNCHANGED <<hello, onSub, addr, redir, streaks, plan, stopReq,
                       wasInWorld>>
     \/ /\ ~redirect /\ ~timer /\ auto         \* (C)
        /\ NoPeer
        /\ \/ RetryWorldJoin \/ RetryPreHello \/ RestartInWorld
           \/ RetryRejected
        /\ UNCHANGED <<hello, addr, redir, stopReq>>
  /\ UNCHANGED <<world, notes, ctl>>

-----------------------------------------------------------------------------
(* What the server sends over a connection that is up. *)

Heard == link = "up" /\ hello /\ said # <<>>

(* A redirect is answered at once; the login packet waits for its gate,    *)
(* with ENet serviced, unless that happens inside another wait.            *)
ServerHello ==   \* on_server_hello
  /\ link = "up" /\ ~hello
  /\ hello' = TRUE /\ preHello' = 0 /\ connectFails' = 0 /\ onSub' = FALSE
  /\ IF redirect
     THEN /\ redirect' = FALSE /\ attempts' = AtMost(attempts + 1, 255)
          /\ subFails' = 0
          /\ said' = Append(said, "redirect")
          /\ UNCHANGED wait
     ELSE /\ \/ wait = "none" /\ wait' = "login" /\ UNCHANGED said
             \/ said' = Append(said, "login") /\ UNCHANGED wait
          /\ UNCHANGED <<redirect, attempts, subFails>>
  /\ UNCHANGED <<link, leg, addr, since, rejects, throttles, plan,
                 life, method, auto, stopReq>>

(* OnSendToServer. *)
OnSendToServer ==
  /\ Heard
  /\ redirect' = TRUE /\ attempts' = 0 /\ rejects' = 0 /\ throttles' = 0
  /\ link' = "closing"
  /\ UNCHANGED <<leg, said, hello, onSub, addr, since, connectFails,
                 preHello, subFails, plan, life, ctl, stopReq>>

(* OnSpawn of the bot itself, and clear_login_state_flags. *)
OnSpawn ==
  /\ Heard /\ leg = "sub"
  /\ redirect' = FALSE /\ attempts' = 0
  /\ refresh' = FALSE
  /\ notes' = {} /\ rejects' = 0 /\ throttles' = 0 /\ preHello' = 0
  /\ since' = FALSE /\ wasInWorld' = TRUE
  /\ UNCHANGED <<link, leg, said, hello, onSub, addr, connectFails, subFails,
                 timer, world, ctl, stopReq>>

(* SendMapData, and OnRequestWorldSelectMenu. *)
LoadWorld ==
  /\ Heard /\ leg = "sub" /\ ~world
  /\ world' = TRUE
  /\ UNCHANGED <<conn, since, redir, streaks, plan, wasInWorld, notes, ctl,
                 stopReq>>
LeaveWorld ==
  /\ Heard /\ leg = "sub" /\ world
  /\ world' = FALSE
  /\ UNCHANGED <<conn, since, redir, streaks, plan, wasInWorld, notes, ctl,
                 stopReq>>

(* A text that tells why a logon_fail will follow. *)
Announce(n) ==
  /\ Heard /\ n \notin notes
  /\ notes' = notes \cup {n}
  /\ redirect' = (redirect /\ n # "relogon")
  /\ UNCHANGED <<conn, since, attempts, connectFails, streaks, plan,
                 world, wasInWorld, ctl, stopReq>>

(* The reason logon_fail acts on: the first of the ladder. *)
FirstReason ==
  LET at == {k \in DOMAIN Ladder : Ladder[k] \in notes}
  IN IF at = {} THEN "none"
     ELSE Ladder[CHOOSE k \in at : \A j \in at : k <= j]

(* The throttle streak only matters up to two. *)
Throttled ==
  LET stop == /\ method.rotating /\ method.kind = "provider"
              /\ throttles + 1 >= 2 IN
  /\ timer' = TRUE
  /\ stopReq' = (stopReq \/ stop)
  /\ refresh' = (refresh \/ (method.rotating /\ ~stop))
  /\ throttles' = IF method.rotating /\ method.kind # "provider" THEN 0
                  ELSE AtMost(throttles + 1, 2)
  /\ UNCHANGED <<redirect, attempts>>

(* action|logon_fail *)
LogonFail ==
  LET n == FirstReason IN
  /\ Heard
  /\ notes' = notes \ {n}
  /\ link' = "closing"
  /\ \/ /\ n \in Delayed /\ timer' = TRUE
        /\ UNCHANGED <<redirect, attempts, refresh, throttles, stopReq>>
     \/ n = "throttle" /\ Throttled
     \/ /\ n = "relogon"
        /\ UNCHANGED <<redirect, attempts, plan, throttles, stopReq>>
     \/ /\ n = "update" /\ stopReq' = TRUE
        /\ UNCHANGED <<redirect, attempts, plan, throttles>>
     \/ /\ n = "none"
        /\ redirect' = FALSE /\ attempts' = 0 /\ refresh' = TRUE
        /\ UNCHANGED <<timer, throttles, stopReq>>
  /\ UNCHANGED <<leg, said, hello, onSub, addr, since, connectFails,
                 preHello, subFails, rejects, world, wasInWorld, ctl>>

(* action|request_token *)
RequestToken ==
  /\ Heard
  /\ refresh' = FALSE
  /\ ReconnectMain(TRUE, FALSE, 0, FALSE)
  /\ UNCHANGED <<since, connectFails, streaks, life, ctl>>

-----------------------------------------------------------------------------
(* The run loop and the commands of the user.  They run only outside a     *)
(* gate wait.                                                              *)

AtLoop == wait = "none" /\ ~stopReq

(* The end of a gate wait: what was waited for is sent if there is a peer. *)
EndLoginWait ==
  /\ wait = "login"
  /\ wait' = "none"
  /\ said' = IF link = "up" THEN Append(said, "login") ELSE said
  /\ UNCHANGED <<link, leg, hello, onSub, addr, since, redir, streaks,
                 plan, life, method, auto, stopReq>>

(* warp(): it waits first and drops the redirect afterwards. *)
Warp ==
  /\ AtLoop /\ "warp" \in method.commands
  /\ wait' = "warp"
  /\ UNCHANGED <<conn, since, redir, streaks, plan, life, method, auto,
                 stopReq>>
EndWarpWait ==
  /\ wait = "warp"
  /\ wait' = "none"
  /\ redirect' = FALSE /\ attempts' = 0
  /\ UNCHANGED <<conn, since, connectFails, streaks, plan, life, method,
                 auto, stopReq>>

Reconnect ==
  /\ AtLoop /\ "reconnect" \in method.commands
  /\ ReconnectMain(FALSE, redirect, attempts, timer)
  /\ UNCHANGED <<since, connectFails, streaks, refresh, life, ctl>>

Disconnect ==
  /\ AtLoop /\ "disconnect" \in method.commands
  /\ link = "up"
  /\ link' = "closing"
  /\ UNCHANGED <<leg, said, hello, onSub, addr, since, redir, streaks,
                 plan, life, ctl, stopReq>>

SetAutoReconnect ==
  /\ AtLoop /\ "auto" \in method.commands
  /\ auto' = ~auto
  /\ UNCHANGED <<conn, since, redir, streaks, plan, life, method, wait,
                 stopReq>>

(* Mutant: the old token is used again. *)
ElapseReusesToken ==
  /\ AtLoop /\ timer /\ auto
  /\ ReconnectMain(FALSE, redirect, attempts, FALSE)
  /\ UNCHANGED <<since, connectFails, streaks, refresh, life, ctl>>

(* Mutant: a cooldown that needs no token is put off again. *)
ElapsePostpones ==
  /\ AtLoop /\ timer
  /\ IF auto /\ refresh
     THEN /\ refresh' = FALSE
          /\ ReconnectMain(TRUE, redirect, attempts, FALSE)
     ELSE /\ timer' = auto
          /\ UNCHANGED <<conn, redirect, attempts, refresh, stopReq>>
  /\ UNCHANGED <<since, connectFails, streaks, life, ctl>>

(* reconnect_after_ has passed. *)
Elapse ==
  /\ AtLoop /\ timer
  /\ IF auto
     THEN /\ refresh' = FALSE
          /\ ReconnectMain(refresh, redirect, attempts, FALSE)
     ELSE /\ timer' = FALSE
          /\ UNCHANGED <<conn, redirect, attempts, refresh, stopReq>>
  /\ UNCHANGED <<since, connectFails, streaks, life, ctl>>

(* 30 s connected with no world. *)
Watchdog ==
  /\ AtLoop /\ since /\ ~world
  /\ since' = FALSE /\ redirect' = FALSE /\ attempts' = 0
  /\ connectFails' = 0 /\ hello' = FALSE
  /\ link' = IF link = "up" THEN "closing" ELSE link
  /\ UNCHANGED <<leg, said, onSub, addr, streaks, plan, life, ctl,
                 stopReq>>

(* The loop ends when a stop was requested. *)
Ended == wait = "none" /\ stopReq /\ UNCHANGED vars

Network == Connected \/ Disconnected \/ ServerHello
Server  == OnSendToServer \/ OnSpawn \/ LoadWorld \/ LeaveWorld \/ LogonFail
           \/ RequestToken \/ \E n \in method.reasons : Announce(n)
User    == Warp \/ Reconnect \/ Disconnect \/ SetAutoReconnect
Loop    == EndLoginWait \/ EndWarpWait \/ Elapse \/ Watchdog
Next    == Network \/ Server \/ User \/ Loop \/ Ended

Spec     == Init /\ [][Next]_vars

(* The loop keeps turning and passes both its deadlines on every turn,     *)
(* however often a command makes it wait; waits end; and ENet ends every   *)
(* attempt to connect and every disconnect with an event.  Of the server   *)
(* nothing is assumed: it may fall silent at any point.                    *)
Settle   == link \in {"connecting", "closing"} /\ (Connected \/ Disconnected)
FairSpec == Spec /\ WF_vars(Settle) /\ WF_vars(EndLoginWait)
                 /\ WF_vars(EndWarpWait)
                 /\ SF_vars(Elapse) /\ SF_vars(Watchdog)

-----------------------------------------------------------------------------
(* Types, and the limits the counters are reset at. *)
TypeOK ==
  /\ method \in Methods
  /\ link \in {"connecting", "up", "closing", "idle"}
  /\ leg \in {"gateway", "sub"} /\ said \in Seq({"login", "redirect"})
  /\ {hello, since, onSub, addr, redirect, timer, refresh, world,
      wasInWorld, auto, stopReq} \subseteq BOOLEAN
  /\ attempts \in 0..255 /\ connectFails \in 0..5
  /\ preHello \in 0..2 /\ subFails \in 0..1 /\ rejects \in 0..2
  /\ throttles \in 0..2
  /\ notes \subseteq method.reasons
  /\ wait \in {"none", "login", "warp"}

(* A bot that is to reconnect always has a way to: while it has no         *)
(* connection a reconnect is due, whatever ended the last one              *)
(* (on_disconnect, reconnect_main and all their branches).  Not promised to *)
(* a user who turns auto-reconnect off and on again.                       *)
NeverStranded ==
  "auto" \notin method.commands /\ auto /\ ~stopReq /\ link = "idle" => timer

(* 07-bot-core-handlers.md:507, branch A1 of on_disconnect: "in normal     *)
(* flow on_server_hello takes the redirect, so it is None" by then; a      *)
(* redirect in hand was never used.                                        *)
RedirectUnused == redirect => attempts = 0

(* A reconnect that is due disturbs no connection: when reconnect_after_   *)
(* elapses, run() replaces host_ without looking whether one is in use.    *)
(* A manual reconnect during a cooldown is the exception.                  *)
Undisturbed == "reconnect" \notin method.commands
TimerSparesSession == Undisturbed /\ timer => link \in {"idle", "closing"}

(* 07-bot-core-handlers.md:183: refresh_token_on_reconnect "Forces next    *)
(* non-redirect reconnect to fetch a fresh token first": nothing dials     *)
(* with the old one while it is set, but for a manual reconnect.           *)
TokenRefreshed == Undisturbed /\ refresh => link \in {"idle", "closing"}

(* Nothing that is due waits behind a connection.                          *)
DueSparesSession == TimerSparesSession /\ TokenRefreshed

(* Each connection carries one logon packet at most, and the one its       *)
(* server takes: the login packet at the gateway, the redirect packet at   *)
(* a subserver.  A manual reconnect may show a redirect to the gateway,    *)
(* and a warp may drop one on the way to a subserver.                      *)
RightLogon ==
  Undisturbed /\ "warp" \notin method.commands /\ link = "up" =>
    \/ said = <<>>
    \/ said = <<IF leg = "sub" THEN "redirect" ELSE "login">>

(* 07-bot-core-handlers.md:186 says of the login watchdog: "30 s -> drop & *)
(* retry.  Cleared in-world".  At the gateway there is no world.           *)
EveryLoginEnds ==
  (link = "up" /\ leg = "gateway" /\ since)
    ~> (link # "up" \/ ~since \/ stopReq)

(* A bot that waits out a cooldown dials when it is over, unless it stops  *)
(* or auto-reconnect is turned off; with a token to refresh or an address  *)
(* to fetch it may take several attempts.                                  *)
Redials ==
  (link = "idle" /\ timer /\ auto /\ addr /\ ~refresh)
    ~> (link = "connecting" \/ stopReq \/ ~auto)
=============================================================================
