---------------------------- MODULE SessionProofs ----------------------------
(***************************************************************************)
(* Proofs about a bot's session, for every bot, whatever it meets, and     *)
(* about the turns of the AI controller, whatever its provider answers.    *)
(***************************************************************************)
EXTENDS BotSession, AiController, Iteration, SequenceTheorems, TLAPS

(* The types the arguments need. *)
FlagsOK ==
  /\ link \in {"connecting", "up", "closing", "idle"}
  /\ timer \in BOOLEAN /\ refresh \in BOOLEAN /\ redirect \in BOOLEAN
  /\ stopReq \in BOOLEAN /\ auto \in BOOLEAN /\ hello \in BOOLEAN

(* The properties, whatever the user may do. *)
Due == auto /\ ~stopReq /\ link = "idle" => timer
Spares == timer => link \in {"idle", "closing"}
Fresh == refresh => link \in {"idle", "closing"}

(* Nothing is due while a connection is made or used: neither a reconnect  *)
(* nor a refresh is pending then, nor beside a redirect, which is gone     *)
(* once ServerHello was answered.                                          *)
Calm ==
  /\ Spares /\ Fresh
  /\ redirect => ~timer /\ ~refresh
  /\ link = "up" /\ hello => ~redirect

Core == FlagsOK /\ RedirectUnused

(* Whichever way reconnect_main ends, it leaves a host that connects or    *)
(* none, in which case a retry is due or the bot stops, and the redirect   *)
(* it was given or none.                                                   *)
LEMMA ReconnectMainEffect ==
  ASSUME NEW fresh, NEW r, NEW a, NEW t, ReconnectMain(fresh, r, a, t),
         stopReq \in BOOLEAN
  PROVE  /\ \/ link' = "connecting" /\ timer' = t /\ hello' = FALSE
            \/ /\ link' = "idle" /\ hello' = FALSE
               /\ \/ timer' = TRUE
                  \/ timer' = t /\ stopReq' = TRUE
         /\ \/ redirect' = r /\ attempts' = a
            \/ redirect' = FALSE /\ attempts' = 0
         /\ stopReq' = stopReq \/ stopReq' = TRUE
<1>1. ASSUME NEW u, FetchServer(u)
      PROVE  /\ hello' = FALSE
             /\ \/ link' = "connecting" /\ timer' = u
                \/ link' = "idle" /\ timer' = TRUE
  BY <1>1 DEF FetchServer, Dial, NoPeer
<1> QED
  BY <1>1 DEF ReconnectMain, Dial, NoPeer

-----------------------------------------------------------------------------
(* A step that runs reconnect_main with nothing due before it: from a      *)
(* redirect it drops, for a fresh token, or when a cooldown is over.       *)
LEMMA ReconnectStep ==
  ASSUME Core, NEW fresh, NEW r \in BOOLEAN, NEW a, NEW t \in BOOLEAN,
         ReconnectMain(fresh, r, a, t), r => a = 0,
         refresh' \in BOOLEAN, auto' = auto
  PROVE  /\ Core' /\ Due'
         /\ ~r /\ ~t /\ ~refresh' => Calm'
<1>1. stopReq \in BOOLEAN BY DEF Core, FlagsOK
<1>2. /\ \/ link' = "connecting" /\ timer' = t /\ hello' = FALSE
         \/ /\ link' = "idle" /\ hello' = FALSE
            /\ timer' = TRUE \/ (timer' = t /\ stopReq' = TRUE)
      /\ \/ redirect' = r /\ attempts' = a
         \/ redirect' = FALSE /\ attempts' = 0
      /\ stopReq' = stopReq \/ stopReq' = TRUE
  BY <1>1, ReconnectMainEffect
<1>3. FlagsOK'
  BY <1>2 DEF Core, FlagsOK
<1>4. RedirectUnused'
  BY <1>2 DEF RedirectUnused
<1>5. Due'
  BY <1>2 DEF Due
<1>6. ~r /\ ~t /\ ~refresh' => Calm'
  BY <1>2 DEF Calm, Spares, Fresh
<1> QED BY <1>3, <1>4, <1>5, <1>6 DEF Core

(* ENet events. *)
LEMMA ConnectedStep ==
  ASSUME Core, Connected
  PROVE  Core' /\ (Due => Due') /\ (Calm => Calm')
BY DEF Connected, Core, FlagsOK, RedirectUnused, Due, Calm,
       Spares, Fresh, redir, plan, ctl

LEMMA RedirectingStep ==
  ASSUME Core, Redirecting, auto' = auto
  PROVE  Core' /\ Due' /\ (Calm => Calm')
<1>1. timer \in BOOLEAN /\ refresh \in BOOLEAN /\ redirect
  BY DEF Core, FlagsOK, Redirecting
<1>2. ASSUME NEW fresh, ReconnectMain(fresh, FALSE, 0, timer), refresh' = refresh
      PROVE  Core' /\ Due' /\ (Calm => Calm')
  BY <1>1, <1>2, ReconnectStep DEF Calm
<1>3. ASSUME Dial("sub"), UNCHANGED <<redirect, attempts, plan, stopReq>>
      PROVE  Core' /\ Due' /\ (Calm => Calm')
  BY <1>1, <1>3 DEF Dial, plan, Core, FlagsOK, RedirectUnused, Due,
                    Calm, Spares, Fresh
<1> QED BY <1>2, <1>3 DEF Redirecting

LEMMA DisconnectedStep ==
  ASSUME Core, Disconnected
  PROVE  Core' /\ Due' /\ (Calm => Calm')
<1>1. auto' = auto
  BY DEF Disconnected, ctl
<1>2. CASE Redirecting
  BY <1>1, <1>2, RedirectingStep
<1>3. CASE /\ ~redirect /\ (timer \/ ~auto) /\ NoPeer
           /\ UNCHANGED <<hello, redir, plan, stopReq>>
  BY <1>1, <1>3 DEF NoPeer, redir, plan, Core, FlagsOK, RedirectUnused,
                    Due, Calm, Spares, Fresh
<1>4. CASE /\ ~redirect /\ NoPeer
           /\ RetryWorldJoin \/ RetryPreHello \/ RestartInWorld \/ RetryRejected
           /\ UNCHANGED <<hello, redir, stopReq>>
  <2>1. timer' = TRUE /\ refresh' \in BOOLEAN
    BY <1>4 DEF RetryWorldJoin, RetryPreHello, RestartInWorld, RetryRejected,
                Core, FlagsOK
  <2> QED
    BY <1>1, <1>4, <2>1 DEF NoPeer, redir, Core, FlagsOK, RedirectUnused,
       Due, Calm, Spares, Fresh
<1> QED BY <1>2, <1>3, <1>4 DEF Disconnected

LEMMA ServerHelloStep ==
  ASSUME Core, ServerHello
  PROVE  Core' /\ (Due => Due') /\ (Calm => Calm')
<1>1. /\ link' = link /\ timer' = timer /\ refresh' = refresh /\ auto' = auto
      /\ stopReq' = stopReq /\ hello' = TRUE /\ redirect' = FALSE
  BY DEF ServerHello, plan, Core, FlagsOK
<1> QED
  BY <1>1 DEF Core, FlagsOK, RedirectUnused, Due, Calm,
              Spares, Fresh

(* What the server sends. *)
LEMMA LogonFailStep ==
  ASSUME Core, LogonFail
  PROVE  Core' /\ (Due => Due') /\ (Calm => Calm')
<1>1. /\ link = "up" /\ link' = "closing" /\ hello /\ hello' = hello
      /\ auto' = auto
      /\ \/ redirect' = redirect /\ attempts' = attempts
         \/ redirect' = FALSE /\ attempts' = 0
  BY DEF LogonFail, Heard, Throttled, ctl
<1>2. timer' \in BOOLEAN /\ refresh' \in BOOLEAN /\ stopReq' \in BOOLEAN
  BY DEF LogonFail, Throttled, plan, Core, FlagsOK
<1>3. redirect' \in BOOLEAN /\ RedirectUnused'
  <2>1. CASE redirect' = redirect /\ attempts' = attempts
    BY <2>1 DEF Core, FlagsOK, RedirectUnused
  <2>2. CASE redirect' = FALSE
    BY <2>2 DEF RedirectUnused
  <2> QED BY <1>1, <2>1, <2>2
<1>4. Core'
  BY <1>1, <1>2, <1>3 DEF Core, FlagsOK
<1>5. Calm => Calm'
  <2> SUFFICES ASSUME Calm PROVE Calm'
    OBVIOUS
  <2>1. ~redirect'
    BY <1>1 DEF Calm
  <2> QED BY <1>1, <2>1 DEF Calm, Spares, Fresh
<1>6. Due'
  BY <1>1 DEF Due
<1> QED BY <1>4, <1>5, <1>6

LEMMA ServerStep ==
  ASSUME Core, Server
  PROVE  Core' /\ (Due => Due') /\ (Calm => Calm')
<1> USE DEF Core, FlagsOK, RedirectUnused, Due, Calm,
            Spares, Fresh, Heard
<1>1. CASE OnSendToServer
  BY <1>1 DEF OnSendToServer, plan, ctl
<1>2. CASE OnSpawn
  BY <1>2 DEF OnSpawn, ctl
<1>3. CASE LoadWorld \/ LeaveWorld
  BY <1>3 DEF LoadWorld, LeaveWorld, conn, redir, plan, ctl
<1>4. CASE LogonFail
  BY <1>4, LogonFailStep
<1>5. CASE RequestToken
  <2>1. /\ ReconnectMain(TRUE, FALSE, 0, FALSE)
        /\ refresh' = FALSE /\ auto' = auto
    BY <1>5 DEF RequestToken, ctl
  <2> QED BY <2>1, ReconnectStep
<1>6. CASE \E n \in method.reasons : Announce(n)
  <2>1. PICK n \in method.reasons : Announce(n)
    BY <1>6
  <2> QED BY <2>1 DEF Announce, conn, plan, ctl
<1> QED BY <1>1, <1>2, <1>3, <1>4, <1>5, <1>6 DEF Server

(* The commands of the user: a reconnect asks for no calm, and turning     *)
(* auto-reconnect on may find a bot with nothing due.                      *)
LEMMA UserStep ==
  ASSUME Core, User
  PROVE  /\ Core'
         /\ Due /\ "auto" \notin method.commands => Due'
         /\ Calm /\ "reconnect" \notin method.commands => Calm'
<1>1. CASE Warp
  BY <1>1 DEF Warp, conn, redir, plan, Core, FlagsOK, RedirectUnused,
              Due, Calm, Spares, Fresh
<1>2. CASE Reconnect
  <2>1. /\ ReconnectMain(FALSE, redirect, attempts, timer)
        /\ "reconnect" \in method.commands /\ refresh' = refresh /\ auto' = auto
    BY <1>2 DEF Reconnect, ctl
  <2>2. /\ redirect \in BOOLEAN /\ timer \in BOOLEAN /\ refresh' \in BOOLEAN
        /\ redirect => attempts = 0
    BY <2>1 DEF Core, FlagsOK, RedirectUnused
  <2> QED BY <2>1, <2>2, ReconnectStep
<1>3. CASE Disconnect
  BY <1>3 DEF Disconnect, redir, plan, ctl, Core, FlagsOK, RedirectUnused,
              Due, Calm, Spares, Fresh
<1>4. CASE SetAutoReconnect
  BY <1>4 DEF SetAutoReconnect, conn, redir, plan, Core, FlagsOK,
              RedirectUnused, Calm, Spares, Fresh
<1> QED BY <1>1, <1>2, <1>3, <1>4 DEF User

(* The run loop. *)
LEMMA LoopStep ==
  ASSUME Core, Loop
  PROVE  Core' /\ (Due => Due') /\ (Calm => Calm')
<1>1. CASE EndLoginWait
  BY <1>1 DEF EndLoginWait, redir, plan, Core, FlagsOK, RedirectUnused,
              Due, Calm, Spares, Fresh
<1>2. CASE EndWarpWait
  BY <1>2 DEF EndWarpWait, conn, plan, Core, FlagsOK, RedirectUnused,
              Due, Calm, Spares, Fresh
<1>3. CASE Elapse
  <2>1. CASE auto
    <3>1. /\ ReconnectMain(refresh, redirect, attempts, FALSE)
          /\ refresh' = FALSE /\ auto' = auto /\ timer
      BY <1>3, <2>1 DEF Elapse, ctl
    <3>2. redirect \in BOOLEAN /\ (redirect => attempts = 0)
      BY DEF Core, FlagsOK, RedirectUnused
    <3> QED BY <3>1, <3>2, ReconnectStep DEF Calm
  <2>2. CASE ~auto
    BY <1>3, <2>2 DEF Elapse, conn, ctl, Core, FlagsOK, RedirectUnused,
       Due, Calm, Spares, Fresh
  <2> QED BY <2>1, <2>2
<1>4. CASE Watchdog
  BY <1>4 DEF Watchdog, plan, ctl, Core, FlagsOK, RedirectUnused,
              Due, Calm, Spares, Fresh
<1> QED BY <1>1, <1>2, <1>3, <1>4 DEF Loop

-----------------------------------------------------------------------------
LEMMA NextStep ==
  ASSUME Core, [Next]_vars
  PROVE  /\ Core'
         /\ Due /\ "auto" \notin method.commands => Due'
         /\ Calm /\ "reconnect" \notin method.commands => Calm'
<1>1. CASE Network
  BY <1>1, ConnectedStep, DisconnectedStep, ServerHelloStep DEF Network
<1>2. CASE Server
  BY <1>2, ServerStep
<1>3. CASE User
  BY <1>3, UserStep
<1>4. CASE Loop
  BY <1>4, LoopStep
<1>5. CASE UNCHANGED vars
  BY <1>5 DEF vars, conn, redir, plan, ctl, Core, FlagsOK, RedirectUnused,
              Due, Calm, Spares, Fresh
<1> QED BY <1>1, <1>2, <1>3, <1>4, <1>5 DEF Next, Ended

LEMMA InitStep == Init => Core /\ Due /\ Calm
BY DEF Init, Core, FlagsOK, RedirectUnused, Due, Calm,
       Spares, Fresh

(* Whatever the server and the user do, a redirect in hand was never used: *)
(* the first branch of on_disconnect is dead code.                         *)
THEOREM RedirectCorrect == Spec => []RedirectUnused
<1>1. Core /\ [Next]_vars => Core'
  BY NextStep
<1>2. Init => Core
  BY InitStep
<1>3. Core => RedirectUnused
  BY DEF Core
<1> QED BY <1>1, <1>2, <1>3, PTL DEF Spec

LEMMA MethodKept == [Next]_vars => method' = method
<1>1. [Next]_vars => UNCHANGED ctl \/ UNCHANGED method
  BY DEF Next, vars, ctl, Network, Server, User, Loop, Ended, Connected,
         Disconnected, ServerHello, OnSendToServer, OnSpawn, LoadWorld,
         LeaveWorld, Announce, LogonFail, RequestToken, EndLoginWait, Warp,
         EndWarpWait, Reconnect, Disconnect, SetAutoReconnect, Elapse, Watchdog
<1> QED BY <1>1 DEF ctl

(* A bot whose auto-reconnect is left on is never stranded: on_disconnect, *)
(* reconnect_main and the loop leave a connection, a timer, or a stop.     *)
THEOREM NotStranded == Spec => []NeverStranded
<1> DEFINE Inv == Core /\ ("auto" \notin method.commands => Due)
<1>1. Inv /\ [Next]_vars => Inv'
  BY NextStep, MethodKept
<1>2. Init => Inv
  BY InitStep
<1>3. Inv => NeverStranded
  BY DEF Due, NeverStranded
<1> QED BY <1>1, <1>2, <1>3, PTL DEF Spec

LEMMA NothingDue == Spec => [](Undisturbed => Calm)
<1> DEFINE Inv == Core /\ (Undisturbed => Calm)
<1>1. Inv /\ [Next]_vars => Inv'
  BY NextStep, MethodKept DEF Undisturbed
<1>2. Init => Inv
  BY InitStep
<1> QED BY <1>1, <1>2, PTL DEF Spec

(* Without a manual reconnect no timer is left running beside a session,   *)
(* where run() would replace the connection under it, and no refused token *)
(* is used again: what sets reconnect_after_ or                            *)
(* refresh_token_on_reconnect_ has closed the connection.                  *)
THEOREM NothingDueInSession == Spec => []DueSparesSession
<1>1. (Undisturbed => Calm) => DueSparesSession
  BY DEF Calm, Spares, Fresh, DueSparesSession, TimerSparesSession,
         TokenRefreshed
<1> QED BY <1>1, NothingDue, PTL

-----------------------------------------------------------------------------
(* The logon packet.  A connection on which nothing was said yet leads to  *)
(* a subserver just when a redirect is in hand; a login packet that waits  *)
(* for its gate belongs to the gateway's connection or to none; and a      *)
(* watchdog left from an earlier connection does not run while the bot is  *)
(* on its way to a subserver.                                              *)
Packet == IF leg = "sub" THEN "redirect" ELSE "login"
Unsaid == link = "connecting" \/ (link = "up" /\ ~hello)

Logon ==
  /\ leg \in {"gateway", "sub"}
  /\ wait \in {"none", "login"}
  /\ link \in {"connecting", "idle"} => said = <<>>
  /\ link = "up" => said = <<>> \/ said = <<Packet>>
  /\ Unsaid => said = <<>> /\ (leg = "sub" <=> redirect)
  /\ link = "connecting" /\ leg = "sub" => ~since
  /\ wait = "login" =>
       /\ ~redirect
       /\ link \in {"up", "idle"}
       /\ link = "up" => hello /\ said = <<>> /\ leg = "gateway"

LEMMA SayOne == ASSUME NEW x PROVE Append(<<>>, x) = <<x>>
OBVIOUS

(* However reconnect_main ends, nothing was said, and what connects is the *)
(* gateway.                                                                *)
LEMMA ReconnectIsSilent ==
  ASSUME NEW fresh, NEW a, NEW t, ReconnectMain(fresh, FALSE, a, t),
         Logon, wait = "none", wait' = wait
  PROVE  Logon'
<1> DEFINE Silent == /\ said' = <<>> /\ hello' = FALSE
                     /\ \/ link' = "connecting" /\ leg' = "gateway"
                        \/ link' = "idle" /\ leg' = leg
<1>1. Silent
  <2>1. ASSUME NEW u, FetchServer(u) PROVE Silent
    BY <2>1 DEF FetchServer, Dial, NoPeer
  <2> QED BY <2>1 DEF ReconnectMain, Dial, NoPeer
<1>2. redirect' = FALSE
  BY DEF ReconnectMain
<1> QED BY <1>1, <1>2 DEF Logon, Unsaid

LEMMA LogonNetwork ==
  ASSUME Core, Calm, Logon, Network PROVE Logon'
<1> USE DEF Core, FlagsOK, Logon, Unsaid, Packet, ctl
<1>1. CASE Connected
  BY <1>1 DEF Connected, redir
<1>2. CASE ServerHello
  <2>1. CASE redirect
    BY <1>2, <2>1, SayOne DEF ServerHello
  <2>2. CASE ~redirect
    BY <1>2, <2>2, SayOne DEF ServerHello
  <2> QED BY <2>1, <2>2
<1>3. CASE Disconnected
  <2>1. CASE Redirecting
    <3>1. wait = "none" /\ wait' = wait /\ since' = FALSE
      BY <1>3, <2>1 DEF Disconnected, Redirecting
    <3>2. ASSUME NEW fresh, ReconnectMain(fresh, FALSE, 0, timer) PROVE Logon'
      BY <3>1, <3>2, ReconnectIsSilent
    <3>3. CASE Dial("sub") /\ redirect /\ UNCHANGED redirect
      BY <3>1, <3>3 DEF Dial
    <3> QED BY <2>1, <3>2, <3>3 DEF Redirecting
  <2>2. CASE ~redirect /\ NoPeer /\ UNCHANGED <<redir, hello>>
    BY <1>3, <2>2 DEF NoPeer, redir, Disconnected
  <2> QED BY <1>3, <2>1, <2>2 DEF Disconnected
<1> QED BY <1>1, <1>2, <1>3 DEF Network

LEMMA LogonServer ==
  ASSUME Core, Calm, Logon, Server PROVE Logon'
<1> USE DEF Core, FlagsOK, Logon, Unsaid, Packet, Heard, ctl
<1>1. CASE OnSendToServer
  BY <1>1 DEF OnSendToServer
<1>2. CASE OnSpawn
  BY <1>2 DEF OnSpawn
<1>3. CASE LoadWorld \/ LeaveWorld
  BY <1>3 DEF LoadWorld, LeaveWorld, conn, redir
<1>4. CASE LogonFail
  <2>1. /\ link = "up" /\ link' = "closing" /\ UNCHANGED <<leg, said, wait>>
        /\ wait = "none"
    BY <1>4 DEF LogonFail
  <2> QED BY <2>1
<1>5. CASE RequestToken
  BY <1>5, ReconnectIsSilent DEF RequestToken
<1>6. CASE \E n \in method.reasons : Announce(n)
  <2>1. PICK n \in method.reasons : Announce(n)
    BY <1>6
  <2> QED BY <2>1 DEF Announce, conn
<1> QED BY <1>1, <1>2, <1>3, <1>4, <1>5, <1>6 DEF Server

(* Neither reconnect nor warp are among the commands. *)
LEMMA LogonUser ==
  ASSUME Core, Logon, User, Undisturbed, "warp" \notin method.commands
  PROVE  Logon'
<1> USE DEF Core, FlagsOK, Logon, Unsaid, Packet, AtLoop
<1>1. CASE Disconnect
  BY <1>1 DEF Disconnect, redir, ctl
<1>2. CASE SetAutoReconnect
  BY <1>2 DEF SetAutoReconnect, conn, redir
<1> QED BY <1>1, <1>2 DEF User, Warp, Reconnect, Undisturbed

LEMMA LogonLoop ==
  ASSUME Core, Calm, Logon, Loop PROVE Logon'
<1> USE DEF Core, FlagsOK, Logon, Unsaid, Packet, AtLoop
<1>1. CASE EndLoginWait
  BY <1>1, SayOne DEF EndLoginWait, redir
<1>2. CASE EndWarpWait
  BY <1>2 DEF EndWarpWait
<1>3. CASE Elapse
  <2>1. redirect = FALSE /\ wait = "none" /\ wait' = wait
    BY <1>3 DEF Elapse, Calm, ctl
  <2>2. CASE auto
    BY <1>3, <2>1, <2>2, ReconnectIsSilent DEF Elapse
  <2>3. CASE ~auto
    BY <1>3, <2>1, <2>3 DEF Elapse, conn
  <2> QED BY <2>2, <2>3
<1>4. CASE Watchdog
  BY <1>4 DEF Watchdog, ctl
<1> QED BY <1>1, <1>2, <1>3, <1>4 DEF Loop

(* Each connection carries at most one logon packet, and the one its       *)
(* server takes: the login packet at the gateway, the redirect packet at a *)
(* subserver, however waits, drops and redirects interleave.               *)
THEOREM LogonCorrect == Spec => []RightLogon
<1> DEFINE Quiet == Undisturbed /\ "warp" \notin method.commands
           Inv == Core /\ (Undisturbed => Calm) /\ (Quiet => Logon)
<1>1. Init => Inv
  <2>1. Init => Logon
    BY DEF Init, Logon, Unsaid
  <2> QED BY <2>1, InitStep
<1>2. Inv /\ [Next]_vars => Inv'
  <2> SUFFICES ASSUME Inv, [Next]_vars PROVE Inv' OBVIOUS
  <2>1. Core' /\ (Undisturbed' => Calm') /\ UNCHANGED method
    BY NextStep, MethodKept DEF Undisturbed
  <2>2. ASSUME Quiet PROVE Logon'
    <3>1. CASE UNCHANGED vars
      BY <2>2, <3>1 DEF vars, conn, redir, ctl, Logon, Unsaid, Packet
    <3> QED
      BY <2>2, <3>1, LogonNetwork, LogonServer, LogonUser, LogonLoop
      DEF Next, Ended
  <2> QED BY <2>1, <2>2 DEF Undisturbed
<1>3. Inv => RightLogon
  BY DEF Logon, Packet, RightLogon
<1> QED BY <1>1, <1>2, <1>3, PTL DEF Spec

-----------------------------------------------------------------------------
(* The AI controller.  A batch that waits to run was never run, and what   *)
(* was decided was asked; a request under way belongs to the turn, which   *)
(* then has nothing else to go on with.                                    *)
Decisions == {"none", "allow", "deny"}
Asked(id, calls, decision) == [id |-> id, calls |-> calls, decision |-> decision]
Request(p) == \E id \in Nat, d \in Decisions : \E calls : p = Asked(id, calls, d)
Answer(o) == \/ o = NoOutcome
             \/ \E kind \in {"error", "cancelled"} : o = Outcome(kind, <<>>)
             \/ \E calls \in Replies : o = Outcome("ok", calls)

TurnOK ==
  /\ active \in BOOLEAN /\ cancelRequested \in BOOLEAN /\ stopped \in BOOLEAN
  /\ worker \in {"none", "running", "returning", "ended"}
  /\ owner \in {"frame", "pump", "ui", "stopping"}
  /\ rounds \in Nat /\ toolCalls \in Nat /\ nextApproval \in Nat \ {0}
  /\ Answer(answer) /\ Answer(completed) /\ Request(pending)

Batches ==
  /\ ran \in Seq(Nat \ {0}) /\ IsInjective(ran)
  /\ \A i \in DOMAIN ran : ran[i] < nextApproval /\ ran[i] # pending.id
  /\ \A i \in DOMAIN ran : ran[i] \in granted
  /\ pending.decision = "allow" => pending.id \in granted
  /\ pending.id < nextApproval
  /\ pending.decision # "none" => pending.id # 0
  /\ rounds <= MaxRounds /\ toolCalls <= MaxToolCalls

OneRequest ==
  HttpRunning =>
    /\ active /\ pending.id = 0 /\ pending.decision = "none"
    /\ runGeneration = generation /\ completed = NoOutcome
    /\ worker = "returning" => answer # NoOutcome

(* After a Stop nothing is left to the turn but a request that is already  *)
(* under way, or its answer, which the flag voids.                         *)
Stopping ==
  stopped /\ active =>
    /\ cancelRequested
    /\ owner # "stopping" => pending.decision = "none" /\ pending.id = 0

TurnInv == TurnOK /\ Batches /\ OneRequest /\ Stopping

LEMMA NothingAsked ==
  NoPending.id = 0 /\ NoPending.decision = "none" /\ Request(NoPending)
<1>1. NoPending = Asked(0, <<>>, "none")
  BY DEF NoPending, Asked
<1> QED BY <1>1 DEF NoPending, Request, Decisions

LEMMA AskedFields ==
  ASSUME NEW id \in Nat, NEW calls, NEW d \in Decisions
  PROVE  /\ Request(Asked(id, calls, d))
         /\ Asked(id, calls, d).id = id /\ Asked(id, calls, d).decision = d
BY DEF Request, Asked

(* An answer that is not the absent one has calls the model can count. *)
LEMMA AnswerCalls ==
  ASSUME NEW o, Answer(o)
  PROVE  o.calls \in Seq([id : STRING, tool : STRING])
<1>1. NoOutcome.calls = <<>>
  BY DEF NoOutcome, Outcome
<1>2. \A kind, calls : Outcome(kind, calls).calls = calls
  BY DEF Outcome
<1>3. <<>> \in Seq([id : STRING, tool : STRING])
  OBVIOUS
<1> QED BY <1>1, <1>2, <1>3, RepliesAssumption, ZenonT(30) DEF Answer

(* One more id of a batch: the sequence stays free of repetitions. *)
LEMMA RunAppend ==
  ASSUME NEW q \in Seq(Nat \ {0}), IsInjective(q), NEW id \in Nat \ {0},
         \A i \in DOMAIN q : q[i] # id
  PROVE  /\ Append(q, id) \in Seq(Nat \ {0}) /\ IsInjective(Append(q, id))
         /\ \A i \in DOMAIN Append(q, id) :
              Append(q, id)[i] = id \/ \E j \in DOMAIN q : Append(q, id)[i] = q[j]
BY DEF IsInjective

(* What launch_locked leaves, however it ends. *)
LEMMA LaunchEffect ==
  ASSUME TurnOK, NEW w \in {"none", "ended"},
         NEW h, NEW g, NEW r \in Nat, r <= MaxRounds, LaunchRequest(w, h, g, r)
  PROVE  /\ rounds' \in Nat /\ rounds' <= MaxRounds
         /\ completed' = NoOutcome /\ pending' = NoPending
         /\ active' \in BOOLEAN /\ cancelRequested' \in BOOLEAN
         /\ answer' = answer /\ generation' = g
         /\ \/ active' = FALSE /\ worker' = w
            \/ active' = TRUE /\ worker' = "running" /\ runGeneration' = g
<1>0. MaxRounds \in Nat
  BY AiLimitsAssumption
<1>1. CASE r >= MaxRounds \/ w # "none"
  <2>1. Fail(IF r >= MaxRounds THEN "round limit" ELSE "lifecycle")
    BY <1>1 DEF LaunchRequest
  <2>2. active' = FALSE /\ pending' = NoPending
    BY <2>1 DEF Fail, Finish
  <2>3. rounds' = r /\ worker' = w /\ UNCHANGED cancelRequested
    BY <1>1 DEF LaunchRequest
  <2> QED BY <2>2, <2>3 DEF LaunchRequest, TurnOK
<1>2. CASE ~(r >= MaxRounds \/ w # "none")
  <2>1. rounds' = r + 1 /\ cancelRequested' = FALSE
    BY <1>2 DEF LaunchRequest
  <2>2. rounds' \in Nat /\ rounds' <= MaxRounds
    BY <2>1, <1>2, <1>0
  <2>3. \/ active' = FALSE /\ pending' = NoPending /\ worker' = w
        \/ /\ active' = TRUE /\ pending' = NoPending
           /\ worker' = "running" /\ runGeneration' = g
    BY <1>2 DEF LaunchRequest, Fail, Finish
  <2> QED BY <2>1, <2>2, <2>3 DEF LaunchRequest
<1> QED BY <1>1, <1>2

LEMMA TurnStarts == AiInit => TurnInv
<1> SUFFICES ASSUME AiInit PROVE TurnInv
  OBVIOUS
<1>1. TurnOK
  <2>1. Answer(answer) /\ Answer(completed) /\ Request(pending)
    BY NothingAsked DEF AiInit, Answer
  <2>2. active \in BOOLEAN /\ cancelRequested \in BOOLEAN /\ stopped \in BOOLEAN
    BY DEF AiInit
  <2>3. worker = "none" /\ owner = "frame" /\ rounds = 0 /\ toolCalls = 0
    BY DEF AiInit
  <2>4. nextApproval \in Nat \ {0}
    BY DEF AiInit
  <2> QED BY <2>1, <2>2, <2>3, <2>4 DEF TurnOK
<1>2. Batches
  BY NothingAsked, AiLimitsAssumption DEF AiInit, Batches, IsInjective
<1>3. OneRequest /\ Stopping
  BY NothingAsked DEF AiInit, OneRequest, HttpRunning, Stopping
<1> QED BY <1>1, <1>2, <1>3 DEF TurnInv

(* The owner's clicks. *)
LEMMA SubmitTurn ==
  ASSUME TurnInv, NEW s \in Sendings, Submit(s)
  PROVE  TurnInv'
<1> USE DEF TurnInv
<1>0. Reaped \in {"none", "ended"}
  BY DEF Submit, TurnOK, HttpRunning, Reaped
<1> DEFINE g == generation + 1
<1>1. LaunchRequest(Reaped, Append(history, Said("user", <<>>, "none")), g, 0)
  BY DEF Submit
<1>2. 0 \in Nat /\ 0 <= MaxRounds
  BY AiLimitsAssumption
<1> HIDE DEF g
<1>3. /\ rounds' \in Nat /\ rounds' <= MaxRounds
      /\ completed' = NoOutcome /\ pending' = NoPending
      /\ active' \in BOOLEAN /\ cancelRequested' \in BOOLEAN
      /\ answer' = answer /\ generation' = g
      /\ \/ active' = FALSE /\ worker' = Reaped
         \/ active' = TRUE /\ worker' = "running" /\ runGeneration' = g
  BY <1>0, <1>1, <1>2, LaunchEffect
<1>4. /\ toolCalls' = 0 /\ stopped' = FALSE /\ owner' = "frame"
      /\ UNCHANGED <<nextApproval, granted, ran>>
  BY DEF Submit
<1>5. TurnOK'
  BY <1>0, <1>3, <1>4, NothingAsked DEF TurnOK, Answer
<1>6. Batches'
  BY <1>3, <1>4, NothingAsked, AiLimitsAssumption DEF Batches, TurnOK
<1>7. OneRequest'
  BY <1>0, <1>3, NothingAsked DEF OneRequest, HttpRunning
<1>8. Stopping'
  BY <1>4 DEF Stopping
<1> QED BY <1>5, <1>6, <1>7, <1>8

LEMMA DecideTurn ==
  ASSUME TurnInv, NEW d \in {"allow", "deny"}, Decide(d)
  PROVE  TurnInv'
<1> USE DEF TurnInv
<1>1. PICK id \in Nat, e \in Decisions : \E calls : pending = Asked(id, calls, e)
  BY DEF TurnOK, Request
<1>2. PICK calls : pending = Asked(id, calls, e)
  BY <1>1
<1>3. pending' = Asked(id, calls, d)
  BY <1>2 DEF Decide, Asked
<1>4. d \in Decisions
  BY DEF Decisions
<1>5. /\ pending'.id = pending.id /\ pending'.decision = d
      /\ Request(pending')
  BY <1>2, <1>3, <1>4, AskedFields
<1>6. TurnOK'
  BY <1>5 DEF TurnOK, Decide
<1>7. Batches'
  BY <1>5 DEF Batches, Decide
<1>8. OneRequest' /\ Stopping'
  BY <1>5 DEF OneRequest, HttpRunning, Stopping, Decide
<1> QED BY <1>6, <1>7, <1>8

LEMMA StopTurnTurn == ASSUME TurnInv, StopTurn PROVE TurnInv'
BY DEF TurnInv, TurnOK, Batches, OneRequest, HttpRunning, Stopping, StopTurn

LEMMA StopSectionTurn == ASSUME TurnInv, StopSection PROVE TurnInv'
<1> USE DEF TurnInv
<1>1. CASE HttpRunning
  BY <1>1 DEF TurnOK, Batches, OneRequest, HttpRunning, Stopping, StopSection
<1>2. CASE ~HttpRunning
  <2>1. /\ active' = FALSE /\ pending' = NoPending
        /\ worker' = Reaped /\ completed' = NoOutcome
    BY <1>2 DEF StopSection, Stopped, Finish
  <2>2. Reaped \in {"none", "ended"}
    BY <1>2 DEF TurnOK, HttpRunning, Reaped
  <2>3. TurnOK'
    BY <2>1, <2>2, NothingAsked DEF TurnOK, Answer, StopSection
  <2>4. Batches'
    BY <2>1, NothingAsked DEF TurnOK, Batches, StopSection
  <2> QED BY <2>1, <2>2, <2>3, <2>4 DEF OneRequest, HttpRunning, Stopping
<1> QED BY <1>1, <1>2

LEMMA ClearTurn == ASSUME TurnInv, Clear PROVE TurnInv'
<1> USE DEF TurnInv
<1>1. Reaped \in {"none", "ended"}
  BY DEF TurnOK, Clear, HttpRunning, Reaped
<1>2. TurnOK'
  BY <1>1, NothingAsked DEF TurnOK, Clear
<1>3. Batches'
  BY NothingAsked DEF TurnOK, Batches, Clear
<1> QED BY <1>1, <1>2, <1>3 DEF OneRequest, HttpRunning, Stopping, Clear

LEMMA NoClickTurn == ASSUME TurnInv, NoClick PROVE TurnInv'
BY DEF TurnInv, TurnOK, Batches, OneRequest, HttpRunning, Stopping, NoClick

(* The steps of a pump. *)
LEMMA ReapTurn == ASSUME TurnInv, Reap PROVE TurnInv'
<1>1. \/ Reaped = worker
      \/ Reaped = "none"
  BY DEF Reaped
<1> QED BY <1>1 DEF TurnInv, TurnOK, Batches, OneRequest, HttpRunning, Stopping, Reap

LEMMA PumpNothingTurn == ASSUME TurnInv, PumpNothing PROVE TurnInv'
BY DEF TurnInv, TurnOK, Batches, OneRequest, HttpRunning, Stopping, PumpNothing

(* Whatever ends the turn: what was taken out came from a worker that is   *)
(* gone.                                                                   *)
LEMMA TakeEndsTurn ==
  ASSUME TurnInv, Take, Finish, Kept, owner' = "ui",
         UNCHANGED <<granted, nextApproval, toolCalls>>
  PROVE  TurnInv'
<1> USE DEF TurnInv
<1>1. ~HttpRunning
  BY DEF Take, OneRequest
<1>2. active' = FALSE /\ pending' = NoPending /\ completed' = NoOutcome
  BY DEF Take, Finish
<1>3. TurnOK'
  BY <1>2, NothingAsked DEF TurnOK, Answer, Kept
<1>4. Batches'
  BY <1>2, NothingAsked DEF TurnOK, Batches, Kept
<1> QED BY <1>1, <1>2, <1>3, <1>4 DEF OneRequest, HttpRunning, Stopping, Kept

LEMMA PumpEndsTurn ==
  ASSUME TurnInv, PumpCancelled \/ PumpFailed \/ PumpFinished \/ PumpRefused
  PROVE  TurnInv'
BY TakeEndsTurn DEF PumpCancelled, PumpFailed, PumpFinished, PumpRefused, Asking, Fail

LEMMA PumpAcceptsTurn == ASSUME TurnInv, PumpAccepts PROVE TurnInv'
<1> USE DEF TurnInv
<1>1. ~HttpRunning /\ ~cancelRequested /\ active /\ completed' = NoOutcome
  BY DEF PumpAccepts, Asking, Take, Cancelled, OneRequest
<1> DEFINE d == IF settings.autonomy = "ask" THEN "none" ELSE "allow"
<1>2. d \in Decisions /\ nextApproval \in Nat
  BY DEF Decisions, TurnOK
<1>3. pending' = Asked(nextApproval, completed.calls, d)
  BY DEF PumpAccepts, Asked
<1> HIDE DEF d
<1>4. Request(pending') /\ pending'.id = nextApproval /\ pending'.decision = d
  BY <1>2, <1>3, AskedFields
<1>5. /\ nextApproval' = nextApproval + 1
      /\ toolCalls' = toolCalls + Len(completed.calls)
      /\ owner' \in {"ui", "pump"} /\ Kept /\ UNCHANGED active
      /\ granted \subseteq granted' /\ (d = "allow" => nextApproval \in granted')
      /\ Len(completed.calls) <= MaxToolCalls - toolCalls
  BY DEF PumpAccepts, Acceptable, d
<1>6. Len(completed.calls) \in Nat
  <2>1. completed.calls \in Seq([id : STRING, tool : STRING])
    BY AnswerCalls DEF TurnOK
  <2> QED BY <2>1
<1>7. toolCalls' \in Nat /\ toolCalls' <= MaxToolCalls
  BY <1>5, <1>6, AiLimitsAssumption DEF TurnOK
<1>8. TurnOK'
  BY <1>1, <1>4, <1>5, <1>7 DEF TurnOK, Answer, Kept
<1>9. Batches'
  <2>1. \A i \in DOMAIN ran : ran[i] \in Nat /\ ran[i] < nextApproval
    BY DEF Batches
  <2>2. \A i \in DOMAIN ran : ran[i] < nextApproval + 1 /\ ran[i] # nextApproval
    BY <2>1, <1>2
  <2>3. nextApproval # 0 /\ nextApproval < nextApproval + 1
    BY DEF TurnOK
  <2> QED BY <2>2, <2>3, <1>4, <1>5, <1>7 DEF Batches, Kept
<1> QED BY <1>1, <1>5, <1>8, <1>9 DEF OneRequest, HttpRunning, Stopping, Kept

(* A decided batch: its results go into the next request. *)
LEMMA DecidedTurn ==
  ASSUME TurnInv, NEW d \in {"allow", "deny"}, Decided(d), NEW h,
         LaunchRequest(worker, h, generation, rounds), owner' = "ui",
         UNCHANGED <<nextApproval, toolCalls, stopped, granted>>,
         \/ ran' = ran
         \/ ran' = Append(ran, pending.id) /\ d = "allow"
  PROVE  TurnInv'
<1> USE DEF TurnInv
<1>1. pending.decision # "none" /\ pending.id # 0 /\ active /\ owner = "pump"
  BY DEF Decided, Batches
<1>2. worker \in {"none", "ended"} /\ ~stopped
  BY <1>1 DEF OneRequest, HttpRunning, Stopping, TurnOK
<1>3. rounds \in Nat /\ rounds <= MaxRounds
  BY DEF TurnOK, Batches
<1>4. /\ rounds' \in Nat /\ rounds' <= MaxRounds
      /\ completed' = NoOutcome /\ pending' = NoPending
      /\ active' \in BOOLEAN /\ cancelRequested' \in BOOLEAN
      /\ answer' = answer /\ generation' = generation
      /\ \/ active' = FALSE /\ worker' = worker
         \/ active' = TRUE /\ worker' = "running" /\ runGeneration' = generation
  BY <1>2, <1>3, LaunchEffect
<1>5. TurnOK'
  BY <1>2, <1>4, NothingAsked DEF TurnOK, Answer
<1>6. Batches'
  <2>1. pending.id \in Nat \ {0}
    BY <1>1, AskedFields DEF TurnOK, Request
  <2>2. \A i \in DOMAIN ran : ran[i] # pending.id /\ ran[i] < nextApproval
    BY DEF Batches
  <2>3. /\ ran' \in Seq(Nat \ {0}) /\ IsInjective(ran')
        /\ \A i \in DOMAIN ran' : ran'[i] = pending.id \/ \E j \in DOMAIN ran : ran'[i] = ran[j]
    <3>1. CASE ran' = ran
      BY <3>1 DEF Batches
    <3>2. CASE ran' = Append(ran, pending.id) /\ d = "allow"
      BY <3>2, <2>1, <2>2, RunAppend DEF Batches
    <3> QED BY <3>1, <3>2
  <2>4. \A i \in DOMAIN ran' : ran'[i] < nextApproval'
    BY <2>2, <2>3 DEF Batches
  <2>5. \A i \in DOMAIN ran' : ran'[i] # 0
    BY <2>3
  <2>6. \A i \in DOMAIN ran' : ran'[i] \in granted'
    <3>1. CASE ran' = ran
      BY <3>1 DEF Batches
    <3>2. CASE ran' = Append(ran, pending.id) /\ d = "allow"
      <4>1. pending.id \in granted
        BY <3>2 DEF Decided, Batches
      <4> QED BY <4>1, <2>3 DEF Batches
    <3> QED BY <3>1, <3>2
  <2> QED BY <2>3, <2>4, <2>5, <2>6, <1>4, NothingAsked DEF Batches, TurnOK
<1>7. OneRequest'
  BY <1>2, <1>4, NothingAsked DEF OneRequest, HttpRunning
<1> QED BY <1>2, <1>5, <1>6, <1>7 DEF Stopping

LEMMA PumpDecidedTurn == ASSUME TurnInv, PumpDenied \/ PumpRuns PROVE TurnInv'
<1> DEFINE h == history \o Results(pending.calls)
<1>1. CASE PumpDenied
  <2>1. Decided("deny") /\ LaunchRequest(worker, h, generation, rounds)
    BY <1>1 DEF PumpDenied
  <2>2. owner' = "ui" /\ UNCHANGED <<nextApproval, toolCalls, stopped, granted, ran>>
    BY <1>1 DEF PumpDenied
  <2> HIDE DEF h
  <2> QED BY <2>1, <2>2, DecidedTurn
<1>2. CASE PumpRuns
  <2>1. Decided("allow") /\ LaunchRequest(worker, h, generation, rounds)
    BY <1>2 DEF PumpRuns
  <2>2. /\ owner' = "ui" /\ UNCHANGED <<nextApproval, toolCalls, stopped, granted>>
        /\ ran' = Append(ran, pending.id)
    BY <1>2 DEF PumpRuns
  <2> HIDE DEF h
  <2> QED BY <2>1, <2>2, DecidedTurn
<1> QED BY <1>1, <1>2

(* The worker. *)
LEMMA WorkerReturnsTurn == ASSUME TurnInv, WorkerReturns PROVE TurnInv'
<1>1. Answer(answer') /\ answer' # NoOutcome
  BY DEF WorkerReturns, Answer, NoOutcome, Outcome
<1> QED BY <1>1 DEF TurnInv, TurnOK, Batches, OneRequest, HttpRunning, Stopping,
                    WorkerReturns

LEMMA WorkerEndsTurn == ASSUME TurnInv, WorkerEnds PROVE TurnInv'
<1>1. Answer(answer') /\ Answer(completed')
  BY DEF WorkerEnds, TurnInv, TurnOK, Answer
<1> QED BY <1>1 DEF TurnInv, TurnOK, Batches, OneRequest, HttpRunning, Stopping,
                    WorkerEnds

LEMMA TurnStep == TurnInv /\ [AiNext]_aiVars => TurnInv'
<1>1. ASSUME TurnInv, UNCHANGED aiVars PROVE TurnInv'
  BY <1>1 DEF aiVars, TurnInv, TurnOK, Batches, OneRequest, HttpRunning, Stopping
<1>2. ASSUME TurnInv, AiNext PROVE TurnInv'
  BY <1>2, SubmitTurn, DecideTurn, StopTurnTurn, StopSectionTurn, ClearTurn, NoClickTurn,
     ReapTurn, PumpNothingTurn, PumpEndsTurn, PumpAcceptsTurn, PumpDecidedTurn,
     WorkerReturnsTurn, WorkerEndsTurn
     DEF AiNext, AiOwner, Pump, Click
<1> QED BY <1>1, <1>2

(* A batch of tool calls runs once and with the user's yes to it, however  *)
(* often the user clicks and whatever the provider answers, and a turn     *)
(* stays within kMaxRounds and kMaxToolCalls (AiController::pump).         *)
THEOREM BatchesRunOnce == AiSpec => []RunsOnce
<1>1. TurnInv => RunsOnce
  BY DEF TurnInv, Batches, RunsOnce, ToSet
<1> QED BY <1>1, TurnStarts, TurnStep, PTL DEF AiSpec

(* After Stop the turn runs no batch and sends no request, wherever in a   *)
(* request or a pump the click came (AiController::cancel).                *)
THEOREM StopIsFinal == AiSpec => StopSticks
<1>1. ASSUME TurnInv, [AiNext]_aiVars, stopped, stopped'
      PROVE  ran' = ran /\ (HttpRunning' => HttpRunning)
  <2>1. CASE UNCHANGED aiVars
    BY <2>1 DEF aiVars, HttpRunning
  <2>2. ASSUME NEW s \in Sendings, Submit(s) PROVE FALSE
    BY <1>1, <2>2 DEF Submit
  <2>3. ASSUME PumpDenied \/ PumpRuns PROVE FALSE
    BY <1>1, <2>3 DEF PumpDenied, PumpRuns, Decided, TurnInv, Stopping
  <2>4. CASE Click
    BY <2>4, <2>2 DEF Click, Decide, StopTurn, Clear, NoClick, HttpRunning, Reaped
  <2>5. CASE StopSection
    BY <2>5 DEF StopSection, Stopped, HttpRunning, Reaped
  <2>6. CASE Pump
    BY <2>6, <2>3 DEF Pump, Reap, PumpNothing, PumpCancelled, PumpFailed, PumpFinished,
                      PumpRefused, PumpAccepts, Kept, HttpRunning, Reaped
  <2>7. CASE WorkerReturns \/ WorkerEnds
    BY <2>7 DEF WorkerReturns, WorkerEnds, HttpRunning
  <2> QED BY <1>1, <2>1, <2>4, <2>5, <2>6, <2>7 DEF AiNext, AiOwner
<1>2. TurnInv /\ [AiNext]_aiVars
        => [stopped /\ stopped' => ran' = ran /\ (HttpRunning' => HttpRunning)]_aiVars
  BY <1>1
<1> QED BY <1>2, TurnStarts, TurnStep, PTL DEF AiSpec, StopSticks

----------------------------------------------------------------------------
(* The conversation, in the two forms the providers take: an entry of the    *)
(* history becomes a message, or a part of the last one.                     *)

Ident == STRING \cup {"none"}  \* the id of what answers no call is "none"
Call == [id : STRING, tool : STRING]
Entry == [role : {"user", "assistant", "tool"}, calls : Seq(Call), id : Ident]
Block == [role : {"user", "assistant"}, uses : Seq(Ident), results : Seq(Ident)]

\* The ids of a batch, in its order.
LEMMA IdsType ==
  ASSUME NEW calls \in Seq(Call)
  PROVE  Ids(calls) \in Seq(Ident) /\ Len(Ids(calls)) = Len(calls)
         /\ \A i \in 1..Len(calls) : Ids(calls)[i] = calls[i].id
<1>1. DOMAIN calls = 1..Len(calls) /\ Len(calls) \in Nat /\ \A i \in 1..Len(calls) : calls[i] \in Call
  OBVIOUS
<1>2. \A c \in Call : c.id \in Ident
  BY DEF Call, Ident
<1>3. Ids(calls) = [i \in 1..Len(calls) |-> calls[i].id]
  BY <1>1 DEF Ids
<1>4. \A i \in 1..Len(calls) : calls[i].id \in Ident
  BY <1>1, <1>2
<1> QED BY <1>1, <1>3, <1>4

\* The fields of an entry.
LEMMA EntryFields ==
  ASSUME NEW e \in Entry
  PROVE  /\ e.role \in {"user", "assistant", "tool"} /\ e.calls \in Seq(Call) /\ e.id \in Ident
BY DEF Entry

\* The message of an entry.
LEMMA MessageOf ==
  ASSUME NEW e \in Entry
  PROVE  /\ AnthropicMessage(e) \in Block
         /\ e.role = "tool" => AnthropicMessage(e) = Message("user", <<>>, <<e.id>>)
         /\ e.role = "user" => AnthropicMessage(e) = Message("user", <<>>, <<>>)
         /\ e.role = "assistant" => AnthropicMessage(e) = Message("assistant", Ids(e.calls), <<>>)
<1>1. e.role = "tool" => AnthropicMessage(e) = Message("user", <<>>, <<e.id>>)
  BY DEF AnthropicMessage
<1>2. e.role = "user" => AnthropicMessage(e) = Message("user", <<>>, <<>>)
  BY DEF AnthropicMessage, OpenAiMessage
<1>3. e.role = "assistant" => AnthropicMessage(e) = Message("assistant", Ids(e.calls), <<>>)
  BY DEF AnthropicMessage, OpenAiMessage
<1>4. <<e.id>> \in Seq(Ident) /\ Ids(e.calls) \in Seq(Ident) /\ <<>> \in Seq(Ident)
  BY EntryFields, IdsType
<1>5. \A r \in {"user", "assistant"}, u, s \in Seq(Ident) : Message(r, u, s) \in Block
  BY DEF Message, Block
<1>6. AnthropicMessage(e) \in Block
  BY <1>1, <1>2, <1>3, <1>4, <1>5, EntryFields
<1> QED BY <1>1, <1>2, <1>3, <1>6

\* A block is a message of its own, or joins the last one.
LEMMA BlockAppended ==
  ASSUME NEW ms \in Seq(Block), NEW m \in Block
  PROVE  LET q == AppendAnthropic(ms, m)
             n == Len(ms)
         IN /\ q \in Seq(Block)
            /\ ms = <<>> \/ ms[n].role # m.role => q = Append(ms, m)
            /\ ms # <<>> /\ ms[n].role = m.role =>
                 /\ Len(q) = n /\ \A i \in 1..(n - 1) : q[i] = ms[i]
                 /\ q[n].role = m.role /\ q[n].uses = ms[n].uses \o m.uses
                 /\ q[n].results = ms[n].results \o m.results
<1> DEFINE q == AppendAnthropic(ms, m)
           n == Len(ms)
<1>1. CASE ms = <<>> \/ ms[n].role # m.role
  <2>1. q = Append(ms, m)
    BY <1>1 DEF AppendAnthropic, Last
  <2>2. Append(ms, m) \in Seq(Block)
    OBVIOUS
  <2> QED BY <1>1, <2>1, <2>2
<1>2. CASE ms # <<>> /\ ms[n].role = m.role
  <2> DEFINE b == Message(m.role, ms[n].uses \o m.uses, ms[n].results \o m.results)
  <2>1. q = [ms EXCEPT ![n] = b]
    BY <1>2 DEF AppendAnthropic, Last
  <2>2. n \in 1..n /\ n \in Nat /\ ms[n] \in Block
    BY <1>2
  <2>3. b \in Block /\ b.role = m.role /\ b.uses = ms[n].uses \o m.uses /\ b.results = ms[n].results \o m.results
    <3>1. /\ m.role \in {"user", "assistant"} /\ ms[n].uses \in Seq(Ident)
          /\ ms[n].results \in Seq(Ident) /\ m.uses \in Seq(Ident) /\ m.results \in Seq(Ident)
      BY <2>2 DEF Block
    <3>2. ms[n].uses \o m.uses \in Seq(Ident) /\ ms[n].results \o m.results \in Seq(Ident)
      BY <3>1
    <3> QED BY <3>1, <3>2 DEF Block, Message
  <2> HIDE DEF b
  <2>5. q \in Seq(Block) /\ Len(q) = n /\ q[n] = b /\ \A i \in 1..(n - 1) : q[i] = ms[i]
    BY <2>1, <2>2, <2>3, ExceptSeq
  <2> QED BY <1>2, <2>3, <2>5
<1> QED BY <1>1, <1>2

----------------------------------------------------------------------------
(* The messages of a conversation, entry by entry.                           *)
Merging(h, M) == /\ M \in [0..Len(h) -> Seq(Block)] /\ M[0] = <<>>
                 /\ \A i \in 1..Len(h) : M[i] = AppendAnthropic(M[i - 1], AnthropicMessage(h[i]))

\* The recursive function AnthropicMessages is defined by does exist.
LEMMA Merges ==
  ASSUME NEW h \in Seq(Entry)
  PROVE  \E M : Merging(h, M) /\ AnthropicMessages(h) = M[Len(h)]
<1> DEFINE N == Len(h)
           C == CHOOSE M : M = [n \in 0..Len(h) |->
                  IF n = 0 THEN <<>> ELSE AppendAnthropic(M[n - 1], AnthropicMessage(h[n]))]
<1>0. N \in Nat /\ \A i \in 1..N : h[i] \in Entry
  OBVIOUS
<1>1. PICK X : X = Seq(Block)
  OBVIOUS
<1>e. <<>> \in Seq(Block)
  OBVIOUS
<1>2. PICK z \in X : z = <<>>
  BY <1>1, <1>e
<1> DEFINE t(x) == IF x[1] + 1 <= N THEN AppendAnthropic(x[2], AnthropicMessage(h[x[1] + 1])) ELSE x[2]
<1>3. PICK T \in [Nat \X X -> X] : \A x \in Nat \X X : T[x] = t(x)
  <2> DEFINE tt == [x \in Nat \X X |-> t(x)]
  <2>1. ASSUME NEW x \in Nat \X X PROVE t(x) \in X
    <3>1. x[1] \in Nat /\ x[2] \in Seq(Block) /\ x[1] + 1 \in Nat /\ x[1] + 1 >= 1
      BY <1>1
    <3>2. CASE x[1] + 1 <= N
      <4>1. h[x[1] + 1] \in Entry
        BY <1>0, <3>1, <3>2
      <4>2. AppendAnthropic(x[2], AnthropicMessage(h[x[1] + 1])) \in Seq(Block)
        BY <3>1, <4>1, MessageOf, BlockAppended
      <4> QED BY <1>1, <3>2, <4>2
    <3>3. CASE ~(x[1] + 1 <= N)
      BY <3>3, <3>1, <1>1
    <3> QED BY <3>2, <3>3
  <2> HIDE DEF t
  <2>2. tt \in [Nat \X X -> X] BY <2>1
  <2>3. \A x \in Nat \X X : tt[x] = t(x) OBVIOUS
  <2> HIDE DEF tt
  <2> QED BY <2>2, <2>3
<1>4. PICK f : Iter(f, X, z, T) BY Iterates, Zenon
<1>5. f \in [Nat -> X] /\ f[0] = <<>> /\ \A i \in Nat : f[i + 1] = T[<<i, f[i]>>]
  BY <1>2, <1>4 DEF Iter
<1>6. ASSUME NEW i \in 1..N PROVE f[i] = AppendAnthropic(f[i - 1], AnthropicMessage(h[i]))
  <2> DEFINE x == <<i - 1, f[i - 1]>>
  <2>1. i - 1 \in Nat /\ (i - 1) + 1 = i
    BY <1>0
  <2>2. x \in Nat \X X /\ x[1] = i - 1 /\ x[2] = f[i - 1] /\ f[i] = T[x]
    <3>1. f[(i - 1) + 1] = T[<<i - 1, f[i - 1]>>] BY <1>5, <2>1
    <3> HIDE DEF N
    <3> QED BY <1>5, <2>1, <3>1
  <2> HIDE DEF x
  <2>3. T[x] = t(x)
    BY <1>3, <2>2
  <2>4. i <= N BY <1>0
  <2>5. t(x) = AppendAnthropic(f[i - 1], AnthropicMessage(h[i]))
    <3> HIDE DEF N
    <3> QED BY <2>1, <2>2, <2>4
  <2> QED BY <2>2, <2>3, <2>5
<1> DEFINE K == [n \in 0..N |-> f[n]]
<1>7. ASSUME NEW n \in 0..N
      PROVE  f[n] = IF n = 0 THEN <<>> ELSE AppendAnthropic(K[n - 1], AnthropicMessage(h[n]))
  <2>1. CASE n = 0
    BY <2>1, <1>5
  <2>2. CASE n # 0
    <3>1. n \in 1..N /\ n - 1 \in 0..N BY <1>0, <2>2
    <3>2. K[n - 1] = f[n - 1]
      <4> HIDE DEF N
      <4> QED BY <3>1
    <3> HIDE DEF K, N
    <3> QED BY <2>2, <3>1, <3>2, <1>6
  <2> QED BY <2>1, <2>2
<1>8. K = [n \in 0..N |-> IF n = 0 THEN <<>> ELSE AppendAnthropic(K[n - 1], AnthropicMessage(h[n]))]
  <2>1. K = [n \in 0..N |-> f[n]] OBVIOUS
  <2> HIDE DEF K, N
  <2> QED BY <1>7, <2>1
<1> HIDE DEF K
<1>9. C = [n \in 0..Len(h) |-> IF n = 0 THEN <<>> ELSE AppendAnthropic(C[n - 1], AnthropicMessage(h[n]))]
  BY <1>8
<1>10. AnthropicMessages(h) = C[Len(h)]
  BY DEF AnthropicMessages
<1> HIDE DEF C
<1>11. C[0] = <<>> /\ \A i \in 1..N : C[i] = AppendAnthropic(C[i - 1], AnthropicMessage(h[i]))
  <2>1. 0 \in 0..N /\ \A i \in 1..N : i \in 0..N /\ i # 0 BY <1>0
  <2>2. \A n \in 0..N : C[n] = IF n = 0 THEN <<>> ELSE AppendAnthropic(C[n - 1], AnthropicMessage(h[n]))
    BY <1>9
  <2> HIDE DEF N
  <2> QED BY <2>1, <2>2
<1>12. \A i \in 0..N : C[i] \in Seq(Block)
  <2> DEFINE E == {i \in Nat : i \in 0..N => C[i] \in Seq(Block)}
  <2>1. 0 \in E BY <1>e, <1>11
  <2>2. ASSUME NEW i \in Nat, i \in E PROVE i + 1 \in E
    <3> SUFFICES ASSUME i + 1 \in 0..N PROVE C[i + 1] \in Seq(Block)
      OBVIOUS
    <3>1. i \in 0..N /\ i + 1 \in 1..N /\ (i + 1) - 1 = i BY <1>0
    <3>2. C[i] \in Seq(Block) /\ h[i + 1] \in Entry BY <1>0, <2>2, <3>1
    <3>3. C[i + 1] = AppendAnthropic(C[i], AnthropicMessage(h[i + 1]))
      <4> HIDE DEF N
      <4> QED BY <1>11, <3>1
    <3> QED BY <3>2, <3>3, MessageOf, BlockAppended
  <2> HIDE DEF E
  <2>3. Nat \subseteq E BY <2>1, <2>2, AllNat
  <2> QED BY <2>3 DEF E
<1>13. C \in [0..N -> Seq(Block)]
  <2>1. DOMAIN C = 0..N /\ C = [i \in DOMAIN C |-> C[i]] BY <1>9
  <2> HIDE DEF N
  <2> QED BY <2>1, <1>12
<1> QED BY <1>10, <1>11, <1>13 DEF Merging

\* An empty history is no message.
LEMMA MergesNone == AnthropicMessages(<<>>) = <<>>
<1>1. <<>> \in Seq(Entry) /\ Len(<<>>) = 0
  OBVIOUS
<1>2. PICK M : Merging(<<>>, M) /\ AnthropicMessages(<<>>) = M[Len(<<>>)]
  BY <1>1, Merges
<1> QED BY <1>1, <1>2 DEF Merging

\* A history becomes blocks.
LEMMA MergesType ==
  ASSUME NEW h \in Seq(Entry) PROVE AnthropicMessages(h) \in Seq(Block)
<1>1. PICK M : Merging(h, M) /\ AnthropicMessages(h) = M[Len(h)]
  BY Merges
<1>2. Len(h) \in 0..Len(h)
  OBVIOUS
<1> QED BY <1>1, <1>2 DEF Merging

\* One more entry is appended to what the history was.
LEMMA MergesOne ==
  ASSUME NEW h \in Seq(Entry), NEW e \in Entry
  PROVE  /\ AnthropicMessages(h) \in Seq(Block)
         /\ AnthropicMessages(Append(h, e)) = AppendAnthropic(AnthropicMessages(h), AnthropicMessage(e))
<1> DEFINE q == Append(h, e)
           N == Len(h)
<1>1. q \in Seq(Entry) /\ Len(q) = N + 1 /\ N \in Nat /\ q[N + 1] = e /\ \A i \in 1..N : q[i] = h[i]
  OBVIOUS
<1>2. PICK M : Merging(h, M) /\ AnthropicMessages(h) = M[N]
  BY Merges
<1>3. PICK K : Merging(q, K) /\ AnthropicMessages(q) = K[N + 1]
  <2>1. PICK K : Merging(q, K) /\ AnthropicMessages(q) = K[Len(q)]
    <3> HIDE DEF q
    <3> QED BY <1>1, Merges
  <2> HIDE DEF q, N
  <2> QED BY <1>1, <2>1
<1> HIDE DEF q, N
<1>m. /\ M \in [0..N -> Seq(Block)] /\ M[0] = <<>>
      /\ \A i \in 1..N : M[i] = AppendAnthropic(M[i - 1], AnthropicMessage(h[i]))
  BY <1>2 DEF Merging, N
<1>k. /\ K[0] = <<>>
      /\ \A i \in 1..(N + 1) : K[i] = AppendAnthropic(K[i - 1], AnthropicMessage(q[i]))
  BY <1>1, <1>3 DEF Merging
<1> DEFINE E == {i \in Nat : i <= N => K[i] = M[i]}
<1>4. 0 \in E BY <1>m, <1>k
<1>5. ASSUME NEW i \in Nat, i \in E PROVE i + 1 \in E
  <2> SUFFICES ASSUME i + 1 <= N PROVE K[i + 1] = M[i + 1]
    OBVIOUS
  <2>1. i <= N /\ i + 1 \in 1..N /\ i + 1 \in 1..(N + 1) /\ (i + 1) - 1 = i
    BY <1>1
  <2>2. K[i] = M[i] /\ q[i + 1] = h[i + 1] BY <1>1, <1>5, <2>1
  <2>3. K[i + 1] = AppendAnthropic(K[i], AnthropicMessage(q[i + 1]))
    BY <1>k, <2>1
  <2>4. M[i + 1] = AppendAnthropic(M[i], AnthropicMessage(h[i + 1]))
    BY <1>m, <2>1
  <2> QED BY <2>2, <2>3, <2>4
<1> HIDE DEF E
<1>6. Nat \subseteq E BY <1>4, <1>5, AllNat
<1>7. K[N] = M[N] BY <1>1, <1>6 DEF E
<1>8. K[N + 1] = AppendAnthropic(K[N], AnthropicMessage(e))
  <2>1. N + 1 \in 1..(N + 1) /\ (N + 1) - 1 = N BY <1>1
  <2> QED BY <1>1, <1>k, <2>1
<1>9. M[N] \in Seq(Block) BY <1>1, <1>m
<1> QED BY <1>2, <1>3, <1>7, <1>8, <1>9 DEF q

(* In Anthropic's form: the roles alternate, from the user's on, and what an *)
(* assistant's message asks, the next one answers.                           *)
Alternates(ms) ==
  /\ ms # <<>> => ms[1].role = "user" /\ ms[1].results = <<>>
  /\ \A i \in 1..(Len(ms) - 1) : /\ ms[i].role # ms[i + 1].role
                                 /\ ms[i].role = "assistant" => ms[i + 1].results = ms[i].uses
EndsAs(ms, role, uses) == ms # <<>> /\ Last(ms).role = role /\ Last(ms).uses = uses
UserEnds(ms) == ms # <<>> /\ Last(ms).role = "user"
(* The user may speak now.                                                   *)
Awaits(ms) == ms = <<>> \/ EndsAs(ms, "assistant", <<>>) \/ UserEnds(ms)

\* One more message, of the other role, whose results are those asked for.
LEMMA AlternatesMore ==
  ASSUME NEW ms \in Seq(Block), Alternates(ms), NEW q \in Seq(Block), Len(q) = Len(ms) + 1,
         \A i \in 1..Len(ms) : q[i] = ms[i],
         IF ms = <<>> THEN q[1].role = "user" /\ q[1].results = <<>>
         ELSE /\ Last(ms).role # Last(q).role
              /\ Last(ms).role = "assistant" => Last(q).results = Last(ms).uses
  PROVE  Alternates(q)
<1> DEFINE n == Len(ms)
<1>1. n \in Nat /\ Len(q) = n + 1 /\ Last(ms) = ms[n] /\ Last(q) = q[n + 1]
  BY DEF Last
<1>2. CASE ms = <<>>
  BY <1>2 DEF Alternates
<1>3. CASE ms # <<>>
  <2>1. n >= 1 /\ q[1] = ms[1]
    BY <1>3
  <2>2. ASSUME NEW i \in 1..n
        PROVE  q[i].role # q[i + 1].role /\ (q[i].role = "assistant" => q[i + 1].results = q[i].uses)
    <3>1. CASE i = n
      BY <1>1, <1>3, <3>1
    <3>2. CASE i # n
      <4>1. i \in 1..(n - 1) /\ q[i] = ms[i] /\ q[i + 1] = ms[i + 1]
        BY <1>1, <3>2
      <4> QED BY <4>1 DEF Alternates
    <3> QED BY <3>1, <3>2
  <2>3. Len(q) - 1 = n
    BY <1>1
  <2> HIDE DEF n
  <2> QED BY <1>3, <2>1, <2>2, <2>3 DEF Alternates
<1> QED BY <1>2, <1>3

\* The user speaks, in a message of its own or in the one before.
LEMMA UserSpeaks ==
  ASSUME NEW h \in Seq(Entry), NEW e \in Entry, e.role = "user",
         Alternates(AnthropicMessages(h)), Awaits(AnthropicMessages(h))
  PROVE  LET q == AnthropicMessages(Append(h, e)) IN Alternates(q) /\ UserEnds(q)
<1> DEFINE m == AnthropicMessage(e)
<1>1. PICK ms \in Seq(Block) : ms = AnthropicMessages(h)
  BY MergesType
<1>2. m \in Block /\ m.role = "user" /\ m.uses = <<>> /\ m.results = <<>>
  BY MessageOf DEF Message
<1>3. PICK q \in Seq(Block) : q = AnthropicMessages(Append(h, e)) /\ q = AppendAnthropic(ms, m)
  BY <1>1, <1>2, MergesOne, BlockAppended
<1> DEFINE n == Len(ms)
<1>4. n \in Nat /\ Last(ms) = ms[n] /\ Alternates(ms) /\ Awaits(ms) /\ Last(q) = q[Len(q)]
  BY <1>1 DEF Last
<1> HIDE DEF m
<1>5. CASE ms = <<>> \/ ms[n].role # "user"
  <2>1. q = Append(ms, m)
    BY <1>2, <1>3, <1>5, BlockAppended
  <2>2. Len(q) = n + 1 /\ (\A i \in 1..n : q[i] = ms[i]) /\ q[n + 1] = m
    BY <2>1, <1>2
  <2>3. ms # <<>> => Last(ms).role = "assistant" /\ Last(ms).uses = <<>>
    BY <1>4, <1>5 DEF Awaits, EndsAs, UserEnds
  <2>4. ms = <<>> => n = 0
    OBVIOUS
  <2>5. Alternates(q)
    <3> HIDE DEF n
    <3> QED BY <1>2, <1>4, <2>2, <2>3, <2>4, AlternatesMore DEF n
  <2> QED BY <1>2, <1>3, <1>4, <2>2, <2>5 DEF UserEnds
<1>6. CASE ms # <<>> /\ ms[n].role = "user"
  <2>1. /\ Len(q) = n /\ \A i \in 1..(n - 1) : q[i] = ms[i]
        /\ q[n].role = "user" /\ q[n].results = ms[n].results \o <<>>
    <3>1. ms # <<>> /\ ms[Len(ms)].role = m.role
      BY <1>2, <1>6
    <3>2. /\ Len(q) = Len(ms) /\ \A i \in 1..(Len(ms) - 1) : q[i] = ms[i]
          /\ q[Len(ms)].role = m.role /\ q[Len(ms)].results = ms[Len(ms)].results \o m.results
      <4>1. q = AppendAnthropic(ms, m)
        BY <1>3
      <4> HIDE DEF n
      <4> QED BY <1>2, <3>1, <4>1, BlockAppended
    <3> QED BY <1>2, <3>2
  <2>2. n >= 1 /\ ms[n] \in Block
    BY <1>6
  <2>3. q[n].results = ms[n].results
    BY <2>1, <2>2 DEF Block
  <2>4. \A i \in 1..n : q[i].role = ms[i].role /\ q[i].results = ms[i].results
    BY <2>1, <2>3, <1>4, <1>6
  <2>5. Alternates(q)
    <3>1. q[1].role = "user" /\ q[1].results = <<>>
      BY <1>4, <1>6, <2>2, <2>4 DEF Alternates
    <3>2. ASSUME NEW i \in 1..(n - 1)
          PROVE  q[i].role # q[i + 1].role /\ (q[i].role = "assistant" => q[i + 1].results = q[i].uses)
      <4>1. i \in 1..n /\ i + 1 \in 1..n /\ q[i] = ms[i]
        BY <1>4, <2>1
      <4> QED BY <1>4, <2>4, <4>1 DEF Alternates
    <3> QED BY <2>1, <3>1, <3>2 DEF Alternates
  <2> QED BY <1>3, <1>4, <2>1, <2>2, <2>5 DEF UserEnds
<1> QED BY <1>5, <1>6

\* The assistant speaks after the user.
LEMMA AssistantSpeaks ==
  ASSUME NEW h \in Seq(Entry), NEW e \in Entry, e.role = "assistant",
         Alternates(AnthropicMessages(h)), UserEnds(AnthropicMessages(h))
  PROVE  LET q == AnthropicMessages(Append(h, e))
         IN Alternates(q) /\ EndsAs(q, "assistant", Ids(e.calls))
<1> DEFINE m == AnthropicMessage(e)
<1>1. PICK ms \in Seq(Block) : ms = AnthropicMessages(h)
  BY MergesType
<1>2. m \in Block /\ m.role = "assistant" /\ m.uses = Ids(e.calls)
  BY MessageOf DEF Message
<1>3. PICK q \in Seq(Block) : q = AnthropicMessages(Append(h, e)) /\ q = AppendAnthropic(ms, m)
  BY <1>1, <1>2, MergesOne, BlockAppended
<1>4. Alternates(ms) /\ ms # <<>> /\ Last(ms).role = "user" /\ Last(ms) = ms[Len(ms)]
  BY <1>1 DEF UserEnds, Last
<1> HIDE DEF m
<1>5. q = Append(ms, m)
  <2>1. Last(ms).role # m.role
    BY <1>2, <1>4
  <2> QED BY <1>3, <1>4, <2>1 DEF AppendAnthropic
<1>6. /\ Len(q) = Len(ms) + 1 /\ \A i \in 1..Len(ms) : q[i] = ms[i]
      /\ Last(q) = m /\ q # <<>>
  BY <1>2, <1>5 DEF Last
<1>7. Alternates(q)
  BY <1>2, <1>4, <1>6, AlternatesMore
<1> QED BY <1>2, <1>3, <1>6, <1>7 DEF EndsAs

\* The first k + 1 elements after h are the first k and one more.
LEMMA OneFurther ==
  ASSUME NEW S, NEW h \in Seq(S), NEW r \in Seq(S), NEW k \in Nat, k + 1 <= Len(r)
  PROVE  h \o SubSeq(r, 1, k + 1) = Append(h \o SubSeq(r, 1, k), r[k + 1])
<1> DEFINE a == SubSeq(r, 1, k)
<1>1. a \in Seq(S) /\ r[k + 1] \in S
  OBVIOUS
<1>2. SubSeq(r, 1, k + 1) = a \o <<r[k + 1]>>
  <2>1. 1 \in 1..Len(r) /\ k + 1 \in 1..Len(r) /\ (k + 1) - 1 = k
    OBVIOUS
  <2> QED BY <2>1, SubSeqRecursiveSecond
<1> HIDE DEF a
<1>4. <<r[k + 1]>> \in Seq(S) /\ h \o a \in Seq(S)
  BY <1>1, ConcatProperties
<1>5. h \o (a \o <<r[k + 1]>>) = (h \o a) \o <<r[k + 1]>>
  BY <1>1, <1>4, ConcatAssociative
<1>6. (h \o a) \o <<r[k + 1]>> = Append(h \o a, r[k + 1])
  BY <1>1, <1>4, AppendIsConcat
<1> QED BY <1>2, <1>5, <1>6 DEF a

\* The results of a batch.
LEMMA ResultsType ==
  ASSUME NEW calls \in Seq(Call)
  PROVE  /\ Results(calls) \in Seq(Entry) /\ Len(Results(calls)) = Len(calls)
         /\ \A i \in 1..Len(calls) : /\ Results(calls)[i].role = "tool"
                                     /\ Results(calls)[i].id = calls[i].id
<1>1. DOMAIN calls = 1..Len(calls) /\ Len(calls) \in Nat /\ \A i \in 1..Len(calls) : calls[i] \in Call
  OBVIOUS
<1>2. \A c \in Call : Said("tool", <<>>, c.id) \in Entry
  BY DEF Call, Said, Entry, Ident
<1>3. Results(calls) = [i \in 1..Len(calls) |-> Said("tool", <<>>, calls[i].id)]
  BY <1>1 DEF Results
<1>4. \A i \in 1..Len(calls) : Said("tool", <<>>, calls[i].id) \in Entry
  BY <1>1, <1>2
<1>5. \A id : Said("tool", <<>>, id).role = "tool" /\ Said("tool", <<>>, id).id = id
  BY DEF Said
<1> QED BY <1>1, <1>3, <1>4, <1>5

\* The results of the calls the assistant asked for are one message of the user's.
LEMMA ToolsSpeak ==
  ASSUME NEW h \in Seq(Entry), NEW calls \in Seq(Call) \ {<<>>},
         Alternates(AnthropicMessages(h)), EndsAs(AnthropicMessages(h), "assistant", Ids(calls))
  PROVE  LET q == AnthropicMessages(h \o Results(calls)) IN Alternates(q) /\ UserEnds(q)
<1> DEFINE R == Results(calls)
           I == Ids(calls)
           N == Len(calls)
           g(k) == h \o SubSeq(R, 1, k)
<1>1. PICK ms \in Seq(Block) : ms = AnthropicMessages(h)
  BY MergesType
<1> DEFINE Follows(q, k) == /\ q \in Seq(Block) /\ Len(q) = Len(ms) + 1
                            /\ \A i \in 1..Len(ms) : q[i] = ms[i]
                            /\ q[Len(q)].role = "user" /\ q[Len(q)].results = SubSeq(I, 1, k)
           E == {k \in Nat : k + 1 <= N => Follows(AnthropicMessages(g(k + 1)), k + 1)}
<1>2. /\ R \in Seq(Entry) /\ Len(R) = N /\ N \in Nat \ {0} /\ I \in Seq(Ident) /\ Len(I) = N
      /\ \A i \in 1..N : R[i] \in Entry /\ R[i].role = "tool" /\ R[i].id = I[i]
  <2>1. /\ R \in Seq(Entry) /\ Len(R) = N /\ I \in Seq(Ident) /\ Len(I) = N /\ N \in Nat \ {0}
        /\ \A i \in 1..N : R[i].role = "tool" /\ R[i].id = calls[i].id /\ I[i] = calls[i].id
    BY ResultsType, IdsType
  <2> HIDE DEF R, I, N
  <2>2. \A i \in 1..N : R[i] \in Entry
    BY <2>1
  <2> QED BY <2>1, <2>2
<1>3. Alternates(ms) /\ ms # <<>> /\ Last(ms) = ms[Len(ms)] /\ Last(ms).role = "assistant" /\ Last(ms).uses = I
  BY <1>1 DEF EndsAs, Last
<1> HIDE DEF R, I, N
<1>4. ASSUME NEW k \in Nat, k + 1 <= N
      PROVE  /\ g(k) \in Seq(Entry) /\ g(k + 1) = Append(g(k), R[k + 1])
             /\ R[k + 1] \in Entry
             /\ AnthropicMessage(R[k + 1]) = Message("user", <<>>, <<I[k + 1]>>)
             /\ AnthropicMessage(R[k + 1]) \in Block
             /\ SubSeq(I, 1, k + 1) = SubSeq(I, 1, k) \o <<I[k + 1]>>
  <2>1. k + 1 \in 1..N
    BY <1>2, <1>4
  <2>2. g(k) \in Seq(Entry)
    BY <1>2, <1>4
  <2>3. g(k + 1) = Append(g(k), R[k + 1])
    BY <1>2, <1>4, OneFurther
  <2>4. SubSeq(I, 1, k + 1) = SubSeq(I, 1, k) \o <<I[k + 1]>>
    <3>1. <<>> \in Seq(Ident) OBVIOUS
    <3>2. <<>> \o SubSeq(I, 1, k + 1) = Append(<<>> \o SubSeq(I, 1, k), I[k + 1])
      BY <1>2, <1>4, <3>1, OneFurther
    <3>3. SubSeq(I, 1, k + 1) \in Seq(Ident) /\ SubSeq(I, 1, k) \in Seq(Ident) /\ I[k + 1] \in Ident
      BY <1>2, <1>4
    <3> QED BY <3>2, <3>3
  <2> HIDE DEF g
  <2> QED BY <1>2, <2>1, <2>2, <2>3, <2>4, MessageOf
<1>5. 0 \in E
  <2> DEFINE m == AnthropicMessage(R[0 + 1])
             q == AnthropicMessages(g(0 + 1))
  <2>1. 0 \in Nat /\ 0 + 1 <= N
    BY <1>2
  <2>2. g(0) = h
    BY <1>2
  <2>3. /\ m = Message("user", <<>>, <<I[0 + 1]>>) /\ m \in Block
        /\ q = AnthropicMessages(Append(h, R[0 + 1])) /\ R[0 + 1] \in Entry
        /\ SubSeq(I, 1, 0 + 1) = SubSeq(I, 1, 0) \o <<I[0 + 1]>>
    BY <1>4, <2>1, <2>2
  <2>4. q = AppendAnthropic(ms, m)
    BY <1>1, <2>3, MergesOne
  <2>5. m.role = "user" /\ m.results = <<I[0 + 1]>>
    BY <2>3 DEF Message
  <2>6. SubSeq(I, 1, 0) \o <<I[0 + 1]>> = <<I[0 + 1]>>
    <3>1. SubSeq(I, 1, 0) = <<>> /\ I[0 + 1] \in Ident
      BY <1>2
    <3>2. <<I[0 + 1]>> \in Seq(Ident)
      BY <3>1
    <3> QED BY <3>1, <3>2, ConcatEmptySeq
  <2> HIDE DEF m, q, g
  <2>7. q = Append(ms, m)
    <3>1. ms[Len(ms)].role # m.role
      BY <1>3, <2>5
    <3> QED BY <2>3, <2>4, <3>1, BlockAppended
  <2>8. Follows(q, 0 + 1)
    BY <2>3, <2>5, <2>6, <2>7
  <2> QED BY <2>8 DEF q
<1>6. ASSUME NEW k \in Nat, k \in E PROVE k + 1 \in E
  <2> SUFFICES ASSUME (k + 1) + 1 <= N
               PROVE  Follows(AnthropicMessages(g((k + 1) + 1)), (k + 1) + 1)
    OBVIOUS
  <2> DEFINE j == k + 1
             m == AnthropicMessage(R[j + 1])
             p == AnthropicMessages(g(j))
             q == AnthropicMessages(g(j + 1))
  <2>1. j \in Nat /\ j + 1 <= N /\ j <= N
    BY <1>2
  <2>2. Follows(p, j)
    BY <1>6, <2>1
  <2>3. /\ m = Message("user", <<>>, <<I[j + 1]>>) /\ m \in Block
        /\ g(j) \in Seq(Entry) /\ g(j + 1) = Append(g(j), R[j + 1]) /\ R[j + 1] \in Entry
        /\ SubSeq(I, 1, j + 1) = SubSeq(I, 1, j) \o <<I[j + 1]>>
    <3> HIDE DEF j, g
    <3> QED BY <1>4, <2>1 DEF g
  <2>4. q = AppendAnthropic(p, m)
    <3> HIDE DEF g, j
    <3> QED BY <2>3, MergesOne
  <2>5. m.role = "user" /\ m.results = <<I[j + 1]>>
    BY <2>3 DEF Message
  <2> HIDE DEF m, p, q, g, j
  <2>6. p # <<>> /\ Len(p) = Len(ms) + 1 /\ p[Len(p)].role = m.role /\ p \in Seq(Block) /\ Len(ms) \in Nat
    BY <2>2, <2>5
  <2>7. /\ q \in Seq(Block) /\ Len(q) = Len(p) /\ \A i \in 1..(Len(p) - 1) : q[i] = p[i]
        /\ q[Len(p)].role = m.role /\ q[Len(p)].results = p[Len(p)].results \o m.results
    BY <2>3, <2>4, <2>6, BlockAppended
  <2>8. Follows(q, j + 1)
    <3>1. \A i \in 1..Len(ms) : q[i] = ms[i]
      BY <2>2, <2>6, <2>7
    <3>2. q[Len(q)].results = SubSeq(I, 1, j + 1)
      BY <2>2, <2>3, <2>5, <2>7
    <3> QED BY <2>5, <2>6, <2>7, <3>1, <3>2
  <2> QED BY <2>8 DEF q, j
<1> DEFINE q == AnthropicMessages(g(N))
<1>7. Follows(q, N)
  <2> HIDE DEF E
  <2>1. Nat \subseteq E
    BY <1>5, <1>6, AllNat
  <2>2. N - 1 \in E /\ (N - 1) + 1 = N /\ N <= N
    BY <1>2, <2>1
  <2> HIDE DEF g
  <2> QED BY <2>2 DEF E
<1>8. g(N) = h \o R /\ SubSeq(I, 1, N) = I
  <2>1. SubSeq(R, 1, N) = R /\ SubSeq(I, 1, N) = I
    BY <1>2
  <2> QED BY <2>1
<1> HIDE DEF q, g
<1>9. q \in Seq(Block) /\ q # <<>> /\ Last(q) = q[Len(q)] /\ Last(q).role = "user" /\ Last(q).results = I
  BY <1>7, <1>8 DEF Last
<1>10. Alternates(q)
  BY <1>3, <1>7, <1>9, AlternatesMore
<1> QED BY <1>8, <1>9, <1>10 DEF UserEnds, q, R

(* In OpenAI's form: entries 1..n have their calls answered, and no answer   *)
(* comes without a call.                                                     *)
Answers(h, i) == \A k \in DOMAIN h[i].calls :
                   /\ i + k <= Len(h) /\ h[i + k].role = "tool" /\ h[i + k].id = h[i].calls[k].id
Called(h, i) == \E j \in 1..(i - 1) : h[j].role = "assistant" /\ i - j <= Len(h[j].calls)
Answered(h, n) == /\ \A i \in 1..n : h[i].role = "assistant" => Answers(h, i)
                  /\ \A i \in DOMAIN h : h[i].role = "tool" => Called(h, i)

\* What was answered stays so, whatever is said next.
LEMMA StaysAnswered ==
  ASSUME NEW h \in Seq(Entry), NEW q \in Seq(Entry), Len(h) <= Len(q),
         \A i \in 1..Len(h) : q[i] = h[i], NEW n \in Nat, n <= Len(h), Answered(h, n)
  PROVE  /\ \A i \in 1..n : q[i].role = "assistant" => Answers(q, i)
         /\ \A i \in 1..Len(h) : q[i].role = "tool" => Called(q, i)
<1>0. Len(h) \in Nat /\ Len(q) \in Nat /\ DOMAIN h = 1..Len(h)
      /\ \A i \in 1..Len(h) : h[i].calls \in Seq(Call)
  BY EntryFields
<1>1. ASSUME NEW i \in 1..n, q[i].role = "assistant" PROVE Answers(q, i)
  <2>1. q[i] = h[i] /\ Answers(h, i)
    BY <1>0, <1>1 DEF Answered
  <2>2. ASSUME NEW k \in DOMAIN h[i].calls
        PROVE  i + k <= Len(q) /\ q[i + k] = h[i + k]
    <3>1. k \in 1..Len(h[i].calls) /\ Len(h[i].calls) \in Nat
      BY <1>0
    <3>2. i + k <= Len(h)
      BY <2>1, <2>2 DEF Answers
    <3>3. i + k \in 1..Len(h)
      BY <1>0, <3>1, <3>2
    <3> QED BY <1>0, <3>3
  <2> QED BY <2>1, <2>2 DEF Answers
<1>2. ASSUME NEW i \in 1..Len(h), q[i].role = "tool" PROVE Called(q, i)
  <2>1. PICK j \in 1..(i - 1) : h[j].role = "assistant" /\ i - j <= Len(h[j].calls)
    BY <1>0, <1>2 DEF Answered, Called
  <2>2. q[j] = h[j]
    BY <1>0
  <2> QED BY <2>1, <2>2 DEF Called
<1> QED BY <1>1, <1>2

\* The user or the assistant says more.
LEMMA SaidMore ==
  ASSUME NEW h \in Seq(Entry), NEW e \in Entry, e.role # "tool", Answered(h, Len(h))
  PROVE  LET q == Append(h, e)
         IN /\ q \in Seq(Entry) /\ q # <<>> /\ Last(q) = e /\ Len(q) = Len(h) + 1
            /\ Answered(q, Len(q) - 1)
            /\ e.calls = <<>> => Answered(q, Len(q))
<1> DEFINE q == Append(h, e)
<1>1. /\ q \in Seq(Entry) /\ q # <<>> /\ Len(q) = Len(h) + 1 /\ q[Len(h) + 1] = e
      /\ Len(h) \in Nat /\ DOMAIN q = 1..(Len(h) + 1)
      /\ \A i \in 1..Len(h) : q[i] = h[i]
  OBVIOUS
<1> HIDE DEF q
<1>2. /\ \A i \in 1..Len(h) : q[i].role = "assistant" => Answers(q, i)
      /\ \A i \in 1..Len(h) : q[i].role = "tool" => Called(q, i)
  BY <1>1, StaysAnswered
<1>3. Answered(q, Len(h))
  BY <1>1, <1>2 DEF Answered
<1>4. ASSUME e.calls = <<>> PROVE Answered(q, Len(h) + 1)
  <2>1. Answers(q, Len(h) + 1)
    BY <1>1, <1>4 DEF Answers
  <2> QED BY <1>1, <1>2, <1>3, <2>1 DEF Answered
<1>5. Len(q) - 1 = Len(h) /\ Last(q) = e
  BY <1>1 DEF Last
<1> QED BY <1>1, <1>3, <1>4, <1>5 DEF q

\* The batch that was asked for last is answered.
LEMMA ToolsAnswer ==
  ASSUME NEW h \in Seq(Entry), NEW calls \in Seq(Call), h # <<>>,
         Last(h) = Said("assistant", calls, "none"), Answered(h, Len(h) - 1)
  PROVE  LET q == h \o Results(calls) IN q \in Seq(Entry) /\ Answered(q, Len(q))
<1> DEFINE q == h \o Results(calls)
           R == Results(calls)
           N == Len(h)
           K == Len(calls)
<1>0. /\ R \in Seq(Entry) /\ Len(R) = K /\ K \in Nat /\ N \in Nat \ {0} /\ DOMAIN calls = 1..K
      /\ \A i \in 1..K : R[i].role = "tool" /\ R[i].id = calls[i].id
  <2>1. K \in Nat /\ N \in Nat \ {0} /\ DOMAIN calls = 1..K
    OBVIOUS
  <2> QED BY <2>1, ResultsType
<1>1. /\ q \in Seq(Entry) /\ Len(q) = N + K
      /\ \A i \in 1..N : q[i] = h[i]
      /\ \A i \in 1..K : q[N + i] = R[i]
  <2> HIDE DEF R
  <2>1. h \o R \in Seq(Entry) /\ Len(h \o R) = N + K
    BY <1>0, ConcatProperties
  <2>2. \A i \in 1..(N + K) : (h \o R)[i] = IF i <= N THEN h[i] ELSE R[i - N]
    BY <1>0, ConcatProperties
  <2>3. \A i \in 1..N : (h \o R)[i] = h[i]
    BY <1>0, <2>2
  <2>4. ASSUME NEW i \in 1..K PROVE (h \o R)[N + i] = R[i]
    <3>1. N + i \in 1..(N + K) /\ ~(N + i <= N) /\ (N + i) - N = i
      BY <1>0
    <3> QED BY <2>2, <3>1
  <2> QED BY <2>1, <2>3, <2>4 DEF R
<1>l. h[N].role = "assistant" /\ h[N].calls = calls
  BY DEF Last, Said
<1> HIDE DEF q, R, N, K
<1>2. /\ \A i \in 1..(N - 1) : q[i].role = "assistant" => Answers(q, i)
      /\ \A i \in 1..N : q[i].role = "tool" => Called(q, i)
  <2>1. N - 1 \in Nat /\ N - 1 <= N /\ N <= N + K
    BY <1>0
  <2> QED BY <1>0, <1>1, <2>1, StaysAnswered DEF N
<1>3. N \in 1..N /\ q[N] = h[N]
  BY <1>0, <1>1
<1>4. Answers(q, N)
  BY <1>0, <1>1, <1>3, <1>l DEF Answers
<1>5. ASSUME NEW i \in 1..(N + K), ~(i <= N)
      PROVE  q[i].role = "tool" /\ Called(q, i)
  <2>1. i - N \in 1..K /\ i = N + (i - N) /\ N \in 1..(i - 1)
    BY <1>0, <1>5
  <2>2. q[i].role = "tool"
    <3> DEFINE k == i - N
    <3>1. k \in 1..K /\ i = N + k
      BY <2>1
    <3> HIDE DEF k
    <3> QED BY <1>0, <1>1, <3>1
  <2>3. i - N <= Len(q[N].calls)
    BY <1>0, <1>3, <1>l, <2>1 DEF K
  <2> QED BY <1>3, <1>l, <2>1, <2>2, <2>3 DEF Called
<1>6. ASSUME NEW i \in 1..(N + K)
      PROVE  (q[i].role = "assistant" => Answers(q, i)) /\ (q[i].role = "tool" => Called(q, i))
  <2>1. CASE i <= N - 1
    BY <1>0, <1>2, <2>1
  <2>2. CASE i = N
    BY <1>2, <1>3, <1>4, <2>2
  <2>3. CASE ~(i <= N)
    BY <1>5, <2>3
  <2> QED BY <1>0, <2>1, <2>2, <2>3
<1>7. Answered(q, N + K) /\ DOMAIN q = 1..(N + K)
  <2>1. DOMAIN q = 1..(N + K)
    BY <1>1
  <2> QED BY <1>6, <2>1 DEF Answered
<1> QED BY <1>1, <1>7 DEF q

\* An answered history is what OpenAI accepts.
LEMMA OpenAiTakes ==
  ASSUME NEW h \in Seq(Entry), Answered(h, Len(h))
  PROVE  OpenAiAccepts(OpenAiMessages(h))
<1> DEFINE s == Message("system", <<>>, <<>>)
           b == [i \in DOMAIN h |-> OpenAiMessage(h[i])]
           ms == <<s>> \o b
           N == Len(h)
           Msgs == {OpenAiMessage(h[i]) : i \in 1..N} \cup {s}
<1>0. N \in Nat /\ DOMAIN h = 1..N /\ \A i \in 1..N : h[i] \in Entry
  OBVIOUS
<1>1. /\ Len(ms) = N + 1 /\ DOMAIN ms = 1..(N + 1) /\ ms[1] = s
      /\ \A i \in 1..N : ms[i + 1] = OpenAiMessage(h[i])
  <2>1. b \in Seq(Msgs) /\ Len(b) = N /\ \A i \in 1..N : b[i] = OpenAiMessage(h[i])
    <3> HIDE DEF s
    <3> QED BY <1>0
  <2>2. <<s>> \in Seq(Msgs) /\ Len(<<s>>) = 1 /\ <<s>>[1] = s
    OBVIOUS
  <2> HIDE DEF b, Msgs, s
  <2>3. ms \in Seq(Msgs) /\ Len(ms) = 1 + N
    BY <2>1, <2>2, ConcatProperties
  <2>4. \A i \in 1..(1 + N) : ms[i] = IF i <= 1 THEN <<s>>[i] ELSE b[i - 1]
    BY <2>1, <2>2, ConcatProperties
  <2> HIDE DEF ms
  <2>5. ms[1] = s
    BY <1>0, <2>2, <2>4
  <2>6. ASSUME NEW i \in 1..N PROVE ms[i + 1] = OpenAiMessage(h[i])
    <3>1. i + 1 \in 1..(1 + N) /\ ~(i + 1 <= 1) /\ (i + 1) - 1 = i
      BY <1>0
    <3> QED BY <2>1, <2>4, <3>1
  <2>7. DOMAIN ms = 1..(N + 1) /\ Len(ms) = N + 1
    BY <1>0, <2>3
  <2> QED BY <2>5, <2>6, <2>7
<1>2. ASSUME NEW e \in Entry
      PROVE  /\ OpenAiMessage(e).role = e.role
             /\ e.role # "assistant" => OpenAiMessage(e).uses = <<>>
             /\ e.role = "assistant" => OpenAiMessage(e).uses = Ids(e.calls)
             /\ e.role = "tool" => OpenAiMessage(e).results = <<e.id>>
  <2>1. CASE e.role = "tool" BY <2>1 DEF OpenAiMessage, Message
  <2>2. CASE e.role = "user" BY <2>2 DEF OpenAiMessage, Message
  <2>3. CASE e.role = "assistant" BY <2>3 DEF OpenAiMessage, Message
  <2> QED BY <2>1, <2>2, <2>3, EntryFields
<1>s. s.role = "system" /\ s.uses = <<>>
  BY DEF Message
<1> HIDE DEF ms, N, s
<1>4. ASSUME NEW i \in 1..(N + 1)
      PROVE  /\ \A k \in DOMAIN ms[i].uses : i + k <= Len(ms) /\ ms[i + k].results = <<ms[i].uses[k]>>
             /\ ms[i].role = "tool" =>
                  \E j \in 1..(i - 1) : ms[j].role = "assistant" /\ i - j <= Len(ms[j].uses)
  <2>1. CASE i = 1
    BY <1>1, <1>s, <2>1
  <2>2. CASE i # 1
    <3> DEFINE j == i - 1
    <3>1. j \in 1..N /\ j + 1 = i /\ h[j] \in Entry /\ ms[i] = OpenAiMessage(h[j])
      BY <1>0, <1>1, <2>2
    <3>e. h[j].role \in {"user", "assistant", "tool"} /\ h[j].calls \in Seq(Call)
      BY <3>1, EntryFields
    <3> HIDE DEF j
    <3>2. CASE h[j].role = "user"
      <4>1. ms[i].uses = <<>> /\ ms[i].role = "user"
        BY <1>2, <3>1, <3>2
      <4> QED BY <4>1
    <3>3. CASE h[j].role = "assistant"
      <4>1. ms[i].uses = Ids(h[j].calls) /\ ms[i].role = "assistant"
        BY <1>2, <3>1, <3>3
      <4>2. ASSUME NEW k \in DOMAIN ms[i].uses
            PROVE  i + k <= Len(ms) /\ ms[i + k].results = <<ms[i].uses[k]>>
        <5>1. k \in 1..Len(h[j].calls) /\ k \in DOMAIN h[j].calls /\ ms[i].uses[k] = h[j].calls[k].id
          BY <3>e, <4>1, IdsType
        <5>2. j + k <= N /\ h[j + k].role = "tool" /\ h[j + k].id = h[j].calls[k].id
          BY <3>1, <3>3, <5>1 DEF Answered, Answers, N
        <5>3. j + k \in 1..N /\ (j + k) + 1 = i + k /\ i + k <= N + 1 /\ h[j + k] \in Entry
          <6>1. k \in Nat /\ k >= 1
            BY <3>e, <5>1
          <6>2. j + k \in 1..N /\ (j + k) + 1 = i + k /\ i + k <= N + 1
            BY <1>0, <3>1, <5>2, <6>1
          <6> QED BY <1>0, <6>2
        <5>4. ms[i + k].results = <<h[j + k].id>>
          <6>1. ms[(j + k) + 1] = OpenAiMessage(h[j + k])
            BY <1>1, <5>3
          <6> QED BY <1>2, <5>2, <5>3, <6>1
        <5> QED BY <1>1, <5>1, <5>2, <5>3, <5>4
      <4> QED BY <4>1, <4>2
    <3>4. CASE h[j].role = "tool"
      <4>1. ms[i].uses = <<>>
        BY <1>2, <3>1, <3>4
      <4>2. PICK p \in 1..(j - 1) : h[p].role = "assistant" /\ j - p <= Len(h[p].calls)
        BY <1>0, <3>1, <3>4 DEF Answered, Called
      <4>3. /\ p \in 1..N /\ p + 1 \in 1..(i - 1) /\ i - (p + 1) = j - p /\ h[p] \in Entry
            /\ h[p].calls \in Seq(Call)
        BY <1>0, <3>1, EntryFields
      <4>4. ms[p + 1].role = "assistant" /\ ms[p + 1].uses = Ids(h[p].calls)
        BY <1>1, <1>2, <4>2, <4>3
      <4>5. Len(ms[p + 1].uses) = Len(h[p].calls)
        BY <4>3, <4>4, IdsType
      <4> QED BY <4>1, <4>2, <4>3, <4>4, <4>5
    <3> QED BY <3>e, <3>2, <3>3, <3>4
  <2> QED BY <2>1, <2>2
<1>5. OpenAiAccepts(ms)
  BY <1>1, <1>4 DEF OpenAiAccepts
<1> QED BY <1>5 DEF ms, s, OpenAiMessages

(* The invariant: while a batch waits, everything but it is answered; else   *)
(* all is, and the user may speak; and what a request was sent with, or will *)
(* be gone on with once it is taken, ends with the user's word.              *)
Chat == AnthropicMessages(history)
ChatInv ==
  /\ history \in Seq(Entry) /\ Alternates(Chat)
  /\ pending.id # 0 =>
       /\ active /\ completed = NoOutcome /\ pending.calls \in Seq(Call) \ {<<>>}
       /\ EndsAs(Chat, "assistant", Ids(pending.calls))
       /\ history # <<>> /\ Last(history) = Said("assistant", pending.calls, "none")
       /\ Answered(history, Len(history) - 1)
  /\ pending.id = 0 => Awaits(Chat) /\ Answered(history, Len(history))
  /\ active /\ (HttpRunning \/ completed # NoOutcome) => UserEnds(Chat)

\* It says what the property says: a request is built from what both providers take.
LEMMA ChatAccepted == ASSUME TurnInv, ChatInv PROVE HistoryAccepted
<1> SUFFICES ASSUME HttpRunning
             PROVE  IF settings.provider = "anthropic"
                    THEN AnthropicAccepts(AnthropicMessages(history))
                    ELSE OpenAiAccepts(OpenAiMessages(history))
  BY DEF HistoryAccepted
<1>1. active /\ pending.id = 0
  BY DEF TurnInv, OneRequest
<1>2. AnthropicAccepts(Chat)
  BY <1>1 DEF ChatInv, Alternates, UserEnds, AnthropicAccepts
<1>3. OpenAiAccepts(OpenAiMessages(history))
  BY <1>1, OpenAiTakes DEF ChatInv
<1> QED BY <1>2, <1>3 DEF Chat

\* It holds of the empty conversation.
LEMMA ChatBegins == ASSUME AiInit PROVE ChatInv
<1>1. history = <<>> /\ <<>> \in Seq(Entry) /\ pending.id = 0 /\ ~active
  BY NothingAsked DEF AiInit
<1>2. Chat = <<>>
  BY <1>1, MergesNone DEF Chat
<1>3. Alternates(<<>>) /\ Awaits(<<>>) /\ Answered(<<>>, Len(<<>>))
  BY DEF Alternates, Awaits, Answered
<1> QED BY <1>1, <1>2, <1>3 DEF ChatInv

\* A step that leaves the conversation, and at most drops what waited for nothing.
LEMMA ChatStays ==
  ASSUME ChatInv, history' = history, pending'.id = pending.id,
         pending.id # 0 => pending'.calls = pending.calls /\ active' /\ completed' = NoOutcome,
         active' /\ (HttpRunning' \/ completed' # NoOutcome)
           => active /\ (HttpRunning \/ completed # NoOutcome)
  PROVE  ChatInv'
<1>1. Chat' = Chat
  BY DEF Chat
<1>2. pending.id # 0 => /\ pending'.calls \in Seq(Call) \ {<<>>}
                        /\ EndsAs(Chat, "assistant", Ids(pending'.calls))
                        /\ history # <<>> /\ Last(history) = Said("assistant", pending'.calls, "none")
                        /\ Answered(history, Len(history) - 1)
  BY DEF ChatInv
<1>3. history \in Seq(Entry) /\ Alternates(Chat)
      /\ (pending.id = 0 => Awaits(Chat) /\ Answered(history, Len(history)))
      /\ (active /\ (HttpRunning \/ completed # NoOutcome) => UserEnds(Chat))
  BY DEF ChatInv
<1> QED BY <1>1, <1>2, <1>3 DEF ChatInv

\* A step that brings the conversation to the user's word.
LEMMA ChatGoesOn ==
  ASSUME history' \in Seq(Entry), pending'.id = 0, Alternates(AnthropicMessages(history')),
         UserEnds(AnthropicMessages(history')), Answered(history', Len(history'))
  PROVE  ChatInv'
<1>1. Chat' = AnthropicMessages(history')
  BY DEF Chat
<1> QED BY <1>1 DEF ChatInv, Awaits

\* What launch_locked does to the conversation.
LEMMA Launched ==
  ASSUME NEW w, NEW h, NEW g, NEW r, LaunchRequest(w, h, g, r)
  PROVE  history' = h /\ pending'.id = 0
<1>1. pending' = NoPending /\ history' = h
  BY DEF LaunchRequest, Fail, Finish
<1> QED BY <1>1, NothingAsked

\* The results of the batch that waits.
LEMMA BatchResults ==
  ASSUME ChatInv, pending.id # 0
  PROVE  LET q == history \o Results(pending.calls)
         IN /\ q \in Seq(Entry) /\ Answered(q, Len(q))
            /\ Alternates(AnthropicMessages(q)) /\ UserEnds(AnthropicMessages(q))
<1>1. /\ history \in Seq(Entry) /\ history # <<>> /\ Last(history) = Said("assistant", pending.calls, "none")
      /\ Answered(history, Len(history) - 1) /\ pending.calls \in Seq(Call) \ {<<>>}
      /\ Alternates(AnthropicMessages(history))
      /\ EndsAs(AnthropicMessages(history), "assistant", Ids(pending.calls))
  BY DEF ChatInv, Chat
<1> QED BY <1>1, ToolsAnswer, ToolsSpeak

\* What the user and the assistant say are entries.
LEMMA SaidEntry ==
  ASSUME NEW role \in {"user", "assistant"}, NEW calls \in Seq(Call)
  PROVE  Said(role, calls, "none") \in Entry
<1>1. "none" \in Ident
  BY DEF Ident
<1>2. role \in {"user", "assistant", "tool"}
  OBVIOUS
<1>3. [role |-> role, calls |-> calls, id |-> "none"]
        \in [role : {"user", "assistant", "tool"}, calls : Seq(Call), id : Ident]
  BY <1>1, <1>2, Zenon
<1> QED BY <1>3, Zenon DEF Said, Entry

\* The user says something.
LEMMA SubmitChat == ASSUME TurnInv, ChatInv, NEW s \in Sendings, Submit(s) PROVE ChatInv'
<1> DEFINE e == Said("user", <<>>, "none")
<1>1. e \in Entry /\ e.role = "user" /\ e.calls = <<>>
  <2>1. <<>> \in Seq(Call)
    OBVIOUS
  <2>2. e \in Entry
    BY <2>1, SaidEntry
  <2>3. e.role = "user" /\ e.calls = <<>>
    BY DEF Said
  <2> QED BY <2>2, <2>3
<1>2. history' = Append(history, e) /\ pending'.id = 0
  BY Launched DEF Submit
<1>3. ~active
  BY DEF Submit
<1> HIDE DEF e
<1>4. history \in Seq(Entry) /\ Alternates(Chat) /\ Awaits(Chat) /\ Answered(history, Len(history))
  BY <1>3 DEF ChatInv
<1>5. /\ Alternates(AnthropicMessages(Append(history, e)))
      /\ UserEnds(AnthropicMessages(Append(history, e)))
  BY <1>1, <1>4, UserSpeaks DEF Chat
<1>6. Append(history, e) \in Seq(Entry) /\ Answered(Append(history, e), Len(Append(history, e)))
  BY <1>1, <1>4, SaidMore
<1> QED BY <1>2, <1>5, <1>6, ChatGoesOn

\* The conversation is dropped.
LEMMA ClearChat == ASSUME ChatInv, Clear PROVE ChatInv'
<1>1. history' = <<>> /\ <<>> \in Seq(Entry) /\ pending'.id = 0 /\ ~active'
  BY NothingAsked DEF Clear
<1>2. Chat' = <<>>
  BY <1>1, MergesNone DEF Chat
<1>3. Alternates(<<>>) /\ Awaits(<<>>) /\ Answered(<<>>, Len(<<>>))
  BY DEF Alternates, Awaits, Answered
<1> QED BY <1>1, <1>2, <1>3 DEF ChatInv

\* Stop drops what is on its way, or answers the batch that waits.
LEMMA StopChat == ASSUME TurnInv, ChatInv, StopSection PROVE ChatInv'
<1>1. CASE HttpRunning
  BY <1>1, ChatStays DEF StopSection, HttpRunning, ChatInv
<1>2. CASE ~HttpRunning /\ pending.id # 0
  <2>1. history' = history \o Results(pending.calls) /\ pending'.id = 0
    BY <1>2, NothingAsked DEF StopSection, Stopped, Finish
  <2> QED BY <1>2, <2>1, BatchResults, ChatGoesOn
<1>3. CASE ~HttpRunning /\ pending.id = 0
  <2>1. history' = history /\ pending'.id = 0 /\ ~active'
    BY <1>3, NothingAsked DEF StopSection, Stopped, Finish
  <2> QED BY <1>3, <2>1, ChatStays
<1> QED BY <1>1, <1>2, <1>3

\* The assistant's answer: it asks for nothing more, or for a batch.
LEMMA AnswerChat ==
  ASSUME ChatInv, Take, NEW calls \in Seq(Call), history' = Append(history, Assistant(calls)),
         \/ calls = <<>> /\ pending'.id = 0 /\ active' = FALSE
         \/ /\ calls # <<>> /\ pending'.id # 0 /\ pending'.calls = calls /\ active'
            /\ ~HttpRunning'
  PROVE  ChatInv'
<1> DEFINE e == Assistant(calls)
           q == Append(history, e)
<1>1. e \in Entry /\ e.role = "assistant" /\ e.calls = calls
  <2>1. e \in Entry
    BY SaidEntry DEF Assistant
  <2>2. e.role = "assistant" /\ e.calls = calls
    BY DEF Assistant, Said
  <2> QED BY <2>1, <2>2
<1>2. completed # NoOutcome /\ active /\ completed' = NoOutcome
  BY DEF Take
<1>3. history \in Seq(Entry) /\ Alternates(Chat) /\ UserEnds(Chat) /\ Answered(history, Len(history))
  BY <1>2 DEF ChatInv
<1> HIDE DEF e
<1>4. Alternates(AnthropicMessages(q)) /\ EndsAs(AnthropicMessages(q), "assistant", Ids(calls))
  BY <1>1, <1>3, AssistantSpeaks DEF Chat
<1>5. /\ q \in Seq(Entry) /\ q # <<>> /\ Last(q) = e /\ Answered(q, Len(q) - 1)
      /\ calls = <<>> => Answered(q, Len(q))
  BY <1>1, <1>3, SaidMore
<1>6. history' = q /\ Chat' = AnthropicMessages(q)
  BY DEF Chat, e
<1> HIDE DEF q
<1>7. CASE calls = <<>> /\ pending'.id = 0 /\ active' = FALSE
  <2>1. Ids(<<>>) = <<>>
    BY DEF Ids
  <2> QED BY <1>4, <1>5, <1>6, <1>7, <2>1 DEF ChatInv, Awaits
<1>8. CASE calls # <<>> /\ pending'.id # 0 /\ pending'.calls = calls /\ active' /\ ~HttpRunning'
  <2>1. Last(q) = Said("assistant", pending'.calls, "none")
    BY <1>5, <1>8 DEF e, Assistant
  <2> QED BY <1>2, <1>4, <1>5, <1>6, <1>8, <2>1 DEF ChatInv
<1> QED BY <1>7, <1>8

\* The answer asks for nothing more.
LEMMA FinishedChat == ASSUME TurnInv, ChatInv, PumpFinished PROVE ChatInv'
<1>1. <<>> \in Seq(Call) /\ pending'.id = 0 /\ active' = FALSE
  BY NothingAsked DEF PumpFinished, Finish
<1> QED BY <1>1, AnswerChat DEF PumpFinished

\* The answer asks for a batch within the limits.
LEMMA AcceptsChat == ASSUME TurnInv, ChatInv, PumpAccepts PROVE ChatInv'
<1>1. Take /\ completed.calls # <<>> /\ history' = Append(history, Assistant(completed.calls))
  BY DEF PumpAccepts, Asking
<1>2. completed.calls \in Seq(Call)
  BY AnswerCalls DEF TurnInv, TurnOK, Call
<1>3. pending'.id = nextApproval /\ pending'.calls = completed.calls
  BY DEF PumpAccepts
<1>4. nextApproval # 0
  BY DEF TurnInv, TurnOK
<1>5. active' /\ ~HttpRunning'
  BY DEF PumpAccepts, Asking, Take, Kept, HttpRunning, TurnInv, OneRequest
<1> QED BY <1>1, <1>2, <1>3, <1>4, <1>5, AnswerChat

\* A decided batch is answered, and the conversation goes on.
LEMMA DecidedChat == ASSUME TurnInv, ChatInv, PumpDenied \/ PumpRuns PROVE ChatInv'
<1>1. pending.id # 0
  BY DEF PumpDenied, PumpRuns, Decided, TurnInv, Batches
<1>2. history' = history \o Results(pending.calls) /\ pending'.id = 0
  BY Launched DEF PumpDenied, PumpRuns
<1> QED BY <1>1, <1>2, BatchResults, ChatGoesOn

\* A cancelled, failed or refused answer is dropped.
LEMMA EndsChat == ASSUME TurnInv, ChatInv, PumpCancelled \/ PumpFailed \/ PumpRefused PROVE ChatInv'
<1>1. completed # NoOutcome /\ history' = history /\ active' = FALSE /\ pending'.id = 0
  BY NothingAsked DEF PumpCancelled, PumpFailed, PumpRefused, Asking, Take, Fail, Finish
<1>2. pending.id = 0
  BY <1>1 DEF ChatInv
<1> QED BY <1>1, <1>2, ChatStays

\* The outcome of the worker is handed over, or is of no turn.
LEMMA WorkerEndsChat == ASSUME TurnInv, ChatInv, WorkerEnds PROVE ChatInv'
<1>1. HttpRunning /\ active /\ pending.id = 0
  BY DEF WorkerEnds, HttpRunning, TurnInv, OneRequest
<1> QED BY <1>1, ChatStays DEF WorkerEnds

\* The other steps leave the conversation.
LEMMA QuietChat ==
  ASSUME TurnInv, ChatInv,
         \/ \E d \in {"allow", "deny"} : Decide(d)
         \/ StopTurn \/ NoClick \/ Reap \/ PumpNothing \/ WorkerReturns \/ UNCHANGED aiVars
  PROVE  ChatInv'
<1>1. /\ history' = history /\ active' = active /\ completed' = completed
      /\ HttpRunning' = HttpRunning
  BY DEF Decide, StopTurn, NoClick, Reap, Reaped, PumpNothing, WorkerReturns, aiVars, HttpRunning
<1>2. pending'.id = pending.id /\ pending'.calls = pending.calls
  <2>1. ASSUME NEW d, Decide(d) PROVE pending'.id = pending.id /\ pending'.calls = pending.calls
    <3>1. Request(pending)
      BY DEF TurnInv, TurnOK
    <3> QED BY <2>1, <3>1 DEF Decide, Request, Asked
  <2> QED BY <2>1 DEF StopTurn, NoClick, Reap, PumpNothing, WorkerReturns, aiVars
<1> QED BY <1>1, <1>2, ChatStays DEF ChatInv

\* Every step of the controller preserves it.
LEMMA ChatStep == ASSUME TurnInv, ChatInv, [AiNext]_aiVars PROVE ChatInv'
BY SubmitChat, ClearChat, StopChat, FinishedChat, AcceptsChat, DecidedChat, EndsChat,
   WorkerEndsChat, QuietChat
   DEF AiNext, AiOwner, Pump, Click

(* No request is sent whose history the provider would refuse, in either   *)
(* form, however many turns were stopped, denied or failed before it       *)
(* (openai_messages, anthropic_messages, append_tool_result_locked).       *)
THEOREM HistoriesAccepted == AiSpec => []HistoryAccepted
<1> QED BY TurnStarts, TurnStep, ChatBegins, ChatStep, ChatAccepted, PTL DEF AiSpec

=============================================================================
