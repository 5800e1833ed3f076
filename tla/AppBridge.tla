------------------------------ MODULE AppBridge ------------------------------
(* The desktop application as an MCP server, and the stdio servers that      *)
(* forward to it. A serving thread owns one instance of a named pipe and     *)
(* takes one connection at a time; the owner's thread executes what it       *)
(* queues. A stdio server finds the application or falls back, once and for  *)
(* all, to a fleet of its own. Requests are told apart by client and number. *)
EXTENDS Integers, Sequences, FiniteSets

CONSTANTS Clients,      \* stdio servers, one MCP client each
          MaxRequests,  \* bound: requests of one client
          MaxStarts     \* bound: times the application is started

ASSUME BridgeBoundsAssumption == MaxRequests \in Nat /\ MaxStarts \in Nat

Nobody == "nobody"
Wake == "wake"
ASSUME BridgeNamesAssumption == Nobody \notin Clients /\ Wake \notin Clients

VARIABLES app,       \* main: "down", "up", "stopping", "joining"
          running, listening,
          server,    \* where the serving thread is
          pipe,      \* the instance: "none", "fresh", "listening", "taken", "disconnected"
          peer,      \* who is connected to it
          inbox,     \* the request in the pipe, if any
          outbox,    \* an answer nobody has read yet
          queue,     \* requests for the owner's thread
          ready,     \* the future the serving thread waits for
          missed,    \* history: stop() could not wake the serving thread
          client,    \* per stdio server: where it is, its route, its request
          ran,       \* history: per client, its requests executed, and where
          starts

bridgeVars == <<app, running, listening, server, pipe, peer, inbox, outbox, queue, ready,
                missed, client, ran, starts>>
appVars == <<app, running, listening, server, queue, ready, missed, starts>>
pipeVars == <<pipe, peer, inbox, outbox>>
clientVars == <<client, ran>>

\* NXRTH_MCP_MODE "auto" or "app"; a "headless" server never looks for the application.
Start(mode) == [pc |-> "idle", mode |-> mode, n |-> 0, route |-> "undecided"]
Request(c) == [by |-> c, n |-> client[c].n]
Runs(c, n, where) == [ran EXCEPT ![c] = Append(@, [n |-> n, where |-> where])]

BridgeInit ==
  /\ app = "down" /\ running = FALSE /\ listening = FALSE /\ server = "ended"
  /\ pipe = "none" /\ peer = Nobody /\ inbox = <<>> /\ outbox = FALSE
  /\ queue = <<>> /\ ready = FALSE /\ missed = FALSE
  /\ client \in [Clients -> {Start(m) : m \in {"auto", "app"}}]
  /\ ran = [c \in Clients |-> <<>>] /\ starts = 0

----------------------------------------------------------------------------
(* The application                                                           *)

AppStarts ==
  /\ app = "down" /\ starts < MaxStarts
  /\ app' = "up" /\ running' = TRUE /\ server' = "create" /\ starts' = starts + 1
  /\ queue' = <<>> /\ ready' = FALSE /\ missed' = FALSE
  /\ UNCHANGED <<listening, pipeVars, clientVars>>

\* pump: the owner's thread handles what is queued; what a request throws is sent back as well.
BridgePump ==
  /\ app = "up" /\ queue # <<>>
  /\ ran' = Runs(Head(queue).by, Head(queue).n, "desktop")
  /\ queue' = Tail(queue) /\ ready' = TRUE
  /\ UNCHANGED <<app, running, listening, server, missed, starts, pipeVars, client>>

\* stop(): the flag, then a connection of its own if the thread may be waiting for one.
StopBegins ==
  /\ app = "up"
  /\ app' = IF running THEN "stopping" ELSE "joining"
  /\ running' = FALSE
  /\ UNCHANGED <<listening, server, queue, ready, missed, starts, pipeVars, clientVars>>
Connectable == pipe \in {"fresh", "listening"}
StopWakes ==
  /\ app = "stopping" /\ app' = "joining"
  /\ IF Connectable THEN pipe' = "taken" /\ peer' = Wake /\ inbox' = <<>> /\ UNCHANGED missed
     ELSE missed' = (server = "connect") /\ UNCHANGED <<pipe, peer, inbox>>
  /\ UNCHANGED <<running, listening, server, queue, ready, starts, outbox, clientVars>>
StopJoins ==
  /\ app = "joining" /\ server = "ended"
  /\ app' = "down" /\ queue' = <<>>
  /\ UNCHANGED <<running, listening, server, ready, missed, starts, pipeVars, clientVars>>

----------------------------------------------------------------------------
(* serve()                                                                   *)

ServerCreates ==
  /\ server = "create"
  /\ \/ /\ server' = "loop" /\ listening' = TRUE /\ pipe' = "fresh" /\ UNCHANGED running
     \/ /\ server' = "ended" /\ running' = FALSE /\ UNCHANGED <<listening, pipe>>
  /\ UNCHANGED <<app, queue, ready, missed, starts, peer, inbox, outbox, clientVars>>
\* The handle is closed when the thread's function returns.
ServerLoops ==
  /\ server = "loop"
  /\ IF running THEN server' = "connect" /\ UNCHANGED <<listening, pipeVars>>
     ELSE /\ server' = "ended" /\ listening' = FALSE
          /\ pipe' = "none" /\ peer' = Nobody /\ inbox' = <<>> /\ outbox' = FALSE
  /\ UNCHANGED <<app, running, queue, ready, missed, starts, clientVars>>
\* ConnectNamedPipe: a client that came while the instance was new is taken at once.
ServerConnects ==
  /\ server = "connect"
  /\ server' = IF pipe = "taken" THEN "read" ELSE "accept"
  /\ pipe' = IF pipe = "taken" THEN pipe ELSE "listening"
  /\ UNCHANGED <<app, running, listening, queue, ready, missed, starts, peer, inbox, outbox,
                 clientVars>>
ServerAccepts ==
  /\ server = "accept" /\ pipe = "taken" /\ server' = "read"
  /\ UNCHANGED <<app, running, listening, queue, ready, missed, starts, pipeVars, clientVars>>
\* read_line_polling: until a line, the peer's end, or stop().
ServerReads ==
  /\ server = "read"
  /\ \/ /\ running /\ inbox # <<>>
        /\ queue' = queue \o inbox
        /\ ready' = FALSE /\ inbox' = <<>> /\ server' = "wait"
     \/ /\ ~running \/ peer = Nobody
        /\ server' = "close" /\ UNCHANGED <<queue, ready, inbox>>
  /\ UNCHANGED <<app, running, listening, missed, starts, pipe, peer, outbox, clientVars>>
\* The wait for the future ends with it or with stop(), and only the former is answered.
ServerWaits ==
  /\ server = "wait" /\ (ready \/ ~running)
  /\ server' = "close"
  /\ outbox' = (running /\ peer # Nobody)
  /\ UNCHANGED <<app, running, listening, queue, ready, missed, starts, pipe, peer, inbox,
                 clientVars>>
\* Mutant of ServerCloses: the answered connection is left to its client to close.
ServerLeavesOpen ==
  /\ server = "close" /\ peer = Nobody
  /\ server' = "loop"
  /\ pipe' = "disconnected" /\ inbox' = <<>> /\ outbox' = FALSE
  /\ UNCHANGED <<app, running, listening, queue, ready, missed, starts, peer, clientVars>>
\* FlushFileBuffers waits for the peer to read, DisconnectNamedPipe drops it.
ServerCloses ==
  /\ server = "close" /\ ~(outbox /\ peer # Nobody)
  /\ server' = "loop"
  /\ pipe' = "disconnected" /\ peer' = Nobody /\ inbox' = <<>> /\ outbox' = FALSE
  /\ UNCHANGED <<app, running, listening, queue, ready, missed, starts, clientVars>>

----------------------------------------------------------------------------
(* run_stdio_server and forward_request_to_app                               *)

At(c, pc) == client[c].pc = pc
Goes(c, pc) == client' = [client EXCEPT ![c].pc = pc]

\* The next line of input; a headless server executes it itself.
Reads(c) ==
  /\ At(c, "idle") /\ client[c].n < MaxRequests
  /\ LET own == client[c].route = "headless" IN
       /\ client' = [client EXCEPT ![c].n = @ + 1, ![c].pc = IF own THEN "idle" ELSE "waiting"]
       /\ ran' = IF own THEN Runs(c, client[c].n + 1, "headless") ELSE ran
  /\ UNCHANGED <<appVars, pipeVars>>

\* forward_request_to_app returns false: only an undecided server may go on without the app.
NotForwarded(c) ==
  LET own == client[c].route = "undecided" /\ client[c].mode # "app" IN
    /\ client' = [client EXCEPT ![c].pc = "idle", ![c].route = IF own THEN "headless" ELSE @]
    /\ ran' = IF own THEN Runs(c, client[c].n, "headless") ELSE ran
\* It throws: the client is told, the route stays what it was.
Throws(c) == Goes(c, "idle") /\ UNCHANGED ran

\* WaitNamedPipe: five seconds for an instance to be free.
ClientFinds(c) ==
  /\ At(c, "waiting") /\ Connectable /\ Goes(c, "opening")
  /\ UNCHANGED <<appVars, pipeVars, ran>>
ClientFindsNone(c) ==
  /\ At(c, "waiting") /\ ~Connectable
  /\ NotForwarded(c)
  /\ UNCHANGED <<appVars, pipeVars>>
ClientOpens(c) ==
  /\ At(c, "opening") /\ Connectable
  /\ pipe' = "taken" /\ peer' = c /\ Goes(c, "opened")
  /\ UNCHANGED <<appVars, inbox, outbox, ran>>
ClientBeaten(c) ==
  /\ At(c, "opening") /\ ~Connectable
  /\ NotForwarded(c)
  /\ UNCHANGED <<appVars, pipeVars>>
ClientWrites(c) ==
  /\ At(c, "opened")
  /\ IF peer = c THEN inbox' = <<Request(c)>> /\ Goes(c, "reading") /\ UNCHANGED ran
     ELSE Throws(c) /\ UNCHANGED inbox
  /\ UNCHANGED <<appVars, pipe, peer, outbox>>
\* A response, or the envelope of an error, which makes the forward throw.
ClientAnswered(c) ==
  /\ At(c, "reading") /\ peer = c /\ outbox
  /\ outbox' = FALSE
  /\ \/ client' = [client EXCEPT ![c].pc = "idle", ![c].route = "desktop"] /\ UNCHANGED ran
     \/ Throws(c)
  /\ UNCHANGED <<appVars, pipe, peer, inbox>>
\* Mutant of ClientUnanswered: a closed connection is taken for an absent application.
ClientUnansweredFallsBack(c) ==
  /\ At(c, "reading") /\ peer # c
  /\ NotForwarded(c)
  /\ UNCHANGED <<appVars, pipeVars>>
ClientUnanswered(c) ==
  /\ At(c, "reading") /\ peer # c
  /\ Throws(c)
  /\ UNCHANGED <<appVars, pipeVars>>
\* A client is killed at any point, and its end of the pipe closed. (What it was told to do
\* matters no more, and is forgotten to keep the state space small.)
ClientDies(c) ==
  /\ ~At(c, "dead")
  /\ client' = [client EXCEPT ![c].pc = "dead", ![c].mode = "app"]
  /\ peer' = IF peer = c THEN Nobody ELSE peer
  /\ UNCHANGED <<appVars, pipe, inbox, outbox, ran>>

Owner == BridgePump \/ StopWakes \/ StopJoins
Server == \/ ServerCreates \/ ServerLoops \/ ServerConnects \/ ServerAccepts \/ ServerReads
          \/ ServerWaits \/ ServerCloses
Forward(c) == \/ ClientFinds(c) \/ ClientFindsNone(c) \/ ClientOpens(c) \/ ClientBeaten(c)
              \/ ClientWrites(c) \/ ClientAnswered(c) \/ ClientUnanswered(c)
BridgeNext == \/ AppStarts \/ StopBegins \/ Owner \/ Server
              \/ \E c \in Clients : Reads(c) \/ Forward(c) \/ ClientDies(c)
\* The owner draws frames and threads run; the rest is up to the users.
BridgeFairness == /\ WF_bridgeVars(Owner) /\ WF_bridgeVars(Server)
                  /\ \A c \in Clients : WF_bridgeVars(Forward(c))
BridgeSpec == BridgeInit /\ [][BridgeNext]_bridgeVars /\ BridgeFairness

----------------------------------------------------------------------------
(* Properties                                                                *)

\* A request is executed at most once, by the application or by a fleet of the client's own,
\* whoever died or stopped while it was on its way.
RequestsRunOnce == \A c \in Clients : \A i, j \in DOMAIN ran[c] : ran[c][i].n = ran[c][j].n => i = j

\* The refinement: a stdio server keeps the promises of Exchange. A request whose client has died
\* may still be executed while it is in the pipe, or queued in an application that pumps.
Due(c) == \/ \E i \in DOMAIN inbox : inbox[i].by = c
          \/ app = "up" /\ \E i \in DOMAIN queue : queue[i].by = c
Served(c) == \E i \in DOMAIN ran[c] : ran[c][i].n = client[c].n
Stage(c) == CASE At(c, "idle") -> "idle"
                 [] At(c, "dead") -> IF Due(c) THEN "orphaned" ELSE "dead"
                 [] OTHER -> IF Served(c) THEN "served" ELSE "asked"
X == INSTANCE Exchange WITH Callers <- Clients, state <- [c \in Clients |-> Stage(c)],
       number <- [c \in Clients |-> client[c].n], fleet <- [c \in Clients |-> client[c].route]
ImplementsExchange == X!ExchangeSpec

\* "So callers do not silently split work into a second headless fleet" (app_bridge.h:42): once a
\* server has executed a request by itself, the application executes none of its client's.
WorkNotSplit == \A c \in Clients : \A i, j \in DOMAIN ran[c] :
                  i < j /\ ran[c][i].where = "headless" => ran[c][j].where = "headless"

\* Every forwarded request comes to an end, and no answer is one to another request.
ForwardsEnd == \A c \in Clients : client[c].pc \in {"waiting", "opening", "opened", "reading"}
                                    ~> client[c].pc \in {"idle", "dead"}

\* What app_bridge.h:41 says of forward_request_to_app: it returns false only when the desktop
\* application is not listening.
FalseOnlyIfAway ==
  [][\A c \in Clients : client[c].route = "undecided" /\ client'[c].route = "headless"
                          => ~listening]_bridgeVars
=============================================================================
