-------------------------------- MODULE Login --------------------------------
(* How bots get a login token and dial the gateway with it. A conversation   *)
(* over HTTP mints the token, which is bound to the exit it came from; a bot *)
(* with a bypass pool must log on through that exit. Each bot is a thread;   *)
(* the bypass pool's cursor, the quarantine and the file of the accounts'    *)
(* devices are shared. HTTP requests time out; what they answer is a choice. *)
EXTENDS Naturals, Sequences, SequencesExt

CONSTANTS Bots,       \* one account each
          NoBot,
          Hows,       \* how they may be started: kind of credential, whether by the
                      \* bypass pool, and the game exit they are given
          Pool,       \* the bypass pool, as configured
          Games,      \* the exits of the game proxy pool
          NoExit,     \* no proxy: the real IP
          Flaky,      \* entries of the pool whose name may fail to resolve
          MaxLogins,  \* bound: logins of each bot
          MaxFaults   \* bound: crashes, failed writes, and exits the game rejects
Exits == Range(Pool) \cup Games
ASSUME LoginAssumption ==
  /\ NoBot \notin Bots /\ NoExit \notin Exits /\ Range(Pool) \cap Games = {} /\ Pool # <<>>
  /\ Hows \subseteq [Bots -> [kind : {"legacy", "provider", "google"}, rotating : BOOLEAN, proxy : Games \cup {NoExit}]]
  /\ Flaky \subseteq Range(Pool) /\ MaxLogins \in [Bots -> Nat] /\ MaxFaults \in Nat

VARIABLES
  how,         \* how each bot is started
  at,          \* where its thread is
  born,        \* its Bot object exists: this is not its first login
  picks, fall, \* inside login_session: picks made, and the fallback
  via,         \* the exit of the HTTP requests under way: login_session's, or
               \* current_game_proxy
  token,       \* the exit that minted ltoken_
  pin,         \* bypass_enet_
  addr,        \* server_addr_ is known
  game, host,  \* proxy_, and the exit host_ is bound to
  stop,        \* the stop flag
  rr, quarantined,  \* LOGIN_PROXY_RR, the quarantine store
  file,        \* account_devices.json: account -> device; a torn file reads as empty
  lock, read,  \* who is inside get_or_create, and the store each has read
  ident,       \* the device the game has seen of each account, 0 before the first
  lost,        \* a write of the file was cut short, or it could not be read
  logins, faults  \* bounds
attempt == <<picks, fall, via>>
logon   == <<born, token, pin, addr, host>>
devices == <<file, lock, read, ident, lost>>
shared  == <<rr, quarantined>>
bounds  == <<logins, faults>>
loginVars == <<how, at, attempt, logon, game, stop, shared, devices, bounds>>

NoDevices == [a \in {} |-> 0]
Every(x) == [b \in Bots |-> x]
LoginInit ==
  /\ how \in Hows /\ at = Every("attempt") /\ stop = Every(FALSE)
  /\ picks = Every(0) /\ fall = Every(NoExit)
  /\ game = [b \in Bots |-> how[b].proxy] /\ via = game /\ host = Every(NoExit)
  /\ born = Every(FALSE) /\ token = Every(NoExit) /\ pin = Every(NoExit) /\ addr = Every(FALSE)
  /\ rr = 0 /\ quarantined = {}
  /\ file = NoDevices /\ lock = NoBot /\ read = Every(NoDevices) /\ ident = Every(0) /\ lost = FALSE
  /\ logins = Every(1) /\ faults = 0

Legacy(b) == how[b].kind = "legacy"
Google(b) == how[b].kind = "google"
\* A google token never logs in by the bypass pool.
ByPool(b) == how[b].rotating /\ ~Google(b)

To(b, where) == at' = [at EXCEPT ![b] = where]
\* The thread ends, and with it the bot.
Ends(b) == /\ To(b, "off") /\ game' = [game EXCEPT ![b] = how[b].proxy] /\ via' = [via EXCEPT ![b] = how[b].proxy]
           /\ born' = [born EXCEPT ![b] = FALSE] /\ addr' = [addr EXCEPT ![b] = FALSE]
           /\ token' = [token EXCEPT ![b] = NoExit] /\ pin' = [pin EXCEPT ![b] = NoExit] /\ host' = [host EXCEPT ![b] = NoExit]
           /\ UNCHANGED <<how, picks, fall, stop, shared, devices, bounds>>
\* A step of a conversation that changes nothing but where the thread is
Walks(b, where) == To(b, where) /\ UNCHANGED <<how, attempt, logon, game, stop, shared, devices, bounds>>
Fails == faults < MaxFaults /\ faults' = faults + 1 /\ UNCHANGED logins

----------------------------------------------------------------------------
(* An exit for the requests                                                  *)

\* Every attempt begins with a look at the stop flag.
Aborts(b) == at[b] = "attempt" /\ stop[b] /\ Ends(b)
Begin(b) ==
  /\ at[b] = "attempt" /\ ~stop[b] /\ To(b, IF ByPool(b) THEN "pick" ELSE "server")
  /\ via' = [via EXCEPT ![b] = IF ByPool(b) THEN NoExit ELSE @]
  /\ UNCHANGED <<how, picks, fall, logon, game, stop, shared, devices, bounds>>

\* login_session: one pick with the cursor that all bots advance
Picked(b, e) == /\ To(b, "server") /\ via' = [via EXCEPT ![b] = e]
                /\ picks' = [picks EXCEPT ![b] = 0] /\ fall' = [fall EXCEPT ![b] = NoExit]
Skips(b, kept) == /\ picks' = [picks EXCEPT ![b] = @ + 1] /\ fall' = [fall EXCEPT ![b] = kept] /\ UNCHANGED <<at, via>>
Pick(b) ==
  LET e == Pool[rr + 1]
  IN /\ at[b] = "pick" /\ picks[b] < 2 * Len(Pool) /\ rr' = (rr + 1) % Len(Pool)
     /\ \/ e \in Flaky /\ Skips(b, fall[b])
        \/ e \in quarantined /\ Skips(b, IF fall[b] = NoExit THEN e ELSE fall[b])
        \/ e \notin quarantined /\ Picked(b, e)
     /\ UNCHANGED <<how, logon, game, stop, quarantined, devices, bounds>>
\* No clean pick: the quarantined one. Without any a GrowID waits and tries
\* again; a provider's token goes on without a proxy.
FallsBack(b) ==
  /\ at[b] = "pick" /\ picks[b] = 2 * Len(Pool)
  /\ IF Legacy(b) /\ fall[b] = NoExit
     THEN To(b, "attempt") /\ picks' = [picks EXCEPT ![b] = 0] /\ UNCHANGED <<fall, via>>
     ELSE Picked(b, fall[b])
  /\ UNCHANGED <<how, logon, game, stop, shared, devices, bounds>>

----------------------------------------------------------------------------
(* What the servers answer                                                   *)

\* server_data of one host: no answer, a status of error, a number that does
\* not parse, a login field that is missing, the data, or data whose address
\* has a blank in it.
Replies == {"lost", "403", "error", "garbled", "lacking", "blank", "data"}
Parsed(reply) == reply \in {"lacking", "blank", "data"}
Usable(reply) == Parsed(reply) /\ reply # "lacking"
Candidate(first, second) == IF Usable(first) \/ first = "403" THEN first ELSE second
Candidates == {Candidate(first, second) : first, second \in Replies}

\* The dashboard's page: it does not load, it moved on, it names an error, or
\* it is read for GrowID's link. Four redirects are followed at most; one that
\* does not load leaves the page before it.
Pages == {"lost", "moved", "403", "error", "bare", "grow"}
Shown(pages) == pages[Min({i \in 1..5 : i = 5 \/ pages[i] # "moved" \/ pages[i + 1] = "lost"})]
Dashboards == {Shown(pages) : pages \in [1..5 -> Pages]}

\* The form: a page without its _token, or what comes back of it. A token
\* that is too short is no token.
Forms == {"lost", "unsigned", "403", "error", "short", "token", "exhausted", "mismatched", "other"}
Outcomes == {IF shown = "grow" THEN answer ELSE shown : shown \in Dashboards, answer \in Forms}
Terminal(answer) == answer \in {"exhausted", "mismatched"}

----------------------------------------------------------------------------
(* The conversation                                                          *)

\* next_game_proxy: a pool of one has no other exit.
Clean(bad) == {e \in Games \ (quarantined \cup {bad}) : Games # {e}}
\* HTTP 403: the next attempt picks another exit of the bypass pool; a game
\* exit is quarantined and replaced for this login, or the bot is stopped.
Refused(b) ==
  IF ByPool(b) \/ via[b] = NoExit THEN Walks(b, "attempt")
  ELSE /\ quarantined' = quarantined \cup {via[b]} /\ To(b, "attempt")
       /\ \/ \E e \in Clean(via[b]) : via' = [via EXCEPT ![b] = e] /\ UNCHANGED stop
          \/ Clean(via[b]) = {} /\ stop' = [stop EXCEPT ![b] = TRUE] /\ UNCHANGED via
       /\ UNCHANGED <<how, picks, fall, logon, game, rr, devices, bounds>>

\* server_data of the first host and, unless that is refused, of the second. A
\* token's login asks one host at a time; it ends if the address it is told
\* does not resolve.
AsksServer(b) ==
  /\ at[b] = "server"
  /\ \/ ~Legacy(b) /\ \E reply \in Replies :
                       \/ Usable(reply) /\ (Walks(b, "check") \/ Ends(b))
                       \/ ~Usable(reply) /\ Walks(b, "attempt")
     \/ Legacy(b) /\ \E answer \in Candidates :
                      \/ answer = "data" /\ Walks(b, "dashboard")
                      \/ answer = "403" /\ Refused(b)
                      \/ answer \notin {"data", "403"} /\ Walks(b, "attempt")
\* Wrong credentials and exhausted logins stop the bot, as the next attempt
\* sees.
GivesUp(b) == /\ To(b, "attempt") /\ stop' = [stop EXCEPT ![b] = TRUE]
              /\ UNCHANGED <<how, attempt, logon, game, shared, devices, bounds>>
\* The dashboard, then the GrowID page and its form
Dashboard(b) ==
  /\ at[b] = "dashboard"
  /\ \E answer \in Outcomes :
       \/ answer = "token" /\ Walks(b, "device")
       \/ answer = "403" /\ Refused(b)
       \/ Terminal(answer) /\ GivesUp(b)
       \/ ~Terminal(answer) /\ answer \notin {"token", "403"} /\ Walks(b, "attempt")
\* checktoken
Check(b) == at[b] = "check" /\ (Walks(b, "apply") \/ Ends(b))

----------------------------------------------------------------------------
(* The account's device                                                      *)

Shows(b, store) == ident' = [ident EXCEPT ![b] = store[b]]
WithNew(b, store) == [a \in DOMAIN store \cup {b} |-> IF a = b THEN logins[b] ELSE store[a]]
\* A known device is returned; for a new one the file is truncated first.
LooksUp(b) ==
  /\ IF b \in DOMAIN file
     THEN Shows(b, file) /\ To(b, "apply") /\ UNCHANGED <<file, lock, read, lost>>
     ELSE /\ To(b, "write") /\ lock' = b /\ read' = [read EXCEPT ![b] = file] /\ file' = NoDevices
          /\ UNCHANGED <<ident, lost>>
  /\ UNCHANGED <<how, attempt, logon, game, stop, shared, bounds>>
\* A file that cannot be opened reads as empty, and is overwritten as such.
LooksInVain(b) == /\ at[b] = "device" /\ lock = NoBot /\ file # NoDevices /\ Fails /\ lost' = TRUE
                  /\ To(b, "write") /\ lock' = b /\ read' = [read EXCEPT ![b] = NoDevices] /\ file' = NoDevices
                  /\ UNCHANGED <<how, attempt, logon, game, stop, shared, ident>>
DeviceUnlocked(b) == at[b] = "device" /\ LooksUp(b)
Device(b) == at[b] = "device" /\ lock = NoBot /\ LooksUp(b)
Unlocks(b) == To(b, "apply") /\ lock' = NoBot /\ read' = [read EXCEPT ![b] = NoDevices]
Write(b) == /\ at[b] = "write" /\ Unlocks(b)
            /\ file' = WithNew(b, read[b]) /\ Shows(b, file')
            /\ UNCHANGED <<how, attempt, logon, game, stop, shared, lost, bounds>>
\* A full disk: the login goes on with the shared default identity.
WriteFails(b) == /\ at[b] = "write" /\ Unlocks(b) /\ Fails /\ lost' = TRUE
                 /\ UNCHANGED <<how, attempt, logon, game, stop, shared, file, ident>>

----------------------------------------------------------------------------
(* The logon                                                                 *)

Binds(b, p) == host' = [host EXCEPT ![b] = IF p # NoExit THEN p ELSE game[b]]
KeepsPin(b) == pin' = [pin EXCEPT ![b] = IF born[b] THEN @ ELSE IF ByPool(b) THEN via[b] ELSE NoExit]
Repins(b) == pin' = [pin EXCEPT ![b] = IF ByPool(b) THEN via[b] ELSE NoExit]
\* The constructor, apply_credentials, and the ends of refresh_token: token,
\* pin and address are taken over and the gateway is dialled. A GrowID's
\* address may not resolve, then a new bot waits forever; a google token's
\* refresh has none. Both fetch server_data next.
Apply(b) ==
  /\ at[b] = "apply" /\ token' = [token EXCEPT ![b] = via[b]] /\ Repins(b)
  /\ born' = [born EXCEPT ![b] = TRUE]
  /\ \/ /\ ~(Google(b) /\ born[b]) /\ addr' = [addr EXCEPT ![b] = TRUE]
        /\ To(b, "up") /\ Binds(b, pin'[b])
     \/ /\ Legacy(b) \/ (Google(b) /\ born[b])
        /\ addr' = [addr EXCEPT ![b] = FALSE]
        /\ IF born[b] THEN To(b, "source") /\ UNCHANGED host ELSE To(b, "stranded") /\ Binds(b, pin'[b])
  /\ via' = [via EXCEPT ![b] = NoExit] /\ UNCHANGED <<how, picks, fall, game, stop, shared, devices, bounds>>

\* reconnect_main: a new host for the exit of the logon, then with the
\* token in hand to the known address, or after server_data
Redial(b) ==
  /\ at[b] = "down" /\ ~stop[b] /\ Binds(b, pin[b]) /\ To(b, IF addr[b] THEN "up" ELSE "source")
  /\ UNCHANGED <<how, attempt, born, token, pin, addr, game, stop, shared, devices, bounds>>
\* or after refresh_token, by the exits the bot has then.
Refresh(b) ==
  /\ at[b] \in {"down", "due"} /\ ~stop[b] /\ logins[b] < MaxLogins[b]
  /\ logins' = [logins EXCEPT ![b] = @ + 1] /\ UNCHANGED faults
  /\ Binds(b, pin[b]) /\ addr' = [addr EXCEPT ![b] = FALSE]
  /\ via' = [via EXCEPT ![b] = game[b]]
  /\ To(b, IF Google(b) THEN "check" ELSE "attempt")
  /\ UNCHANGED <<how, picks, fall, born, token, pin, game, stop, shared, devices>>
\* fresh_url: one more pick, whatever it is
Source(b) ==
  /\ at[b] = "source"
  /\ \/ stop[b] /\ Ends(b)
     \/ /\ ~stop[b] /\ To(b, "fetch") /\ rr' = IF ByPool(b) THEN (rr + 1) % Len(Pool) ELSE rr
        /\ UNCHANGED <<how, attempt, logon, game, stop, quarantined, devices, bounds>>
Fetched(b) == /\ To(b, "up") /\ addr' = [addr EXCEPT ![b] = TRUE]
              /\ UNCHANGED <<how, attempt, born, token, pin, host, game, stop, shared, devices, bounds>>
FetchDeaf(b) == at[b] = "fetch" /\ (Fetched(b) \/ Walks(b, "down") \/ Walks(b, "wait"))
\* The loop over server_data, with the host and the URL it began with. An
\* address that does not resolve sets a timer: the bot is "down" until that
\* enters reconnect_main again, which makes a host and picks a URL anew.
Fetch(b) == /\ at[b] = "fetch"
            /\ \/ stop[b] /\ Ends(b)
               \/ ~stop[b] /\ (Fetched(b) \/ Walks(b, "down") \/ Walks(b, "wait"))
\* The sleep of 5 s inside the loop, when no candidate answered
Wait(b) == at[b] = "wait" /\ Walks(b, "fetch")
\* The run loop sees the stop flag.
Leaves(b) == at[b] \in {"up", "down", "due", "stranded"} /\ stop[b] /\ Ends(b)

Thread(b) ==
  \/ Aborts(b) \/ Begin(b) \/ Pick(b) \/ FallsBack(b) \/ AsksServer(b) \/ Dashboard(b) \/ Check(b)
  \/ Device(b) \/ Write(b) \/ Apply(b) \/ Redial(b) \/ Refresh(b) \/ Source(b) \/ Fetch(b) \/ Wait(b) \/ Leaves(b)

----------------------------------------------------------------------------
(* The world                                                                 *)

Drop(b) == at[b] = "up" /\ Walks(b, "down")
\* quarantine_logon_ip: the exit of the logon is quarantined, a game exit is
\* replaced, and a refresh is due.
Rejected(b) ==
  LET bad == IF pin[b] # NoExit THEN pin[b] ELSE game[b]
  IN /\ at[b] = "down" /\ bad # NoExit /\ Fails /\ quarantined' = quarantined \cup {bad} /\ To(b, "due")
     /\ \/ (pin[b] # NoExit \/ Clean(bad) = {}) /\ UNCHANGED game
        \/ pin[b] = NoExit /\ \E e \in Clean(bad) : game' = [game EXCEPT ![b] = e]
     /\ UNCHANGED <<how, attempt, logon, stop, rr, devices>>
\* Worlds out of reach: the game exit is replaced, the token is kept.
WorldRotates(b) ==
  /\ at[b] = "down" /\ game[b] # NoExit /\ Fails /\ quarantined' = quarantined \cup {game[b]}
  /\ \/ Clean(game[b]) = {} /\ UNCHANGED game
     \/ \E e \in Clean(game[b]) : game' = [game EXCEPT ![b] = e]
  /\ UNCHANGED <<how, at, attempt, logon, stop, rr, devices>>
\* The watchdog of run(): 30 s connected without a world. The game exit is
\* replaced without a quarantine, also for a bot that had none.
Stalls(b) ==
  /\ at[b] = "up" /\ To(b, "down")
  /\ \/ Clean(game[b]) = {} /\ UNCHANGED game
     \/ \E e \in Clean(game[b]) : game' = [game EXCEPT ![b] = e]
  /\ UNCHANGED <<how, attempt, logon, stop, shared, devices, bounds>>
Stop(b) == /\ at[b] # "off" /\ ~stop[b] /\ stop' = [stop EXCEPT ![b] = TRUE]
           /\ UNCHANGED <<how, at, attempt, logon, game, shared, devices, bounds>>
\* The user starts the account again.
Respawn(b) ==
  /\ at[b] = "off" /\ logins[b] < MaxLogins[b] /\ logins' = [logins EXCEPT ![b] = @ + 1]
  /\ To(b, "attempt") /\ stop' = [stop EXCEPT ![b] = FALSE]
  /\ UNCHANGED <<how, attempt, logon, game, shared, devices, faults>>
Crash == /\ Fails /\ at' = Every("off") /\ picks' = Every(0) /\ fall' = Every(NoExit)
         /\ game' = [b \in Bots |-> how[b].proxy] /\ via' = game' /\ host' = Every(NoExit) /\ born' = Every(FALSE)
         /\ token' = Every(NoExit) /\ pin' = Every(NoExit) /\ addr' = Every(FALSE)
         /\ rr' = 0 /\ quarantined' = {}
         /\ lost' = (lost \/ lock # NoBot) /\ lock' = NoBot /\ read' = Every(NoDevices)
         /\ UNCHANGED <<how, stop, file, ident>>

LoginNext == \/ \E b \in Bots : \/ Thread(b) \/ WriteFails(b) \/ LooksInVain(b) \/ Drop(b) \/ Rejected(b)
                                \/ WorldRotates(b) \/ Stalls(b) \/ Stop(b) \/ Respawn(b)
             \/ Crash
LoginSpec == LoginInit /\ [][LoginNext]_loginVars
\* Requests time out, locks are given back, threads run.
FairLogin == LoginSpec /\ \A b \in Bots : WF_loginVars(Thread(b))

----------------------------------------------------------------------------
(* Properties                                                                *)

Arrives(b) == at[b] # "up" /\ at'[b] = "up"
\* 06-bot-core-state.md, invariant 3: a bot with a pinned exit logs on by the
\* exit that minted the token it shows: through refreshes, quarantines and
\* rotations of either pool, and picks of other bots. (One way is left out:
\* when the address had to be fetched after the token.)
LogonFromPin == [][\A b \in Bots : Arrives(b) /\ pin'[b] # NoExit /\ at[b] # "fetch" =>
                                     host'[b] = token'[b]]_loginVars
\* 04-proxy.md:759: token and logon of a bot with a bypass pool share one exit.
OnePair == [][\A b \in Bots : Arrives(b) /\ ByPool(b) => host'[b] = token'[b]]_loginVars

\* proxy_pool.cpp:637: a session falls back to a quarantined exit if every
\* entry is quarantined, whatever the other bots do to the cursor.
FallsBackOnlyIfAll ==
  [][\A b \in Bots : at[b] = "pick" /\ at'[b] = "server" /\ via'[b] \in quarantined =>
       Range(Pool) \subseteq quarantined]_loginVars

\* account_devices.h: an account shows one device, across logins, restarts
\* and first logins of other accounts at the same time, unless a write of the
\* file was cut short or a read of it failed.
DeviceKept == [][\A b \in Bots : ident[b] # 0 /\ ident'[b] # ident[b] => lost]_loginVars

\* A stopped bot's thread ends, in whatever loop or conversation it is.
StopEndsLogin == \A b \in Bots : stop[b] ~> at[b] = "off"
=============================================================================
