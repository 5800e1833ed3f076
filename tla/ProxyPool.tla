------------------------------ MODULE ProxyPool ------------------------------
(***************************************************************************)
(* The game-proxy pool (src/proxy/proxy_pool.cpp) and the bots that take   *)
(* their exits from it.  The owner of the BotManager edits the pool and    *)
(* chooses an exit for each bot it spawns; every bot thread quarantines    *)
(* the exits that fail it and rotates to another one of the published      *)
(* pool (src/bot/bot_connection.cpp, src/login/login.cpp).                 *)
(*                                                                         *)
(* The bots are GrowID bots without a login proxy, every pool entry        *)
(* resolves, and a bot's thread ends when the manager removes it.          *)
(***************************************************************************)
EXTENDS Naturals, Sequences, FiniteSets

CONSTANTS
  Exits,     \* resolved "ip:port" of the proxies
  NoExit,    \* no proxy: direct
  Bots,      \* bot ids
  NoBot,
  Edits,     \* the pool settings the editor may submit
  NoFile,    \* data/proxy_pool.json missing or cut short
  RRPeriod   \* bound: GAME_PROXY_RR is kept modulo this

Modes == {"least_loaded", "round_robin"}

EditType == [enabled : BOOLEAN, capacity : Nat \ {0}, mode : Modes,
             shuffle : BOOLEAN, proxies : Seq(Exits)]

ASSUME ExitAssumption == NoExit \notin Exits /\ NoBot \notin Bots
ASSUME EditAssumption == Edits \subseteq EditType
ASSUME PeriodAssumption ==
  /\ RRPeriod \in Nat \ {0}
  /\ \A e \in Edits : e.proxies # <<>> => RRPeriod % Len(e.proxies) = 0

VARIABLES
  config,       \* ProxyPool::config_
  saved,        \* the file
  published,    \* the process-global snapshot that bots rotate through
  rr,           \* GAME_PROXY_RR
  quarantined,  \* the quarantine store
  call,         \* the owner inside choose() or save()
  pc,           \* where a bot's thread is
  key,          \* BotEntry::proxy_key, fixed at spawn
  exit,         \* Bot::proxy_
  cur           \* current_game_proxy of the fetch_credentials a bot is inside

poolVars == <<config, saved, published>>
botVars == <<pc, key, exit, cur>>
vars == <<poolVars, rr, quarantined, call, botVars>>

(* ProxyPoolConfig{}. *)
Default == [enabled |-> FALSE, capacity |-> 1, mode |-> "least_loaded",
            shuffle |-> FALSE, proxies |-> <<>>, next |-> 0]

AtMost(m, n) == IF m < n THEN m ELSE n

(* update() up to the second parse: the cursor survives an edit, clamped. *)
Edited(e) == [enabled |-> e.enabled, capacity |-> e.capacity, mode |-> e.mode,
              shuffle |-> e.shuffle, proxies |-> e.proxies,
              next |-> AtMost(config.next, Len(e.proxies))]

Snapshot(c) == [proxies |-> c.proxies, shuffle |-> c.shuffle]

Idle == [at |-> 0, bot |-> NoBot, cands |-> {}, picked |-> NoExit, saving |-> FALSE]

(* Bots behind an exit, as proxy_key_counts() sees them. *)
Load(e) == Cardinality({b \in Bots : key[b] = e})

-----------------------------------------------------------------------------
(* The editor and the owner.  Owner calls never overlap. *)

Init ==
  /\ config = Default /\ saved = NoFile /\ published = Snapshot(Default)
  /\ rr = 0 /\ quarantined = {} /\ call = Idle
  /\ pc = [b \in Bots |-> "out"]
  /\ key = [b \in Bots |-> NoExit]
  /\ exit = [b \in Bots |-> NoExit]
  /\ cur = [b \in Bots |-> NoExit]

(* Mutant: the snapshot is published once the whole update has succeeded. *)
TornUnpublished(e) ==
  /\ call = Idle
  /\ config' = Edited(e)
  /\ UNCHANGED <<saved, published, rr, quarantined, call, botVars>>

(* update() with a bad line in the bypass list: the second parse throws    *)
(* after the game pool has been replaced and published; nothing is saved.  *)
(* A bad line in the game list throws before anything changes.             *)
TornUpdate(e) ==
  /\ call = Idle
  /\ config' = Edited(e)
  /\ published' = Snapshot(config')
  /\ UNCHANGED <<saved, rr, quarantined, call, botVars>>

(* update(); save() truncates the file here and writes it in Saved. *)
Update(e) ==
  /\ call = Idle
  /\ config' = Edited(e)
  /\ published' = Snapshot(config')
  /\ saved' = NoFile
  /\ call' = [Idle EXCEPT !.saving = TRUE]
  /\ UNCHANGED <<rr, quarantined, botVars>>

(* choose() for a new bot. *)
StartChoose(b) ==
  /\ call = Idle /\ pc[b] = "out"
  /\ config.enabled /\ config.proxies # <<>>
  /\ call' = [Idle EXCEPT !.at = 1, !.bot = b]
  /\ UNCHANGED <<poolVars, rr, quarantined, botVars>>

(* A bot spawned without a proxy: pool disabled, empty or not wanted. *)
SpawnDirect(b) ==
  /\ call = Idle /\ pc[b] = "out"
  /\ pc' = [pc EXCEPT ![b] = "fetch"]
  /\ UNCHANGED <<poolVars, rr, quarantined, call, key, exit, cur>>

(* Mutant: a full exit is still a candidate. *)
Overfull(e) == e \notin quarantined /\ Load(e) <= config.capacity

(* An entry that choose() may hand out, at the moment it looks at it. *)
Free(e) == e \notin quarantined /\ Load(e) < config.capacity

(* One entry of choose()'s scan; bots quarantine exits between two of them. *)
ScanEntry ==
  /\ call.at \in 1..Len(config.proxies)
  /\ call' = [call EXCEPT
       !.at = @ + 1,
       !.cands = IF Free(config.proxies[call.at]) THEN @ \cup {call.at} ELSE @]
  /\ UNCHANGED <<poolVars, rr, quarantined, botVars>>

(* choose() throws when no candidate is left; no bot, or a direct one. *)
NoneFree ==
  /\ call.at = Len(config.proxies) + 1 /\ call.cands = {}
  /\ call' = Idle
  /\ \/ UNCHANGED pc
     \/ pc' = [pc EXCEPT ![call.bot] = "fetch"]
  /\ UNCHANGED <<poolVars, rr, quarantined, key, exit, cur>>

(* How far after the cursor an index is, cyclically. *)
Offset(i) ==
  LET len == Len(config.proxies)
      start == AtMost(config.next, len - 1)
  IN ((i - 1 + len) - start) % len

(* The candidates that the spread mode allows. *)
Eligible ==
  IF config.mode = "round_robin" THEN call.cands
  ELSE {i \in call.cands : \A j \in call.cands :
          Load(config.proxies[i]) <= Load(config.proxies[j])}

Pickable == {i \in Eligible :
               config.shuffle \/ \A j \in Eligible : Offset(i) <= Offset(j)}

(* choose() advances the cursor behind its pick and saves. *)
Pick ==
  /\ call.at > 0 /\ call.at = Len(config.proxies) + 1
  /\ \E i \in Pickable :
       /\ config' = [config EXCEPT !.next = i % Len(config.proxies)]
       /\ call' = [Idle EXCEPT !.bot = call.bot, !.picked = config.proxies[i],
                               !.saving = TRUE]
  /\ saved' = NoFile
  /\ UNCHANGED <<published, rr, quarantined, botVars>>

(* save() is done; a chosen exit goes into spawn(). *)
Saved ==
  /\ call.saving
  /\ saved' = config
  /\ call' = Idle
  /\ IF call.bot = NoBot THEN UNCHANGED <<pc, key, exit, cur>>
     ELSE /\ pc' = [pc EXCEPT ![call.bot] = "fetch"]
          /\ key' = [key EXCEPT ![call.bot] = call.picked]
          /\ exit' = [exit EXCEPT ![call.bot] = call.picked]
          /\ cur' = [cur EXCEPT ![call.bot] = call.picked]
  /\ UNCHANGED <<config, published, rr, quarantined>>

(* stop() or reap. *)
Remove(b) ==
  /\ call = Idle /\ pc[b] # "out"
  /\ pc' = [pc EXCEPT ![b] = "out"]
  /\ key' = [key EXCEPT ![b] = NoExit]
  /\ exit' = [exit EXCEPT ![b] = NoExit]
  /\ cur' = [cur EXCEPT ![b] = NoExit]
  /\ UNCHANGED <<poolVars, rr, quarantined, call>>

(* clear_quarantine(), from the UI. *)
ClearQuarantine ==
  /\ quarantined' = {}
  /\ UNCHANGED <<poolVars, rr, call, botVars>>

Emptied ==
  /\ rr' = 0 /\ quarantined' = {} /\ call' = Idle
  /\ pc' = [b \in Bots |-> "out"]
  /\ key' = [b \in Bots |-> NoExit]
  /\ exit' = [b \in Bots |-> NoExit]
  /\ cur' = [b \in Bots |-> NoExit]

(* The process ends anywhere and starts again: load_default(). *)
Restart ==
  /\ config' = IF saved = NoFile THEN Default ELSE saved
  /\ published' = Snapshot(config')
  /\ Emptied
  /\ UNCHANGED saved

-----------------------------------------------------------------------------
(* The bots. *)

Entry(k) == published.proxies[k + 1]

(* Slots of the published pool that next_game_proxy may return. *)
Clean(k, current) == Entry(k) \notin quarantined /\ Entry(k) # current

(* Mutant: a skipped slot does not advance the search. *)
NextGameProxyOneTry(current, fresh) ==
  LET len == Len(published.proxies) IN
  IF len >= 2 /\ ~published.shuffle /\ Clean(rr % len, current)
  THEN fresh = Entry(rr % len) /\ rr' = (rr + 1) % RRPeriod
  ELSE fresh = NoExit /\ UNCHANGED rr

(* next_game_proxy(current) returns fresh.  The loop holds the pool's lock; *)
(* its checks of the quarantine may be seen as one, at the returned slot.   *)
NextGameProxy(current, fresh) ==
  LET len == Len(published.proxies)
      Slot(i) == (rr + i) % len
      found == {i \in 0 .. len - 1 : Clean(Slot(i), current)}
  IN \/ len < 2 /\ fresh = NoExit /\ UNCHANGED rr
     \/ /\ len >= 2 /\ published.shuffle
        /\ IF found = {} THEN fresh = NoExit
                         ELSE \E i \in found : fresh = Entry(Slot(i))
        /\ UNCHANGED rr
     \/ /\ len >= 2 /\ ~published.shuffle /\ found = {}
        /\ fresh = NoExit /\ rr' = (rr + len) % RRPeriod
     \/ /\ len >= 2 /\ ~published.shuffle
        /\ \E i \in found :
             /\ \A j \in found : i <= j
             /\ fresh = Entry(Slot(i)) /\ rr' = (rr + i + 1) % RRPeriod

(* fetch_credentials succeeds: the bot logs on through proxy_, whatever    *)
(* proxy the credentials were fetched through in the end.                  *)
FetchOk(b) ==
  /\ pc[b] = "fetch"
  /\ pc' = [pc EXCEPT ![b] = "up"]
  /\ cur' = [cur EXCEPT ![b] = NoExit]
  /\ UNCHANGED <<poolVars, rr, quarantined, call, key, exit>>

(* HTTP 403: quarantine_proxy of swap_quarantined_game_proxy. *)
Fetch403(b) ==
  /\ pc[b] = "fetch" /\ cur[b] # NoExit
  /\ quarantined' = quarantined \cup {cur[b]}
  /\ pc' = [pc EXCEPT ![b] = "swap"]
  /\ UNCHANGED <<poolVars, rr, call, key, exit, cur>>

(* ... and its next_game_proxy: a replacement, or the bot is stopped. *)
Swap(b) ==
  /\ pc[b] = "swap"
  /\ \E fresh \in Exits \cup {NoExit} :
       /\ NextGameProxy(cur[b], fresh)
       /\ IF fresh = NoExit
          THEN pc' = [pc EXCEPT ![b] = "done"]
          ELSE pc' = [pc EXCEPT ![b] = "fetch"]
       /\ cur' = [cur EXCEPT ![b] = fresh]
  /\ UNCHANGED <<poolVars, quarantined, call, key, exit>>

Drop(b) ==
  /\ pc[b] = "up"
  /\ pc' = [pc EXCEPT ![b] = "down"]
  /\ UNCHANGED <<poolVars, rr, quarantined, call, key, exit, cur>>

(* Reconnect with the token in hand. *)
Redial(b) ==
  /\ pc[b] = "down"
  /\ pc' = [pc EXCEPT ![b] = "up"]
  /\ UNCHANGED <<poolVars, rr, quarantined, call, key, exit, cur>>

(* Reconnect with a new token: fetch_credentials(proxy_). *)
Refresh(b) ==
  /\ pc[b] = "down"
  /\ pc' = [pc EXCEPT ![b] = "fetch"]
  /\ cur' = [cur EXCEPT ![b] = exit[b]]
  /\ UNCHANGED <<poolVars, rr, quarantined, call, key, exit>>

(* An exit that fails the bot in the game is quarantined for the fleet ... *)
Reject(b) ==
  /\ pc[b] = "down" /\ exit[b] # NoExit
  /\ quarantined' = quarantined \cup {exit[b]}
  /\ pc' = [pc EXCEPT ![b] = "rotate"]
  /\ UNCHANGED <<poolVars, rr, call, key, exit, cur>>

(* ... and replaced, if the pool has another one. *)
Rotate(b) ==
  /\ pc[b] = "rotate"
  /\ pc' = [pc EXCEPT ![b] = "down"]
  /\ \E fresh \in Exits \cup {NoExit} :
       /\ NextGameProxy(exit[b], fresh)
       /\ exit' = IF fresh = NoExit THEN exit ELSE [exit EXCEPT ![b] = fresh]
  /\ UNCHANGED <<poolVars, quarantined, call, key, cur>>

(* A stalled login or a failing redirect rotates without a quarantine; a   *)
(* bot without a proxy gets one of the pool, enabled or not.               *)
Stall(b) ==
  /\ pc[b] = "up"
  /\ pc' = [pc EXCEPT ![b] = "down"]
  /\ \E fresh \in Exits \cup {NoExit} :
       /\ NextGameProxy(exit[b], fresh)
       /\ exit' = IF fresh = NoExit THEN exit ELSE [exit EXCEPT ![b] = fresh]
  /\ UNCHANGED <<poolVars, quarantined, call, key, cur>>

-----------------------------------------------------------------------------

Owner ==
  \/ \E e \in Edits : Update(e) \/ TornUpdate(e)
  \/ \E b \in Bots : StartChoose(b) \/ SpawnDirect(b) \/ Remove(b)
  \/ ScanEntry \/ NoneFree \/ Pick \/ Saved
  \/ ClearQuarantine \/ Restart

Bot(b) ==
  \/ FetchOk(b) \/ Fetch403(b) \/ Swap(b) \/ Drop(b) \/ Redial(b)
  \/ Refresh(b) \/ Reject(b) \/ Rotate(b) \/ Stall(b)

Next == Owner \/ \E b \in Bots : Bot(b)

Spec == Init /\ [][Next]_vars

-----------------------------------------------------------------------------
(* Properties. *)

ConfigType == [enabled : BOOLEAN, capacity : Nat \ {0}, mode : Modes,
               shuffle : BOOLEAN, proxies : Seq(Exits), next : Nat]

CallType == [at : Nat, bot : Bots \cup {NoBot}, cands : SUBSET Nat,
             picked : Exits \cup {NoExit}, saving : BOOLEAN]

PCs == {"out", "fetch", "swap", "up", "down", "rotate", "done"}

TypeOK ==
  /\ config \in ConfigType
  /\ saved \in ConfigType \cup {NoFile}
  /\ published \in [proxies : Seq(Exits), shuffle : BOOLEAN]
  /\ rr \in 0 .. RRPeriod - 1
  /\ quarantined \subseteq Exits
  /\ call \in CallType
  /\ pc \in [Bots -> PCs]
  /\ key \in [Bots -> Exits \cup {NoExit}]
  /\ exit \in [Bots -> Exits \cup {NoExit}]
  /\ cur \in [Bots -> Exits \cup {NoExit}]

(* 04-proxy.md: the bots rotate through the pool the editor shows, also    *)
(* after an update that failed halfway and after a restart from any file.  *)
PublishedIsConfig == published = Snapshot(config)

(* 04-proxy.md:351 (start = min(next_index, len - 1)): the cursor never    *)
(* lies beyond the pool it walks, in memory or in the file, although pool  *)
(* and cursor are edited, saved, half-updated and reloaded separately.     *)
CursorInPool ==
  /\ config.next <= Len(config.proxies)
  /\ saved # NoFile => saved.next <= Len(saved.proxies)

(* max_bots_per_ip: a bot spawned from the pool never joins an exit that   *)
(* already has that many bots assigned, although the scan takes its time.  *)
SpawnUnderLimit ==
  [][\A b \in Bots : key'[b] \notin {key[b], NoExit} =>
       Load(key'[b]) < config.capacity]_vars

(* proxy_pool.h: next_game_proxy finds nothing only if fewer than two      *)
(* proxies are published or "every non-quarantined one equals current".    *)
Nothing(current) ==
  \/ Len(published.proxies) < 2
  \/ \A i \in DOMAIN published.proxies :
       published.proxies[i] \in quarantined \cup {current}
RotationFindsClean ==
  [][\A b \in Bots :
       /\ pc[b] = "swap" /\ pc'[b] = "done" => Nothing(cur[b])
       /\ pc[b] = "rotate" /\ pc'[b] = "down" /\ exit'[b] = exit[b]
            => Nothing(exit[b])]_vars

(* proxy_pool.h:180: "While quarantined, choose() and next_game_proxy  *)
(* never hand it out, so no bot logs in through it."                       *)
NoLogonThroughQuarantined ==
  [][\A b \in Bots : pc[b] # "up" /\ pc'[b] = "up" =>
       exit[b] \notin quarantined]_vars
=============================================================================
