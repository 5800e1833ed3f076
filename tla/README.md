# Nxrth in TLA+

Nxrth is a desktop program that keeps a fleet of bots logged into an online
game: one thread per bot, a manager that starts and stops them, a registry they
coordinate through, pools of proxies, automation modules, a recovery file and a
supervisor, scripts, an AI and tool servers. These modules model the parts of it
where order, timing and failure matter, check them with TLC on small instances,
and prove every safety property the runs check but one for every instance with TLAPS. Paths
below are relative to `src/`.

## Inventory

| Component | State it keeps | What makes it hard | Correct when | Module |
|---|---|---|---|---|
| `BotManager`, bot threads (`src/bot/bot_manager.cpp`) | live bots, retired handles, launch records, their generation | one owner, no lock: its threads run beside it and end when they like | every thread is joined once, ids are never reused, records match the roster | `Fleet`, `Roster` |
| `FleetState` (`src/bot/fleet_state.cpp`) | published views, claims on keys | each call takes a mutex, a tick makes several | a key has one owner, what an ended bot owned comes free | `FleetState`, `Fleet` |
| Coordination (`automation/modules/coordinate.cpp`) | the world it believes to own | believes what it last saw | it owns what it believes | `Fleet` |
| Gates (`src/bot/gates.cpp`) | a cursor per gate | reserved under a lock, used after it | slots are spaced, the backlog is bounded | `Gates` |
| Bot session (`bot_connection.cpp`, `bot_handlers.cpp`) | host, redirect, streaks, timers, flags | failures at every step, messages handled inside waits, flags that outlive a connection | the bot always has a way back and says the right thing once | `BotSession` |
| World handlers (`bot_world.cpp`, `bot_handlers.cpp`, `inventory.cpp`) | world, pack, players, dialogs, the snapshot others read | two copies of everything; walks that serve packets | both copies agree, a dialog is answered once, walks end | `BotWorld` |
| Places (`bot_world.cpp`) | pending places, reservations, inventory | answers are late, missing or someone else's | reservations are exact, nothing is placed that is not owned | `PlaceConfirm` |
| Pathfinder (`src/world/pathfind.cpp`) | grid, open list, cache of answers | the cache across maps | an answer is a shortest path of this map | `Pathfind` |
| Game proxy pool (`src/proxy/proxy_pool.cpp`) | configuration, its file, published snapshot, cursor, quarantine | shared by all threads, counts of another moment, updates that fail halfway | limits and quarantine are respected | `ProxyPool` |
| Login, bypass pool, devices (`src/login/`, `proxy_pool.cpp`, `account_devices.cpp`) | pins, tokens, the device file | a token belongs to the exit that minted it; a file rewritten by all | logon by the pin, one device per account, a stop ends it | `Login` |
| Lists of accounts and doors (`accounts.cpp`, UI, MCP, Lua) | lists being gone through, a cursor per door | the pool changes between two accounts; lists are dealt in parts, again and again | "next" deals a list in order, each account once | `Spawning` |
| Automation configuration (`fleet_state.h`, `config_store.cpp`, `fleet_store.cpp`) | scopes, groups, file, profiles, backups | ids that each process gives anew | a backup restored runs what it ran | `Automation` |
| Collecting (`modules/collect.cpp`) | claims on objects | claims kept while switched off, and erased by `stop()` under a thread that still ticks | the modules send one bot per object | `Collect` |
| Geiger (`modules/geiger.cpp`, `geiger_stats.cpp`) | claims on tiles and depot, search, totals, webhook | ticks that block for seconds, through drops and stops | no two live bots at one tile; what is borrowed is given back; one message | `Geiger`, `GeigerSearch`, `GeigerReport` |
| Recovery and supervisor (`src/recovery/`, `src/supervisor/`) | plan file, checkpoint, restart budget | crashes between any two steps | restarts are wanted and bounded, the checkpoint is current | `Recovery` |
| AI controller (`src/ai/ai_controller.cpp`) | turn, worker, history | Stop at any point, one worker thread | a batch runs once and only if allowed, the history stays acceptable | `AiController` |
| MCP bridge (`src/mcp/app_bridge.cpp`) | pipe, queue, servers | either side may die in the middle of a request | a request runs once, in one fleet, and comes to an end | `AppBridge`, `Exchange` |
| Script store and Lua engine (`src/script/`, `src/lua/`) | files, a run's limits | two processes, one folder; scripts on the main thread | what is read is whole, runs end | `Scripts` |
| MCP server, network, packets and crypto, UI, utilities, ENet | formats and I/O | | they compute what the formats say | not modelled |

How they interact. The owner's thread (the UI loop of `src/main.cpp`, with the
AI, MCP and Lua tools running on it) makes all calls of `BotManager` and
`ProxyPool` and edits the automation configuration. Every bot has one thread,
which logs in, runs its session and its automation modules one after the other.
Bot threads meet each other and the owner in `FleetState` (a mutex per call), the
gates (a mutex per reservation), the pools' snapshots, cursors and quarantine,
and the device and statistics files. The owner reaches a bot through its stop
flag and its command queue. A supervisor process watches the application and
starts it again after a crash, with the fleet of the last checkpoint; tool
servers are processes that forward to the application by a pipe.

## Modules

One module per component, one action per step that another thread, process or
the server can see: what a handler does under one lock, or between two blocking
calls, is one action. `PROJECT.json` maps every definition to its lines.

- `Fleet` (with `FleetState`): the manager's methods are single actions, since
  one owner calls them, except `stop()`, which signals (`StopSignal`) and erases
  (`StopErase`) with bot steps in between, and the destructor (`DestroySignal`,
  `DestroyJoin`). A thread's `pc` walks through `Create`, the turns of `Bot::run`
  and `Shutdown` to `Finish`; a tick is as many steps as it makes registry calls.
  `Crash` is an exception caught by the lambda: it skips `shutdown()`. `Roster` is
  the abstract map of ids, added fresh and never reused; `Fleet` implements it.
- `Gates`: time is a counter. `Reserve` is the critical section, `Act` the bot
  that has waited for its slot. With `Cooldown` 0 it is `reserve_gate_slot`,
  otherwise `reserve_throttle_slot`.
- `BotSession`: `link` and `leg` are `host_` and where it leads; streaks, flags
  and optional deadlines keep their meaning. Deadlines are abstract: a delay that
  is set may elapse whenever the run loop looks. The server may send anything it
  can send in its state, or nothing. The gate waits service ENet, so other events
  happen inside a handler (`EndLoginWait`, `EndWarpWait`).
- `BotWorld`: each handler changes the bot's own state and the snapshot. A world
  is a corridor; a walk is one step per node, packets in between (`WalkStep`,
  `WalkReplans`); a topic names the packets that touch common state.
- `PlaceConfirm`: `wire` and `feed` are the two directions of ENet's reliable,
  ordered channel; the server owns the true amounts and the tiles. `play` says
  whether answers may be late (`Expire`) and whether others interfere.
- `Pathfind`: one action per node taken off the open list; ties of the heap are
  a choice. `Ways` is the reference: relaxation in as many rounds as cells.
- `ProxyPool`: `choose()` is a scan of one step per entry. `update()` succeeds
  or throws at its second parse (`TornUpdate`); `Restart` is a crash at any point.
- `Login`: each blocking request is a step. Bots are threads that share the
  bypass cursor, the quarantine and the device file with its lock. A device file
  that cannot be opened reads as empty (`LooksInVain`); a connected bot may be
  dropped by the watchdog, which rotates its game exit (`Stalls`). The 5 s between
  two rounds of the `server_data` loop are `"wait"`; a bot whose host does not
  resolve is `"down"` until its timer enters `reconnect_main` again.
- `Spawning`: one step per account of a list, threads and quarantines between.
  Whether the bypass pool has a proxy that resolves shows at the login only.
- `Automation`: edits, profiles, backups and restarts, with ids remapped one by
  one as the code does.
- `Geiger`, `GeigerSearch`, `GeigerReport`, `Collect`: a tick runs to its next
  blocking call. `GeigerSearch` has the code's distance bands, squared and in
  quarters of a tile, so that no arithmetic is rounded away. `stop()` erases the
  claims of a bot wherever its thread is (`StopBot`, `StopHand`); the thread sees
  the flag between two iterations of `Bot::run`, so that what remains of a tick,
  or one last tick, goes on without the claims the bot remembers, until
  `shutdown()` (`ShutDown`, `ShutDownHand`). A bot may also stop itself. In
  `Collect` the bot's own `collect()` (`AutoCollect`) asks for what it sees beside
  the module and without claims; a hunting `Geiger` suppresses it. Exceptions
  that skip `shutdown()` are `Fleet`'s.
- `Recovery`: application processes, the supervisor, plan and checkpoint. Ages
  replace clocks: the attempts of the window carry how long ago they were.
- `AiController`: frames of the owner's thread (`Reap`, then the rest of
  `pump()`, then a click) beside a worker (`WorkerReturns`, `WorkerEnds`).
- `AppBridge`: the serving thread, the pipe's one instance, the owner's pump and
  the forwarding servers, any of which may stop or die. `Exchange` is what a
  server promises its client: a request is asked, executed, answered, or fails;
  one that failed may have been executed, but will not be; a server falls back
  to a fleet of its own for good, and only with a request nobody executed.
  `AppBridge` implements it: `Stage` reads a request's state off the pipe, the
  owner's queue and what was executed.
- `Scripts`: a store that reads and replaces files in steps, two processes, and
  an engine that counts instructions, memory and time.
- `Iteration`: what the proofs about searches and folds share. A set of naturals
  has a least member, so of a claim about all naturals there is a least failure,
  and its predecessor does not fail: induction without an induction theorem.
- `XProofs` holds the theorems, `MCX` the instances for TLC. Independent modules
  share a run: `MCX` then has a `scene` that says which of them moves, the others
  standing still, so that each run asks one kind of question of one part of the
  program. Scenes do not interact.

## Runs

| Run | Scenes and instance | Shows |
|---|---|---|
| `fleet` | two spawns, one world, one GrowID; the module switched on and off, or failures and name collisions | belief is ownership, claims are not stolen, handles, records and names fit, ended bots leave nothing; `Fleet` implements `Roster` |
| `fleet_live` | two bots under fairness; three bots at a gate of spacing 2 and horizon 5 | stopped bots give back; slots are paced |
| `session` | every login method alone, two with a user; two AI turns of three rounds | always a way back, nothing due in a session, the right logon, redialling; histories a provider accepts, batches run once and only with the user's yes |
| `recovery` | one account, four pids, a budget of two restarts or one with disturbances | restarts bounded and wanted, checkpoint current, a supervisor for who needs one |
| `world` | five topics of packets; all 3 x 3 maps with up to four blocks, detours, warps | snapshot and state agree, one answer each, walks end; answers are shortest paths |
| `farm` | two bots that farm, collect, report, with one stopped at any point; a hunt on 34 tiles; two lists of accounts | apart, given back, one seeker, one message, sound candidates, "next" in order |
| `fleet_config` | two accounts, two pools, five places of two items | restored as saved; published pool, limit, rotation; reservations exact, never overspent |
| `login` | two bots of all kinds, two bypass entries, one flaky | logon from the pin, devices kept, a stop ends a login |
| `scripts` | two stdio servers; two processes, one script, every kind of loop | the bridge implements `Exchange` and forwards end; scripts are whole, loops end |
| `automation_toggle` | as `fleet_config` | **violated**: switching one bot off starts others (`app_ui.cpp:2653`) |
| `login_pair` | two GrowIDs by the bypass pool | **violated**: a host of the old exit with the new exit's token (`bot_connection.cpp:1197`) |
| `scripts_end` | as `scripts` | **violated**: a script that catches the error of its limit runs on (`lua_engine.cpp:369`) |

### Bounds, and why they are enough

- Two bots (`Ids`, `Bots`, `Hands`, `Finders`, `Clients`): every clause relates at
  most two actors, and a third repeats one of them; the gate has three, since it
  is about queues. The theorems hold for any number.
- `MaxQueue` 1, `MaxSpawns` 2: a command waits or not; ids are not reused.
- `MaxNow` 6, `MaxGrants` 4: the fourth reservation at one instant is pinned to
  the horizon, the cursor lies idle and is raised, and bots reserve again.
- `MaxSent` 5 (in time) or 2 (late, in a crowd), `MaxAmount` 3: two places on one
  tile, of one item or two, in both orders of answer, with a stack that fills.
- `Edits`: two pools, shuffled with limit 1 and round-robin with limit 2 and
  duplicate endpoints, where slots and exits differ. `RRPeriod` 4 is a multiple of
  both lengths (an assumption checks it); the `size_t` wrap is not modelled.
- `MaxRounds` 3, `MaxToolCalls` 3: each limit is met exactly and passed by one.
- `knobs` of `Recovery`: a budget used up within the window with a growing delay,
  and one of a single start.
- `GridWidth` 34 with hideouts in every band and at both ends; `HuntSteps` 3.
- `MaxEvents` 1, `MaxTurns` 2: one disturbance of the farm (a drop, a refusal, a
  switch, a stop, a bot's own end) at every point of two bots' ticks; two of the
  walks, leaves, stops and rounds of `Bot::collect` among the collectors. What
  follows a stop (the last tick, a lost connection, the end) is not counted.
- `Limit` and `Budget` 1: the next checkpoint is the one that raises.
- `SYMMETRY` only over bots and objects that nothing distinguishes, and only in
  runs without liveness (`farm`, `fleet_config`).
- `CHECK_DEADLOCK FALSE` where a bounded environment has done all it may and the
  program rests: everywhere but `fleet` and `fleet_live`, where some step is
  always possible and TLC checks that there is one (the gates, whose clock is
  bounded, rest by `Over`).

### Fairness

- `fleet_live`: each thread without exceptions (it is scheduled, and every wait
  in its loop has a timeout), the second half of `stop()` and the join (the caller
  is inside them), `list()`, which the UI calls while it refreshes. None of
  `Crash`.
- `session`: ENet ends every connect and disconnect with an event, gate waits
  end (weak). The loop tests its deadlines on every turn, but commands and waits
  come between, so `Elapse` and `Watchdog` are enabled again and again rather
  than always (strong). Nothing is assumed of the server, the user or the AI.
- `recovery`: the UI draws frames, and a process created starts.
- `world`: a walk goes on; nothing of the server.
- `login`: every request over the network times out, so a thread goes on.
- `scripts`: the owner draws frames, the serving thread and the clients poll,
  threads go on and time passes. None of deaths and failures.

## Proofs

All are checked by TLAPS with its SMT, Zenon and LS4 backends and rest on the
named assumptions of the modules (types of the constants, names that differ from
each other, `RRPeriod` a multiple of every pool's length) and on nothing else. No invariant that follows is
inductive by itself; the last column names the strengthening.

| Theorem | Says, for every value of the constants | Argument |
|---|---|---|
| `FleetProofs` | | `FleetInv`: types, the index of a tick in its list, and the parts named below |
| `RefinesRoster` | `ImplementsRoster` | every step maps, or stutters |
| `BeliefCorrect` | `BeliefIsOwnership` | `ClaimInv`: between claim and release a bot owns what it is about to remember; nobody else's step takes a claim of a bot in the roster |
| `RosterCorrect` | `RosterConsistent` | `UnbornAreNew`: ids without a thread are those from `nextId` on, so a handle is new |
| `EndingsCorrect`, `ClaimsCorrect` | `NothingLeftBehind`, `ClaimsNotStolen` | `Endings`: what a thread still holds at each point of its end |
| `GenerationCorrect`, `TypeCorrect` | `GenerationCountsChanges`, `TypeOK` | records that go in a step are finitely many |
| `FleetProofs`: `GateCorrect`, `CursorCorrect` | `Paced`, `CursorMonotonic` | `CursorBehind`: the cursor is a spacing beyond each slot given, or at the horizon that pinned it; n slots are counted in n - 1 spacings |
| `SessionProofs`: `RedirectCorrect`, `NotStranded`, `NothingDueInSession`, `LogonCorrect` | `RedirectUnused`, `NeverStranded` while auto-reconnect stays on, `DueSparesSession`, `RightLogon` | `Core` with `Due`, `Calm` and `Logon`: every exit of `ReconnectMain` leaves a connection, a timer or a stop; nothing is due beside a redirect either |
| `SessionProofs`: `BatchesRunOnce`, `StopIsFinal` | `RunsOnce`, `StopSticks` | `TurnInv`: approval ids only grow, what is decided with a yes was granted under its own id, one request at a time, and a stopped turn's answer finds the flag set |
| `SessionProofs`: `HistoriesAccepted` | `HistoryAccepted` | `ChatInv`, below |
| `ConfigProofs`: `ReservationsCorrect` | `ReservedIsPending` | cardinality of the pending places under adding and removing one |
| `ConfigProofs`: `SpendingCorrect` | `NeverOverspent` | `SpendInv`, below |
| `ConfigProofs`: `PoolCorrect`, `LimitCorrect`, `RotationCorrect` | `PublishedIsConfig` and `CursorInPool`, `SpawnUnderLimit`, `RotationFindsClean` | `CandidatesHaveRoom`; `SearchPassesAll`: consecutive cursor values pass every slot |
| `ConfigProofs`: `RestoreCorrect` | `RestoredAsSaved` | `AutoInv`: ids are given in order, so ranks among them name accounts |
| `WorldProofs`: `AnswersAreOne`, `SnapshotIsTrue`, `JoinsEnds` | `OneAnswerEach`, `StateAgrees`, `AnswersJoin` | the answer due comes after all given; the pack counts its items; `PathIInv`: every cell found has a legal predecessor that was found |
| `WorldProofs`: `AnswersAreShortest` | `AnswersRight` while maps keep their size | `SearchInv`, below |
| `FarmProofs`: `FarmApart`, `FarmLeavesNothing`, `FarmGivesBack` | `Apart`, `LeavesNothing`, `GivesBack` if the user leaves auto-collect alone while it is borrowed | `FarmInv`: claims and what each bot that was not stopped remembers of them agree at every blocking call; a stopped bot holds at most what it remembers, and nothing once its thread is done |
| `FarmProofs`: `SeekerIsOne`, `MessageIsOne`, `SearchIsSound` | `OneSeeker`, `OneMessage`, `CandidatesSound` | `CollectInv`: a module's request is for an object it has claimed, until it is served, left or stopped; `ReportInv` (messages beside the known one are at most the faults), `SearchInv` |
| `RecoveryProofs`: `BudgetCorrect`, `RestartsWanted`, `SavedCurrent`, `TypeCorrect` | `RestartsWithinBudget`, `RestartsAreWanted`, `SavedIsCurrent`, `TypeOK` | `BudgetInv`, below; `SleepsAfterCrash` |
| `DeskProofs`: `RefinesExchange`, `WorkStaysWhole` | `ImplementsExchange`, `WorkNotSplit` | `ExInv`, below; `SplitInv`, of the steps of `Exchange` alone |
| `DeskProofs`: `RequestIsOnce`, `DeviceStays`, `PinIsMint`, `ScriptsStayWhole` | `RequestsRunOnce`, `DeviceKept`, `LogonFromPin`, `NeverTorn` | `BridgeInv`: a request is in one place; `DeviceInv`: who writes the file holds its lock and has read it; `PinInv`; `WholeInv` |

Five of them are worth more words.

*A place is always paid for* (`SpendInv`). The bot counts by what it has heard,
the server by what has happened, and two queues lie between. The invariant says
that there is a chain of amounts and reservations, one link for each packet on
its way to the bot, that starts at what the bot believes and ends at the server's
amounts; along it the free items never become fewer, and at its end there is a
reservation for each request under way. A place adds one reservation to every
link, an answer of the server adds a link, a packet received drops the first.
That the echo of a place frees the reservation of that very place needs a second
half: the requests under way are the newest pending places in order (`OnWire`), a
free tile has no older one (`Vacant`), and each echo is of the first place on its
tile and alone there (`Echoed`). With late answers or other players both halves
fail, as the code's comments expect, and `NeverOverspent` asks for neither.

*Restarts stay in the budget* (`BudgetInv`). The window is pruned when an
application ends, but starts happen a delay later and age differently. The
invariant says that every start still young is backed by an attempt of the window
at most a delay older (`Backed`), that attempts follow each other by at least
those delays (`Following`), and that the delays only grow with the attempts that
came before, so that two starts never share an attempt.

*An answer is a shortest path* (`SearchInv`). The cost of a found cell is that of
a way to it; a closed cell's is the least of all; a cell found and not closed
waits in the open list under its own cost and estimate. The estimate never falls
by more than a step costs, so on any way to the goal the first cell not yet
closed is in the open list under at most the cost of the whole way, and the goal,
once it is the least, has the cost of the best. The reference `Ways` is a
recursive function of the rounds; that as many rounds as cells find every
cheapest way is proved by counting the cells nearer than its end: the last cell
but one is nearer, so fewer cells are nearer than it, and it was found a round
before.

*A history is accepted* (`ChatInv`). The history consists of user texts, replies
and batches of results; each batch answers the reply before it, call for call,
except the last one's while a turn decides. OpenAI's form is a map of the
history, and inherits this. Anthropic's merges neighbours of one role and is a
recursive function of the history: one more entry joins the last message or
follows it, so that roles keep alternating, and the results of a batch, joined
one by one, are the one message its calls ask for (`ToolsSpeak`). A turn that is
stopped, denied or fails must therefore answer its open calls before the next
text, at every point where that can happen.

*The bridge keeps its promises* (`ExInv`). A request is in the pipe or in the
queue of an application that is up, and one request at a time; then its client
reads from the one instance, or is dead and the instance has no peer. An answer
in the pipe is of a request executed. So a client that is told of a failure has no
request left anywhere: whoever would still execute it finds the pipe closed or
the queue dropped. What follows from `Exchange` follows for the bridge:
`WorkNotSplit` is proved of the abstract steps and carried over.

### Only model-checked

Liveness, for which the prover has no rules: `StoppedBotReleases`, `Redials`,
`Supervised`, `WalkEnds`, `StopEndsLogin`, `ForwardsEnd`, `LoopsEnd`. And
`NextDealsInOrder`, which is about a list with its duplicates removed by a fold:
that the result has none for every list is an induction over data. Every other
invariant, action property and refinement of the passing runs is proved.

### Stated without a run

Kept in the modules beside the code they are about, true or false of it as
their comments say, and proved or listed above where they are part of another
property: `DeadBotsHoldNoClaims`, `EveryLoginEnds`, `NoLogonThroughQuarantined`,
`CheckpointOnlyAfterChange`, `ReapedBeforeNextRound`, `FalseOnlyIfAway`,
`AnswersRightAnywhere`, `AnswersJoin`, `PrizeStaysCandidate`, `TotalsSurvive`,
`ClaimedIsAsked`, `OwnedAreSkipped`, `FallsBackOnlyIfAll`, `AutoNeverDirect`, `StopSticks`,
`CursorInPool`, `CursorMonotonic`, `GenerationCountsChanges`, `RedirectUnused`,
`LeavesNothing`, `RequestsRunOnce`, `WorkNotSplit`.

## Where code and documents disagree

Shown by a run: `automation_toggle`, `login_pair`, `scripts_end` (the lines are
quoted under "findings" in `PROJECT.json`).

Met while modelling, and not the subject of a run:

- A faulty bot's claims stay until it is reaped, though `coordinate.h:58` says a
  dead bot's claims are freed (`DeadBotsHoldNoClaims`).
- A bot that is being stopped publishes its view once more after `stop()` erased
  it, and nothing removes that view.
- The watchdog ignores logins after the first world: `was_in_world_` is kept
  across connections (`EveryLoginEnds`).
- A bot may log on through an exit quarantined meanwhile
  (`NoLogonThroughQuarantined`).
- The first tick of every process saves the checkpoint, changed or not
  (`recovery_controller.h:87`, `CheckpointOnlyAfterChange`).
- The cache of paths outlives a change of the map's size
  (`docs/port-specs/10-world.md:580`, `AnswersRightAnywhere`).
- Objects owned by another bot are not skipped (`modules/collect.h:28`): the bot's
  own auto-collect, on by default, asks every 500 ms for what is near without
  looking at the claims (`bot_connection.cpp:790`, `bot_world.cpp:830`), and the
  collect module does not switch it off. Two bots of one world so ask for one
  object; `OneSeeker` is about the modules' requests (`OwnedAreSkipped`).
- A bot stopped in the middle of a probe, a scan or a deposit has lost its claim
  and finishes all the same (`bot_manager.cpp:247`, `bot_connection.cpp:809`): for
  the rest of its tick another bot may be on its tile or in the depot. `Apart` is
  about bots that were not stopped.
- A listed account is to be skipped rather than logged in by the real IP
  (`app_ui.cpp:1121`, `mcp_server.cpp:1604`), and one with neither a game exit nor
  a bypass pool is. But a provider's token with a bypass pool of which no entry
  resolves is fetched without a proxy, with a game exit or without
  (`bot_connection.cpp:94`).
- The device file is read as empty when it cannot be opened, and written over
  (`account_devices.cpp:188`); `DeviceKept` allows for it.
- At its horizon a gate stops pacing: a bulk start of more bots than fit in the
  window lets the rest through together (`gates.h:5`).
- A place answered after its deadline has lost its reservation, and may be sent
  a second time.
- `warp()` drops a redirect that arrived during its own gate wait.
- A manual reconnect uses a token that was to be refreshed, and leaves the timer
  of the cooldown running, which then replaces the session.
- Turning auto-reconnect on starts nothing in a bot that is already idle.
- `ProxyPool::update` is not all or nothing when the bypass list is bad.
- `proxy_key_counts` counts the exits of the spawns, not those bots moved to.
- After a stalled login a bot without a proxy gets one of the pool's, enabled or
  not.

## What is not modelled

Packet and file formats, ciphers, HTTP conversations and the wrappers around
sockets are pure functions or I/O: their outcomes are choices in the modules. The
UI draws; its calls are those of the manager, the pools, the configuration and
the scripts. The MCP server's other tools check arguments and make the same calls
from the owner's thread. Vendored ENet is external. Within the modelled
components, the notes of `PROJECT.json` say what was left out; the largest parts
are shuffled selection and random ports of the bypass pool, tile extras, gems
and chat in `BotWorld`, the encryption of the fleet store, and the Lua bindings
that only read.

## What is left

An abstract specification of `Scripts` (a register per name), shown to be
implemented, and the parts listed above as not modelled.
