-------------------------------- MODULE Fleet --------------------------------
(***************************************************************************)
(* The bot fleet: BotManager (bot/bot_manager.cpp), the thread each bot    *)
(* runs on (the lambda of spawn_core and Bot::run), the FleetState they    *)
(* share, and the CoordinateModule that claims worlds through it.          *)
(*                                                                         *)
(* The manager has no lock: its owner calls one public method at a time.   *)
(* Bot threads run beside it.  Each access to a FleetState map takes the   *)
(* registry's mutex and is one step; between two of them any other thread  *)
(* may run.                                                                *)
(***************************************************************************)
EXTENDS Integers, Sequences, FiniteSets

CONSTANTS
  Names,      \* GrowIDs a bot can be added under
  NoName,     \* the empty display name of an ltoken bot
  Worlds,     \* worlds a bot can be in
  NoWorld,    \* in no world; also "no claimed world"
  NoBot,      \* owner() = nullopt
  Configs,    \* the AutomationConfigs the UI sets for the coordinate module
  MaxSpawns,  \* bound: bots ever spawned
  MaxQueue,   \* bound: commands a caller leaves waiting in one bot's queue
  Faulty      \* bound: the bots whose login may be refused or that may throw

ASSUME FleetAssumption ==
  /\ MaxSpawns \in Nat \ {0}
  /\ MaxQueue \in Nat
  /\ NoWorld \notin Worlds
  /\ NoName \notin Names
  /\ NoBot \notin Nat

(* Ids are handed out in order and never reused (next_id_). *)
Ids == 0 .. MaxSpawns - 1

(* A config: the bots the module is on for, and the target worlds in order. *)
ConfigType == [on : SUBSET Ids, worlds : Seq(Worlds)]
ASSUME ConfigsAssumption == Configs \subseteq ConfigType /\ Configs # {}

FS == INSTANCE FleetState

VARIABLES
  \* --- BotManager, touched by its owner only ---
  nextId,        \* next_id_
  bots,          \* ids in the bots map
  username,      \* BotEntry.username, by id
  growId,        \* ids whose credential is a GrowID (spawned with dedup)
  launch,        \* ids that have a launch record
  generation,    \* launch_generation_
  retired,       \* ids whose handle is parked in retired_threads_
  joined,        \* ids whose thread was joined
  stopping,      \* id that stop() is half way through, or NoBot
  mode,          \* "up", then "down" in the destructor, then "gone"
  \* --- one bot thread each ---
  pc,
  stopFlag,      \* the atomic the manager sets
  stopRequested, \* Bot::stop_requested_
  crashed,       \* the thread's catch (...) was taken
  queue,         \* commands waiting in the CommandQueue
  closed,        \* consumer_closed_
  world,         \* the world the bot is in
  claimedWorld,  \* CoordinateModule::claimed_world_
  targets,       \* the world list of the config handle this tick holds
  index,         \* position of the tick in targets
  \* --- FleetState ---
  members, claims, config

managerVars == <<nextId, bots, username, growId, launch, generation, retired,
                 joined, stopping, mode>>
signalVars  == <<stopFlag, queue, closed>>
tickVars    == <<claimedWorld, targets, index>>
fleetVars   == <<members, claims, config>>
vars == <<managerVars, pc, stopRequested, crashed, signalVars, world, tickVars,
          fleetVars>>

-----------------------------------------------------------------------------
(* The program counter of a bot thread.  InTry is the code inside the      *)
(* thread's try block: an exception there ends in catch (...).             *)

TickPcs == {"renew", "owner", "claim", "release"}
LoopPcs == {"check", "drain", "publish", "automate"} \cup TickPcs
InTry   == {"create"} \cup LoopPcs \cup {"shutdown", "releaseAll"}
Pcs     == {"unborn"} \cup InTry \cup {"closing", "finishing", "done"}

Goto(b, from, to) == pc[b] = from /\ pc' = [pc EXCEPT ![b] = to]

Init ==
  /\ nextId = 0 /\ bots = {} /\ launch = {} /\ generation = 0
  /\ username = [b \in Ids |-> NoName] /\ growId = {}
  /\ retired = {} /\ joined = {} /\ stopping = NoBot /\ mode = "up"
  /\ pc = [b \in Ids |-> "unborn"]
  /\ stopFlag = [b \in Ids |-> FALSE]
  /\ stopRequested = [b \in Ids |-> FALSE]
  /\ crashed = [b \in Ids |-> FALSE]
  /\ queue = [b \in Ids |-> 0]
  /\ closed = [b \in Ids |-> FALSE]
  /\ world = [b \in Ids |-> NoWorld]
  /\ claimedWorld = [b \in Ids |-> NoWorld]
  /\ targets = [b \in Ids |-> <<>>]
  /\ index = [b \in Ids |-> 1]
  /\ members = {}
  /\ claims = [w \in Worlds |-> NoBot]
  /\ config \in Configs

-----------------------------------------------------------------------------
(* reap_finished(): phase A takes the bots whose thread is done out of the *)
(* map, joins them and erases them from the fleet; phase B joins the       *)
(* retired threads that are done, and leaves the fleet alone.              *)

Done(S) == {b \in S : pc[b] = "done"}
Kept    == bots \ Done(bots)

(* What every method that begins with reap_finished() does first. *)
ReapThreads ==
  /\ retired' = retired \ Done(retired)
  /\ joined' = joined \cup Done(bots) \cup Done(retired)
ReapFleet ==
  /\ members' = FS!EraseMembers(members, Done(bots))
  /\ claims' = FS!ReleaseAll(claims, Done(bots))
Reaped      == Cardinality(launch \cap Done(bots))
KeptRecords == launch \ Done(bots)

(* A public method may start: no other one is running. *)
OwnerIdle == mode = "up" /\ stopping = NoBot

(* list() *)
List ==
  /\ OwnerIdle
  /\ ReapThreads /\ ReapFleet
  /\ bots' = Kept
  /\ launch' = KeptRecords
  /\ generation' = generation + Reaped
  /\ UNCHANGED <<nextId, username, growId, stopping, mode, pc, stopRequested,
                 crashed, signalVars, world, tickVars, config>>

(* find_id_by_name(): never matches the empty name. *)
Matches(n) == {b \in Kept : n # NoName /\ username[b] = n}

(* Mutant: the id is handed out again. *)
StartThreadSameId(n) ==
  /\ nextId < MaxSpawns
  /\ nextId' = nextId
  /\ bots' = Kept \cup {nextId}
  /\ username' = [username EXCEPT ![nextId] = n]
  /\ launch' = KeptRecords \cup {nextId}
  /\ generation' = generation + Reaped + 1
  /\ pc' = [pc EXCEPT ![nextId] = "create"]

(* The rest of spawn_core once the name is known not to be loaded. *)
StartThread(n) ==
  /\ nextId < MaxSpawns
  /\ nextId' = nextId + 1
  /\ bots' = Kept \cup {nextId}
  /\ username' = [username EXCEPT ![nextId] = n]
  /\ launch' = KeptRecords \cup {nextId}
  /\ generation' = generation + Reaped + 1
  /\ pc' = [pc EXCEPT ![nextId] = "create"]

(* spawn(): a GrowID bot, unless that name is loaded already. *)
Spawn(n) ==
  /\ OwnerIdle
  /\ ReapThreads /\ ReapFleet
  /\ \/ /\ Matches(n) = {}
        /\ StartThread(n)
        /\ growId' = growId \cup {nextId}
     \/ /\ Matches(n) # {}
        /\ bots' = Kept
        /\ launch' = KeptRecords
        /\ generation' = generation + Reaped
        /\ UNCHANGED <<nextId, username, growId, pc>>
  /\ UNCHANGED <<stopping, mode, stopRequested, crashed, signalVars, world,
                 tickVars, config>>

(* spawn_ltoken(): no dedup, whatever display name the record supplies. *)
SpawnLtoken(n) ==
  /\ OwnerIdle
  /\ ReapThreads /\ ReapFleet
  /\ StartThread(n)
  /\ UNCHANGED <<growId, stopping, mode, stopRequested, crashed, signalVars,
                 world, tickVars, config>>

(* stop(id), up to the parked handle.  try_send drops the Disconnect when  *)
(* the consumer is gone.                                                   *)
StopSignal(b) ==
  /\ OwnerIdle
  /\ b \in Kept
  /\ ReapThreads /\ ReapFleet
  /\ bots' = Kept \ {b}
  /\ launch' = KeptRecords
  /\ generation' = generation + Reaped
  /\ queue' = IF closed[b] THEN queue ELSE [queue EXCEPT ![b] = @ + 1]
  /\ stopFlag' = [stopFlag EXCEPT ![b] = TRUE]
  /\ stopping' = b
  /\ UNCHANGED <<nextId, username, growId, mode, pc, stopRequested, crashed,
                 closed, world, tickVars, config>>

(* Mutant: the handle is dropped instead of parked. *)
StopDropsHandle ==
  /\ stopping # NoBot
  /\ members' = FS!EraseMembers(members, {stopping})
  /\ claims' = FS!ReleaseAll(claims, {stopping})
  /\ launch' = launch \ {stopping}
  /\ generation' = generation + Cardinality(launch \cap {stopping})
  /\ stopping' = NoBot
  /\ UNCHANGED <<nextId, bots, username, growId, retired, joined, mode, pc,
                 stopRequested, crashed, signalVars, world, tickVars, config>>

(* The rest of stop(id): park the handle, then fleet_->erase and the       *)
(* launch record.                                                          *)
StopErase ==
  /\ stopping # NoBot
  /\ retired' = retired \cup {stopping}
  /\ members' = FS!EraseMembers(members, {stopping})
  /\ claims' = FS!ReleaseAll(claims, {stopping})
  /\ launch' = launch \ {stopping}
  /\ generation' = generation + Cardinality(launch \cap {stopping})
  /\ stopping' = NoBot
  /\ UNCHANGED <<nextId, bots, username, growId, joined, mode, pc,
                 stopRequested, crashed, signalVars, world, tickVars, config>>

(* send_cmd(): no reap; refused when the consumer is gone. *)
SendCmd(b) ==
  /\ OwnerIdle
  /\ b \in bots
  /\ ~closed[b] /\ queue[b] < MaxQueue
  /\ queue' = [queue EXCEPT ![b] = @ + 1]
  /\ UNCHANGED <<managerVars, pc, stopRequested, crashed, stopFlag, closed,
                 world, tickVars, fleetVars>>

(* FleetState::set_config, from the UI, a Lua script or the MCP server. *)
SetConfig(c) ==
  /\ OwnerIdle
  /\ config' = c
  /\ UNCHANGED <<managerVars, pc, stopRequested, crashed, signalVars, world,
                 tickVars, members, claims>>

(* ~BotManager: signal every bot in the map, then join it and every        *)
(* retired thread.  Nothing is erased from the fleet.                      *)
DestroySignal ==
  /\ OwnerIdle
  /\ mode' = "down"
  /\ queue' = [b \in Ids |->
                 IF b \in bots /\ ~closed[b] THEN queue[b] + 1 ELSE queue[b]]
  /\ stopFlag' = [b \in Ids |-> stopFlag[b] \/ b \in bots]
  /\ UNCHANGED <<nextId, bots, username, growId, launch, generation, retired,
                 joined, stopping, pc, stopRequested, crashed, closed, world,
                 tickVars, fleetVars>>

DestroyJoin ==
  /\ mode = "down"
  /\ \A b \in bots \cup retired : pc[b] = "done"
  /\ mode' = "gone"
  /\ bots' = {} /\ retired' = {}
  /\ joined' = joined \cup bots \cup retired
  /\ UNCHANGED <<nextId, username, growId, launch, generation, stopping, pc,
                 stopRequested, crashed, signalVars, world, tickVars, fleetVars>>

ManagerStep ==
  \/ List
  \/ \E n \in Names : Spawn(n)
  \/ \E n \in Names \cup {NoName} : SpawnLtoken(n)
  \/ \E b \in Ids : StopSignal(b)
  \/ StopErase
  \/ \E b \in Ids : SendCmd(b)
  \/ \E c \in Configs : SetConfig(c)
  \/ DestroySignal
  \/ DestroyJoin

-----------------------------------------------------------------------------
(* The bot thread: make_bot, then Bot::run.                                *)

threadOnly == <<managerVars, signalVars, stopRequested, crashed>>

(* make_bot logs in over HTTP and may come back with no bot. *)
Create(b) ==
  /\ \/ Goto(b, "create", "check")
     \/ b \in Faulty /\ Goto(b, "create", "closing")
  /\ UNCHANGED <<threadOnly, world, tickVars, fleetVars>>

(* The top of the loop: the manager's flag, then the bot's own. *)
Check(b) ==
  /\ \/ ~stopFlag[b] /\ ~stopRequested[b] /\ Goto(b, "check", "drain")
     \/ (stopFlag[b] \/ stopRequested[b]) /\ Goto(b, "check", "shutdown")
  /\ UNCHANGED <<threadOnly, world, tickVars, fleetVars>>

(* drain_commands(): until the queue is empty. *)
Drain(b) ==
  /\ queue[b] > 0
  /\ Goto(b, "drain", "drain")
  /\ queue' = [queue EXCEPT ![b] = @ - 1]
  /\ UNCHANGED <<managerVars, stopFlag, closed, stopRequested, crashed, world,
                 tickVars, fleetVars>>

(* ... and service_once(): the server moves the bot between worlds, or the *)
(* login is refused for good (BotSession has the details).  Nothing in it  *)
(* is seen by other threads.                                               *)
Service(b) ==
  /\ queue[b] = 0
  /\ Goto(b, "drain", "publish")
  /\ \/ /\ \E w \in Worlds \cup {NoWorld} : world' = [world EXCEPT ![b] = w]
        /\ UNCHANGED stopRequested
     \/ /\ b \in Faulty
        /\ stopRequested' = [stopRequested EXCEPT ![b] = TRUE]
        /\ UNCHANGED world
  /\ UNCHANGED <<managerVars, signalVars, crashed, tickVars, fleetVars>>

(* publish_fleet_view(), when its 250 ms timer is due. *)
Publish(b) ==
  /\ Goto(b, "publish", "automate")
  /\ members' \in {members, FS!Upsert(members, b)}
  /\ UNCHANGED <<threadOnly, world, tickVars, claims, config>>

-----------------------------------------------------------------------------
(* run_automation() and CoordinateModule::tick.  The tick works on the     *)
(* config handle it took, whatever the UI sets meanwhile.                  *)

(* targets and index are locals of the tick: they go when it returns. *)
EndTick(b) ==
  /\ targets' = [targets EXCEPT ![b] = <<>>]
  /\ index' = [index EXCEPT ![b] = 1]

TargetSet(ws) == {ws[i] : i \in DOMAIN ws}

(* The timer is not due, the module is off for this bot, or no world is    *)
(* configured: nothing happens, and nothing that is held is released.      *)
SkipTick(b) ==
  /\ Goto(b, "automate", "check")
  /\ UNCHANGED <<threadOnly, world, tickVars, fleetVars>>

StartTick(b) ==
  /\ b \in config.on
  /\ config.worlds # <<>>
  /\ targets' = [targets EXCEPT ![b] = config.worlds]
  /\ index' = [index EXCEPT ![b] = 1]
  /\ IF world[b] \in TargetSet(config.worlds)
       THEN Goto(b, "automate", "renew")
       ELSE Goto(b, "automate", "owner")
  /\ UNCHANGED <<threadOnly, world, claimedWorld, fleetVars>>

(* Sitting in a target world: claim it, and hold it if granted. *)
Renew(b) ==
  /\ pc[b] = "renew"
  /\ claims' = FS!Claim(claims, world[b], b)
  /\ \/ /\ ~FS!ClaimGranted(claims, world[b], b)
        /\ Goto(b, "renew", "owner")
        /\ UNCHANGED index
     \/ /\ FS!ClaimGranted(claims, world[b], b)
        /\ Goto(b, "renew", "release")
        /\ index' = [index EXCEPT
             ![b] = CHOOSE i \in DOMAIN targets[b] : targets[b][i] = world[b]]
  /\ UNCHANGED <<threadOnly, world, claimedWorld, targets, members, config>>

(* owner(): pass over a world another bot has; hold when none is left. *)
LookUp(b) ==
  /\ pc[b] = "owner"
  /\ \/ /\ index[b] > Len(targets[b])
        /\ Goto(b, "owner", "check")
        /\ EndTick(b)
     \/ /\ index[b] \in DOMAIN targets[b]
        /\ FS!Owner(claims, targets[b][index[b]]) \notin {NoBot, b}
        /\ index' = [index EXCEPT ![b] = @ + 1]
        /\ UNCHANGED <<pc, targets>>
     \/ /\ index[b] \in DOMAIN targets[b]
        /\ FS!Owner(claims, targets[b][index[b]]) \in {NoBot, b}
        /\ Goto(b, "owner", "claim")
        /\ UNCHANGED <<targets, index>>
  /\ UNCHANGED <<threadOnly, world, claimedWorld, fleetVars>>

(* claim(), which another bot may have won since owner() answered. *)
ClaimTarget(b) ==
  LET w == targets[b][index[b]] IN
  /\ pc[b] = "claim"
  /\ claims' = FS!Claim(claims, w, b)
  /\ \/ /\ FS!ClaimGranted(claims, w, b)
        /\ Goto(b, "claim", "release")
        /\ UNCHANGED index
     \/ /\ ~FS!ClaimGranted(claims, w, b)
        /\ Goto(b, "claim", "owner")
        /\ index' = [index EXCEPT ![b] = @ + 1]
  /\ UNCHANGED <<threadOnly, world, claimedWorld, targets, members, config>>

(* Release the world held before, if it is another one, and remember the   *)
(* new one.  A bot that is in it already is finished; otherwise warp(),    *)
(* unless its cooldown suppresses it, waits for the warp gate and leaves   *)
(* the bot wherever the server put it - which no other thread sees.        *)
ReleaseOld(b) ==
  LET w == targets[b][index[b]] IN
  /\ Goto(b, "release", "check")
  /\ claims' = IF claimedWorld[b] \notin {NoWorld, w}
                 THEN FS!Release(claims, claimedWorld[b], b) ELSE claims
  /\ claimedWorld' = [claimedWorld EXCEPT ![b] = w]
  /\ EndTick(b)
  /\ \E v \in Worlds \cup {NoWorld} :
       /\ world[b] = w => v = w
       /\ world' = [world EXCEPT ![b] = v]
  /\ UNCHANGED <<threadOnly, members, config>>

-----------------------------------------------------------------------------
(* The end of a bot thread.                                                *)

(* Mutants: shutdown() returns before release_all; it releases nothing. *)
ShutdownReturnsEarly(b) ==
  /\ Goto(b, "shutdown", "closing")
  /\ closed' = [closed EXCEPT ![b] = TRUE]
  /\ UNCHANGED <<managerVars, stopFlag, queue, stopRequested, crashed, world,
                 tickVars, fleetVars>>
ShutdownKeepsClaims(b) ==
  /\ Goto(b, "releaseAll", "closing")
  /\ UNCHANGED <<threadOnly, world, tickVars, fleetVars>>

(* shutdown() *)
Shutdown(b) ==
  /\ Goto(b, "shutdown", "releaseAll")
  /\ closed' = [closed EXCEPT ![b] = TRUE]
  /\ UNCHANGED <<managerVars, stopFlag, queue, stopRequested, crashed, world,
                 tickVars, fleetVars>>
ShutdownRelease(b) ==
  /\ Goto(b, "releaseAll", "closing")
  /\ claims' = FS!ReleaseAll(claims, {b})
  /\ UNCHANGED <<threadOnly, world, tickVars, members, config>>

(* catch (...): shutdown() is not run. *)
Crash(b) ==
  /\ b \in Faulty
  /\ pc[b] \in InTry
  /\ pc' = [pc EXCEPT ![b] = "closing"]
  /\ crashed' = [crashed EXCEPT ![b] = TRUE]
  /\ UNCHANGED <<managerVars, signalVars, stopRequested, world, tickVars,
                 fleetVars>>

(* The Bot and its modules are destroyed with the try block; then          *)
(* close_consumer(), then done.                                            *)
CloseQueue(b) ==
  /\ Goto(b, "closing", "finishing")
  /\ closed' = [closed EXCEPT ![b] = TRUE]
  /\ world' = [world EXCEPT ![b] = NoWorld]
  /\ claimedWorld' = [claimedWorld EXCEPT ![b] = NoWorld]
  /\ stopRequested' = [stopRequested EXCEPT ![b] = FALSE]
  /\ EndTick(b)
  /\ UNCHANGED <<managerVars, stopFlag, queue, crashed, fleetVars>>
Finish(b) ==
  /\ Goto(b, "finishing", "done")
  /\ UNCHANGED <<threadOnly, world, tickVars, fleetVars>>

Tick(b) == SkipTick(b) \/ StartTick(b) \/ Renew(b) \/ LookUp(b)
             \/ ClaimTarget(b) \/ ReleaseOld(b)
Loop(b) == Check(b) \/ Drain(b) \/ Service(b) \/ Publish(b) \/ Tick(b)
End(b)  == Shutdown(b) \/ ShutdownRelease(b) \/ CloseQueue(b) \/ Finish(b)

(* What the thread does without an exception. *)
Thread(b) == Create(b) \/ Loop(b) \/ End(b)

(* The process has ended. *)
Terminated == mode = "gone" /\ UNCHANGED vars

Next ==
  \/ ManagerStep
  \/ \E b \in Ids : Thread(b) \/ Crash(b)
  \/ Terminated

(* Threads are scheduled; the UI polls list() (app_ui.cpp refreshes its    *)
(* rows from it), stop() runs to its end and the destructor to its join.   *)
Fairness ==
  /\ \A b \in Ids : WF_vars(Thread(b))
  /\ WF_vars(StopErase) /\ WF_vars(DestroyJoin)
  /\ WF_vars(List)

Spec     == Init /\ [][Next]_vars
FairSpec == Spec /\ Fairness

-----------------------------------------------------------------------------
(* Types.  index stays within the list the tick walks, one past its end    *)
(* when the tick has passed over every world.                              *)
ManagerTypeOK ==
  /\ nextId \in 0 .. MaxSpawns
  /\ bots \subseteq Ids /\ growId \subseteq Ids /\ launch \subseteq Ids
  /\ retired \subseteq Ids /\ joined \subseteq Ids
  /\ username \in [Ids -> Names \cup {NoName}]
  /\ generation \in Nat
  /\ stopping \in Ids \cup {NoBot}
  /\ mode \in {"up", "down", "gone"}

ThreadTypeOK ==
  /\ pc \in [Ids -> Pcs]
  /\ stopFlag \in [Ids -> BOOLEAN] /\ stopRequested \in [Ids -> BOOLEAN]
  /\ crashed \in [Ids -> BOOLEAN] /\ closed \in [Ids -> BOOLEAN]
  /\ queue \in [Ids -> Nat]
  /\ world \in [Ids -> Worlds \cup {NoWorld}]

TickTypeOK ==
  /\ claimedWorld \in [Ids -> Worlds \cup {NoWorld}]
  /\ targets \in [Ids -> Seq(Worlds)]
  /\ index \in [Ids -> Nat]
  /\ \A b \in Ids : index[b] \in 1 .. Len(targets[b]) + 1

FleetTypeOK ==
  /\ members \subseteq Ids
  /\ claims \in [Worlds -> Ids \cup {NoBot}]
  /\ config \in ConfigType

TypeOK == ManagerTypeOK /\ ThreadTypeOK /\ TickTypeOK /\ FleetTypeOK

Spawned == 0 .. nextId - 1
Stopping == {stopping} \ {NoBot}

(* A std::thread that is destroyed before it is joined ends the process.   *)
(* Each handle is in exactly one place: the map, stop()'s hands, the       *)
(* retired list, or joined - and what was joined had finished.             *)
HandleOwnedOnce ==
  /\ Spawned = bots \cup Stopping \cup retired \cup joined
  /\ bots \cap (Stopping \cup retired \cup joined) = {}
  /\ Stopping \cap (retired \cup joined) = {}
  /\ retired \cap joined = {}
  /\ \A b \in joined : pc[b] = "done"

(* The launch records recovery saves are those of the roster: no record    *)
(* survives its bot, no live bot is without one.                           *)
LaunchIsRoster == mode = "up" => launch = bots \cup Stopping

(* RecoveryRuntime::tick saves again only when launch_generation moved:    *)
(* no change of the records may leave it where it was.                     *)
GenerationCountsChanges ==
  [][launch' # launch => generation' > generation]_vars

(* Dedup: two GrowID bots in the roster never have the same name.          *)
OneEntryPerGrowId ==
  \A a, b \in bots \cap growId : username[a] = username[b] => a = b

(* The roster: handles are owned once, launch records are those of the     *)
(* roster, no GrowID is in it twice.                                       *)
RosterConsistent == HandleOwnedOnce /\ LaunchIsRoster /\ OneEntryPerGrowId

(* The refinement: the map is a roster. *)
R == INSTANCE Roster WITH next <- nextId, live <- bots
ImplementsRoster == R!RosterSpec

(* CoordinateModule never asks who owns the world it holds: it trusts      *)
(* claimed_world_.  For a bot that is still in the roster, it may.         *)
BeliefIsOwnership ==
  \A b \in bots : claimedWorld[b] # NoWorld /\ pc[b] \in LoopPcs
                    => claims[claimedWorld[b]] = b

(* A world is never handed from bot to bot.  It is given up by its owner,  *)
(* or taken from one that is being stopped or is done, and it is free in   *)
(* between - also when a stopped bot, its claims erased, still ticks and   *)
(* releases a world it believes to hold.                                   *)
ClaimsNotStolen ==
  [][\A w \in Worlds :
       claims[w] # NoBot /\ claims'[w] # claims[w] =>
         /\ claims'[w] = NoBot
         /\ \/ pc[claims[w]] \in {"release", "releaseAll", "done"}
            \/ claims[w] = stopping]_vars

(* A claim outlives its owner's thread only when that thread crashed:      *)
(* shutdown() releases what a stopped bot took after stop() erased it.     *)
ClaimsEndWithThread ==
  \A w \in Worlds : claims[w] # NoBot =>
    pc[claims[w]] \in InTry \/ crashed[claims[w]]

(* A bot that ended by itself, crashed or not, leaves nothing behind once  *)
(* it was reaped: no view and no claim.                                    *)
NaturalDeathLeavesNothing ==
  mode = "up" => \A b \in joined : ~stopFlag[b] =>
    b \notin members /\ \A w \in Worlds : claims[w] # b

(* Bots that ended own and show nothing.                                   *)
NothingLeftBehind == ClaimsEndWithThread /\ NaturalDeathLeavesNothing

(* Unless it crashes, a stopped bot gives every world back, also one it    *)
(* claims while it is stopping.                                            *)
StoppedBotReleases ==
  \A b \in Ids : \A w \in Worlds :
    (stopFlag[b] /\ claims[w] = b) ~> (claims[w] # b \/ crashed[b])

(* coordinate.h:58: "A dead/reaped bot's claims are freed".  The code's    *)
(* catch (...) skips release_all, and reaping a retired thread frees       *)
(* nothing.                                                                *)
DeadBotsHoldNoClaims ==
  \A w \in Worlds : claims[w] \notin joined
=============================================================================
