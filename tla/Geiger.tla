------------------------------- MODULE Geiger -------------------------------
(* The farm of automation/modules/geiger.cpp: bots that hunt prizes, wait    *)
(* out the recharge, deposit what they found, and keep one counter each from *)
(* a depot they share. A tick of a bot runs until something blocks (a walk,  *)
(* a scan, drops); other bots, the server and the user act between, and a    *)
(* stop frees a bot's claims in the middle of its tick. One world of each    *)
(* kind; GeigerSearch models what a probe learns.                            *)
EXTENDS Integers, FiniteSets, FleetState

CONSTANTS Bots, Tiles,
          Meddles,   \* the user may set auto-collect while the module holds it off
          MaxEvents  \* bound: drops of a connection, refused drops, switches, settings and stops
ASSUME FarmAssumption == /\ Meddles \in BOOLEAN /\ MaxEvents \in Nat
                         /\ NoBot \notin Bots /\ Tiles \cap {"depot", "none"} = {}

VARIABLES config,     \* the module is on in the fleet's configuration
          on,         \* automation_module_enabled_
          at,         \* the world a bot is in: hunt, depot, pickup, door or offline
          seen,       \* world_name_
          asked,      \* the world a bot asked for, or none
          pc,         \* where the bot's tick is
          charged, dead, \* counters in the pack
          loot,       \* prizes in the pack
          ground,     \* counters on the ground of the pickup depot
          recharging, \* now < recharge_until_
          depotOff,   \* now < counter_deposit_off_until_
          retry,      \* now < pickup_retry_after_
          pending, waiting, hunting, \* pending_deposit_, waiting_for_charge_, hunt_active_
          autoOn,     \* the bot's auto_collect_
          off, saved, \* collect_off_, collect_saved_
          wish,       \* history: what the user last set
          claims,     \* FleetState's: the depot's key and the tiles'
          tileKey, depotKey, \* claim_key_, and whether pickup_claim_key_ is set
          stop,       \* "no"; "last" and "now": before and in the last tick of a bot that was
                      \* stopped; "gone": its thread is done
          events      \* bound

place == <<at, asked>>
pack == <<charged, dead, loot, ground>>
timers == <<recharging, depotOff, retry>>
collect == <<autoOn, off, saved>>
held == <<claims, tileKey, depotKey>>
farmVars == <<config, on, place, seen, pc, pack, timers, pending, waiting, hunting,
              collect, wish, held, stop, events>>

NoTile == "none"
Set(f, b, v) == [f EXCEPT ![b] = v]
InWorld(b) == at[b] \notin {"door", "offline"}

FarmInit ==
  /\ config = TRUE /\ on = [b \in Bots |-> FALSE]
  /\ at = [b \in Bots |-> "hunt"] /\ seen = [b \in Bots |-> "none"] /\ asked = [b \in Bots |-> "none"]
  /\ pc = [b \in Bots |-> "idle"]
  /\ \E first \in Bots : charged = [b \in Bots |-> IF b = first THEN 2 ELSE 0]
  /\ dead = [b \in Bots |-> 0] /\ loot = [b \in Bots |-> FALSE] /\ ground = 0
  /\ recharging = [b \in Bots |-> FALSE] /\ depotOff = [b \in Bots |-> FALSE]
  /\ retry = [b \in Bots |-> FALSE]
  /\ pending = [b \in Bots |-> FALSE] /\ waiting = [b \in Bots |-> FALSE] /\ hunting = [b \in Bots |-> FALSE]
  /\ autoOn = [b \in Bots |-> TRUE] /\ off = [b \in Bots |-> FALSE] /\ saved = [b \in Bots |-> TRUE]
  /\ wish = [b \in Bots |-> TRUE]
  /\ claims = [k \in Tiles \cup {"depot"} |-> NoBot]
  /\ tileKey = [b \in Bots |-> NoTile] /\ depotKey = [b \in Bots |-> FALSE]
  /\ stop = [b \in Bots |-> "no"] /\ events = 0

----------------------------------------------------------------------------
(* Claims and auto-collect                                                   *)

\* What release_claim and release_pickup_claim leave of the claims.
Freed(b, tile, depot) ==
  LET c == IF tile /\ tileKey[b] # NoTile THEN Release(claims, tileKey[b], b) ELSE claims
  IN IF depot /\ depotKey[b] THEN Release(c, "depot", b) ELSE c
Releases(b, tile, depot) ==
  /\ claims' = Freed(b, tile, depot)
  /\ tileKey' = (IF tile THEN Set(tileKey, b, NoTile) ELSE tileKey)
  /\ depotKey' = (IF depot THEN Set(depotKey, b, FALSE) ELSE depotKey)
\* suppress_collect and restore_collect
Suppress(b) == IF off[b] THEN UNCHANGED collect
               ELSE saved' = Set(saved, b, autoOn[b]) /\ autoOn' = Set(autoOn, b, FALSE) /\ off' = Set(off, b, TRUE)
RestoreNever(b) == UNCHANGED collect
Restore(b) == IF off[b] THEN autoOn' = Set(autoOn, b, saved[b]) /\ off' = Set(off, b, FALSE) /\ UNCHANGED saved
              ELSE UNCHANGED collect
\* warp_towards sends a request; the answer comes later.
Warps(b, w) == asked' = Set(asked, b, w) /\ UNCHANGED at
Stays(b) == UNCHANGED place
Quiet(b) == UNCHANGED <<config, on, wish, events>>
\* The run loop looks at the stop flag between ticks only, so that a stop leaves room for one.
Begins(b) == /\ pc[b] = "idle" /\ stop[b] \in {"no", "last"}
             /\ stop' = Set(stop, b, IF stop[b] = "last" THEN "now" ELSE "no")

----------------------------------------------------------------------------
(* Switching the module on and off: run_automation                           *)

Enabled(b) ==
  /\ pc[b] = "idle" /\ stop[b] \in {"no", "last"} /\ config /\ ~on[b] /\ on' = Set(on, b, TRUE)
  /\ Releases(b, TRUE, TRUE) /\ Restore(b)
  /\ hunting' = Set(hunting, b, FALSE) /\ depotOff' = Set(depotOff, b, FALSE) /\ retry' = Set(retry, b, FALSE)
  /\ UNCHANGED <<config, place, seen, pc, pack, recharging, pending, waiting, wish, stop, events>>
Disabled(b) ==
  /\ Begins(b) /\ ~config /\ on[b] /\ on' = Set(on, b, FALSE)
  /\ Releases(b, TRUE, TRUE) /\ Restore(b) /\ hunting' = Set(hunting, b, FALSE)
  /\ UNCHANGED <<config, place, seen, pc, pack, timers, pending, waiting, wish, events>>

----------------------------------------------------------------------------
(* tick, until the depot's claim is released                                 *)

Ticks(b) == Begins(b) /\ config /\ on[b]
\* Offline: everything is let go.
TickOffline(b) ==
  /\ Ticks(b) /\ at[b] = "offline"
  /\ Releases(b, TRUE, TRUE) /\ seen' = Set(seen, b, "none") /\ hunting' = Set(hunting, b, FALSE)
  /\ Quiet(b) /\ UNCHANGED <<place, pc, pack, timers, pending, waiting, collect>>

\* Another world than last time: its tile claim and its hunt mean nothing here.
Moved(b) == at[b] # seen[b]
Excess(b) == InWorld(b) /\ charged[b] + dead[b] > 1 /\ ~depotOff[b]

\* A counter too many: to the pickup depot, one bot at a time.
TickExcess(b) ==
  /\ Ticks(b) /\ Excess(b) /\ seen' = Set(seen, b, at[b]) /\ hunting' = Set(hunting, b, FALSE)
  /\ LET free == Freed(b, Moved(b), FALSE)
         mine == IF Moved(b) THEN Set(tileKey, b, NoTile) ELSE tileKey
     IN IF ~ClaimGranted(free, "depot", b)
        THEN /\ claims' = free /\ tileKey' = mine /\ UNCHANGED <<depotKey, collect, place, pc>>
        ELSE /\ depotKey' = Set(depotKey, b, TRUE) /\ Suppress(b)
             /\ IF at[b] # "pickup"
                THEN claims' = Claim(free, "depot", b) /\ tileKey' = mine /\ Warps(b, "pickup") /\ UNCHANGED pc
                ELSE /\ claims' = Claim(Freed(b, TRUE, FALSE), "depot", b) /\ tileKey' = Set(tileKey, b, NoTile)
                     /\ pc' = Set(pc, b, "drop") /\ Stays(b)
  /\ Quiet(b) /\ UNCHANGED <<pack, timers, pending, waiting>>

\* Otherwise the depot's claim goes, and the tick goes on.
TickOn(b) ==
  /\ Ticks(b) /\ at[b] # "offline" /\ ~Excess(b)
  /\ seen' = Set(seen, b, at[b]) /\ hunting' = Set(hunting, b, hunting[b] /\ ~Moved(b))
  /\ Releases(b, Moved(b), TRUE) /\ pc' = Set(pc, b, "rest")
  /\ Quiet(b) /\ UNCHANGED <<place, pack, timers, pending, waiting, collect>>

\* run_deposit of the counters: everything but one, dead ones first kept; or
\* nothing; or twice, when the answer to the first drop comes late.
DropCounters(b) ==
  /\ pc[b] = "drop" /\ pc' = Set(pc, b, "idle")
  /\ \E n \in {0, charged[b] + dead[b] - 1, charged[b] + dead[b]} :
       LET left == charged[b] + dead[b] - n
           d == IF dead[b] < left THEN dead[b] ELSE left
       IN /\ (n > 0 => at[b] = "pickup")
          /\ LET fails == n = 0 /\ at[b] = "pickup"
             IN (fails => events < MaxEvents) /\ events' = (IF fails THEN events + 1 ELSE events)
          /\ dead' = Set(dead, b, d) /\ charged' = Set(charged, b, left - d) /\ ground' = ground + n
          /\ \E tired \in BOOLEAN : depotOff' = Set(depotOff, b, n = 0 /\ tired)
  /\ Releases(b, FALSE, TRUE)
  /\ UNCHANGED <<config, on, wish, stop, place, seen, loot, recharging, retry, pending, waiting, hunting,
                 collect>>

----------------------------------------------------------------------------
(* The rest of the tick                                                      *)

Rests(b) == pc[b] = "rest" /\ Quiet(b) /\ UNCHANGED stop
Ends(b) == pc' = Set(pc, b, "idle")
\* Towards the hunt world; auto-collect is restored there.
Homewards(b) == IF at[b] # "hunt" THEN Warps(b, "hunt") /\ UNCHANGED collect ELSE Stays(b) /\ Restore(b)

\* 1: while the counter recharges, the prizes go to the depot first.
DepositTrip(b) == /\ Suppress(b)
                  /\ IF at[b] # "depot" THEN Warps(b, "depot") /\ Ends(b) /\ UNCHANGED held
                     ELSE Stays(b) /\ pc' = Set(pc, b, "loot") /\ Releases(b, TRUE, FALSE)
RestRecharging(b) ==
  /\ Rests(b) /\ recharging[b]
  /\ IF pending[b] /\ loot[b] THEN DepositTrip(b) /\ UNCHANGED pending
     ELSE pending' = Set(pending, b, FALSE) /\ Releases(b, TRUE, TRUE) /\ Homewards(b) /\ Ends(b)
  /\ UNCHANGED <<seen, pack, timers, waiting, hunting>>

\* 2: without a charged counter, wait for the dead one, or fetch one.
RestDead(b) ==
  /\ Rests(b) /\ ~recharging[b] /\ charged[b] = 0 /\ dead[b] > 0
  /\ pending' = Set(pending, b, FALSE) /\ waiting' = Set(waiting, b, TRUE) /\ hunting' = Set(hunting, b, FALSE)
  /\ Homewards(b) /\ Ends(b) /\ UNCHANGED <<seen, pack, timers, held>>
RestFetchClaimless(b) ==
  /\ Rests(b) /\ ~recharging[b] /\ charged[b] = 0 /\ dead[b] = 0
  /\ pending' = Set(pending, b, FALSE) /\ waiting' = Set(waiting, b, FALSE) /\ hunting' = Set(hunting, b, FALSE)
  /\ IF retry[b] THEN Ends(b) /\ UNCHANGED <<held, collect, place>>
     ELSE /\ claims' = Claim(claims, "depot", b) /\ depotKey' = Set(depotKey, b, TRUE) /\ Suppress(b)
          /\ IF at[b] # "pickup" THEN Warps(b, "pickup") /\ Ends(b)
             ELSE Stays(b) /\ pc' = Set(pc, b, "scan")
          /\ UNCHANGED tileKey
  /\ UNCHANGED <<seen, pack, timers>>
RestFetch(b) ==
  /\ Rests(b) /\ ~recharging[b] /\ charged[b] = 0 /\ dead[b] = 0
  /\ pending' = Set(pending, b, FALSE) /\ waiting' = Set(waiting, b, FALSE) /\ hunting' = Set(hunting, b, FALSE)
  /\ IF retry[b] \/ ~ClaimGranted(claims, "depot", b) THEN Ends(b) /\ UNCHANGED <<held, collect, place>>
     ELSE /\ claims' = Claim(claims, "depot", b) /\ depotKey' = Set(depotKey, b, TRUE) /\ Suppress(b)
          /\ IF at[b] # "pickup" THEN Warps(b, "pickup") /\ Ends(b)
             ELSE Stays(b) /\ pc' = Set(pc, b, "scan")
          /\ UNCHANGED tileKey
  /\ UNCHANGED <<seen, pack, timers>>
\* try_pickup_counter: one more counter, or an empty scan, the last of them
\* giving the depot up for a while.
Scan(b) ==
  /\ pc[b] = "scan" /\ Ends(b)
  /\ \/ /\ at[b] = "pickup" /\ ground > 0 /\ ground' = ground - 1
        /\ \/ charged' = Set(charged, b, 1) /\ UNCHANGED dead
           \/ dead' = Set(dead, b, 1) /\ UNCHANGED charged
        /\ UNCHANGED <<held, retry>>
     \/ /\ \E last \in BOOLEAN : retry' = Set(retry, b, last) /\ Releases(b, FALSE, last)
        /\ UNCHANGED <<charged, dead, ground>>
  /\ Quiet(b)
  /\ UNCHANGED <<stop, place, seen, loot, recharging, depotOff, pending, waiting, hunting, collect>>

\* 3: a pack full of prizes; 1's deposit ends here too, on the way home.
Charged(b) == ~recharging[b] /\ charged[b] > 0
RestFull(b) ==
  /\ Rests(b) /\ Charged(b) /\ ~waiting[b] /\ loot[b]
  /\ pending' = Set(pending, b, FALSE) /\ hunting' = Set(hunting, b, FALSE) /\ DepositTrip(b)
  /\ UNCHANGED <<seen, pack, timers, waiting>>
DepositLoot(b) ==
  /\ pc[b] = "loot" /\ Ends(b)
  /\ \E all \in BOOLEAN : loot' = Set(loot, b, ~(all /\ at[b] = "depot"))
  /\ pending' = Set(pending, b, FALSE)
  /\ IF recharging[b] THEN Releases(b, TRUE, TRUE) /\ Homewards(b) ELSE UNCHANGED <<held, place, collect>>
  /\ Quiet(b) /\ UNCHANGED <<stop, seen, charged, dead, ground, timers, waiting, hunting>>

\* A recharged counter: refresh_hunt_world leaves and comes back.
Rejoins(b) == Warps(b, "hunt") /\ hunting' = Set(hunting, b, FALSE)
RestRefresh(b) ==
  /\ Rests(b) /\ Charged(b) /\ waiting[b] /\ waiting' = Set(waiting, b, FALSE)
  /\ pending' = Set(pending, b, FALSE) /\ Rejoins(b) /\ Ends(b)
  /\ UNCHANGED <<seen, pack, timers, held, collect>>

\* 4 and 5: to the hunt world, start a hunt, and probe a tile nobody else has.
RestHunt(b) ==
  /\ Rests(b) /\ Charged(b) /\ ~waiting[b] /\ pending' = Set(pending, b, FALSE)
  /\ IF at[b] # "hunt" THEN Rejoins(b) /\ Ends(b) /\ UNCHANGED <<held, collect>>
     ELSE /\ Restore(b) /\ Stays(b)
          /\ IF ~hunting[b] THEN hunting' = Set(hunting, b, TRUE) /\ Ends(b) /\ UNCHANGED held
             ELSE \E t \in Tiles :
                    LET free == IF tileKey[b] \notin {NoTile, t} THEN Freed(b, TRUE, FALSE) ELSE claims
                    IN /\ UNCHANGED <<hunting, depotKey>>
                       /\ IF ClaimGranted(free, t, b)
                          THEN claims' = Claim(free, t, b) /\ tileKey' = Set(tileKey, b, t) /\ pc' = Set(pc, b, "probe")
                          ELSE /\ claims' = free /\ Ends(b)
                               /\ tileKey' = (IF tileKey[b] = t THEN tileKey ELSE Set(tileKey, b, NoTile))
  /\ UNCHANGED <<seen, pack, timers, waiting>>

Probes(b) == pc[b] = "probe" /\ Ends(b) /\ Quiet(b) /\ UNCHANGED stop
\* A reading, or a tile that was not reached.
ProbeReads(b) == /\ Probes(b) /\ at[b] = "hunt" /\ \E lets \in BOOLEAN : Releases(b, lets, FALSE)
                 /\ UNCHANGED <<place, seen, pack, timers, pending, waiting, hunting, collect>>
\* Another world while walking, settling or waiting, or too few particles.
ProbeFails(b) == /\ Probes(b) /\ Releases(b, TRUE, FALSE) /\ hunting' = Set(hunting, b, FALSE)
                 /\ IF at[b] = "hunt" THEN Warps(b, "hunt") ELSE Stays(b)
                 /\ UNCHANGED <<seen, pack, timers, pending, waiting, collect>>
\* on_prize
ProbeFinds(b) ==
  /\ Probes(b) /\ at[b] = "hunt" /\ charged[b] > 0 /\ Releases(b, TRUE, FALSE)
  /\ charged' = Set(charged, b, charged[b] - 1) /\ dead' = Set(dead, b, dead[b] + 1) /\ loot' = Set(loot, b, TRUE)
  /\ recharging' = Set(recharging, b, TRUE) /\ pending' = Set(pending, b, TRUE)
  /\ waiting' = Set(waiting, b, FALSE) /\ hunting' = Set(hunting, b, FALSE)
  /\ UNCHANGED <<place, seen, ground, depotOff, retry, collect>>

----------------------------------------------------------------------------
(* Server, clock and user                                                    *)

Elsewhere(b) == stop[b] # "gone" /\ UNCHANGED <<on, seen, pc, pending, waiting, hunting, held, stop>>
Arrive(b) == /\ asked[b] # "none" /\ at[b] # "offline"
             /\ \E w \in {asked[b], "door"} : (w = "door" => events < MaxEvents) /\ at' = Set(at, b, w)
                                              /\ events' = (IF w = "door" THEN events + 1 ELSE events)
             /\ asked' = Set(asked, b, "none")
             /\ Elsewhere(b) /\ UNCHANGED <<config, pack, timers, collect, wish>>
\* (stop() sends a Disconnect as well, which the thread may still handle.)
Drops(b) == /\ IF stop[b] = "no" THEN events < MaxEvents /\ events' = events + 1 ELSE UNCHANGED events
            /\ at[b] # "offline"
            /\ at' = Set(at, b, "offline") /\ asked' = Set(asked, b, "none")
            /\ Elsewhere(b) /\ UNCHANGED <<config, pack, timers, collect, wish>>
Returns(b) == /\ at[b] = "offline" /\ at' = Set(at, b, "door") /\ UNCHANGED asked
              /\ Elsewhere(b) /\ UNCHANGED <<config, pack, timers, collect, wish, events>>
\* The server recharges a dead counter; the timers run out.
Recharged(b) == /\ dead[b] > 0 /\ dead' = Set(dead, b, dead[b] - 1) /\ charged' = Set(charged, b, charged[b] + 1)
                /\ Elsewhere(b) /\ UNCHANGED <<config, place, loot, ground, timers, collect, wish, events>>
TimeOut(b) == /\ recharging[b] \/ depotOff[b] \/ retry[b]
              /\ recharging' = Set(recharging, b, FALSE) /\ depotOff' = Set(depotOff, b, FALSE)
              /\ retry' = Set(retry, b, FALSE)
              /\ Elsewhere(b) /\ UNCHANGED <<config, place, pack, collect, wish, events>>
Toggle == /\ events < MaxEvents /\ events' = events + 1 /\ config' = ~config
          /\ UNCHANGED <<on, place, seen, pc, pack, timers, pending, waiting, hunting, collect, wish, held, stop>>
SetAutoCollect(b) == /\ events < MaxEvents /\ events' = events + 1 /\ (Meddles \/ ~off[b])
                     /\ autoOn' = Set(autoOn, b, ~autoOn[b]) /\ wish' = Set(wish, b, ~autoOn[b])
                     /\ Elsewhere(b) /\ UNCHANGED <<config, place, pack, timers, off, saved>>

\* BotManager::stop: the flag, then FleetState::erase, wherever the bot's thread is.
StopBot(b) == /\ events < MaxEvents /\ events' = events + 1
              /\ stop[b] = "no" /\ stop' = Set(stop, b, IF pc[b] = "idle" THEN "last" ELSE "now")
              /\ claims' = ReleaseAll(claims, {b})
              /\ UNCHANGED <<config, on, place, seen, pc, pack, timers, pending, waiting, hunting, collect,
                             wish, tileKey, depotKey>>
\* The run loop ends, by the flag or by the bot's own request to stop.
ShutDown(b) == /\ IF stop[b] = "no" THEN events < MaxEvents /\ events' = events + 1
                  ELSE stop[b] # "gone" /\ UNCHANGED events
               /\ pc[b] = "idle" /\ stop' = Set(stop, b, "gone")
               /\ claims' = ReleaseAll(claims, {b})
               /\ tileKey' = Set(tileKey, b, NoTile) /\ depotKey' = Set(depotKey, b, FALSE)
               /\ at' = Set(at, b, "offline") /\ asked' = Set(asked, b, "none")
               /\ UNCHANGED <<config, on, seen, pc, pack, timers, pending, waiting, hunting, collect, wish>>

Runs(b) == \/ Enabled(b) \/ Disabled(b) \/ TickOffline(b) \/ TickExcess(b) \/ TickOn(b)
           \/ DropCounters(b) \/ RestRecharging(b) \/ RestDead(b) \/ RestFetch(b) \/ Scan(b)
           \/ RestFull(b) \/ DepositLoot(b) \/ RestRefresh(b) \/ RestHunt(b)
           \/ ProbeReads(b) \/ ProbeFails(b) \/ ProbeFinds(b) \/ ShutDown(b)
Happens(b) == Arrive(b) \/ Drops(b) \/ Returns(b) \/ Recharged(b) \/ TimeOut(b) \/ SetAutoCollect(b)
              \/ StopBot(b)
FarmNext == Toggle \/ \E b \in Bots : Runs(b) \/ Happens(b)
FarmSpec == FarmInit /\ [][FarmNext]_farmVars

----------------------------------------------------------------------------
(* Properties                                                                *)

\* The claims keep two bots from probing one tile, and from working in the pickup depot at once,
\* though each tick gives them up and takes them again, and though other bots are stopped. A bot
\* that was stopped itself has lost its claims: what is left of its tick others may cross.
Apart == \A a, b \in Bots : a # b /\ stop[a] = "no" /\ stop[b] = "no" =>
           /\ ~(pc[a] = "probe" /\ pc[b] = "probe" /\ tileKey[a] = tileKey[b])
           /\ ~(pc[a] \in {"drop", "scan"} /\ pc[b] \in {"drop", "scan"})

\* Switched off, the module leaves nothing behind: no claim, and auto-collect
\* as the user set it. Nor does a bot whose thread is done, whatever it claimed after the stop.
LeavesNothing == \A b \in Bots :
                   /\ ~on[b] \/ stop[b] = "gone" => \A k \in DOMAIN claims : claims[k] # b
                   /\ ~on[b] => ~off[b] /\ (~Meddles => autoOn[b] = wish[b])

\* A probing bot collects if the user wants it to; geiger.h says the user's
\* value is restored once hunting resumes.
HuntsAsWished == \A b \in Bots : pc[b] = "probe" => autoOn[b] = wish[b]

\* Claims and the user's auto-collect are given back.
GivesBack == LeavesNothing /\ HuntsAsWished
=============================================================================
