------------------------------- MODULE Collect -------------------------------
(* automation/modules/collect.cpp: bots of one world pick objects off the    *)
(* ground, each object claimed in FleetState before it is asked for. A bot   *)
(* sees the objects its server packets told it of; it moves, fills its pack, *)
(* leaves and returns. Beside the module a bot collects by itself, without   *)
(* claims, and a bot that is stopped loses its claims while its thread still *)
(* finishes an iteration of Bot::run.                                        *)
EXTENDS Naturals, FiniteSets, FleetState

CONSTANTS Hands,       \* the bots
          Objects,     \* uids of the world's objects
          PerTick,     \* COLLECT_MAX_PER_TICK
          Reaches,     \* in the radius, in the corner of the square around it, or farther
          MaxTurns     \* bound: walks, leaves, stops and rounds of Bot::collect
ASSUME CollectAssumption == /\ PerTick \in Nat \ {0} /\ NoBot \notin Hands /\ MaxTurns \in Nat
                            /\ Reaches \subseteq {"circle", "corner", "far"}

VARIABLES lying,     \* objects on the ground, as the server has it
          view,      \* world_->objects of a bot
          inside,    \* the bot is in the world
          known,     \* world_name_ is set
          reach,     \* how far an object is from a bot
          full,      \* the pack is full
          keys,      \* FleetState's claims
          mine,      \* my_claims_
          asks,      \* requests of the module the server has not served
          grabs,     \* and those of Bot::collect
          stopping,  \* "no"; the last iteration of the run loop: before the module's tick, after
                     \* it, after Bot::collect; or "gone"
          turns      \* bound
collectVars == <<lying, view, inside, known, reach, full, keys, mine, asks, grabs, stopping, turns>>

CollectInit ==
  /\ lying = Objects /\ view = [h \in Hands |-> Objects]
  /\ inside = [h \in Hands |-> TRUE] /\ known = [h \in Hands |-> FALSE]
  /\ \E r \in Reaches : reach = [h \in Hands |-> [o \in Objects |-> r]]
  /\ full = [h \in Hands |-> FALSE]
  /\ keys = [o \in Objects |-> NoBot] /\ mine = [h \in Hands |-> {}] /\ asks = {}
  /\ grabs = {} /\ stopping = [h \in Hands |-> "no"] /\ turns = 0

\* What is left of the claims once h releases those of S.
Without(h, S) == [o \in Objects |-> IF o \in S THEN Release(keys, o, h)[o] ELSE keys[o]]
\* Claims of objects no longer seen, or all of them in another world.
Vanished(h) == IF known[h] THEN mine[h] \ view[h] ELSE mine[h]
\* The nearest few within the square: which these are is not told apart.
Nearest(h) == LET box == {o \in view[h] : reach[h][o] # "far"}
                  n == IF Cardinality(box) < PerTick THEN Cardinality(box) ELSE PerTick
              IN {S \in SUBSET box : Cardinality(S) = n}

\* A stop leaves the module one tick at most. (One that is switched off does not tick: it has
\* nothing else to do when it is switched, and what it claimed stays claimed.)
Picks(h) == /\ stopping[h] \in {"no", "last"}
            /\ stopping' = [stopping EXCEPT ![h] = IF @ = "last" THEN "ticked" ELSE @]
            /\ UNCHANGED <<grabs, turns>>
\* tick, out of the world
TickAway(h) ==
  /\ Picks(h) /\ ~inside[h]
  /\ keys' = Without(h, mine[h]) /\ mine' = [mine EXCEPT ![h] = {}] /\ known' = [known EXCEPT ![h] = FALSE]
  /\ UNCHANGED <<lying, view, inside, reach, full, asks>>
\* tick, with no room
TickFull(h) ==
  /\ Picks(h) /\ inside[h] /\ full[h] /\ known' = [known EXCEPT ![h] = TRUE]
  /\ keys' = Without(h, Vanished(h)) /\ mine' = [mine EXCEPT ![h] = @ \ Vanished(h)]
  /\ UNCHANGED <<lying, view, inside, reach, full, asks>>
\* tick: claim the near objects nobody else has, and ask for those in reach.
Takes(h, after, won) ==
  /\ keys' = [o \in Objects |-> IF o \in won THEN Claim(after, o, h)[o] ELSE after[o]]
  /\ mine' = [mine EXCEPT ![h] = (@ \ Vanished(h)) \cup won]
  /\ asks' = asks \cup {<<h, o>> : o \in {w \in won : reach[h][w] = "circle"}}
  /\ UNCHANGED <<lying, view, inside, reach, full>>
TickGreedy(h) ==
  /\ Picks(h) /\ inside[h] /\ ~full[h] /\ known' = [known EXCEPT ![h] = TRUE]
  /\ \E S \in Nearest(h) : Takes(h, Without(h, Vanished(h)), S)
Tick(h) ==
  /\ Picks(h) /\ inside[h] /\ ~full[h] /\ known' = [known EXCEPT ![h] = TRUE]
  /\ LET after == Without(h, Vanished(h))
     IN \E S \in Nearest(h) : Takes(h, after, {o \in S : ClaimGranted(after, o, h)})

Turn == turns < MaxTurns /\ turns' = turns + 1
\* Bot::collect, on unless the user has set it off, has no claims: what it sees within its own
\* radius, except what is blacklisted, walled off or at the limit of the pack.
AutoCollect(h) ==
  /\ Turn /\ inside[h] /\ ~full[h] /\ stopping[h] \in {"no", "last", "ticked"}
  /\ \E S \in SUBSET view[h] : /\ S # {} /\ Cardinality(S) <= PerTick
                              /\ grabs' = grabs \cup ({h} \X S)
  /\ stopping' = [stopping EXCEPT ![h] = IF @ = "no" THEN @ ELSE "over"]
  /\ UNCHANGED <<lying, view, inside, known, reach, full, keys, mine, asks>>

\* BotManager::stop: the flag, then FleetState::erase, while the thread may be anywhere.
StopHand(h) == /\ Turn /\ stopping[h] = "no" /\ stopping' = [stopping EXCEPT ![h] = "last"] /\ keys' = ReleaseAll(keys, {h})
           /\ UNCHANGED <<lying, view, inside, known, reach, full, mine, asks, grabs>>
\* The loop ends, by the flag or by the bot's own request to stop, and shutdown() disconnects and
\* releases. (Where the bot stood and what it had matters no more, and is forgotten to keep the
\* state space small.)
ShutDownHand(h) ==
  /\ IF stopping[h] = "no" THEN Turn ELSE stopping[h] # "gone" /\ UNCHANGED turns
  /\ stopping' = [stopping EXCEPT ![h] = "gone"]
  /\ keys' = ReleaseAll(keys, {h}) /\ mine' = [mine EXCEPT ![h] = {}]
  /\ inside' = [inside EXCEPT ![h] = FALSE] /\ view' = [view EXCEPT ![h] = {}]
  /\ asks' = {a \in asks : a[1] # h} /\ grabs' = {a \in grabs : a[1] # h}
  /\ known' = [known EXCEPT ![h] = FALSE] /\ full' = [full EXCEPT ![h] = FALSE]
  /\ reach' = [reach EXCEPT ![h] = [o \in Objects |-> "far"]] /\ UNCHANGED lying

\* The server gives an object to the first who asks, and tells every bot.
Serve(h, o) ==
  /\ \/ <<h, o>> \in asks /\ asks' = asks \ {<<h, o>>} /\ UNCHANGED grabs
     \/ <<h, o>> \in grabs /\ grabs' = grabs \ {<<h, o>>} /\ UNCHANGED asks
  /\ lying' = lying \ {o}
  /\ full' = (IF o \in lying THEN [full EXCEPT ![h] = TRUE] ELSE full)
  /\ UNCHANGED <<view, inside, known, reach, keys, mine, stopping, turns>>
Told(h) == /\ inside[h] /\ view[h] # lying /\ view' = [view EXCEPT ![h] = lying]
           /\ UNCHANGED <<lying, inside, known, reach, full, keys, mine, asks, grabs, stopping, turns>>
Deposit(h) == /\ full[h] /\ full' = [full EXCEPT ![h] = FALSE]
              /\ UNCHANGED <<lying, view, inside, known, reach, keys, mine, asks, grabs, stopping, turns>>
Walk(h, o) == /\ Turn /\ inside[h] /\ \E r \in Reaches : r # reach[h][o] /\ reach' = [reach EXCEPT ![h][o] = r]
              /\ UNCHANGED <<lying, view, inside, known, full, keys, mine, asks, grabs, stopping>>
\* Requests of a bot that left are void; another world's objects are not these.
Leave(h) == /\ Turn /\ inside[h] /\ inside' = [inside EXCEPT ![h] = FALSE]
            /\ view' = [view EXCEPT ![h] = {}] /\ asks' = {a \in asks : a[1] # h}
            /\ grabs' = {a \in grabs : a[1] # h}
            /\ UNCHANGED <<lying, known, reach, full, keys, mine, stopping>>
Enter(h) == /\ ~inside[h] /\ stopping[h] # "gone"
            /\ inside' = [inside EXCEPT ![h] = TRUE] /\ view' = [view EXCEPT ![h] = lying]
            /\ UNCHANGED <<lying, known, reach, full, keys, mine, asks, grabs, stopping, turns>>

CollectNext ==
  \E h \in Hands : \/ TickAway(h) \/ TickFull(h) \/ Tick(h) \/ AutoCollect(h) \/ Told(h) \/ Deposit(h)
                   \/ Leave(h) \/ Enter(h) \/ StopHand(h) \/ ShutDownHand(h)
                   \/ \E o \in Objects : Serve(h, o) \/ Walk(h, o)
CollectSpec == CollectInit /\ [][CollectNext]_collectVars

----------------------------------------------------------------------------
(* Properties                                                                *)

\* However the bots leave, are stopped, switch and return, the modules of no two of them (unless
\* one was stopped) ask the server for one object that still lies there; and every claim is
\* remembered by the bot that must release it, as what a bot remembers is still claimed unless it
\* was stopped. Bot::collect, which asks beside the module, neither takes a claim nor loses one.
OneSeeker == /\ \A a, b \in asks : /\ a[2] = b[2] /\ a[2] \in lying
                                  /\ stopping[a[1]] = "no" /\ stopping[b[1]] = "no" => a = b
             /\ \A o \in Objects : \A h \in Hands :
                  /\ keys[o] = h => o \in mine[h]
                  /\ o \in mine[h] /\ stopping[h] = "no" => keys[o] = h

\* collect.h:25 says an object within the radius is claimed and asked for: a
\* bot with room, the object before it, gets it or leaves it to the others.
ClaimedIsAsked ==
  [][\A h \in Hands : \A o \in mine'[h] \ mine[h] : <<h, o>> \in asks']_collectVars

\* collect.h:28 says that objects owned by another bot are skipped; Bot::collect, on beside the
\* module, skips none.
OwnedAreSkipped ==
  [][\A a \in (asks' \ asks) \cup (grabs' \ grabs) : keys[a[2]] \in {NoBot, a[1]}]_collectVars
=============================================================================
