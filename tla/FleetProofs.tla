----------------------------- MODULE FleetProofs -----------------------------
(***************************************************************************)
(* Proofs about Fleet, for every number of bots, worlds and configs, and   *)
(* about its gates, for every spacing, horizon and cooldown.               *)
(***************************************************************************)
EXTENDS Fleet, Gates, FiniteSetTheorems, SequenceTheorems, TLAPS

-----------------------------------------------------------------------------
(* What the theorems need beside the properties they state.                *)

(* A tick that claims or releases is at a world of its list, and one that  *)
(* renews is in such a world.                                              *)
TickInv ==
  \A b \in Ids :
    /\ pc[b] = "renew" => \E i \in DOMAIN targets[b] : targets[b][i] = world[b]
    /\ pc[b] \in {"claim", "release"} => index[b] \in DOMAIN targets[b]

(* The ids not handed out are those of no thread. *)
UnbornAreNew == \A b \in Ids : pc[b] = "unborn" <=> b >= nextId

(* Between claiming a world and remembering it a bot owns two; before its  *)
(* first tick it remembers none.                                           *)
ClaimInv ==
  \A b \in Ids :
    /\ b \in bots /\ pc[b] = "release" => claims[targets[b][index[b]]] = b
    /\ pc[b] \in {"unborn", "create"} => claimedWorld[b] = NoWorld

-----------------------------------------------------------------------------
(* Arithmetic of the bookkeeping: the records that go in a step are        *)
(* finitely many, so the generation stays a number.                        *)
LEMMA CountType ==
  ASSUME NEW S, S \subseteq Ids
  PROVE  Cardinality(S) \in Nat
<1>1. IsFiniteSet(Ids)
  BY FleetAssumption, FS_Interval DEF Ids
<1> QED BY <1>1, FS_Subset, FS_CardinalityType

(* The owner of a free key is no bot. *)
LEMMA NoBotIsNoId == NoBot \notin Ids
BY FleetAssumption DEF Ids

(* Both halves of a reap keep the types of what they touch. *)
LEMMA ReapType ==
  ASSUME TypeOK, ReapThreads, ReapFleet
  PROVE  /\ retired' \subseteq Ids /\ joined' \subseteq Ids
         /\ Kept \subseteq Ids /\ KeptRecords \subseteq Ids
         /\ generation + Reaped \in Nat
         /\ members' \subseteq Ids
         /\ claims' \in [Worlds -> Ids \cup {NoBot}]
<1>1. Reaped \in Nat
  BY CountType DEF Reaped, TypeOK, ManagerTypeOK
<1>2. claims' \in [Worlds -> Ids \cup {NoBot}]
  BY DEF ReapFleet, TypeOK, FleetTypeOK, FS!ReleaseAll
<1> QED
  BY <1>1, <1>2
  DEF TypeOK, ManagerTypeOK, FleetTypeOK, ReapThreads, ReapFleet, Done, Kept,
      KeptRecords, FS!EraseMembers

-----------------------------------------------------------------------------
(* Type correctness: ids, program counters, claims and tick positions stay *)
(* in range whatever the manager and the threads do.                       *)
LEMMA InitType == Init => TypeOK
<1> SUFFICES ASSUME Init PROVE TypeOK OBVIOUS
<1>1. ManagerTypeOK
  BY FleetAssumption DEF Init, ManagerTypeOK, Ids
<1>2. ThreadTypeOK
  BY DEF Init, ThreadTypeOK, Pcs
<1>3. TickTypeOK
  <2>1. targets \in [Ids -> Seq(Worlds)] /\ \A b \in Ids : Len(targets[b]) = 0
    BY DEF Init
  <2> QED BY <2>1 DEF Init, TickTypeOK
<1>4. FleetTypeOK
  BY ConfigsAssumption DEF Init, FleetTypeOK
<1> QED BY <1>1, <1>2, <1>3, <1>4 DEF TypeOK

LEMMA ManagerType == ASSUME TypeOK, ManagerStep PROVE TypeOK'
<1> USE DEF TypeOK
<1>1. CASE List
  <2>1. ManagerTypeOK' BY <1>1, ReapType DEF List, ManagerTypeOK
  <2>2. ThreadTypeOK' BY <1>1 DEF List, ThreadTypeOK, signalVars
  <2>3. TickTypeOK' BY <1>1 DEF List, TickTypeOK, tickVars
  <2>4. FleetTypeOK' BY <1>1, ReapType DEF List, FleetTypeOK
  <2> QED BY <2>1, <2>2, <2>3, <2>4
<1>2. ASSUME NEW n \in Names \cup {NoName}, ReapThreads, ReapFleet,
             StartThread(n), growId' \in {growId, growId \cup {nextId}},
             UNCHANGED <<stopping, mode, stopRequested, crashed, signalVars,
                         world, tickVars, config>>
      PROVE  TypeOK'
  <2>0. nextId \in Ids
    BY <1>2, FleetAssumption DEF StartThread, ManagerTypeOK, Ids
  <2>1. ManagerTypeOK'
    <3>1. nextId' \in 0 .. MaxSpawns
      BY <1>2, FleetAssumption DEF StartThread, ManagerTypeOK
    <3>2. username' \in [Ids -> Names \cup {NoName}]
      BY <1>2, <2>0 DEF StartThread, ManagerTypeOK
    <3>3. generation' \in Nat
      BY <1>2, ReapType DEF StartThread
    <3> QED
      BY <1>2, <2>0, <3>1, <3>2, <3>3, ReapType DEF StartThread, ManagerTypeOK
  <2>2. ThreadTypeOK'
    BY <1>2, <2>0 DEF StartThread, ThreadTypeOK, signalVars, Pcs, InTry
  <2>3. TickTypeOK' BY <1>2 DEF TickTypeOK, tickVars
  <2>4. FleetTypeOK' BY <1>2, ReapType DEF FleetTypeOK
  <2> QED BY <2>1, <2>2, <2>3, <2>4
<1>3. ASSUME NEW n \in Names, Spawn(n) PROVE TypeOK'
  <2>1. CASE Matches(n) = {}
    BY <1>2, <1>3, <2>1 DEF Spawn
  <2>2. CASE Matches(n) # {}
    <3>1. ManagerTypeOK' BY <1>3, <2>2, ReapType DEF Spawn, ManagerTypeOK
    <3>2. ThreadTypeOK' BY <1>3, <2>2 DEF Spawn, ThreadTypeOK, signalVars
    <3>3. TickTypeOK' BY <1>3 DEF Spawn, TickTypeOK, tickVars
    <3>4. FleetTypeOK' BY <1>3, ReapType DEF Spawn, FleetTypeOK
    <3> QED BY <3>1, <3>2, <3>3, <3>4
  <2> QED BY <2>1, <2>2
<1>4. ASSUME NEW n \in Names \cup {NoName}, SpawnLtoken(n) PROVE TypeOK'
  BY <1>2, <1>4 DEF SpawnLtoken
<1>5. ASSUME NEW b \in Ids, StopSignal(b) PROVE TypeOK'
  <2>1. ManagerTypeOK' BY <1>5, ReapType DEF StopSignal, ManagerTypeOK
  <2>2. ThreadTypeOK' BY <1>5 DEF StopSignal, ThreadTypeOK
  <2>3. TickTypeOK' BY <1>5 DEF StopSignal, TickTypeOK, tickVars
  <2>4. FleetTypeOK' BY <1>5, ReapType DEF StopSignal, FleetTypeOK
  <2> QED BY <2>1, <2>2, <2>3, <2>4
<1>6. CASE StopErase
  <2>1. ManagerTypeOK'
    <3>1. Cardinality(launch \cap {stopping}) \in Nat
      BY CountType DEF ManagerTypeOK
    <3> QED BY <1>6, <3>1 DEF StopErase, ManagerTypeOK
  <2>2. ThreadTypeOK' BY <1>6 DEF StopErase, ThreadTypeOK, signalVars
  <2>3. TickTypeOK' BY <1>6 DEF StopErase, TickTypeOK, tickVars
  <2>4. FleetTypeOK'
    BY <1>6 DEF StopErase, FleetTypeOK, FS!ReleaseAll, FS!EraseMembers
  <2> QED BY <2>1, <2>2, <2>3, <2>4
<1>7. ASSUME NEW b \in Ids, SendCmd(b) PROVE TypeOK'
  <2>1. ThreadTypeOK' BY <1>7 DEF SendCmd, ThreadTypeOK
  <2> QED
    BY <1>7, <2>1 DEF SendCmd, ManagerTypeOK, TickTypeOK, FleetTypeOK,
                      managerVars, tickVars, fleetVars
<1>8. ASSUME NEW c \in Configs, SetConfig(c) PROVE TypeOK'
  <2>1. FleetTypeOK' BY <1>8, ConfigsAssumption DEF SetConfig, FleetTypeOK
  <2> QED
    BY <1>8, <2>1 DEF SetConfig, ManagerTypeOK, ThreadTypeOK, TickTypeOK,
                      managerVars, signalVars, tickVars
<1>9. CASE DestroySignal
  <2>1. ThreadTypeOK' BY <1>9 DEF DestroySignal, ThreadTypeOK
  <2>2. ManagerTypeOK' BY <1>9 DEF DestroySignal, ManagerTypeOK
  <2> QED
    BY <1>9, <2>1, <2>2 DEF DestroySignal, TickTypeOK, FleetTypeOK, tickVars,
                            fleetVars
<1>10. CASE DestroyJoin
  <2>1. ManagerTypeOK' BY <1>10 DEF DestroyJoin, ManagerTypeOK
  <2> QED
    BY <1>10, <2>1 DEF DestroyJoin, ThreadTypeOK, TickTypeOK, FleetTypeOK,
                       signalVars, tickVars, fleetVars
<1> QED
  BY <1>1, <1>3, <1>4, <1>5, <1>6, <1>7, <1>8, <1>9, <1>10 DEF ManagerStep

(* What a thread step leaves alone, and the counter it moves. *)
LEMMA ThreadFrame ==
  ASSUME TypeOK, NEW b \in Ids, Thread(b) \/ Crash(b)
  PROVE  UNCHANGED <<managerVars, stopFlag, config>> /\ pc' \in [Ids -> Pcs]
<1> USE DEF TypeOK, ThreadTypeOK, Goto, Pcs, InTry, LoopPcs, TickPcs,
            threadOnly, signalVars, fleetVars
<1>1. CASE Create(b) \/ Check(b) \/ Drain(b) \/ Service(b) \/ Publish(b)
  BY <1>1 DEF Create, Check, Drain, Service, Publish
<1>2. CASE SkipTick(b) \/ StartTick(b) \/ Renew(b)
  BY <1>2 DEF SkipTick, StartTick, Renew
<1>3. CASE LookUp(b) \/ ClaimTarget(b) \/ ReleaseOld(b)
  BY <1>3 DEF LookUp, ClaimTarget, ReleaseOld
<1>4. CASE Shutdown(b) \/ ShutdownRelease(b) \/ CloseQueue(b) \/ Finish(b)
  BY <1>4 DEF Shutdown, ShutdownRelease, CloseQueue, Finish
<1>5. CASE Crash(b)
  BY <1>5 DEF Crash
<1> QED BY <1>1, <1>2, <1>3, <1>4, <1>5 DEF Thread, Loop, Tick, End

LEMMA ThreadType ==
  ASSUME TypeOK, TickInv, NEW b \in Ids, Thread(b) \/ Crash(b)
  PROVE  TypeOK'
<1> USE DEF TypeOK
<1>0. UNCHANGED <<managerVars, stopFlag, config>> /\ pc' \in [Ids -> Pcs]
  BY ThreadFrame
<1>1. ManagerTypeOK'
  BY <1>0 DEF ManagerTypeOK, managerVars
<1>2. ThreadTypeOK'
  <2> USE <1>0 DEF ThreadTypeOK, threadOnly, signalVars
  <2>1. CASE Create(b) \/ Check(b) \/ Publish(b) \/ Finish(b)
    BY <2>1 DEF Create, Check, Publish, Finish
  <2>2. CASE Drain(b)
    BY <2>2 DEF Drain
  <2>3. CASE Service(b)
    BY <2>3 DEF Service
  <2>4. CASE SkipTick(b) \/ StartTick(b) \/ Renew(b) \/ LookUp(b)
               \/ ClaimTarget(b)
    BY <2>4 DEF SkipTick, StartTick, Renew, LookUp, ClaimTarget
  <2>5. CASE ReleaseOld(b)
    BY <2>5 DEF ReleaseOld
  <2>6. CASE Shutdown(b) \/ ShutdownRelease(b) \/ CloseQueue(b) \/ Crash(b)
    BY <2>6 DEF Shutdown, ShutdownRelease, CloseQueue, Crash
  <2> QED BY <2>1, <2>2, <2>3, <2>4, <2>5, <2>6 DEF Thread, Loop, Tick, End
<1>3. TickTypeOK'
  <2> USE DEF TickTypeOK
  <2>1. CASE UNCHANGED tickVars
    BY <2>1 DEF tickVars
  <2>2. ASSUME EndTick(b), claimedWorld' \in [Ids -> Worlds \cup {NoWorld}]
        PROVE  TickTypeOK'
    <3>1. targets' \in [Ids -> Seq(Worlds)] /\ Len(targets'[b]) = 0
      BY <2>2 DEF EndTick
    <3> QED BY <2>2, <3>1 DEF EndTick
  <2>3. CASE StartTick(b)
    <3>1. config.worlds \in Seq(Worlds)
      BY DEF FleetTypeOK, ConfigType
    <3>2. targets' \in [Ids -> Seq(Worlds)] /\ Len(config.worlds) \in Nat
      BY <2>3, <3>1 DEF StartTick
    <3> QED BY <2>3, <3>1, <3>2 DEF StartTick
  <2>4. CASE Renew(b)
    <3>1. CASE UNCHANGED index
      BY <2>4, <3>1 DEF Renew
    <3>2. CASE index' = [index EXCEPT ![b] = CHOOSE i \in DOMAIN targets[b] :
                                               targets[b][i] = world[b]]
      <4> DEFINE j == CHOOSE i \in DOMAIN targets[b] : targets[b][i] = world[b]
      <4>1. j \in DOMAIN targets[b]
        BY <2>4 DEF Renew, TickInv
      <4>2. j \in 1 .. Len(targets[b]) + 1
        BY <4>1
      <4>3. index' = [index EXCEPT ![b] = j]
        BY <3>2
      <4> HIDE DEF j
      <4> QED BY <2>4, <4>2, <4>3 DEF Renew
    <3> QED BY <2>4, <3>1, <3>2 DEF Renew
  <2>5. CASE LookUp(b)
    <3>1. CASE EndTick(b)
      BY <2>2, <2>5, <3>1 DEF LookUp
    <3>2. CASE index' = [index EXCEPT ![b] = @ + 1]
                 /\ index[b] \in DOMAIN targets[b] /\ UNCHANGED targets
      <4>1. index[b] + 1 \in 1 .. Len(targets[b]) + 1
        BY <3>2
      <4> QED BY <2>5, <3>2, <4>1 DEF LookUp
    <3>3. CASE UNCHANGED <<targets, index>>
      BY <2>5, <3>3 DEF LookUp
    <3> QED BY <2>5, <3>1, <3>2, <3>3 DEF LookUp
  <2>6. CASE ClaimTarget(b)
    <3>1. index[b] \in DOMAIN targets[b]
      BY <2>6 DEF ClaimTarget, TickInv
    <3>2. index[b] + 1 \in 1 .. Len(targets[b]) + 1
      BY <3>1
    <3>3. UNCHANGED <<targets, claimedWorld>>
      BY <2>6 DEF ClaimTarget
    <3>4. CASE index' = index
      BY <3>3, <3>4
    <3>5. CASE index' = [index EXCEPT ![b] = @ + 1]
      BY <3>2, <3>3, <3>5
    <3> QED BY <2>6, <3>4, <3>5 DEF ClaimTarget
  <2>7. CASE ReleaseOld(b)
    <3>1. targets[b][index[b]] \in Worlds
      BY <2>7 DEF ReleaseOld, TickInv, Goto
    <3> QED BY <2>2, <2>7, <3>1 DEF ReleaseOld
  <2>8. CASE CloseQueue(b)
    BY <2>2, <2>8 DEF CloseQueue
  <2> QED
    BY <2>1, <2>3, <2>4, <2>5, <2>6, <2>7, <2>8
    DEF Thread, Loop, Tick, End, Create, Check, Drain, Service, Publish,
        SkipTick, Shutdown, ShutdownRelease, Finish, Crash
<1>4. FleetTypeOK'
  <2> USE <1>0 DEF FleetTypeOK, threadOnly, fleetVars
  <2>1. CASE UNCHANGED <<members, claims>>
    BY <2>1
  <2>2. CASE Publish(b)
    BY <2>2 DEF Publish, FS!Upsert
  <2>3. CASE Renew(b)
    BY <2>3 DEF Renew, FS!Claim
  <2>4. CASE ClaimTarget(b)
    BY <2>4 DEF ClaimTarget, FS!Claim
  <2>5. CASE ReleaseOld(b)
    BY <2>5 DEF ReleaseOld, FS!Release
  <2>6. CASE ShutdownRelease(b)
    BY <2>6 DEF ShutdownRelease, FS!ReleaseAll
  <2> QED
    BY <2>1, <2>2, <2>3, <2>4, <2>5, <2>6
    DEF Thread, Loop, Tick, End, Create, Check, Drain, Service, SkipTick,
        StartTick, LookUp, Shutdown, CloseQueue, Finish, Crash
<1> QED BY <1>1, <1>2, <1>3, <1>4

-----------------------------------------------------------------------------
(* The tick's own invariant.  A manager step can only touch it by starting *)
(* a thread, which is in no tick.                                          *)
LEMMA ManagerTick == ASSUME TypeOK, TickInv, ManagerStep PROVE TickInv'
<1>1. UNCHANGED <<world, tickVars>>
  BY DEF ManagerStep, List, Spawn, SpawnLtoken, StopSignal, StopErase, SendCmd,
         SetConfig, DestroySignal, DestroyJoin
<1>2. \A b \in Ids : pc'[b] \in {pc[b], "create"}
  BY DEF ManagerStep, List, Spawn, SpawnLtoken, StartThread, StopSignal,
         StopErase, SendCmd, SetConfig, DestroySignal, DestroyJoin, TypeOK,
         ThreadTypeOK
<1> QED BY <1>1, <1>2 DEF TickInv, tickVars

LEMMA ThreadTick ==
  ASSUME TypeOK, TickInv, NEW b \in Ids, Thread(b) \/ Crash(b)
  PROVE  TickInv'
<1> SUFFICES ASSUME NEW a \in Ids
             PROVE  /\ pc'[a] = "renew" => \E i \in DOMAIN targets'[a] :
                                             targets'[a][i] = world'[a]
                    /\ pc'[a] \in {"claim", "release"}
                          => index'[a] \in DOMAIN targets'[a]
  BY DEF TickInv
<1> USE DEF TypeOK, ThreadTypeOK, TickTypeOK, Goto
<1>1. CASE a # b
  BY <1>1, SMTT(30)
  DEF TickInv, Thread, Loop, Tick, End, Crash, Create, Check, Drain,
     Service, Publish, SkipTick, StartTick, Renew, LookUp, ClaimTarget,
     ReleaseOld, EndTick, Shutdown, ShutdownRelease, CloseQueue, Finish,
     tickVars, threadOnly
<1>2. CASE a = b
  <2>1. CASE StartTick(b)
    BY <1>2, <2>1 DEF StartTick, TargetSet, threadOnly
  <2>2. CASE Renew(b)
    <3> DEFINE j == CHOOSE i \in DOMAIN targets[b] : targets[b][i] = world[b]
    <3>1. j \in DOMAIN targets[b]
      BY <2>2 DEF Renew, TickInv
    <3> QED BY <1>2, <2>2, <3>1 DEF Renew
  <2>3. CASE LookUp(b)
    BY <1>2, <2>3 DEF LookUp
  <2>4. CASE ClaimTarget(b)
    BY <1>2, <2>4 DEF ClaimTarget, TickInv
  <2>5. CASE pc'[b] \notin {"renew", "claim", "release"}
    BY <1>2, <2>5
  <2> QED
    BY <2>1, <2>2, <2>3, <2>4, <2>5
    DEF Thread, Loop, Tick, End, Crash, Create, Check, Drain, Service, Publish,
        SkipTick, ReleaseOld, Shutdown, ShutdownRelease, CloseQueue, Finish
<1> QED BY <1>1, <1>2

(* Type correctness of the fleet for any number of bots and worlds. *)
THEOREM TypeCorrect == Spec => [](TypeOK /\ TickInv)
<1>1. Init => TypeOK /\ TickInv
  BY InitType DEF Init, TickInv
<1>2. TypeOK /\ TickInv /\ [Next]_vars => (TypeOK /\ TickInv)'
  <2> SUFFICES ASSUME TypeOK, TickInv, [Next]_vars PROVE (TypeOK /\ TickInv)'
    OBVIOUS
  <2>1. CASE ManagerStep
    BY <2>1, ManagerType, ManagerTick
  <2>2. CASE \E b \in Ids : Thread(b) \/ Crash(b)
    BY <2>2, ThreadType, ThreadTick
  <2>3. CASE UNCHANGED vars
    BY <2>3 DEF vars, managerVars, signalVars, tickVars, fleetVars, TypeOK,
       ManagerTypeOK, ThreadTypeOK, TickTypeOK, FleetTypeOK, TickInv
  <2> QED BY <2>1, <2>2, <2>3 DEF Next, Terminated
<1> QED BY <1>1, <1>2, PTL DEF Spec

-----------------------------------------------------------------------------
(* Thread handles.  The argument needs that ids of no thread are exactly   *)
(* those from nextId on, so that the handle of a new thread is new.        *)
Handles == HandleOwnedOnce /\ UnbornAreNew

LEMMA ManagerHandles == ASSUME TypeOK, Handles, ManagerStep PROVE Handles'
<1> USE DEF OwnerIdle
<1>1. ASSUME NEW n, StartThread(n), ReapThreads, stopping = NoBot,
             UNCHANGED stopping
      PROVE  Handles'
  <2>1. nextId \in Ids /\ nextId \in Nat
    BY <1>1, FleetAssumption DEF StartThread, TypeOK, ManagerTypeOK, Ids
  <2>2. UnbornAreNew'
    BY <1>1, <2>1 DEF StartThread, Handles, UnbornAreNew, TypeOK, ThreadTypeOK,
       Ids
  <2>3. Spawned' = Spawned \cup {nextId} /\ nextId \notin Spawned
    BY <1>1, <2>1 DEF StartThread, Spawned
  <2>4. \A b \in joined' : pc'[b] = "done"
    BY <1>1, <2>1, <2>3 DEF StartThread, ReapThreads, Done, Handles,
       HandleOwnedOnce, TypeOK, ThreadTypeOK, ManagerTypeOK
  <2> QED
    BY <1>1, <2>2, <2>3, <2>4
    DEF Handles, HandleOwnedOnce, StartThread, ReapThreads, Kept, Done, Stopping
<1>2. ASSUME ReapThreads, UNCHANGED <<nextId, pc, stopping>>, bots' = Kept,
             stopping = NoBot
      PROVE  Handles'
  BY <1>2 DEF Handles, HandleOwnedOnce, UnbornAreNew, ReapThreads, Kept, Done,
     Spawned, Stopping
<1>3. CASE List
  BY <1>2, <1>3 DEF List
<1>4. ASSUME NEW n \in Names, Spawn(n) PROVE Handles'
  BY <1>1, <1>2, <1>4 DEF Spawn
<1>5. ASSUME NEW n \in Names \cup {NoName}, SpawnLtoken(n) PROVE Handles'
  BY <1>1, <1>5 DEF SpawnLtoken
<1>6. ASSUME NEW b \in Ids, StopSignal(b) PROVE Handles'
  <2>1. Kept \subseteq Ids
    BY DEF Kept, TypeOK, ManagerTypeOK
  <2> QED
    BY <1>6, <2>1, NoBotIsNoId
    DEF StopSignal, Handles, HandleOwnedOnce, UnbornAreNew, ReapThreads, Kept,
        Done, Spawned, Stopping
<1>7. CASE StopErase
  BY <1>7 DEF StopErase, Handles, HandleOwnedOnce, UnbornAreNew, Spawned,
     Stopping
<1>8. CASE DestroyJoin
  BY <1>8 DEF DestroyJoin, Handles, HandleOwnedOnce, UnbornAreNew, Spawned,
     Stopping
<1>9. CASE UNCHANGED <<nextId, bots, retired, joined, stopping, pc>>
  BY <1>9 DEF Handles, HandleOwnedOnce, UnbornAreNew, Spawned, Stopping
<1> QED
  BY <1>3, <1>4, <1>5, <1>6, <1>7, <1>8, <1>9
  DEF ManagerStep, SendCmd, SetConfig, DestroySignal, managerVars

(* No thread step starts a thread, and none leaves "done". *)
LEMMA ThreadMoves ==
  ASSUME TypeOK, NEW b \in Ids, Thread(b) \/ Crash(b)
  PROVE  /\ pc[b] \notin {"unborn", "done"} /\ pc'[b] # "unborn"
         /\ \A a \in Ids \ {b} : pc'[a] = pc[a]
BY DEF Thread, Loop, Tick, End, Crash, Create, Check, Drain, Service, Publish,
   SkipTick, StartTick, Renew, LookUp, ClaimTarget, ReleaseOld, Shutdown,
   ShutdownRelease, CloseQueue, Finish, Goto, TypeOK, ThreadTypeOK, InTry,
   LoopPcs, TickPcs

LEMMA ThreadHandles ==
  ASSUME TypeOK, Handles, NEW b \in Ids, Thread(b) \/ Crash(b)
  PROVE  Handles'
<1>1. UNCHANGED <<nextId, bots, retired, joined, stopping>>
  BY ThreadFrame DEF managerVars
<1>2. joined \subseteq Ids
  BY DEF TypeOK, ManagerTypeOK
<1> QED
  BY <1>1, <1>2, ThreadMoves
  DEF Handles, HandleOwnedOnce, UnbornAreNew, Spawned, Stopping

-----------------------------------------------------------------------------
(* The map of live bots is a roster. *)
THEOREM RefinesRoster == Spec => ImplementsRoster
<1>1. Init => R!RosterInit
  BY DEF Init, R!RosterInit
<1>2. TypeOK /\ [Next]_vars => [R!RosterNext]_<<nextId, bots>>
  <2> SUFFICES ASSUME TypeOK, [Next]_vars, ~UNCHANGED <<nextId, bots>>
               PROVE  R!RosterNext
    OBVIOUS
  <2>1. ASSUME NEW gone \in SUBSET bots,
               \/ bots' = bots \ gone /\ nextId' = nextId
               \/ bots' = (bots \ gone) \cup {nextId} /\ nextId' = nextId + 1
        PROVE  R!RosterNext
    BY <2>1 DEF R!RosterNext
  <2>2. CASE \E b \in Ids : Thread(b) \/ Crash(b)
    BY <2>2, ThreadFrame DEF managerVars
  <2>3. Done(bots) \in SUBSET bots /\ Kept = bots \ Done(bots)
    BY DEF Done, Kept
  <2>4. CASE List
    BY <2>1, <2>3, <2>4 DEF List
  <2>5. ASSUME NEW n, Spawn(n) PROVE R!RosterNext
    BY <2>1, <2>3, <2>5 DEF Spawn, StartThread
  <2>6. ASSUME NEW n, SpawnLtoken(n) PROVE R!RosterNext
    BY <2>1, <2>3, <2>6 DEF SpawnLtoken, StartThread
  <2>7. ASSUME NEW b, StopSignal(b) PROVE R!RosterNext
    <3>1. Done(bots) \cup {b} \in SUBSET bots
          /\ Kept \ {b} = bots \ (Done(bots) \cup {b})
      BY <2>7, <2>3 DEF StopSignal
    <3> QED BY <2>1, <2>7, <3>1 DEF StopSignal
  <2>8. CASE DestroyJoin
    <3>1. bots' = bots \ bots /\ nextId' = nextId
      BY <2>8 DEF DestroyJoin
    <3> QED BY <2>1, <3>1
  <2> QED
    BY <2>2, <2>4, <2>5, <2>6, <2>7, <2>8
    DEF Next, ManagerStep, StopErase, SendCmd, SetConfig, DestroySignal,
        Terminated, managerVars, vars
<1> QED
  BY <1>1, <1>2, TypeCorrect, PTL DEF Spec, ImplementsRoster, R!RosterSpec

-----------------------------------------------------------------------------
(* Worlds.  A bot of the roster owns what it remembers, and in the step    *)
(* between claim and release also what it is about to remember.            *)
Ownership == BeliefIsOwnership /\ ClaimInv

LEMMA ManagerOwnership ==
  ASSUME TypeOK, TickInv, Handles, Ownership, ManagerStep PROVE Ownership'
<1> USE DEF TypeOK, ManagerTypeOK, ThreadTypeOK
<1>1. UNCHANGED tickVars
  BY DEF ManagerStep, List, Spawn, SpawnLtoken, StopSignal, StopErase, SendCmd,
         SetConfig, DestroySignal, DestroyJoin
<1>2. \A b \in Ids : \/ pc'[b] = pc[b]
                     \/ pc[b] = "unborn" /\ pc'[b] = "create"
  BY FleetAssumption
  DEF ManagerStep, List, Spawn, SpawnLtoken, StartThread, StopSignal,
      StopErase, SendCmd, SetConfig, DestroySignal, DestroyJoin, Handles,
      UnbornAreNew, Ids
<1>3. \A b \in bots' : b \in bots \/ pc'[b] = "create"
  BY FleetAssumption
  DEF ManagerStep, List, Spawn, SpawnLtoken, StartThread, StopSignal, Kept,
      StopErase, SendCmd, SetConfig, DestroySignal, DestroyJoin, managerVars,
      Ids
(* Only a finished bot, or the one being stopped, loses a claim. *)
<1>4. \A b \in bots' : \A w \in Worlds :
        claims[w] = b => claims'[w] = b \/ pc[b] = "done"
  <2>1. CASE ReapFleet
    BY <2>1 DEF ReapFleet, Done, FS!ReleaseAll, FleetTypeOK
  <2>2. CASE StopErase
    <3>1. \A b \in bots' : b # stopping
      BY <2>2 DEF StopErase, Handles, HandleOwnedOnce, Stopping
    <3> QED BY <2>2, <3>1 DEF StopErase, FS!ReleaseAll, FleetTypeOK
  <2>3. CASE UNCHANGED claims
    BY <2>3
  <2> QED
    BY <2>1, <2>2, <2>3
    DEF ManagerStep, List, Spawn, SpawnLtoken, StopSignal, SendCmd, SetConfig,
        DestroySignal, DestroyJoin, fleetVars
<1>5. BeliefIsOwnership'
  <2> SUFFICES ASSUME NEW b \in bots', claimedWorld'[b] # NoWorld,
                      pc'[b] \in LoopPcs
               PROVE  claims'[claimedWorld'[b]] = b
    BY DEF BeliefIsOwnership
  <2>1. b \in bots /\ pc'[b] = pc[b]
    BY <1>2, <1>3 DEF LoopPcs, TickPcs
  <2>2. claimedWorld[b] \in Worlds /\ claims[claimedWorld[b]] = b
    BY <1>1, <2>1 DEF Ownership, BeliefIsOwnership, TickTypeOK, tickVars
  <2> QED BY <1>1, <1>4, <2>1, <2>2 DEF tickVars, LoopPcs, TickPcs
<1>6. ClaimInv'
  <2> SUFFICES ASSUME NEW b \in Ids
               PROVE  /\ b \in bots' /\ pc'[b] = "release"
                            => claims'[targets'[b][index'[b]]] = b
                      /\ pc'[b] \in {"unborn", "create"}
                            => claimedWorld'[b] = NoWorld
    BY DEF ClaimInv
  <2>1. CASE b \in bots' /\ pc'[b] = "release"
    <3>1. b \in bots /\ pc[b] = "release"
      BY <1>2, <1>3, <2>1
    <3>2. targets[b][index[b]] \in Worlds
          /\ claims[targets[b][index[b]]] = b
      BY <3>1 DEF TickInv, TickTypeOK, Ownership, ClaimInv
    <3> QED BY <1>1, <1>4, <2>1, <3>1, <3>2 DEF tickVars
  <2>2. CASE pc'[b] \in {"unborn", "create"}
    BY <1>1, <1>2, <2>2 DEF Ownership, ClaimInv, tickVars
  <2> QED BY <2>1, <2>2
<1> QED BY <1>5, <1>6 DEF Ownership

(* What a thread's step does to the claims of the other bots: nothing. *)
LEMMA OthersKeepClaims ==
  ASSUME TypeOK, TickInv, NEW b \in Ids, Thread(b) \/ Crash(b),
         NEW a \in Ids, a # b, NEW w \in Worlds, claims[w] = a
  PROVE  claims'[w] = a
<1> USE NoBotIsNoId DEF TypeOK, FleetTypeOK, TickTypeOK
<1>1. CASE UNCHANGED claims
  BY <1>1
<1>2. CASE Renew(b)
  BY <1>2 DEF Renew, FS!Claim
<1>3. CASE ClaimTarget(b)
  BY <1>3 DEF ClaimTarget, FS!Claim
<1>4. CASE ReleaseOld(b)
  BY <1>4 DEF ReleaseOld, FS!Release
<1>5. CASE ShutdownRelease(b)
  BY <1>5 DEF ShutdownRelease, FS!ReleaseAll
<1> QED
  BY <1>1, <1>2, <1>3, <1>4, <1>5
  DEF Thread, Loop, Tick, End, Create, Check, Drain, Service, Publish,
      SkipTick, StartTick, LookUp, Shutdown, CloseQueue, Finish, Crash,
      threadOnly, fleetVars

LEMMA ThreadOwnership ==
  ASSUME TypeOK, TickInv, Ownership, NEW b \in Ids, Thread(b) \/ Crash(b)
  PROVE  Ownership'
<1> DEFINE OwnsHeld(a) ==
             claimedWorld[a] # NoWorld /\ pc[a] \in LoopPcs
               => claims[claimedWorld[a]] = a
           OwnsNext(a) ==
             pc[a] = "release" => claims[targets[a][index[a]]] = a
           NoneYet(a) ==
             pc[a] \in {"unborn", "create"} => claimedWorld[a] = NoWorld
<1> SUFFICES ASSUME NEW a \in Ids
             PROVE  (a \in bots => OwnsHeld(a) /\ OwnsNext(a))' /\ NoneYet(a)'
  <2>1. bots' \subseteq Ids
    BY ThreadType DEF TypeOK, ManagerTypeOK
  <2> QED BY <2>1 DEF Ownership, BeliefIsOwnership, ClaimInv
<1>1. bots' = bots
  BY ThreadFrame DEF managerVars
<1>2. (a \in bots => OwnsHeld(a) /\ OwnsNext(a)) /\ NoneYet(a)
  BY DEF Ownership, BeliefIsOwnership, ClaimInv
<1> USE DEF TypeOK, ThreadTypeOK, TickTypeOK, FleetTypeOK
<1>3. CASE a # b
  <2>1. /\ pc'[a] = pc[a] /\ claimedWorld'[a] = claimedWorld[a]
        /\ targets'[a] = targets[a] /\ index'[a] = index[a]
    BY <1>3 DEF Thread, Loop, Tick, End, Crash, Create, Check, Drain, Service,
       Publish, SkipTick, StartTick, Renew, LookUp, ClaimTarget, ReleaseOld,
       EndTick, Shutdown, ShutdownRelease, CloseQueue, Finish, Goto, tickVars
  <2>2. pc[a] = "release" => targets[a][index[a]] \in Worlds
    BY DEF TickInv
  <2> QED BY <1>1, <1>2, <1>3, <2>1, <2>2, OthersKeepClaims
<1>4. CASE a = b
  <2> USE <1>1, <1>2, <1>4 DEF Goto, LoopPcs, TickPcs
  <2>1. CASE Create(b)
    BY <2>1 DEF Create, tickVars
  <2>2. CASE Check(b) \/ Drain(b) \/ Service(b) \/ Publish(b)
    BY <2>2 DEF Check, Drain, Service, Publish, tickVars, threadOnly, fleetVars
  <2>3. CASE SkipTick(b) \/ StartTick(b) \/ LookUp(b)
    BY <2>3 DEF SkipTick, StartTick, LookUp, tickVars, threadOnly, fleetVars
  <2>4. CASE Renew(b)
    <3> DEFINE j == CHOOSE i \in DOMAIN targets[b] : targets[b][i] = world[b]
    <3>1. targets[b][j] = world[b] /\ world[b] \in Worlds
      BY <2>4 DEF Renew, TickInv
    <3>2. \A w \in Worlds : claims[w] = b => claims'[w] = b
      BY <2>4 DEF Renew, FS!Claim
    <3>3. b \in bots => OwnsHeld(b)'
      BY <2>4, <3>2 DEF Renew
    <3>4. CASE FS!ClaimGranted(claims, world[b], b)
      <4>1. claims'[world[b]] = b
        BY <2>4, <3>1, <3>4 DEF Renew, FS!Claim, FS!ClaimGranted
      <4>2. targets' = targets /\ index'[b] = j
        BY <2>4, <3>4 DEF Renew
      <4> HIDE DEF j
      <4>3. OwnsNext(b)'
        BY <3>1, <4>1, <4>2
      <4> QED BY <2>4, <3>3, <4>3 DEF Renew
    <3>5. CASE ~FS!ClaimGranted(claims, world[b], b)
      BY <2>4, <3>3, <3>5 DEF Renew
    <3> QED BY <3>4, <3>5
  <2>5. CASE ClaimTarget(b)
    <3> DEFINE w == targets[b][index[b]]
    <3>1. w \in Worlds
      BY <2>5 DEF ClaimTarget, TickInv
    <3>2. \A v \in Worlds : claims[v] = b => claims'[v] = b
      BY <2>5 DEF ClaimTarget, FS!Claim
    <3>3. b \in bots => OwnsHeld(b)'
      BY <2>5, <3>2 DEF ClaimTarget
    <3>4. CASE FS!ClaimGranted(claims, w, b)
      BY <2>5, <3>1, <3>3, <3>4 DEF ClaimTarget, FS!Claim, FS!ClaimGranted
    <3>5. CASE ~FS!ClaimGranted(claims, w, b)
      BY <2>5, <3>3, <3>5 DEF ClaimTarget
    <3> QED BY <3>4, <3>5
  <2>6. CASE ReleaseOld(b)
    <3> DEFINE w == targets[b][index[b]]
    <3>1. w \in Worlds
      BY <2>6 DEF ReleaseOld, TickInv
    <3>2. b \in bots => claims'[w] = b
      BY <2>6, <3>1 DEF ReleaseOld, FS!Release
    <3> QED BY <2>6, <3>2 DEF ReleaseOld
  <2>7. CASE Shutdown(b) \/ ShutdownRelease(b) \/ CloseQueue(b) \/ Finish(b)
               \/ Crash(b)
    BY <2>7 DEF Shutdown, ShutdownRelease, CloseQueue, Finish, Crash
  <2> QED
    BY <2>1, <2>2, <2>3, <2>4, <2>5, <2>6, <2>7 DEF Thread, Loop, Tick, End
<1> QED BY <1>3, <1>4

-----------------------------------------------------------------------------
(* The records.  A new thread's id is no GrowID of before, so the dedup by *)
(* name among those in the map is all it takes.                            *)
Records == LaunchIsRoster /\ OneEntryPerGrowId /\ growId \subseteq Spawned

LEMMA ManagerRecords ==
  ASSUME TypeOK, Handles, Records, ManagerStep PROVE Records'
<1> USE DEF OwnerIdle, TypeOK, ManagerTypeOK
<1>1. ASSUME OwnerIdle, ReapThreads, bots' = Kept, launch' = KeptRecords,
             UNCHANGED <<nextId, username, growId, stopping, mode>>
      PROVE  Records'
  BY <1>1 DEF Records, LaunchIsRoster, OneEntryPerGrowId, Kept, KeptRecords,
     Done, Spawned, Stopping
<1>2. ASSUME NEW n, StartThread(n), OwnerIdle, UNCHANGED <<stopping, mode>>,
             \/ n \in Names /\ Matches(n) = {} /\ growId' = growId \cup {nextId}
             \/ growId' = growId
      PROVE  Records'
  <2>1. nextId \in Ids /\ nextId \notin growId /\ nextId \notin bots
        /\ Spawned' = Spawned \cup {nextId}
    BY <1>2, FleetAssumption
    DEF StartThread, Ids, Records, Handles, HandleOwnedOnce, Spawned
  <2>2. LaunchIsRoster'
    BY <1>2 DEF StartThread, Records, LaunchIsRoster, Kept, KeptRecords, Done,
       Stopping
  <2>3. \A a \in Kept : a \in bots /\ username'[a] = username[a]
    BY <1>2, <2>1 DEF StartThread, Kept
  <2>4. CASE growId' = growId
    <3>1. bots' \cap growId' \subseteq Kept \cap growId
      BY <1>2, <2>1, <2>4 DEF StartThread
    <3> QED
      BY <2>1, <2>2, <2>3, <2>4, <3>1 DEF Records, OneEntryPerGrowId
  <2>5. CASE n \in Names /\ Matches(n) = {} /\ growId' = growId \cup {nextId}
    <3>1. \A a \in Kept : username'[a] # n
      BY <2>3, <2>5, FleetAssumption DEF Matches
    <3>2. username'[nextId] = n
      BY <1>2, <2>1 DEF StartThread
    <3>3. bots' \cap growId' \subseteq (Kept \cap growId) \cup {nextId}
      BY <1>2, <2>1, <2>5 DEF StartThread
    <3>4. OneEntryPerGrowId'
      BY <2>3, <3>1, <3>2, <3>3 DEF Records, OneEntryPerGrowId
    <3> QED BY <2>1, <2>2, <2>5, <3>4 DEF Records
  <2> QED BY <1>2, <2>4, <2>5
<1>3. CASE List
  BY <1>1, <1>3 DEF List
<1>4. ASSUME NEW n \in Names, Spawn(n) PROVE Records'
  BY <1>1, <1>2, <1>4 DEF Spawn
<1>5. ASSUME NEW n \in Names \cup {NoName}, SpawnLtoken(n) PROVE Records'
  BY <1>2, <1>5 DEF SpawnLtoken
<1>6. ASSUME NEW b \in Ids, StopSignal(b) PROVE Records'
  BY <1>6, NoBotIsNoId
  DEF StopSignal, Records, LaunchIsRoster, OneEntryPerGrowId, Kept,
      KeptRecords, Done, Spawned, Stopping
<1>7. CASE StopErase
  BY <1>7
  DEF StopErase, Handles, HandleOwnedOnce, Records, LaunchIsRoster,
      OneEntryPerGrowId, Spawned, Stopping
<1>8. CASE DestroyJoin \/ DestroySignal
  BY <1>8
  DEF DestroyJoin, DestroySignal, Records, LaunchIsRoster, OneEntryPerGrowId,
      Spawned
<1>9. CASE UNCHANGED managerVars
  BY <1>9 DEF managerVars, Records, LaunchIsRoster, OneEntryPerGrowId,
     Spawned, Stopping
<1> QED
  BY <1>3, <1>4, <1>5, <1>6, <1>7, <1>8, <1>9
  DEF ManagerStep, SendCmd, SetConfig

LEMMA ThreadRecords ==
  ASSUME TypeOK, Records, NEW b \in Ids, Thread(b) \/ Crash(b)
  PROVE  Records'
BY ThreadFrame
DEF managerVars, Records, LaunchIsRoster, OneEntryPerGrowId, Spawned, Stopping

-----------------------------------------------------------------------------
(* Endings.  A thread that has not begun to tick holds nothing, a handle   *)
(* leaves the map by stop() only with the flag set, and a thread that was  *)
(* joined takes no step: what the reap erased stays erased.                *)
NoneHeldYet ==
  \A w \in Worlds : claims[w] # NoBot => pc[claims[w]] \notin {"unborn", "create"}
StoppedAreFlagged == \A b \in retired \cup Stopping : stopFlag[b]
Endings ==
  /\ ClaimsEndWithThread /\ NaturalDeathLeavesNothing
  /\ NoneHeldYet /\ StoppedAreFlagged

LEMMA ManagerEndings ==
  ASSUME TypeOK, Handles, Endings, ManagerStep PROVE Endings'
<1> USE NoBotIsNoId DEF TypeOK, ManagerTypeOK, ThreadTypeOK, FleetTypeOK
<1>1. /\ UNCHANGED crashed
      /\ \A b \in Ids : stopFlag[b] => stopFlag'[b]
      /\ mode' = "up" => mode = "up"
  BY DEF ManagerStep, List, Spawn, SpawnLtoken, StartThread, StopSignal,
     StopErase, SendCmd, SetConfig, DestroySignal, DestroyJoin, signalVars,
     managerVars, OwnerIdle
<1>2. \A b \in Ids : \/ pc'[b] = pc[b]
                     \/ pc[b] = "unborn" /\ pc'[b] = "create"
  BY FleetAssumption
  DEF ManagerStep, List, Spawn, SpawnLtoken, StartThread, StopSignal,
      StopErase, SendCmd, SetConfig, DestroySignal, DestroyJoin, Handles,
      UnbornAreNew, Ids, managerVars
(* Claims and views only go. *)
<1>3. /\ \A w \in Worlds : claims'[w] \in {claims[w], NoBot}
      /\ members' \subseteq members
  <2>1. CASE ReapFleet
    BY <2>1 DEF ReapFleet, FS!ReleaseAll, FS!EraseMembers
  <2>2. CASE StopErase
    BY <2>2 DEF StopErase, FS!ReleaseAll, FS!EraseMembers
  <2>3. CASE UNCHANGED <<claims, members>>
    BY <2>3
  <2> QED
    BY <2>1, <2>2, <2>3
    DEF ManagerStep, List, Spawn, SpawnLtoken, StopSignal, SendCmd, SetConfig,
        DestroySignal, DestroyJoin, fleetVars
<1>4. ClaimsEndWithThread' /\ NoneHeldYet'
  <2> SUFFICES ASSUME NEW w \in Worlds, claims'[w] # NoBot
               PROVE  /\ pc'[claims'[w]] \in InTry \/ crashed'[claims'[w]]
                      /\ pc'[claims'[w]] \notin {"unborn", "create"}
    BY DEF ClaimsEndWithThread, NoneHeldYet
  <2>1. claims'[w] = claims[w] /\ claims[w] \in Ids
    BY <1>3
  <2>2. /\ pc[claims[w]] \in InTry \/ crashed[claims[w]]
        /\ pc[claims[w]] \notin {"unborn", "create"}
    BY <2>1 DEF Endings, ClaimsEndWithThread, NoneHeldYet
  <2> QED BY <1>1, <1>2, <2>1, <2>2
(* The map's threads that are done are reaped with their claims and views; *)
(* those of the retired list were flagged.                                 *)
<1> DEFINE Swept == /\ \A b \in retired' \cup Stopping' : stopFlag'[b]
                    /\ mode' = "up" => \A b \in joined' :
                         \/ b \in joined
                         \/ stopFlag'[b]
                         \/ b \notin members' /\ \A w \in Worlds : claims'[w] # b
<1>5. Swept
  <2> USE DEF Endings, StoppedAreFlagged
  <2>1. CASE ReapThreads /\ ReapFleet /\ UNCHANGED <<stopping, stopFlag>>
    BY <2>1 DEF ReapThreads, ReapFleet, Done, Stopping, FS!ReleaseAll,
       FS!EraseMembers
  <2>2. ASSUME NEW b \in Ids, StopSignal(b) PROVE Swept
    BY <2>2 DEF StopSignal, ReapThreads, ReapFleet, Done, Stopping,
       FS!ReleaseAll, FS!EraseMembers, OwnerIdle
  <2>3. CASE StopErase
    BY <2>3 DEF StopErase, Stopping, signalVars
  <2>4. CASE DestroySignal \/ DestroyJoin
    BY <2>4 DEF DestroySignal, DestroyJoin, Stopping, OwnerIdle, signalVars
  <2>5. CASE UNCHANGED <<managerVars, stopFlag>>
    BY <2>5 DEF managerVars, Stopping
  <2> QED
    BY <2>1, <2>2, <2>3, <2>4, <2>5
    DEF ManagerStep, List, Spawn, SpawnLtoken, SendCmd, SetConfig, signalVars
<1>6. NaturalDeathLeavesNothing'
  <2> SUFFICES ASSUME mode' = "up", NEW b \in joined', ~stopFlag'[b]
               PROVE  b \notin members' /\ \A w \in Worlds : claims'[w] # b
    BY DEF NaturalDeathLeavesNothing
  <2>1. CASE b \in joined
    <3>1. b \in Ids /\ ~stopFlag[b] /\ mode = "up"
      BY <1>1, <2>1
    <3>2. b \notin members /\ \A w \in Worlds : claims[w] # b
      BY <2>1, <3>1 DEF Endings, NaturalDeathLeavesNothing
    <3> QED BY <1>3, <3>1, <3>2
  <2>2. CASE b \notin joined
    BY <1>5, <2>2
  <2> QED BY <2>1, <2>2
<1> QED BY <1>4, <1>5, <1>6 DEF Endings, StoppedAreFlagged

(* What a thread adds to the registry is its own, while it ticks.          *)
LEMMA ThreadAdds ==
  ASSUME TypeOK, TickInv, NEW b \in Ids, Thread(b) \/ Crash(b)
  PROVE  /\ members' \subseteq members \cup {b}
         /\ \A w \in Worlds : claims'[w] # claims[w] /\ claims'[w] # NoBot =>
              claims'[w] = b /\ pc'[b] \in LoopPcs
<1> USE NoBotIsNoId
        DEF TypeOK, FleetTypeOK, ThreadTypeOK, LoopPcs, TickPcs, Goto
<1>1. CASE UNCHANGED <<members, claims>>
  BY <1>1
<1>2. CASE Publish(b)
  BY <1>2 DEF Publish, FS!Upsert
<1>3. CASE Renew(b)
  BY <1>3 DEF Renew, FS!Claim
<1>4. CASE ClaimTarget(b)
  BY <1>4 DEF ClaimTarget, FS!Claim
<1>5. CASE ReleaseOld(b)
  BY <1>5 DEF ReleaseOld, FS!Release
<1>6. CASE ShutdownRelease(b)
  BY <1>6 DEF ShutdownRelease, FS!ReleaseAll
<1> QED
  BY <1>1, <1>2, <1>3, <1>4, <1>5, <1>6
  DEF Thread, Loop, Tick, End, Create, Check, Drain, Service, SkipTick,
      StartTick, LookUp, Shutdown, CloseQueue, Finish, Crash, threadOnly,
      fleetVars

(* How a thread leaves its try block: before its first tick, by shutdown,  *)
(* or by an exception.                                                     *)
LEMMA ThreadLeaves ==
  ASSUME TypeOK, NEW b \in Ids, Thread(b) \/ Crash(b)
  PROVE  /\ \/ pc'[b] \in InTry \ {"create"}
            \/ pc[b] = "create"
            \/ ShutdownRelease(b)
            \/ crashed'[b]
            \/ pc[b] \notin InTry
         /\ \A a \in Ids : crashed[a] => crashed'[a]
         /\ pc'[b] \notin {"unborn", "create"}
<1> USE DEF TypeOK, ThreadTypeOK, Goto, InTry, LoopPcs, TickPcs, Pcs
<1>1. CASE Create(b) \/ Check(b) \/ Drain(b) \/ Service(b) \/ Publish(b)
  BY <1>1 DEF Create, Check, Drain, Service, Publish, threadOnly
<1>2. CASE Tick(b)
  BY <1>2 DEF Tick, SkipTick, StartTick, Renew, LookUp, ClaimTarget, ReleaseOld,
     threadOnly
<1>3. CASE Shutdown(b) \/ ShutdownRelease(b) \/ CloseQueue(b) \/ Finish(b)
  BY <1>3 DEF Shutdown, ShutdownRelease, CloseQueue, Finish, threadOnly
<1>4. CASE Crash(b)
  BY <1>4 DEF Crash
<1> QED BY <1>1, <1>2, <1>3, <1>4 DEF Thread, Loop, End

LEMMA ThreadEndings ==
  ASSUME TypeOK, TickInv, Handles, Endings, NEW b \in Ids, Thread(b) \/ Crash(b)
  PROVE  Endings'
<1> USE NoBotIsNoId DEF TypeOK, ManagerTypeOK, ThreadTypeOK, FleetTypeOK
<1>1. UNCHANGED <<managerVars, stopFlag>>
  BY ThreadFrame
<1>2. claims' \in [Worlds -> Ids \cup {NoBot}]
  BY ThreadType
<1>3. ASSUME NEW w \in Worlds, claims'[w] # NoBot
      PROVE  /\ pc'[claims'[w]] \in InTry \/ crashed'[claims'[w]]
             /\ pc'[claims'[w]] \notin {"unborn", "create"}
  <2>1. claims'[w] \in Ids
    BY <1>2, <1>3
  <2>2. CASE claims'[w] # claims[w]
    BY <1>3, <2>2, ThreadAdds DEF InTry, LoopPcs, TickPcs
  <2>3. CASE claims'[w] = claims[w]
    <3>1. /\ pc[claims[w]] \in InTry \/ crashed[claims[w]]
          /\ pc[claims[w]] \notin {"unborn", "create"}
      BY <1>3, <2>3 DEF Endings, ClaimsEndWithThread, NoneHeldYet
    <3>2. CASE claims[w] # b
      BY <2>1, <2>3, <3>1, <3>2, ThreadMoves, ThreadLeaves
    <3>3. CASE claims[w] = b
      <4>1. ~ShutdownRelease(b)
        BY <1>3, <2>3, <3>3 DEF ShutdownRelease, FS!ReleaseAll
      <4> QED BY <2>3, <3>1, <3>3, <4>1, ThreadLeaves
    <3> QED BY <3>2, <3>3
  <2> QED BY <2>2, <2>3
<1>4. NaturalDeathLeavesNothing'
  <2> SUFFICES ASSUME mode' = "up", NEW a \in joined', ~stopFlag'[a]
               PROVE  a \notin members' /\ \A w \in Worlds : claims'[w] # a
    BY DEF NaturalDeathLeavesNothing
  <2>1. mode = "up" /\ a \in joined /\ ~stopFlag[a] /\ a \in Ids
    BY <1>1 DEF managerVars
  <2>2. a # b
    BY <2>1, ThreadMoves DEF Handles, HandleOwnedOnce
  <2>3. a \notin members /\ \A w \in Worlds : claims[w] # a
    BY <2>1 DEF Endings, NaturalDeathLeavesNothing
  <2> QED BY <2>1, <2>2, <2>3, ThreadAdds
<1> QED
  BY <1>1, <1>3, <1>4
  DEF Endings, ClaimsEndWithThread, NoneHeldYet, StoppedAreFlagged, managerVars,
      Stopping

-----------------------------------------------------------------------------
(* Everything together: the inductive invariant of the fleet. *)
FleetInv ==
  TypeOK /\ TickInv /\ Handles /\ Ownership /\ Records /\ Endings

LEMMA FleetInvInit == Init => FleetInv
<1> SUFFICES ASSUME Init PROVE FleetInv OBVIOUS
<1>1. Handles
  BY FleetAssumption
  DEF Init, Handles, HandleOwnedOnce, UnbornAreNew, Spawned, Stopping, Ids
<1>2. TickInv /\ Ownership
  BY DEF Init, TickInv, Ownership, BeliefIsOwnership, ClaimInv
<1>3. Records
  BY DEF Init, Records, LaunchIsRoster, OneEntryPerGrowId, Stopping
<1>4. Endings
  BY DEF Init, Endings, ClaimsEndWithThread, NaturalDeathLeavesNothing,
     NoneHeldYet, StoppedAreFlagged, Stopping
<1> QED BY <1>1, <1>2, <1>3, <1>4, InitType DEF FleetInv

LEMMA FleetInvNext == FleetInv /\ [Next]_vars => FleetInv'
<1> SUFFICES ASSUME FleetInv, [Next]_vars PROVE FleetInv' OBVIOUS
<1> USE DEF FleetInv
<1>1. CASE ManagerStep
  BY <1>1, ManagerType, ManagerTick, ManagerHandles, ManagerOwnership,
     ManagerRecords, ManagerEndings
<1>2. CASE \E b \in Ids : Thread(b) \/ Crash(b)
  BY <1>2, ThreadType, ThreadTick, ThreadHandles, ThreadOwnership,
     ThreadRecords, ThreadEndings
<1>3. CASE UNCHANGED vars
  <2> USE <1>3 DEF vars, managerVars, signalVars, tickVars, fleetVars
  <2>1. TypeOK' /\ TickInv'
    BY DEF TypeOK, ManagerTypeOK, ThreadTypeOK, TickTypeOK, FleetTypeOK, TickInv
  <2>2. Handles' /\ Records'
    BY DEF Handles, HandleOwnedOnce, UnbornAreNew, Spawned, Stopping, Records,
       LaunchIsRoster, OneEntryPerGrowId
  <2>3. Ownership'
    BY DEF Ownership, BeliefIsOwnership, ClaimInv
  <2>4. Endings'
    BY DEF Endings, ClaimsEndWithThread, NaturalDeathLeavesNothing,
       NoneHeldYet, StoppedAreFlagged, Stopping
  <2> QED BY <2>1, <2>2, <2>3, <2>4
<1> QED BY <1>1, <1>2, <1>3 DEF Next, Terminated

LEMMA FleetInvariant == Spec => []FleetInv
BY FleetInvInit, FleetInvNext, PTL DEF Spec

(* A bot of the roster owns the world it believes to hold, for any number  *)
(* of bots and worlds, whatever is stopped, reaped or configured.          *)
THEOREM BeliefCorrect == Spec => []BeliefIsOwnership
<1>1. FleetInv => BeliefIsOwnership
  BY DEF FleetInv, Ownership
<1> QED BY <1>1, FleetInvariant, PTL

(* Every thread handle is in one place until its thread was joined, the    *)
(* launch records are those of the roster, and no GrowID is in it twice.   *)
THEOREM RosterCorrect == Spec => []RosterConsistent
<1>1. FleetInv => RosterConsistent
  BY DEF FleetInv, Handles, Records, RosterConsistent
<1> QED BY <1>1, FleetInvariant, PTL

(* A thread that has ended holds no world unless it crashed, and one that  *)
(* ended by itself leaves neither claim nor view once it was reaped.       *)
THEOREM EndingsCorrect == Spec => []NothingLeftBehind
<1>1. FleetInv => NothingLeftBehind
  BY DEF FleetInv, Endings, NothingLeftBehind
<1> QED BY <1>1, FleetInvariant, PTL

-----------------------------------------------------------------------------
(* What a step may do to a claim: only its owner, or the manager once the  *)
(* owner's thread is done or is being stopped, may end it.                 *)
LEMMA ManagerFrees ==
  ASSUME TypeOK, ManagerStep, NEW w \in Worlds, claims[w] # NoBot,
         claims'[w] # claims[w]
  PROVE  /\ claims'[w] = NoBot
         /\ pc[claims[w]] = "done" \/ claims[w] = stopping
<1>1. CASE ReapFleet
  BY <1>1 DEF ReapFleet, FS!ReleaseAll, Done, TypeOK, FleetTypeOK
<1>2. CASE StopErase
  BY <1>2 DEF StopErase, FS!ReleaseAll, TypeOK, FleetTypeOK
<1> QED
  BY <1>1, <1>2
  DEF ManagerStep, List, Spawn, SpawnLtoken, StopSignal, SendCmd, SetConfig,
      DestroySignal, DestroyJoin, fleetVars

LEMMA ThreadFrees ==
  ASSUME TypeOK, NEW b \in Ids, Thread(b) \/ Crash(b), NEW w \in Worlds,
         claims[w] # NoBot, claims'[w] # claims[w]
  PROVE  /\ claims'[w] = NoBot
         /\ claims[w] = b
         /\ pc[b] \in {"release", "releaseAll"}
<1> USE DEF TypeOK, FleetTypeOK, Goto
<1>1. CASE Renew(b)
  BY <1>1 DEF Renew, FS!Claim
<1>2. CASE ClaimTarget(b)
  BY <1>2 DEF ClaimTarget, FS!Claim
<1>3. CASE ReleaseOld(b)
  BY <1>3 DEF ReleaseOld, FS!Release
<1>4. CASE ShutdownRelease(b)
  BY <1>4 DEF ShutdownRelease, FS!ReleaseAll
<1>5. CASE UNCHANGED claims
  BY <1>5
<1> QED
  BY <1>1, <1>2, <1>3, <1>4, <1>5
  DEF Thread, Loop, Tick, End, Create, Check, Drain, Service, Publish, SkipTick,
      StartTick, LookUp, Shutdown, CloseQueue, Finish, Crash, fleetVars

(* No world is ever handed from one bot to another: it is free in between, *)
(* and was given up by its owner or taken from one that had ended.         *)
THEOREM ClaimsCorrect == Spec => ClaimsNotStolen
<1>1. TypeOK /\ [Next]_vars =>
        [\A w \in Worlds :
           claims[w] # NoBot /\ claims'[w] # claims[w] =>
             /\ claims'[w] = NoBot
             /\ \/ pc[claims[w]] \in {"release", "releaseAll", "done"}
                \/ claims[w] = stopping]_vars
  <2> SUFFICES ASSUME TypeOK, Next, NEW w \in Worlds,
                      claims[w] # NoBot, claims'[w] # claims[w]
               PROVE  /\ claims'[w] = NoBot
                      /\ \/ pc[claims[w]] \in {"release", "releaseAll", "done"}
                         \/ claims[w] = stopping
    OBVIOUS
  <2>1. CASE ManagerStep
    BY <2>1, ManagerFrees
  <2>2. ASSUME NEW b \in Ids, Thread(b) \/ Crash(b)
        PROVE  /\ claims'[w] = NoBot
               /\ pc[claims[w]] \in {"release", "releaseAll", "done"}
    BY <2>2, ThreadFrees
  <2>3. ~Terminated
    BY DEF Terminated, vars, fleetVars
  <2> QED BY <2>1, <2>2, <2>3 DEF Next
<1> QED BY <1>1, TypeCorrect, PTL DEF Spec, ClaimsNotStolen

(* Recovery sees every change of the launch records: the generation moves  *)
(* with each of them, also when several bots are reaped in one call.       *)
THEOREM GenerationCorrect == Spec => GenerationCountsChanges
<1>1. TypeOK /\ [Next]_vars => [launch' # launch => generation' > generation]_vars
  <2> SUFFICES ASSUME TypeOK, Next, launch' # launch
               PROVE  generation' > generation
    OBVIOUS
  <2> USE DEF TypeOK, ManagerTypeOK
  <2>1. ASSUME NEW S, launch \cap S # {}
        PROVE  Cardinality(launch \cap S) > 0
    <3>1. IsFiniteSet(Ids)
      BY FleetAssumption, FS_Interval DEF Ids
    <3>2. IsFiniteSet(launch \cap S)
      BY <3>1, FS_Subset
    <3> QED BY <2>1, <3>2, FS_EmptySet, FS_CardinalityType
  <2>2. Reaped \in Nat
    BY CountType DEF Reaped
  <2>3. CASE launch' = KeptRecords /\ generation' = generation + Reaped
    <3>1. launch \cap Done(bots) # {}
      BY <2>3 DEF KeptRecords
    <3> QED BY <2>1, <2>2, <2>3, <3>1 DEF Reaped
  <2>4. CASE generation' = generation + Reaped + 1
    BY <2>2, <2>4
  <2>5. CASE StopErase
    <3>1. launch \cap {stopping} # {}
      BY <2>5 DEF StopErase
    <3>2. Cardinality(launch \cap {stopping}) \in Nat
      BY CountType
    <3> QED BY <2>1, <2>5, <3>1, <3>2 DEF StopErase
  <2>6. ~(\E b \in Ids : Thread(b) \/ Crash(b))
    BY ThreadFrame DEF managerVars
  <2> QED
    BY <2>3, <2>4, <2>5, <2>6
    DEF Next, ManagerStep, List, Spawn, SpawnLtoken, StartThread, StopSignal,
        SendCmd, SetConfig, DestroySignal, DestroyJoin, Terminated, vars,
        managerVars
<1> QED BY <1>1, TypeCorrect, PTL DEF Spec, GenerationCountsChanges

-----------------------------------------------------------------------------
(* What a gate guarantees, however many bots pace themselves by it.        *)

(* The cursor is behind every slot handed out by a spacing, or at the      *)
(* horizon that pinned it: this is what the next slot inherits.            *)
CursorBehind ==
  \A i \in DOMAIN granted :
    /\ inited
    /\ nextAllowed >= Least(granted[i].slot + Spacing, Horizon(granted[i].at))
    /\ granted[i].at <= now

(* A gate nobody has used has its cursor at zero. *)
Unused == ~inited => nextAllowed = 0

GateInv == GateTypeOK /\ BacklogBounded /\ SpacedOrPinned /\ CursorBehind /\ Unused

(* A reservation is a pair of instants. *)
LEMMA Reservation ==
  ASSUME NEW g \in Seq([slot : Nat, at : Nat]), NEW i \in DOMAIN g
  PROVE  g[i].slot \in Nat /\ g[i].at \in Nat
<1> DEFINE Pair == [slot : Nat, at : Nat]
<1>1. \A q \in Pair : q.slot \in Nat /\ q.at \in Nat
  OBVIOUS
<1>2. g \in Seq(Pair)
  OBVIOUS
<1> HIDE DEF Pair
<1>3. i \in 1 .. Len(g)
  BY <1>2
<1>4. g[i] \in Pair
  BY <1>2, <1>3, ElementOfSeq
<1> QED BY <1>1, <1>4

(* So is what the cursor must have reached after it. *)
LEMMA Reached ==
  ASSUME NEW a \in Nat, NEW t \in Nat
  PROVE  Least(a + Spacing, Horizon(t)) \in Nat
BY GatesAssumption DEF Least, Horizon, Floor

(* A slot lies in the window, and not before the cursor while the cursor   *)
(* is within the horizon; the cursor it leaves lies in the window too.     *)
LEMMA SlotInWindow ==
  ASSUME NEW c \in Nat, now \in Nat
  PROVE  /\ SlotFrom(c) \in Floor(now) .. Horizon(now)
         /\ SlotFrom(c) \in Nat /\ Advance(SlotFrom(c)) \in Nat
         /\ Floor(now) \in Nat /\ Horizon(now) \in Nat
         /\ c <= Horizon(now) => SlotFrom(c) >= c
         /\ Advance(SlotFrom(c)) = Least(SlotFrom(c) + Spacing, Horizon(now))
         /\ Advance(SlotFrom(c)) >= SlotFrom(c)
         /\ Advance(SlotFrom(c)) <= Horizon(now)
BY GatesAssumption
DEF SlotFrom, Advance, Least, Greatest, Floor, Horizon

(* Appending a reservation changes none of the earlier ones. *)
LEMMA AppendKeeps ==
  ASSUME NEW S, NEW g \in Seq(S), NEW r \in S
  PROVE  /\ Append(g, r) \in Seq(S)
         /\ DOMAIN Append(g, r) = DOMAIN g \cup {Len(g) + 1}
         /\ Len(g) + 1 \notin DOMAIN g
         /\ \A i \in DOMAIN g : Append(g, r)[i] = g[i]
         /\ Append(g, r)[Len(g) + 1] = r
         /\ \A i \in DOMAIN g : i \in Nat /\ i < Len(g) + 1
OBVIOUS

LEMMA ReserveInv == ASSUME GateInv, NEW b \in Bots, Reserve(b) PROVE GateInv'
<1> DEFINE c == IF inited THEN nextAllowed ELSE now
           s == SlotFrom(c)
           r == [slot |-> s, at |-> now]
           n == Len(granted) + 1
<1> USE DEF GateInv, GateTypeOK
<1>1. c \in Nat /\ c <= Horizon(now)
  BY GatesAssumption DEF BacklogBounded, Floor, Horizon
<1>2. /\ s \in Floor(now) .. Horizon(now) /\ s \in Nat /\ s >= c
      /\ Floor(now) \in Nat /\ Horizon(now) \in Nat
  BY <1>1, SlotInWindow
<1>3. /\ inited' = TRUE /\ now' = now /\ granted' = Append(granted, r)
      /\ slot' = [slot EXCEPT ![b] = s] /\ waiting' = waiting \cup {b}
      /\ nextAllowed' = Least(s + Spacing, Horizon(now))
      /\ nextAllowed' \in Nat /\ nextAllowed' >= s
      /\ nextAllowed' <= Horizon(now)
  BY <1>1, SlotInWindow DEF Reserve
<1> HIDE DEF s, c
<1>4. r \in [slot : Nat, at : Nat]
  BY <1>2
<1>5. /\ granted' \in Seq([slot : Nat, at : Nat])
      /\ DOMAIN granted' = DOMAIN granted \cup {n}
      /\ n \notin DOMAIN granted
      /\ \A i \in DOMAIN granted : granted'[i] = granted[i]
      /\ granted'[n] = r
      /\ \A i \in DOMAIN granted : i \in Nat /\ i < n
      /\ n \in Nat
  BY <1>3, <1>4, AppendKeeps
<1> HIDE DEF n
<1>6. GateTypeOK'
  BY <1>2, <1>3, <1>5
<1>7. BacklogBounded'
  BY <1>2, <1>3, <1>5 DEF BacklogBounded, Floor, Horizon
<1>8. \A i \in DOMAIN granted :
        s >= Least(granted[i].slot + Spacing, Horizon(granted[i].at))
  <2> SUFFICES ASSUME NEW i \in DOMAIN granted
               PROVE  s >= Least(granted[i].slot + Spacing,
                                 Horizon(granted[i].at))
    OBVIOUS
  <2>1. /\ c = nextAllowed
        /\ c >= Least(granted[i].slot + Spacing, Horizon(granted[i].at))
    BY DEF CursorBehind, c
  <2>2. Least(granted[i].slot + Spacing, Horizon(granted[i].at)) \in Nat
    BY Reservation, Reached
  <2> QED
    BY <1>1, <1>2, <2>1, <2>2
<1>9. SpacedOrPinned'
  BY <1>5, <1>8, SMTT(30) DEF SpacedOrPinned, Floor, Horizon
<1>10. CursorBehind'
  <2> SUFFICES ASSUME NEW i \in DOMAIN granted'
               PROVE  /\ nextAllowed' >= Least(granted'[i].slot + Spacing,
                                               Horizon(granted'[i].at))
                      /\ granted'[i].at <= now'
    BY <1>3 DEF CursorBehind, Floor, Horizon
  <2>1. CASE i = n
    BY <1>2, <1>3, <1>5, <2>1 DEF r
  <2>2. CASE i \in DOMAIN granted
    <3>1. granted[i].slot \in Nat /\ granted[i].at \in Nat
      BY <2>2, Reservation
    <3>2. granted'[i] = granted[i] /\ granted[i].at <= now
      BY <1>5, <2>2 DEF CursorBehind
    <3>3. Least(granted[i].slot + Spacing, Horizon(granted[i].at)) \in Nat
      BY <3>1, Reached
    <3> QED
      BY <1>2, <1>3, <1>8, <2>2, <3>2, <3>3, SMTT(30)
  <2> QED BY <1>5, <2>1, <2>2
<1> QED BY <1>3, <1>6, <1>7, <1>9, <1>10 DEF Unused

LEMMA ActInv == ASSUME GateInv, NEW b \in Bots, Act(b) \/ BreakOff(b) PROVE GateInv'
BY DEF GateInv, GateTypeOK, BacklogBounded, SpacedOrPinned, CursorBehind, Unused, Act,
   BreakOff, Floor, Horizon

(* Time only widens the window. *)
LEMMA PassInv == ASSUME GateInv, Pass PROVE GateInv'
<1>1. now' = now + 1 /\ now \in Nat /\ nextAllowed \in Nat
      /\ UNCHANGED <<inited, nextAllowed, slot, waiting, granted>>
  BY DEF Pass, GateInv, GateTypeOK
<1>2. BacklogBounded'
  BY <1>1, GatesAssumption DEF GateInv, GateTypeOK, BacklogBounded, Floor, Horizon
<1>3. CursorBehind'
  <2> SUFFICES ASSUME NEW i \in DOMAIN granted
               PROVE  /\ inited
                      /\ nextAllowed >= Least(granted[i].slot + Spacing,
                                              Horizon(granted[i].at))
                      /\ granted[i].at <= now + 1
    BY <1>1 DEF CursorBehind, Horizon, Floor
  <2>1. granted[i].at \in Nat
    BY Reservation DEF GateInv, GateTypeOK
  <2> QED BY <1>1, <2>1 DEF GateInv, CursorBehind
<1> QED
  BY <1>1, <1>2, <1>3 DEF GateInv, GateTypeOK, SpacedOrPinned, Horizon, Floor, Unused

LEMMA GateBegins == GateInit => GateInv
<1> SUFFICES ASSUME GateInit PROVE GateInv OBVIOUS
<1>1. granted = <<>> /\ DOMAIN granted = {} /\ waiting = {} /\ ~inited
      /\ now = 0 /\ nextAllowed = 0
  BY DEF GateInit
<1>2. GateTypeOK
  <2> DEFINE Pair == [slot : Nat, at : Nat]
  <2> HIDE DEF Pair
  <2>1. granted \in Seq(Pair)
    BY <1>1, EmptySeq
  <2>2. slot \in [Bots -> Nat]
    BY DEF GateInit
  <2>3. inited \in BOOLEAN
    BY DEF GateInit
  <2> QED BY <1>1, <2>1, <2>2, <2>3 DEF GateTypeOK, Pair
<1>3. BacklogBounded
  BY <1>1, GatesAssumption DEF BacklogBounded, Horizon, Floor
<1> QED
  BY <1>1, <1>2, <1>3 DEF GateInv, SpacedOrPinned, CursorBehind, Unused

LEMMA GateKeeps == GateInv /\ [GateNext]_gateVars => GateInv'
<1> SUFFICES ASSUME GateInv, [GateNext]_gateVars PROVE GateInv' OBVIOUS
<1>1. CASE UNCHANGED gateVars
  BY <1>1 DEF gateVars, GateInv, GateTypeOK, BacklogBounded, SpacedOrPinned,
     CursorBehind, Unused, Horizon, Floor
<1> QED
  BY <1>1, ReserveInv, ActInv, PassInv DEF GateNext, Over

-----------------------------------------------------------------------------
(* The rate.  One more slot is one more spacing. *)
LEMMA OneMore ==
  ASSUME NEW k \in Int, NEW s \in Int
  PROVE  (k + 1) * s = k * s + s /\ k * s \in Int
OBVIOUS

(* The slot handed out last keeps the rate of those before it. *)
LEMMA ReserveKeepsRate ==
  ASSUME GateInv, GateInv', RateLimited, NEW b \in Bots, Reserve(b)
  PROVE  RateLimited'
<1> DEFINE n == Len(granted)
<1>1. /\ granted \in Seq([slot : Nat, at : Nat])
      /\ granted' \in Seq([slot : Nat, at : Nat])
      /\ Len(granted) \in Nat
  BY DEF GateInv, GateTypeOK
<1>2. /\ Len(granted') = n + 1
      /\ \A i \in 1 .. n : granted'[i] = granted[i]
  BY <1>1 DEF Reserve
<1>3. /\ n \in Nat
      /\ \A k : k \in DOMAIN granted <=> k \in Int /\ 1 <= k /\ k <= n
      /\ \A k : k \in DOMAIN granted' <=> k \in Int /\ 1 <= k /\ k <= n + 1
  BY <1>1, <1>2, SMTT(30)
<1>4. \A k \in DOMAIN granted : k \in DOMAIN granted' /\ granted'[k] = granted[k]
  BY <1>2, <1>3
<1> HIDE DEF n
<1> SUFFICES ASSUME Unpinned', NEW i \in DOMAIN granted', NEW j \in DOMAIN granted',
                    i < j
             PROVE  granted'[j].slot - granted'[i].slot >= (j - i) * Spacing
  BY DEF RateLimited
<1>5. Unpinned
  <2> SUFFICES ASSUME NEW k \in DOMAIN granted
               PROVE  granted[k].slot + Spacing <= Horizon(granted[k].at)
    BY DEF Unpinned
  <2>1. granted'[k].slot + Spacing <= Horizon(granted'[k].at)
    BY <1>4 DEF Unpinned, Horizon, Floor
  <2> QED BY <1>4, <2>1
<1>6. \A k \in DOMAIN granted' :
        k < j => granted'[j].slot >= granted'[k].slot + Spacing
  <2> SUFFICES ASSUME NEW k \in DOMAIN granted', k < j
               PROVE  granted'[j].slot >= granted'[k].slot + Spacing
    OBVIOUS
  <2>1. granted'[k].slot \in Nat /\ granted'[k].at \in Nat /\ granted'[j].slot \in Nat
    BY <1>1, Reservation
  <2>2. granted'[k].slot + Spacing <= Horizon(granted'[k].at)
    BY DEF Unpinned, Horizon, Floor
  <2>3. granted'[j].slot >= Least(granted'[k].slot + Spacing, Horizon(granted'[k].at))
    BY DEF GateInv, SpacedOrPinned, Horizon, Floor, Least
  <2> QED BY <2>1, <2>2, <2>3 DEF Least
<1>7. CASE j <= n
  <2>1. i \in DOMAIN granted /\ j \in DOMAIN granted
    BY <1>3, <1>7
  <2>2. granted[j].slot - granted[i].slot >= (j - i) * Spacing
    BY <1>5, <2>1 DEF RateLimited
  <2> QED BY <1>4, <2>1, <2>2
<1>8. CASE j = n + 1 /\ i = n
  <2>1. granted'[i].slot \in Nat /\ granted'[j].slot \in Nat
    BY <1>1, Reservation
  <2>2. (j - i) * Spacing = Spacing
    BY <1>3, <1>8, GatesAssumption
  <2> QED BY <1>6, <2>1, <2>2, GatesAssumption
<1>9. CASE j = n + 1 /\ i # n
  <2>1. n \in DOMAIN granted /\ i \in DOMAIN granted
        /\ i < n /\ n < j /\ i \in Int /\ j \in Int
    BY <1>3, <1>9
  <2>2. granted'[n] = granted[n] /\ granted'[i] = granted[i]
        /\ n \in DOMAIN granted'
    BY <1>4, <2>1
  <2>3. granted'[j].slot >= granted'[n].slot + Spacing
    BY <1>6, <2>1, <2>2
  <2>4. granted[n].slot - granted[i].slot >= (n - i) * Spacing
    BY <1>5, <2>1 DEF RateLimited
  <2>5. (j - i) * Spacing = (n - i) * Spacing + Spacing
        /\ (n - i) * Spacing \in Int
    <3>1. j - i = (n - i) + 1 /\ n - i \in Int /\ Spacing \in Int
      BY <1>3, <1>9, <2>1, GatesAssumption
    <3> QED BY <3>1, OneMore
  <2>6. granted'[j].slot \in Nat /\ granted[n].slot \in Nat
        /\ granted[i].slot \in Nat
    BY <1>1, <2>1, Reservation
  <2> QED BY <2>2, <2>3, <2>4, <2>5, <2>6, GatesAssumption
<1> QED BY <1>3, <1>7, <1>8, <1>9

LEMMA RateNext == GateInv /\ RateLimited /\ [GateNext]_gateVars => RateLimited'
<1> SUFFICES ASSUME GateInv, RateLimited, [GateNext]_gateVars PROVE RateLimited'
  OBVIOUS
<1>1. CASE UNCHANGED granted
  BY <1>1 DEF RateLimited, Unpinned, Horizon, Floor
<1>2. ASSUME NEW b \in Bots, Reserve(b) PROVE RateLimited'
  BY <1>2, ReserveInv, ReserveKeepsRate
<1> QED
  BY <1>1, <1>2 DEF GateNext, Act, BreakOff, Pass, Over, gateVars

(* The pacing a gate gives, and the bound on its backlog: slots lie in the *)
(* window of the instant they were handed out, each is a spacing behind    *)
(* the earlier ones or at the horizon, and n slots below the horizon take  *)
(* n - 1 spacings.                                                         *)
THEOREM GateCorrect == GateSpec => []Paced
<1>1. GateInit => RateLimited
  BY DEF GateInit, RateLimited
<1>2. GateInv /\ RateLimited => Paced
  BY DEF GateInv, Paced
<1> QED BY <1>1, <1>2, GateBegins, GateKeeps, RateNext, PTL DEF GateSpec

(* next_allowed never goes back. *)
THEOREM CursorCorrect == GateSpec => CursorMonotonic
<1>1. GateInv /\ [GateNext]_gateVars => [nextAllowed' >= nextAllowed]_gateVars
  <2> SUFFICES ASSUME GateInv, GateNext
               PROVE  nextAllowed' >= nextAllowed \/ UNCHANGED gateVars
    OBVIOUS
  <2> USE DEF GateInv, GateTypeOK
  <2>1. ASSUME NEW b \in Bots, Reserve(b)
        PROVE  nextAllowed' >= nextAllowed
    <3> DEFINE c == IF inited THEN nextAllowed ELSE now
    <3>1. c \in Nat /\ c <= Horizon(now) /\ nextAllowed <= c
      BY GatesAssumption DEF BacklogBounded, Unused, Floor, Horizon
    <3>2. nextAllowed' = Advance(SlotFrom(c))
      BY <2>1 DEF Reserve
    <3> HIDE DEF c
    <3>3. /\ SlotFrom(c) \in Nat /\ SlotFrom(c) >= c
          /\ nextAllowed' \in Nat /\ nextAllowed' >= SlotFrom(c)
      BY <3>1, <3>2, SlotInWindow
    <3> QED BY <3>1, <3>3
  <2>2. nextAllowed >= nextAllowed
    OBVIOUS
  <2> QED
    BY <2>1, <2>2 DEF GateNext, Act, BreakOff, Pass, Over
<1> QED
  BY <1>1, GateBegins, GateKeeps, PTL DEF GateSpec, CursorMonotonic
=============================================================================
