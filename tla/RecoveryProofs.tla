---------------------------- MODULE RecoveryProofs ----------------------------
(* What crash recovery guarantees for every plan, every number of processes  *)
(* and every way they end.                                                   *)
EXTENDS Recovery, Iteration, SequenceTheorems, TLAPS

(* Whoever sleeps before a restart has seen an abnormal end, and let go of it. *)
SleepsAfterCrash == sup.pc = "sleep" => sup.exit = "crash" /\ sup.watched = NoPid

Inv == TypeOK /\ SleepsAfterCrash

LEMMA Constants ==
  /\ NoPlan \in Plans
  /\ NoApp \in Apps /\ NoApp.pc = "off"
  /\ PlanModes \subseteq Modes
<1>1. NoPlan \in Plans
  BY SMT DEF NoPlan, Plans, NoPid
<1>2. NoApp \in Apps /\ NoApp.pc = "off"
  BY <1>1, SMT DEF NoApp, App, Apps, AppPcs
<1> QED
  BY <1>1, <1>2, PlanModesAssumption DEF Modes

(* What the application's steps make of its own record. *)
LEMMA AppStep ==
  ASSUME TypeOK, NEW p \in Pids, NEW pc \in AppPcs \ {"off"}, NEW bots \in SUBSET Accounts,
         NEW news \in {"none", "changed", "saved"}, NEW copy \in Plans,
         app' = [app EXCEPT ![p] = App(pc, bots, news, copy)]
  PROVE  /\ app' \in [Pids -> Apps]
         /\ \A q \in Pids : app'[q].pc = "off" => app'[q] = NoApp
<1>1. App(pc, bots, news, copy) \in Apps /\ App(pc, bots, news, copy).pc # "off"
  BY SMT DEF App, Apps
<1> QED
  BY <1>1, SMT DEF TypeOK

(* The fields of a running application. *)
LEMMA AppFields ==
  ASSUME TypeOK, NEW p \in Pids
  PROVE  /\ app[p].bots \subseteq Accounts
         /\ app[p].news \in {"none", "changed", "saved"}
         /\ app[p].copy \in Plans
BY SMT DEF TypeOK, Apps

(* Steps that only start an application or change its roster. *)
LEMMA RosterStep ==
  ASSUME NEW q \in Pids,
         UserStart(q) \/ Restore(q) \/ Spawn(q) \/ Stop(q) \/ SetConfig(q)
  PROVE  \E news \in {"none", "changed"} : \E bots, copy :
           app' = [app EXCEPT ![q] = App("idle", bots, news, copy)]
<1>1. CASE UserStart(q)
  <2>1. app' = [app EXCEPT ![q] = App("idle", {}, "none", NoPlan)]
    BY <1>1 DEF UserStart
  <2> QED
    BY <2>1
<1>2. CASE Restore(q)
  <2>1. PICK b : app' = [app EXCEPT ![q] = App("idle", b, "none", NoPlan)]
    BY <1>2 DEF Restore
  <2> QED
    BY <2>1
<1>3. CASE Spawn(q) \/ Stop(q) \/ SetConfig(q)
  <2>1. PICK b : Change(q, b)
    BY <1>3 DEF Spawn, Stop, SetConfig
  <2>2. app' = [app EXCEPT ![q] = App("idle", b, "changed", app[q].copy)]
    BY <2>1 DEF Change
  <2> QED
    BY <2>2
<1> QED
  BY <1>1, <1>2, <1>3

(* The owner's thread creates a supervisor, and then records its pid. *)
LEMMA CreateStep ==
  ASSUME NEW q \in Pids, ConfigureCreate(q) \/ TickCreate(q) \/ ConfigureRecord(q)
  PROVE  \E r \in {"idle", "record", "tick_record"} : \E copy :
           app' = [app EXCEPT ![q] = App(r, app[q].bots, app[q].news, copy)]
<1>1. CASE ConfigureRecord(q)
  BY <1>1 DEF ConfigureRecord
<1>2. ASSUME NEW r \in {"record", "tick_record"}, Create(q, r)
      PROVE  \E copy : app' = [app EXCEPT ![q] = App(r, app[q].bots, app[q].news, copy)]
  BY <1>2 DEF Create
<1> QED
  BY <1>1, <1>2 DEF ConfigureCreate, TickCreate

(* Steps of an application that only touch itself and the files. *)
LEMMA OwnStepKeepsInv ==
  ASSUME Inv, NEW p \in Pids, NEW pc \in AppPcs \ {"off"}, NEW bots \in SUBSET Accounts,
         NEW news \in {"none", "changed", "saved"}, NEW copy \in Plans,
         app' = [app EXCEPT ![p] = App(pc, bots, news, copy)],
         plan' \in Plans, ckpt' \subseteq Accounts, UNCHANGED <<knobs, sup>>
  PROVE  Inv'
<1>1. /\ app' \in [Pids -> Apps]
      /\ \A q \in Pids : app'[q].pc = "off" => app'[q] = NoApp
  BY AppStep DEF Inv
<1> QED
  BY <1>1 DEF Inv, TypeOK, SleepsAfterCrash

LEMMA InitInv == Init => Inv
<1> SUFFICES ASSUME Init PROVE Inv
  OBVIOUS
<1>1. app \in [Pids -> Apps] /\ \A p \in Pids : app[p] = NoApp
  BY Constants, SMT DEF Init
<1>2. sup.pc = "none" /\ sup.exit = "none" /\ DOMAIN sup = DOMAIN NoSup
  BY DEF Init, NoSup
<1> QED
  BY <1>1, <1>2, Constants DEF Init, Inv, TypeOK, SleepsAfterCrash

LEMMA ApplicationKeepsInv ==
  ASSUME Inv, NEW p \in Pids,
         \/ UserStart(p) \/ Restore(p) \/ Spawn(p) \/ Stop(p) \/ SetConfig(p)
         \/ ConfigureRecord(p) \/ Tick(p) \/ TickRecord(p) \/ TickFails(p)
         \/ ConfigureCheckpointOnly(p) \/ Disable(p) \/ ConfigureUncreated(p)
  PROVE  Inv'
<1> USE AppFields, OwnStepKeepsInv, Constants
<1>0. TypeOK /\ plan \in Plans /\ ckpt \subseteq Accounts /\ app \in [Pids -> Apps]
      /\ {"idle", "restore", "record"} \subseteq AppPcs \ {"off"}
  BY DEF Inv, TypeOK, AppPcs
<1>1. CASE UserStart(p)
  BY <1>0, <1>1 DEF UserStart
<1>2. CASE Restore(p)
  <2>1. \A b \in Restored : b \subseteq Accounts
    BY <1>0 DEF Restored
  <2>2. PICK b \in SUBSET Accounts :
          app' = [app EXCEPT ![p] = App("idle", b, "none", NoPlan)]
    BY <1>0, <1>2, <2>1 DEF Restore
  <2> QED
    BY <1>0, <1>2, <2>2 DEF Restore
<1>3. CASE Spawn(p) \/ Stop(p) \/ SetConfig(p)
  <2>1. PICK b \in SUBSET Accounts : Change(p, b)
    BY <1>0, <1>3 DEF Spawn, Stop, SetConfig
  <2>2. app' = [app EXCEPT ![p] = App("idle", b, "changed", app[p].copy)]
    BY <1>0, <2>1 DEF Change
  <2>3. UNCHANGED <<knobs, plan, ckpt, sup>>
    BY <2>1 DEF Change
  <2> QED
    BY <1>0, <2>2, <2>3
<1>4. CASE ConfigureRecord(p)
  <2>1. app' = [app EXCEPT ![p] = App("idle", app[p].bots, app[p].news, NoPlan)]
    BY <1>0, <1>4 DEF ConfigureRecord
  <2>2. plan' \in Plans /\ UNCHANGED <<knobs, ckpt, sup>>
    BY <1>0, <1>4, SMT DEF ConfigureRecord
  <2> QED
    BY <1>0, <2>1, <2>2
<1>5. CASE Tick(p) \/ TickRecord(p) \/ TickFails(p)
  <2>1. PICK done : Checkpoint(p, done)
    BY <1>5 DEF Tick, TickRecord, TickFails
  <2>2. PICK news \in {"none", "changed", "saved"} :
          app' = [app EXCEPT ![p] = App("idle", app[p].bots, news, NoPlan)]
    BY <1>0, <2>1 DEF Checkpoint
  <2>3. ckpt' \subseteq Accounts /\ plan' \in Plans /\ UNCHANGED <<knobs, sup>>
    BY <1>0, <1>5, <2>1 DEF Checkpoint, Tick, TickRecord, TickFails
  <2> QED
    BY <1>0, <2>2, <2>3
<1>6. CASE ConfigureCheckpointOnly(p)
  BY <1>0, <1>6 DEF ConfigureCheckpointOnly, Inv, TypeOK, SleepsAfterCrash
<1>7. CASE Disable(p)
  <2>1. [plan EXCEPT !.state = "off"] \in Plans
    BY <1>0, SMT DEF Plans
  <2> QED
    BY <1>0, <1>7, <2>1 DEF Disable, Inv, TypeOK, SleepsAfterCrash
<1>8. CASE ConfigureUncreated(p)
  <2>1. app' \in [Pids -> Apps] /\ \A q \in Pids : app'[q].pc = "off" => app'[q] = NoApp
    BY <1>0, <1>8, SMT DEF ConfigureUncreated, TypeOK, Apps
  <2> QED
    BY <1>0, <1>8, <2>1 DEF ConfigureUncreated, Inv, TypeOK, SleepsAfterCrash
<1> QED
  BY <1>1, <1>2, <1>3, <1>4, <1>5, <1>6, <1>7, <1>8

LEMMA ConfigureKeepsInv ==
  ASSUME Inv, NEW p \in Pids, NEW on \in BOOLEAN, NEW mode \in PlanModes,
         Configure(p, on, mode)
  PROVE  Inv'
<1>0. TypeOK /\ plan \in Plans /\ ckpt \subseteq Accounts /\ app \in [Pids -> Apps]
  BY DEF Inv, TypeOK
<1>1. plan' \in Plans
  BY <1>0, Constants, SMT DEF Configure, Plans
<1>2. ckpt' \subseteq Accounts
  BY <1>0, AppFields DEF Configure
<1>3. app' \in [Pids -> Apps] /\ \A q \in Pids : app'[q].pc = "off" => app'[q] = NoApp
  BY <1>0, SMT DEF Configure, TypeOK, Apps, AppPcs
<1> QED
  BY <1>0, <1>1, <1>2, <1>3 DEF Configure, Inv, TypeOK, SleepsAfterCrash

LEMMA CreateKeepsInv ==
  ASSUME Inv, NEW p \in Pids, ConfigureCreate(p) \/ TickCreate(p)
  PROVE  Inv'
<1>0. TypeOK /\ plan \in Plans /\ ckpt \subseteq Accounts /\ app \in [Pids -> Apps]
  BY DEF Inv, TypeOK
<1>1. PICK pc \in AppPcs \ {"off"} : Create(p, pc)
  BY DEF ConfigureCreate, TickCreate, AppPcs
<1>2. PICK q \in Pids :
        app' = [app EXCEPT ![p] = App(pc, app[p].bots, app[p].news, [plan EXCEPT !.super = q])]
  BY <1>0, <1>1 DEF Create, NewPids
<1>3. [plan EXCEPT !.super = q] \in Plans
  BY <1>0, SMT DEF Plans
<1> QED
  BY <1>0, <1>1, <1>2, <1>3, AppFields, OwnStepKeepsInv DEF Create

(* A process that ends. *)
LEMMA EndKeepsInv ==
  ASSUME Inv, NEW p \in Pids, Close(p) \/ Crash(p)
  PROVE  Inv'
<1>1. app' = [app EXCEPT ![p] = NoApp] /\ UNCHANGED <<knobs, plan, ckpt>>
  BY DEF Close, Crash
<1>2. app' \in [Pids -> Apps] /\ \A q \in Pids : app'[q].pc = "off" => app'[q] = NoApp
  BY <1>1, Constants DEF Inv, TypeOK
<1>3. PICK code \in {"clean", "crash"} : sup' = Seen(p, code)
  BY DEF Close, Crash
<1>4. /\ DOMAIN sup' = DOMAIN NoSup /\ sup'.pc = sup.pc /\ sup'.watched = sup.watched
      /\ sup'.exit \in {"none", "clean", "crash"}
      /\ sup.watched # p => sup' = sup
  BY <1>3 DEF Seen, Inv, TypeOK, NoSup
<1>5. p # NoPid
  BY PidsAssumption DEF NoPid
<1> QED
  BY <1>1, <1>2, <1>4, <1>5 DEF Inv, TypeOK, SleepsAfterCrash

(* Steps of the supervisor. *)
LEMMA AttemptShape ==
  ASSUME NEW s, DOMAIN s = DOMAIN NoSup
  PROVE  \/ Attempt(s) = NoSup
         \/ /\ DOMAIN Attempt(s) = DOMAIN NoSup
            /\ Attempt(s).pc = "sleep" /\ Attempt(s).exit = s.exit
            /\ Attempt(s).watched = NoPid
BY SMT DEF Attempt, NoSup

LEMMA NoSupShape ==
  /\ NoSup.pc = "none" /\ NoSup.exit = "none" /\ NoSup.watched = NoPid
  /\ {"pc", "pid", "watched", "exit", "attempts", "tries", "delay", "launches"} = DOMAIN NoSup
BY DEF NoSup

LEMMA SupervisorKeepsInv ==
  ASSUME Inv, Retire \/ NoticeExit \/ Wake \/ Killed \/ Pass \/ (\E b \in booting : Boot(b))
  PROVE  Inv'
<1> USE NoSupShape
<1>0. TypeOK /\ app \in [Pids -> Apps] /\ DOMAIN sup = DOMAIN NoSup
  BY DEF Inv, TypeOK
<1> DEFINE SupOK == /\ DOMAIN sup = DOMAIN NoSup
                    /\ sup.pc \in {"none", "watch", "sleep"}
                    /\ sup.exit \in {"none", "clean", "crash"}
                    /\ SleepsAfterCrash
<1>1. ASSUME UNCHANGED <<knobs, plan, ckpt, app>>, SupOK' PROVE Inv'
  BY <1>1 DEF Inv, TypeOK
<1>2. ASSUME sup' = NoSup PROVE SupOK'
  BY <1>2 DEF SleepsAfterCrash
<1>3. CASE Retire \/ Killed
  BY <1>1, <1>2, <1>3 DEF Retire, Killed
<1>4. CASE \E b \in booting : Boot(b)
  <2>1. SupOK'
    <3>1. PICK b \in booting :
            \/ sup' = sup
            \/ sup' = [NoSup EXCEPT !.pc = "watch", !.pid = b.pid, !.watched = b.watch]
      BY <1>4 DEF Boot
    <3> QED
      BY <1>0, <3>1 DEF Inv, TypeOK, SleepsAfterCrash
  <2> QED
    BY <1>1, <1>4, <2>1 DEF Boot
<1>5. CASE NoticeExit
  <2>1. SupOK'
    <3> DEFINE s == [sup EXCEPT !.tries = 0]
    <3>1. DOMAIN s = DOMAIN NoSup /\ s.exit = sup.exit
      BY <1>0
    <3>2. sup' = NoSup \/ (sup.exit = "crash" /\ sup' = Attempt(s))
      BY <1>5 DEF NoticeExit, Inv, TypeOK
    <3> HIDE DEF s
    <3> QED
      BY <1>2, <3>1, <3>2, AttemptShape DEF SleepsAfterCrash
  <2> QED
    BY <1>1, <1>5, <2>1 DEF NoticeExit
<1>6. CASE Wake
  <2>1. CASE sup' = NoSup /\ UNCHANGED app
    BY <1>1, <1>2, <1>6, <2>1 DEF Wake
  <2>2. CASE sup' = Attempt(sup) /\ UNCHANGED app
    <3>1. SupOK'
      BY <1>0, <1>2, <1>6, <2>2, AttemptShape DEF Wake, Inv, SleepsAfterCrash
    <3> QED
      BY <1>1, <1>6, <2>2, <3>1 DEF Wake
  <2>3. CASE \E q \in NewPids : Launch(q)
    <3>1. PICK q \in Pids : Launch(q)
      BY <2>3 DEF NewPids
    <3>2. App("restore", {}, "none", NoPlan) \in Apps /\ App("restore", {}, "none", NoPlan).pc # "off"
      BY Constants, SMT DEF App, Apps, AppPcs
    <3>3. app' = [app EXCEPT ![q] = App("restore", {}, "none", NoPlan)]
      BY <3>1 DEF Launch
    <3>4. app' \in [Pids -> Apps] /\ \A p \in Pids : app'[p].pc = "off" => app'[p] = NoApp
      BY <1>0, <3>2, <3>3 DEF TypeOK
    <3>5. SupOK'
      BY <1>0, <3>1 DEF Launch, SleepsAfterCrash
    <3> QED
      BY <1>6, <3>4, <3>5 DEF Wake, Inv, TypeOK
  <2> QED
    BY <1>6, <2>1, <2>2, <2>3 DEF Wake
<1>7. CASE Pass
  <2>1. SupOK'
    BY <1>0, <1>7 DEF Pass, Inv, TypeOK, SleepsAfterCrash
  <2> QED
    BY <1>1, <1>7, <2>1 DEF Pass
<1> QED
  BY <1>3, <1>4, <1>5, <1>6, <1>7

LEMMA NextKeepsInv == Inv /\ [Next]_vars => Inv'
<1> SUFFICES ASSUME Inv, [Next]_vars PROVE Inv'
  OBVIOUS
<1>1. CASE UNCHANGED vars
  BY <1>1 DEF vars, Inv, TypeOK, SleepsAfterCrash
<1>2. ASSUME NEW p \in Pids, User(p) \/ Frame(p) \/ TickFails(p) \/ Crash(p) PROVE Inv'
  BY <1>2, ApplicationKeepsInv, ConfigureKeepsInv, CreateKeepsInv, EndKeepsInv DEF User, Frame
<1>3. CASE (\E b \in booting : Boot(b)) \/ Supervise \/ Killed \/ Pass
  BY <1>3, SupervisorKeepsInv DEF Supervise
<1> QED
  BY <1>1, <1>2, <1>3 DEF Next

(* Types hold in every state of crash recovery (every handler of the          *)
(* controller, the runtime and the supervisor).                              *)
THEOREM TypeCorrect == Spec => []TypeOK
<1>1. Inv => TypeOK
  BY DEF Inv
<1> QED
  BY InitInv, NextKeepsInv, <1>1, PTL DEF Spec

(* An application is started again only after an abnormal end and only while  *)
(* the plan still asks for it (the supervisor's main loop).                   *)
THEOREM RestartsWanted == Spec => RestartsAreWanted
<1> DEFINE Wanted == \A p \in Pids : app[p].pc = "off" /\ app'[p].pc = "restore"
                                      => Enabled /\ sup.exit = "crash"
<1>1. Inv /\ [Next]_vars => [Wanted]_vars
  <2> SUFFICES ASSUME Inv, Next, NEW p \in Pids, app[p].pc = "off", app'[p].pc = "restore"
               PROVE  Enabled /\ sup.exit = "crash"
    BY DEF vars
  <2>0. TypeOK /\ app \in [Pids -> Apps]
    BY DEF Inv, TypeOK
  <2>1. ASSUME NEW q \in Pids, NEW r, r # "restore", NEW bots, NEW news, NEW copy,
               app' = [app EXCEPT ![q] = App(r, bots, news, copy)]
        PROVE  FALSE
    BY <2>0, <2>1 DEF App
  <2>2. CASE \E q \in Pids : User(q) \/ Frame(q) \/ TickFails(q) \/ Crash(q)
    <3>1. PICK q \in Pids : User(q) \/ Frame(q) \/ TickFails(q) \/ Crash(q)
      BY <2>2
    <3>2. CASE UserStart(q) \/ Restore(q) \/ Spawn(q) \/ Stop(q) \/ SetConfig(q)
      <4>1. PICK news, bots, copy : app' = [app EXCEPT ![q] = App("idle", bots, news, copy)]
        BY <3>2, RosterStep
      <4> QED
        BY <2>1, <4>1
    <3>3. CASE Tick(q) \/ TickRecord(q) \/ TickFails(q)
      <4>1. PICK bots, news, copy : app' = [app EXCEPT ![q] = App("idle", bots, news, copy)]
        BY <3>3 DEF Tick, TickRecord, TickFails, Checkpoint
      <4> QED
        BY <2>1, <4>1
    <3>4. CASE ConfigureCreate(q) \/ TickCreate(q) \/ ConfigureRecord(q)
      <4>1. PICK r \in {"idle", "record", "tick_record"} : \E copy :
              app' = [app EXCEPT ![q] = App(r, app[q].bots, app[q].news, copy)]
        BY <3>4, CreateStep
      <4>2. PICK copy : app' = [app EXCEPT ![q] = App(r, app[q].bots, app[q].news, copy)]
        BY <4>1
      <4> QED
        BY <2>1, <4>2
    <3>5. CASE (\E on \in BOOLEAN, mode \in PlanModes : Configure(q, on, mode)) \/ ConfigureUncreated(q)
      <4>1. PICK r \in {"idle", "ensure"} : app' = [app EXCEPT ![q].pc = r]
        BY <3>5 DEF Configure, ConfigureUncreated
      <4> QED
        BY <2>0, <4>1, SMT DEF Apps
    <3>6. CASE ConfigureCheckpointOnly(q) \/ Disable(q)
      BY <3>6 DEF ConfigureCheckpointOnly, Disable
    <3>7. CASE Close(q) \/ Crash(q)
      <4>1. app' = [app EXCEPT ![q] = NoApp]
        BY <3>7 DEF Close, Crash
      <4> QED
        BY <2>0, <4>1, Constants
    <3> QED
      BY <3>1, <3>2, <3>3, <3>4, <3>5, <3>6, <3>7 DEF User, Frame
  <2>3. CASE (\E b \in booting : Boot(b)) \/ Retire \/ NoticeExit \/ Killed \/ Pass
    BY <2>3 DEF Boot, Retire, NoticeExit, Killed, Pass
  <2>4. CASE Wake
    BY <2>4 DEF Wake, Inv, SleepsAfterCrash
  <2> QED
    BY <2>2, <2>3, <2>4 DEF Next, Supervise
<1> QED
  BY InitInv, NextKeepsInv, <1>1, PTL DEF Spec, RestartsAreWanted

(* What a tick notes as saved is what the file holds, whatever failed before  *)
(* (RecoveryRuntime::tick).                                                  *)
THEOREM SavedCurrent == Spec => SavedIsCurrent
<1> DEFINE Saved == \A p \in Pids : app'[p].news = "saved" /\ Roster(p)' # Roster(p)
                                     => ckpt' = app'[p].bots
<1>1. Inv /\ [Next]_vars => [Saved]_vars
  <2> SUFFICES ASSUME Inv, Next, NEW p \in Pids,
                      app'[p].news = "saved", Roster(p)' # Roster(p)
               PROVE  ckpt' = app'[p].bots
    BY DEF vars
  <2>0. TypeOK /\ app \in [Pids -> Apps]
    BY DEF Inv, TypeOK
  <2>1. app'[p] # app[p] /\ <<app'[p].news, app'[p].bots>> # <<app[p].news, app[p].bots>>
    BY DEF Roster
  <2>2. ASSUME NEW q \in Pids, NEW r, NEW bots, NEW news, NEW copy,
               app' = [app EXCEPT ![q] = App(r, bots, news, copy)],
               news = "saved" => ckpt' = bots \/ (news = app[q].news /\ bots = app[q].bots)
        PROVE  ckpt' = app'[p].bots
    BY <2>0, <2>1, <2>2 DEF App
  <2>3. CASE \E q \in Pids : User(q) \/ Frame(q) \/ TickFails(q) \/ Crash(q)
    <3>1. PICK q \in Pids : User(q) \/ Frame(q) \/ TickFails(q) \/ Crash(q)
      BY <2>3
    <3>2. CASE UserStart(q) \/ Restore(q) \/ Spawn(q) \/ Stop(q) \/ SetConfig(q)
      <4>1. PICK news \in {"none", "changed"} : \E bots, copy :
              app' = [app EXCEPT ![q] = App("idle", bots, news, copy)]
        BY <3>2, RosterStep
      <4> QED
        BY <2>2, <4>1
    <3>3. CASE Tick(q) \/ TickRecord(q) \/ TickFails(q)
      <4>1. PICK done : Checkpoint(q, done)
        BY <3>3 DEF Tick, TickRecord, TickFails
      <4>2. CASE Due(q) /\ done
        BY <2>2, <4>1, <4>2 DEF Checkpoint
      <4>3. CASE ~(Due(q) /\ done)
        BY <2>2, <4>1, <4>3 DEF Checkpoint
      <4> QED
        BY <4>2, <4>3
    <3>4. CASE ConfigureCreate(q) \/ TickCreate(q) \/ ConfigureRecord(q)
      <4>1. PICK r, copy : app' = [app EXCEPT ![q] = App(r, app[q].bots, app[q].news, copy)]
        BY <3>4, CreateStep
      <4> QED
        BY <2>2, <4>1
    <3>5. CASE (\E on \in BOOLEAN, mode \in PlanModes : Configure(q, on, mode)) \/ ConfigureUncreated(q)
      <4>1. PICK r : app' = [app EXCEPT ![q].pc = r]
        BY <3>5 DEF Configure, ConfigureUncreated
      <4> QED
        BY <2>0, <2>1, <4>1, SMT DEF Apps
    <3>6. CASE ConfigureCheckpointOnly(q) \/ Disable(q)
      BY <2>1, <3>6 DEF ConfigureCheckpointOnly, Disable
    <3>7. CASE Close(q) \/ Crash(q)
      <4>1. app' = [app EXCEPT ![q] = NoApp] /\ NoApp.news = "none"
        BY <3>7 DEF Close, Crash, NoApp, App
      <4> QED
        BY <2>0, <2>1, <4>1
    <3> QED
      BY <3>1, <3>2, <3>3, <3>4, <3>5, <3>6, <3>7 DEF User, Frame
  <2>4. CASE (\E b \in booting : Boot(b)) \/ Retire \/ NoticeExit \/ Killed \/ Pass
    BY <2>1, <2>4 DEF Boot, Retire, NoticeExit, Killed, Pass
  <2>5. CASE Wake
    <3>1. CASE UNCHANGED app
      BY <2>1, <3>1
    <3>2. PICK q \in Pids : app' = [app EXCEPT ![q] = App("restore", {}, "none", NoPlan)]
      BY <2>1, <2>5 DEF Wake, NewPids, Launch
    <3> QED
      BY <2>2, <3>2
  <2> QED
    BY <2>3, <2>4, <2>5 DEF Next, Supervise
<1> QED
  BY InitInv, NextKeepsInv, <1>1, PTL DEF Spec, SavedIsCurrent
-----------------------------------------------------------------------------
(* The restart budget. Attempts and launches are counted from the latest     *)
(* back: each launch but the first is as old as a later attempt at least     *)
(* (Following), and its own attempt is not older than it by more than the    *)
(* longest delay, unless it has left the window (Backed). A supervisor that  *)
(* has spent its budget of launches and sleeps before one more sleeps until  *)
(* the first has left the window (Slept): its delay is not shorter than that *)
(* one's was, since as many attempts came before it.                         *)
M == Len(sup.attempts)
N == Len(sup.launches)
Off == IF sup.pc = "sleep" THEN 1 ELSE 0
Longest == Delay(knobs.max - 1)
Ordered(s) == \A i, j \in DOMAIN s : i <= j => s[j] <= s[i]
Counted ==
  /\ sup.attempts \in Seq(Nat) /\ sup.launches \in Seq(Nat)
  /\ sup.tries \in Nat /\ sup.delay \in Nat
  /\ Ordered(sup.attempts) /\ Ordered(sup.launches)
  /\ \A i \in 1..N : sup.launches[i] <= knobs.window
Following ==
  \A i \in 1..N - 1 + Off :
    M - N + 1 - Off + i >= 1 /\ sup.attempts[M - N + 1 - Off + i] <= sup.launches[i]
Backed ==
  \A i \in 1..N :
    \/ sup.launches[i] + Longest > knobs.window
    \/ /\ M - Off - N + i >= 1
       /\ sup.attempts[M - Off - N + i] <= sup.launches[i] + Longest
Slept ==
  sup.pc = "sleep" =>
    /\ M >= 1 /\ sup.attempts[M] + sup.delay <= Longest
    /\ N = knobs.max => sup.launches[1] + sup.delay > knobs.window
BudgetInv ==
  /\ knobs \in Knobs /\ DOMAIN sup = DOMAIN NoSup
  /\ Counted /\ Following /\ Backed /\ Slept /\ RestartsWithinBudget

LEMMA KnobsTypes ==
  ASSUME knobs \in Knobs
  PROVE  /\ knobs.delay \in Nat \ {0} /\ knobs.cap \in Nat \ {0} /\ knobs.max \in Nat \ {0}
         /\ knobs.window \in Nat
BY KnobsAssumption

(* The delay grows with the attempts that came before.                       *)
LEMMA DelayGrows ==
  ASSUME knobs \in Knobs, NEW p \in Nat, NEW q \in Nat, p <= q
  PROVE  Delay(p) \in Nat /\ Delay(q) \in Nat /\ Delay(p) <= Delay(q)
<1> DEFINE E(x) == IF x < 5 THEN x ELSE 5
<1>1. /\ \A x \in Nat : Delay(x) = LET d == knobs.delay * Doubled[1 + E(x)]
                                  IN IF d < knobs.cap THEN d ELSE knobs.cap
      /\ E(p) \in 0..5 /\ E(q) \in 0..5 /\ E(p) <= E(q)
  BY DEF Delay
<1>2. /\ Doubled[1] = 1 /\ Doubled[2] = 2 /\ Doubled[3] = 4
      /\ Doubled[4] = 8 /\ Doubled[5] = 16 /\ Doubled[6] = 32
  BY DEF Doubled
<1>3. \A e, f \in 0..5 : e <= f => /\ Doubled[1 + e] \in Nat /\ Doubled[1 + f] \in Nat
                                   /\ Doubled[1 + e] <= Doubled[1 + f]
  BY <1>2
<1> HIDE DEF E
<1>4. \A x, y, z \in Nat : x <= y => /\ z * x \in Nat /\ z * y \in Nat /\ z * x <= z * y
  OBVIOUS
<1>5. /\ knobs.delay * Doubled[1 + E(p)] \in Nat /\ knobs.delay * Doubled[1 + E(q)] \in Nat
      /\ knobs.delay * Doubled[1 + E(p)] <= knobs.delay * Doubled[1 + E(q)]
  BY <1>1, <1>3, <1>4, KnobsTypes
<1> QED
  BY <1>1, <1>5, KnobsTypes

(* What leaves the window is a prefix.                                       *)
LEMMA YoungOnes ==
  ASSUME NEW s \in Seq(Nat), Ordered(s), knobs.window \in Nat
  PROVE  \E r \in 0..Len(s) :
           /\ \A i \in 1..Len(s) : s[i] <= knobs.window <=> i > r
           /\ Young(s) \in Seq(Nat) /\ Len(Young(s)) = Len(s) - r
           /\ \A i \in 1..Len(s) - r : Young(s)[i] = s[r + i]
<1> DEFINE Fits(k) == \A i \in DOMAIN s : s[i] <= knobs.window <=> i >= k
           first == CHOOSE k \in 1..Len(s) + 1 : Fits(k)
<1>0. DOMAIN s = 1..Len(s) /\ Len(s) \in Nat /\ \A i \in 1..Len(s) : s[i] \in Nat
  OBVIOUS
<1>1. \E k \in 1..Len(s) + 1 : Fits(k)
  <2> DEFINE T == {i \in 1..Len(s) : s[i] <= knobs.window}
  <2>1. CASE T = {}
    <3>1. Fits(Len(s) + 1)
      BY <1>0, <2>1
    <3> HIDE DEF Fits
    <3>2. Len(s) + 1 \in 1..Len(s) + 1
      BY <1>0
    <3> QED
      BY <3>1, <3>2
  <2>2. CASE T # {}
    <3>0. T \subseteq Nat
      BY <1>0
    <3>1. PICK x \in T : \A y \in T : x <= y
      <4> HIDE DEF T
      <4> QED
        BY <2>2, <3>0, LeastNat
    <3>2. Fits(x)
      BY <1>0, <3>1 DEF Ordered
    <3> HIDE DEF Fits
    <3>3. x \in 1..Len(s) + 1
      BY <1>0
    <3> QED
      BY <3>2, <3>3
  <2> QED
    BY <2>1, <2>2
<1>2. first \in 1..Len(s) + 1 /\ Fits(first)
  BY <1>1
<1>3. Young(s) = SubSeq(s, first, Len(s))
  BY DEF Young
<1> HIDE DEF first
<1>4. /\ SubSeq(s, first, Len(s)) \in Seq(Nat)
      /\ Len(SubSeq(s, first, Len(s))) = IF first <= Len(s) THEN Len(s) - first + 1 ELSE 0
      /\ \A i \in 1..Len(s) - first + 1 : SubSeq(s, first, Len(s))[i] = s[first + i - 1]
  <2>1. \A i \in first..Len(s) : s[i] \in Nat
    BY <1>0, <1>2
  <2>2. first \in Int /\ Len(s) \in Int
    BY <1>0, <1>2
  <2> QED
    BY <2>1, <2>2, SubSeqProperties
<1> DEFINE r == first - 1
<1>5. r \in 0..Len(s) /\ first = r + 1
  BY <1>0, <1>2
<1> HIDE DEF r
<1>6. /\ \A i \in 1..Len(s) : s[i] <= knobs.window <=> i > r
      /\ Young(s) \in Seq(Nat) /\ Len(Young(s)) = Len(s) - r
  <2>1. \A i \in 1..Len(s) : s[i] <= knobs.window <=> i > r
    <3>1. \A i \in 1..Len(s) : i >= first <=> i > r
      BY <1>0, <1>5
    <3>2. \A i \in 1..Len(s) : s[i] <= knobs.window <=> i >= first
      BY <1>0, <1>2
    <3> QED
      BY <3>1, <3>2
  <2>2. Young(s) \in Seq(Nat)
    BY <1>3, <1>4
  <2>3. Len(Young(s)) = IF first <= Len(s) THEN Len(s) - first + 1 ELSE 0
    BY <1>3, <1>4
  <2>4. CASE first <= Len(s)
    BY <1>0, <1>5, <2>1, <2>2, <2>3, <2>4
  <2>5. CASE ~ (first <= Len(s))
    <3>1. r = Len(s)
      <4>1. Len(s) \in Nat /\ r \in 0..Len(s) /\ first = r + 1
        BY <1>0, <1>5
      <4> QED
        BY <2>5, <4>1
    <3> QED
      BY <1>0, <2>1, <2>2, <2>3, <2>5, <3>1
  <2> QED
    BY <2>4, <2>5
<1>7. \A i \in 1..Len(s) - r : Young(s)[i] = s[r + i]
  BY <1>0, <1>3, <1>4, <1>5
<1> QED
  BY <1>5, <1>6, <1>7

(* A sequence of numbers with one more at its end.                           *)
LEMMA OneMore ==
  ASSUME NEW s \in Seq(Nat), NEW x \in Nat
  PROVE  /\ Append(s, x) \in Seq(Nat) /\ Len(Append(s, x)) = Len(s) + 1
         /\ \A i \in 1..Len(s) : Append(s, x)[i] = s[i]
         /\ Append(s, x)[Len(s) + 1] = x
OBVIOUS

LEMMA Fresh ==
  /\ knobs \in Knobs /\ DOMAIN sup = DOMAIN NoSup /\ sup.pc \in {"none", "watch"}
  /\ sup.attempts = <<>> /\ sup.launches = <<>> /\ sup.tries = 0 /\ sup.delay = 0
  => BudgetInv
BY KnobsTypes DEF BudgetInv, Counted, Ordered, Following, Backed, Slept, RestartsWithinBudget,
   M, N, Off

LEMMA SameBudget ==
  ASSUME BudgetInv, knobs' = knobs, DOMAIN sup' = DOMAIN sup, sup'.pc = sup.pc,
         sup'.attempts = sup.attempts, sup'.launches = sup.launches,
         sup'.tries = sup.tries, sup'.delay = sup.delay
  PROVE  BudgetInv'
BY DEF BudgetInv, Counted, Ordered, Following, Backed, Slept, RestartsWithinBudget, M, N, Off,
       Longest, Delay

(* What the invariant says of one state, in names of its own.                *)
LEMMA Unfolded ==
  ASSUME BudgetInv
  PROVE  /\ M \in Nat /\ N \in Nat /\ Off \in {0, 1} /\ Longest \in Nat
         /\ knobs.max \in Nat \ {0} /\ knobs.window \in Nat
         /\ \A i \in 1..M : sup.attempts[i] \in Nat
         /\ \A i \in 1..N : sup.launches[i] \in Nat
         /\ DOMAIN sup.attempts = 1..M /\ DOMAIN sup.launches = 1..N
<1>1. knobs.max - 1 \in Nat /\ knobs.max \in Nat \ {0} /\ knobs.window \in Nat
  BY KnobsTypes DEF BudgetInv
<1>2. Longest \in Nat
  BY <1>1, DelayGrows DEF BudgetInv, Longest
<1>3. M \in Nat /\ N \in Nat /\ DOMAIN sup.attempts = 1..M /\ DOMAIN sup.launches = 1..N
  BY DEF BudgetInv, Counted, M, N
<1>4. /\ \A i \in 1..M : sup.attempts[i] \in Nat
      /\ \A i \in 1..N : sup.launches[i] \in Nat
  BY <1>3 DEF BudgetInv, Counted
<1> QED
  BY <1>1, <1>2, <1>3, <1>4 DEF Off

(* One attempt, after a crash or after a start that failed.                  *)
LEMMA AttemptKeepsBudget ==
  ASSUME BudgetInv, knobs' = knobs, NEW s, DOMAIN s = DOMAIN NoSup,
         s.attempts = sup.attempts, s.launches = sup.launches, s.tries \in Nat,
         sup.pc = "watch" \/ (sup.pc = "sleep" /\ sup.delay = 0),
         sup' = Attempt(s)
  PROVE  BudgetInv'
<1> DEFINE a == sup.attempts
           l == sup.launches
           past == Young(a)
           prior == IF Len(past) > s.tries THEN Len(past) ELSE s.tries
           W == knobs.window
<1>0. /\ a \in Seq(Nat) /\ l \in Seq(Nat) /\ Ordered(a) /\ Ordered(l) /\ W \in Nat
      /\ M = Len(a) /\ N = Len(l) /\ M \in Nat /\ N \in Nat /\ Longest \in Nat
      /\ knobs.max \in Nat \ {0} /\ knobs \in Knobs
      /\ (\A i \in 1..M : a[i] \in Nat) /\ (\A i \in 1..N : l[i] \in Nat /\ l[i] <= W)
  BY Unfolded DEF BudgetInv, Counted, M, N
<1>n. M \in Nat /\ N \in Nat /\ Off \in {0, 1} /\ W \in Nat /\ knobs.max \in Nat \ {0}
  BY <1>0 DEF Off
<1>v. /\ \A i \in 1..M : a[i] \in Nat
      /\ \A i \in 1..N : l[i] \in Nat /\ l[i] <= W
      /\ \A i, j \in 1..M : i <= j => a[j] <= a[i]
      /\ Longest \in Nat
  <2>1. DOMAIN a = 1..M
    BY <1>0
  <2>2. \A i, j \in 1..M : i <= j => a[j] <= a[i]
    BY <1>0, <2>1 DEF Ordered
  <2> QED
    BY <1>0, <2>2
<1>1. CASE sup' = NoSup
  <2>1. (/\ knobs \in Knobs /\ DOMAIN sup = DOMAIN NoSup /\ sup.pc \in {"none", "watch"}
         /\ sup.attempts = <<>> /\ sup.launches = <<>> /\ sup.tries = 0 /\ sup.delay = 0
         => BudgetInv)'
    BY Fresh, PTL
  <2> QED
    BY <1>0, <1>1, <2>1 DEF NoSup
<1>2. CASE sup' # NoSup
  <2>1. /\ ~ (s.tries >= knobs.max) /\ ~ (Len(past) >= knobs.max)
        /\ sup' = [s EXCEPT !.pc = "sleep", !.attempts = Append(past, 0), !.tries = s.tries + 1,
                            !.delay = Delay(prior), !.watched = NoPid]
    BY <1>2 DEF Attempt
  <2>2. /\ DOMAIN sup' = DOMAIN NoSup /\ sup'.pc = "sleep" /\ sup'.launches = l
        /\ sup'.attempts = Append(past, 0) /\ sup'.tries = s.tries + 1
        /\ sup'.delay = Delay(prior)
    BY <2>1 DEF NoSup
  <2>3. PICK r \in 0..M :
          /\ \A i \in 1..M : a[i] <= W <=> i > r
          /\ past \in Seq(Nat) /\ Len(past) = M - r
          /\ \A i \in 1..M - r : past[i] = a[r + i]
    BY <1>0, YoungOnes
  <2>4. /\ Append(past, 0) \in Seq(Nat) /\ Len(Append(past, 0)) = M - r + 1
        /\ \A i \in 1..M - r : Append(past, 0)[i] = a[r + i]
        /\ Append(past, 0)[M - r + 1] = 0
    <3> HIDE DEF past
    <3> QED
      BY <2>3, OneMore
  <2>5. /\ prior \in Nat /\ prior <= knobs.max - 1 /\ prior >= M - r /\ M - r < knobs.max
        /\ knobs.max - 1 \in Nat
    <3>1. Len(past) = M - r /\ M - r \in Nat /\ s.tries \in Nat /\ sup.pc \in {"watch", "sleep"}
      BY <1>n, <2>3
    <3> HIDE DEF past
    <3> QED
      BY <1>n, <2>1, <3>1
  <2>6. Delay(prior) \in Nat /\ Delay(prior) <= Longest
    BY <1>0, <2>5, DelayGrows DEF Longest
  <2> DEFINE b == Append(past, 0)
             Q == M - r + 1
  <2>7. /\ b \in Seq(Nat) /\ Len(b) = Q /\ Q \in Nat /\ b[Q] = 0 /\ DOMAIN b = 1..Q
        /\ \A i \in 1..Q - 1 : b[i] = a[r + i]
        /\ \A i \in 1..Q : b[i] \in Nat
    BY <1>n, <1>v, <2>3, <2>4
  <2> HIDE DEF past, prior, b
  <2>8. Ordered(b)
    <3> SUFFICES ASSUME NEW i \in 1..Q, NEW j \in 1..Q, i <= j PROVE b[j] <= b[i]
      BY <2>7 DEF Ordered
    <3>1. CASE j = Q
      BY <2>7, <3>1
    <3>2. CASE j # Q
      <4>1. /\ r + i \in 1..M /\ r + j \in 1..M /\ r + i <= r + j
            /\ i \in 1..Q - 1 /\ j \in 1..Q - 1
        <5>1. i \in 1..Q /\ j \in 1..Q /\ i <= j /\ j # Q /\ Q = M - r + 1 /\ r \in 0..M
          BY <3>2
        <5> QED
          BY <1>n, <5>1
      <4> QED
        BY <1>v, <2>7, <4>1
    <3> QED
      BY <3>1, <3>2
  \* The attempts that followed a launch are young, so they were kept.
  <2>9. \A i \in 1..N - 1 + Off : M - N + 1 - Off + i > r /\ a[M - N + 1 - Off + i] <= l[i]
    <3> SUFFICES ASSUME NEW i \in 1..N - 1 + Off
                 PROVE  M - N + 1 - Off + i > r /\ a[M - N + 1 - Off + i] <= l[i]
      OBVIOUS
    <3>1. i \in 1..N
      BY <1>n
    <3>2. M - N + 1 - Off + i \in 1..M /\ a[M - N + 1 - Off + i] <= l[i]
      BY <1>n, <1>v, <3>1 DEF BudgetInv, Following
    <3>3. a[M - N + 1 - Off + i] <= W
      BY <1>n, <1>v, <3>1, <3>2
    <3> QED
      BY <2>3, <3>2, <3>3
  <2>10. \A i \in 1..N : Q - N + i >= 1 /\ b[Q - N + i] <= l[i]
    <3> SUFFICES ASSUME NEW i \in 1..N PROVE Q - N + i >= 1 /\ b[Q - N + i] <= l[i]
      OBVIOUS
    <3>1. CASE i = N
      BY <1>n, <1>v, <2>7, <3>1
    <3>2. CASE i # N /\ Off = 0
      <4>1. M - N + 1 + i > r /\ a[M - N + 1 + i] <= l[i]
        BY <1>n, <1>v, <2>9, <3>2
      <4>2. Q - N + i \in 1..Q - 1 /\ r + (Q - N + i) = M - N + 1 + i
        <5>1. M \in Nat /\ N \in Nat /\ r \in 0..M /\ i \in 1..N /\ i # N /\ Q = M - r + 1
          BY <1>n, <3>2
        <5> QED
          BY <4>1, <5>1
      <4> QED
        BY <2>7, <4>1, <4>2
    <3>3. CASE i # N /\ Off = 1
      <4>1. M - N + i > r /\ a[M - N + i] <= l[i]
        BY <1>n, <1>v, <2>9, <3>3
      <4>2. M - N + i + 1 \in 1..M /\ a[M - N + i + 1] <= a[M - N + i]
        BY <1>n, <1>v, <2>3, <3>3, <4>1
      <4>3. Q - N + i \in 1..Q - 1 /\ r + (Q - N + i) = M - N + i + 1
        BY <1>n, <1>v, <2>3, <3>3, <4>1
      <4>4. b[Q - N + i] = a[M - N + i + 1] /\ Q - N + i >= 1
        BY <2>7, <4>3
      <4>5. M - N + i \in 1..M
        BY <1>n, <2>3, <3>3, <4>1
      <4> QED
        BY <1>v, <4>1, <4>2, <4>4, <4>5
    <3> QED
      BY <3>1, <3>2, <3>3 DEF Off
  <2>11. \A i \in 1..N : \/ l[i] + Longest > W
                         \/ Q - 1 - N + i >= 1 /\ b[Q - 1 - N + i] <= l[i] + Longest
    <3> SUFFICES ASSUME NEW i \in 1..N, ~ (l[i] + Longest > W)
                 PROVE  Q - 1 - N + i >= 1 /\ b[Q - 1 - N + i] <= l[i] + Longest
      OBVIOUS
    <3>1. M - Off - N + i >= 1 /\ a[M - Off - N + i] <= l[i] + Longest /\ Off \in {0, 1}
      BY DEF BudgetInv, Backed, Off
    <3>2. M - Off - N + i \in 1..M /\ a[M - Off - N + i] <= W
      BY <1>n, <1>v, <3>1
    <3>3. M - Off - N + i > r
      BY <2>3, <3>2
    <3>4. /\ M - N + i \in 1..M /\ a[M - N + i] <= a[M - Off - N + i]
          /\ M - N + i > r
      BY <1>n, <1>v, <3>1, <3>2, <3>3 DEF Ordered
    <3>5. Q - 1 - N + i \in 1..Q - 1 /\ r + (Q - 1 - N + i) = M - N + i
      BY <1>n, <1>v, <2>3, <3>4
    <3>6. b[Q - 1 - N + i] = a[M - N + i]
      BY <2>7, <3>5
    <3> QED
      BY <1>n, <1>v, <3>1, <3>2, <3>4, <3>5, <3>6
  \* With the budget of launches spent, the first one's attempt has left the window,
  \* and the present delay is the longest.
  <2>12. N = knobs.max => l[1] + Delay(prior) > W
    <3> SUFFICES ASSUME N = knobs.max PROVE l[1] + Delay(prior) > W
      OBVIOUS
    <3>1. CASE Off = 1
      <4>1. sup.pc = "sleep" /\ sup.delay = 0
        BY <3>1 DEF Off
      <4> QED
        BY <1>n, <1>v, <4>1 DEF BudgetInv, Slept
    <3>2. CASE Off = 0
      <4>1. CASE N = 1
        <5>1. knobs.max - 1 = 0
          BY <1>n, <1>v, <4>1
        <5>2. Longest = Delay(prior)
          BY <1>n, <1>v, <2>5, <5>1 DEF Longest
        <5>3. Q = 1
          BY <1>n, <1>v, <2>3, <2>5, <4>1
        <5>4. l[1] + Longest > W
          BY <1>n, <1>v, <2>11, <4>1, <5>3
        <5> QED
          BY <5>2, <5>4
      <4>2. CASE N # 1
        <5>1. 1 \in 1..N - 1 + Off /\ M - N + 1 - Off + 1 > r
          BY <1>n, <1>v, <2>9, <3>2, <4>2
        <5>2. M - r >= knobs.max - 1 /\ prior = knobs.max - 1
          BY <1>n, <2>5, <3>2, <5>1, SMTT(30)
        <5>3. Q = N
          BY <1>n, <1>v, <2>3, <2>5, <5>2
        <5>4. l[1] + Longest > W
          BY <1>n, <1>v, <2>11, <5>3
        <5> QED
          BY <5>2, <5>4 DEF Longest
      <4> QED
        BY <4>1, <4>2
    <3> QED
      BY <3>1, <3>2 DEF Off
  <2>13. /\ M' = Q /\ N' = N /\ Off' = 1 /\ Longest' = Longest
    BY <1>n, <1>v, <2>2, <2>7 DEF M, N, Off, Longest, Delay, b
  <2>14. sup'.attempts = b /\ sup'.tries \in Nat /\ sup'.delay \in Nat
    BY <2>2, <2>6 DEF b
  <2>15. Counted'
    BY <1>0, <2>2, <2>7, <2>8, <2>13, <2>14 DEF Counted, Ordered
  <2>16. Following'
    <3>1. \A i \in 1..N - 1 + 1 : i \in 1..N /\ Q - N + 1 - 1 + i = Q - N + i
      BY <1>n, <2>7
    <3>2. \A i \in 1..N - 1 + 1 : Q - N + 1 - 1 + i >= 1 /\ b[Q - N + 1 - 1 + i] <= l[i]
      BY <2>10, <3>1
    <3> QED
      BY <2>2, <2>13, <2>14, <3>2 DEF Following
  <2>17. Backed'
    BY <1>n, <1>v, <2>2, <2>11, <2>13, <2>14 DEF Backed
  <2>18. Slept'
    BY <1>n, <1>v, <2>2, <2>3, <2>6, <2>7, <2>12, <2>13, <2>14 DEF Slept
  <2>19. RestartsWithinBudget'
    BY <1>n, <1>v, <2>2 DEF BudgetInv, RestartsWithinBudget
  <2> QED
    BY <1>n, <1>v, <2>2, <2>15, <2>16, <2>17, <2>18, <2>19 DEF BudgetInv
<1> QED
  BY <1>1, <1>2

(* A start by the supervisor.                                                *)
LEMMA LaunchKeepsBudget ==
  ASSUME BudgetInv, knobs' = knobs, sup.pc = "sleep", sup.delay = 0, NEW q, Launch(q)
  PROVE  BudgetInv'
<1> DEFINE a == sup.attempts
           l == sup.launches
           W == knobs.window
           c == Append(l, 0)
<1>0. /\ a \in Seq(Nat) /\ l \in Seq(Nat) /\ Ordered(a) /\ Ordered(l) /\ W \in Nat
      /\ M = Len(a) /\ N = Len(l) /\ M \in Nat /\ N \in Nat /\ Longest \in Nat
      /\ knobs.max \in Nat \ {0} /\ knobs \in Knobs /\ Off = 1
      /\ (\A i \in 1..M : a[i] \in Nat) /\ (\A i \in 1..N : l[i] \in Nat /\ l[i] <= W)
  BY Unfolded DEF BudgetInv, Counted, M, N, Off
<1>n. M \in Nat /\ N \in Nat /\ Off = 1 /\ W \in Nat /\ knobs.max \in Nat \ {0} /\ Longest \in Nat
  BY <1>0
<1>v. (\A i \in 1..M : a[i] \in Nat) /\ (\A i \in 1..N : l[i] \in Nat /\ l[i] <= W)
  BY <1>0
<1>1. Young(l) = l
  <2>1. PICK r \in 0..N :
          /\ \A i \in 1..N : l[i] <= W <=> i > r
          /\ Young(l) \in Seq(Nat) /\ Len(Young(l)) = N - r
          /\ \A i \in 1..N - r : Young(l)[i] = l[r + i]
    BY <1>0, YoungOnes
  <2>2. r = 0
    BY <1>n, <1>v, <2>1
  <2>3. Len(Young(l)) = Len(l) /\ \A i \in 1..N : Young(l)[i] = l[i]
    BY <1>0, <2>1, <2>2
  <2> HIDE DEF l
  <2> QED
    BY <1>0, <2>1, <2>3, SeqEqual
<1>2. N < knobs.max
  BY <1>n, <1>v DEF BudgetInv, Slept, RestartsWithinBudget, N
<1>3. /\ DOMAIN sup' = DOMAIN NoSup /\ sup'.pc = "watch" /\ sup'.attempts = a
      /\ sup'.launches = c /\ sup'.tries = sup.tries /\ sup'.delay = sup.delay
  BY <1>1 DEF Launch, BudgetInv, NoSup
<1>4. /\ c \in Seq(Nat) /\ Len(c) = N + 1 /\ c[N + 1] = 0
      /\ \A i \in 1..N : c[i] = l[i]
      /\ DOMAIN c = 1..N + 1
  BY <1>0
<1>5. M' = M /\ N' = N + 1 /\ Off' = 0 /\ Longest' = Longest
  BY <1>0, <1>3, <1>4 DEF M, N, Off, Longest, Delay
<1>6. \A i, j \in 1..N : i <= j => l[j] <= l[i]
  <2>1. DOMAIN l = 1..N
    BY <1>0
  <2> QED
    BY <1>0, <2>1 DEF Ordered
<1> HIDE DEF c
<1>7. Ordered(c)
  <2> SUFFICES ASSUME NEW i \in 1..N + 1, NEW j \in 1..N + 1, i <= j PROVE c[j] <= c[i]
    BY <1>4 DEF Ordered
  <2>1. CASE j = N + 1
    BY <1>n, <1>v, <1>4, <2>1
  <2>2. CASE j # N + 1
    BY <1>n, <1>4, <1>6, <2>2
  <2> QED
    BY <2>1, <2>2
<1>8. Counted'
  <2>1. /\ \A i \in 1..N + 1 : c[i] <= W
        /\ sup.tries \in Nat /\ sup.delay \in Nat
    <3>1. \A i \in 1..N + 1 : i \in 1..N \/ i = N + 1
      BY <1>n
    <3>2. sup.tries \in Nat /\ sup.delay \in Nat
      BY DEF BudgetInv, Counted
    <3> QED
      BY <1>n, <1>v, <1>4, <3>1, <3>2
  <2>2. knobs'.window = W
    OBVIOUS
  <2> HIDE DEF a, W
  <2> QED
    BY <1>0, <1>3, <1>4, <1>5, <1>7, <2>1, <2>2 DEF Counted
<1>9. Following'
  <2>1. \A i \in 1..N : M - N + i >= 1 /\ a[M - N + i] <= l[i]
    <3>1. \A i \in 1..N : i \in 1..N - 1 + Off /\ M - N + 1 - Off + i = M - N + i
      BY <1>n
    <3> QED
      BY <3>1 DEF BudgetInv, Following
  <2>4. ASSUME NEW i \in 1..N' - 1 + Off'
        PROVE  M' - N' + 1 - Off' + i >= 1 /\ a[M' - N' + 1 - Off' + i] <= c[i]
    <3>1. i \in 1..N
      BY <1>n, <1>5
    <3>2. M' - N' + 1 - Off' + i = M - N + i
      BY <1>n, <1>5, <3>1
    <3>3. c[i] = l[i]
      BY <1>4, <3>1
    <3> QED
      BY <2>1, <3>1, <3>2, <3>3
  <2> QED
    BY <1>3, <2>4 DEF Following
<1>10. Backed'
  <2>1. \A i \in 1..N + 1 : \/ c[i] + Longest > W
                            \/ /\ M - 0 - (N + 1) + i >= 1
                               /\ a[M - 0 - (N + 1) + i] <= c[i] + Longest
    <3> SUFFICES ASSUME NEW i \in 1..N + 1
                 PROVE  \/ c[i] + Longest > W
                        \/ /\ M - 0 - (N + 1) + i >= 1
                           /\ a[M - 0 - (N + 1) + i] <= c[i] + Longest
      OBVIOUS
    <3>1. CASE i = N + 1
      <4>1. M >= 1 /\ a[M] <= Longest
        <5>1. M >= 1 /\ a[M] + sup.delay <= Longest
          BY DEF BudgetInv, Slept
        <5> QED
          BY <1>n, <1>v, <5>1
      <4>2. M - 0 - (N + 1) + i = M
        BY <1>n, <3>1
      <4> QED
        BY <1>n, <1>4, <3>1, <4>1, <4>2, SMTT(30)
    <3>2. CASE i # N + 1
      <4>1. i \in 1..N
        BY <1>n, <3>2
      <4>2. M - 0 - (N + 1) + i = M - Off - N + i
        BY <1>n, <4>1
      <4>3. c[i] = l[i]
        BY <1>4, <4>1
      <4> QED
        BY <4>1, <4>2, <4>3 DEF BudgetInv, Backed
    <3> QED
      BY <3>1, <3>2
  <2> QED
    BY <1>3, <1>5, <2>1 DEF Backed
<1>11. Slept' /\ RestartsWithinBudget'
  BY <1>n, <1>2, <1>3, <1>5 DEF Slept, RestartsWithinBudget, N
<1> QED
  BY <1>0, <1>3, <1>8, <1>9, <1>10, <1>11 DEF BudgetInv

(* A unit of time: attempts and launches age, and a sleep grows shorter.     *)
LEMMA PassKeepsBudget ==
  ASSUME BudgetInv, Pass
  PROVE  BudgetInv'
<1> DEFINE a == sup.attempts
           l == sup.launches
           W == knobs.window
           b == Older(a)
           c == Older(l)
           d == Young(c)
<1>0. /\ a \in Seq(Nat) /\ l \in Seq(Nat) /\ Ordered(a) /\ Ordered(l) /\ W \in Nat
      /\ M = Len(a) /\ N = Len(l) /\ M \in Nat /\ N \in Nat /\ Longest \in Nat
      /\ knobs.max \in Nat \ {0} /\ knobs \in Knobs /\ Off \in {0, 1}
      /\ (\A i \in 1..M : a[i] \in Nat) /\ (\A i \in 1..N : l[i] \in Nat /\ l[i] <= W)
      /\ DOMAIN a = 1..M /\ DOMAIN l = 1..N
  BY Unfolded DEF BudgetInv, Counted, M, N
<1>n. /\ M \in Nat /\ N \in Nat /\ Off \in {0, 1} /\ W \in Nat /\ Longest \in Nat
      /\ knobs.max \in Nat \ {0}
  BY <1>0
<1>v. /\ \A i \in 1..M : a[i] \in Nat
      /\ \A i \in 1..N : l[i] \in Nat /\ l[i] <= W
      /\ \A i, j \in 1..M : i <= j => a[j] <= a[i]
      /\ \A i, j \in 1..N : i <= j => l[j] <= l[i]
  BY <1>0 DEF Ordered
<1>1. /\ b \in Seq(Nat) /\ Len(b) = M /\ DOMAIN b = 1..M
      /\ \A i \in 1..M : b[i] = IF a[i] <= W THEN a[i] + 1 ELSE a[i]
  <2>1. b = [i \in 1..M |-> IF a[i] <= W THEN a[i] + 1 ELSE a[i]]
    BY <1>0 DEF Older
  <2>2. \A i \in 1..M : (IF a[i] <= W THEN a[i] + 1 ELSE a[i]) \in Nat
    BY <1>v
  <2> HIDE DEF a, b
  <2> QED
    BY <1>n, <2>1, <2>2
<1>2. /\ c \in Seq(Nat) /\ Len(c) = N /\ DOMAIN c = 1..N
      /\ \A i \in 1..N : c[i] = l[i] + 1
  <2>1. c = [i \in 1..N |-> l[i] + 1]
    BY <1>0 DEF Older
  <2>2. \A i \in 1..N : l[i] + 1 \in Nat
    BY <1>v
  <2> HIDE DEF l, c
  <2> QED
    BY <1>n, <2>1, <2>2
<1>3. Ordered(b) /\ Ordered(c)
  <2>1. ASSUME NEW i \in 1..M, NEW j \in 1..M, i <= j PROVE b[j] <= b[i]
    <3>1. a[j] <= a[i] /\ a[i] \in Nat /\ a[j] \in Nat
      BY <1>v, <2>1
    <3>2. /\ b[i] = IF a[i] <= W THEN a[i] + 1 ELSE a[i]
          /\ b[j] = IF a[j] <= W THEN a[j] + 1 ELSE a[j]
      BY <1>1
    <3> HIDE DEF a, b, W
    <3> QED
      BY <1>n, <3>1, <3>2
  <2>2. ASSUME NEW i \in 1..N, NEW j \in 1..N, i <= j PROVE c[j] <= c[i]
    <3>1. l[j] <= l[i] /\ l[i] \in Nat /\ l[j] \in Nat
      BY <1>v, <2>2
    <3>2. c[i] = l[i] + 1 /\ c[j] = l[j] + 1
      BY <1>2
    <3> HIDE DEF l, c
    <3> QED
      BY <3>1, <3>2
  <2> QED
    BY <1>1, <1>2, <2>1, <2>2 DEF Ordered
<1> HIDE DEF b, c
<1>4. PICK r \in 0..N :
        /\ \A i \in 1..N : c[i] <= W <=> i > r
        /\ d \in Seq(Nat) /\ Len(d) = N - r
        /\ \A i \in 1..N - r : d[i] = c[r + i]
  <2>1. c \in Seq(Nat) /\ Ordered(c) /\ knobs.window \in Nat
    BY <1>0, <1>2, <1>3
  <2>2. \E r \in 0..Len(c) :
          /\ \A i \in 1..Len(c) : c[i] <= knobs.window <=> i > r
          /\ Young(c) \in Seq(Nat) /\ Len(Young(c)) = Len(c) - r
          /\ \A i \in 1..Len(c) - r : Young(c)[i] = c[r + i]
    BY <2>1, YoungOnes
  <2> QED
    BY <1>2, <2>2
<1>5. /\ DOMAIN sup' = DOMAIN NoSup /\ sup'.pc = sup.pc /\ sup'.attempts = b
      /\ sup'.launches = d /\ sup'.tries = sup.tries
      /\ sup'.delay = IF sup.delay > 0 THEN sup.delay - 1 ELSE 0
      /\ knobs' = knobs
  BY DEF Pass, BudgetInv, NoSup, b, c
<1> HIDE DEF d
<1>6. \A i \in 1..N - r : r + i \in 1..N /\ d[i] = l[r + i] + 1 /\ d[i] <= W
  <2> SUFFICES ASSUME NEW i \in 1..N - r
               PROVE  r + i \in 1..N /\ d[i] = l[r + i] + 1 /\ d[i] <= W
    OBVIOUS
  <2>1. r + i \in 1..N /\ r + i > r
    BY <1>n
  <2> QED
    BY <1>2, <1>4, <2>1
<1>7. M' = M /\ N' = N - r /\ Off' = Off /\ Longest' = Longest /\ N' \in Nat
  BY <1>n, <1>1, <1>4, <1>5 DEF M, N, Off, Longest, Delay
<1>8. DOMAIN d = 1..N - r
  BY <1>4
<1>9. Counted'
  <2>1. Ordered(d)
    <3> SUFFICES ASSUME NEW i \in 1..N - r, NEW j \in 1..N - r, i <= j PROVE d[j] <= d[i]
      BY <1>8 DEF Ordered
    <3>1. r + i \in 1..N /\ r + j \in 1..N /\ r + i <= r + j
      BY <1>n
    <3> QED
      BY <1>6, <1>v, <3>1
  <2>2. sup'.delay \in Nat /\ sup'.tries \in Nat
    BY <1>5 DEF BudgetInv, Counted
  <2> QED
    BY <1>1, <1>3, <1>4, <1>5, <1>6, <1>7, <2>1, <2>2 DEF Counted, Ordered
<1>10. \A i \in 1..M : b[i] \in Nat /\ b[i] <= a[i] + 1
  BY <1>v, <1>1, <1>n
<1>11. Following'
  <2> SUFFICES ASSUME NEW i \in 1..N' - 1 + Off'
               PROVE  M' - N' + 1 - Off' + i >= 1 /\ b[M' - N' + 1 - Off' + i] <= d[i]
    BY <1>5 DEF Following
  <2>1. r + i \in 1..N - 1 + Off /\ i \in 1..N - r
    BY <1>n, <1>7
  <2>2. M' - N' + 1 - Off' + i = M - N + 1 - Off + (r + i)
    BY <1>n, <1>7, <2>1
  <2>3. M - N + 1 - Off + (r + i) >= 1 /\ a[M - N + 1 - Off + (r + i)] <= l[r + i]
    BY <2>1 DEF BudgetInv, Following
  <2>4. M - N + 1 - Off + (r + i) \in 1..M /\ r + i \in 1..N
    BY <1>n, <2>1, <2>3
  <2> QED
    BY <1>v, <1>6, <1>10, <2>1, <2>2, <2>3, <2>4
<1>12. Backed'
  <2> SUFFICES ASSUME NEW i \in 1..N'
               PROVE  \/ d[i] + Longest > W
                      \/ /\ M' - Off' - N' + i >= 1
                         /\ b[M' - Off' - N' + i] <= d[i] + Longest
    BY <1>5, <1>7 DEF Backed
  <2>1. r + i \in 1..N /\ i \in 1..N - r
    BY <1>n, <1>7
  <2>2. M' - Off' - N' + i = M - Off - N + (r + i)
    BY <1>n, <1>7, <2>1
  <2>3. CASE l[r + i] + Longest > W
    BY <1>n, <1>v, <1>6, <2>1, <2>3
  <2>4. CASE M - Off - N + (r + i) >= 1 /\ a[M - Off - N + (r + i)] <= l[r + i] + Longest
    <3>1. M - Off - N + (r + i) \in 1..M
      BY <1>n, <2>1, <2>4
    <3> QED
      BY <1>n, <1>v, <1>6, <1>10, <2>1, <2>2, <2>4, <3>1
  <2> QED
    BY <2>1, <2>3, <2>4 DEF BudgetInv, Backed
<1>13. Slept'
  <2> SUFFICES ASSUME sup.pc = "sleep"
               PROVE  /\ M >= 1 /\ b[M] + sup'.delay <= Longest
                      /\ N - r = knobs.max => d[1] + sup'.delay > W
    BY <1>5, <1>7 DEF Slept
  <2>1. sup.delay \in Nat /\ sup.delay # 0 /\ sup'.delay = sup.delay - 1
    BY <1>5 DEF Pass, BudgetInv, Counted
  <2>2. M >= 1 /\ a[M] + sup.delay <= Longest /\ (N = knobs.max => l[1] + sup.delay > W)
    BY DEF BudgetInv, Slept
  <2>3. M \in 1..M
    BY <1>n, <2>2
  <2>4. b[M] + sup'.delay <= Longest
    BY <1>n, <1>v, <1>10, <2>1, <2>2, <2>3
  <2>5. ASSUME N - r = knobs.max PROVE d[1] + sup'.delay > W
    <3>1. r = 0 /\ N = knobs.max /\ 1 \in 1..N - r
      BY <1>n, <2>5 DEF BudgetInv, RestartsWithinBudget, N
    <3>2. d[1] = l[1] + 1 /\ l[1] \in Nat
      BY <1>6, <1>v, <3>1
    <3> QED
      BY <1>n, <2>1, <2>2, <3>1, <3>2
  <2> QED
    BY <2>2, <2>4, <2>5
<1>14. RestartsWithinBudget'
  BY <1>n, <1>5, <1>7 DEF BudgetInv, RestartsWithinBudget, N
<1> QED
  BY <1>0, <1>5, <1>9, <1>11, <1>12, <1>13, <1>14 DEF BudgetInv

LEMMA BudgetStep == BudgetInv /\ [Next]_vars => BudgetInv'
<1> SUFFICES ASSUME BudgetInv, [Next]_vars PROVE BudgetInv'
  OBVIOUS
<1>0. knobs \in Knobs /\ DOMAIN sup = DOMAIN NoSup
  BY DEF BudgetInv
<1>1. ASSUME knobs' = knobs, sup' = NoSup PROVE BudgetInv'
  <2>1. (/\ knobs \in Knobs /\ DOMAIN sup = DOMAIN NoSup /\ sup.pc \in {"none", "watch"}
         /\ sup.attempts = <<>> /\ sup.launches = <<>> /\ sup.tries = 0 /\ sup.delay = 0
         => BudgetInv)'
    BY Fresh, PTL
  <2> QED
    BY <1>0, <1>1, <2>1 DEF NoSup
<1>2. ASSUME UNCHANGED <<knobs, sup>> PROVE BudgetInv'
  BY <1>2, SameBudget
<1>3. ASSUME NEW p \in Pids, Close(p) \/ Crash(p) PROVE BudgetInv'
  <2>1. PICK code : sup' = Seen(p, code)
    BY <1>3 DEF Close, Crash
  <2>2. /\ DOMAIN sup' = DOMAIN sup /\ sup'.pc = sup.pc /\ sup'.attempts = sup.attempts
        /\ sup'.launches = sup.launches /\ sup'.tries = sup.tries /\ sup'.delay = sup.delay
    BY <2>1 DEF Seen
  <2> QED
    BY <1>3, <2>2, SameBudget DEF Close, Crash
<1>4. ASSUME NEW p \in Pids, User(p) \/ Frame(p) \/ TickFails(p) \/ Crash(p) PROVE BudgetInv'
  BY <1>2, <1>3, <1>4 DEF User, Frame, TickFails, UserStart, Spawn, Stop, SetConfig, Change,
     Configure, ConfigureCheckpointOnly, Disable, Restore, ConfigureCreate, ConfigureUncreated,
     ConfigureRecord, Tick, TickCreate, TickRecord, Create
<1>5. ASSUME NEW b \in booting, Boot(b) PROVE BudgetInv'
  <2>1. CASE sup' = sup
    BY <1>2, <1>5, <2>1 DEF Boot
  <2>2. CASE sup' # sup
    <3>1. sup' = [NoSup EXCEPT !.pc = "watch", !.pid = b.pid, !.watched = b.watch]
      BY <1>5, <2>2 DEF Boot
    <3>2. (/\ knobs \in Knobs /\ DOMAIN sup = DOMAIN NoSup /\ sup.pc \in {"none", "watch"}
           /\ sup.attempts = <<>> /\ sup.launches = <<>> /\ sup.tries = 0 /\ sup.delay = 0
           => BudgetInv)'
      BY Fresh, PTL
    <3> QED
      BY <1>0, <1>5, <3>1, <3>2 DEF Boot, NoSup
  <2> QED
    BY <2>1, <2>2
<1>6. CASE Retire \/ Killed
  BY <1>1, <1>6 DEF Retire, Killed
<1>7. CASE NoticeExit
  <2> DEFINE s == [sup EXCEPT !.tries = 0]
  <2>1. /\ DOMAIN s = DOMAIN NoSup /\ s.attempts = sup.attempts /\ s.launches = sup.launches
        /\ s.tries \in Nat
    BY <1>0 DEF NoSup
  <2>2. sup.pc = "watch" /\ knobs' = knobs /\ (sup' = NoSup \/ sup' = Attempt(s))
    BY <1>7 DEF NoticeExit
  <2> HIDE DEF s
  <2> QED
    BY <1>1, <2>1, <2>2, AttemptKeepsBudget
<1>8. CASE Wake
  <2>1. sup.pc = "sleep" /\ sup.delay = 0 /\ knobs' = knobs /\ sup.tries \in Nat
    BY <1>8 DEF Wake, BudgetInv, Counted
  <2>2. sup' = NoSup \/ (\E q \in NewPids : Launch(q)) \/ sup' = Attempt(sup)
    BY <1>8 DEF Wake
  <2> QED
    BY <1>0, <1>1, <2>1, <2>2, AttemptKeepsBudget, LaunchKeepsBudget
<1>9. CASE Pass
  BY <1>9, PassKeepsBudget
<1>10. CASE UNCHANGED vars
  BY <1>2, <1>10 DEF vars
<1> QED
  BY <1>4, <1>5, <1>6, <1>7, <1>8, <1>9, <1>10 DEF Next, Supervise

(* The supervisor never starts the application more than max_restarts times  *)
(* within window_seconds, for any settings of the plan (its restart loop).   *)
THEOREM BudgetCorrect == Spec => []RestartsWithinBudget
<1>1. Init => BudgetInv
  BY Fresh DEF Init, NoSup
<1>2. BudgetInv => RestartsWithinBudget
  BY DEF BudgetInv
<1> QED
  BY <1>1, <1>2, BudgetStep, PTL DEF Spec

===============================================================================
