---------------------------- MODULE Recovery ----------------------------
(* Crash recovery: the desktop application, the supervisor process that      *)
(* restarts it, and the two files they share, the recovery plan and the      *)
(* protected fleet checkpoint. Every file is replaced atomically; a process  *)
(* may end between any two of its steps. The roster of an application is the *)
(* set of accounts it has launched; FleetStore says what a restore does with *)
(* one record.                                                               *)
EXTENDS Integers, Sequences, FiniteSets

CONSTANTS Accounts,   \* accounts a user or a script may launch
          Pids,       \* process identifiers, reused when free and not held
          PlanModes,  \* the restore modes a user picks from
          Knobs       \* the restart settings of a plan, and a bound on disturbances

ASSUME PidsAssumption == Pids \subseteq Nat \ {0}
ASSUME PlanModesAssumption ==
  PlanModes \subseteq {"snapshot_only", "script_only", "snapshot_then_script"}
ASSUME KnobsAssumption ==
  Knobs \subseteq [delay : Nat \ {0}, cap : Nat \ {0}, max : Nat \ {0}, window : Nat,
                     strikes : Nat]

NoPid == 0
NoPlan == [state |-> "absent", mode |-> "none", super |-> NoPid]
App(pc, bots, news, copy) == [pc |-> pc, bots |-> bots, news |-> news, copy |-> copy]
NoApp == App("off", {}, "none", NoPlan)
NoSup == [pc |-> "none", pid |-> NoPid, watched |-> NoPid, exit |-> "none",
          attempts |-> <<>>, tries |-> 0, delay |-> 0, launches |-> <<>>]

VARIABLES knobs,    \* delay, max_restarts and window_seconds of this plan
          plan,     \* recovery_plan.json
          ckpt,     \* the roster in data/fleets/<name>.fleet, empty before the first
          app,      \* per pid: an application with that pid
          sup,      \* the supervisor that owns the mutex
          booting,  \* supervisors created and not yet past their mutex
          strikes   \* disturbances so far

vars == <<knobs, plan, ckpt, app, sup, booting, strikes>>

Modes == {"snapshot_only", "script_only", "snapshot_then_script"}
UsesSnapshot(m) == m \in {"snapshot_only", "snapshot_then_script"}
UsesScript(m) == m \in {"script_only", "snapshot_then_script"}
Enabled == plan.state = "on"

\* process_running: some process has that pid, whichever it is.
Running(p) == \/ p \in Pids /\ app[p].pc # "off"
              \/ p = sup.pid /\ p # NoPid
              \/ \E b \in booting : b.pid = p
\* A pid is not given out again while somebody holds a handle to the process.
Free(p) == ~Running(p) /\ p # sup.watched
\* The system reuses a number as soon as it can.
\* Bound: a start by anyone but the supervisor leaves it one to give out.
NewPids == {p \in Pids : Free(p) /\ \A q \in Pids : Free(q) => p <= q}
Spare == Cardinality({p \in Pids : Free(p)}) >= 2

\* A disturbance: a start or a save fails, a supervisor is killed, or an application is started
\* by hand while a supervisor is about to start one.
\* Bound: knobs.strikes of them.
Strike == strikes < knobs.strikes /\ strikes' = strikes + 1

Init == /\ knobs \in Knobs
        /\ plan = NoPlan /\ ckpt = {}
        /\ app = [p \in Pids |-> NoApp]
        /\ sup = NoSup /\ booting = {}
        /\ strikes = 0

----------------------------------------------------------------------------
(* The application                                                           *)

\* Started by hand: no --recover-plan, an empty roster, nothing saved by this process.
UserStart(p) ==
  /\ \A q \in Pids : app[q].pc = "off"
  /\ booting = {}
  /\ IF sup.pc = "none" THEN UNCHANGED strikes ELSE Strike
  /\ Spare /\ p \in NewPids
  /\ app' = [app EXCEPT ![p] = App("idle", {}, "none", NoPlan)]
  /\ UNCHANGED <<knobs, plan, ckpt, sup, booting>>

\* What restore_from_plan leaves in the roster: of the checkpoint those records that could be
\* prepared and spawned, and whatever a script launched before it ended or failed.
Restored == {b \in SUBSET Accounts :
    \E kept \in SUBSET ckpt, scripted \in SUBSET Accounts :
      /\ ~UsesSnapshot(plan.mode) => kept = {}
      /\ ~UsesScript(plan.mode) => scripted = {}
      /\ b = kept \cup scripted}
Restore(p) ==
  /\ app[p].pc = "restore"
  /\ \E b \in IF Enabled THEN Restored ELSE {{}} :
       app' = [app EXCEPT ![p] = App("idle", b, "none", NoPlan)]
  /\ UNCHANGED <<knobs, plan, ckpt, sup, booting, strikes>>

\* The owner's thread spawns or stops a bot (the launch generation moves) or sets a
\* configuration (a new handle).
Change(p, b) ==
  /\ app[p].pc = "idle"
  /\ app' = [app EXCEPT ![p] = App("idle", b, "changed", @.copy)]
  /\ UNCHANGED <<knobs, plan, ckpt, sup, booting, strikes>>
Spawn(p) == \E a \in Accounts \ app[p].bots : Change(p, app[p].bots \cup {a})
Stop(p) == \E a \in app[p].bots : Change(p, app[p].bots \ {a})
SetConfig(p) == Change(p, app[p].bots)

\* configure saves the checkpoint first, and the plan only when that succeeded. The
\* supervisor's pid is kept from the prior plan if something runs under it.
Configure(p, on, mode) ==
  /\ app[p].pc = "idle"
  /\ ckpt' = IF on /\ UsesSnapshot(mode) THEN app[p].bots ELSE ckpt
  /\ plan' = [state |-> IF on THEN "on" ELSE "off", mode |-> mode,
              super |-> IF Running(plan.super) THEN plan.super ELSE NoPid]
  /\ app' = [app EXCEPT ![p].pc = IF on /\ ~Running(plan'.super) THEN "ensure" ELSE "idle"]
  /\ UNCHANGED <<knobs, sup, booting, strikes>>
ConfigureCheckpointOnly(p) ==
  /\ app[p].pc = "idle"
  /\ Strike
  /\ ckpt' = app[p].bots
  /\ UNCHANGED <<knobs, plan, app, sup, booting>>
Disable(p) ==
  /\ app[p].pc = "idle"
  /\ plan # NoPlan
  /\ plan' = [plan EXCEPT !.state = "off"]
  /\ UNCHANGED <<knobs, ckpt, app, sup, booting, strikes>>

\* ensure_supervisor reads the plan again. CreateProcess, and the plan written back with the
\* new pid, are two steps of the owner's thread.
Lacking == Enabled /\ ~Running(plan.super)
Create(p, record) ==
  /\ Lacking /\ Spare
  /\ \E q \in NewPids :
       /\ booting' = booting \cup {[pid |-> q, watch |-> p]}
       /\ app' = [app EXCEPT ![p] = App(record, @.bots, @.news, [plan EXCEPT !.super = q])]
  /\ UNCHANGED <<knobs, plan, ckpt, sup, strikes>>
ConfigureCreate(p) == app[p].pc = "ensure" /\ Create(p, "record")
ConfigureUncreated(p) ==
  /\ app[p].pc = "ensure"
  /\ IF Lacking THEN Strike ELSE UNCHANGED strikes
  /\ app' = [app EXCEPT ![p].pc = "idle"]
  /\ UNCHANGED <<knobs, plan, ckpt, sup, booting>>
ConfigureRecord(p) ==
  /\ app[p].pc = "record"
  /\ plan' = app[p].copy
  /\ app' = [app EXCEPT ![p] = App("idle", @.bots, @.news, NoPlan)]
  /\ UNCHANGED <<knobs, ckpt, sup, booting, strikes>>

\* The tail of RecoveryRuntime::tick: the checkpoint, if roster or configuration are not
\* those that this process saved last.
Due(p) == UsesSnapshot(plan.mode) /\ app[p].news # "saved"
\* Mutant: roster and configuration are noted as saved before the save, which may fail.
CheckpointUnchecked(p, done) ==
  /\ ckpt' = IF Due(p) /\ done THEN app[p].bots ELSE ckpt
  /\ app' = [app EXCEPT ![p] = App("idle", @.bots, IF Due(p) THEN "saved" ELSE @.news, NoPlan)]
Checkpoint(p, done) ==
  /\ ckpt' = IF Due(p) /\ done THEN app[p].bots ELSE ckpt
  /\ app' = [app EXCEPT ![p] = App("idle", @.bots, IF Due(p) /\ done THEN "saved" ELSE @.news, NoPlan)]

\* RecoveryRuntime::tick, every two seconds: a supervisor if nothing runs under the pid of the
\* plan, then the checkpoint.
Tick(p) ==
  /\ app[p].pc = "idle"
  /\ Enabled /\ ~Lacking /\ Due(p)
  /\ Checkpoint(p, TRUE)
  /\ UNCHANGED <<knobs, plan, sup, booting, strikes>>
\* Mutant: a tick looks after the checkpoint only; supervisors are started by configure.
TickCreateNever(p) == FALSE /\ app[p].pc = "idle" /\ Create(p, "tick_record")
TickCreate(p) == app[p].pc = "idle" /\ Create(p, "tick_record")
TickRecord(p) ==
  /\ app[p].pc = "tick_record"
  /\ plan' = app[p].copy
  /\ Checkpoint(p, TRUE)
  /\ UNCHANGED <<knobs, sup, booting, strikes>>
\* One thing of a tick fails: the supervisor does not start, or the checkpoint is not written.
TickFails(p) ==
  /\ app[p].pc = "idle" /\ Enabled
  /\ Lacking \/ Due(p)
  /\ Strike
  /\ Checkpoint(p, Lacking)
  /\ UNCHANGED <<knobs, plan, sup, booting>>

\* A process ends; a supervisor that watches it finds the exit code in its handle.
Seen(p, code) == IF sup.watched = p THEN [sup EXCEPT !.exit = code] ELSE sup
Close(p) ==
  /\ app[p].pc = "idle"
  /\ app' = [app EXCEPT ![p] = NoApp]
  /\ sup' = Seen(p, "clean")
  /\ UNCHANGED <<knobs, plan, ckpt, booting, strikes>>
Crash(p) ==
  /\ app[p].pc # "off"
  /\ app' = [app EXCEPT ![p] = NoApp]
  /\ sup' = Seen(p, "crash")
  /\ UNCHANGED <<knobs, plan, ckpt, booting, strikes>>

----------------------------------------------------------------------------
(* The supervisor                                                            *)

\* Singleton, plan, and a handle on the process it is to watch: whatever has that pid now.
Boot(b) ==
  /\ booting' = booting \ {b}
  /\ sup' = IF sup.pc = "none" /\ Enabled /\ Running(b.watch)
            THEN [NoSup EXCEPT !.pc = "watch", !.pid = b.pid, !.watched = b.watch]
            ELSE sup
  /\ UNCHANGED <<knobs, plan, ckpt, app, strikes>>

\* The wait times out and the plan is gone or disabled.
Retire ==
  /\ sup.pc = "watch" /\ sup.exit = "none" /\ ~Enabled
  /\ sup' = NoSup
  /\ UNCHANGED <<knobs, plan, ckpt, app, booting, strikes>>

\* One turn of the restart loop up to its sleep: attempts older than the window are dropped,
\* the budget is checked, and the attempt is recorded before the delay.
\* The oldest comes first, so that those which go are a prefix.
Young(ages) ==
  LET first == CHOOSE k \in 1..Len(ages) + 1 :
                 \A i \in DOMAIN ages : ages[i] <= knobs.window <=> i >= k
  IN SubSeq(ages, first, Len(ages))
Doubled == <<1, 2, 4, 8, 16, 32>>
Delay(prior) == LET d == knobs.delay * Doubled[1 + IF prior < 5 THEN prior ELSE 5]
                IN IF d < knobs.cap THEN d ELSE knobs.cap
\* Mutant: the budget counts the attempts of one crash only.
AttemptPerCrash(s) ==
  LET past == Young(s.attempts)
      prior == IF Len(past) > s.tries THEN Len(past) ELSE s.tries
  IN IF s.tries >= knobs.max THEN NoSup
     ELSE [s EXCEPT !.pc = "sleep", !.attempts = Append(past, 0), !.tries = s.tries + 1,
                    !.delay = Delay(prior), !.watched = NoPid]
Attempt(s) ==
  LET past == Young(s.attempts)
      prior == IF Len(past) > s.tries THEN Len(past) ELSE s.tries
  IN IF s.tries >= knobs.max \/ Len(past) >= knobs.max THEN NoSup
     ELSE [s EXCEPT !.pc = "sleep", !.attempts = Append(past, 0), !.tries = s.tries + 1,
                    !.delay = Delay(prior), !.watched = NoPid]
NoticeExit ==
  /\ sup.pc = "watch" /\ sup.exit # "none"
  /\ sup' = IF sup.exit = "clean" \/ ~Enabled THEN NoSup
            ELSE Attempt([sup EXCEPT !.tries = 0])
  /\ UNCHANGED <<knobs, plan, ckpt, app, booting, strikes>>
Launch(q) ==
  /\ app' = [app EXCEPT ![q] = App("restore", {}, "none", NoPlan)]
  /\ sup' = [sup EXCEPT !.pc = "watch", !.watched = q, !.exit = "none",
                        !.launches = Append(Young(sup.launches), 0)]
\* Mutant: the plan is not read again after the delay.
WakeOnOldPlan ==
  /\ sup.pc = "sleep" /\ sup.delay = 0
  /\ \/ /\ \E q \in NewPids : Launch(q)
        /\ UNCHANGED strikes
     \/ /\ Strike
        /\ sup' = Attempt(sup)
        /\ UNCHANGED <<app>>
  /\ UNCHANGED <<knobs, plan, ckpt, booting>>

\* The delay is over: the plan is read again and the application started with it. When that
\* fails, the next attempt of the same crash follows.
Wake ==
  /\ sup.pc = "sleep" /\ sup.delay = 0
  /\ \/ /\ ~Enabled
        /\ sup' = NoSup
        /\ UNCHANGED <<app, strikes>>
     \/ /\ Enabled
        /\ \E q \in NewPids : Launch(q)
        /\ UNCHANGED strikes
     \/ /\ Enabled
        /\ Strike
        /\ sup' = Attempt(sup)
        /\ UNCHANGED <<app>>
  /\ UNCHANGED <<knobs, plan, ckpt, booting>>
Killed ==
  /\ Strike
  /\ sup.pc # "none"
  /\ sup' = NoSup
  /\ UNCHANGED <<knobs, plan, ckpt, app, booting>>

----------------------------------------------------------------------------
(* The environment                                                           *)

Older(ages) == [i \in DOMAIN ages |->
                  IF ages[i] <= knobs.window THEN ages[i] + 1 ELSE ages[i]]
\* A sleep ends in the unit of time it is due in.
Pass ==
  /\ ~(sup.pc = "sleep" /\ sup.delay = 0)
  /\ sup.attempts # <<>>
  /\ sup' = [sup EXCEPT !.attempts = Older(sup.attempts),
                        !.launches = Young(Older(sup.launches)),
                        !.delay = IF @ > 0 THEN @ - 1 ELSE 0]
  /\ UNCHANGED <<knobs, plan, ckpt, app, booting, strikes>>

----------------------------------------------------------------------------
User(p) == \/ UserStart(p) \/ Spawn(p) \/ Stop(p) \/ SetConfig(p) \/ Close(p)
           \/ \E on \in BOOLEAN, mode \in PlanModes : Configure(p, on, mode)
           \/ ConfigureCheckpointOnly(p) \/ Disable(p)
Frame(p) == \/ Restore(p) \/ ConfigureCreate(p) \/ ConfigureUncreated(p) \/ ConfigureRecord(p)
            \/ Tick(p) \/ TickCreate(p) \/ TickRecord(p)
Supervise == Retire \/ NoticeExit \/ Wake
Next == \/ \E p \in Pids : User(p) \/ Frame(p) \/ TickFails(p) \/ Crash(p)
        \/ \E b \in booting : Boot(b)
        \/ Supervise \/ Killed \/ Pass

\* The owner's loop ticks as long as it runs, and a created process is scheduled.
Fairness == WF_vars(\E p \in Pids : Frame(p)) /\ WF_vars(\E b \in booting : Boot(b))
Spec == Init /\ [][Next]_vars /\ Fairness

----------------------------------------------------------------------------
Plans == [state : {"absent", "off", "on"}, mode : Modes \cup {"none"}, super : Pids \cup {NoPid}]
AppPcs == {"off", "restore", "idle", "ensure", "record", "tick_record"}
Apps == [pc : AppPcs, bots : SUBSET Accounts, news : {"none", "changed", "saved"}, copy : Plans]

(* Types; a process that ended leaves nothing behind.                                          *)
TypeOK ==
  /\ knobs \in Knobs
  /\ plan \in Plans
  /\ ckpt \subseteq Accounts
  /\ app \in [Pids -> Apps]
  /\ \A p \in Pids : app[p].pc = "off" => app[p] = NoApp
  /\ DOMAIN sup = DOMAIN NoSup
  /\ sup.pc \in {"none", "watch", "sleep"}
  /\ sup.exit \in {"none", "clean", "crash"}

(* RECOVERY.md promises a bounded restart budget: the attempts a supervisor counts in its      *)
(* window and those of one crash, reached with delays that grow, never let it start the        *)
(* application more than max_restarts times within any window_seconds (the restart loop of     *)
(* the supervisor; the launches, unlike the attempts, are what a user sees).                   *)
RestartsWithinBudget == Len(sup.launches) <= knobs.max

(* RecoveryRuntime::tick compares with what it saved last: when it takes roster and            *)
(* configuration for saved, the file on disk holds the present roster, whatever failed before. *)
Roster(p) == <<app[p].news, app[p].bots>>
SavedIsCurrent ==
  [][\A p \in Pids : app'[p].news = "saved" /\ Roster(p)' # Roster(p)
                      => ckpt' = app'[p].bots]_vars

(* The supervisor starts an application only after one ended abnormally and only while the     *)
(* plan, as it is at that moment, asks for it: a clean exit, or turning recovery off during    *)
(* the delay, ends it.                                                                         *)
RestartsAreWanted ==
  [][\A p \in Pids : app[p].pc = "off" /\ app'[p].pc = "restore"
                      => Enabled /\ sup.exit = "crash"]_vars

(* While recovery is on, an application that runs without a supervisor gets one (tick, which   *)
(* calls ensure_supervisor), unless the pid in the plan has come to be an application's.       *)
Mistaken == plan.super \in {q \in Pids : app[q].pc # "off"}
Supervised ==
  \A p \in Pids :
    app[p].pc = "idle" /\ Enabled /\ sup.pc = "none" /\ booting = {}
      ~> sup.pc # "none" \/ app[p].pc = "off" \/ ~Enabled \/ Mistaken

(* recovery_controller.h:87, of RecoveryRuntime: "It writes only when the fleet roster or      *)
(* AutomationConfig handle changed".                                                           *)
CheckpointOnlyAfterChange ==
  [][\A p \in Pids : ckpt' # ckpt /\ app'[p].news = "saved"
        => app[p].news = "changed"]_vars
=============================================================================
