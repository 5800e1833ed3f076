----------------------------- MODULE Automation -----------------------------
(* Which bots run a module. The one AutomationConfig of the fleet is edited  *)
(* by the window, by scripts and by tools, kept in a file, in a profile and  *)
(* in fleet backups, and names bots by ids that each process gives anew.     *)
(* All of it runs on the main thread. One module, geiger, and one group.     *)
EXTENDS Naturals, FiniteSets

CONSTANTS Accounts,
          Tokens,    \* accounts whose credential is an ltoken: no second look at spawn
          Pooling,   \* accounts the user starts by the game proxy pool
          Cap,       \* bots the game proxies hold
          MaxId,     \* bound: ids of a process
          MaxEdits,  \* bound: changes of the configuration
          MaxSaves   \* bound: profiles and backups saved, pool switches and crashes
ASSUME AutomationAssumption ==
  Tokens \subseteq Accounts /\ Pooling \subseteq Accounts /\ Cap \in Nat /\ MaxId \in Nat /\ MaxEdits \in Nat /\ MaxSaves \in Nat

VARIABLES phase,    \* the process: down, starting by a recovery plan, or up
          bots,     \* BotManager's entries: id -> account and whether by the game proxy pool
          next,     \* next_id_
          cfg,      \* FleetState's config_
          poolOn,   \* the game proxy pool is enabled
          disk,     \* data/automation_config.json
          profile,  \* data/automation_profiles.json, with one profile
          backup,   \* one fleet backup, also the recovery's
          edits, saves \* bounds
autoVars == <<phase, bots, next, cfg, poolOn, disk, profile, backup, edits, saves>>

Ids == 1..MaxId
\* enabled, module_bot_ids and module_groups of the module, and the group
Off == [on |-> FALSE, scoped |-> FALSE, scope |-> {}, byGroup |-> FALSE, defined |-> FALSE, group |-> {}]
NoBots == [i \in {} |-> Off]
File(c, state) == [cfg |-> c, state |-> state]
Backup(kind, records, c, bad) == [kind |-> kind, records |-> records, cfg |-> c, bad |-> bad]

AutoInit == /\ phase = "up" /\ bots = NoBots /\ next = 1 /\ cfg = Off /\ poolOn = TRUE
            /\ disk = File(Off, "none") /\ profile = File(Off, "none") /\ backup = Backup("none", NoBots, Off, FALSE)
            /\ edits = 0 /\ saves = 0

\* is_on_for
RunsOn(c, i) == /\ c.on
                /\ IF c.scoped THEN i \in c.scope ELSE c.byGroup => c.defined /\ i \in c.group
Running == {i \in DOMAIN bots : RunsOn(cfg, i)}
FleetWide(c) == c.on /\ ~c.scoped /\ ~c.byGroup
\* The user names ids that were given out; nothing checks it.
Given(S) == \A i \in S : i < next

----------------------------------------------------------------------------
(* Bots                                                                      *)

PooledIn(fleet) == Cardinality({i \in DOMAIN fleet : fleet[i].pooled})
Known(fleet, a) == {i \in DOMAIN fleet : fleet[i].account = a /\ a \notin Tokens}
With(fleet, i, b) == [j \in DOMAIN fleet \cup {i} |-> IF j = i THEN b ELSE fleet[j]]
Less(fleet, S) == [j \in DOMAIN fleet \ S |-> fleet[j]]
BotOf(a, pooled) == [account |-> a, pooled |-> pooled]

\* choose, then spawn: an account that has a bot keeps that one.
SpawnUser(a) ==
  /\ phase = "up" /\ Known(bots, a) = {} /\ next <= MaxId
  /\ a \in Pooling => poolOn /\ PooledIn(bots) < Cap
  /\ bots' = With(bots, next, BotOf(a, a \in Pooling)) /\ next' = next + 1
  /\ UNCHANGED <<phase, cfg, poolOn, disk, profile, backup, edits, saves>>
\* stop, or a bot that ends by itself and is reaped
StopBot(i) == /\ phase = "up" /\ i \in DOMAIN bots /\ bots' = Less(bots, {i})
              /\ UNCHANGED <<phase, next, cfg, poolOn, disk, profile, backup, edits, saves>>
Saves == phase = "up" /\ saves < MaxSaves /\ saves' = saves + 1 /\ UNCHANGED edits
SwitchPool == /\ Saves /\ poolOn' = ~poolOn
              /\ UNCHANGED <<phase, bots, next, cfg, disk, profile, backup>>

----------------------------------------------------------------------------
(* Edits. set_config publishes a whole new configuration.                    *)

Changes == phase = "up" /\ edits < MaxEdits /\ edits' = edits + 1 /\ UNCHANGED saves
Beside == UNCHANGED <<phase, bots, next, poolOn, profile, backup>>
Publishes(c) == Changes /\ cfg' = c /\ Beside
Listed(c, S) == [c EXCEPT !.scoped = TRUE, !.scope = S]
Unlisted(c) == [c EXCEPT !.scoped = FALSE, !.scope = {}]
Ungrouped(c) == [c EXCEPT !.byGroup = FALSE]
Enabled(c, on) == [c EXCEPT !.on = on]

\* The switch of one bot in the window: its list, or the members of its group,
\* with the bot added; without it; or, without a list, all the others.
ToggledOn(i) ==
  LET old == IF cfg.scoped THEN cfg.scope ELSE IF cfg.byGroup /\ cfg.defined THEN cfg.group ELSE {}
  IN Enabled(Ungrouped(Listed(cfg, old \cup {i})), TRUE)
ToggledOff(i) ==
  LET rest == IF cfg.scoped THEN cfg.scope \ {i} ELSE DOMAIN bots \ {i}
  IN Enabled(Ungrouped(Listed(cfg, rest)), cfg.on /\ rest # {})
Toggle(i) ==
  /\ i \in DOMAIN bots
  /\ Publishes(IF i \in Running THEN ToggledOff(i) ELSE ToggledOn(i)) /\ UNCHANGED disk
SaveShared == Changes /\ disk' = File(cfg, "whole") /\ UNCHANGED cfg /\ Beside

\* Scripts write every change to the file.
Persists(c) == Publishes(c) /\ disk' = File(c, "whole")
LuaEnable(on) == Persists(Enabled(cfg, on))
LuaSetBots(S) == S \subseteq DOMAIN bots /\ Persists(Listed(cfg, S))
LuaAllBots == Persists(Unlisted(Ungrouped(cfg)))

\* Tools do not. An empty list clears the list, not the group.
DefineGroup(S) == Given(S) /\ Publishes([cfg EXCEPT !.defined = TRUE, !.group = S]) /\ UNCHANGED disk
SetModuleBots(S, on) ==
  Given(S) /\ Publishes(Enabled(IF S = {} THEN Unlisted(cfg) ELSE Ungrouped(Listed(cfg, S)), on)) /\ UNCHANGED disk
SetModuleGroup(on) == /\ Given(cfg.group)
                      /\ Publishes([Unlisted(Enabled(cfg, on)) EXCEPT !.byGroup = TRUE]) /\ UNCHANGED disk
ClearModuleGroup(on) == Publishes(Ungrouped(Enabled(cfg, on))) /\ UNCHANGED disk
\* stop_geiger_farm and pause_all, and start_geiger_farm without a scope
SetEnabled(on) == Publishes(Enabled(cfg, on)) /\ UNCHANGED disk

\* Profiles are read before one is added: a torn file stays torn.
SaveProfile == /\ Saves /\ profile.state # "torn" /\ profile' = File(cfg, "whole")
               /\ UNCHANGED <<phase, bots, next, cfg, poolOn, disk, backup>>
LoadProfile == /\ profile.state = "whole" /\ Given(profile.cfg.scope \cup profile.cfg.group)
               /\ Publishes(profile.cfg) /\ UNCHANGED disk

----------------------------------------------------------------------------
(* Fleet backups                                                             *)

SaveBackup == /\ Saves /\ backup' = Backup("fleet", bots, cfg, FALSE)
              /\ UNCHANGED <<phase, bots, next, cfg, poolOn, disk, profile>>
\* One line for each bot, without the configuration; somebody may edit it.
SaveText == /\ Saves /\ \E bad \in BOOLEAN : backup' = Backup("text", bots, Off, bad)
            /\ UNCHANGED <<phase, bots, next, cfg, poolOn, disk, profile>>

Records == DOMAIN backup.records
\* A line has no policy: it gets the pool's, as the pool is when it is read.
Pooled(r) == IF backup.kind = "text" THEN poolOn ELSE backup.records[r].pooled
Base(replace) == IF replace THEN NoBots ELSE bots
\* The preflight: a place in the pool for each record that needs one, in
\* order, beside those the bots that stay have.
Fitting(replace) ==
  {r \in Records : Pooled(r) =>
     poolOn /\ PooledIn(Base(replace)) + Cardinality({q \in Records : q < r /\ Pooled(q)}) < Cap}
\* The ids the spawned records S get: their account's, or new ones in order.
Fresh(replace, S) == {r \in S : Known(Base(replace), backup.records[r].account) = {}}
Mapping(replace, S) ==
  [r \in S |-> IF r \in Fresh(replace, S)
               THEN next + Cardinality({q \in Fresh(replace, S) : q < r})
               ELSE CHOOSE i \in Known(Base(replace), backup.records[r].account) : TRUE]
RemapDropsEmpty(c, m) ==
  LET Images(ids) == {m[r] : r \in ids \cap DOMAIN m}
  IN [c EXCEPT !.group = Images(@), !.scope = Images(@), !.scoped = c.scoped /\ Images(c.scope) # {}]
\* remap_automation: ids without a new bot are dropped, lists stay.
Remap(c, m) ==
  LET Images(ids) == {m[r] : r \in ids \cap DOMAIN m}
  IN [c EXCEPT !.group = Images(@), !.scope = Images(@)]

\* restore_snapshot: a replacement needs every record, and then stops the
\* fleet; of the others S are spawned, the rest lacking a login proxy or
\* failing to spawn.
Restores(replace, auto, S) ==
  LET m == Mapping(replace, S)
      new == Fresh(replace, S)
      base == Base(replace)
  IN /\ S \subseteq Fitting(replace)
     /\ replace => ~backup.bad /\ Fitting(replace) = Records
     /\ next' = next + Cardinality(new) /\ next' <= MaxId + 1
     /\ bots' = [i \in DOMAIN base \cup {m[r] : r \in new} |->
                   IF i \in DOMAIN base THEN base[i]
                   ELSE LET r == CHOOSE q \in new : m[q] = i IN BotOf(backup.records[r].account, Pooled(r))]
     /\ cfg' = (IF auto /\ backup.kind = "fleet" THEN Remap(backup.cfg, m) ELSE cfg)
LoadBackup(replace, auto) ==
  /\ phase = "up" /\ backup.kind # "none" /\ \E S \in SUBSET Records : Restores(replace, auto, S)
  /\ UNCHANGED <<phase, poolOn, disk, profile, backup, edits, saves>>

----------------------------------------------------------------------------
(* The process                                                               *)

Dies == /\ Saves /\ phase' = "down" /\ bots' = NoBots /\ next' = 1 /\ cfg' = Off
        /\ UNCHANGED <<poolOn, backup>>
Crash == Dies /\ UNCHANGED <<disk, profile>>
\* Both files are rewritten in place; backups are renamed over the old ones.
CrashInSave == Dies /\ disk' = File(Off, "torn") /\ UNCHANGED profile
CrashInProfile == Dies /\ profile.state # "torn" /\ profile' = File(Off, "torn") /\ UNCHANGED disk

\* main: the saved configuration, with nobody in the module's list
StartUp == /\ phase = "down" /\ phase' \in {"plan", "up"}
           /\ cfg' = (IF disk.state = "whole" THEN Listed(disk.cfg, {}) ELSE Off)
           /\ UNCHANGED <<bots, next, poolOn, disk, profile, backup, edits, saves>>
\* A plan restores the fleet and its configuration, or fails to.
Recover == /\ phase = "plan" /\ phase' = "up"
           /\ \/ backup.kind # "none" /\ \E S \in SUBSET Records : Restores(FALSE, TRUE, S)
              \/ UNCHANGED <<bots, next, cfg>>
           /\ UNCHANGED <<poolOn, disk, profile, backup, edits, saves>>

EditsById == \E S \in SUBSET Ids : \/ LuaSetBots(S) \/ DefineGroup(S) \/ \E on \in BOOLEAN : SetModuleBots(S, on)
EditsAny == \E on \in BOOLEAN : LuaEnable(on) \/ SetModuleGroup(on) \/ ClearModuleGroup(on) \/ SetEnabled(on)
AutoNext ==
  \/ \E a \in Accounts : SpawnUser(a)
  \/ \E i \in Ids : StopBot(i) \/ Toggle(i)
  \/ SwitchPool \/ SaveShared \/ LuaAllBots \/ EditsById \/ EditsAny \/ SaveProfile \/ LoadProfile
  \/ SaveBackup \/ SaveText \/ \E replace, auto \in BOOLEAN : LoadBackup(replace, auto)
  \/ Crash \/ CrashInSave \/ CrashInProfile \/ StartUp \/ Recover
AutoSpec == AutoInit /\ [][AutoNext]_autoVars

----------------------------------------------------------------------------
(* Properties                                                                *)

\* A backup restored with its configuration: each of its bots runs what it ran.
RestoredAsSaved ==
  [][backup.kind = "fleet" /\ UNCHANGED <<edits, saves, backup>> /\ DOMAIN bots' # {} =>
       \A replace \in BOOLEAN, S \in SUBSET Records :
         Restores(replace, TRUE, S) =>
           \A r \in S : RunsOn(cfg', Mapping(replace, S)[r]) <=> RunsOn(backup.cfg, r)]_autoVars

\* app_ui.cpp:2654: without a list, the switch of one bot turns a scope of the
\* whole fleet into all bots but this one. To switch a bot off starts none.
OffStartsNobody ==
  [][\A i \in Running : Toggle(i) => \A j \in DOMAIN bots : RunsOn(cfg', j) => RunsOn(cfg, j)]_autoVars
=============================================================================
