---------------------------- MODULE GeigerReport ----------------------------
(* What bots report of their prizes: automation/geiger_stats.cpp, the fleet's *)
(* totals and the id of the one webhook message, kept in a file that every   *)
(* change rewrites in place; and send_geiger_webhook, which edits that       *)
(* message or posts a new one, one bot at a time.                            *)
EXTENDS Naturals, FiniteSets

CONSTANTS Finders,   \* the bots
          MaxFinds,  \* bound: prizes found
          MaxFaults  \* bound: crashes, lost replies, messages deleted by hand
ASSUME ReportAssumption == MaxFinds \in Nat /\ MaxFaults \in Nat /\ "free" \notin Finders

VARIABLES total, msg, loaded,  \* State: agg.total_finds, messages[url], loaded
          file,                \* data/geiger_stats.json
          step,                \* where each bot's report is
          lock,                \* geiger_webhook_send_mutex
          posted,              \* messages on the webhook's channel
          found, faults        \* history and bound
reportVars == <<total, msg, loaded, file, step, lock, posted, found, faults>>

NoMsg == 0
Free == "free"
Empty == [total |-> 0, msg |-> NoMsg, whole |-> TRUE]
Torn == [total |-> 0, msg |-> NoMsg, whole |-> FALSE]
NewMsg == 1 + Cardinality(posted) + faults

ReportInit ==
  /\ total = 0 /\ msg = NoMsg /\ loaded = FALSE /\ file = Empty
  /\ step = [f \in Finders |-> "hunt"] /\ lock = Free
  /\ posted = {} /\ found = 0 /\ faults = 0

\* load_locked: once, a file that does not parse being an empty one.
Loaded == IF loaded THEN [total |-> total, msg |-> msg] ELSE [total |-> file.total, msg |-> file.msg]
\* Every change is in memory and, rewritten whole, in the file.
Stores(n, m) == total' = n /\ msg' = m /\ loaded' = TRUE /\ file' = [total |-> n, msg |-> m, whole |-> TRUE]
Reads == total' = Loaded.total /\ msg' = Loaded.msg /\ loaded' = TRUE /\ UNCHANGED file
Steps(f, s) == step' = [step EXCEPT ![f] = s]

\* on_prize: geiger_record_find, then the webhook
RecordFind(f) == /\ step[f] = "hunt" /\ found < MaxFinds /\ found' = found + 1
                 /\ Stores(Loaded.total + 1, Loaded.msg) /\ Steps(f, "report")
                 /\ UNCHANGED <<lock, posted, faults>>
LockFree(f) == /\ step[f] = "report" /\ Reads
               /\ Steps(f, IF Loaded.msg = NoMsg THEN "post" ELSE "patch")
               /\ UNCHANGED <<lock, posted, found, faults>>
\* send_geiger_webhook, to the lookup of the message's id
Lock(f) == /\ step[f] = "report" /\ lock = Free /\ lock' = f /\ Reads
           /\ Steps(f, IF Loaded.msg = NoMsg THEN "post" ELSE "patch")
           /\ UNCHANGED <<posted, found, faults>>
Unlocks(f) == lock' = Free /\ Steps(f, "hunt")
\* The edit: done, or failed for now; a message that is gone is forgotten.
Patch(f) == /\ step[f] = "patch"
            /\ IF msg \in posted THEN Unlocks(f) /\ UNCHANGED <<total, msg, loaded, file>>
               ELSE Stores(total, NoMsg) /\ Steps(f, "post") /\ UNCHANGED lock
            /\ UNCHANGED <<posted, found, faults>>
PatchFails(f) == /\ step[f] = "patch" /\ Unlocks(f)
                 /\ UNCHANGED <<total, msg, loaded, file, posted, found, faults>>
\* The post reaches the channel; its reply names the message.
Post(f) == /\ step[f] = "post" /\ posted' = posted \cup {NewMsg} /\ Stores(total, NewMsg) /\ Unlocks(f)
           /\ UNCHANGED <<found, faults>>
PostFails(f) == /\ step[f] = "post" /\ Unlocks(f)
                /\ UNCHANGED <<total, msg, loaded, file, posted, found, faults>>
\* The reply is lost: a message nobody knows.
ReplyLost(f) == /\ step[f] = "post" /\ faults < MaxFaults /\ faults' = faults + 1
                /\ posted' = posted \cup {NewMsg} /\ Unlocks(f)
                /\ UNCHANGED <<total, msg, loaded, file, found>>
Deleted == /\ faults < MaxFaults /\ faults' = faults + 1
           /\ \E m \in posted : posted' = posted \ {m}
           /\ UNCHANGED <<total, msg, loaded, file, step, lock, found>>

\* The process ends and starts anew, perhaps in the middle of a rewrite.
Restarts(saved) == /\ faults < MaxFaults /\ faults' = faults + 1 /\ file' = saved
                   /\ total' = 0 /\ msg' = NoMsg /\ loaded' = FALSE
                   /\ step' = [f \in Finders |-> "hunt"] /\ lock' = Free /\ UNCHANGED posted
Crash == Restarts(file) /\ UNCHANGED found
CrashInSave == /\ found < MaxFinds /\ (\E f \in Finders : step[f] = "hunt") /\ found' = found + 1
               /\ Restarts(Torn)

ReportNext ==
  \/ Deleted \/ Crash \/ CrashInSave
  \/ \E f \in Finders : \/ RecordFind(f) \/ Lock(f) \/ Patch(f) \/ PatchFails(f)
                        \/ Post(f) \/ PostFails(f) \/ ReplyLost(f)
ReportSpec == ReportInit /\ [][ReportNext]_reportVars

----------------------------------------------------------------------------
(* Properties                                                                *)

\* The fleet edits one message: every further one is the work of a fault (a
\* lost reply, or a crash that lost the id), however many bots report at once.
OneMessage == Cardinality(posted) <= 1 + faults

\* geiger_stats.h:8 promises that totals and id survive restarts.
TotalsSurvive == Loaded.total = found
=============================================================================
