---------------------------- MODULE AiController ----------------------------
(* The AI controller of the desktop application: turns of a conversation     *)
(* with a provider. The owner's thread draws frames; each begins with        *)
(* pump(), and then the user may click once. A worker thread performs one    *)
(* HTTP request at a time. What is said is left out, which tool calls are    *)
(* asked and answered is kept.                                               *)
EXTENDS Integers, Sequences, FiniteSets, SequencesExt

CONSTANTS Replies,       \* the sequences of tool calls a provider may answer with
          AiTools,       \* names of the tools the controller was given
          Sendings,       \* the settings a user may send a message with
          MaxRounds,     \* kMaxRounds
          MaxToolCalls,  \* kMaxToolCalls
          MaxTurns       \* bound: messages sent in one conversation

ASSUME RepliesAssumption == Replies \subseteq Seq([id : STRING, tool : STRING])
ASSUME AiLimitsAssumption ==
  MaxRounds \in Nat \ {0} /\ MaxToolCalls \in Nat /\ MaxTurns \in Nat

VARIABLES active,           \* a turn runs
          worker,           \* the thread object and http_running
          runGeneration,    \* the generation the worker captured
          answer,           \* what perform_http returned, before the worker's lock
          generation, completed, pending, nextApproval, rounds, toolCalls,
          cancelRequested, settings, history,
          error,            \* why the last turn failed
          owner,            \* where the owner's thread is in its frame
          stopped,          \* history: the user pressed Stop in this turn
          granted,          \* history: approval ids of the batches the user said yes to
          ran               \* history: approval ids of the batches executed, in order

aiVars == <<active, worker, runGeneration, answer, generation, completed, pending,
            nextApproval, rounds, toolCalls, cancelRequested, settings, history, error,
            owner, stopped, granted, ran>>

Outcome(kind, calls) == [kind |-> kind, calls |-> calls]
NoOutcome == Outcome("none", <<>>)
NoPending == [id |-> 0, calls |-> <<>>, decision |-> "none"]
HttpRunning == worker \in {"running", "returning"}
Joinable == worker # "none"

----------------------------------------------------------------------------
(* Settings and requests                                                     *)

\* HTTPS without credentials in the authority; plain HTTP only to this machine.
ValidEndpoint(e) == /\ e.host # "none" /\ ~e.userinfo
                    /\ \/ e.scheme = "https"
                       \/ e.scheme = "http" /\ e.host = "loopback"
ValidSettings(s) == ValidEndpoint(s.endpoint) /\ s.model /\ s.key /\ s.tokens \in 64..32768

Said(role, calls, id) == [role |-> role, calls |-> calls, id |-> id]
Message(role, uses, results) == [role |-> role, uses |-> uses, results |-> results]
Ids(calls) == [i \in DOMAIN calls |-> calls[i].id]

\* openai_messages: the system prompt, then one message for each entry.
OpenAiMessage(m) == CASE m.role = "tool" -> Message("tool", <<>>, <<m.id>>)
                      [] m.role = "user" -> Message("user", <<>>, <<>>)
                      [] m.role = "assistant" -> Message("assistant", Ids(m.calls), <<>>)
OpenAiMessages(h) ==
  <<Message("system", <<>>, <<>>)>> \o [i \in DOMAIN h |-> OpenAiMessage(h[i])]

\* anthropic_messages: neighbours of one role become one message of several blocks.
AnthropicMessage(m) == CASE m.role = "tool" -> Message("user", <<>>, <<m.id>>)
                         [] OTHER -> OpenAiMessage(m)
AppendAnthropic(ms, m) ==
  IF ms # <<>> /\ Last(ms).role = m.role
  THEN [ms EXCEPT ![Len(ms)] = Message(m.role, @.uses \o m.uses, @.results \o m.results)]
  ELSE Append(ms, m)
AnthropicMessages(h) ==
  LET Merged[n \in 0..Len(h)] ==
        IF n = 0 THEN <<>> ELSE AppendAnthropic(Merged[n - 1], AnthropicMessage(h[n]))
  IN Merged[Len(h)]

----------------------------------------------------------------------------
(* The turn                                                                  *)

AiInit ==
  /\ active = FALSE /\ worker = "none" /\ runGeneration = 0 /\ answer = NoOutcome
  /\ generation = 0 /\ completed = NoOutcome /\ pending = NoPending /\ nextApproval = 1
  /\ rounds = 0 /\ toolCalls = 0 /\ cancelRequested = FALSE
  /\ settings \in {s \in Sendings : ValidSettings(s)} /\ history = <<>> /\ error = "none"
  /\ owner = "frame" /\ stopped = FALSE /\ granted = {} /\ ran = <<>>

\* finish_locked.
Finish == active' = FALSE /\ pending' = NoPending
\* fail_locked.
Fail(why) == Finish /\ error' = why

\* launch_locked: a request is built from the history and given to a thread of its own, which
\* may fail to start. w: the thread object as the caller leaves it.
LaunchRequest(w, h, g, r) ==
  /\ history' = h /\ generation' = g /\ completed' = NoOutcome
  /\ IF r >= MaxRounds \/ w # "none"
     THEN /\ Fail(IF r >= MaxRounds THEN "round limit" ELSE "lifecycle")
          /\ rounds' = r /\ worker' = w /\ UNCHANGED <<runGeneration, cancelRequested>>
     ELSE /\ rounds' = r + 1 /\ cancelRequested' = FALSE
          /\ \/ /\ worker' = "running" /\ runGeneration' = g
                /\ active' = TRUE /\ pending' = NoPending /\ error' = "none"
             \/ worker' = w /\ Fail("no thread") /\ UNCHANGED runGeneration
  /\ UNCHANGED answer

\* take_finished_worker_locked, and the join after it.
Reaped == IF worker = "ended" THEN "none" ELSE worker

\* One result for each call of a batch, by append_tool_result_locked.
Results(calls) == [i \in DOMAIN calls |-> Said("tool", <<>>, calls[i].id)]

\* submit: refused while a turn runs. A worker that is left has ended: no turn ends before it.
\* Bound: MaxTurns generations.
Submit(s) ==
  /\ owner = "ui" /\ ~active /\ ~HttpRunning
  /\ ValidSettings(s)
  /\ generation < MaxTurns
  /\ settings' = s /\ toolCalls' = 0 /\ stopped' = FALSE
  /\ LaunchRequest(Reaped, Append(history, Said("user", <<>>, "none")), generation + 1, 0)
  /\ owner' = "frame"
  /\ UNCHANGED <<nextApproval, granted, ran>>

\* The user allows or denies the batch this frame shows.
Decide(d) ==
  /\ owner = "ui" /\ active /\ pending.id # 0 /\ pending.decision = "none"
  /\ pending' = [pending EXCEPT !.decision = d]
  /\ granted' = IF d = "allow" THEN granted \cup {pending.id} ELSE granted
  /\ owner' = "frame"
  /\ UNCHANGED <<active, worker, runGeneration, answer, generation, completed, nextApproval,
                 rounds, toolCalls, cancelRequested, settings, history, error, stopped, ran>>

\* cancel(): the flag is set before the lock is taken; the worker runs on.
StopTurn ==
  /\ owner = "ui" /\ active
  /\ cancelRequested' = TRUE /\ stopped' = TRUE /\ owner' = "stopping"
  /\ UNCHANGED <<active, worker, runGeneration, answer, generation, completed, pending,
                 nextApproval, rounds, toolCalls, settings, history, error, granted, ran>>
Stopped(h, g) ==
  /\ Finish /\ worker' = Reaped /\ completed' = NoOutcome
  /\ history' = h /\ generation' = g
\* Mutants: a pending batch left without results; a running request disowned.
StopUnanswered ==
  /\ owner = "stopping"
  /\ IF HttpRunning THEN UNCHANGED <<active, pending, worker, completed, history, generation>>
     ELSE IF pending.id # 0 THEN Stopped(history, generation)
     ELSE Stopped(history, generation + 1)
  /\ owner' = "frame"
  /\ UNCHANGED <<runGeneration, answer, nextApproval, rounds, toolCalls, cancelRequested,
                 settings, error, stopped, granted, ran>>
StopSection ==
  /\ owner = "stopping"
  /\ IF HttpRunning THEN UNCHANGED <<active, pending, worker, completed, history, generation>>
     ELSE IF pending.id # 0 THEN Stopped(history \o Results(pending.calls), generation)
     ELSE Stopped(history, generation + 1)
  /\ owner' = "frame"
  /\ UNCHANGED <<runGeneration, answer, nextApproval, rounds, toolCalls, cancelRequested,
                 settings, error, stopped, granted, ran>>

Clear ==
  /\ owner = "ui" /\ ~active /\ ~HttpRunning
  /\ history' = <<>> /\ error' = "none" /\ pending' = NoPending /\ worker' = Reaped
  /\ owner' = "frame"
  /\ UNCHANGED <<active, runGeneration, answer, generation, completed, nextApproval, rounds,
                 toolCalls, cancelRequested, settings, stopped, granted, ran>>
NoClick ==
  /\ owner = "ui" /\ owner' = "frame"
  /\ UNCHANGED <<active, worker, runGeneration, answer, generation, completed, pending,
                 nextApproval, rounds, toolCalls, cancelRequested, settings, history, error,
                 stopped, granted, ran>>

----------------------------------------------------------------------------
(* pump(): one critical section reaps, a later one acts                      *)

Reap ==
  /\ owner = "frame" /\ owner' = "pump"
  /\ worker' = Reaped
  /\ UNCHANGED <<active, runGeneration, answer, generation, completed, pending, nextApproval,
                 rounds, toolCalls, cancelRequested, settings, history, error, stopped, granted, ran>>

PumpNothing ==
  /\ owner = "pump"
  /\ \/ ~active
     \/ completed = NoOutcome /\ pending.decision = "none"
  /\ owner' = "ui"
  /\ UNCHANGED <<active, worker, runGeneration, answer, generation, completed, pending,
                 nextApproval, rounds, toolCalls, cancelRequested, settings, history, error,
                 stopped, granted, ran>>

\* The completed request is taken out; a cancelled or failed one ends the turn.
Take == owner = "pump" /\ active /\ completed # NoOutcome /\ completed' = NoOutcome
Cancelled == completed.kind = "cancelled" \/ cancelRequested
Kept == UNCHANGED <<worker, runGeneration, answer, generation, rounds, cancelRequested,
                    settings, stopped, ran>>
PumpCancelled == /\ Take /\ Cancelled
                 /\ Finish /\ owner' = "ui"
                 /\ Kept /\ UNCHANGED <<granted, nextApproval, toolCalls, history, error>>
PumpFailed == /\ Take /\ ~Cancelled /\ completed.kind = "error"
              /\ Fail("provider") /\ owner' = "ui"
              /\ Kept /\ UNCHANGED <<granted, nextApproval, toolCalls, history>>

Assistant(calls) == Said("assistant", calls, "none")
PumpFinished == /\ Take /\ ~Cancelled /\ completed = Outcome("ok", <<>>)
                /\ history' = Append(history, Assistant(<<>>))
                /\ Finish /\ owner' = "ui"
                /\ Kept /\ UNCHANGED <<granted, nextApproval, toolCalls, error>>

\* A batch is run whole or not at all: known tools, distinct ids, within both limits.
Acceptable(calls) ==
  /\ \A i \in DOMAIN calls : calls[i].tool \in AiTools
  /\ IsInjective(Ids(calls))
  /\ rounds < MaxRounds
  /\ Len(calls) <= MaxToolCalls - toolCalls
Asking == Take /\ ~Cancelled /\ completed.kind = "ok" /\ completed.calls # <<>>
PumpRefused == /\ Asking /\ ~Acceptable(completed.calls)
               /\ Fail("refused") /\ owner' = "ui"
               /\ Kept /\ UNCHANGED <<granted, nextApproval, toolCalls, history>>
\* Autonomous: the decision is taken here, and this pump goes on to run the batch.
PumpAccepts ==
  /\ Asking /\ Acceptable(completed.calls)
  /\ LET ask == settings.autonomy = "ask" IN
       /\ pending' = [id |-> nextApproval, calls |-> completed.calls,
                      decision |-> IF ask THEN "none" ELSE "allow"]
       /\ granted' = IF ask THEN granted ELSE granted \cup {nextApproval}
       /\ owner' = IF ask THEN "ui" ELSE "pump"
  /\ history' = Append(history, Assistant(completed.calls))
  /\ nextApproval' = nextApproval + 1
  /\ toolCalls' = toolCalls + Len(completed.calls)
  /\ Kept /\ UNCHANGED <<active, error>>

\* Mutant: that there is a decision is taken for a yes.
DecidedAtAll(d) == owner = "pump" /\ active /\ completed = NoOutcome /\ pending.decision # "none"
Decided(d) == owner = "pump" /\ active /\ completed = NoOutcome /\ pending.decision = d
PumpDenied ==
  /\ Decided("deny")
  /\ LaunchRequest(worker, history \o Results(pending.calls), generation, rounds)
  /\ owner' = "ui"
  /\ UNCHANGED <<nextApproval, toolCalls, settings, stopped, granted, ran>>
\* The tools run on the owner's thread with the lock released; no worker is running then, so
\* nothing happens between the two critical sections. A tool that throws has a result too.
PumpRuns ==
  /\ Decided("allow")
  /\ ran' = Append(ran, pending.id)
  /\ LaunchRequest(worker, history \o Results(pending.calls), generation, rounds)
  /\ owner' = "ui"
  /\ UNCHANGED <<nextApproval, toolCalls, settings, stopped, granted>>

Pump == \/ Reap \/ PumpNothing \/ PumpCancelled \/ PumpFailed \/ PumpFinished
        \/ PumpRefused \/ PumpAccepts \/ PumpDenied \/ PumpRuns
Click == \/ \E s \in Sendings : Submit(s)
         \/ \E d \in {"allow", "deny"} : Decide(d)
         \/ StopTurn \/ Clear \/ NoClick

----------------------------------------------------------------------------
(* The worker                                                                *)

\* perform_http: the flag is looked at while the transfer runs and once more after it.
WorkerReturns ==
  /\ worker = "running" /\ worker' = "returning"
  /\ answer' \in IF cancelRequested THEN {Outcome("cancelled", <<>>)}
                 ELSE {Outcome("error", <<>>)} \cup {Outcome("ok", c) : c \in Replies}
  /\ UNCHANGED <<active, runGeneration, generation, completed, pending, nextApproval, rounds,
                 toolCalls, cancelRequested, settings, history, error, owner, stopped, granted, ran>>
WorkerEnds ==
  /\ worker = "returning" /\ worker' = "ended"
  /\ completed' = IF runGeneration = generation THEN answer ELSE completed
  /\ answer' = NoOutcome
  /\ UNCHANGED <<active, runGeneration, generation, pending, nextApproval, rounds, toolCalls,
                 cancelRequested, settings, history, error, owner, stopped, granted, ran>>

AiOwner == Pump \/ Click \/ StopSection
AiNext == AiOwner \/ WorkerReturns \/ WorkerEnds
\* Frames follow each other, and a request ends, by its timeout if by nothing else.
AiFairness == WF_aiVars(AiOwner) /\ WF_aiVars(WorkerReturns) /\ WF_aiVars(WorkerEnds)
AiSpec == AiInit /\ [][AiNext]_aiVars /\ AiFairness

----------------------------------------------------------------------------
(* Properties                                                                *)

\* What a provider accepts: the calls of a message are answered, each once and in order, before
\* anything else is said; in Anthropic's form by the next message, and the roles alternate.
OpenAiAccepts(ms) ==
  \A i \in DOMAIN ms :
    /\ \A k \in DOMAIN ms[i].uses : /\ i + k <= Len(ms)
                                    /\ ms[i + k].results = <<ms[i].uses[k]>>
    /\ ms[i].role = "tool" =>
         \E j \in 1..(i - 1) : ms[j].role = "assistant" /\ i - j <= Len(ms[j].uses)
AnthropicAccepts(ms) ==
  /\ ms # <<>> /\ ms[1].role = "user" /\ ms[1].results = <<>> /\ Last(ms).role = "user"
  /\ \A i \in 1..(Len(ms) - 1) : /\ ms[i].role # ms[i + 1].role
                                 /\ ms[i].role = "assistant" => ms[i + 1].results = ms[i].uses
\* No request is sent whose history the provider would refuse, however many turns were stopped,
\* denied or failed before it: that would break every later turn too.
HistoryAccepted ==
  HttpRunning => IF settings.provider = "anthropic"
                 THEN AnthropicAccepts(AnthropicMessages(history))
                 ELSE OpenAiAccepts(OpenAiMessages(history))

\* After Stop, the turn runs no batch and sends no request, at whatever point of a request or of
\* a pump the click came.
StopSticks == [][stopped /\ stopped' => ran' = ran /\ (HttpRunning' => HttpRunning)]_aiVars

\* A batch of tool calls runs once, and only with the user's yes to this very batch, by a click or
\* by having sent the turn as autonomous (ai_controller.h:22): not one that was denied, nor one
\* shown beside or after it. A turn stays within its limits.
RunsOnce == /\ IsInjective(ran) /\ ToSet(ran) \subseteq granted
            /\ rounds <= MaxRounds /\ toolCalls <= MaxToolCalls

\* What pump() says of itself (ai_controller.cpp:934): the worker is reaped before any possible
\* next round, so no turn ends because the last worker is still there.
ReapedBeforeNextRound == error # "lifecycle"
=============================================================================
