------------------------------- MODULE Scripts -------------------------------
(* The folder of scripts, which the program and a tool server may share, and *)
(* the engine that runs a script on the main thread of its process. A script *)
(* is run to its end there: nothing else happens in that process meanwhile.  *)
EXTENDS Naturals, FiniteSets

CONSTANTS Names,       \* scripts of the folder
          Outside,     \* the file a dialog imports from and exports to
          NoFile,
          Kinds,       \* what scripts do: some of those below
          Limit,       \* checkpoints until a script has used up its instructions
          Budget,      \* checkpoints until it has used up its memory, if it takes some
          MaxRevisions, MaxFailures, MaxRuns   \* bounds
ASSUME ScriptsAssumption ==
  /\ Outside \notin Names /\ Limit \in Nat /\ Budget \in Nat
  /\ Kinds \subseteq {"short", "loop", "nested", "greedy", "sleepy", "stubborn"}
  /\ MaxRevisions \in Nat /\ MaxFailures \in Nat /\ MaxRuns \in Nat

VARIABLES files,       \* of the folder, and outside of it
          job,         \* what each process's main thread is at
          run,         \* its engine: what the script under way has used
          editor,      \* the text in the window
          revisions, scriptFaults, runs      \* bounds
scriptVars == <<files, job, run, editor, revisions, scriptFaults, runs>>

Processes == {"window", "server"}
Text(does, size) == [does |-> does, size |-> size, whole |-> TRUE]
Torn(text) == [text EXCEPT !.whole = FALSE]
Template == Text("short", "fits")
Job(op, name, text, stage) == [op |-> op, name |-> name, text |-> text, at |-> stage]
Resting == Job("none", Outside, Template, "idle")
\* Steps of 10,000 instructions, of memory, what time is left, and for how many bots to go.
Fresh(left) == [used |-> 0, memory |-> 0, late |-> FALSE, left |-> left, caught |-> FALSE]

ScriptsInit == /\ files = [n \in Names \cup {Outside} |-> NoFile]
               /\ job = [p \in Processes |-> Resting] /\ run = [p \in Processes |-> Fresh(0)]
               /\ editor = Template /\ revisions = 0 /\ scriptFaults = 0 /\ runs = 0

Is(p, stage) == job[p].at = stage
Becomes(p, j) == job' = [job EXCEPT ![p] = j]
Goto(p, stage) == Becomes(p, [job[p] EXCEPT !.at = stage])
Rests(p) == Becomes(p, Resting)
Fault == scriptFaults < MaxFailures /\ scriptFaults' = scriptFaults + 1
Bounds == <<revisions, scriptFaults, runs>>
Beside == UNCHANGED <<editor, Bounds>>

----------------------------------------------------------------------------
(* What the window, its tools and the server's tools are asked for           *)

WindowOps == {"save", "load", "import", "export"}
ToolOps == {"script_read", "script_execute", "script_list"}
First(op) == CASE op = "save" -> "write"
               [] op = "script_list" -> "list"
               [] OTHER -> "read"
Ask(p, op, name) ==
  /\ Is(p, "idle") /\ op \in ToolOps \cup (IF p = "window" THEN WindowOps ELSE {})
  /\ runs < MaxRuns /\ runs' = runs + 1
  /\ Becomes(p, Job(op, name, editor, First(op)))
  /\ UNCHANGED <<files, run, editor, revisions, scriptFaults>>
\* script_write: any text up to the limit of the store.
AskWrite(p, name, does, size) ==
  /\ Is(p, "idle") /\ revisions < MaxRevisions /\ revisions' = revisions + 1
  /\ Becomes(p, Job("script_write", name, Text(does, size), "write"))
  /\ UNCHANGED <<files, run, editor, scriptFaults, runs>>
\* lua_execute: a text of its own. Run: the editor's, for one bot or for each.
AskRun(p, text, left) ==
  /\ Is(p, "idle") /\ runs < MaxRuns /\ runs' = runs + 1
  /\ Becomes(p, Job("run", Outside, text, "run")) /\ run' = [run EXCEPT ![p] = Fresh(left)]
  /\ UNCHANGED <<files, editor, revisions, scriptFaults>>
\* The user types, and other programs leave files of any size.
Type(does) == /\ Is("window", "idle") /\ revisions < MaxRevisions /\ revisions' = revisions + 1
              /\ editor' = Text(does, "fits")
              /\ UNCHANGED <<files, job, run, scriptFaults, runs>>
Leave(name, does, size) ==
  /\ revisions < MaxRevisions /\ revisions' = revisions + 1
  /\ files' = [files EXCEPT ![name] = Text(does, size)]
  /\ UNCHANGED <<job, run, editor, scriptFaults, runs>>

----------------------------------------------------------------------------
(* The store                                                                 *)

\* read_bounded_file: one revision of the file, whole, or nothing.
Readable(name) == files[name] # NoFile /\ files[name].size # "over"
From(j) == IF j.op = "import" THEN Outside ELSE j.name
Target(j) == IF j.op = "export" THEN Outside ELSE j.name
Fits(text) == text.size = "fits"
Read(p) ==
  /\ Is(p, "read") /\ UNCHANGED <<files, run, Bounds>>
  /\ LET j == job[p]
         text == files[From(j)]
     IN IF ~Readable(From(j)) THEN Rests(p) /\ UNCHANGED editor
        ELSE IF j.op = "load"
        THEN Rests(p) /\ editor' = (IF Fits(text) THEN text ELSE editor)
        ELSE /\ Becomes(p, Job(j.op, j.name, text, IF j.op \in {"import", "export"} THEN "write" ELSE "list"))
             /\ UNCHANGED editor
\* What was imported is shown, if it can be read and is not too long.
Show(p) == /\ Is(p, "show") /\ Rests(p) /\ UNCHANGED <<files, run, Bounds>>
           /\ editor' = (IF Readable(job[p].name) /\ Fits(files[job[p].name]) THEN files[job[p].name] ELSE editor)

WriteInPlace(p) == /\ Is(p, "write") /\ Goto(p, "replace") /\ UNCHANGED <<run, editor, Bounds>>
                   /\ files' = [files EXCEPT ![Target(job[p])] = Torn(job[p].text)]
\* atomic_write_file: all of the text to a file beside, which nobody reads.
WriteAside(p) == /\ Is(p, "write") /\ Goto(p, "replace") /\ UNCHANGED <<files, run>> /\ Beside
Replace(p) ==
  /\ Is(p, "replace") /\ files' = [files EXCEPT ![Target(job[p])] = job[p].text]
  /\ CASE job[p].op = "import" -> Goto(p, "show")
       [] job[p].op = "script_write" -> Goto(p, "list")
       [] OTHER -> Rests(p)
  /\ UNCHANGED run /\ Beside
\* A full disk, or a file that may not be replaced: the file beside is removed.
SaveFails(p) == /\ Is(p, "write") \/ Is(p, "replace")
                /\ Fault /\ Rests(p) /\ UNCHANGED <<files, run, editor, revisions, runs>>

\* find_script_metadata: one file that cannot be read fails the whole list.
Listed == \A n \in Names : files[n] # NoFile => Readable(n)
List(p) ==
  /\ Is(p, "list")
  /\ IF job[p].op = "script_execute" /\ Listed /\ files[job[p].name] # NoFile
     THEN Goto(p, "run") /\ run' = [run EXCEPT ![p] = Fresh(1)]
     ELSE Rests(p) /\ UNCHANGED run
  /\ UNCHANGED files /\ Beside

----------------------------------------------------------------------------
(* The engine                                                                *)

Does(p) == job[p].text.does
Running(p) == Is(p, "run")
Spent(p) == run[p].used > Limit \/ run[p].late
NestedUnhooked(p) == Does(p) \in {"loop", "stubborn"} /\ Spent(p)
\* The hook, of the script and of its coroutines, every 10,000 instructions.
HookRaises(p) == Does(p) \in {"loop", "nested", "stubborn"} /\ Spent(p)
\* allocate refuses; sleep looks at the clock.
Raises(p) == HookRaises(p) \/ (Does(p) = "greedy" /\ run[p].memory >= Budget)
                           \/ (Does(p) = "sleepy" /\ run[p].late)
\* execute returns; the next bot's turn, or the end of the request.
Returns(p) == IF run[p].left > 1 THEN run' = [run EXCEPT ![p] = Fresh(run[p].left - 1)] /\ UNCHANGED job
                                 ELSE Rests(p) /\ run' = [run EXCEPT ![p] = Fresh(0)]
\* Until it raises an error, a script that loops goes on.
Step(p) == /\ Running(p) /\ Does(p) # "short" /\ ~Raises(p) /\ ~run[p].caught
           /\ run' = [run EXCEPT ![p].used = IF Does(p) = "sleepy" \/ @ > Limit THEN @ ELSE @ + 1,
                                 ![p].memory = IF Does(p) = "greedy" THEN @ + 1 ELSE @]
           /\ UNCHANGED <<files, job>> /\ Beside
Complete(p) == /\ Running(p) /\ Does(p) = "short" /\ Returns(p) /\ UNCHANGED files /\ Beside
Raise(p) == /\ Running(p) /\ Raises(p) /\ Does(p) # "stubborn" /\ Returns(p) /\ UNCHANGED files /\ Beside
\* It is an error like others: a script may catch it, and go on.
Catch(p) == /\ Running(p) /\ Raises(p) /\ Does(p) = "stubborn" /\ ~run[p].caught
            /\ run' = [run EXCEPT ![p].caught = TRUE] /\ UNCHANGED <<files, job>> /\ Beside
GoOn(p) == /\ Running(p) /\ run[p].caught
           /\ run' = [run EXCEPT ![p].caught = FALSE] /\ UNCHANGED <<files, job>> /\ Beside
\* The deadline passes.
Late(p) == /\ Running(p) /\ ~run[p].late /\ run' = [run EXCEPT ![p].late = TRUE]
           /\ UNCHANGED <<files, job>> /\ Beside

\* The process ends and is started again; what it wrote aside stays, unread.
Dies(p) == /\ ~Is(p, "idle") /\ Fault /\ Rests(p) /\ editor' = (IF p = "window" THEN Template ELSE editor)
           /\ run' = [run EXCEPT ![p] = Fresh(0)] /\ UNCHANGED <<files, revisions, runs>>

----------------------------------------------------------------------------

Works(p) == Read(p) \/ Show(p) \/ WriteAside(p) \/ Replace(p) \/ List(p)
            \/ Step(p) \/ Complete(p) \/ Raise(p) \/ Catch(p) \/ GoOn(p)
ScriptsNext ==
  \/ \E p \in Processes :
       \/ \E op \in WindowOps \cup ToolOps, name \in Names : Ask(p, op, name)
       \/ \E name \in Names, does \in Kinds, size \in {"fits", "long"} : AskWrite(p, name, does, size)
       \/ \E does \in Kinds : AskRun(p, Text(does, "fits"), 1)
       \/ p = "window" /\ \E left \in 1..2 : AskRun(p, editor, left)
       \/ Works(p) \/ SaveFails(p) \/ Late(p) \/ Dies(p)
  \/ \E does \in Kinds : Type(does)
  \/ \E name \in Names \cup {Outside}, does \in Kinds, size \in {"long", "over"} : Leave(name, does, size)
ScriptsSpec == ScriptsInit /\ [][ScriptsNext]_scriptVars
\* A thread that has something to do goes on, and time passes.
FairScripts == ScriptsSpec /\ \A p \in Processes : WF_scriptVars(Works(p)) /\ WF_scriptVars(Late(p))

----------------------------------------------------------------------------
(* Properties                                                                *)

\* script_store.h:47: an existing script is never truncated in place. Whatever
\* two processes write, and wherever one of them fails or ends, what is stored,
\* shown and run is the whole of something that was written.
NeverTorn == /\ \A n \in DOMAIN files : files[n] # NoFile => files[n].whole
             /\ editor.whole /\ \A p \in Processes : job[p].text.whole

\* lua_engine.cpp:1265: a script that lets errors pass ends, whether it loops
\* in a coroutine, sleeps or takes memory, and the next of its runs too.
LoopsEnd == \A p \in Processes : Running(p) /\ Does(p) # "stubborn" ~> Is(p, "idle")

\* docs/LUA.md:32: a script runs for 20,000,000 instructions and 30 seconds at
\* most: the main thread gets on with its other work.
RunEnds == \A p \in Processes : Running(p) ~> Is(p, "idle")
=============================================================================
