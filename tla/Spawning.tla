------------------------------ MODULE Spawning ------------------------------
(* The doors by which bots are started: the window's form and its lists of   *)
(* accounts, a script's addBot, and the tools session_login and              *)
(* accounts_spawn. Each resolves the proxies of its bots in its own way. The *)
(* main thread goes through a list account by account, while bots' threads   *)
(* end and quarantine exits.                                                 *)
EXTENDS Naturals, Sequences, FiniteSets, SequencesExt

CONSTANTS Lines,      \* what lists of accounts are made of
          Parse,      \* a line's GrowID, whether it has a password, and its token
          Contents,   \* the files and pastes: sequences of lines
          NoContent,
          Exits, NoExit,
          Cap,        \* max_bots_per_ip
          MaxId,      \* bound: bots that are started
          MaxOps      \* bound: what the user and the tools ask for, and quarantines
ASSUME SpawningAssumption ==
  /\ Parse \in [Lines -> [name : STRING, pass : BOOLEAN, token : {"none", "bad", "provider", "google"}]]
  /\ Contents \subseteq Seq(Lines) /\ NoContent \notin Contents /\ NoExit \notin Exits
  /\ Cap \in Nat /\ MaxId \in Nat /\ MaxOps \in Nat

VARIABLES bots,        \* id -> how it was asked for, its GrowID if it has one, and its proxies
          ended,       \* bots whose thread has ended, not reaped yet
          next,        \* next_id_
          pool,        \* the game pool is enabled; the bypass pool: off, on, or on but empty
          quarantined,
          cursor,      \* of the window and of the tool: the content, how far "next" went
                       \* in it, and what it dealt since
          batch,       \* the list under way: its door, its mode, its accounts to come
          ops          \* bound
spawnVars == <<bots, ended, next, pool, quarantined, cursor, batch, ops>>

Dealers == {"window", "tool"}
Batch(wanted, mode, rest) == [asked |-> wanted, mode |-> mode, rest |-> rest]
NoBatch == Batch("direct", "standard", <<>>)
Dealer(content) == [of |-> content, at |-> 0, dealt |-> <<>>]

SpawnInit == /\ bots = [i \in {} |-> 0] /\ ended = {} /\ next = 1
             /\ pool = [on |-> TRUE, bypass |-> "off"] /\ quarantined = {}
             /\ cursor = [d \in Dealers |-> Dealer(NoContent)] /\ batch = NoBatch /\ ops = 0

----------------------------------------------------------------------------
(* Accounts and credentials                                                  *)

\* A password without a token, or a keyed record, or both in an object.
Usable(a) == Parse[a].pass \/ Parse[a].token \in {"provider", "google"}
\* One token, or one GrowID without a token, is one account.
Same(a, b) == IF Parse[a].token # "none" THEN a = b ELSE Parse[b].token = "none" /\ Parse[a].name = Parse[b].name
Keep(listed, a) == IF \E i \in DOMAIN listed : Same(a, listed[i]) THEN listed ELSE Append(listed, a)
\* parse_account_stats
Accounts == [content \in Contents |-> FoldLeft(Keep, <<>>, SelectSeq(content, Usable))]
\* parse_ltoken_string accepts it
HasToken(a) == Parse[a].token \in {"provider", "google"}

----------------------------------------------------------------------------
(* Proxies                                                                   *)

Load(e) == Cardinality({i \in DOMAIN bots : bots[i].proxy = e})
FreeExits == {e \in Exits \ quarantined : Load(e) < Cap}
\* choose: what it may return, and when it throws
Chooses(p) == IF pool.on THEN p \in FreeExits ELSE p = NoExit
Exhausted == pool.on /\ FreeExits = {}
ChoosesOrNone(p) == Chooses(p) \/ (Exhausted /\ p = NoExit)
\* rotating_login_proxy throws if its pool is empty.
Rotates(lp) == pool.bypass # "empty" /\ lp = (pool.bypass = "on")
RotatesOrNone(lp) == lp = (pool.bypass = "on")

\* spawn and spawn_ltoken: what has ended is reaped; a GrowID that has a bot
\* keeps that one, a token gets another.
Start(wanted, a, byToken, p, lp) ==
  LET kept == [i \in DOMAIN bots \ ended |-> bots[i]]
      name == IF byToken THEN "" ELSE Parse[a].name
      recorded == ~byToken /\ \E i \in DOMAIN kept : kept[i].name = name
  IN /\ next <= MaxId /\ ended' = {}
     /\ next' = (IF recorded THEN next ELSE next + 1)
     /\ bots' = [i \in DOMAIN kept \cup (next..(next' - 1)) |->
                   IF i \in DOMAIN kept THEN kept[i]
                   ELSE [asked |-> wanted, name |-> name, proxy |-> p, lp |-> lp]]
Idle == batch.rest = <<>>
Asks == ops < MaxOps /\ ops' = ops + 1
OnlyBots == Asks /\ UNCHANGED <<pool, quarantined, cursor, batch>>

----------------------------------------------------------------------------
(* One bot at a time                                                         *)

\* SpawnFromAddForm: a custom proxy, or the pool's, or none. A bypass proxy
\* for all but OAuth tokens.
Form(a) ==
  /\ Idle /\ OnlyBots
  /\ \E wanted \in {"form", "custom"}, p \in Exits \cup {NoExit}, lp \in BOOLEAN :
       /\ IF wanted = "custom" THEN p = NoExit ELSE ChoosesOrNone(p)
       /\ IF Parse[a].token = "google" THEN ~lp ELSE Rotates(lp)
       /\ HasToken(a) \/ Parse[a].pass
       /\ Start(wanted, a, HasToken(a), p, lp)

\* addBot: the script asks for a proxy of its own, for none, or for none in
\* particular; a disabled pool is passed by, an exhausted one refuses. A
\* bypass proxy for GrowIDs unless refused, for provider tokens if asked for.
AddBot(a) ==
  /\ Idle /\ OnlyBots
  /\ \E wanted \in {"auto", "direct", "custom"}, rotating \in {"absent", "yes", "no"},
        p \in Exits \cup {NoExit}, lp \in BOOLEAN :
       /\ IF wanted = "auto" THEN Chooses(p) ELSE p = NoExit
       /\ IF HasToken(a)
          THEN IF rotating = "yes" /\ Parse[a].token = "provider" THEN lp /\ Rotates(lp) ELSE ~lp
          ELSE Parse[a].pass /\ (IF rotating = "no" THEN ~lp ELSE Rotates(lp))
       /\ Start(wanted, a, HasToken(a), p, lp)

\* session_login: by the pool, or it refuses; or direct.
SessionLogin(a, byToken) ==
  /\ Idle /\ OnlyBots
  /\ IF byToken THEN HasToken(a) ELSE Parse[a].pass
  /\ \E wanted \in {"pool", "direct"}, p \in Exits \cup {NoExit}, lp \in BOOLEAN :
       /\ IF wanted = "pool"
          THEN /\ p # NoExit /\ Chooses(p)
               /\ IF byToken /\ Parse[a].token = "google" THEN ~lp ELSE Rotates(lp)
          ELSE p = NoExit /\ ~lp
       /\ Start(wanted, a, byToken, p, lp)

----------------------------------------------------------------------------
(* Lists                                                                     *)

OnlyBatch == Asks /\ UNCHANGED <<bots, ended, next, pool, quarantined>>
Deals(wanted, mode, rest) == Idle /\ rest # <<>> /\ batch' = Batch(wanted, mode, rest) /\ OnlyBatch

\* Mutant of Extract: the offset of the list before is kept.
ExtractKeepsCursor(content) ==
  /\ Idle /\ Accounts[content] # <<>> /\ OnlyBatch /\ UNCHANGED batch
  /\ cursor' = [cursor EXCEPT !["window"].of = content]
\* A fresh list starts from its first account.
Extract(content) ==
  /\ Idle /\ Accounts[content] # <<>> /\ OnlyBatch /\ UNCHANGED batch
  /\ cursor' = [cursor EXCEPT !["window"] = Dealer(content)]

\* "First X" and "random X" leave the cursor; "all" resets the window's.
Samples == [content \in Contents |->
              UNION {SetToSeqs({Accounts[content][k] : k \in chosen}) : chosen \in SUBSET DOMAIN Accounts[content]}]
DealsSome(content, wanted, mode) == (\E some \in Samples[content] : Deals(wanted, mode, some)) /\ UNCHANGED cursor
DealsAll(d, content, wanted, mode) ==
  /\ Deals(wanted, mode, Accounts[content])
  /\ cursor' = (IF d = "window" THEN [cursor EXCEPT ![d] = Dealer(content)] ELSE cursor)
\* "Next X": from the cursor on, or from the start when all are dealt. The
\* tool's cursor starts anew for other content than the last.
DealsNext(d, content, wanted, mode) ==
  LET c == IF cursor[d].of = content THEN cursor[d] ELSE Dealer(content)
      list == Accounts[content]
      wraps == c.at >= Len(list)
      start == IF wraps THEN 0 ELSE c.at
  IN \E n \in DOMAIN list :
       LET end == IF start + n < Len(list) THEN start + n ELSE Len(list)
           some == SubSeq(list, start + 1, end)
       IN /\ Deals(wanted, mode, some)
          /\ cursor' = [cursor EXCEPT ![d] =
                          [of |-> content, at |-> end, dealt |-> (IF wraps THEN <<>> ELSE c.dealt) \o some]]
\* The buttons of the window, and accounts_spawn.
DealsList(d) ==
  \E content \in Contents, wanted \in {"pool", "direct"}, mode \in {"standard", "ltoken"} :
    /\ d = "window" => content = cursor[d].of
    /\ \/ DealsSome(content, wanted, mode)
       \/ DealsAll(d, content, wanted, mode)
       \/ DealsNext(d, content, wanted, mode)

Account == Head(batch.rest)
Goes == batch.rest # <<>> /\ batch' = [batch EXCEPT !.rest = Tail(@)]
ByToken == batch.mode = "ltoken"
Bypassed == ~ByToken \/ Parse[Account].token = "provider"
Startable == Goes /\ (HasToken(Account) \/ ~ByToken)
SkipInvalid == /\ Goes /\ ByToken /\ ~HasToken(Account)
               /\ UNCHANGED <<bots, ended, next, pool, quarantined, cursor, ops>>
\* No game exit is left, and no bypass pool to log in by; whether that pool has a proxy that
\* resolves shows at the login only.
Leaks(p, lp) == p = NoExit /\ (ByToken \/ ~lp)
\* A failing pool is no proxy.
Resolves(p, lp) ==
  IF batch.asked = "pool" THEN ChoosesOrNone(p) /\ (IF Bypassed THEN RotatesOrNone(lp) ELSE ~lp)
                          ELSE p = NoExit /\ ~lp
SkipLeaking == /\ Startable /\ batch.asked = "pool"
               /\ \E p \in Exits \cup {NoExit}, lp \in BOOLEAN : Resolves(p, lp) /\ Leaks(p, lp)
               /\ UNCHANGED <<bots, ended, next, pool, quarantined, cursor, ops>>
StartListed ==
  /\ Startable
  /\ \E p \in Exits \cup {NoExit}, lp \in BOOLEAN :
       /\ Resolves(p, lp) /\ ~(batch.asked = "pool" /\ Leaks(p, lp))
       /\ Start(batch.asked, Account, ByToken, p, lp)
  /\ UNCHANGED <<pool, quarantined, cursor, ops>>

----------------------------------------------------------------------------
(* Beside                                                                    *)

End(i) == /\ i \in DOMAIN bots \ ended /\ ended' = ended \cup {i}
          /\ UNCHANGED <<bots, next, pool, quarantined, cursor, batch, ops>>
Quarantine(i) == /\ i \in DOMAIN bots \ ended /\ bots[i].proxy \in Exits \ quarantined /\ Asks
                 /\ quarantined' = quarantined \cup {bots[i].proxy}
                 /\ UNCHANGED <<bots, ended, next, pool, cursor, batch>>
\* The user stops a bot, or changes the pools.
Stop(i) == /\ Idle /\ Asks /\ i \in DOMAIN bots /\ bots' = [j \in DOMAIN bots \ {i} |-> bots[j]] /\ ended' = ended \ {i}
           /\ UNCHANGED <<next, pool, quarantined, cursor, batch>>
SwitchPool == /\ Idle /\ Asks /\ pool' \in [on : BOOLEAN, bypass : {"off", "on", "empty"}]
              /\ UNCHANGED <<bots, ended, next, quarantined, cursor, batch>>

SpawnNext ==
  \/ \E a \in Lines : Form(a) \/ AddBot(a) \/ \E byToken \in BOOLEAN : SessionLogin(a, byToken)
  \/ \E content \in Contents : Extract(content)
  \/ \E d \in Dealers : DealsList(d)
  \/ SkipInvalid \/ SkipLeaking \/ StartListed
  \/ \E i \in DOMAIN bots : End(i) \/ Quarantine(i) \/ Stop(i)
  \/ SwitchPool
SpawnSpec == SpawnInit /\ [][SpawnNext]_spawnVars

----------------------------------------------------------------------------
(* Properties                                                                *)

\* app_ui.cpp:1178: "next X" adds batch after batch without adding an account again, until all have
\* been dealt: whatever else is dealt between, from this list or another, by this door or another,
\* what "next" dealt since it last began with a list are the list's first accounts, in order.
NextDealsInOrder == \A d \in Dealers :
                      LET c == cursor[d] IN
                        IF c.of = NoContent THEN c.dealt = <<>>
                        ELSE c.dealt = SubSeq(Accounts[c.of], 1, c.at) /\ IsInjective(c.dealt)

\* docs/LUA.md:78: proxy="auto" requires an enabled game pool, and never silently uses the real IP.
AutoNeverDirect == \A i \in DOMAIN bots : bots[i].asked = "auto" => bots[i].proxy # NoExit
=============================================================================
