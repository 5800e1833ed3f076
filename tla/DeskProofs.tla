------------------------------ MODULE DeskProofs ------------------------------
(* What the ways to the fleet guarantee, for any number of clients, bots and *)
(* exits: the bridge executes a request once, in one fleet, as Exchange      *)
(* says; a login keeps a device and the exit of its token; and a script is   *)
(* stored, shown and run whole.                                              *)
EXTENDS AppBridge, Login, Scripts, TLAPS

----------------------------------------------------------------------------
(* The bridge. A request is in the pipe, queued for the owner or executed,   *)
(* never two of these, and one that its client still has is none of them.    *)

In(q, c) == {q[i].n : i \in {j \in DOMAIN q : q[j].by = c}}
Ran(c) == {ran[c][i].n : i \in DOMAIN ran[c]}
Gone(c) == Ran(c) \cup In(queue, c) \cup In(inbox, c)
AtMostOne(q) == q = <<>> \/ \E c \in Clients, n \in Nat : q = <<[by |-> c, n |-> n]>>

Shapes ==
  /\ DOMAIN client = Clients /\ DOMAIN ran = Clients
  /\ \A c \in Clients : /\ DOMAIN client[c] = {"pc", "mode", "n", "route"} /\ client[c].n \in Nat
                        /\ ran[c] \in Seq([n : Nat, where : {"desktop", "headless"}])
OneByOne ==
  /\ AtMostOne(queue) /\ AtMostOne(inbox)
  /\ running /\ queue # <<>> => server = "wait"
  /\ ready => queue = <<>>
OnePlace == \A c \in Clients : /\ Ran(c) \cap In(queue, c) = {} /\ Ran(c) \cap In(inbox, c) = {}
                               /\ In(queue, c) \cap In(inbox, c) = {}
Numbered ==
  \A c \in Clients :
    /\ client[c].pc \in {"waiting", "opening", "opened"} => client[c].n \notin Gone(c)
    /\ client[c].pc # "dead" => \A n \in Gone(c) : n <= client[c].n
BridgeInv == Shapes /\ OneByOne /\ OnePlace /\ Numbered /\ RequestsRunOnce

LEMMA NoRequests == \A c \in Clients : In(<<>>, c) = {}
BY DEF In

LEMMA OneRequestIn ==
  ASSUME NEW c \in Clients, NEW d \in Clients, NEW n \in Nat
  PROVE  In(<<[by |-> d, n |-> n]>>, c) = IF c = d THEN {n} ELSE {}
<1> DEFINE q == <<[by |-> d, n |-> n]>>
<1>1. DOMAIN q = {1} /\ q[1].by = d /\ q[1].n = n OBVIOUS
<1> HIDE DEF q
<1>2. In(q, c) = IF c = d THEN {n} ELSE {}
  BY <1>1 DEF In
<1> QED BY <1>2 DEF q

LEMMA InNat == ASSUME NEW q, AtMostOne(q), NEW c \in Clients PROVE In(q, c) \subseteq Nat
<1>1. CASE q = <<>> BY <1>1, NoRequests
<1>2. ASSUME NEW d \in Clients, NEW n \in Nat, q = <<[by |-> d, n |-> n]>> PROVE In(q, c) \subseteq Nat
  <2>1. In(q, c) = IF c = d THEN {n} ELSE {} BY <1>2, OneRequestIn
  <2> QED BY <2>1
<1> QED BY <1>1, <1>2 DEF AtMostOne

(* One more execution. *)
LEMMA Executed ==
  ASSUME Shapes, RequestsRunOnce, NEW c \in Clients, NEW n \in Nat, NEW where \in {"desktop", "headless"},
         n \notin Ran(c), ran' = Runs(c, n, where)
  PROVE  /\ DOMAIN ran' = Clients /\ RequestsRunOnce'
         /\ \A d \in Clients : /\ ran'[d] \in Seq([n : Nat, where : {"desktop", "headless"}])
                               /\ Ran(d)' = IF d = c THEN Ran(d) \cup {n} ELSE Ran(d)
<1> DEFINE e == [n |-> n, where |-> where]
           S == [n : Nat, where : {"desktop", "headless"}]
<1>1. DOMAIN ran' = Clients /\ ran'[c] = Append(ran[c], e) /\ \A d \in Clients \ {c} : ran'[d] = ran[d]
  BY DEF Runs, Shapes
<1>2. e \in S /\ e.n = n OBVIOUS
<1>3. \A d \in Clients : ran[d] \in Seq(S) BY DEF Shapes
<1> HIDE DEF e, S
<1>4. /\ ran'[c] \in Seq(S) /\ Len(ran[c]) \in Nat /\ DOMAIN ran[c] = 1..Len(ran[c])
      /\ DOMAIN ran'[c] = 1..(Len(ran[c]) + 1)
      /\ \A i \in 1..Len(ran[c]) : ran'[c][i] = ran[c][i]
      /\ ran'[c][Len(ran[c]) + 1] = e
  BY <1>1, <1>2, <1>3
<1>5. Ran(c)' = Ran(c) \cup {n}
  BY <1>2, <1>4, SMTT(30) DEF Ran
<1>6. \A d \in Clients \ {c} : Ran(d)' = Ran(d)
  BY <1>1 DEF Ran
<1>7. \A i \in 1..Len(ran[c]) : ran[c][i].n # n
  BY <1>4 DEF Ran
<1>8. ASSUME NEW i \in DOMAIN ran'[c], NEW j \in DOMAIN ran'[c], ran'[c][i].n = ran'[c][j].n
      PROVE  i = j
  <2>1. CASE i \in 1..Len(ran[c]) /\ j \in 1..Len(ran[c])
    BY <1>4, <1>8, <2>1 DEF RequestsRunOnce
  <2> DEFINE m == Len(ran[c])
  <2>a. m \in Nat /\ i \in 1..m + 1 /\ j \in 1..m + 1 BY <1>4
  <2>b. /\ \A k \in 1..m : ran'[c][k] = ran[c][k] /\ ran[c][k].n # n
        /\ ran'[c][m + 1].n = n
    BY <1>2, <1>4, <1>7
  <2> HIDE DEF m
  <2>2. CASE i = m + 1 /\ j \in 1..m BY <1>8, <2>b, <2>2
  <2>3. CASE j = m + 1 /\ i \in 1..m BY <1>8, <2>b, <2>3
  <2>4. CASE i = m + 1 /\ j = m + 1 BY <2>4
  <2>5. (i = m + 1 \/ i \in 1..m) /\ (j = m + 1 \/ j \in 1..m) BY <2>a
  <2> QED BY <2>1, <2>2, <2>3, <2>4, <2>5 DEF m
<1>9. RequestsRunOnce'
  <2> SUFFICES ASSUME NEW d \in Clients, NEW i \in DOMAIN ran'[d], NEW j \in DOMAIN ran'[d],
                      ran'[d][i].n = ran'[d][j].n
               PROVE  i = j
    BY DEF RequestsRunOnce
  <2>1. CASE d = c BY <1>8, <2>1
  <2>2. CASE d # c BY <1>1, <2>2 DEF RequestsRunOnce
  <2> QED BY <2>1, <2>2
<1>10. \A d \in Clients : ran'[d] \in Seq(S) BY <1>1, <1>3, <1>4
<1>11. \A d \in Clients : Ran(d)' = IF d = c THEN Ran(d) \cup {n} ELSE Ran(d) BY <1>5, <1>6
<1> QED BY <1>1, <1>9, <1>10, <1>11 DEF S
----------------------------------------------------------------------------
(* The fields of a client that goes somewhere.                               *)
LEMMA Gets ==
  ASSUME Shapes, NEW c \in Clients, NEW x, NEW y
  PROVE  /\ client' = [client EXCEPT ![c].pc = x] =>
              /\ DOMAIN client' = Clients /\ \A d \in Clients \ {c} : client'[d] = client[d]
              /\ DOMAIN client'[c] = {"pc", "mode", "n", "route"}
              /\ client'[c].pc = x /\ client'[c].n = client[c].n
         /\ client' = [client EXCEPT ![c].pc = x, ![c].route = y] =>
              /\ DOMAIN client' = Clients /\ \A d \in Clients \ {c} : client'[d] = client[d]
              /\ DOMAIN client'[c] = {"pc", "mode", "n", "route"}
              /\ client'[c].pc = x /\ client'[c].n = client[c].n
         /\ client' = [client EXCEPT ![c].n = @ + 1, ![c].pc = x] =>
              /\ DOMAIN client' = Clients /\ \A d \in Clients \ {c} : client'[d] = client[d]
              /\ DOMAIN client'[c] = {"pc", "mode", "n", "route"}
              /\ client'[c].pc = x /\ client'[c].n = client[c].n + 1
BY DEF Shapes

(* The one whose request was not forwarded.                                  *)
LEMMA GetsRoute ==
  ASSUME Shapes, NEW c \in Clients, NEW y, client' = [client EXCEPT ![c].pc = "idle", ![c].route = y]
  PROVE  /\ DOMAIN client' = Clients /\ \A d \in Clients \ {c} : client'[d] = client[d]
         /\ DOMAIN client'[c] = {"pc", "mode", "n", "route"}
         /\ client'[c].pc = "idle" /\ client'[c].n = client[c].n
BY DEF Shapes

(* A step that executes nothing and moves no request on, though it may drop  *)
(* one, and lets no client go back to a request of its own.                  *)
LEMMA OthersMove ==
  ASSUME BridgeInv, Shapes', UNCHANGED ran, queue' \in {queue, <<>>}, inbox' \in {inbox, <<>>},
         running' /\ queue' # <<>> => running /\ (server = "wait" => server' = "wait"),
         ready' /\ queue' # <<>> => ready,
         \A c \in Clients :
           \/ UNCHANGED client[c]
           \/ client'[c].pc = "dead"
           \/ /\ client[c].pc # "dead" /\ client'[c].n = client[c].n
              /\ client'[c].pc \in {"waiting", "opening", "opened"} => client[c].pc \in {"waiting", "opening", "opened"}
  PROVE  BridgeInv'
<1> USE DEF BridgeInv
<1>1. \A c \in Clients : /\ Ran(c)' = Ran(c) /\ In(queue, c)' \subseteq In(queue, c)
                         /\ In(inbox, c)' \subseteq In(inbox, c)
  <2>1. \A c \in Clients : Ran(c)' = Ran(c) BY DEF Ran
  <2>2. CASE queue' = queue /\ inbox' = inbox BY <2>1, <2>2 DEF In
  <2>3. CASE queue' = <<>> /\ inbox' = inbox BY <2>1, <2>3 DEF In
  <2>4. CASE queue' = queue /\ inbox' = <<>> BY <2>1, <2>4 DEF In
  <2>5. CASE queue' = <<>> /\ inbox' = <<>> BY <2>1, <2>5 DEF In
  <2> QED BY <2>2, <2>3, <2>4, <2>5
<1>2. \A c \in Clients : Gone(c)' \subseteq Gone(c) BY <1>1 DEF Gone
<1>3. OneByOne' BY DEF OneByOne, AtMostOne
<1>4. OnePlace' BY <1>1 DEF OnePlace
<1>5. Numbered' BY <1>2 DEF Numbered
<1>6. RequestsRunOnce' BY DEF RequestsRunOnce
<1> QED BY <1>3, <1>4, <1>5, <1>6

(* A client's own fleet executes what the bridge does not have.              *)
LEMMA OwnFleet ==
  ASSUME BridgeInv, NEW c \in Clients, client[c].pc \in {"waiting", "opening"}, NotForwarded(c),
         UNCHANGED <<appVars, pipeVars>>
  PROVE  BridgeInv'
<1> USE DEF BridgeInv
<1>1. /\ DOMAIN client' = Clients /\ \A d \in Clients \ {c} : client'[d] = client[d]
      /\ DOMAIN client'[c] = {"pc", "mode", "n", "route"}
      /\ client'[c].pc = "idle" /\ client'[c].n = client[c].n /\ client[c].n \in Nat
  <2> DEFINE y == IF client[c].route = "undecided" /\ client[c].mode # "app"
                  THEN "headless" ELSE client[c].route
  <2>1. client' = [client EXCEPT ![c].pc = "idle", ![c].route = y]
    BY DEF NotForwarded
  <2> HIDE DEF y
  <2>2. client[c].n \in Nat BY DEF Shapes
  <2> QED BY <2>1, <2>2, GetsRoute
<1>2. CASE UNCHANGED ran
  <2>1. Shapes' BY <1>1, <1>2 DEF Shapes
  <2> QED BY <1>1, <1>2, <2>1, OthersMove DEF appVars, pipeVars
<1>3. CASE ran' = Runs(c, client[c].n, "headless")
  <2>1. client[c].n \notin Gone(c) BY DEF Numbered
  <2>2. /\ DOMAIN ran' = Clients /\ RequestsRunOnce'
        /\ \A d \in Clients : /\ ran'[d] \in Seq([n : Nat, where : {"desktop", "headless"}])
                              /\ Ran(d)' = IF d = c THEN Ran(d) \cup {client[c].n} ELSE Ran(d)
    BY <1>1, <1>3, <2>1, Executed DEF Gone
  <2>3. \A d \in Clients : In(queue, d)' = In(queue, d) /\ In(inbox, d)' = In(inbox, d)
    BY DEF In, appVars, pipeVars
  <2>4. \A d \in Clients : Gone(d)' = IF d = c THEN Gone(d) \cup {client[c].n} ELSE Gone(d)
    BY <2>2, <2>3 DEF Gone
  <2>5. Shapes' BY <1>1, <2>2 DEF Shapes
  <2>6. OneByOne' BY DEF OneByOne, AtMostOne, appVars, pipeVars
  <2>7. OnePlace' BY <2>1, <2>2, <2>3 DEF OnePlace, Gone
  <2>8. Numbered' BY <1>1, <2>4 DEF Numbered
  <2> QED BY <2>2, <2>5, <2>6, <2>7, <2>8
<1> QED BY <1>2, <1>3 DEF NotForwarded

LEMMA ReadsInv == ASSUME BridgeInv, NEW c \in Clients, Reads(c) PROVE BridgeInv'
<1> USE DEF BridgeInv
<1> DEFINE n == client[c].n + 1
<1>1. /\ DOMAIN client' = Clients /\ \A d \in Clients \ {c} : client'[d] = client[d]
      /\ DOMAIN client'[c] = {"pc", "mode", "n", "route"}
      /\ client'[c].pc \in {"idle", "waiting"} /\ client'[c].n = n /\ client[c].n \in Nat
  BY Gets DEF Reads, Shapes
<1>2. n \in Nat /\ client[c].pc = "idle" /\ UNCHANGED <<appVars, pipeVars>>
  BY <1>1 DEF Reads, At
<1>3. \A m \in Gone(c) : m \in Nat /\ m <= client[c].n
  <2> DEFINE S == [n : Nat, where : {"desktop", "headless"}]
  <2>1. Ran(c) \subseteq Nat
    <3>1. ran[c] \in Seq(S) /\ \A e \in S : e.n \in Nat BY DEF Shapes
    <3> HIDE DEF S
    <3>2. \A i \in DOMAIN ran[c] : ran[c][i] \in S BY <3>1
    <3> QED BY <3>1, <3>2 DEF Ran
  <2> HIDE DEF S
  <2> QED BY <1>2, <2>1, InNat DEF Numbered, Gone, OneByOne
<1>4. n \notin Gone(c) BY <1>1, <1>3
<1>5. /\ DOMAIN ran' = Clients /\ RequestsRunOnce'
      /\ \A d \in Clients : /\ ran'[d] \in Seq([n : Nat, where : {"desktop", "headless"}])
                            /\ Ran(d)' = Ran(d) \/ (d = c /\ client'[c].pc = "idle" /\ Ran(d)' = Ran(d) \cup {n})
  <2>1. CASE UNCHANGED ran BY <2>1 DEF Ran, Shapes, RequestsRunOnce
  <2>2. CASE ran' = Runs(c, n, "headless") /\ client'[c].pc = "idle"
    BY <1>2, <1>4, <2>2, Executed, SMTT(30) DEF Gone
  <2>3. UNCHANGED ran \/ (ran' = Runs(c, n, "headless") /\ client[c].route = "headless")
    BY DEF Reads
  <2>4. client[c].route = "headless" => client' = [client EXCEPT ![c].n = @ + 1, ![c].pc = "idle"]
    BY DEF Reads
  <2>5. client[c].route = "headless" => client'[c].pc = "idle"
    BY <2>4, Gets
  <2> QED BY <2>1, <2>2, <2>3, <2>5
<1>6. \A d \in Clients : In(queue, d)' = In(queue, d) /\ In(inbox, d)' = In(inbox, d)
  BY <1>2 DEF In, appVars, pipeVars
<1>7. Shapes' BY <1>1, <1>2, <1>5 DEF Shapes
<1>8. OneByOne' BY <1>2 DEF OneByOne, AtMostOne, appVars, pipeVars
<1>9. OnePlace' BY <1>4, <1>5, <1>6 DEF OnePlace, Gone
<1>10. Numbered'
  <2>1. \A d \in Clients \ {c} : Gone(d)' = Gone(d) BY <1>5, <1>6 DEF Gone
  <2>2. Gone(c)' \subseteq Gone(c) \cup {n} BY <1>5, <1>6 DEF Gone
  <2>3. client'[c].pc = "waiting" => Gone(c)' = Gone(c) BY <1>5, <1>6 DEF Gone
  <2>4. \A m \in Gone(c)' : m <= n BY <1>1, <1>3, <2>2
  <2> HIDE DEF n
  <2> QED BY <1>1, <1>4, <2>1, <2>3, <2>4 DEF Numbered
<1> QED BY <1>5, <1>7, <1>8, <1>9, <1>10

LEMMA PumpInv == ASSUME BridgeInv, BridgePump PROVE BridgeInv'
<1> USE DEF BridgeInv
<1>1. PICK c \in Clients, n \in Nat : queue = <<[by |-> c, n |-> n]>>
  BY DEF BridgePump, OneByOne, AtMostOne
<1>2. /\ Head(queue).by = c /\ Head(queue).n = n /\ Tail(queue) = <<>> BY <1>1
<1>3. ran' = Runs(c, n, "desktop") /\ queue' = <<>> /\ UNCHANGED <<running, server, inbox, client>>
  BY <1>2 DEF BridgePump, pipeVars
<1>4. In(queue, c) = {n} BY <1>1, OneRequestIn
<1>5. n \notin Ran(c) /\ n \notin In(inbox, c) BY <1>4 DEF OnePlace
<1>6. /\ DOMAIN ran' = Clients /\ RequestsRunOnce'
      /\ \A d \in Clients : /\ ran'[d] \in Seq([n : Nat, where : {"desktop", "headless"}])
                            /\ Ran(d)' = IF d = c THEN Ran(d) \cup {n} ELSE Ran(d)
  BY <1>3, <1>5, Executed
<1>7. \A d \in Clients : In(queue, d)' = {} /\ In(inbox, d)' = In(inbox, d)
  BY <1>3 DEF In
<1>8. \A d \in Clients : Gone(d)' \subseteq Gone(d) BY <1>4, <1>6, <1>7 DEF Gone
<1>9. Shapes' BY <1>3, <1>6 DEF Shapes
<1>10. OneByOne' BY <1>3 DEF OneByOne, AtMostOne
<1>11. OnePlace' BY <1>5, <1>6, <1>7 DEF OnePlace
<1>12. Numbered' BY <1>3, <1>8 DEF Numbered
<1> QED BY <1>6, <1>9, <1>10, <1>11, <1>12

LEMMA ServerReadsInv == ASSUME BridgeInv, ServerReads PROVE BridgeInv'
<1> USE DEF BridgeInv
<1>1. Shapes' BY DEF ServerReads, Shapes, clientVars
<1>2. CASE UNCHANGED <<queue, ready, inbox>> /\ (~running \/ peer = Nobody)
  <2>1. queue = <<>> \/ ~running BY DEF ServerReads, OneByOne
  <2> QED BY <1>1, <1>2, <2>1, OthersMove DEF ServerReads, clientVars
<1>3. CASE running /\ inbox # <<>> /\ queue' = queue \o inbox /\ ready' = FALSE /\ inbox' = <<>> /\ server' = "wait"
  <2>1. queue = <<>> /\ AtMostOne(inbox) BY <1>3 DEF ServerReads, OneByOne
  <2>2. queue' = inbox BY <1>3, <2>1 DEF AtMostOne
  <2>3. UNCHANGED <<client, ran, running>> BY DEF ServerReads, clientVars
  <2>4. \A d \in Clients : /\ Ran(d)' = Ran(d) /\ In(queue, d)' = In(inbox, d) /\ In(inbox, d)' = {}
    BY <1>3, <2>2, <2>3 DEF Ran, In
  <2>5. \A d \in Clients : Gone(d)' \subseteq Gone(d) BY <2>4 DEF Gone
  <2>6. OneByOne' BY <1>3, <2>1, <2>2, <2>3 DEF OneByOne, AtMostOne
  <2>7. OnePlace' BY <2>4 DEF OnePlace
  <2>8. Numbered' BY <2>3, <2>5 DEF Numbered
  <2>9. RequestsRunOnce' BY <2>3 DEF RequestsRunOnce
  <2> QED BY <1>1, <2>6, <2>7, <2>8, <2>9
<1> QED BY <1>2, <1>3 DEF ServerReads

LEMMA ClientWritesInv == ASSUME BridgeInv, NEW c \in Clients, ClientWrites(c) PROVE BridgeInv'
<1> USE DEF BridgeInv
<1>1. client[c].pc = "opened" /\ UNCHANGED <<ran, queue, ready, running, server>>
  BY DEF ClientWrites, At, Throws, appVars
<1>2. CASE Throws(c) /\ UNCHANGED inbox
  <2>1. /\ DOMAIN client' = Clients /\ \A d \in Clients \ {c} : client'[d] = client[d]
        /\ DOMAIN client'[c] = {"pc", "mode", "n", "route"}
        /\ client'[c].pc = "idle" /\ client'[c].n = client[c].n
    BY <1>2, Gets DEF Throws, Goes
  <2>2. Shapes' BY <1>1, <2>1 DEF Shapes
  <2> QED BY <1>1, <1>2, <2>1, <2>2, OthersMove
<1>3. CASE inbox' = <<Request(c)>> /\ Goes(c, "reading")
  <2> DEFINE n == client[c].n
  <2>1. /\ DOMAIN client' = Clients /\ \A d \in Clients \ {c} : client'[d] = client[d]
        /\ DOMAIN client'[c] = {"pc", "mode", "n", "route"}
        /\ client'[c].pc = "reading" /\ client'[c].n = n /\ n \in Nat
    BY <1>3, Gets DEF Goes, Shapes
  <2>2. inbox' = <<[by |-> c, n |-> n]>> BY <1>3 DEF Request
  <2>3. n \notin Gone(c) BY <1>1 DEF Numbered
  <2> HIDE DEF n
  <2>4. \A d \in Clients : In(inbox', d) = IF d = c THEN {n} ELSE {}
    BY <2>1, <2>2, OneRequestIn
  <2>5. \A d \in Clients : /\ Ran(d)' = Ran(d) /\ In(queue, d)' = In(queue, d)
                           /\ In(inbox, d)' = IF d = c THEN {n} ELSE {}
    BY <1>1, <2>4 DEF Ran, In
  <2>6. Shapes' BY <1>1, <2>1 DEF Shapes, n
  <2>7. OneByOne' BY <1>1, <2>1, <2>2 DEF OneByOne, AtMostOne
  <2>8. OnePlace' BY <2>3, <2>5 DEF OnePlace, Gone
  <2>9. Numbered'
    <3>1. \A d \in Clients : Gone(d)' \subseteq IF d = c THEN Gone(c) \cup {n} ELSE Gone(d)
      BY <2>5 DEF Gone
    <3>2. \A m \in Gone(c)' : m <= client'[c].n BY <1>1, <2>1, <3>1 DEF Numbered, n
    <3> QED BY <1>1, <2>1, <3>1, <3>2 DEF Numbered
  <2>10. RequestsRunOnce' BY <1>1 DEF RequestsRunOnce
  <2> QED BY <2>6, <2>7, <2>8, <2>9, <2>10
<1> QED BY <1>2, <1>3 DEF ClientWrites

(* The steps of the application and of the serving thread that execute and   *)
(* queue nothing                                                             *)
LEMMA AppMoves ==
  ASSUME BridgeInv,
         \/ AppStarts \/ StopBegins \/ StopWakes \/ StopJoins \/ ServerCreates \/ ServerLoops
         \/ ServerConnects \/ ServerAccepts \/ ServerWaits \/ ServerCloses
  PROVE  BridgeInv'
<1> USE DEF BridgeInv, OneByOne
<1>0. UNCHANGED clientVars => Shapes' /\ UNCHANGED ran /\ \A c \in Clients : UNCHANGED client[c]
  BY DEF Shapes, clientVars
<1>1. CASE AppStarts BY <1>0, <1>1, OthersMove DEF AppStarts, pipeVars
<1>2. CASE StopBegins BY <1>0, <1>2, OthersMove DEF StopBegins, pipeVars
<1>3. CASE StopWakes BY <1>0, <1>3, OthersMove DEF StopWakes
<1>4. CASE StopJoins BY <1>0, <1>4, OthersMove DEF StopJoins, pipeVars
<1>5. CASE ServerCreates BY <1>0, <1>5, OthersMove DEF ServerCreates
<1>6. CASE ServerLoops BY <1>0, <1>6, OthersMove DEF ServerLoops, pipeVars
<1>7. CASE ServerConnects BY <1>0, <1>7, OthersMove DEF ServerConnects
<1>8. CASE ServerAccepts BY <1>0, <1>8, OthersMove DEF ServerAccepts, pipeVars
<1>9. CASE ServerWaits BY <1>0, <1>9, OthersMove DEF ServerWaits
<1>10. CASE ServerCloses BY <1>0, <1>10, OthersMove DEF ServerCloses
<1> QED BY <1>1, <1>2, <1>3, <1>4, <1>5, <1>6, <1>7, <1>8, <1>9, <1>10

(* and those of a client.                                                    *)
LEMMA ClientMoves ==
  ASSUME BridgeInv, NEW c \in Clients,
         ClientFinds(c) \/ ClientOpens(c) \/ ClientAnswered(c) \/ ClientUnanswered(c) \/ ClientDies(c)
  PROVE  BridgeInv'
<1>1. UNCHANGED <<ran, queue, inbox, running, server, ready>>
  BY DEF ClientFinds, ClientOpens, ClientAnswered, ClientUnanswered, ClientDies, appVars, pipeVars, Throws
<1>2. /\ DOMAIN client' = Clients /\ \A d \in Clients \ {c} : client'[d] = client[d]
      /\ DOMAIN client'[c] = {"pc", "mode", "n", "route"} /\ client'[c].n \in Nat
      /\ \/ client'[c].pc = "dead"
         \/ /\ client[c].pc # "dead" /\ client'[c].n = client[c].n
            /\ client'[c].pc \in {"waiting", "opening", "opened"} => client[c].pc \in {"waiting", "opening", "opened"}
  <2> USE DEF BridgeInv
  <2>0. client[c].n \in Nat BY DEF Shapes
  <2>1. CASE ClientFinds(c) BY <2>0, <2>1, Gets DEF ClientFinds, Goes, At
  <2>2. CASE ClientOpens(c) BY <2>0, <2>2, Gets DEF ClientOpens, Goes, At
  <2>3. CASE ClientAnswered(c)
    <3>1. client[c].pc = "reading" BY <2>3 DEF ClientAnswered, At
    <3>2. CASE Throws(c)
      <4>1. Goes(c, "idle") BY <3>2 DEF Throws
      <4> QED BY <2>0, <3>1, <4>1, Gets DEF Goes
    <3>3. CASE ~Throws(c)
      <4>1. client' = [client EXCEPT ![c].pc = "idle", ![c].route = "desktop"]
        BY <2>3, <3>3 DEF ClientAnswered
      <4> QED BY <2>0, <3>1, <4>1, GetsRoute
    <3> QED BY <3>2, <3>3
  <2>4. CASE ClientUnanswered(c) BY <2>0, <2>4, Gets DEF ClientUnanswered, Throws, Goes, At
  <2>5. CASE ClientDies(c) BY <2>5 DEF ClientDies, Start, Shapes
  <2> QED BY <2>1, <2>2, <2>3, <2>4, <2>5
<1>3. Shapes' BY <1>1, <1>2 DEF Shapes, BridgeInv
<1> QED BY <1>1, <1>2, <1>3, OthersMove

LEMMA BridgeStep == BridgeInv /\ [BridgeNext]_bridgeVars => BridgeInv'
<1> SUFFICES ASSUME BridgeInv, [BridgeNext]_bridgeVars PROVE BridgeInv' OBVIOUS
<1>1. CASE UNCHANGED bridgeVars
  <2>1. Shapes' BY <1>1 DEF Shapes, bridgeVars, BridgeInv
  <2> QED BY <1>1, <2>1, OthersMove DEF bridgeVars
<1>2. ASSUME NEW c \in Clients, ClientFindsNone(c) \/ ClientBeaten(c) PROVE BridgeInv'
  <2>1. client[c].pc \in {"waiting", "opening"} BY <1>2 DEF ClientFindsNone, ClientBeaten, At
  <2> QED BY <1>2, <2>1, OwnFleet DEF ClientFindsNone, ClientBeaten
<1>3. ASSUME NEW c \in Clients, Reads(c) \/ Forward(c) \/ ClientDies(c) PROVE BridgeInv'
  BY <1>2, <1>3, ReadsInv, ClientWritesInv, ClientMoves DEF Forward
<1>4. CASE Owner BY <1>4, PumpInv, AppMoves DEF Owner
<1>5. CASE Server BY <1>5, ServerReadsInv, AppMoves DEF Server
<1> QED BY <1>1, <1>3, <1>4, <1>5, AppMoves DEF BridgeNext

LEMMA BridgeBegins == BridgeInit => BridgeInv
<1> SUFFICES ASSUME BridgeInit PROVE BridgeInv OBVIOUS
<1>1. Shapes
  <2>1. \A c \in Clients : \E m \in {"auto", "app"} : client[c] = Start(m) BY DEF BridgeInit
  <2>2. \A c \in Clients : <<>> \in Seq([n : Nat, where : {"desktop", "headless"}]) OBVIOUS
  <2> QED BY <2>1, <2>2 DEF Shapes, BridgeInit, Start
<1>2. \A c \in Clients : Gone(c) = {} BY DEF BridgeInit, Gone, Ran, In
<1>3. OneByOne BY DEF BridgeInit, OneByOne, AtMostOne
<1>4. OnePlace BY <1>2 DEF OnePlace, Gone
<1>5. Numbered BY <1>2 DEF Numbered
<1>6. RequestsRunOnce BY DEF BridgeInit, RequestsRunOnce
<1> QED BY <1>1, <1>3, <1>4, <1>5, <1>6 DEF BridgeInv

(* app_bridge.h: a request is executed at most once, by the application or   *)
(* by the client's own fleet, whoever stops or dies while it is on its way.  *)
THEOREM RequestIsOnce == BridgeSpec => []RequestsRunOnce
<1>1. BridgeInv => RequestsRunOnce BY DEF BridgeInv
<1> QED BY <1>1, BridgeBegins, BridgeStep, PTL DEF BridgeSpec

----------------------------------------------------------------------------
(* The bridge keeps the promises of Exchange. Where a request is, its client *)
(* reads the answer from the pipe's one instance, or is dead and the         *)
(* instance has no peer; an answer in the pipe is of a request executed.     *)

AppInv == /\ running => app = "up"
          /\ app = "up" => running \/ queue = <<>>
          /\ app = "down" => server = "ended"
          /\ server = "create" => queue = <<>>
PipeInv == /\ server \in {"create", "ended"} => pipe = "none"
           /\ server \in {"read", "wait", "close"} => pipe = "taken"
           /\ pipe # "taken" => peer = Nobody /\ inbox = <<>> /\ ~outbox
           /\ server = "wait" => inbox = <<>>
           /\ outbox => server = "close"
Here(r) == /\ client[r.by].n = r.n
           /\ \/ At(r.by, "dead") /\ peer = Nobody
              \/ At(r.by, "reading") /\ peer = r.by
WayInv == /\ inbox # <<>> => Here(inbox[1])
          /\ app = "up" /\ queue # <<>> => Here(queue[1])
AnswerInv == /\ server = "wait" /\ peer \in Clients =>
                  At(peer, "reading") /\ (app = "up" /\ queue = <<>> => Served(peer))
             /\ outbox /\ peer \in Clients => At(peer, "reading") /\ Served(peer)
ClientInv == \A c \in Clients :
               /\ client[c].pc \in {"idle", "waiting", "opening", "opened", "reading", "dead"}
               /\ client[c].route \in {"undecided", "desktop", "headless"}
               /\ At(c, "dead") => peer # c
               /\ client[c].route = "headless" => client[c].pc \in {"idle", "dead"}
ExInv == AppInv /\ PipeInv /\ WayInv /\ AnswerInv /\ ClientInv

(* At the start nobody serves and nobody asks.                               *)
LEMMA ExBegins == ASSUME BridgeInit PROVE ExInv
<1>1. \A c \in Clients : \E m \in {"auto", "app"} : client[c] = Start(m)
  BY DEF BridgeInit
<1>2. ClientInv
  BY <1>1 DEF ClientInv, Start, At
<1> QED BY <1>2 DEF BridgeInit, ExInv, AppInv, PipeInv, WayInv, AnswerInv

(* One request at a time.                                                    *)
LEMMA OneTravels ==
  ASSUME BridgeInv, ExInv
  PROVE  /\ inbox # <<>> => /\ inbox[1].by \in Clients /\ inbox = <<inbox[1]>>
                            /\ ~ (app = "up" /\ queue # <<>>)
         /\ queue # <<>> => queue[1].by \in Clients /\ queue = <<queue[1]>>
         /\ \A c \in Clients : Due(c) <=> \/ inbox # <<>> /\ inbox[1].by = c
                                          \/ app = "up" /\ queue # <<>> /\ queue[1].by = c
<1>1. /\ inbox # <<>> => /\ inbox[1].by \in Clients /\ inbox = <<inbox[1]>> /\ DOMAIN inbox = {1}
      /\ queue # <<>> => /\ queue[1].by \in Clients /\ queue = <<queue[1]>> /\ DOMAIN queue = {1}
      /\ DOMAIN <<>> = {}
  <2>1. ASSUME NEW q, AtMostOne(q), q # <<>>
        PROVE  q[1].by \in Clients /\ q = <<q[1]>> /\ DOMAIN q = {1}
    BY <2>1 DEF AtMostOne
  <2> QED BY <2>1 DEF BridgeInv, OneByOne
<1>2. inbox # <<>> => ~ (app = "up" /\ queue # <<>>)
  BY DEF BridgeInv, OneByOne, ExInv, AppInv, PipeInv
<1>3. \A c \in Clients : Due(c) <=> \/ inbox # <<>> /\ inbox[1].by = c
                                    \/ app = "up" /\ queue # <<>> /\ queue[1].by = c
  BY <1>1 DEF Due
<1> QED BY <1>1, <1>2, <1>3

----------------------------------------------------------------------------
(* The steps of the application and of the serving thread                    *)

(* Starting and stopping the application.                                    *)
LEMMA AppStepEx ==
  ASSUME BridgeInv, ExInv,
         AppStarts \/ StopBegins \/ StopWakes \/ StopJoins
  PROVE  ExInv'
<1>0. UNCHANGED <<client, ran>>
  BY DEF AppStarts, StopBegins, StopWakes, StopJoins, clientVars
<1>1. AppInv'
  BY DEF ExInv, AppInv, AppStarts, StopBegins, StopWakes, StopJoins
<1>2. PipeInv'
  BY DEF ExInv, AppInv, PipeInv, AppStarts, StopBegins, StopWakes, StopJoins, pipeVars, Connectable
<1>3. WayInv'
  <2>1. app' = "up" => queue' = <<>>
    BY DEF AppStarts, StopBegins, StopWakes, StopJoins
  <2>2. inbox' # <<>> => inbox' = inbox /\ peer' = peer
    BY DEF AppStarts, StopBegins, StopWakes, StopJoins, pipeVars
  <2> QED BY <1>0, <2>1, <2>2 DEF ExInv, WayInv, Here, At
<1>4. AnswerInv'
  <2>1. app' = "up" => server' = "create"
    BY DEF AppStarts, StopBegins, StopWakes, StopJoins
  <2>2. /\ server' = "wait" => server = "wait" /\ pipe = "taken" /\ UNCHANGED peer
        /\ outbox' => outbox /\ pipe = "taken" /\ UNCHANGED peer
    BY DEF ExInv, PipeInv, AppStarts, StopBegins, StopWakes, StopJoins, pipeVars, Connectable
  <2> QED BY <1>0, <2>1, <2>2 DEF ExInv, AnswerInv, At, Served
<1>5. ClientInv'
  <2>1. peer' \in Clients => peer' = peer
    BY BridgeNamesAssumption DEF AppStarts, StopBegins, StopWakes, StopJoins, pipeVars
  <2> QED BY <1>0, <2>1 DEF ExInv, ClientInv, At
<1> QED BY <1>1, <1>2, <1>3, <1>4, <1>5 DEF ExInv

(* The serving thread between two requests.                                  *)
LEMMA ServerStepEx ==
  ASSUME BridgeInv, ExInv,
         ServerCreates \/ ServerLoops \/ ServerConnects \/ ServerAccepts \/ ServerCloses
  PROVE  ExInv'
<1>0. UNCHANGED <<client, ran, app, queue>> /\ server' # "wait"
  BY DEF ServerCreates, ServerLoops, ServerConnects, ServerAccepts, ServerCloses, clientVars
<1>1. AppInv'
  BY <1>0 DEF ExInv, AppInv, ServerCreates, ServerLoops, ServerConnects, ServerAccepts, ServerCloses
<1>2. PipeInv'
  BY DEF ExInv, PipeInv, ServerCreates, ServerLoops, ServerConnects, ServerAccepts, ServerCloses,
         pipeVars
<1>3. WayInv'
  <2>1. app = "up" => queue = <<>>
    BY DEF ServerCreates, ServerLoops, ServerConnects, ServerAccepts, ServerCloses,
           BridgeInv, OneByOne, ExInv, AppInv
  <2>2. inbox' # <<>> => inbox' = inbox /\ peer' = peer
    BY DEF ExInv, PipeInv, ServerCreates, ServerLoops, ServerConnects, ServerAccepts, ServerCloses,
           pipeVars
  <2> QED BY <1>0, <2>1, <2>2 DEF ExInv, WayInv, Here, At
<1>4. AnswerInv'
  <2>1. outbox' => outbox /\ UNCHANGED peer
    BY DEF ServerCreates, ServerLoops, ServerConnects, ServerAccepts, ServerCloses, pipeVars
  <2> QED BY <1>0, <2>1 DEF ExInv, AnswerInv, At, Served
<1>5. ClientInv'
  <2>1. peer' \in Clients => peer' = peer
    BY BridgeNamesAssumption
       DEF ServerCreates, ServerLoops, ServerConnects, ServerAccepts, ServerCloses, pipeVars
  <2> QED BY <1>0, <2>1 DEF ExInv, ClientInv, At
<1> QED BY <1>1, <1>2, <1>3, <1>4, <1>5 DEF ExInv

(* A request read is queued for the owner, or dropped with its client.       *)
LEMMA ServerReadsEx == ASSUME BridgeInv, ExInv, ServerReads PROVE ExInv'
<1>0. UNCHANGED <<client, ran, app, running, peer, pipe, outbox>> /\ server = "read" /\ ~outbox
  BY DEF ServerReads, clientVars, ExInv, PipeInv
<1>1. CASE running /\ inbox # <<>> /\ queue' = queue \o inbox /\ inbox' = <<>> /\ server' = "wait"
  <2>1. queue = <<>> /\ inbox = <<inbox[1]>> /\ Here(inbox[1]) /\ app = "up"
    BY <1>0, <1>1, OneTravels DEF BridgeInv, OneByOne, ExInv, WayInv, AppInv
  <2>2. queue' = inbox
    BY <1>1, <2>1
  <2>3. AppInv'
    BY <1>0, <1>1, <2>1 DEF AppInv
  <2>4. PipeInv'
    BY <1>0, <1>1 DEF ExInv, PipeInv
  <2>5. WayInv'
    BY <1>0, <1>1, <2>1, <2>2 DEF WayInv, Here, At
  <2>6. AnswerInv'
    <3>1. peer \in Clients => At(peer, "reading")
      BY <2>1, BridgeNamesAssumption DEF Here
    <3> QED BY <1>0, <1>1, <2>2, <3>1 DEF AnswerInv, At
  <2>7. ClientInv'
    BY <1>0 DEF ExInv, ClientInv, At
  <2> QED BY <2>3, <2>4, <2>5, <2>6, <2>7 DEF ExInv
<1>2. CASE UNCHANGED <<queue, inbox>> /\ server' = "close"
  BY <1>0, <1>2 DEF ExInv, AppInv, PipeInv, WayInv, Here, AnswerInv, ClientInv, At
<1> QED BY <1>1, <1>2 DEF ServerReads

(* An answer is written to the one who still reads.                          *)
LEMMA ServerWaitsEx == ASSUME BridgeInv, ExInv, ServerWaits PROVE ExInv'
<1>0. /\ UNCHANGED <<client, ran, app, running, queue, ready, peer, pipe, inbox>>
      /\ server = "wait" /\ server' = "close" /\ outbox' = (running /\ peer # Nobody)
      /\ ready \/ ~running
  BY DEF ServerWaits, clientVars
<1>1. outbox' /\ peer \in Clients => At(peer, "reading") /\ Served(peer)
  BY <1>0 DEF BridgeInv, OneByOne, ExInv, AppInv, AnswerInv
<1>2. pipe = "taken" /\ AppInv' /\ WayInv' /\ ClientInv'
  BY <1>0 DEF ExInv, AppInv, PipeInv, WayInv, Here, ClientInv, At
<1>3. PipeInv'
  BY <1>0, <1>2 DEF ExInv, PipeInv
<1>4. AnswerInv'
  BY <1>0, <1>1 DEF AnswerInv, At, Served
<1> QED BY <1>2, <1>3, <1>4 DEF ExInv

(* What was executed stays executed.                                         *)
LEMMA RanGrows ==
  ASSUME Shapes, NEW c \in Clients, NEW n \in Nat, NEW where, ran' = Runs(c, n, where)
  PROVE  /\ \A d \in Clients \ {c} : ran'[d] = ran[d]
         /\ \A i \in DOMAIN ran[c] : i \in DOMAIN ran'[c] /\ ran'[c][i] = ran[c][i]
         /\ \E i \in DOMAIN ran'[c] : ran'[c][i].n = n
<1> DEFINE e == [n |-> n, where |-> where]
<1>1. ran'[c] = Append(ran[c], e) /\ \A d \in Clients \ {c} : ran'[d] = ran[d]
  BY DEF Runs, Shapes
<1>2. PICK S : ran[c] \in Seq(S)
  BY DEF Shapes
<1>3. e.n = n
  OBVIOUS
<1> HIDE DEF e
<1>4. /\ Len(ran[c]) \in Nat /\ DOMAIN ran[c] = 1..Len(ran[c]) /\ DOMAIN ran'[c] = 1..(Len(ran[c]) + 1)
      /\ \A i \in 1..Len(ran[c]) : ran'[c][i] = ran[c][i]
      /\ ran'[c][Len(ran[c]) + 1] = e
  BY <1>1, <1>2
<1> QED BY <1>1, <1>3, <1>4

(* The owner executes what is queued.                                        *)
LEMMA PumpEx ==
  ASSUME BridgeInv, ExInv, BridgePump
  PROVE  ExInv' /\ queue # <<>> /\ queue' = <<>> /\ ran' = Runs(queue[1].by, queue[1].n, "desktop")
         /\ UNCHANGED <<client, app, inbox>> /\ app = "up" /\ queue[1].n \in Nat
<1>0. /\ UNCHANGED <<client, app, running, server, peer, pipe, inbox, outbox>>
      /\ app = "up" /\ queue # <<>>
  BY DEF BridgePump, pipeVars
<1>1. queue = <<queue[1]>> /\ queue[1].by \in Clients
  BY <1>0, OneTravels
<1>2. queue' = <<>> /\ ran' = Runs(queue[1].by, queue[1].n, "desktop")
  BY <1>1 DEF BridgePump
<1>3. queue[1].n \in Nat /\ Here(queue[1])
  BY <1>0 DEF BridgeInv, OneByOne, AtMostOne, ExInv, WayInv
<1>4. \A c \in Clients : Served(c) => Served(c)'
  <2>1. \A c \in Clients : \A i \in DOMAIN ran[c] : i \in DOMAIN ran'[c] /\ ran'[c][i] = ran[c][i]
    BY <1>1, <1>2, <1>3, RanGrows DEF BridgeInv
  <2> QED BY <1>0, <2>1 DEF Served
<1>5. peer \in Clients /\ server = "wait" => Served(peer)'
  <2>1. peer \in Clients => queue[1].by = peer /\ client[peer].n = queue[1].n
    BY <1>3, BridgeNamesAssumption DEF Here
  <2>2. \E i \in DOMAIN ran'[queue[1].by] : ran'[queue[1].by][i].n = queue[1].n
    BY <1>1, <1>2, <1>3, RanGrows DEF BridgeInv
  <2> QED BY <1>0, <2>1, <2>2 DEF Served
<1>6. AppInv' /\ PipeInv' /\ WayInv' /\ ClientInv'
  BY <1>0, <1>2 DEF ExInv, AppInv, PipeInv, WayInv, Here, ClientInv, At
<1>7. AnswerInv'
  BY <1>0, <1>4, <1>5 DEF ExInv, AnswerInv, At
<1> QED BY <1>0, <1>2, <1>3, <1>6, <1>7 DEF ExInv

----------------------------------------------------------------------------
(* The steps of a stdio server                                               *)

(* One that is not reading from the pipe goes on, and holds nothing there.   *)
LEMMA AwayEx ==
  ASSUME BridgeInv, ExInv, NEW c \in Clients, UNCHANGED <<appVars, pipeVars>>,
         ~At(c, "dead"), ~(At(c, "reading") /\ peer = c),
         \A d \in Clients \ {c} : client'[d] = client[d] /\ ran'[d] = ran[d],
         client'[c].pc \in {"idle", "waiting", "opening", "opened", "reading"},
         client'[c].route \in {"undecided", "desktop", "headless"},
         client'[c].route = "headless" => client'[c].pc = "idle"
  PROVE  ExInv'
<1>1. AppInv' /\ PipeInv'
  BY DEF ExInv, AppInv, PipeInv, appVars, pipeVars
<1>2. ASSUME NEW r, r.by \in Clients, Here(r) PROVE Here(r)' /\ r.by # c
  <2>1. ASSUME r.by = c PROVE FALSE
    BY <1>2, <2>1 DEF Here
  <2> QED BY <1>2, <2>1 DEF Here, At, pipeVars
<1>3. WayInv'
  BY <1>2, OneTravels DEF ExInv, WayInv, appVars, pipeVars
<1>4. AnswerInv'
  BY DEF ExInv, AnswerInv, At, Served, appVars, pipeVars
<1>5. ClientInv'
  BY DEF ExInv, ClientInv, At, pipeVars
<1> QED BY <1>1, <1>3, <1>4, <1>5 DEF ExInv

(* The fields of a client that goes somewhere, its route among them.         *)
LEMMA Routes ==
  ASSUME Shapes, NEW c \in Clients, NEW x, NEW y
  PROVE  /\ client' = [client EXCEPT ![c].pc = x] => client'[c].route = client[c].route
         /\ client' = [client EXCEPT ![c].pc = x, ![c].route = y] => client'[c].route = y
         /\ client' = [client EXCEPT ![c].n = @ + 1, ![c].pc = x] => client'[c].route = client[c].route
         /\ client' = [client EXCEPT ![c].pc = x, ![c].mode = y] =>
              /\ DOMAIN client' = Clients /\ \A d \in Clients \ {c} : client'[d] = client[d]
              /\ client'[c].pc = x /\ client'[c].n = client[c].n /\ client'[c].route = client[c].route
BY DEF Shapes

(* An execution is one client's.                                             *)
LEMMA RunsElse ==
  ASSUME Shapes, NEW c \in Clients, NEW n, NEW where, ran' = ran \/ ran' = Runs(c, n, where)
  PROVE  \A d \in Clients \ {c} : ran'[d] = ran[d]
BY DEF Shapes, Runs

(* A server reads a request from its client.                                 *)
LEMMA ReadsEx == ASSUME BridgeInv, ExInv, NEW c \in Clients, Reads(c) PROVE ExInv'
<1>1. /\ At(c, "idle") /\ UNCHANGED <<appVars, pipeVars>> /\ Shapes /\ ClientInv
      /\ ran' = ran \/ ran' = Runs(c, client[c].n + 1, "headless")
  BY DEF Reads, BridgeInv, ExInv
<1>2. \A d \in Clients \ {c} : ran'[d] = ran[d]
  BY <1>1, RunsElse
<1> DEFINE s == IF client[c].route = "headless" THEN "idle" ELSE "waiting"
<1>3. client' = [client EXCEPT ![c].n = @ + 1, ![c].pc = s]
  BY DEF Reads
<1> HIDE DEF s
<1>4. /\ client'[c].pc = s /\ client'[c].route = client[c].route
      /\ \A d \in Clients \ {c} : client'[d] = client[d]
  BY <1>1, <1>3, Gets, Routes
<1> QED BY <1>1, <1>2, <1>4, AwayEx DEF ClientInv, At, s

(* One that cannot forward reports it or falls back.                         *)
LEMMA NotForwardedEx ==
  ASSUME BridgeInv, ExInv, NEW c \in Clients, client[c].pc \in {"waiting", "opening"},
         NotForwarded(c), UNCHANGED <<appVars, pipeVars>>
  PROVE  ExInv'
<1>1. Shapes /\ ClientInv /\ (ran' = ran \/ ran' = Runs(c, client[c].n, "headless"))
  BY DEF NotForwarded, BridgeInv, ExInv
<1>2. \A d \in Clients \ {c} : ran'[d] = ran[d]
  BY <1>1, RunsElse
<1> DEFINE y == IF client[c].route = "undecided" /\ client[c].mode # "app" THEN "headless"
                ELSE client[c].route
<1>3. client' = [client EXCEPT ![c].pc = "idle", ![c].route = y]
  BY DEF NotForwarded
<1> HIDE DEF y
<1>4. /\ client'[c].pc = "idle" /\ client'[c].route = y
      /\ \A d \in Clients \ {c} : client'[d] = client[d]
  BY <1>1, <1>3, Gets, Routes
<1> QED BY <1>1, <1>2, <1>4, AwayEx DEF ClientInv, At, y

(* It gives up, or goes on to the pipe.                                      *)
LEMMA GoesEx ==
  ASSUME BridgeInv, ExInv, NEW c \in Clients, NEW s \in {"idle", "opening"}, Goes(c, s),
         UNCHANGED <<appVars, pipeVars, ran>>,
         client[c].pc \in {"waiting", "opened", "reading"}, peer = c => At(c, "opened")
  PROVE  ExInv'
<1>1. Shapes /\ ClientInv
  BY DEF BridgeInv, ExInv
<1>2. /\ client'[c].pc = s /\ client'[c].route = client[c].route
      /\ \A d \in Clients \ {c} : client'[d] = client[d]
  BY <1>1, Gets, Routes DEF Goes
<1> QED BY <1>1, <1>2, AwayEx DEF ClientInv, At

(* The pipe is opened by one server at a time.                               *)
LEMMA OpensEx == ASSUME BridgeInv, ExInv, NEW c \in Clients, ClientOpens(c) PROVE ExInv'
<1>1. /\ At(c, "opening") /\ pipe # "taken" /\ pipe' = "taken" /\ peer' = c
      /\ UNCHANGED <<appVars, inbox, outbox, ran>> /\ Shapes /\ ClientInv
  BY DEF ClientOpens, Connectable, BridgeInv, ExInv
<1>2. /\ client'[c].pc = "opened" /\ client'[c].route = client[c].route
      /\ \A d \in Clients \ {c} : client'[d] = client[d]
  BY <1>1, Gets, Routes DEF Goes, ClientOpens
<1>3. inbox = <<>> /\ ~outbox /\ server \notin {"read", "wait", "close"}
  BY <1>1 DEF ExInv, PipeInv
<1>4. app = "up" => queue = <<>>
  BY <1>3 DEF ExInv, AppInv, BridgeInv, OneByOne
<1>5. AppInv' /\ WayInv' /\ AnswerInv'
  BY <1>1, <1>3, <1>4 DEF ExInv, AppInv, WayInv, AnswerInv, appVars
<1>6. PipeInv'
  <2>1. server \notin {"create", "ended"}
    BY <1>1 DEF ExInv, PipeInv, ClientOpens, Connectable
  <2> QED BY <1>1, <1>3, <2>1 DEF PipeInv, appVars
<1>7. ClientInv'
  BY <1>1, <1>2 DEF ClientInv, At
<1> QED BY <1>5, <1>6, <1>7 DEF ExInv

(* The request goes into the pipe if the server is its peer.                 *)
LEMMA WritesEx ==
  ASSUME BridgeInv, ExInv, NEW c \in Clients, ClientWrites(c), peer = c
  PROVE  ExInv' /\ inbox = <<>> /\ ran' = ran
         /\ client'[c].pc = "reading" /\ client'[c].n = client[c].n
<1>1. /\ At(c, "opened") /\ inbox' = <<Request(c)>> /\ Goes(c, "reading")
      /\ UNCHANGED <<appVars, pipe, peer, outbox, ran>> /\ Shapes /\ ClientInv
  BY DEF ClientWrites, BridgeInv, ExInv
<1>2. /\ client'[c].pc = "reading" /\ client'[c].route = client[c].route /\ client'[c].n = client[c].n
      /\ \A d \in Clients \ {c} : client'[d] = client[d]
  BY <1>1, Gets, Routes DEF Goes
<1>3. pipe = "taken" /\ ~outbox /\ server # "wait"
  BY <1>1, BridgeNamesAssumption DEF ExInv, PipeInv, AnswerInv, At
<1>4. \A r : ~Here(r)
  BY <1>1, BridgeNamesAssumption DEF Here, At
<1>5. inbox = <<>> /\ (app = "up" => queue = <<>>)
  BY <1>4 DEF ExInv, WayInv
<1>6. inbox'[1].by = c /\ inbox'[1].n = client[c].n
  BY <1>1 DEF Request
<1>7. AppInv' /\ PipeInv'
  BY <1>1, <1>3 DEF ExInv, AppInv, PipeInv, appVars
<1>8. WayInv'
  BY <1>1, <1>2, <1>5, <1>6 DEF WayInv, Here, At, appVars
<1>9. AnswerInv'
  BY <1>1, <1>3 DEF AnswerInv, appVars
<1>10. ClientInv'
  BY <1>1, <1>2 DEF ExInv, ClientInv, At
<1> QED BY <1>1, <1>2, <1>5, <1>7, <1>8, <1>9, <1>10 DEF ExInv

(* The answer is read, and the instance has no peer any more.                *)
LEMMA AnsweredEx ==
  ASSUME BridgeInv, ExInv, NEW c \in Clients, ClientAnswered(c)
  PROVE  ExInv' /\ Served(c)
<1>1. /\ At(c, "reading") /\ peer = c /\ outbox /\ ~outbox'
      /\ UNCHANGED <<appVars, pipe, peer, inbox, ran>> /\ Shapes /\ ClientInv
  BY DEF ClientAnswered, Throws, BridgeInv, ExInv
<1>2. /\ client'[c].pc = "idle" /\ client'[c].route \in {"desktop", client[c].route}
      /\ \A d \in Clients \ {c} : client'[d] = client[d]
  <2>1. CASE Throws(c)
    <3>1. Goes(c, "idle") BY <2>1 DEF Throws
    <3> QED BY <1>1, <3>1, Gets, Routes DEF Goes
  <2>2. CASE ~Throws(c)
    <3>1. client' = [client EXCEPT ![c].pc = "idle", ![c].route = "desktop"]
      BY <2>2 DEF ClientAnswered
    <3>2. Shapes BY <1>1
    <3> QED BY <3>1, <3>2, GetsRoute, Routes
  <2> QED BY <2>1, <2>2
<1>3. Served(c) /\ server = "close"
  BY <1>1 DEF ExInv, AnswerInv, PipeInv
<1>4. app = "up" => queue = <<>>
  BY <1>3 DEF ExInv, AppInv, BridgeInv, OneByOne
<1>5. inbox = <<>>
  <2> SUFFICES ASSUME inbox # <<>> PROVE FALSE
    OBVIOUS
  <2>1. Here(inbox[1]) /\ inbox = <<inbox[1]>> /\ inbox[1].by \in Clients
    BY OneTravels DEF ExInv, WayInv
  <2>2. inbox[1].by = c /\ inbox[1].n = client[c].n
    BY <1>1, <2>1, BridgeNamesAssumption DEF Here
  <2>3. DOMAIN inbox = {1}
    BY <2>1
  <2>4. client[c].n \in In(inbox, c) /\ client[c].n \in Ran(c)
    BY <1>3, <2>2, <2>3 DEF In, Ran, Served
  <2> QED BY <2>4 DEF BridgeInv, OnePlace
<1>6. AppInv' /\ PipeInv' /\ WayInv' /\ AnswerInv'
  BY <1>1, <1>3, <1>4, <1>5 DEF ExInv, AppInv, PipeInv, WayInv, AnswerInv, appVars
<1>7. ClientInv'
  BY <1>1, <1>2 DEF ExInv, ClientInv, At
<1> QED BY <1>3, <1>6, <1>7 DEF ExInv

(* A server dies wherever it is.                                             *)
LEMMA DiesEx == ASSUME BridgeInv, ExInv, NEW c \in Clients, ClientDies(c) PROVE ExInv'
<1>1. /\ ~At(c, "dead") /\ peer' = (IF peer = c THEN Nobody ELSE peer)
      /\ UNCHANGED <<appVars, pipe, inbox, outbox, ran>> /\ Shapes /\ ClientInv
  BY DEF ClientDies, BridgeInv, ExInv
<1>2. /\ client'[c].pc = "dead" /\ client'[c].route = client[c].route /\ client'[c].n = client[c].n
      /\ \A d \in Clients \ {c} : client'[d] = client[d]
  BY <1>1, Routes DEF ClientDies
<1>3. AppInv' /\ PipeInv'
  BY <1>1 DEF ExInv, AppInv, PipeInv, appVars
<1>4. ASSUME NEW r, r.by \in Clients, Here(r) PROVE Here(r)'
  <2>1. CASE r.by = c
    BY <1>1, <1>2, <1>4, <2>1 DEF Here, At
  <2>2. CASE r.by # c
    BY <1>1, <1>2, <1>4, <2>2, BridgeNamesAssumption DEF Here, At
  <2> QED BY <2>1, <2>2
<1>5. WayInv'
  BY <1>1, <1>4, OneTravels DEF ExInv, WayInv, appVars
<1>6. AnswerInv'
  <2>1. peer' \in Clients => peer' = peer /\ peer # c
    BY <1>1, BridgeNamesAssumption
  <2> QED BY <1>1, <1>2, <2>1 DEF ExInv, AnswerInv, At, Served, appVars
<1>7. ClientInv'
  BY <1>1, <1>2, BridgeNamesAssumption DEF ClientInv, At
<1> QED BY <1>3, <1>5, <1>6, <1>7 DEF ExInv

(* Every step of the bridge keeps the invariant.                             *)
LEMMA ExStep == ASSUME BridgeInv, ExInv, [BridgeNext]_bridgeVars PROVE ExInv'
<1>1. CASE UNCHANGED bridgeVars
  BY <1>1 DEF bridgeVars, ExInv, AppInv, PipeInv, WayInv, Here, AnswerInv, Served, ClientInv, At
<1>2. ASSUME NEW c \in Clients, Reads(c) \/ Forward(c) \/ ClientDies(c) PROVE ExInv'
  <2>1. CASE ClientFindsNone(c) \/ ClientBeaten(c)
    BY <2>1, NotForwardedEx DEF ClientFindsNone, ClientBeaten, At
  <2>2. CASE ClientFinds(c)
    <3>1. peer # c
      BY <2>2, BridgeNamesAssumption DEF ClientFinds, Connectable, ExInv, PipeInv
    <3> QED BY <2>2, <3>1, GoesEx DEF ClientFinds, At
  <2>3. CASE ClientWrites(c) /\ peer # c
    BY <2>3, GoesEx DEF ClientWrites, Throws, At, pipeVars
  <2>4. CASE ClientUnanswered(c)
    BY <2>4, GoesEx DEF ClientUnanswered, Throws, At
  <2> QED BY <1>2, <2>1, <2>2, <2>3, <2>4, ReadsEx, OpensEx, WritesEx, AnsweredEx, DiesEx DEF Forward
<1>3. CASE Owner BY <1>3, PumpEx, AppStepEx DEF Owner
<1>4. CASE Server BY <1>4, ServerStepEx, ServerReadsEx, ServerWaitsEx DEF Server
<1> QED BY <1>1, <1>2, <1>3, <1>4, AppStepEx DEF BridgeNext

----------------------------------------------------------------------------
(* Every step is one of Exchange's, or none                                  *)

(* A server that does not move stays in its stage.                           *)
LEMMA StageStays ==
  ASSUME NEW d \in Clients, client'[d].pc = client[d].pc, client'[d].n = client[d].n,
         ran'[d] = ran[d], At(d, "dead") => (Due(d)' <=> Due(d))
  PROVE  Stage(d)' = Stage(d)
<1>1. Served(d)' = Served(d)
  BY DEF Served
<1> QED BY <1>1 DEF Stage, At

(* One stage changes: the map of the stages is what Exchange says.           *)
LEMMA Becoming ==
  ASSUME NEW c \in Clients, NEW s, Stage(c)' = s, \A d \in Clients \ {c} : Stage(d)' = Stage(d)
  PROVE  X!Becomes(c, s)
<1> DEFINE S == [d \in Clients |-> Stage(d)]
           T == [d \in Clients |-> Stage(d)']
<1>1. T = [S EXCEPT ![c] = s]
  OBVIOUS
<1> QED BY <1>1 DEF X!Becomes

(* The numbers and the routes, one of which may change.                      *)
LEMMA Numbering ==
  ASSUME NEW c \in Clients, \A d \in Clients \ {c} : client'[d] = client[d]
  PROVE  /\ [d \in Clients |-> client[d].n]' = [[d \in Clients |-> client[d].n] EXCEPT ![c] = client'[c].n]
         /\ [d \in Clients |-> client[d].route]'
              = [[d \in Clients |-> client[d].route] EXCEPT ![c] = client'[c].route]
         /\ client'[c].n = client[c].n => UNCHANGED [d \in Clients |-> client[d].n]
         /\ client'[c].route = client[c].route => UNCHANGED [d \in Clients |-> client[d].route]
OBVIOUS

(* The stages of a living client.                                            *)
LEMMA Stages ==
  ASSUME BridgeInv, NEW c \in Clients
  PROVE  /\ client[c].pc = "idle" => Stage(c) = "idle"
         /\ client[c].pc \in {"waiting", "opening", "opened"} => Stage(c) = "asked" /\ ~Served(c)
         /\ client[c].pc = "reading" => Stage(c) = IF Served(c) THEN "served" ELSE "asked"
         /\ client[c].pc = "dead" => Stage(c) = IF Due(c) THEN "orphaned" ELSE "dead"
<1>1. client[c].pc \in {"waiting", "opening", "opened"} => ~Served(c)
  BY DEF BridgeInv, Numbered, Gone, Ran, Served
<1> QED BY <1>1 DEF Stage, At

(* Nothing is executed, and a request at most dropped.                       *)
LEMMA Drops ==
  ASSUME BridgeInv, ExInv, UNCHANGED <<client, ran>>, \A d \in Clients : Due(d)' => Due(d)
  PROVE  [X!ExchangeNext]_(X!vars)
<1>1. CASE \E c \in Clients : At(c, "dead") /\ Due(c) /\ ~Due(c)'
  <2>1. PICK c \in Clients : At(c, "dead") /\ Due(c) /\ ~Due(c)'
    BY <1>1
  <2>2. \A d \in Clients \ {c} : ~Due(d)
    BY <2>1, OneTravels
  <2>3. \A d \in Clients \ {c} : Stage(d)' = Stage(d)
    BY <2>2, StageStays
  <2>4. Stage(c) = "orphaned" /\ Stage(c)' = "dead"
    BY <2>1 DEF Stage, At
  <2>5. X!Becomes(c, "dead")
    BY <2>3, <2>4, Becoming
  <2>6. X!Forget(c)
    BY <2>4, <2>5 DEF X!Forget
  <2> QED BY <2>6 DEF X!ExchangeNext
<1>2. CASE \A c \in Clients : At(c, "dead") => (Due(c)' <=> Due(c))
  <2>1. \A c \in Clients : Stage(c)' = Stage(c)
    BY <1>2, StageStays
  <2>2. UNCHANGED X!vars
    BY <2>1 DEF X!vars
  <2> QED BY <2>2
<1> QED BY <1>1, <1>2

(* The other steps of the application and the serving thread: at most a dead client's request is dropped.*)
LEMMA AppDrops ==
  ASSUME BridgeInv, ExInv,
         \/ AppStarts \/ StopBegins \/ StopWakes \/ StopJoins \/ ServerCreates \/ ServerLoops
         \/ ServerConnects \/ ServerAccepts \/ ServerReads \/ ServerWaits \/ ServerCloses
  PROVE  [X!ExchangeNext]_(X!vars)
<1>0. DOMAIN <<>> = {}
  OBVIOUS
<1>1. UNCHANGED <<client, ran>>
  BY DEF AppStarts, StopBegins, StopWakes, StopJoins, ServerCreates, ServerLoops, ServerConnects,
         ServerAccepts, ServerReads, ServerWaits, ServerCloses, clientVars
<1>2. CASE AppStarts \/ StopBegins \/ StopWakes \/ StopJoins
  <2>1. (app' = "up" => queue' = <<>>) /\ inbox' \in {inbox, <<>>}
    BY <1>2 DEF AppStarts, StopBegins, StopWakes, StopJoins, pipeVars
  <2>2. \A d \in Clients : Due(d)' => Due(d)
    BY <1>0, <2>1 DEF Due
  <2> QED BY <1>1, <2>2, Drops
<1>3. CASE \/ ServerCreates \/ ServerLoops \/ ServerConnects \/ ServerAccepts \/ ServerWaits
           \/ ServerCloses \/ (ServerReads /\ queue' = queue)
  <2>1. UNCHANGED <<app, queue>> /\ inbox' \in {inbox, <<>>}
    BY <1>3 DEF ServerCreates, ServerLoops, ServerConnects, ServerAccepts, ServerReads, ServerWaits,
                ServerCloses, pipeVars
  <2>2. \A d \in Clients : Due(d)' => Due(d)
    BY <1>0, <2>1 DEF Due
  <2> QED BY <1>1, <2>2, Drops
<1>4. CASE ServerReads /\ queue' # queue
  <2>1. inbox # <<>> /\ queue' = queue \o inbox /\ inbox' = <<>> /\ running /\ server = "read"
    BY <1>4 DEF ServerReads
  <2>2. queue = <<>> /\ inbox = <<inbox[1]>>
    BY <2>1, OneTravels DEF BridgeInv, OneByOne
  <2>3. queue' = inbox
    BY <2>1, <2>2
  <2>4. \A d \in Clients : Due(d)' => Due(d)
    BY <1>0, <2>1, <2>3 DEF Due
  <2> QED BY <1>1, <2>4, Drops
<1> QED BY <1>2, <1>3, <1>4

(* The owner's pump serves the client, if it still waits.                    *)
LEMMA PumpServes == ASSUME BridgeInv, ExInv, BridgePump PROVE X!ExchangeNext
<1>0. queue[1].by \in Clients /\ queue[1].n \in Nat
  BY PumpEx, OneTravels
<1> PICK c \in Clients, n \in Nat : c = queue[1].by /\ n = queue[1].n
  BY <1>0
<1>1. /\ queue # <<>> /\ queue' = <<>> /\ ran' = Runs(c, n, "desktop")
      /\ UNCHANGED <<client, app, inbox>> /\ app = "up"
  BY PumpEx
<1>2. /\ queue = <<queue[1]>> /\ inbox = <<>> /\ Due(c)
      /\ \A d \in Clients \ {c} : ~Due(d)
  BY <1>1, OneTravels
<1>3. \A d \in Clients : ~Due(d)'
  <2>1. inbox' = <<>> /\ queue' = <<>> /\ DOMAIN <<>> = {}
    BY <1>1, <1>2
  <2> QED BY <2>1 DEF Due
<1>4. Here(queue[1])
  BY <1>1 DEF ExInv, WayInv
<1>5. client[c].n = n /\ (At(c, "dead") \/ At(c, "reading"))
  BY <1>4 DEF Here
<1>6. n \notin Ran(c)
  <2>1. DOMAIN queue = {1}
    BY <1>2
  <2>2. n \in In(queue, c)
    BY <2>1 DEF In
  <2> QED BY <1>2, <2>2 DEF BridgeInv, OnePlace
<1>7. ~Served(c) /\ Served(c)' /\ \A d \in Clients \ {c} : ran'[d] = ran[d]
  <2>1. /\ \A d \in Clients \ {c} : ran'[d] = ran[d]
        /\ \E i \in DOMAIN ran'[c] : ran'[c][i].n = n
    BY <1>1, <1>2, RanGrows DEF BridgeInv
  <2>2. ~Served(c)
    BY <1>5, <1>6 DEF Served, Ran
  <2>3. Served(c)'
    BY <1>1, <1>5, <2>1 DEF Served
  <2> QED BY <2>1, <2>2, <2>3
<1>8. \A d \in Clients \ {c} : Stage(d)' = Stage(d)
  BY <1>1, <1>2, <1>3, <1>7, StageStays
<1>9. \A s : Stage(c)' = s => X!Becomes(c, s)
  BY <1>2, <1>8, Becoming
<1>10. X!Executed(c, [d \in Clients |-> client[d].n][c], "desktop")
  BY <1>1, <1>2, <1>5 DEF X!Executed, Runs
<1>11. /\ UNCHANGED [d \in Clients |-> client[d].n]
       /\ UNCHANGED [d \in Clients |-> client[d].route]
  BY <1>1
<1>12. \/ Stage(c) = "orphaned" /\ Stage(c)' = "dead"
       \/ Stage(c) = "asked" /\ Stage(c)' = "served"
  BY <1>1, <1>2, <1>3, <1>5, <1>7 DEF Stage, At
<1>13. X!Serve(c)
  BY <1>2, <1>9, <1>10, <1>11, <1>12 DEF X!Serve
<1> QED BY <1>2, <1>13 DEF X!ExchangeNext

(* Reading a request is Ask.                                                 *)
LEMMA ReadsAsks == ASSUME BridgeInv, ExInv, NEW c \in Clients, Reads(c) PROVE X!ExchangeNext
<1>1. /\ client[c].pc = "idle" /\ UNCHANGED <<app, queue, inbox>> /\ Shapes /\ client[c].n \in Nat
      /\ IF client[c].route = "headless" THEN ran' = Runs(c, client[c].n + 1, "headless") ELSE ran' = ran
  BY DEF Reads, At, BridgeInv, Shapes, appVars, pipeVars
<1> DEFINE s == IF client[c].route = "headless" THEN "idle" ELSE "waiting"
<1>2. client' = [client EXCEPT ![c].n = @ + 1, ![c].pc = s]
  BY DEF Reads
<1> HIDE DEF s
<1>3. /\ client'[c].pc = s /\ client'[c].n = client[c].n + 1 /\ client'[c].route = client[c].route
      /\ \A d \in Clients \ {c} : client'[d] = client[d]
  BY <1>1, <1>2, Gets, Routes
<1>4. \A d \in Clients \ {c} : ran'[d] = ran[d]
  BY <1>1, RunsElse
<1>5. \A d \in Clients \ {c} : Stage(d)' = Stage(d)
  BY <1>1, <1>3, <1>4, StageStays DEF Due
<1>6. Stage(c) = "idle"
  BY <1>1, Stages
<1>7. /\ [d \in Clients |-> client[d].n]'
            = [[d \in Clients |-> client[d].n] EXCEPT ![c] = client'[c].n]
      /\ UNCHANGED [d \in Clients |-> client[d].route]
  BY <1>3, Numbering
<1>8. [d \in Clients |-> client[d].n]'
        = [[d \in Clients |-> client[d].n] EXCEPT ![c] = @ + 1]
  BY <1>3, <1>7
<1>9. CASE client[c].route = "headless"
  <2>1. Stage(c)' = "idle"
    BY <1>3, <1>9 DEF Stage, At, s
  <2>2. \A d \in Clients : Stage(d)' = Stage(d)
    BY <1>5, <1>6, <2>1
  <2>3. UNCHANGED [d \in Clients |-> Stage(d)]
    BY <2>2
  <2>4. X!Executed(c, [d \in Clients |-> client[d].n][c] + 1, "headless")
    BY <1>1, <1>9 DEF X!Executed, Runs
  <2>5. X!Ask(c)
    BY <1>6, <1>7, <1>8, <1>9, <2>3, <2>4 DEF X!Ask
  <2> QED BY <2>5 DEF X!ExchangeNext
<1>10. CASE client[c].route # "headless"
  <2>1. BridgeInv'
    BY BridgeStep DEF BridgeNext
  <2>2. client'[c].pc = "waiting"
    BY <1>3, <1>10 DEF s
  <2>3. Stage(c)' = "asked"
    <3>1. ~Served(c)'
      BY <2>1, <2>2 DEF BridgeInv, Numbered, Gone, Ran, Served
    <3> QED BY <2>2, <3>1 DEF Stage, At
  <2>4. X!Becomes(c, "asked")
    BY <1>5, <2>3, Becoming
  <2>5. X!Ask(c)
    BY <1>1, <1>6, <1>7, <1>8, <1>10, <2>4 DEF X!Ask
  <2> QED BY <2>5 DEF X!ExchangeNext
<1> QED BY <1>9, <1>10

(* A client whose request was not taken is told so, or falls back.           *)
LEMMA NotForwardedFails ==
  ASSUME BridgeInv, ExInv, NEW c \in Clients, client[c].pc \in {"waiting", "opening"},
         NotForwarded(c), UNCHANGED <<appVars, pipeVars>>
  PROVE  X!ExchangeNext
<1> DEFINE own == client[c].route = "undecided" /\ client[c].mode # "app"
           y == IF own THEN "headless" ELSE client[c].route
<1>1. /\ IF own THEN ran' = Runs(c, client[c].n, "headless") ELSE ran' = ran
      /\ client' = [client EXCEPT ![c].pc = "idle", ![c].route = y]
      /\ UNCHANGED <<app, queue, inbox>> /\ Shapes
  BY DEF NotForwarded, BridgeInv, appVars, pipeVars
<1> HIDE DEF y
<1>2. /\ client'[c].pc = "idle" /\ client'[c].n = client[c].n /\ client'[c].route = y
      /\ \A d \in Clients \ {c} : client'[d] = client[d]
  BY <1>1, Gets, Routes
<1>3. \A d \in Clients \ {c} : ran'[d] = ran[d]
  BY <1>1, RunsElse
<1>4. \A d \in Clients \ {c} : Stage(d)' = Stage(d)
  BY <1>1, <1>2, <1>3, StageStays DEF Due
<1>5. Stage(c) = "asked" /\ Stage(c)' = "idle"
  BY <1>2, Stages DEF Stage, At
<1>6. X!Becomes(c, "idle")
  BY <1>4, <1>5, Becoming
<1>7. /\ UNCHANGED [d \in Clients |-> client[d].n]
      /\ [d \in Clients |-> client[d].route]'
            = [[d \in Clients |-> client[d].route] EXCEPT ![c] = y]
      /\ y = client[c].route => UNCHANGED [d \in Clients |-> client[d].route]
  BY <1>2, Numbering
<1>8. CASE own
  <2>1. X!Executed(c, [d \in Clients |-> client[d].n][c], "headless")
    BY <1>1, <1>8 DEF X!Executed, Runs
  <2>2. y = "headless"
    BY <1>8 DEF y
  <2>3. X!FallBack(c)
    BY <1>5, <1>6, <1>7, <1>8, <2>1, <2>2 DEF X!FallBack
  <2> QED BY <2>3 DEF X!ExchangeNext
<1>9. CASE ~own
  <2>1. y = client[c].route /\ ran' = ran
    BY <1>1, <1>9 DEF y
  <2>2. X!Fail(c)
    BY <1>5, <1>6, <1>7, <2>1 DEF X!Fail
  <2> QED BY <2>2 DEF X!ExchangeNext
<1> QED BY <1>8, <1>9

(* It goes on to the pipe, or is told of a failure.                          *)
LEMMA GoesOnOrFails ==
  ASSUME BridgeInv, ExInv, NEW c \in Clients, NEW s \in {"opening", "opened", "reading", "idle"},
         Goes(c, s), client[c].pc \in {"waiting", "opening", "opened", "reading"}, UNCHANGED ran,
         \A d \in Clients : At(d, "dead") => Due(d)' = Due(d)
  PROVE  [X!ExchangeNext]_(X!vars)
<1>1. /\ client'[c].pc = s /\ client'[c].n = client[c].n /\ client'[c].route = client[c].route
      /\ \A d \in Clients \ {c} : client'[d] = client[d]
  BY Gets, Routes DEF Goes, BridgeInv
<1>2. \A d \in Clients \ {c} : Stage(d)' = Stage(d)
  BY <1>1, StageStays
<1>3. Served(c)' = Served(c) /\ Stage(c) = IF Served(c) THEN "served" ELSE "asked"
  BY <1>1, Stages DEF Served
<1>4. UNCHANGED <<[d \in Clients |-> client[d].n], [d \in Clients |-> client[d].route], ran>>
  BY <1>1, Numbering
<1>5. CASE s = "idle"
  <2>1. Stage(c)' = "idle"
    BY <1>1, <1>5 DEF Stage, At
  <2>2. X!Becomes(c, "idle")
    BY <1>2, <2>1, Becoming
  <2>3. X!Fail(c)
    BY <1>3, <1>4, <2>2 DEF X!Fail
  <2> QED BY <2>3 DEF X!ExchangeNext
<1>6. CASE s # "idle"
  <2>1. Stage(c)' = IF Served(c)' THEN "served" ELSE "asked"
    BY <1>1, <1>6 DEF Stage, At
  <2>2. \A d \in Clients : Stage(d)' = Stage(d)
    BY <1>2, <1>3, <2>1
  <2>3. UNCHANGED [d \in Clients |-> Stage(d)]
    BY <2>2
  <2> QED BY <1>4, <2>3 DEF X!vars
<1> QED BY <1>5, <1>6

(* Reading a response is Answer.                                             *)
LEMMA AnsweredAnswers ==
  ASSUME BridgeInv, ExInv, NEW c \in Clients, ClientAnswered(c), ~Throws(c)
  PROVE  X!ExchangeNext
<1>1. /\ client[c].pc = "reading" /\ UNCHANGED <<app, queue, inbox, ran>> /\ Shapes /\ Served(c)
      /\ client' = [client EXCEPT ![c].pc = "idle", ![c].route = "desktop"]
  BY AnsweredEx DEF ClientAnswered, At, BridgeInv, appVars
<1>2. /\ client'[c].pc = "idle" /\ client'[c].n = client[c].n /\ client'[c].route = "desktop"
      /\ \A d \in Clients \ {c} : client'[d] = client[d]
  BY <1>1, Gets, Routes
<1>3. \A d \in Clients \ {c} : Stage(d)' = Stage(d)
  BY <1>1, <1>2, StageStays DEF Due
<1>4. Stage(c) = "served" /\ Stage(c)' = "idle"
  BY <1>1, <1>2, Stages DEF Stage, At
<1>5. X!Becomes(c, "idle")
  BY <1>3, <1>4, Becoming
<1>6. /\ UNCHANGED [d \in Clients |-> client[d].n]
      /\ [d \in Clients |-> client[d].route]'
            = [[d \in Clients |-> client[d].route] EXCEPT ![c] = "desktop"]
  BY <1>2, Numbering
<1>7. X!Answer(c)
  BY <1>1, <1>4, <1>5, <1>6 DEF X!Answer
<1> QED BY <1>7 DEF X!ExchangeNext

(* The envelope of an error is a failure of a request that was executed.     *)
LEMMA ErrorFails ==
  ASSUME BridgeInv, ExInv, NEW c \in Clients, ClientAnswered(c), Throws(c)
  PROVE  [X!ExchangeNext]_(X!vars)
<1>1. client[c].pc = "reading" /\ Goes(c, "idle") /\ UNCHANGED <<app, queue, inbox, ran>>
  BY DEF ClientAnswered, Throws, At, appVars
<1> QED BY <1>1, GoesOnOrFails DEF Due

(* Dying is Leave.                                                           *)
LEMMA DiesLeaves == ASSUME BridgeInv, ExInv, NEW c \in Clients, ClientDies(c) PROVE X!ExchangeNext
<1>1. /\ client[c].pc # "dead" /\ UNCHANGED <<app, queue, inbox, ran>> /\ Shapes
      /\ client' = [client EXCEPT ![c].pc = "dead", ![c].mode = "app"]
  BY DEF ClientDies, At, BridgeInv, appVars
<1>2. /\ client'[c].pc = "dead" /\ client'[c].n = client[c].n /\ client'[c].route = client[c].route
      /\ \A d \in Clients \ {c} : client'[d] = client[d]
  BY <1>1, Routes
<1>3. (\A d \in Clients \ {c} : Stage(d)' = Stage(d)) /\ Due(c)' = Due(c)
  BY <1>1, <1>2, StageStays DEF Due
<1>4. Stage(c)' = IF Due(c) THEN "orphaned" ELSE "dead"
  BY <1>2, <1>3 DEF Stage, At
<1>5. UNCHANGED <<[d \in Clients |-> client[d].n], [d \in Clients |-> client[d].route], ran>>
  BY <1>1, <1>2, Numbering
<1>6. Stage(c) \in {"idle", "asked", "served"}
  BY <1>1 DEF Stage, At
<1>7. ASSUME Due(c) PROVE Stage(c) = "asked"
  <2>1. \/ inbox # <<>> /\ inbox[1].by = c /\ Here(inbox[1]) /\ DOMAIN inbox = {1}
        \/ queue # <<>> /\ queue[1].by = c /\ Here(queue[1]) /\ DOMAIN queue = {1}
    <3>1. \A q : q = <<q[1]>> => DOMAIN q = {1}
      OBVIOUS
    <3> QED BY <1>7, <3>1, OneTravels DEF ExInv, WayInv
  <2>2. client[c].pc = "reading"
    BY <1>1, <2>1 DEF Here, At
  <2>3. client[c].n \in In(inbox, c) \/ client[c].n \in In(queue, c)
    BY <2>1 DEF In, Here
  <2>4. client[c].n \notin Ran(c)
    BY <2>3 DEF BridgeInv, OnePlace
  <2>5. ~Served(c)
    BY <2>4 DEF Served, Ran
  <2> QED BY <2>2, <2>5, Stages
<1>8. \A s : Stage(c)' = s => X!Becomes(c, s)
  BY <1>3, Becoming
<1>9. X!Leave(c)
  BY <1>4, <1>5, <1>6, <1>7, <1>8 DEF X!Leave
<1> QED BY <1>9 DEF X!ExchangeNext

(* Every step of the bridge is one of Exchange, or a stutter.                *)
LEMMA ExchangeSteps ==
  ASSUME BridgeInv, ExInv, [BridgeNext]_bridgeVars
  PROVE  [X!ExchangeNext]_(X!vars)
<1>1. CASE UNCHANGED bridgeVars
  <2>1. \A d \in Clients : Due(d)' => Due(d)
    BY <1>1 DEF bridgeVars, Due
  <2> QED BY <1>1, <2>1, Drops DEF bridgeVars
<1>2. ASSUME NEW c \in Clients, Reads(c) \/ Forward(c) \/ ClientDies(c)
      PROVE  [X!ExchangeNext]_(X!vars)
  <2>1. CASE ClientFindsNone(c) \/ ClientBeaten(c)
    BY <2>1, NotForwardedFails DEF ClientFindsNone, ClientBeaten, At
  <2>2. CASE ClientFinds(c) \/ ClientOpens(c) \/ ClientUnanswered(c) \/ (ClientWrites(c) /\ peer # c)
    <3>1. \E s \in {"opening", "opened", "idle"} : Goes(c, s)
      BY <2>2 DEF ClientFinds, ClientOpens, ClientUnanswered, ClientWrites, Throws
    <3>2. /\ UNCHANGED <<app, queue, inbox, ran>>
          /\ client[c].pc \in {"waiting", "opening", "opened", "reading"}
      BY <2>2 DEF ClientFinds, ClientOpens, ClientUnanswered, ClientWrites, Throws, At, appVars, pipeVars
    <3>3. \A d \in Clients : Due(d)' = Due(d)
      BY <3>2 DEF Due
    <3> QED BY <3>1, <3>2, <3>3, GoesOnOrFails
  <2>3. CASE ClientWrites(c) /\ peer = c
    <3>1. /\ Goes(c, "reading") /\ inbox' = <<Request(c)>> /\ client[c].pc = "opened"
          /\ UNCHANGED <<app, queue, ran>> /\ inbox = <<>>
      BY <2>3, WritesEx DEF ClientWrites, At, appVars
    <3>2. \A d \in Clients : At(d, "dead") => Due(d)' = Due(d)
      <4>1. DOMAIN inbox' = {1} /\ inbox'[1].by = c /\ DOMAIN inbox = {}
        BY <3>1 DEF Request
      <4>2. \A d \in Clients : At(d, "dead") => d # c
        BY <3>1 DEF At
      <4> QED BY <3>1, <4>1, <4>2 DEF Due
    <3> QED BY <3>1, <3>2, GoesOnOrFails
  <2> QED BY <1>2, <2>1, <2>2, <2>3, ReadsAsks, AnsweredAnswers, ErrorFails, DiesLeaves DEF Forward
<1>3. CASE Owner BY <1>3, PumpServes, AppDrops DEF Owner
<1>4. CASE Server BY <1>4, AppDrops DEF Server
<1> QED BY <1>1, <1>2, <1>3, <1>4, AppDrops DEF BridgeNext

(* The bridge starts as Exchange does.                                       *)
LEMMA ExchangeStarts == ASSUME BridgeInit PROVE X!ExchangeInit
<1>1. \A c \in Clients : \E m \in {"auto", "app"} : client[c] = Start(m)
  BY DEF BridgeInit
<1>2. \A c \in Clients : Stage(c) = "idle" /\ client[c].n = 0 /\ client[c].route = "undecided"
  BY <1>1 DEF Start, Stage, At
<1> QED BY <1>2 DEF BridgeInit, X!ExchangeInit

(* app_bridge.h: whatever dies, stops or starts again, a request is executed *)
(* at most once and only while its client waits for it or is gone, an answer *)
(* is of a request executed, and a server that falls back does so for good,  *)
(* with a request nobody has executed (forward_request_to_app,               *)
(* run_stdio_server, AppMcpBridgeServer::Impl::serve).                       *)
THEOREM RefinesExchange == BridgeSpec => ImplementsExchange
<1> QED BY BridgeBegins, BridgeStep, ExBegins, ExStep, ExchangeStarts, ExchangeSteps, PTL
           DEF BridgeSpec, ImplementsExchange, X!ExchangeSpec

----------------------------------------------------------------------------
(* What follows from keeping them: work is not split between two fleets.     *)

Own(c) == \E i \in DOMAIN ran[c] : ran[c][i].where = "headless"
SplitInv == \A c \in Clients :
              /\ Own(c) => client[c].route = "headless"
              /\ client[c].route = "headless" => Stage(c) \in {"idle", "dead"}
              /\ \A i, j \in DOMAIN ran[c] :
                   i < j /\ ran[c][i].where = "headless" => ran[c][j].where = "headless"

(* What the steps of Exchange do, in the words of the bridge.                *)
LEMMA Became ==
  ASSUME NEW c \in Clients, NEW s, X!Becomes(c, s)
  PROVE  Stage(c)' = s /\ \A d \in Clients \ {c} : Stage(d)' = Stage(d)
<1> DEFINE S == [d \in Clients |-> Stage(d)]
           T == [d \in Clients |-> Stage(d)']
<1>1. T = [S EXCEPT ![c] = s]
  BY DEF X!Becomes
<1>2. \A d \in Clients : T[d] = Stage(d)' /\ T[d] = IF d = c THEN s ELSE Stage(d)
  BY <1>1
<1> HIDE DEF T
<1> QED BY <1>2

(* The same of the routes.                                                   *)
LEMMA RouteOf ==
  ASSUME NEW c \in Clients, NEW y,
         [d \in Clients |-> client[d].route]' = [[d \in Clients |-> client[d].route] EXCEPT ![c] = y]
  PROVE  client'[c].route = y /\ \A d \in Clients \ {c} : client'[d].route = client[d].route
<1> DEFINE S == [d \in Clients |-> client[d].route]
           T == [d \in Clients |-> client'[d].route]
<1>1. T = [S EXCEPT ![c] = y]
  OBVIOUS
<1>2. \A d \in Clients : T[d] = client'[d].route /\ T[d] = IF d = c THEN y ELSE client[d].route
  BY <1>1
<1> HIDE DEF T
<1> QED BY <1>2

(* No route changes.                                                         *)
LEMMA RoutesStay ==
  ASSUME UNCHANGED [d \in Clients |-> client[d].route]
  PROVE  \A d \in Clients : client'[d].route = client[d].route
<1> DEFINE T == [d \in Clients |-> client'[d].route]
<1>1. T = [d \in Clients |-> client[d].route]
  OBVIOUS
<1>2. \A d \in Clients : T[d] = client'[d].route /\ T[d] = client[d].route
  BY <1>1
<1> HIDE DEF T
<1> QED BY <1>2

(* One more execution, by the fleet that may still execute.                  *)
LEMMA OneMoreRan ==
  ASSUME Shapes, SplitInv, NEW c \in Clients, NEW n, NEW where, X!Executed(c, n, where),
         where # "headless" => ~Own(c)
  PROVE  /\ \A d \in Clients \ {c} : ran'[d] = ran[d]
         /\ Own(c)' <=> Own(c) \/ where = "headless"
         /\ \A i, j \in DOMAIN ran'[c] :
              i < j /\ ran'[c][i].where = "headless" => ran'[c][j].where = "headless"
<1> DEFINE e == [n |-> n, where |-> where]
<1>1. ran'[c] = Append(ran[c], e) /\ \A d \in Clients \ {c} : ran'[d] = ran[d]
  BY DEF X!Executed, Shapes
<1>2. PICK S : ran[c] \in Seq(S)
  BY DEF Shapes
<1>3. e.where = where
  OBVIOUS
<1> HIDE DEF e
<1> DEFINE m == Len(ran[c])
<1>4. /\ m \in Nat /\ DOMAIN ran[c] = 1..m /\ DOMAIN ran'[c] = 1..(m + 1)
      /\ \A i \in 1..m : ran'[c][i] = ran[c][i]
      /\ ran'[c][m + 1] = e
  BY <1>1, <1>2
<1> HIDE DEF m
<1>5. \A i \in 1..(m + 1) : i \in 1..m \/ i = m + 1
  BY <1>4
<1>6. Own(c)' <=> Own(c) \/ where = "headless"
  <2>1. Own(c)' => Own(c) \/ where = "headless"
    BY <1>3, <1>4, <1>5 DEF Own
  <2>2. Own(c) => Own(c)'
    BY <1>4 DEF Own
  <2>3. where = "headless" => Own(c)'
    BY <1>3, <1>4 DEF Own
  <2> QED BY <2>1, <2>2, <2>3
<1>7. ASSUME NEW i \in 1..(m + 1), NEW j \in 1..(m + 1), i < j, ran'[c][i].where = "headless"
      PROVE  ran'[c][j].where = "headless"
  <2>1. i \in 1..m /\ ran[c][i].where = "headless"
    BY <1>4, <1>7
  <2>2. Own(c)
    BY <1>4, <2>1 DEF Own
  <2>3. CASE j \in 1..m
    BY <1>4, <1>7, <2>1, <2>3 DEF SplitInv
  <2>4. CASE j = m + 1
    BY <1>3, <1>4, <2>2, <2>4
  <2> QED BY <1>5, <2>3, <2>4
<1> QED BY <1>1, <1>4, <1>6, <1>7

(* Each step of Exchange keeps work whole.                                   *)
LEMMA SplitOne ==
  ASSUME Shapes, SplitInv, NEW c \in Clients,
         \/ X!Ask(c) \/ X!Serve(c) \/ X!Answer(c) \/ X!Fail(c) \/ X!FallBack(c) \/ X!Leave(c)
         \/ X!Forget(c)
  PROVE  SplitInv'
<1>1. SUFFICES /\ \A d \in Clients \ {c} : /\ Stage(d)' = Stage(d) /\ ran'[d] = ran[d]
                                           /\ client'[d].route = client[d].route
               /\ Own(c)' => client'[c].route = "headless"
               /\ client'[c].route = "headless" => Stage(c)' \in {"idle", "dead"}
               /\ \A i, j \in DOMAIN ran'[c] :
                    i < j /\ ran'[c][i].where = "headless" => ran'[c][j].where = "headless"
  <2>1. \A d \in Clients \ {c} : ran'[d] = ran[d] => (Own(d)' <=> Own(d))
    BY DEF Own
  <2> QED BY <2>1 DEF SplitInv
<1>2. \A d \in Clients : /\ [x \in Clients |-> Stage(x)][d] = Stage(d)
                         /\ [x \in Clients |-> client[x].route][d] = client[d].route
  OBVIOUS
<1>3. /\ Own(c) => client[c].route = "headless"
      /\ client[c].route = "headless" => Stage(c) \in {"idle", "dead"}
      /\ \A i, j \in DOMAIN ran[c] : i < j /\ ran[c][i].where = "headless" => ran[c][j].where = "headless"
  BY DEF SplitInv
<1>4. ran' = ran => (Own(c)' <=> Own(c)) /\ \A d \in Clients : ran'[d] = ran[d]
  BY DEF Own
<1>5. CASE X!Ask(c)
  <2>1. CASE /\ client[c].route = "headless" /\ UNCHANGED [d \in Clients |-> Stage(d)]
             /\ X!Executed(c, [d \in Clients |-> client[d].n][c] + 1, "headless")
    <3>1. \A d \in Clients : client'[d].route = client[d].route
      BY <1>5, RoutesStay DEF X!Ask
    <3>2. \A d \in Clients : Stage(d)' = Stage(d)
      <4> DEFINE T == [d \in Clients |-> Stage(d)']
      <4>1. \A d \in Clients : T[d] = Stage(d)' /\ T[d] = Stage(d)
        BY <2>1
      <4> HIDE DEF T
      <4> QED BY <4>1
    <3> QED BY <1>3, <2>1, <3>1, <3>2, OneMoreRan
  <2>2. CASE client[c].route # "headless" /\ X!Becomes(c, "asked") /\ UNCHANGED ran
    <3>1. \A d \in Clients : client'[d].route = client[d].route
      BY <1>5, RoutesStay DEF X!Ask
    <3> QED BY <1>3, <1>4, <2>2, <3>1, Became
  <2> QED BY <1>2, <1>5, <2>1, <2>2 DEF X!Ask
<1>6. CASE X!Serve(c)
  <2>1. PICK s : X!Becomes(c, s)
    BY <1>6 DEF X!Serve
  <2>2. /\ X!Executed(c, [d \in Clients |-> client[d].n][c], "desktop")
        /\ Stage(c) \in {"asked", "orphaned"}
        /\ \A d \in Clients : client'[d].route = client[d].route
    BY <1>2, <1>6, RoutesStay DEF X!Serve
  <2>3. ~Own(c) /\ client[c].route # "headless"
    BY <1>3, <2>2
  <2> QED BY <2>1, <2>2, <2>3, Became, OneMoreRan
<1>7. CASE X!Answer(c)
  <2>1. X!Becomes(c, "idle") /\ Stage(c) = "served" /\ UNCHANGED ran
    BY <1>2, <1>7 DEF X!Answer
  <2>2. client'[c].route = "desktop" /\ \A d \in Clients \ {c} : client'[d].route = client[d].route
    BY <1>7, RouteOf DEF X!Answer
  <2> QED BY <1>3, <1>4, <2>1, <2>2, Became
<1>8. CASE X!Fail(c)
  <2>1. X!Becomes(c, "idle") /\ UNCHANGED ran
    BY <1>8 DEF X!Fail
  <2>2. \A d \in Clients : client'[d].route = client[d].route
    BY <1>8, RoutesStay DEF X!Fail
  <2> QED BY <1>3, <1>4, <2>1, <2>2, Became
<1>9. CASE X!FallBack(c)
  <2>1. X!Becomes(c, "idle") /\ X!Executed(c, [d \in Clients |-> client[d].n][c], "headless")
    BY <1>9 DEF X!FallBack
  <2>2. client'[c].route = "headless" /\ \A d \in Clients \ {c} : client'[d].route = client[d].route
    BY <1>9, RouteOf DEF X!FallBack
  <2> QED BY <2>1, <2>2, Became, OneMoreRan
<1>10. CASE X!Leave(c)
  <2>1. /\ \/ X!Becomes(c, "dead")
           \/ Stage(c) = "asked" /\ X!Becomes(c, "orphaned")
        /\ UNCHANGED ran
    BY <1>2, <1>10 DEF X!Leave
  <2>2. \A d \in Clients : client'[d].route = client[d].route
    BY <1>10, RoutesStay DEF X!Leave
  <2>3. CASE X!Becomes(c, "dead")
    BY <1>3, <1>4, <2>1, <2>2, <2>3, Became
  <2>4. CASE Stage(c) = "asked" /\ X!Becomes(c, "orphaned")
    BY <1>3, <1>4, <2>1, <2>2, <2>4, Became
  <2> QED BY <2>1, <2>3, <2>4
<1>11. CASE X!Forget(c)
  <2>1. X!Becomes(c, "dead") /\ UNCHANGED ran
    BY <1>11 DEF X!Forget
  <2>2. \A d \in Clients : client'[d].route = client[d].route
    BY <1>11, RoutesStay DEF X!Forget
  <2> QED BY <1>3, <1>4, <2>1, <2>2, Became
<1> QED BY <1>5, <1>6, <1>7, <1>8, <1>9, <1>10, <1>11

(* So does every step.                                                       *)
LEMMA SplitStep ==
  ASSUME Shapes, SplitInv, [X!ExchangeNext]_(X!vars)
  PROVE  SplitInv'
<1>1. CASE UNCHANGED X!vars
  <2>1. UNCHANGED [d \in Clients |-> client[d].route] /\ UNCHANGED ran
    BY <1>1 DEF X!vars
  <2>2. \A d \in Clients : Stage(d)' = Stage(d)
    <3> DEFINE T == [d \in Clients |-> Stage(d)']
    <3>1. T = [d \in Clients |-> Stage(d)]
      BY <1>1 DEF X!vars
    <3>2. \A d \in Clients : T[d] = Stage(d)' /\ T[d] = Stage(d)
      BY <3>1
    <3> HIDE DEF T
    <3> QED BY <3>2
  <2>3. \A d \in Clients : client'[d].route = client[d].route
    BY <2>1, RoutesStay
  <2> QED BY <2>1, <2>2, <2>3 DEF SplitInv, Own
<1>2. CASE X!ExchangeNext
  BY <1>2, SplitOne DEF X!ExchangeNext
<1> QED BY <1>1, <1>2

(* At the start nothing was executed.                                        *)
LEMMA SplitBegins == ASSUME BridgeInit PROVE SplitInv
<1>1. \A c \in Clients : \E m \in {"auto", "app"} : client[c] = Start(m)
  BY DEF BridgeInit
<1> QED BY <1>1 DEF BridgeInit, SplitInv, Own, Start

(* app_bridge.h: callers do not split work into a second, headless fleet:    *)
(* once a server's own fleet has executed a request, the application         *)
(* executes none of this client's, whatever was still on its way.            *)
THEOREM WorkStaysWhole == BridgeSpec => []WorkNotSplit
<1>1. SplitInv => WorkNotSplit
  BY DEF SplitInv, WorkNotSplit
<1>2. BridgeInv => Shapes
  BY DEF BridgeInv
<1> QED BY <1>1, <1>2, BridgeBegins, BridgeStep, ExBegins, ExStep, ExchangeSteps, SplitBegins, SplitStep,
           PTL DEF BridgeSpec

----------------------------------------------------------------------------
(* Devices. Who is inside get_or_create has read all the devices there were, *)
(* and not its own; what the game has seen is in the store.                  *)

Store == IF lock = NoBot THEN file ELSE read[lock]
DeviceInv ==
  /\ DOMAIN at = Bots /\ DOMAIN ident = Bots /\ DOMAIN read = Bots /\ lock \in Bots \cup {NoBot}
  /\ \A b \in Bots : at[b] = "write" <=> lock = b
  /\ lock # NoBot => lock \notin DOMAIN read[lock]
  /\ ~lost => \A a \in Bots : ident[a] # 0 => a \in DOMAIN Store /\ Store[a] = ident[a]

Kept == \A b \in Bots : ident[b] # 0 /\ ident'[b] # ident[b] => lost

(* Anything but a step inside get_or_create                                  *)
LEMMA Elsewhere ==
  ASSUME DeviceInv, UNCHANGED devices, NEW b \in Bots, NEW where, To(b, where), at[b] # "write", where # "write"
  PROVE  DeviceInv' /\ Kept
BY DEF DeviceInv, devices, To, Store, Kept

LEMMA DeviceKnown ==
  ASSUME DeviceInv, NEW b \in Bots, Device(b) PROVE DeviceInv' /\ Kept
<1> USE LoginAssumption DEF DeviceInv, Store, Kept
<1>1. lock = NoBot /\ at[b] = "device" BY DEF Device
<1>2. CASE b \in DOMAIN file /\ Shows(b, file) /\ To(b, "apply") /\ UNCHANGED <<file, lock, read, lost>>
  BY <1>1, <1>2 DEF Shows, To
<1>3. CASE /\ b \notin DOMAIN file /\ To(b, "write") /\ lock' = b /\ read' = [read EXCEPT ![b] = file]
           /\ UNCHANGED <<ident, lost>>
  BY <1>1, <1>3 DEF To
<1> QED BY <1>2, <1>3 DEF Device, LooksUp

LEMMA DeviceWritten ==
  ASSUME DeviceInv, NEW b \in Bots, Write(b) PROVE DeviceInv' /\ Kept
<1> USE LoginAssumption DEF DeviceInv
<1>1. at[b] = "write" /\ lock = b /\ b # NoBot /\ b \notin DOMAIN read[b] BY DEF Write
<1>2. DOMAIN file' = DOMAIN read[b] \cup {b} /\ \A a \in DOMAIN read[b] : file'[a] = read[b][a]
  BY <1>1 DEF Write, WithNew
<1>3. ident' = [ident EXCEPT ![b] = file'[b]] BY DEF Write, Shows
<1>4. lock' = NoBot /\ UNCHANGED lost /\ DOMAIN read' = Bots /\ at' = [at EXCEPT ![b] = "apply"]
  BY DEF Write, Unlocks, To
<1>5. ~lost => ident[b] = 0 BY <1>1 DEF Store
<1>6. ~lost => \A a \in Bots : ident'[a] # 0 => a \in DOMAIN file' /\ file'[a] = ident'[a]
  BY <1>1, <1>2, <1>3 DEF Store
<1> QED BY <1>1, <1>3, <1>4, <1>5, <1>6 DEF Store, Kept

LEMMA DeviceLost ==
  ASSUME DeviceInv, NEW b \in Bots, WriteFails(b) PROVE DeviceInv' /\ Kept
BY LoginAssumption DEF DeviceInv, WriteFails, Unlocks, To, Store, Kept

LEMMA DeviceUnread ==
  ASSUME DeviceInv, NEW b \in Bots, LooksInVain(b) PROVE DeviceInv' /\ Kept
<1>1. DOMAIN NoDevices = {} BY DEF NoDevices
<1>2. /\ at[b] = "device" /\ lock = NoBot /\ lost' = TRUE /\ at' = [at EXCEPT ![b] = "write"] /\ lock' = b
      /\ read' = [read EXCEPT ![b] = NoDevices] /\ UNCHANGED ident
  BY DEF LooksInVain, To
<1> QED BY <1>1, <1>2, LoginAssumption DEF DeviceInv, Store, Kept

LEMMA DeviceCrash == ASSUME DeviceInv, Crash PROVE DeviceInv' /\ Kept
<1>1. lock' = NoBot /\ UNCHANGED <<file, ident>> /\ (lost' <=> lost \/ lock # NoBot)
      /\ DOMAIN read' = Bots /\ DOMAIN at' = Bots /\ \A b \in Bots : at'[b] = "off"
  BY DEF Crash, Every
<1> QED BY <1>1, LoginAssumption DEF DeviceInv, Store, Kept

----------------------------------------------------------------------------
(* The pinned exit is the one that minted the token.                         *)

PinInv == /\ DOMAIN at = Bots /\ DOMAIN pin = Bots /\ DOMAIN token = Bots /\ DOMAIN host = Bots
          /\ \A b \in Bots : pin[b] # NoExit => pin[b] = token[b]
FromPin == \A b \in Bots : Arrives(b) /\ pin'[b] # NoExit /\ at[b] # "fetch" => host'[b] = token'[b]

(* Steps that leave token, pin and host as they are, and do not log on       *)
LEMMA PinStays ==
  ASSUME PinInv, UNCHANGED <<token, pin, host>>, NEW b \in Bots, NEW where, To(b, where),
         where = "up" => at[b] = "fetch"
  PROVE  PinInv' /\ FromPin
BY DEF PinInv, To, FromPin, Arrives

LEMMA PinEnds == ASSUME PinInv, NEW b \in Bots, Ends(b) PROVE PinInv' /\ FromPin
BY DEF PinInv, Ends, To, FromPin, Arrives

LEMMA PinApplied == ASSUME PinInv, NEW b \in Bots, Apply(b) PROVE PinInv' /\ FromPin
<1>1. /\ token' = [token EXCEPT ![b] = via[b]]
      /\ pin' = [pin EXCEPT ![b] = IF ByPool(b) THEN via[b] ELSE NoExit]
      /\ at[b] = "apply"
  BY DEF Apply, Repins
<1>2. \/ To(b, "up") /\ Binds(b, pin'[b]) 
      \/ To(b, "source") /\ UNCHANGED host
      \/ To(b, "stranded") /\ Binds(b, pin'[b])
  BY DEF Apply
<1>3. DOMAIN at' = Bots /\ DOMAIN host' = Bots BY <1>2 DEF PinInv, To, Binds
<1>4. PinInv' BY <1>1, <1>3 DEF PinInv
<1>5. FromPin
  <2>1. \A c \in Bots \ {b} : at'[c] = at[c] BY <1>2 DEF To, PinInv
  <2>2. CASE To(b, "up") /\ Binds(b, pin'[b])
    BY <1>1, <2>1, <2>2 DEF Binds, PinInv, FromPin, Arrives
  <2>3. CASE To(b, "source") \/ To(b, "stranded")
    BY <2>1, <2>3 DEF To, PinInv, FromPin, Arrives
  <2> QED BY <1>2, <2>2, <2>3
<1> QED BY <1>4, <1>5

LEMMA PinRedials == ASSUME PinInv, NEW b \in Bots, Redial(b) PROVE PinInv' /\ FromPin
<1>1. UNCHANGED <<token, pin>> /\ host' = [host EXCEPT ![b] = IF pin[b] # NoExit THEN pin[b] ELSE game[b]]
      /\ DOMAIN at' = Bots /\ \A c \in Bots \ {b} : at'[c] = at[c]
  BY DEF Redial, Binds, To, PinInv
<1> QED BY <1>1 DEF PinInv, FromPin, Arrives

LEMMA PinRefreshes == ASSUME PinInv, NEW b \in Bots, Refresh(b) PROVE PinInv' /\ FromPin
<1>1. UNCHANGED <<token, pin>> /\ DOMAIN host' = Bots /\ DOMAIN at' = Bots
      /\ \A c \in Bots : at'[c] = at[c] \/ at'[c] # "up"
  BY DEF Refresh, Binds, To, PinInv
<1> QED BY <1>1 DEF PinInv, FromPin, Arrives

LEMMA PinCrash == ASSUME PinInv, Crash PROVE PinInv' /\ FromPin
BY DEF PinInv, Crash, Every, FromPin, Arrives

----------------------------------------------------------------------------
(* All the steps of a login                                                  *)

LoginInv == DeviceInv /\ PinInv
Fine == LoginInv' /\ Kept /\ FromPin

LEMMA Walking ==
  ASSUME LoginInv, NEW b \in Bots, NEW where, Walks(b, where),
         at[b] # "write", where # "write", where = "up" => at[b] = "fetch"
  PROVE  Fine
BY Elsewhere, PinStays DEF Walks, LoginInv, Fine, logon

LEMMA Ending == ASSUME LoginInv, NEW b \in Bots, Ends(b), at[b] # "write" PROVE Fine
<1>1. To(b, "off") /\ UNCHANGED devices BY DEF Ends
<1> QED BY <1>1, Elsewhere, PinEnds DEF LoginInv, Fine

(* A step of the conversation that leaves devices and logon alone            *)
LEMMA Going ==
  ASSUME LoginInv, UNCHANGED <<devices, logon>>, NEW b \in Bots, NEW where, To(b, where),
         at[b] # "write", where # "write", where = "up" => at[b] = "fetch"
  PROVE  Fine
BY Elsewhere, PinStays DEF LoginInv, Fine, logon

(* and one that leaves the thread where it is, too                           *)
LEMMA Standing == ASSUME LoginInv, UNCHANGED <<at, devices, logon>> PROVE Fine
<1>1. DeviceInv' /\ Kept BY DEF DeviceInv, Store, Kept, devices, LoginInv
<1>2. PinInv' /\ FromPin BY DEF PinInv, FromPin, Arrives, logon, LoginInv
<1> QED BY <1>1, <1>2 DEF Fine, LoginInv

LEMMA RefusedFine ==
  ASSUME LoginInv, NEW b \in Bots, Refused(b), at[b] # "write" PROVE Fine
<1>1. CASE Walks(b, "attempt") BY <1>1, Walking
<1>2. CASE To(b, "attempt") /\ UNCHANGED <<devices, logon>> BY <1>2, Going
<1> QED BY <1>1, <1>2 DEF Refused

LEMMA PicksFine ==
  ASSUME LoginInv, NEW b \in Bots, Begin(b) \/ Pick(b) \/ FallsBack(b) PROVE Fine
<1>1. at[b] # "write" /\ UNCHANGED <<devices, logon>> BY DEF Begin, Pick, FallsBack
<1>2. \/ UNCHANGED at
      \/ To(b, "pick") \/ To(b, "server") \/ To(b, "attempt")
  BY DEF Begin, Pick, FallsBack, Skips, Picked
<1> QED BY <1>1, <1>2, Going, Standing

LEMMA TalksFine ==
  ASSUME LoginInv, NEW b \in Bots, AsksServer(b) \/ Dashboard(b) \/ Check(b) PROVE Fine
<1>1. at[b] # "write" BY DEF AsksServer, Dashboard, Check
<1>2. \/ Walks(b, "check") \/ Walks(b, "attempt") \/ Walks(b, "dashboard") \/ Walks(b, "device")
      \/ Walks(b, "apply") \/ Ends(b) \/ Refused(b) \/ GivesUp(b)
  BY DEF AsksServer, Dashboard, Check
<1>3. CASE GivesUp(b) BY <1>1, <1>3, Going DEF GivesUp
<1> QED BY <1>1, <1>2, <1>3, Walking, Ending, RefusedFine

LEMMA DialsFine ==
  ASSUME LoginInv, NEW b \in Bots, Apply(b) \/ Redial(b) \/ Refresh(b) PROVE Fine
<1>1. at[b] # "write" /\ UNCHANGED devices BY DEF Apply, Redial, Refresh
<1>2. \/ To(b, "up") \/ To(b, "source") \/ To(b, "stranded") \/ To(b, "check") \/ To(b, "attempt")
  BY DEF Apply, Redial, Refresh
<1>3. DeviceInv' /\ Kept BY <1>1, <1>2, Elsewhere DEF LoginInv
<1> QED BY <1>3, PinApplied, PinRedials, PinRefreshes DEF LoginInv, Fine

LEMMA FetchesFine ==
  ASSUME LoginInv, NEW b \in Bots, Source(b) \/ Fetch(b) \/ Wait(b) PROVE Fine
<1>1. CASE Source(b)
  <2>1. \/ at[b] = "source" /\ Ends(b)
        \/ at[b] # "write" /\ UNCHANGED <<devices, logon>> /\ To(b, "fetch")
    BY <1>1 DEF Source
  <2> QED BY <2>1, Going, Ending
<1>2. CASE Wait(b) BY <1>2, Walking DEF Wait
<1>3. CASE Fetch(b)
  <2>1. at[b] = "fetch" /\ (Ends(b) \/ Fetched(b) \/ Walks(b, "down") \/ Walks(b, "wait"))
    BY <1>3 DEF Fetch
  <2>2. CASE Fetched(b)
    <3>1. To(b, "up") /\ UNCHANGED <<devices, token, pin, host>> BY <2>2 DEF Fetched
    <3> QED BY <2>1, <3>1, Elsewhere, PinStays DEF LoginInv, Fine
  <2> QED BY <2>1, <2>2, Walking, Ending
<1> QED BY <1>1, <1>2, <1>3

LEMMA DevicesFine ==
  ASSUME LoginInv, NEW b \in Bots, Device(b) \/ Write(b) \/ WriteFails(b) \/ LooksInVain(b) PROVE Fine
<1>1. UNCHANGED logon /\ (To(b, "apply") \/ To(b, "write"))
  BY DEF Device, LooksUp, Write, WriteFails, LooksInVain, Unlocks
<1>2. PinInv' /\ FromPin BY <1>1, PinStays DEF LoginInv, logon
<1> QED BY <1>2, DeviceKnown, DeviceWritten, DeviceLost, DeviceUnread DEF LoginInv, Fine

LEMMA WorldFine ==
  ASSUME LoginInv, NEW b \in Bots,
         \/ Drop(b) \/ Rejected(b) \/ WorldRotates(b) \/ Stalls(b) \/ Stop(b)
         \/ Respawn(b) \/ Leaves(b) \/ Aborts(b)
  PROVE  Fine
<1>1. CASE Drop(b) BY <1>1, Walking DEF Drop
<1>2. CASE Rejected(b)
  <2>1. at[b] # "write" /\ To(b, "due") /\ UNCHANGED <<devices, logon>> BY <1>2 DEF Rejected
  <2> QED BY <2>1, Going
<1>3. CASE WorldRotates(b) \/ Stop(b) BY <1>3, Standing DEF WorldRotates, Stop
<1>4. CASE Respawn(b)
  <2>1. at[b] # "write" /\ To(b, "attempt") /\ UNCHANGED <<devices, logon>> BY <1>4 DEF Respawn
  <2> QED BY <2>1, Going
<1>5. CASE Leaves(b) \/ Aborts(b) BY <1>5, Ending DEF Leaves, Aborts
<1>6. CASE Stalls(b)
  <2>1. at[b] # "write" /\ To(b, "down") /\ UNCHANGED <<devices, logon>> BY <1>6 DEF Stalls
  <2> QED BY <2>1, Going
<1> QED BY <1>1, <1>2, <1>3, <1>4, <1>5, <1>6

LEMMA LoginStep == LoginInv /\ [LoginNext]_loginVars => Fine
<1> SUFFICES ASSUME LoginInv, [LoginNext]_loginVars PROVE Fine OBVIOUS
<1>1. CASE UNCHANGED loginVars BY <1>1, Standing DEF loginVars
<1>2. CASE Crash BY <1>2, DeviceCrash, PinCrash DEF LoginInv, Fine
<1>3. ASSUME NEW b \in Bots, Thread(b) PROVE Fine
  BY <1>3, PicksFine, TalksFine, DevicesFine, DialsFine, FetchesFine, WorldFine DEF Thread
<1>4. ASSUME NEW b \in Bots,
             \/ WriteFails(b) \/ LooksInVain(b) \/ Drop(b) \/ Rejected(b)
             \/ WorldRotates(b) \/ Stalls(b) \/ Stop(b) \/ Respawn(b)
      PROVE  Fine
  BY <1>4, DevicesFine, WorldFine
<1> QED BY <1>1, <1>2, <1>3, <1>4 DEF LoginNext

LEMMA LoginBegins == LoginInit => LoginInv
BY LoginAssumption DEF LoginInit, LoginInv, DeviceInv, PinInv, Every, Store

(* account_devices.h: the device an account has shown stays its own, unless  *)
(* a write of the file was cut short or a read of it failed.                 *)
THEOREM DeviceStays == LoginSpec => DeviceKept
<1>1. LoginInv /\ [LoginNext]_loginVars => LoginInv' BY LoginStep DEF Fine
<1>2. LoginInv /\ [LoginNext]_loginVars => [Kept]_loginVars BY LoginStep DEF Fine
<1> QED BY <1>1, <1>2, LoginBegins, PTL DEF LoginSpec, DeviceKept, Kept

(* 06-bot-core-state.md, invariant 3: the logon through a pinned exit uses   *)
(* the exit that minted the token.                                           *)
THEOREM PinIsMint == LoginSpec => LogonFromPin
<1>1. LoginInv /\ [LoginNext]_loginVars => LoginInv' BY LoginStep DEF Fine
<1>2. LoginInv /\ [LoginNext]_loginVars => [FromPin]_loginVars BY LoginStep DEF Fine
<1> QED BY <1>1, <1>2, LoginBegins, PTL DEF LoginSpec, LogonFromPin, FromPin

----------------------------------------------------------------------------
(* The scripts. What is written aside takes the place of a file as a whole.  *)

Texts == [does : Kinds \cup {"short"}, size : {"fits", "long", "over"}, whole : {TRUE}]
Jobs == [op : {"none", "run", "script_write"} \cup WindowOps \cup ToolOps,
         name : Names \cup {Outside}, text : Texts,
         at : {"idle", "read", "show", "write", "replace", "list", "run"}]
WholeInv == /\ files \in [Names \cup {Outside} -> Texts \cup {NoFile}]
            /\ job \in [Processes -> Jobs] /\ editor \in Texts

LEMMA WholeMeans == WholeInv => NeverTorn
BY DEF WholeInv, NeverTorn, Texts, Jobs

LEMMA WholeBegins == ScriptsInit => WholeInv
BY DEF ScriptsInit, WholeInv, Resting, Job, Template, Text, Texts, Jobs

LEMMA JobSteps ==
  ASSUME WholeInv, NEW p \in Processes
  PROVE  /\ job[p] \in Jobs /\ job[p].text \in Texts /\ job[p].name \in Names \cup {Outside}
         /\ \A j \in Jobs : Becomes(p, j) => job' \in [Processes -> Jobs]
         /\ Rests(p) => job' \in [Processes -> Jobs]
         /\ \A s \in {"show", "replace", "list", "run"} :
              Goto(p, s) => job' \in [Processes -> Jobs]
<1>1. job[p] \in Jobs
  BY DEF WholeInv
<1>2. \A j \in Jobs : Becomes(p, j) => job' \in [Processes -> Jobs]
  BY DEF WholeInv, Becomes
<1>3. Resting \in Jobs
  BY DEF Resting, Job, Template, Text, Texts, Jobs
<1>4. \A s \in {"show", "replace", "list", "run"} : [job[p] EXCEPT !.at = s] \in Jobs
  BY <1>1 DEF Jobs
<1>5. job[p].text \in Texts /\ job[p].name \in Names \cup {Outside}
  BY <1>1 DEF Jobs
<1> QED
  BY <1>1, <1>2, <1>3, <1>4, <1>5 DEF Rests, Goto

LEMMA WholeStep == ASSUME WholeInv, [ScriptsNext]_scriptVars PROVE WholeInv'
<1>1. ASSUME NEW p \in Processes, NEW op \in WindowOps \cup ToolOps, NEW name \in Names,
             Ask(p, op, name)
      PROVE  WholeInv'
  <2>1. Job(op, name, editor, First(op)) \in Jobs
    BY DEF WholeInv, Job, Jobs, First
  <2> QED
    BY <1>1, <2>1, JobSteps DEF Ask, WholeInv
<1>2. ASSUME NEW p \in Processes, NEW name \in Names, NEW does \in Kinds,
             NEW size \in {"fits", "long"}, AskWrite(p, name, does, size)
      PROVE  WholeInv'
  <2>1. Job("script_write", name, Text(does, size), "write") \in Jobs
    BY DEF Job, Text, Texts, Jobs
  <2> QED
    BY <1>2, <2>1, JobSteps DEF AskWrite, WholeInv
<1>3. ASSUME NEW p \in Processes, NEW text \in Texts, NEW left, AskRun(p, text, left)
      PROVE  WholeInv'
  <2>1. Job("run", Outside, text, "run") \in Jobs
    BY DEF Job, Jobs
  <2> QED
    BY <1>3, <2>1, JobSteps DEF AskRun, WholeInv
<1>4. ASSUME NEW p \in Processes, Read(p) PROVE WholeInv'
  <2> DEFINE j == job[p]
             text == files[From(j)]
  <2>1. From(j) \in Names \cup {Outside} /\ UNCHANGED files
    BY <1>4, JobSteps DEF From, Read
  <2>2. ~ Readable(From(j)) => WholeInv'
    BY <1>4, <2>1, JobSteps DEF Read, WholeInv
  <2>3. CASE Readable(From(j))
    <3>1. text \in Texts
      BY <2>1, <2>3 DEF Readable, WholeInv
    <3>2. CASE j.op = "load"
      BY <1>4, <2>1, <2>3, <3>1, <3>2, JobSteps DEF Read, WholeInv
    <3>3. CASE j.op # "load"
      <4>1. /\ Becomes(p, Job(j.op, j.name, text,
                              IF j.op \in {"import", "export"} THEN "write" ELSE "list"))
            /\ UNCHANGED editor
        BY <1>4, <2>3, <3>3 DEF Read
      <4>2. Job(j.op, j.name, text,
                IF j.op \in {"import", "export"} THEN "write" ELSE "list") \in Jobs
        BY <3>1, JobSteps DEF Job, Jobs
      <4> QED
        BY <2>1, <4>1, <4>2, JobSteps DEF WholeInv
    <3> QED
      BY <3>2, <3>3
  <2> QED
    BY <2>2, <2>3
<1>5. ASSUME NEW p \in Processes, Show(p) PROVE WholeInv'
  <2>1. Readable(job[p].name) => files[job[p].name] \in Texts
    BY JobSteps DEF Readable, WholeInv
  <2> QED
    BY <1>5, <2>1, JobSteps DEF Show, WholeInv
<1>6. ASSUME NEW p \in Processes, WriteAside(p) PROVE WholeInv'
  BY <1>6, JobSteps DEF WriteAside, Beside, WholeInv
<1>7. ASSUME NEW p \in Processes, Replace(p) PROVE WholeInv'
  <2>1. files' \in [Names \cup {Outside} -> Texts \cup {NoFile}] /\ UNCHANGED editor
    BY <1>7, JobSteps DEF Replace, Beside, WholeInv
  <2>2. Goto(p, "show") \/ Goto(p, "list") \/ Rests(p)
    BY <1>7 DEF Replace
  <2> QED
    BY <2>1, <2>2, JobSteps DEF WholeInv
<1>8. ASSUME NEW p \in Processes, SaveFails(p) PROVE WholeInv'
  BY <1>8, JobSteps DEF SaveFails, WholeInv
<1>9. ASSUME NEW p \in Processes, List(p) PROVE WholeInv'
  <2>1. (Goto(p, "run") \/ Rests(p)) /\ UNCHANGED <<files, editor>>
    BY <1>9 DEF List, Beside
  <2> QED
    BY <2>1, JobSteps DEF WholeInv
<1>10. ASSUME NEW p \in Processes,
              Step(p) \/ Complete(p) \/ Raise(p) \/ Catch(p) \/ GoOn(p) \/ Late(p)
       PROVE  WholeInv'
  <2>1. (UNCHANGED job \/ Rests(p)) /\ UNCHANGED <<files, editor>>
    BY <1>10 DEF Step, Complete, Raise, Catch, GoOn, Late, Returns, Beside
  <2> QED
    BY <2>1, JobSteps DEF WholeInv
<1>11. ASSUME NEW p \in Processes, Dies(p) PROVE WholeInv'
  <2>1. Template \in Texts
    BY DEF Template, Text, Texts
  <2> QED
    BY <1>11, <2>1, JobSteps DEF Dies, WholeInv
<1>12. ASSUME NEW does \in Kinds, Type(does) PROVE WholeInv'
  BY <1>12 DEF Type, Text, Texts, WholeInv
<1>13. ASSUME NEW name \in Names \cup {Outside}, NEW does \in Kinds,
              NEW size \in {"long", "over"}, Leave(name, does, size)
       PROVE  WholeInv'
  <2>1. Text(does, size) \in Texts
    BY DEF Text, Texts
  <2> QED
    BY <1>13, <2>1 DEF Leave, WholeInv
<1>14. CASE UNCHANGED scriptVars
  BY <1>14 DEF scriptVars, WholeInv
<1>15. editor \in Texts /\ \A does \in Kinds : Text(does, "fits") \in Texts
  BY DEF WholeInv, Text, Texts
<1> QED
  BY <1>1, <1>2, <1>3, <1>4, <1>5, <1>6, <1>7, <1>8, <1>9, <1>10, <1>11, <1>12, <1>13,
     <1>14, <1>15 DEF ScriptsNext, Works

(* script_store.h:47: no process ever finds a script cut off, whatever two   *)
(* of them write at a time and wherever one fails or ends.                   *)
THEOREM ScriptsStayWhole == ScriptsSpec => []NeverTorn
<1>1. WholeInv /\ [ScriptsNext]_scriptVars => WholeInv'
  BY WholeStep
<1> QED
  BY <1>1, WholeBegins, WholeMeans, PTL DEF ScriptsSpec
=============================================================================
