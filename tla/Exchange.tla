------------------------------ MODULE Exchange ------------------------------
(* What a stdio server promises the client it serves (app_bridge.h: "so     *)
(* callers do not silently split work into a second headless fleet"): a     *)
(* request is executed at most once, and only while its caller waits for it *)
(* or is gone; an answer is of a request that was executed; a server falls  *)
(* back to a fleet of its own once and for all, and only with a request     *)
(* that the application has not executed.                                   *)
EXTENDS Integers, Sequences

CONSTANT Callers

VARIABLES state,   \* of each caller's last request
          number,  \* of each caller, the requests it made
          fleet,   \* which fleet serves it
          ran      \* its requests executed, and where

vars == <<state, number, fleet, ran>>

ExchangeInit ==
  /\ state = [c \in Callers |-> "idle"] /\ number = [c \in Callers |-> 0]
  /\ fleet = [c \in Callers |-> "undecided"] /\ ran = [c \in Callers |-> <<>>]

Becomes(c, s) == state' = [state EXCEPT ![c] = s]
Executed(c, n, where) == ran' = [ran EXCEPT ![c] = Append(@, [n |-> n, where |-> where])]

Ask(c) == /\ state[c] = "idle" /\ number' = [number EXCEPT ![c] = @ + 1]
          /\ \/ fleet[c] = "headless" /\ Executed(c, number[c] + 1, "headless") /\ UNCHANGED state
             \/ fleet[c] # "headless" /\ Becomes(c, "asked") /\ UNCHANGED ran
          /\ UNCHANGED fleet
\* The application executes it, even if the caller is gone.
Serve(c) == /\ Executed(c, number[c], "desktop")
            /\ \/ state[c] = "asked" /\ Becomes(c, "served")
               \/ state[c] = "orphaned" /\ Becomes(c, "dead")
            /\ UNCHANGED <<number, fleet>>
Answer(c) == /\ state[c] = "served" /\ Becomes(c, "idle")
             /\ fleet' = [fleet EXCEPT ![c] = "desktop"]
             /\ UNCHANGED <<number, ran>>
\* The caller is told of a failure: the request may have been executed, but will not be.
Fail(c) == /\ state[c] \in {"asked", "served"} /\ Becomes(c, "idle")
           /\ UNCHANGED <<number, fleet, ran>>
FallBack(c) == /\ state[c] = "asked" /\ fleet[c] = "undecided" /\ Becomes(c, "idle")
               /\ fleet' = [fleet EXCEPT ![c] = "headless"]
               /\ Executed(c, number[c], "headless")
               /\ UNCHANGED number
Leave(c) == /\ \/ state[c] \in {"idle", "asked", "served"} /\ Becomes(c, "dead")
               \/ state[c] = "asked" /\ Becomes(c, "orphaned")
            /\ UNCHANGED <<number, fleet, ran>>
Forget(c) == /\ state[c] = "orphaned" /\ Becomes(c, "dead")
             /\ UNCHANGED <<number, fleet, ran>>

ExchangeNext == \E c \in Callers : \/ Ask(c) \/ Serve(c) \/ Answer(c) \/ Fail(c) \/ FallBack(c)
                                   \/ Leave(c) \/ Forget(c)
ExchangeSpec == ExchangeInit /\ [][ExchangeNext]_vars
=============================================================================
