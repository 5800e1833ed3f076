----------------------------- MODULE FleetState -----------------------------
(***************************************************************************)
(* The operations of bot/fleet_state.cpp on the two maps bots coordinate   *)
(* through.  Every one runs under the registry's own mutex, so each is a   *)
(* function from the maps before the call to the maps after it.            *)
(*                                                                         *)
(*   members  the set of bot ids that have a published BotView             *)
(*   claims   a function from claim keys to the owning bot id, or NoBot    *)
(***************************************************************************)
CONSTANT NoBot

Upsert(members, b) == members \cup {b}

(* owner(): NoBot stands for nullopt. *)
Owner(claims, key) == claims[key]

(* Mutant: claim() inserts over the owner. *)
ClaimOverwrites(claims, key, b) == [claims EXCEPT ![key] = b]

(* claim(): take a free key; a key that has an owner is left alone ... *)
Claim(claims, key, b) ==
  IF claims[key] = NoBot THEN [claims EXCEPT ![key] = b] ELSE claims

(* ... and the call answers whether the caller owns the key now. *)
ClaimGranted(claims, key, b) == claims[key] \in {NoBot, b}

(* release(): no-op unless the caller is the owner. *)
Release(claims, key, b) ==
  IF claims[key] = b THEN [claims EXCEPT ![key] = NoBot] ELSE claims

(* release_all() for every bot of a set. *)
ReleaseAll(claims, bs) ==
  [k \in DOMAIN claims |-> IF claims[k] \in bs THEN NoBot ELSE claims[k]]

(* erase() for every bot of a set: the views go, and the claims with them
   (see ReleaseAll). *)
EraseMembers(members, bs) == members \ bs
=============================================================================
