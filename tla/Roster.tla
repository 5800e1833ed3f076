------------------------------- MODULE Roster -------------------------------
(***************************************************************************)
(* What the manager promises of bot ids (bot_manager.h: "keyed by a        *)
(* monotonic, never-reused u32 id"): ids come into the live map in order,  *)
(* one at a time, and one that has left it never comes back.               *)
(***************************************************************************)
EXTENDS Integers

VARIABLES next, live

RosterInit == next = 0 /\ live = {}

(* Drop any bots and, perhaps, add the next one. *)
RosterNext ==
  \E gone \in SUBSET live :
    \/ live' = live \ gone /\ next' = next
    \/ live' = (live \ gone) \cup {next} /\ next' = next + 1

RosterSpec == RosterInit /\ [][RosterNext]_<<next, live>>
=============================================================================
