-------------------------------- MODULE Gates --------------------------------
(***************************************************************************)
(* One fleet gate of bot/gates.cpp and the bots that pace themselves by it.*)
(* A gate is a mutex-guarded cursor, next_allowed; a bot reserves a slot   *)
(* under the mutex, waits for it outside, and then acts.                   *)
(*                                                                         *)
(* Cooldown = 0 is reserve_gate_slot (MaxAhead its max_ahead_ms); a        *)
(* positive Cooldown is reserve_throttle_slot (MaxAhead its 60 s).         *)
(* Time is steady_clock in whole units; any amount may pass at any step.   *)
(***************************************************************************)
EXTENDS Integers, Sequences

CONSTANTS
  Bots,
  Spacing,      \* spacing_ms
  MaxAhead,     \* max_ahead_ms, or the 60 s of the throttle gate
  Cooldown,     \* cooldown_ms, or 0
  MaxNow,       \* bound: the last instant of a run
  MaxGrants     \* bound: slots reserved in a run

ASSUME GatesAssumption ==
  /\ Spacing \in Nat \ {0} /\ MaxAhead \in Nat /\ Cooldown \in Nat
  /\ MaxNow \in Nat /\ MaxGrants \in Nat

VARIABLES
  now,
  inited, nextAllowed,   \* the Gate
  slot,                  \* the slot a bot waits for
  waiting,               \* the bots between reservation and action
  granted                \* every reservation so far: its slot, and when

gateVars == <<now, inited, nextAllowed, slot, waiting, granted>>

Least(a, b)    == IF a <= b THEN a ELSE b
Greatest(a, b) == IF a >= b THEN a ELSE b

(* The window a slot may be handed out in, at time t. *)
Floor(t)   == t + Cooldown
Horizon(t) == Floor(t) + MaxAhead

GateInit ==
  /\ now = 0
  /\ inited = FALSE /\ nextAllowed = 0
  /\ slot = [b \in Bots |-> 0]
  /\ waiting = {}
  /\ granted = <<>>

(* next_allowed after slot s was handed out. *)
Advance(s) == Least(s + Spacing, Horizon(now))

(* std::clamp(next_allowed, floor, horizon). *)
SlotFrom(c) == Least(Greatest(c, Floor(now)), Horizon(now))

(* Mutant: the cursor is left at the slot. *)
ReserveKeepsCursor(b) ==
  LET s == SlotFrom(IF inited THEN nextAllowed ELSE now) IN
  /\ b \notin waiting
  /\ Len(granted) < MaxGrants
  /\ inited' = TRUE
  /\ nextAllowed' = s
  /\ slot' = [slot EXCEPT ![b] = s]
  /\ waiting' = waiting \cup {b}
  /\ granted' = Append(granted, [slot |-> s, at |-> now])
  /\ UNCHANGED now

(* reserve_gate_slot / reserve_throttle_slot: one critical section. *)
Reserve(b) ==
  LET s == SlotFrom(IF inited THEN nextAllowed ELSE now) IN
  /\ b \notin waiting
  /\ Len(granted) < MaxGrants
  /\ inited' = TRUE
  /\ nextAllowed' = Advance(s)
  /\ slot' = [slot EXCEPT ![b] = s]
  /\ waiting' = waiting \cup {b}
  /\ granted' = Append(granted, [slot |-> s, at |-> now])
  /\ UNCHANGED now

(* The wait is over. *)
Act(b) ==
  /\ b \in waiting /\ now >= slot[b]
  /\ waiting' = waiting \ {b}
  /\ UNCHANGED <<now, inited, nextAllowed, slot, granted>>

(* A stopped bot breaks off the wait of a connected-phase gate; its packet *)
(* goes out all the same, and the slot is not given back.                  *)
BreakOff(b) ==
  /\ b \in waiting /\ Cooldown = 0
  /\ waiting' = waiting \ {b}
  /\ UNCHANGED <<now, inited, nextAllowed, slot, granted>>

Pass ==
  /\ now < MaxNow
  /\ now' = now + 1
  /\ UNCHANGED <<inited, nextAllowed, slot, waiting, granted>>

(* The end of a bounded run. *)
Over == now = MaxNow /\ UNCHANGED gateVars

GateNext == (\E b \in Bots : Reserve(b) \/ Act(b) \/ BreakOff(b)) \/ Pass \/ Over

GateSpec == GateInit /\ [][GateNext]_gateVars

-----------------------------------------------------------------------------
GateTypeOK ==
  /\ now \in Nat
  /\ inited \in BOOLEAN /\ nextAllowed \in Nat
  /\ slot \in [Bots -> Nat]
  /\ waiting \subseteq Bots
  /\ granted \in Seq([slot : Nat, at : Nat])

(* gates.h: "next_allowed is monotonic" - it never goes back, although it  *)
(* is clamped down to a horizon.                                           *)
CursorMonotonic == [][nextAllowed' >= nextAllowed]_gateVars

(* gates.h: "the backlog can never exceed max_ahead_ms": neither the       *)
(* cursor nor any wait reaches further ahead than the window.              *)
BacklogBounded ==
  /\ nextAllowed <= Horizon(now)
  /\ \A b \in waiting : slot[b] <= Horizon(now)
  /\ \A i \in DOMAIN granted :
       granted[i].slot \in Floor(granted[i].at) .. Horizon(granted[i].at)

(* What pacing there is: of two slots the later is a full spacing behind   *)
(* the earlier, or the backlog had reached the horizon of the earlier.     *)
SpacedOrPinned ==
  \A i, j \in DOMAIN granted : i < j =>
    granted[j].slot >= Least(granted[i].slot + Spacing, Horizon(granted[i].at))

(* Hence, below the horizon, n slots take n - 1 spacings. *)
Unpinned == \A i \in DOMAIN granted :
              granted[i].slot + Spacing <= Horizon(granted[i].at)
RateLimited ==
  Unpinned => \A i, j \in DOMAIN granted :
    i < j => granted[j].slot - granted[i].slot >= (j - i) * Spacing

(* The pacing a gate gives. *)
Paced == BacklogBounded /\ SpacedOrPinned /\ RateLimited
=============================================================================
