------------------------------- MODULE Slots -------------------------------
(* The clock of the chain (db_witness_schedule.cpp): slots counted from the *)
(* head block, who is scheduled for each, and what a new block does to the  *)
(* counters (db_update.cpp).  Times are whole seconds.  d stands for the    *)
(* fields of dynamic_global_property_object used here: the head's number    *)
(* and time, the absolute slot, the maintenance flag and the latest slots   *)
(* filled; p for chain_parameters; ws for current_shuffled_witnesses.       *)
EXTENDS Integers, Sequences, SequencesExt, FiniteSets

CONSTANTS
  FilledSlots,       \* bits of recent_slots_filled (128)
  xorshift(_, _)     \* the pseudo-random number for a head time and an index

----------------------------------------------------------------------------
(* Skipped slots follow a maintenance block. *)
Skipped(d, p) == IF d.maintenance_flag THEN p.maintenance_skip_slots ELSE 0

head_slot_time(d, p) == (d.time \div p.block_interval) * p.block_interval

(* The first block's slot is counted from genesis, later ones from the     *)
(* start of the slot the head is in.  Slot 0 has no time.                  *)
get_slot_time(d, p, n) ==
  IF n = 0 THEN 0
  ELSE IF d.num = 0 THEN d.time + n * p.block_interval
  ELSE head_slot_time(d, p) + (n + Skipped(d, p)) * p.block_interval

(* Counted from the head's slot, so that a late time in it has a slot too. *)
get_slot_at_time_NoFirst(d, p, when) ==
  LET first == get_slot_time(d, p, 1)
  IN (when - first + p.block_interval) \div p.block_interval + 1

get_slot_at_time(d, p, when) ==
  LET first == get_slot_time(d, p, 1)
  IN IF when < first THEN 0 ELSE (when - first) \div p.block_interval + 1

get_scheduled_witness(d, ws, n) == ws[((d.current_aslot + n) % Len(ws)) + 1]

(* In percent: the code counts in hundredths of a percent. *)
witness_participation_rate(d) ==
  (100 * Len(SelectSeq(d.recent_slots_filled, LAMBDA b : b = 1))) \div FilledSlots

----------------------------------------------------------------------------
(* The elements of a finite set in an order: element i has i - 1 before it. *)
Ranked(S, Before(_, _)) ==
  [i \in 1 .. Cardinality(S) |->
     CHOOSE w \in S : Cardinality({v \in S : Before(v, w)}) = i - 1]

ById(S) == Ranked(S, LAMBDA v, w : v < w)

(* The shuffle: element i is swapped with one of those from i on. *)
Shuffled(ws, time) ==
  LET n == Len(ws)
      Other(i) == i + (xorshift(time, i - 1) % (n - i + 1))
      s[i \in 0 .. n] ==
        IF i = 0 THEN ws
                 ELSE [s[i - 1] EXCEPT ![i] = s[i - 1][Other(i)], ![Other(i)] = s[i - 1][i]]
  IN s[n]

(* Renewed one block early. *)
update_witness_schedule_Early(d, active, ws) ==
  IF (d.num + 1) % Len(ws) = 0
    THEN Shuffled(ById(active), d.time)
    ELSE ws

update_witness_schedule(d, active, ws) ==
  IF d.num % Cardinality(active) = 0
    THEN Shuffled(ById(active), d.time)
    ELSE ws

----------------------------------------------------------------------------
(* Missed slots before a block at time t, and the witnesses charged for    *)
(* them: all that were scheduled but the one that signs now.               *)
MissedSlots(d, p, t) == get_slot_at_time(d, p, t) - 1

TimesMissed(d, p, ws, t, w, signer) ==
  IF w = signer THEN 0
    ELSE Cardinality({n \in 1 .. MissedSlots(d, p, t) : get_scheduled_witness(d, ws, n) = w})

(* Shifted left, the oldest bits fall off; the lowest bit is the last. *)
Shifted(bits, more) ==
  LET all == bits \o more IN SubSeq(all, Len(all) - FilledSlots + 1, Len(all))

(* The bit of the block goes in before the bits of the slots it missed. *)
update_global_dynamic_data(d, p, t) ==
  LET missed == MissedSlots(d, p, t)
  IN [d EXCEPT !.num = @ + 1,
               !.time = t,
               !.recent_slots_filled = Shifted(@, <<1>> \o [i \in 1 .. missed |-> 0]),
               !.current_aslot = @ + missed + 1]

(* What validate_block_header asks of a block at time t signed by w. *)
validate_block_header(d, p, ws, t, w) ==
  LET slot == get_slot_at_time(d, p, t)
  IN /\ d.time < t
     /\ slot > 0
     /\ w = get_scheduled_witness(d, ws, slot)
=============================================================================
