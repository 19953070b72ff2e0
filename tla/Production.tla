----------------------------- MODULE Production -----------------------------
(* The chain as one node sees it: blocks of scheduled witnesses, from peers *)
(* or from the node's own witness plugin, maintenance in the first block of *)
(* every interval, and between the blocks votes, parameter changes and      *)
(* fees.  Forks are the subject of Blockchain; here the chain grows only.   *)
EXTENDS Maintenance

CONSTANTS
  Parameters,            \* sets of chain parameters, the first one by Start
  Start,                 \* parameters, active witnesses and supply at genesis
  Opinions,              \* account -> options it may set
  MyWitnesses,           \* witnesses whose keys the node has
  RequiredParticipation, \* percent
  Fees,                  \* amounts a fee may have
  GenesisTime,
  MaxTime, MaxOpinions, MaxFees   \* bounds of the runs

ASSUME ProductionAssumption ==
  /\ GenesisTime \in Nat \ {0} /\ MaxTime \in Nat /\ GenesisTime <= MaxTime
  /\ Start.parameters \in Parameters
  /\ \A p \in Parameters : /\ {p.block_interval, p.maintenance_interval,
                               p.maintenance_skip_slots} \subseteq Nat
                           /\ {p.maximum_witness_count, p.maximum_committee_count} \subseteq Nat
                           /\ p.block_interval > 0
                           /\ p.maintenance_interval > p.block_interval
                           /\ p.maintenance_interval % p.block_interval = 0
  /\ Start.active \subseteq Witnesses /\ Start.active # {}
  /\ Start.committee \subseteq CommitteeMembers
  /\ \A t \in 0 .. MaxTime + 1, i \in 0 .. Cardinality(Witnesses) : xorshift(t, i) \in Nat

ASSUME OptionsAssumption ==
  \A a \in Accounts : \A o \in Opinions[a] \cup {Start.opinion} :
    /\ {o.num_witness, o.num_committee} \subseteq Nat
    /\ o.voting_account \in Accounts \cup {self}

(* Amounts are not negative.  The two of the chain parameters are signed and *)
(* chain_parameters::validate lets any value pass.                           *)
ASSUME MoneyAssumption ==
  /\ \A p \in Parameters : {p.witness_pay_per_block, p.worker_budget_per_day} \subseteq Nat
  /\ Start.supply \in 0 .. MaxSupply
  /\ Fees \subseteq Nat

VARIABLES
  dgp,           \* dynamic_global_property_object
  gpo,           \* global_property_object: parameters, pending, active members
  shuffled,      \* current_shuffled_witnesses
  total_missed,  \* of the witness objects
  opinion,       \* options of the voting accounts
  core,          \* the core asset, and what accounts hold of it
  record,        \* the last budget_record_object: witness budget asked, granted
  clock,         \* the node's clock in seconds
  production_enabled,
  past           \* what the properties need to know of earlier blocks
vars == <<dgp, gpo, shuffled, total_missed, opinion, core, record, clock,
          production_enabled, past>>

none == [block_interval |-> 0]      \* no pending parameters

Init ==
  /\ dgp = [num |-> 0, time |-> GenesisTime, current_aslot |-> 0, maintenance_flag |-> FALSE,
            recent_slots_filled |-> [i \in 1 .. FilledSlots |-> 1],
            next_maintenance_time |-> 0, last_budget_time |-> 0, witness_budget |-> 0]
  /\ gpo = [parameters |-> Start.parameters, pending |-> none, active |-> Start.active,
            committee |-> Start.committee]
  /\ shuffled = ById(Start.active)
  /\ total_missed = [w \in Witnesses |-> 0]
  /\ opinion = [a \in Accounts |-> Start.opinion]
  /\ core = [current_supply |-> Start.supply, accumulated_fees |-> 0, pending_fees |-> 0,
             held |-> Start.supply]
  /\ record = [requested |-> 0, granted |-> 0]
  /\ clock = GenesisTime
  /\ production_enabled \in BOOLEAN       \* enable-stale-production
  /\ past = [turns |-> [w \in Witnesses |-> 0], gap |-> FALSE, maintained |-> 0,
             opinions |-> 0, fees |-> 0]

----------------------------------------------------------------------------
(* _apply_block, one stage after the other.  s holds the stage's dgp, gpo,  *)
(* core and record.                                                         *)

update_signing_witness(s) ==
  LET pay == AtMost(s.gpo.parameters.witness_pay_per_block, s.dgp.witness_budget)
  IN [s EXCEPT !.dgp.witness_budget = @ - pay, !.core.held = @ + pay]

ChangeMembers(s) ==
  [s EXCEPT !.core = process_fees(@),
            !.gpo.active = update_active_witnesses(opinion, s.gpo.parameters),
            !.gpo.committee = update_active_committee_members(opinion, s.gpo.parameters)]

ChangeParameters(s) ==
  IF s.gpo.pending = none THEN s
    ELSE [s EXCEPT !.gpo.parameters = s.gpo.pending, !.gpo.pending = none]

SetNextMaintenance(s) ==
  [s EXCEPT !.dgp.next_maintenance_time =
              next_maintenance_time(@, s.gpo.parameters, s.dgp.num, s.dgp.time)]

WithBudget(s, g, b) ==
  [s EXCEPT !.core = b.core, !.dgp = b.dgp,
            !.record = [requested |-> s.gpo.parameters.witness_pay_per_block
                                        * blocks_to_maint(s.dgp, s.gpo.parameters),
                        granted |-> g.witness]]
SpendBudget(s, g) == WithBudget(s, g, process_budget(s.core, s.dgp, g))
ProcessBudget(s) ==
  SpendBudget(s, Grants(opinion, s.dgp, s.gpo.parameters, total_budget(s.core, s.dgp)))

perform_chain_maintenance(s) ==
  ProcessBudget(SetNextMaintenance(ChangeParameters(ChangeMembers(s))))

AfterBlock(t) ==
  update_signing_witness([dgp |-> update_global_dynamic_data(dgp, gpo.parameters, t),
                          gpo |-> gpo, core |-> core, record |-> record])

(* The stages' result becomes the new state; maint tells whether the block  *)
(* is a maintenance block.                                                  *)
Commit(s, maint, ws) ==
  /\ dgp' = [s.dgp EXCEPT !.maintenance_flag = maint]
  /\ gpo' = s.gpo
  /\ core' = s.core
  /\ record' = s.record
  /\ shuffled' = ws

(* What the properties remember: blocks signed since the order was renewed, *)
(* whether a slot was missed in that time, the last maintenance block.      *)
Remember(t, w, maint, renewed) ==
  past' = [past EXCEPT
    !.turns = IF renewed THEN [v \in Witnesses |-> 0]
                         ELSE [past.turns EXCEPT ![w] = past.turns[w] + 1],
    !.gap = ~renewed /\ (@ \/ MissedSlots(dgp, gpo.parameters, t) > 0),
    !.maintained = IF maint THEN dgp.num + 1 ELSE @]

CommitBlock(s, maint, t, w) ==
  /\ Commit(s, maint, update_witness_schedule(s.dgp, s.gpo.active, shuffled))
  /\ Remember(t, w, maint, s.dgp.num % Cardinality(s.gpo.active) = 0)

ApplyBlock(t, w) ==
  /\ total_missed' = [v \in Witnesses |->
       total_missed[v] + TimesMissed(dgp, gpo.parameters, shuffled, t, v, w)]
  /\ IF dgp.next_maintenance_time <= t
       THEN CommitBlock(perform_chain_maintenance(AfterBlock(t)), TRUE, t, w)
       ELSE CommitBlock(AfterBlock(t), FALSE, t, w)
  /\ UNCHANGED <<opinion, clock>>

----------------------------------------------------------------------------
(* A block of another node.  Its time need not be the start of a slot; a   *)
(* node's clock is at most a second behind the signer's.                   *)
push_block(t, w) ==
  /\ validate_block_header(dgp, gpo.parameters, shuffled, t, w)
  /\ ApplyBlock(t, w)
  /\ UNCHANGED production_enabled

(* The witness is looked up for the slot after the one that has come. *)
scheduled_witness_Next(now) ==
  get_scheduled_witness(dgp, shuffled, get_slot_at_time(dgp, gpo.parameters, now) + 1)

scheduled_witness(now) ==
  get_scheduled_witness(dgp, shuffled, get_slot_at_time(dgp, gpo.parameters, now))

Synced(now) == production_enabled \/ get_slot_time(dgp, gpo.parameters, 1) >= now

(* Both times are whole seconds, so that a distance of at most half a      *)
(* second is none.                                                         *)
Ready(now) ==
  LET slot == get_slot_at_time(dgp, gpo.parameters, now)
  IN /\ Synced(now)
     /\ slot > 0
     /\ scheduled_witness(now) \in MyWitnesses
     /\ witness_participation_rate(dgp) >= RequiredParticipation
     /\ get_slot_time(dgp, gpo.parameters, slot) = now

(* The production loop wakes up every second and rounds the time to the    *)
(* nearest second, which may be the next one.  A block that does not pass  *)
(* validation would be dropped with an exception.                          *)
maybe_produce_block(now) ==
  /\ production_enabled' = Synced(now)
  /\ IF Ready(now) /\ validate_block_header(dgp, gpo.parameters, shuffled, now, scheduled_witness(now))
       THEN ApplyBlock(now, scheduled_witness(now))
       ELSE UNCHANGED <<dgp, gpo, shuffled, total_missed, opinion, core, record, clock, past>>

(* Operations of applied transactions. *)
account_update(a, o) ==
  /\ past.opinions < MaxOpinions
  /\ o.num_witness <= gpo.parameters.maximum_witness_count
  /\ o.num_committee <= gpo.parameters.maximum_committee_count
  /\ opinion[a] # o
  /\ opinion' = [opinion EXCEPT ![a] = o]
  /\ past' = [past EXCEPT !.opinions = @ + 1]
  /\ UNCHANGED <<dgp, gpo, shuffled, total_missed, core, record, clock, production_enabled>>

committee_member_update_global_parameters(p) ==
  /\ p # gpo.parameters /\ p # gpo.pending
  /\ gpo' = [gpo EXCEPT !.pending = p]
  /\ UNCHANGED <<dgp, shuffled, total_missed, opinion, core, record, clock,
                 production_enabled, past>>

pay_fee(f) ==
  /\ past.fees < MaxFees
  /\ f <= core.held
  /\ core' = [core EXCEPT !.held = @ - f, !.pending_fees = @ + f]
  /\ past' = [past EXCEPT !.fees = @ + 1]
  /\ UNCHANGED <<dgp, gpo, shuffled, total_missed, opinion, record, clock, production_enabled>>

Tick ==
  /\ clock < MaxTime
  /\ clock' = clock + 1
  /\ UNCHANGED <<dgp, gpo, shuffled, total_missed, opinion, core, record,
                 production_enabled, past>>

Next ==
  \/ \E t \in GenesisTime .. clock, w \in Witnesses : push_block(t, w)
  \/ \E now \in {clock, clock + 1} : maybe_produce_block(now)
  \/ \E a \in Accounts : \E o \in Opinions[a] : account_update(a, o)
  \/ \E p \in Parameters : committee_member_update_global_parameters(p)
  \/ \E f \in Fees : pay_fee(f)
  \/ Tick

Spec == Init /\ [][Next]_vars

----------------------------------------------------------------------------
Interval == gpo.parameters.block_interval

TypeOK ==
  /\ dgp \in [num : Nat, time : Nat, current_aslot : Nat, maintenance_flag : BOOLEAN,
              recent_slots_filled : [1 .. FilledSlots -> {0, 1}],
              next_maintenance_time : Nat, last_budget_time : Nat, witness_budget : Nat]
  /\ gpo.parameters \in Parameters /\ gpo.pending \in Parameters \cup {none}
  /\ gpo.active \subseteq Witnesses /\ gpo.active # {} /\ gpo.committee \subseteq CommitteeMembers
  /\ total_missed \in [Witnesses -> Nat]
  /\ \A a \in Accounts : opinion[a] \in Opinions[a] \cup {Start.opinion}
  /\ core \in [current_supply : Nat, accumulated_fees : Nat, pending_fees : Nat, held : Nat]
  /\ record \in [requested : Nat, granted : Nat]
  /\ clock \in Nat /\ production_enabled \in BOOLEAN
  /\ IsInjective(shuffled) /\ Range(shuffled) \subseteq Witnesses

(* The order of the witnesses is fair: as long as no slot was missed since  *)
(* the order was renewed, none has signed two blocks more than another      *)
(* (get_scheduled_witness, update_witness_schedule).                        *)
FairTurns ==
  ~past.gap => \A v, w \in Range(shuffled) : past.turns[v] <= past.turns[w] + 1

(* Votes reach the schedule: when maintenance has changed the active        *)
(* witnesses, the order is renewed before as many blocks as there are       *)
(* active witnesses have passed, whatever their number was before.          *)
ScheduleCatchesUp ==
  Range(shuffled) # gpo.active => dgp.num - past.maintained < Cardinality(gpo.active)

(* Every slot is a block or is missed by at most one witness, and each      *)
(* witness is charged for its own only (current_aslot: "Also equal to the   *)
(* total number of missed slots plus head_block_number").                   *)
SlotsAccounted ==
  dgp.num + Sum(total_missed, Cardinality(Witnesses)) <= dgp.current_aslot

(* Two blocks are never in the same slot, although a block's time may be    *)
(* anywhere in it, and the slots skipped after maintenance stay empty.      *)
OneBlockPerSlot ==
  [][dgp'.num # dgp.num =>
       dgp'.time \div Interval >= dgp.time \div Interval + 1 + Skipped(dgp, gpo.parameters)]_vars

(* What the plugin signs is a block the chain accepts: the slot found for   *)
(* the time, its witness and its start agree with validate_block_header     *)
(* ("if this assert triggers, there is a serious bug in get_slot_at_time"). *)
OwnBlocksValid ==
  \A now \in {clock, clock + 1} :
    Ready(now) => validate_block_header(dgp, gpo.parameters, shuffled, now, scheduled_witness(now))

(* "The code that generates the next maintenance time should only produce a *)
(* result in the future" (process_budget): it is ahead of the head, by at   *)
(* most one interval, however many intervals have passed without a block.   *)
MaintenanceAhead ==
  dgp.num > 0 =>
    /\ dgp.time < dgp.next_maintenance_time
    /\ dgp.next_maintenance_time <= dgp.time + gpo.parameters.maintenance_interval

(* What blocks, missed slots and maintenance leave of the schedule: fair    *)
(* turns, votes that reach it, slots that are accounted for and a next      *)
(* maintenance that is ahead.                                               *)
ScheduleKept ==
  TypeOK /\ FairTurns /\ ScheduleCatchesUp /\ SlotsAccounted /\ MaintenanceAhead

(* A budget that was granted in full pays every witness in full until the   *)
(* next maintenance, its block included.                                    *)
PaidInFull ==
  [][dgp'.num # dgp.num /\ dgp.last_budget_time > 0 /\ record.granted = record.requested
       => dgp.witness_budget >= gpo.parameters.witness_pay_per_block]_vars

(* Every unit of the supply is held by someone, waits in a fee or is left   *)
(* in the witness budget, through fees, pay, workers that refund theirs and *)
(* what the budget takes from the reserve; and there is no more than        *)
(* max_supply of it.                                                        *)
CoreConserved ==
  /\ core.current_supply = core.held + core.pending_fees + core.accumulated_fees + dgp.witness_budget
  /\ core.current_supply <= MaxSupply

(* The number of witnesses after maintenance is the one the median of the   *)
(* voting stake wants: not more than half of the stake that has an opinion  *)
(* wants fewer and not more than half wants more.  A wish above the maximum *)
(* counts as a wish for the maximum ("turned into votes for                 *)
(* maximum_witness_count").                                                 *)
Wish(a) == AtMost(Opinion(opinion, a).num_witness, gpo.parameters.maximum_witness_count) \div 2
CountIsMedian ==
  [][dgp'.num # dgp.num /\ dgp'.maintenance_flag =>
       LET voters == {a \in Accounts : Wish(a) > 0}
           Median(k) == /\ 2 * StakeOf({a \in voters : Wish(a) < k}) <= StakeOf(voters)
                        /\ 2 * StakeOf({a \in voters : Wish(a) > k}) <= StakeOf(voters)
       IN \E k \in 0 .. gpo.parameters.maximum_witness_count :
            /\ Cardinality(gpo'.active) = AtMost(AtLeast(2 * k + 1, MinWitnessCount),
                                                 Cardinality(Witnesses))
            /\ Median(k) \/ (k = 0 /\ StakeOf(voters) <= 1)]_vars
=============================================================================
