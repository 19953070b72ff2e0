---------------------------- MODULE Maintenance ----------------------------
(* What perform_chain_maintenance (db_maint.cpp) computes: the tally of the *)
(* votes, the active witnesses and committee members, the next maintenance  *)
(* time, the fees of the interval and the budget.  Witnesses, numbered from *)
(* 1, committee members and workers are natural numbers, as vote ids are.   *)
EXTENDS Slots, FiniteSets, Sums

CONSTANTS
  Accounts, Stake,          \* voting accounts, numbered from 1, with the stake of each
  Witnesses, CommitteeMembers,
  Workers,                  \* worker -> [begin, end, daily_pay, kind]
  MinWitnessCount, MinCommitteeCount,   \* immutable_parameters
  CycleRate, CycleUnit,     \* 17 and 2^32: share of the reserve paid a second
  Day,                      \* seconds of a day
  MaxSupply,
  FeePercent,               \* of the network, the lifetime referrer and the referrer
  Burners                   \* beneficiaries that are accounts of the chain itself

ASSUME ConstantsAssumption ==
  /\ Cardinality(Accounts) \in Nat /\ Accounts = 1 .. Cardinality(Accounts)
  /\ Stake \in [Accounts -> Nat]
  /\ Cardinality(Witnesses) \in Nat \ {0} /\ Witnesses = 1 .. Cardinality(Witnesses)
  /\ FilledSlots \in Nat \ {0}
  /\ {MinWitnessCount, MinCommitteeCount, CycleRate, MaxSupply} \subseteq Nat
  /\ {CycleUnit, Day} \subseteq Nat \ {0}
  /\ Burners \subseteq {"lifetime_referrer", "referrer", "registrar"}
  /\ {FeePercent.network, FeePercent.lifetime_referrer, FeePercent.referrer} \subseteq 0 .. 100
  /\ FeePercent.network + FeePercent.lifetime_referrer <= 100
  /\ IsFiniteSet(DOMAIN Workers) /\ DOMAIN Workers \subseteq Nat
  /\ \A w \in DOMAIN Workers : Workers[w].daily_pay \in Nat

self == 0                   \* GRAPHENE_PROXY_TO_SELF_ACCOUNT

----------------------------------------------------------------------------
(* vote_tally_helper.  op maps an account to its options: votes,            *)
(* num_witness, num_committee and voting_account, the one it leaves its     *)
(* opinion to.                                                              *)
OpinionAccount(op, a) == IF op[a].voting_account = self THEN a ELSE op[a].voting_account
Opinion(op, a) == op[OpinionAccount(op, a)]
StakeOf(S) ==
  Sum([a \in Accounts |-> IF a \in S THEN Stake[a] ELSE 0], Cardinality(Accounts))
total_voting_stake == StakeOf(Accounts)

vote_tally(op, v) == StakeOf({a \in Accounts : v \in Opinion(op, a).votes})

(* Stake of those that want 2k or 2k+1 members.  A number above the         *)
(* maximum, given when the maximum was higher, is in no class.              *)
histogram(op, field, max, k) ==
  StakeOf({a \in Accounts : Opinion(op, a)[field] <= max /\ Opinion(op, a)[field] \div 2 = k})

stake_target(op, field, max) == (total_voting_stake - histogram(op, field, max, 0)) \div 2

(* Stake of the classes 1 to k. *)
stake_upto(op, field, max, k) ==
  StakeOf({a \in Accounts : /\ Opinion(op, a)[field] <= max
                            /\ Opinion(op, a)[field] \div 2 \in 1 .. k})

(* Stops when exactly half of the stake is reached. *)
member_count_AtHalf(op, field, max) ==
  LET target == stake_target(op, field, max)
      stops == {k \in 0 .. max \div 2 : k = max \div 2 \/ stake_upto(op, field, max, k) >= target}
  IN IF target > 0 THEN CHOOSE k \in stops : \A j \in stops : k <= j ELSE 0

(* The classes from 1 on are added up until they exceed the target. *)
member_count(op, field, max) ==
  LET target == stake_target(op, field, max)
      stops == {k \in 0 .. max \div 2 : k = max \div 2 \/ stake_upto(op, field, max, k) > target}
  IN IF target > 0 THEN CHOOSE k \in stops : \A j \in stops : k <= j ELSE 0

(* More votes first, then the lower vote id. *)
Preferred(op, v, w) ==
  \/ vote_tally(op, v) > vote_tally(op, w)
  \/ vote_tally(op, v) = vote_tally(op, w) /\ v < w

ByVotes(op, S) == Ranked(S, LAMBDA v, w : Preferred(op, v, w))

sort_votable_objects(op, S, count) ==
  {w \in S : Cardinality({v \in S : Preferred(op, v, w)}) < count}

AtLeast(a, b) == IF a < b THEN b ELSE a
AtMost(a, b) == IF a < b THEN a ELSE b

update_active_witnesses(op, p) ==
  sort_votable_objects(op, Witnesses,
    AtLeast(2 * member_count(op, "num_witness", p.maximum_witness_count) + 1, MinWitnessCount))

update_active_committee_members(op, p) ==
  sort_votable_objects(op, CommitteeMembers,
    AtLeast(2 * member_count(op, "num_committee", p.maximum_committee_count) + 1,
            MinCommitteeCount))

----------------------------------------------------------------------------
(* The next maintenance after a block at time t; p already holds pending    *)
(* parameters.  num is the block's number.                                  *)

next_maintenance_time(next, p, num, t) ==
  IF num = 1 THEN (t \div p.maintenance_interval + 1) * p.maintenance_interval
             ELSE next + ((t - next) \div p.maintenance_interval + 1) * p.maintenance_interval

----------------------------------------------------------------------------
(* c is the core asset: current_supply, accumulated_fees, pending_fees of   *)
(* the accounts' statistics, and what accounts hold, vesting or not.        *)
cut_fee(a, percent) == (a * percent) \div 100

(* The shares of a fee; what an account of the chain would get leaves the   *)
(* supply (deposit_cashback).                                               *)
process_fees(c) ==
  LET network == cut_fee(c.pending_fees, FeePercent.network)
      lifetime == cut_fee(c.pending_fees, FeePercent.lifetime_referrer)
      referral == c.pending_fees - network - lifetime
      referrer == cut_fee(referral, FeePercent.referrer)
      Burned(r, share) == IF r \in Burners THEN share ELSE 0
      burned == Burned("lifetime_referrer", lifetime) + Burned("referrer", referrer)
                  + Burned("registrar", referral - referrer)
  IN [c EXCEPT !.pending_fees = 0,
               !.accumulated_fees = @ + network,
               !.held = @ + lifetime + referral - burned,
               !.current_supply = @ - burned]

(* initialize_budget_record: what may be spent.  Fees and the rest of the   *)
(* witness budget count as part of the reserve.                             *)
total_budget(c, d) ==
  LET reserve == MaxSupply - c.current_supply + c.accumulated_fees + d.witness_budget
      dt == d.time - d.last_budget_time
      rated == (reserve * dt * CycleRate + CycleUnit - 1) \div CycleUnit
  IN IF d.last_budget_time = 0 \/ dt <= 0 THEN 0
     ELSE AtMost(rated, reserve)

(* The workers paid, best supported first, each what the interval since     *)
(* the last budget earned it, while the budget lasts.                       *)
pay_workers(op, d, budget) ==
  LET due(w) == (Workers[w].daily_pay * (d.time - d.last_budget_time)) \div Day
      active == {w \in DOMAIN Workers : /\ Workers[w].begin <= d.time /\ d.time <= Workers[w].end
                                        /\ vote_tally(op, w) > 0}
      order == ByVotes(op, active)
      after[i \in 0 .. Len(order)] ==
        IF i = 0 THEN [left |-> budget, refunded |-> 0]
        ELSE LET pay == AtMost(after[i - 1].left, due(order[i]))
             IN [left |-> after[i - 1].left - pay,
                 refunded |-> after[i - 1].refunded
                                + IF Workers[order[i]].kind = "refund" THEN pay ELSE 0]
  IN after[Len(order)]

blocks_to_maint_Down(d, p) == (d.next_maintenance_time - d.time) \div p.block_interval

(* The maintenance block itself is paid from this budget too. *)
blocks_to_maint(d, p) ==
  (d.next_maintenance_time - d.time + p.block_interval - 1) \div p.block_interval

(* What the witnesses and the workers get of the funds. *)
Grants(op, d, p, funds) ==
  LET witness == AtMost(p.witness_pay_per_block * blocks_to_maint(d, p), funds)
      worker == AtMost((p.worker_budget_per_day * (d.next_maintenance_time - d.time)) \div Day,
                       funds - witness)
      paid == pay_workers(op, d, worker)
  IN [witness |-> witness, workers |-> worker - paid.left, refunded |-> paid.refunded]

(* The unused budget is added up instead of replaced. *)
process_budget_Added(c, d, g) ==
  [core |-> [c EXCEPT !.current_supply = @ - g.refunded + g.witness + g.workers
                                           - c.accumulated_fees - d.witness_budget,
                      !.accumulated_fees = 0,
                      !.held = @ + g.workers - g.refunded],
   dgp |-> [d EXCEPT !.witness_budget = @ + g.witness, !.last_budget_time = d.time]]

process_budget(c, d, g) ==
  [core |-> [c EXCEPT !.current_supply = @ - g.refunded + g.witness + g.workers
                                           - c.accumulated_fees - d.witness_budget,
                      !.accumulated_fees = 0,
                      !.held = @ + g.workers - g.refunded],
   dgp |-> [d EXCEPT !.witness_budget = g.witness, !.last_budget_time = d.time]]
=============================================================================
