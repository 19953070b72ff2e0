---------------------------- MODULE MCProduction ----------------------------
EXTENDS Production

MCStake == <<1, 2>>
MCWorkers == (21 :> [begin |-> 0, end |-> 12, daily_pay |-> 2, kind |-> "refund"])
          @@ (22 :> [begin |-> 8, end |-> 20, daily_pay |-> 4, kind |-> "vesting"])
MCFeePercent == [network |-> 20, lifetime_referrer |-> 30, referrer |-> 50]
MCxorshift(time, i) == 7 * time + 3 * i + (time \div 3) * (i + 1)

(* A second, with a slot skipped after maintenance, and two seconds.       *)
P1 == [block_interval |-> 1, maintenance_interval |-> 4, maintenance_skip_slots |-> 1,
       witness_pay_per_block |-> 1, worker_budget_per_day |-> 4,
       maximum_witness_count |-> 5, maximum_committee_count |-> 3]
P2 == [block_interval |-> 2, maintenance_interval |-> 4, maintenance_skip_slots |-> 0,
       witness_pay_per_block |-> 2, worker_budget_per_day |-> 8,
       maximum_witness_count |-> 3, maximum_committee_count |-> 3]
MCParameters == {P1, P2}

Silent == [votes |-> {}, num_witness |-> 0, num_committee |-> 0, voting_account |-> self]
Few == [votes |-> {1, 2, 11, 21}, num_witness |-> 3, num_committee |-> 1, voting_account |-> self]
Many == [votes |-> {4, 5, 12, 22}, num_witness |-> 5, num_committee |-> 3, voting_account |-> self]
Proxy == [votes |-> {}, num_witness |-> 0, num_committee |-> 0, voting_account |-> 1]
MCOpinions == <<{Few}, {Many, Proxy}>>

MCStart == [parameters |-> P1, active |-> {1, 2, 3}, committee |-> {11}, supply |-> 20,
            opinion |-> Silent]
=============================================================================
