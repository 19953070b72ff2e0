------------------------------ MODULE MCLedger ------------------------------
EXTENDS Ledger

(* Carol may act for alice. *)
MCControllers == [a \in Accounts |-> IF a = "alice" THEN {"carol"} ELSE {}]

Transfer(a, b, n) == [type |-> "transfer", from |-> a, to |-> b, amount |-> n]
MCTransfers == {Transfer("bob", "alice", 2), Transfer("alice", "bob", 1)}

MCPermissions ==
  {[from |-> "alice", to |-> "bob", limit |-> 1, period |-> 1, start |-> 1, periods |-> 2],
   [from |-> "alice", to |-> "bob", limit |-> 2, period |-> 2, start |-> 2, periods |-> 1]}

MCVestings ==
  {[owner |-> "bob", amount |-> 2, policy |-> linear_vesting_policy(1, 1, 2, 0)],
   [owner |-> "bob", amount |-> 2, policy |-> cdd_vesting_policy(2, 1, 0, 0)]}

MCCashbacks ==
  {[account |-> "bob", amount |-> 1, seconds |-> 2, require_vesting |-> TRUE],
   [account |-> "bob", amount |-> 1, seconds |-> 2, require_vesting |-> FALSE],
   [account |-> "bob", amount |-> 1, seconds |-> 0, require_vesting |-> FALSE],
   [account |-> "committee", amount |-> 1, seconds |-> 2, require_vesting |-> TRUE]}

Approval(a, i) ==
  [type |-> "proposal_update", account |-> a, proposal |-> i, add |-> {a}, remove |-> {}]
Both == <<Transfer("alice", "bob", 1), Transfer("alice", "carol", 2)>>

MCProposals ==
  {[ops |-> Both, lifetime |-> 2, review |-> 1],
   [ops |-> <<Approval("alice", 1), Transfer("carol", "bob", 1)>>, lifetime |-> 2, review |-> Never],
   [ops |-> <<Transfer("committee", "bob", 1)>>, lifetime |-> 2, review |-> 1]}

Empty ==
  [balance |-> [alice |-> 2, bob |-> 2, carol |-> 1, committee |-> 1], fees |-> 2, burned |-> 0,
   permits |-> {}, vestings |-> {}, genesis |-> {}, proposals |-> {}, last_id |-> 0,
   cashback_vb |-> [a \in Accounts |-> None], executed |-> <<>>, applied_ops |-> <<>>, ok |-> TRUE]

(* Alice lets bob withdraw. *)
Permitted ==
  [Empty EXCEPT !.last_id = 1,
     !.balance["alice"] = 4,
     !.permits = {[id |-> 1, from |-> "alice", to |-> "bob", limit |-> 2, period |-> 2, start |-> 0,
                   expiration |-> 6, claimed |-> 0, claims |-> <<>>, first |-> 0, carried |-> 0]}]

(* Two proposals: when the second is executed it approves the first. *)
Proposed ==
  [Empty EXCEPT !.last_id = 2,
     !.balance["alice"] = 4,
     !.proposals = {[id |-> 1, ops |-> Both, expiration |-> 2, review |-> Never, available |-> {}],
                    [id |-> 2, ops |-> <<Approval("alice", 1), Transfer("bob", "carol", 2)>>,
                     expiration |-> 1, review |-> Never, available |-> {}]}]

Balance(i, n, withdrawn, policy) ==
  [id |-> i, balance |-> n, policy |-> policy, held |-> 0, granted |-> 0, withdrawn |-> withdrawn,
   changed |-> 0, last_claim |-> -2]

(* Balances of genesis, of which one was already withdrawn from, and fees   *)
(* that come back.                                                          *)
Funded ==
  [Empty EXCEPT !.last_id = 2, !.balance["alice"] = 0, !.balance["bob"] = 0,
     !.balance["carol"] = 3, !.balance["committee"] = 0,
     !.genesis = {Balance(1, 3, 1, linear_vesting_policy(-1, 1, 3, 4)), Balance(2, 2, 0, [type |-> "none"])}]

MCStart == {Permitted, Proposed, Funded}
=============================================================================
