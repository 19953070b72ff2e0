------------------------------- MODULE Ledger -------------------------------
(* The objects that move an account's money later: withdraw permissions,    *)
(* vesting balances, the balances of genesis, and proposals, whose          *)
(* transactions are executed when approved or when they expire.  Operators  *)
(* map the state of the objects to the one an evaluator leaves; ok turns    *)
(* FALSE where it throws, and then nothing of the operation remains.        *)
EXTENDS Vesting, FiniteSets, Sequences, SequencesExt, Functions

CONSTANTS
  Accounts,
  Controllers,                 \* accounts whose authority is enough, by account
  Committee, CommitteeReview,  \* and committee_proposal_review_period
  MaxProposalLifetime,         \* maximum_proposal_lifetime
  ClaimInterval,               \* between claims of a vesting genesis balance: a day
  Start,                       \* ledgers to begin with
  Transfers,                   \* [type, from, to, amount]
  Permissions,                 \* [from, to, limit, period, start, periods]
  Vestings,                    \* [owner, amount, policy]
  Cashbacks,                   \* [account, amount, seconds, require_vesting]
  Amounts,
  Proposals,                   \* [ops, lifetime, review]
  MaxOperations, MaxTime, MaxMissed   \* bounds

None == 0                      \* no object
Never == -1                    \* no review period

Positive == Nat \ {0}

(* The operations a proposal can hold. *)
Operations ==
  [type : {"transfer"}, from : Accounts, to : Accounts, amount : Positive]
  \cup [type : {"proposal_update"}, account : Accounts, proposal : Nat,
         add : SUBSET Accounts, remove : SUBSET Accounts]
  \cup [type : {"proposal_delete"}, account : Accounts, proposal : Nat]

LinearPolicies ==
  [type : {"linear"}, begin : Int, cliff : Nat, duration : Nat, begin_balance : Nat]
CddPolicies ==
  [type : {"cdd"}, seconds : Nat, start_claim : Int, earned : Int, last_update : Int]

(* The objects. *)
Permits ==
  [id : Nat, from : Accounts, to : Accounts, limit : Positive, period : Positive, start : Int,
   expiration : Int, claimed : Int, first : Int, carried : Int,
   claims : Seq([time : Int, amount : Int])]
VestingBalances ==
  [id : Nat, owner : Accounts, balance : Int, held : Int, granted : Int, withdrawn : Int,
   changed : Int, policy : LinearPolicies \cup CddPolicies]
GenesisBalances ==
  [id : Nat, balance : Int, held : Int, granted : Int, withdrawn : Int, changed : Int,
   last_claim : Int, policy : LinearPolicies \cup {[type |-> "none"]}]
ProposalObjects ==
  [id : Nat, ops : Seq(Operations), expiration : Int, review : Int, available : SUBSET Accounts]

(* What the evaluators work on: the objects, proposals executed so far, the *)
(* operations applied in this transaction or block, and whether none threw. *)
Ledgers ==
  [balance : [Accounts -> Int], fees : Int, burned : Int, permits : SUBSET Permits,
   vestings : SUBSET VestingBalances, genesis : SUBSET GenesisBalances,
   proposals : SUBSET ProposalObjects, last_id : Nat, cashback_vb : [Accounts -> Nat],
   executed : Seq([id : Nat, expiration : Int, review : Int]),
   applied_ops : Seq(Operations \cup {[type |-> "other"]}), ok : BOOLEAN]

ASSUME LedgerAssumption ==
  /\ Controllers \in [Accounts -> SUBSET Accounts] /\ Committee \in Accounts
  /\ IsFiniteSet(Accounts)
  /\ {CommitteeReview, MaxProposalLifetime, ClaimInterval, MaxOperations, MaxTime,
      MaxMissed} \subseteq Nat

(* What the validate functions ensure. *)
ASSUME OperationsAssumption ==
  /\ Transfers \subseteq {op \in Operations : op.type = "transfer"}
  /\ Permissions \subseteq [from : Accounts, to : Accounts, limit : Positive, period : Positive,
                            start : Nat, periods : Positive]
  /\ Vestings \subseteq [owner : Accounts, amount : Positive, policy : LinearPolicies \cup CddPolicies]
  /\ \A op \in Vestings : op.policy.type = "cdd" => op.policy.earned = 0
  /\ Cashbacks \subseteq [account : Accounts, amount : Nat, seconds : Nat, require_vesting : BOOLEAN]
  /\ Amounts \subseteq Positive
  /\ Proposals \subseteq [ops : Seq(Operations), lifetime : Nat, review : Nat \cup {Never}]

VARIABLES ledger, head_time, operations
vars == <<ledger, head_time, operations>>

Require(s, condition) == [s EXCEPT !.ok = @ /\ condition]
ById(S, i) == CHOOSE o \in S : o.id = i
Exists(S, i) == \E o \in S : o.id = i
Replaced(S, o) == {x \in S : x.id # o.id} \cup {o}
Removed(S, i) == {x \in S : x.id # i}
NewId(s) == s.last_id + 1

adjust_balance(s, a, n) ==
  Require([s EXCEPT !.balance[a] = @ + n], s.balance[a] + n >= 0)

(* The sum of the balances of a set. *)
Total(S) == SumFunction([b \in S |-> b.balance])

----------------------------------------------------------------------------
(* Transfers.                                                               *)
transfer(s, op) == adjust_balance(adjust_balance(s, op.from, -op.amount), op.to, op.amount)

----------------------------------------------------------------------------
(* Withdraw permissions.  The claims since the limit was last set are kept  *)
(* with a permission to compare claimed_this_period with.                   *)
withdraw_permission_create(s, op) ==
  [Require(s, op.start > head_time) EXCEPT !.last_id = @ + 1,
     !.permits = @ \cup {[id |-> NewId(s), from |-> op.from, to |-> op.to, limit |-> op.limit,
                          period |-> op.period, start |-> op.start,
                          expiration |-> op.start + op.periods * op.period,
                          claimed |-> 0, claims |-> <<>>, first |-> op.start, carried |-> 0]}]

available_this_period(p, now) ==
  IF now >= p.start + p.period THEN p.limit ELSE Max({p.limit - p.claimed, 0})

(* The new period begins with the claim. *)
ClaimedPeriod_Now(p) ==
  LET periods == (head_time - p.start) \div p.period
  IN  [p EXCEPT !.start = IF periods = 0 THEN @ ELSE head_time, !.claimed = IF periods = 0 THEN @ ELSE 0]

(* The period the time is in, and what was claimed in it. *)
ClaimedPeriod(p) ==
  LET periods == (head_time - p.start) \div p.period
  IN  [p EXCEPT !.start = @ + periods * p.period, !.claimed = IF periods = 0 THEN @ ELSE 0]

withdraw_permission_claim(s, p, n) ==
  LET claim == [ClaimedPeriod(p) EXCEPT !.claimed = @ + n,
                                        !.claims = Append(@, [time |-> head_time, amount |-> n])]
  IN  [adjust_balance(adjust_balance(
         Require(s, /\ p.expiration > head_time /\ p.start <= head_time
                    /\ n <= available_this_period(p, head_time)),
         p.from, -n), p.to, n) EXCEPT !.permits = Replaced(@, claim)]

(* claimed_this_period is left as it is. *)
withdraw_permission_update(s, p, op) ==
  [Require(s, op.start >= head_time) EXCEPT
     !.permits = Replaced(@, [p EXCEPT !.limit = op.limit, !.period = op.period, !.start = op.start,
                                       !.expiration = op.start + op.periods * op.period,
                                       !.claims = <<>>, !.first = op.start, !.carried = p.claimed])]

withdraw_permission_delete(s, p) == [s EXCEPT !.permits = Removed(@, p.id)]

update_withdraw_permissions(s, now) ==
  [s EXCEPT !.permits = {p \in @ : p.expiration > now}]

----------------------------------------------------------------------------
(* Vesting balances.                                                        *)
NewVesting(s, owner, n, policy, granted) ==
  [id |-> NewId(s), owner |-> owner, balance |-> n, policy |-> policy,
   held |-> 0, granted |-> granted, withdrawn |-> 0, changed |-> head_time]

vesting_balance_create(s, a, op) ==
  LET p == IF op.policy.type = "linear" THEN [op.policy EXCEPT !.begin_balance = op.amount]
           ELSE [op.policy EXCEPT !.last_update = head_time]
  IN  [adjust_balance(s, a, -op.amount) EXCEPT !.last_id = @ + 1,
         !.vestings = @ \cup {NewVesting(s, op.owner, op.amount, p, 0)}]

vesting_balance_withdraw(s, b, n) ==
  [adjust_balance(Require(s, n <= get_allowed_withdraw(b, head_time)), b.owner, n)
     EXCEPT !.vestings = Replaced(@, withdraw(b, head_time, n))]

(* Into the account's vesting balance, or a new one when that has another   *)
(* owner, policy or vesting time.                                           *)
deposit_lazy_vesting(s, id, n, seconds, owner, require_vesting) ==
  LET old == {b \in s.vestings : /\ b.id = id /\ b.owner = owner
                                 /\ b.policy.type = "cdd" /\ b.policy.seconds = seconds}
      b == CHOOSE x \in old : TRUE
      after == IF require_vesting THEN deposit(b, head_time, n) ELSE deposit_vested(b, head_time, n)
      earned == IF require_vesting THEN 0 ELSE n * seconds
      created == NewVesting(s, owner, n, cdd_vesting_policy(seconds, 0, earned, head_time),
                            IF require_vesting THEN 0 ELSE n)
  IN  IF old # {} THEN [s EXCEPT !.vestings = Replaced(@, after)]
      ELSE [s EXCEPT !.vestings = @ \cup {created}, !.last_id = @ + 1]

(* The fees that come back; the committee's are taken out of the supply. *)
deposit_cashback(s, op) ==
  LET t == deposit_lazy_vesting(s, s.cashback_vb[op.account], op.amount, op.seconds, op.account,
                                op.require_vesting)
      cashback_vb == IF t.last_id = s.last_id THEN s.cashback_vb
                     ELSE [s.cashback_vb EXCEPT ![op.account] = t.last_id]
      paid == [t EXCEPT !.fees = @ - op.amount, !.cashback_vb = cashback_vb]
  IN  IF op.account = Committee THEN [s EXCEPT !.fees = @ - op.amount, !.burned = @ + op.amount]
      ELSE paid

AfterClaim(S, b, n) ==
  IF b.policy.type = "linear" /\ n < b.balance
    THEN Replaced(S, [withdraw(b, head_time, n) EXCEPT !.last_claim = head_time])
    ELSE Removed(S, b.id)

(* A balance of genesis, b, with the key of a. *)
balance_claim(s, a, b, n) ==
  LET allowed == IF b.policy.type = "linear"
                   THEN /\ n <= linear_allowed(b, head_time)
                        /\ head_time - b.last_claim >= ClaimInterval
                   ELSE n = b.balance
  IN  [adjust_balance(Require(s, allowed), a, n) EXCEPT !.genesis = AfterClaim(@, b, n)]

----------------------------------------------------------------------------
(* Proposals.  Of the approvals only the active ones of accounts are kept.  *)
Signer(op) == IF op.type = "transfer" THEN op.from ELSE op.account
Signers(ops) == {Signer(op) : op \in Range(ops)}

proposal_create(s, op) ==
  LET fits == /\ op.lifetime > 0 /\ op.lifetime <= MaxProposalLifetime
              /\ op.review = Never \/ op.review < op.lifetime
              /\ Committee \in Signers(op.ops) => op.review # Never /\ op.review >= CommitteeReview
  IN  [Require(s, fits) EXCEPT !.last_id = @ + 1,
         !.proposals = @ \cup
           {[id |-> NewId(s), ops |-> op.ops, expiration |-> head_time + op.lifetime,
             review |-> IF op.review = Never THEN Never ELSE head_time + op.lifetime - op.review,
             available |-> {}]}]

is_authorized_to_execute(p) ==
  \A a \in Signers(p.ops) : ({a} \cup Controllers[a]) \cap p.available # {}

InReview(p, now) == p.review # Never /\ now >= p.review

(* A proposal that was removed, by its execution or an operation in it,     *)
(* cannot be changed any more.                                              *)
proposal_delete(s, op) ==
  LET p == ById(s.proposals, op.proposal)
  IN  IF Exists(s.proposals, op.proposal) /\ op.account \in Signers(p.ops)
        THEN [s EXCEPT !.proposals = Removed(@, p.id)]
        ELSE Require(s, FALSE)

(* The proposal stays. *)
Executed_Kept(s, p) ==
  [s EXCEPT !.executed = Append(@, [id |-> p.id, expiration |-> p.expiration, review |-> p.review])]

(* What was executed is kept, to tell what happens to a proposal. *)
Executed(s, p) ==
  [s EXCEPT !.proposals = Removed(@, p.id),
            !.executed = Append(@, [id |-> p.id, expiration |-> p.expiration, review |-> p.review])]

(* The states after each of the operations, of which apply is what they do. *)
AfterEach(apply, s, ops) ==
  LET after[i \in 0 .. Len(ops)] ==
        IF i = 0 THEN s ELSE IF after[i - 1].ok THEN apply[ops[i]][after[i - 1]] ELSE after[i - 1]
  IN  after

(* What was done before the operation that fails stays. *)
push_proposal_NoSession(apply, s, p) ==
  LET after == AfterEach(apply, s, p.ops)
      done == after[Len(p.ops)]
  IN  IF ~done.ok THEN [done EXCEPT !.balance = after[Len(p.ops) - 1].balance, !.ok = TRUE]
      ELSE Executed(done, p)

(* All of the operations in a session of their own, which is merged when    *)
(* the proposal is removed; when one throws, the session is undone and      *)
(* _applied_ops, what was applied, is cut back.                             *)
push_proposal(apply, s, p) ==
  LET done == AfterEach(apply, s, p.ops)[Len(p.ops)]
  IN  IF done.ok THEN Executed(done, p) ELSE Require(s, FALSE)

(* Executed as soon as it is approved, review period or not. *)
MayExecute_AnyTime(p) == is_authorized_to_execute(p)

MayExecute(p) == p.review = Never /\ is_authorized_to_execute(p)

(* A proposal that fails stays as it is, with the new approvals. *)
proposal_update(apply, s, op, now) ==
  LET p == ById(s.proposals, op.proposal)
      q == [p EXCEPT !.available = (@ \cup op.add) \ op.remove]
      modified == [s EXCEPT !.proposals = Replaced(@, q)]
      pushed == push_proposal(apply, modified, q)
  IN  IF ~Exists(s.proposals, op.proposal) THEN Require(s, FALSE)
      ELSE IF (InReview(p, now) /\ op.add # {}) \/ ~(op.remove \subseteq p.available)
        THEN Require(s, FALSE)
      ELSE IF MayExecute(q) /\ pushed.ok THEN pushed ELSE modified

evaluate(apply, s, op, now) ==
  LET t == [s EXCEPT !.applied_ops = Append(@, op)]
  IN  CASE op.type = "transfer" -> transfer(t, op)
        [] op.type = "proposal_update" -> proposal_update(apply, t, op, now)
        [] op.type = "proposal_delete" -> proposal_delete(t, op)

(* A proposal's operations may update other proposals, and execute them.    *)
(* Those are earlier ones, so that there is no operation at depth 0.        *)
Nested(depth, now) ==
  LET apply[d \in 0 .. depth] ==
        [op \in Operations |-> [s \in Ledgers |->
           IF d = 0 THEN Require(s, FALSE) ELSE evaluate(apply[d - 1], s, op, now)]]
  IN  apply[depth]

apply_operation(s, op, now) == evaluate(Nested(s.last_id, now), s, op, now)

(* The first by expiration, then by id. *)
FirstProposal(S) ==
  CHOOSE p \in S : \A q \in S : p.expiration < q.expiration
                                \/ (p.expiration = q.expiration /\ p.id <= q.id)

AtExpiration(s, p, now) ==
  LET pushed == push_proposal(Nested(s.last_id, now), s, p)
  IN  IF is_authorized_to_execute(p) /\ pushed.ok THEN pushed
      ELSE [s EXCEPT !.proposals = Removed(@, p.id)]

(* One at a time, as each may change or remove others. *)
clear_expired_proposals(s, now) ==
  LET expired(t) == {p \in t.proposals : p.expiration <= now}
      after[i \in 0 .. Cardinality(s.proposals)] ==
        IF i = 0 THEN s
        ELSE LET t == after[i - 1]
             IN IF expired(t) = {} THEN t ELSE AtExpiration(t, FirstProposal(expired(t)), now)
  IN  after[Cardinality(s.proposals)]

----------------------------------------------------------------------------
Init ==
  /\ ledger \in Start
  /\ head_time = 0
  /\ operations = 0

(* A transaction of one operation that is accepted. *)
Apply(s) ==
  /\ operations < MaxOperations
  /\ s.ok
  /\ ledger' = s
  /\ operations' = operations + 1
  /\ UNCHANGED head_time

(* _applied_ops before the transaction. *)
Begin == [ledger EXCEPT !.applied_ops = <<>>]
Other == [ledger EXCEPT !.applied_ops = <<[type |-> "other"]>>]

Operate(op) == Apply(apply_operation(Begin, op, head_time))

(* Proposals name only proposals that exist. *)
Propose(op) ==
  /\ \A i \in DOMAIN op.ops :
       op.ops[i].type # "transfer" => Exists(ledger.proposals, op.ops[i].proposal)
  /\ Apply(proposal_create(Other, op))

Approve(a, p, add) ==
  Operate([type |-> "proposal_update", account |-> a, proposal |-> p.id,
           add |-> IF add THEN {a} ELSE {}, remove |-> IF add THEN {} ELSE {a}])

Withdraw(p, n) == Apply(withdraw_permission_claim(Other, p, n))
Pay(op) == ledger.fees >= op.amount /\ Apply(deposit_cashback(Other, op))

(* The end of a block, slots may be missed before it, with the time each    *)
(* unit was held in a vesting balance.                                      *)
apply_block(now) ==
  LET held == [Begin EXCEPT !.vestings =
                 {[b EXCEPT !.held = @ + b.balance * (now - head_time)] : b \in @}]
  IN  /\ now <= MaxTime
      /\ ledger' = update_withdraw_permissions(clear_expired_proposals(held, now), now)
      /\ head_time' = now
      /\ UNCHANGED operations

Next ==
  \/ \E op \in Transfers : Operate(op)
  \/ \E op \in Permissions : Apply(withdraw_permission_create(Other, op))
  \/ \E p \in ledger.permits :
       \/ \E n \in Amounts : Withdraw(p, n)
       \/ \E op \in Permissions : /\ op.from = p.from /\ op.to = p.to
                                 /\ Apply(withdraw_permission_update(Other, p, op))
       \/ Apply(withdraw_permission_delete(Other, p))
  \/ \E a \in Accounts, op \in Vestings : Apply(vesting_balance_create(Other, a, op))
  \/ \E b \in ledger.vestings, n \in Amounts : Apply(vesting_balance_withdraw(Other, b, n))
  \/ \E op \in Cashbacks : Pay(op)
  \/ \E a \in Accounts, b \in ledger.genesis, n \in Amounts : Apply(balance_claim(Other, a, b, n))
  \/ \E op \in Proposals : Propose(op)
  \/ \E a \in Accounts, p \in ledger.proposals :
       \/ \E add \in BOOLEAN : Approve(a, p, add)
       \/ Operate([type |-> "proposal_delete", account |-> a, proposal |-> p.id])
  \/ \E missed \in 0 .. MaxMissed : apply_block(head_time + 1 + missed)

Spec == Init /\ [][Next]_vars

----------------------------------------------------------------------------
(* Balances are never overdrawn, coin seconds never negative. *)
TypeOK ==
  /\ ledger.balance \in [Accounts -> Nat]
  /\ ledger \in Ledgers
  /\ \A b \in ledger.vestings \cup ledger.genesis : b.balance \in Nat
  /\ \A b \in ledger.vestings : b.policy.type = "cdd" => b.policy.earned \in Nat
  /\ \A p \in ledger.permits : p.claimed \in Nat
  /\ ledger.ok /\ head_time \in 0 .. MaxTime /\ operations \in 0 .. MaxOperations

Money(s) ==
  SumFunction(s.balance) + s.fees + s.burned + Total(s.vestings) + Total(s.genesis)

UniqueIds(S, last) ==
  /\ IsFiniteSet(S)
  /\ \A o \in S : o.id <= last /\ \A x \in S : o.id = x.id => o = x

(* The proposals an operation names are older than n. *)
Names(op, n) == op.type # "transfer" => op.proposal < n

(* What was paid out of a balance had vested: see VestedOnly. *)
PaidWhenVested(b, now) ==
  CASE b.policy.type = "cdd" ->
         Needed(b, b.withdrawn) + compute_coin_seconds_earned(b, now) <= b.held + Needed(b, b.granted)
    [] b.policy.type = "linear" ->
         LET elapsed == Max({0, now - b.policy.begin})
         IN  /\ b.withdrawn * b.policy.duration <= b.policy.begin_balance * elapsed
             /\ elapsed < b.policy.cliff => b.withdrawn = 0
    [] OTHER -> TRUE

(* To begin with nothing is claimed, expired or executed, of a balance of   *)
(* genesis only what had vested is gone, and the same money is there in     *)
(* every case.                                                              *)
ASSUME StartAssumption ==
  \A s \in Start :
    /\ s \in Ledgers /\ s.ok /\ s.executed = <<>> /\ s.applied_ops = <<>>
    /\ \A a \in Accounts : s.balance[a] >= 0
    /\ s.fees >= 0
    /\ \A S \in {s.permits, s.genesis, s.proposals} : UniqueIds(S, s.last_id)
    /\ s.vestings = {}
    /\ \A p \in s.permits :
         p.claimed = 0 /\ p.claims = <<>> /\ p.carried = 0 /\ p.first = p.start /\ p.expiration > 0
    /\ \A b \in s.genesis :
         /\ b.balance > 0 /\ b.withdrawn >= 0 /\ PaidWhenVested(b, 0)
         /\ b.policy.type = "linear" => b.policy.begin_balance = b.balance + b.withdrawn
    /\ \A p \in s.proposals :
         p.expiration > 0 /\ \A i \in DOMAIN p.ops : Names(p.ops[i], p.id)
    /\ \A t \in Start : Money(t) = Money(s)

(* Claims, deposits, withdrawals and executed proposals move money and      *)
(* neither make nor lose any.                                               *)
Conserved == Money(ledger) = Money(CHOOSE s \in Start : TRUE)

ClaimedIn(p, k) ==
  LET in == {i \in DOMAIN p.claims : (p.claims[i].time - p.first) \div p.period = k}
  IN  SumFunction([i \in in |-> p.claims[i].amount])

(* withdraw_permission_object: "Any number of withdrawals may be made so    *)
(* long as the total amount withdrawn per period does not exceed the limit  *)
(* for any given period", with the periods counted from the start time, and *)
(* what is left of the limit may always be claimed.  An update carries what *)
(* was claimed before it over into its first period.                        *)
WithinLimit ==
  \A p \in ledger.permits :
    LET k == (head_time - p.first) \div p.period
        carried == IF k = 0 THEN p.carried ELSE 0
    IN  /\ \A i \in 0 .. MaxTime : ClaimedIn(p, i) <= p.limit
        /\ head_time >= p.first =>
             available_this_period(p, head_time) = Max({p.limit - carried - ClaimedIn(p, k), 0})

(* Nothing is withdrawn before it has vested: each unit paid out of a       *)
(* coin-seconds balance was paid for by seconds that units were really held *)
(* in it or by a deposit of vested money, although the seconds are counted  *)
(* only when the balance changes; of a linear balance at most the share of  *)
(* the time that has passed is paid out.                                    *)
VestedOnly == \A b \in ledger.vestings \cup ledger.genesis : PaidWhenVested(b, head_time)

(* is_withdraw_allowed asserts that never more than the balance may be      *)
(* withdrawn; and all of it may, once it was left alone for the whole time. *)
Withdrawable ==
  \A b \in ledger.vestings :
    LET allowed == get_allowed_withdraw(b, head_time)
        matured == IF b.policy.type = "linear"
                     THEN /\ head_time >= b.policy.begin + Max({b.policy.duration, b.policy.cliff})
                          /\ head_time > b.policy.begin
                     ELSE /\ head_time >= b.changed + Max({b.policy.seconds, 1})
                          /\ head_time > b.policy.start_claim
    IN  allowed \in 0 .. b.balance /\ (matured => allowed = b.balance)

(* The money in accounts, vesting and genesis balances is conserved, leaves *)
(* a vesting balance only when it has vested, and then may be withdrawn.    *)
MoneyKept == TypeOK /\ Conserved /\ VestedOnly /\ Withdrawable

(* A proposal is executed at most once, also when the execution of another  *)
(* approves it while both expire, and is gone after it.                     *)
ExecutedOnce ==
  /\ IsInjective([i \in DOMAIN ledger.executed |-> ledger.executed[i].id])
  /\ \A i \in DOMAIN ledger.executed : ~Exists(ledger.proposals, ledger.executed[i].id)

(* After a block nothing is left that has expired: a proposal that fails    *)
(* then is deleted ("Failed to apply proposed transaction on its            *)
(* expiration. Deleting it."), whatever the others did to the index.        *)
NoneExpired == \A o \in ledger.proposals \cup ledger.permits : o.expiration > head_time

(* clear_expired_proposals and proposal_update bring each proposal to one   *)
(* end: executed once, or deleted when it expires.                          *)
ProposalsEnd == ExecutedOnce /\ NoneExpired

(* "Proposals with a review period may never be executed except at their    *)
(* expiration", and no approval is added in the review period, also not by  *)
(* an operation of another proposal.                                        *)
ReviewRespected ==
  [][/\ \A i \in DOMAIN ledger'.executed \ DOMAIN ledger.executed :
         LET x == ledger'.executed[i] IN x.review # Never => head_time' >= x.expiration
     /\ \A p \in ledger.proposals, q \in ledger'.proposals :
         p.id = q.id /\ InReview(p, head_time') => q.available \subseteq p.available]_vars

Effect(op, a) ==
  IF op.type # "transfer" THEN 0
  ELSE (IF op.to = a THEN op.amount ELSE 0) - (IF op.from = a THEN op.amount ELSE 0)

(* A transaction or the end of a block changes the balances by exactly what *)
(* _applied_ops, from which histories are made, says: a proposal of which   *)
(* one operation fails leaves no trace of the others, in both.              *)
AllOrNothing ==
  [][ledger'.applied_ops # <<[type |-> "other"]>> =>
       \A a \in Accounts :
         ledger'.balance[a] - ledger.balance[a] =
           SumFunction([i \in DOMAIN ledger'.applied_ops |-> Effect(ledger'.applied_ops[i], a)])]_vars
=============================================================================
