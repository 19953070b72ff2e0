---------------------------- MODULE LedgerProofs ----------------------------
(***************************************************************************)
(* What the operations of an account's later money do, whatever they are   *)
(* and whatever the ledger to begin with holds: money is conserved, leaves *)
(* a permission or a vesting balance only within its limit, and a proposal *)
(* is executed at most once, not before its review ends, and wholly or not *)
(* at all, however its operations update other proposals.                  *)
(***************************************************************************)
EXTENDS Ledger, SumsProofs, SequenceTheorems

-----------------------------------------------------------------------------
(* What operations say of the balances.                                     *)
AppliedOps == Operations \cup {[type |-> "other"]}
Effects(ops, a) == SumFunction([i \in DOMAIN ops |-> Effect(ops[i], a)])

LEMMA OperationIs ==
  ASSUME NEW op \in Operations
  PROVE  /\ op.type \in {"transfer", "proposal_update", "proposal_delete"}
         /\ op.type = "transfer" => op.from \in Accounts /\ op.to \in Accounts /\ op.amount \in Positive
         /\ op.type # "transfer" => op.account \in Accounts /\ op.proposal \in Nat
         /\ op.type = "proposal_update" => op.add \subseteq Accounts /\ op.remove \subseteq Accounts
BY DEF Operations

LEMMA EffectIsInt == \A op \in AppliedOps, a \in Accounts : Effect(op, a) \in Int
<1>1. SUFFICES ASSUME NEW op \in AppliedOps, NEW a \in Accounts PROVE Effect(op, a) \in Int
  OBVIOUS
<1>2. CASE op \in Operations
  <2>1. op.type = "transfer" => op.amount \in Positive
    BY <1>2, OperationIs
  <2> QED BY <2>1 DEF Effect, Positive
<1>3. CASE op = [type |-> "other"]
  BY <1>3 DEF Effect
<1> QED BY <1>1, <1>2, <1>3 DEF AppliedOps

LEMMA NoEffects == \A a : Effects(<<>>, a) = 0
<1>1. SUFFICES ASSUME NEW a PROVE Effects(<<>>, a) = 0
  OBVIOUS
<1> DEFINE f == [i \in DOMAIN <<>> |-> Effect(<<>>[i], a)]
<1>2. f \in [{} -> Int]
  OBVIOUS
<1> QED BY <1>2, SumOfNothing DEF Effects

(* One more operation adds its effect. *)
LEMMA EffectsAppend ==
  ASSUME NEW ops \in Seq(AppliedOps), NEW op \in AppliedOps, NEW a \in Accounts
  PROVE  /\ Effects(ops, a) \in Int
         /\ Effects(Append(ops, op), a) = Effects(ops, a) + Effect(op, a)
<1> DEFINE n == Len(ops)
           D == 1 .. n + 1
           x == n + 1
           f == [i \in D |-> Effect(Append(ops, op)[i], a)]
           e == [i \in Without(D, x) |-> Effect(ops[i], a)]
<1>1. n \in Nat /\ DOMAIN ops = 1 .. n /\ \A i \in 1 .. n : ops[i] \in AppliedOps
  BY LenProperties, ElementOfSeq
<1>2. /\ Len(Append(ops, op)) = n + 1 /\ DOMAIN Append(ops, op) = D
      /\ Append(ops, op)[x] = op /\ \A i \in 1 .. n : Append(ops, op)[i] = ops[i]
  BY <1>1, AppendProperties
<1>3. Without(D, x) = 1 .. n
  BY <1>1 DEF Without
<1>4. IsFiniteSet(D)
  BY <1>1, FS_Interval
<1>5. f \in [D -> Int]
  <2>1. SUFFICES ASSUME NEW i \in D PROVE Effect(Append(ops, op)[i], a) \in Int
    OBVIOUS
  <2>2. Append(ops, op)[i] \in AppliedOps
    BY <1>1, <1>2
  <2> QED BY <2>2, EffectIsInt
<1>6. e \in [Without(D, x) -> Int]
  BY <1>1, <1>3, EffectIsInt
<1>7. \A y \in Without(D, x) : e[y] = f[y]
  BY <1>2, <1>3
<1>8. SumFunction(f) \in Int /\ SumFunction(e) = SumFunction(f) - f[x]
  <2>1. x \in D
    BY <1>1
  <2> HIDE DEF D, f, e, x
  <2> QED BY <1>4, <1>5, <1>6, <1>7, <2>1, SumWithout
<1>9. Effects(ops, a) = SumFunction(e)
  BY <1>1, <1>3 DEF Effects
<1>10. Effects(Append(ops, op), a) = SumFunction(f)
  BY <1>2 DEF Effects
<1>11. f[x] = Effect(op, a) /\ Effect(op, a) \in Int
  BY <1>1, <1>2, EffectIsInt
<1> HIDE DEF D, f, e, x
<1> QED BY <1>8, <1>9, <1>10, <1>11

-----------------------------------------------------------------------------
(* What holds of a ledger between operations, and what an operation does to *)
(* it that names no proposal of n or later.                                 *)
(* executed has each id once, and no id of a proposal. *)
Once(s) ==
  /\ \A i, j \in DOMAIN s.executed : s.executed[i].id = s.executed[j].id => i = j
  /\ \A i \in DOMAIN s.executed : /\ s.executed[i].id <= s.last_id
                                  /\ ~Exists(s.proposals, s.executed[i].id)

(* The operations of a proposal name proposals that were there before it. *)
OlderNamed(s) == \A p \in s.proposals : \A i \in DOMAIN p.ops : Names(p.ops[i], p.id)

(* What push_proposal needs of a ledger, and keeps. *)
Sound(s) ==
  /\ s \in Ledgers /\ s.ok /\ \A a \in Accounts : s.balance[a] >= 0
  /\ UniqueIds(s.proposals, s.last_id) /\ OlderNamed(s) /\ Once(s)

(* The other objects are as before, *)
Untouched(s, t) ==
  /\ t.fees = s.fees /\ t.burned = s.burned /\ t.permits = s.permits /\ t.vestings = s.vestings
  /\ t.genesis = s.genesis /\ t.last_id = s.last_id /\ t.cashback_vb = s.cashback_vb

(* the balances changed by what _applied_ops says since, *)
Pays(s, t) ==
  /\ SumFunction(t.balance) = SumFunction(s.balance)
  /\ \A a \in Accounts :
       t.balance[a] - s.balance[a] = Effects(t.applied_ops, a) - Effects(s.applied_ops, a)

SameProposal(p, q, now) ==
  /\ q.id = p.id /\ q.ops = p.ops /\ q.expiration = p.expiration /\ q.review = p.review
  /\ InReview(p, now) => q.available \subseteq p.available

(* no proposal was added, none of n or later was changed, none in review   *)
(* got an approval,                                                         *)
Changes(s, t, now, n) ==
  /\ \A q \in t.proposals : \E p \in s.proposals : SameProposal(p, q, now)
  /\ \A p : p.id >= n => (p \in s.proposals <=> p \in t.proposals)

(* and what was executed had no review period or had expired. *)
Executes(s, t, now) ==
  /\ Len(s.executed) <= Len(t.executed)
  /\ \A i \in DOMAIN s.executed : t.executed[i] = s.executed[i]
  /\ \A i \in DOMAIN t.executed \ DOMAIN s.executed :
       t.executed[i].review = Never \/ t.executed[i].expiration <= now

Leads(s, t, now, n) ==
  Sound(t) /\ Untouched(s, t) /\ Pays(s, t) /\ Changes(s, t, now, n) /\ Executes(s, t, now)

LEMMA LedgerIs ==
  ASSUME NEW s \in Ledgers
  PROVE  /\ s.balance \in [Accounts -> Int] /\ s.fees \in Int /\ s.burned \in Int
         /\ s.permits \subseteq Permits /\ s.vestings \subseteq VestingBalances
         /\ s.genesis \subseteq GenesisBalances /\ s.proposals \subseteq ProposalObjects
         /\ s.last_id \in Nat /\ s.cashback_vb \in [Accounts -> Nat]
         /\ s.executed \in Seq([id : Nat, expiration : Int, review : Int])
         /\ s.applied_ops \in Seq(AppliedOps) /\ s.ok \in BOOLEAN
BY DEF Ledgers, AppliedOps

LEMMA EffectsInt ==
  ASSUME NEW s \in Ledgers, NEW a \in Accounts
  PROVE  Effects(s.applied_ops, a) \in Int /\ s.balance[a] \in Int
<1>1. s.applied_ops \in Seq(AppliedOps) /\ s.balance[a] \in Int
  BY LedgerIs
<1>2. [type |-> "other"] \in AppliedOps
  BY DEF AppliedOps
<1> QED BY <1>1, <1>2, EffectsAppend

LEMMA ProposalIs ==
  ASSUME NEW p \in ProposalObjects
  PROVE  /\ p.id \in Nat /\ p.ops \in Seq(Operations) /\ p.expiration \in Int /\ p.review \in Int
         /\ p.available \subseteq Accounts
         /\ Len(p.ops) \in Nat /\ DOMAIN p.ops = 1 .. Len(p.ops)
         /\ \A i \in 1 .. Len(p.ops) : p.ops[i] \in Operations
<1>1. p.ops \in Seq(Operations)
  BY DEF ProposalObjects
<1>2. Len(p.ops) \in Nat /\ DOMAIN p.ops = 1 .. Len(p.ops) /\ \A i \in 1 .. Len(p.ops) : p.ops[i] \in Operations
  BY <1>1, LenProperties, ElementOfSeq
<1> QED BY <1>1, <1>2 DEF ProposalObjects

LEMMA LeadsSelf ==
  ASSUME NEW s, Sound(s), NEW now, NEW n
  PROVE  Leads(s, s, now, n)
<1>1. s \in Ledgers
  BY DEF Sound
<1>2. Pays(s, s)
  BY <1>1, EffectsInt DEF Pays
<1>3. Len(s.executed) \in Nat
  BY <1>1, LedgerIs, LenProperties
<1> QED BY <1>2, <1>3 DEF Leads, Untouched, Changes, SameProposal, Executes

(* One operation after another. *)
LEMMA LeadsOn ==
  ASSUME NEW s, NEW t, NEW u, NEW now, NEW m \in Nat, NEW n \in Nat, m <= n,
         Sound(s), Leads(s, t, now, m), Leads(t, u, now, n)
  PROVE  Leads(s, u, now, n)
<1>1. s \in Ledgers /\ t \in Ledgers /\ u \in Ledgers /\ Sound(t) /\ Sound(u)
  BY DEF Leads, Sound
<1>2. Untouched(s, u)
  BY DEF Leads, Untouched
<1>3. Pays(s, u)
  <2>1. SumFunction(u.balance) = SumFunction(s.balance)
    BY DEF Leads, Pays
  <2>2. ASSUME NEW a \in Accounts
        PROVE  u.balance[a] - s.balance[a] = Effects(u.applied_ops, a) - Effects(s.applied_ops, a)
    <3>1. /\ t.balance[a] - s.balance[a] = Effects(t.applied_ops, a) - Effects(s.applied_ops, a)
          /\ u.balance[a] - t.balance[a] = Effects(u.applied_ops, a) - Effects(t.applied_ops, a)
      BY DEF Leads, Pays
    <3>2. /\ Effects(s.applied_ops, a) \in Int /\ s.balance[a] \in Int
          /\ Effects(t.applied_ops, a) \in Int /\ t.balance[a] \in Int
          /\ Effects(u.applied_ops, a) \in Int /\ u.balance[a] \in Int
      BY <1>1, EffectsInt
    <3> QED BY <3>1, <3>2
  <2> QED BY <2>1, <2>2 DEF Pays
<1>4. Changes(s, u, now, n)
  <2>1. ASSUME NEW q \in u.proposals PROVE \E p \in s.proposals : SameProposal(p, q, now)
    <3>1. PICK r \in t.proposals : SameProposal(r, q, now)
      BY DEF Leads, Changes
    <3>2. PICK p \in s.proposals : SameProposal(p, r, now)
      BY DEF Leads, Changes
    <3>3. SameProposal(p, q, now)
      BY <3>1, <3>2 DEF SameProposal, InReview
    <3> QED BY <3>3
  <2>2. ASSUME NEW p, p.id >= n PROVE p \in s.proposals <=> p \in u.proposals
    <3>1. p \in t.proposals <=> p \in u.proposals
      BY <2>2 DEF Leads, Changes
    <3>2. ASSUME p \in s.proposals \/ p \in t.proposals PROVE p \in s.proposals <=> p \in t.proposals
      <4>1. p.id \in Nat
        BY <1>1, <3>2, LedgerIs, ProposalIs
      <4>2. p.id >= m
        BY <2>2, <4>1
      <4> QED BY <4>2 DEF Leads, Changes
    <3> QED BY <3>1, <3>2
  <2> QED BY <2>1, <2>2 DEF Changes
<1>5. Executes(s, u, now)
  <2>1. /\ Len(s.executed) \in Nat /\ DOMAIN s.executed = 1 .. Len(s.executed)
        /\ Len(t.executed) \in Nat /\ DOMAIN t.executed = 1 .. Len(t.executed)
        /\ Len(u.executed) \in Nat /\ DOMAIN u.executed = 1 .. Len(u.executed)
    BY <1>1, LedgerIs, LenProperties
  <2>2. Executes(s, t, now) /\ Executes(t, u, now)
    BY DEF Leads
  <2>3. Len(s.executed) <= Len(u.executed)
    BY <2>1, <2>2 DEF Executes
  <2>4. \A i \in DOMAIN s.executed : u.executed[i] = s.executed[i]
    BY <2>1, <2>2 DEF Executes
  <2>5. ASSUME NEW i \in DOMAIN u.executed \ DOMAIN s.executed
        PROVE  u.executed[i].review = Never \/ u.executed[i].expiration <= now
    BY <2>1, <2>2 DEF Executes
  <2> QED BY <2>3, <2>4, <2>5 DEF Executes
<1> QED BY <1>1, <1>2, <1>3, <1>4, <1>5 DEF Leads

-----------------------------------------------------------------------------
(* The balances after a transfer. *)
LEMMA AdjustIs ==
  ASSUME NEW s \in Ledgers, NEW a \in Accounts, NEW n \in Int
  PROVE  /\ adjust_balance(s, a, n) \in Ledgers
         /\ adjust_balance(s, a, n).balance = [s.balance EXCEPT ![a] = @ + n]
         /\ adjust_balance(s, a, n).ok = (s.ok /\ s.balance[a] + n >= 0)
         /\ Untouched(s, adjust_balance(s, a, n))
         /\ adjust_balance(s, a, n).proposals = s.proposals
         /\ adjust_balance(s, a, n).executed = s.executed
         /\ adjust_balance(s, a, n).applied_ops = s.applied_ops
<1>1. s.balance \in [Accounts -> Int] /\ s.ok \in BOOLEAN
  BY LedgerIs
<1>2. [s.balance EXCEPT ![a] = @ + n] \in [Accounts -> Int]
  BY <1>1
<1>3. (s.ok /\ s.balance[a] + n >= 0) \in BOOLEAN
  BY <1>1
<1>4. adjust_balance(s, a, n)
        = [s EXCEPT !.balance = [s.balance EXCEPT ![a] = @ + n], !.ok = s.ok /\ s.balance[a] + n >= 0]
  BY DEF adjust_balance, Require, Ledgers
<1> DEFINE b == [s.balance EXCEPT ![a] = @ + n]
           k == s.ok /\ s.balance[a] + n >= 0
<1> HIDE DEF b, k
<1>5. [s EXCEPT !.balance = b, !.ok = k] \in Ledgers
  BY <1>2, <1>3 DEF b, k, Ledgers
<1> QED BY <1>4, <1>5 DEF b, k, Ledgers, Untouched

LEMMA BalanceSum ==
  ASSUME NEW s \in Ledgers, NEW a \in Accounts, NEW n \in Int
  PROVE  /\ SumFunction(s.balance) \in Int
         /\ SumFunction([s.balance EXCEPT ![a] = @ + n]) = SumFunction(s.balance) + n
<1> DEFINE f == s.balance
           e == [s.balance EXCEPT ![a] = @ + n]
<1>1. f \in [Accounts -> Int] /\ IsFiniteSet(Accounts)
  BY LedgerIs, LedgerAssumption
<1>2. e \in [Accounts -> Int] /\ e[a] = f[a] + n /\ \A y \in Without(Accounts, a) : e[y] = f[y]
  BY <1>1 DEF Without
<1> HIDE DEF f, e
<1>3. SumFunction(e) = SumFunction(f) + e[a] - f[a]
  BY <1>1, <1>2, SumWith
<1>4. SumFunction(f) \in Int /\ f[a] \in Int
  BY <1>1, SumIsInt
<1> QED BY <1>2, <1>3, <1>4 DEF e, f

(* A transfer that does not throw. *)
LEMMA TransferIs ==
  ASSUME NEW s \in Ledgers, \A a \in Accounts : s.balance[a] >= 0,
         NEW op \in Operations, op.type = "transfer", NEW t, t = transfer(s, op)
  PROVE  /\ t \in Ledgers /\ Untouched(s, t)
         /\ t.proposals = s.proposals /\ t.executed = s.executed /\ t.applied_ops = s.applied_ops
         /\ SumFunction(t.balance) = SumFunction(s.balance)
         /\ \A a \in Accounts : t.balance[a] - s.balance[a] = Effect(op, a)
         /\ t.ok => s.ok /\ \A a \in Accounts : t.balance[a] >= 0
<1>1. op.from \in Accounts /\ op.to \in Accounts /\ op.amount \in Int /\ op.amount > 0
      /\ -op.amount \in Int
  BY OperationIs DEF Positive
<1> DEFINE u == adjust_balance(s, op.from, -op.amount)
<1>2. /\ u \in Ledgers /\ u.balance = [s.balance EXCEPT ![op.from] = @ + (-op.amount)]
      /\ u.ok = (s.ok /\ s.balance[op.from] + (-op.amount) >= 0)
      /\ Untouched(s, u) /\ u.proposals = s.proposals /\ u.executed = s.executed
      /\ u.applied_ops = s.applied_ops
  BY <1>1, AdjustIs
<1> HIDE DEF u
<1>3. t = adjust_balance(u, op.to, op.amount)
  BY DEF transfer, u
<1> DEFINE v == adjust_balance(u, op.to, op.amount)
<1>31. /\ v \in Ledgers /\ v.balance = [u.balance EXCEPT ![op.to] = @ + op.amount]
       /\ v.ok = (u.ok /\ u.balance[op.to] + op.amount >= 0)
       /\ Untouched(u, v) /\ v.proposals = u.proposals /\ v.executed = u.executed
       /\ v.applied_ops = u.applied_ops
  <2>1. u \in Ledgers /\ op.to \in Accounts /\ op.amount \in Int
    BY <1>1, <1>2
  <2> QED BY ONLY <2>1, AdjustIs
<1>4. /\ t \in Ledgers /\ t.balance = [u.balance EXCEPT ![op.to] = @ + op.amount]
      /\ t.ok = (u.ok /\ u.balance[op.to] + op.amount >= 0)
      /\ Untouched(u, t) /\ t.proposals = u.proposals /\ t.executed = u.executed
      /\ t.applied_ops = u.applied_ops
  <2> HIDE DEF v
  <2> QED BY <1>3, <1>31 DEF v
<1>5. SumFunction(t.balance) = SumFunction(s.balance)
  <2>1. /\ SumFunction(s.balance) \in Int
        /\ SumFunction([s.balance EXCEPT ![op.from] = @ + (-op.amount)]) = SumFunction(s.balance) + (-op.amount)
    BY <1>1, BalanceSum
  <2>2. SumFunction([u.balance EXCEPT ![op.to] = @ + op.amount]) = SumFunction(u.balance) + op.amount
    BY <1>1, <1>2, BalanceSum
  <2>3. SumFunction(u.balance) = SumFunction(s.balance) + (-op.amount)
    BY <1>2, <2>1
  <2>4. SumFunction(t.balance) = SumFunction(u.balance) + op.amount
    BY <1>4, <2>2
  <2> QED BY <1>1, <2>1, <2>3, <2>4
<1>6. s.balance \in [Accounts -> Int] /\ u.balance \in [Accounts -> Int]
  BY <1>2, LedgerIs
<1>7. ASSUME NEW a \in Accounts
      PROVE  t.balance[a] - s.balance[a] = Effect(op, a)
  <2>1. u.balance[a] = s.balance[a] - (IF a = op.from THEN op.amount ELSE 0)
    BY <1>1, <1>2, <1>6
  <2>2. t.balance[a] = u.balance[a] + (IF a = op.to THEN op.amount ELSE 0)
    BY <1>1, <1>4, <1>6
  <2>3. s.balance[a] \in Int /\ u.balance[a] \in Int
    BY <1>6
  <2> QED BY <1>1, <2>1, <2>2, <2>3 DEF Effect
<1>8. ASSUME t.ok, NEW a \in Accounts
      PROVE  t.balance[a] >= 0
  <2>1. u.balance[a] >= 0
    BY <1>1, <1>2, <1>4, <1>6, <1>8
  <2> QED BY <1>1, <1>4, <1>6, <2>1
<1>9. t.ok => s.ok
  BY <1>2, <1>4
<1>10. Untouched(s, t)
  BY <1>2, <1>4 DEF Untouched
<1> QED BY <1>2, <1>4, <1>5, <1>7, <1>8, <1>9, <1>10

(* The operation is listed first. *)
Listed(s, op) == [s EXCEPT !.applied_ops = Append(@, op)]

LEMMA ListedIs ==
  ASSUME NEW s \in Ledgers, NEW op \in Operations
  PROVE  /\ Listed(s, op) \in Ledgers /\ Listed(s, op).balance = s.balance
         /\ Listed(s, op).ok = s.ok /\ Untouched(s, Listed(s, op))
         /\ Listed(s, op).proposals = s.proposals /\ Listed(s, op).executed = s.executed
         /\ Listed(s, op).applied_ops = Append(s.applied_ops, op)
<1>1. Append(s.applied_ops, op) \in Seq(AppliedOps)
  <2>1. s.applied_ops \in Seq(AppliedOps) /\ op \in AppliedOps
    BY LedgerIs DEF AppliedOps
  <2> QED BY <2>1, AppendProperties
<1> DEFINE l == Append(s.applied_ops, op)
<1> HIDE DEF l
<1>2. [s EXCEPT !.applied_ops = l] \in Ledgers
  BY <1>1 DEF l, Ledgers, AppliedOps
<1>3. Listed(s, op) = [s EXCEPT !.applied_ops = l]
  BY DEF Listed, l
<1> QED BY <1>2, <1>3 DEF Ledgers, Untouched, l

LEMMA ListedEffects ==
  ASSUME NEW s \in Ledgers, NEW op \in Operations, NEW a \in Accounts
  PROVE  Effects(Append(s.applied_ops, op), a) = Effects(s.applied_ops, a) + Effect(op, a)
<1>1. s.applied_ops \in Seq(AppliedOps) /\ op \in AppliedOps
  BY LedgerIs DEF AppliedOps
<1> QED BY <1>1, EffectsAppend

(* What does not disturb the proposals. *)
LEMMA SoundWith ==
  ASSUME NEW s, Sound(s), NEW t \in Ledgers, t.ok, \A a \in Accounts : t.balance[a] >= 0,
         t.proposals = s.proposals, t.executed = s.executed, s.last_id <= t.last_id
  PROVE  Sound(t)
<1>1. s.last_id \in Nat /\ t.last_id \in Nat /\ s.executed \in Seq([id : Nat, expiration : Int, review : Int])
      /\ s.proposals \subseteq ProposalObjects
  BY LedgerIs DEF Sound
<1>2. \A i \in DOMAIN s.executed : s.executed[i].id \in Nat
  <2>1. \A i \in DOMAIN s.executed : s.executed[i] \in [id : Nat, expiration : Int, review : Int]
    BY <1>1, LenProperties, ElementOfSeq
  <2> QED BY <2>1
<1>3. \A p \in s.proposals : p.id \in Nat
  BY <1>1, ProposalIs
<1>4. UniqueIds(t.proposals, t.last_id)
  BY <1>1, <1>3 DEF Sound, UniqueIds
<1>5. Once(t)
  <2>1. ASSUME NEW i \in DOMAIN t.executed PROVE t.executed[i].id <= t.last_id
    <3>1. i \in DOMAIN s.executed /\ s.executed[i].id <= s.last_id
      BY DEF Sound, Once
    <3>2. s.executed[i].id \in Nat
      BY <1>2, <3>1
    <3> DEFINE x == s.executed[i].id
    <3>3. t.executed[i].id = x /\ x \in Nat /\ x <= s.last_id /\ s.last_id <= t.last_id
          /\ s.last_id \in Nat /\ t.last_id \in Nat
      BY <1>1, <3>1, <3>2
    <3> HIDE DEF x
    <3> QED BY ONLY <3>3
  <2>2. \A i \in DOMAIN t.executed : ~Exists(t.proposals, t.executed[i].id)
    BY DEF Sound, Once
  <2>3. \A i, j \in DOMAIN t.executed : t.executed[i].id = t.executed[j].id => i = j
    BY DEF Sound, Once
  <2> QED BY <2>1, <2>2, <2>3 DEF Once
<1>6. OlderNamed(t)
  BY DEF Sound, OlderNamed
<1> QED BY <1>4, <1>5, <1>6 DEF Sound

LEMMA SameProposals ==
  ASSUME NEW s \in Ledgers, NEW t, t.proposals = s.proposals, t.executed = s.executed, NEW now, NEW n
  PROVE  Changes(s, t, now, n) /\ Executes(s, t, now)
<1>1. Len(s.executed) \in Nat
  BY LedgerIs, LenProperties
<1> QED BY <1>1 DEF Changes, Executes, SameProposal

(* A transfer that is applied, alone or in a proposal. *)
LEMMA TransferLeads ==
  ASSUME NEW s, Sound(s), NEW op \in Operations, op.type = "transfer", NEW now, NEW n,
         NEW t, t = transfer(Listed(s, op), op), t.ok
  PROVE  Leads(s, t, now, n)
<1> DEFINE u == Listed(s, op)
<1>1. s \in Ledgers /\ \A a \in Accounts : s.balance[a] >= 0
  BY DEF Sound
<1>2. /\ u \in Ledgers /\ u.balance = s.balance /\ Untouched(s, u)
      /\ u.proposals = s.proposals /\ u.executed = s.executed
      /\ u.applied_ops = Append(s.applied_ops, op)
  BY <1>1, ListedIs
<1> HIDE DEF u
<1>3. t = transfer(u, op)
  BY DEF u
<1>4. /\ t \in Ledgers /\ Untouched(u, t)
      /\ t.proposals = u.proposals /\ t.executed = u.executed /\ t.applied_ops = u.applied_ops
      /\ SumFunction(t.balance) = SumFunction(u.balance)
      /\ \A a \in Accounts : t.balance[a] - u.balance[a] = Effect(op, a)
      /\ \A a \in Accounts : t.balance[a] >= 0
  BY <1>1, <1>2, <1>3, TransferIs
<1>5. Untouched(s, t)
  BY <1>2, <1>4 DEF Untouched
<1>6. Sound(t)
  <2>1. s.last_id <= t.last_id
    BY <1>1, <1>5, LedgerIs DEF Untouched
  <2> QED BY <1>2, <1>4, <2>1, SoundWith
<1>7. Pays(s, t)
  <2>1. ASSUME NEW a \in Accounts
        PROVE  t.balance[a] - s.balance[a] = Effects(t.applied_ops, a) - Effects(s.applied_ops, a)
    <3>1. Effects(t.applied_ops, a) = Effects(s.applied_ops, a) + Effect(op, a)
      BY <1>1, <1>2, <1>4, ListedEffects
    <3>2. t.balance[a] - s.balance[a] = Effect(op, a)
      BY <1>2, <1>4
    <3>3. Effects(s.applied_ops, a) \in Int /\ Effect(op, a) \in Int
      BY <1>1, EffectsInt, EffectIsInt DEF AppliedOps
    <3> QED BY <3>1, <3>2, <3>3
  <2> QED BY <1>2, <1>4, <2>1 DEF Pays
<1>8. Changes(s, t, now, n) /\ Executes(s, t, now)
  BY <1>1, <1>2, <1>4, SameProposals
<1> QED BY <1>5, <1>6, <1>7, <1>8 DEF Leads

-----------------------------------------------------------------------------
(* What apply, the operations at a depth, must do for a proposal to be      *)
(* pushed with it.                                                          *)
Good(apply, now) ==
  /\ apply \in [Operations -> [Ledgers -> Ledgers]]
  /\ \A op \in Operations, s \in Ledgers, n \in Nat :
       Sound(s) /\ Names(op, n) /\ apply[op][s].ok => Leads(s, apply[op][s], now, n)

(* The states after each of the operations, until one throws. *)
LEMMA AfterEachIs ==
  ASSUME NEW apply \in [Operations -> [Ledgers -> Ledgers]], NEW s \in Ledgers, NEW ops \in Seq(Operations),
         NEW after, after = AfterEach(apply, s, ops)
  PROVE  /\ after \in [0 .. Len(ops) -> Ledgers] /\ after[0] = s
         /\ \A i \in 1 .. Len(ops) :
              after[i] = IF after[i - 1].ok THEN apply[ops[i]][after[i - 1]] ELSE after[i - 1]
<1> DEFINE n == Len(ops)
           step == [i \in 1 .. n |-> [x \in Ledgers |-> IF x.ok THEN apply[ops[i]][x] ELSE x]]
           Eqn(g) == g = [i \in 0 .. n |-> IF i = 0 THEN s ELSE IF g[i - 1].ok THEN apply[ops[i]][g[i - 1]] ELSE g[i - 1]]
           c == CHOOSE g : Eqn(g)
<1>1. n \in Nat /\ \A i \in 1 .. n : ops[i] \in Operations
  BY LenProperties, ElementOfSeq
<1>2. step \in [1 .. n -> [Ledgers -> Ledgers]]
  BY <1>1
<1>3. Iterates(n, Ledgers, s, step)
  <2> HIDE DEF n, step
  <2> QED BY <1>1, <1>2, Iteration
<1>4. PICK f \in [0 .. n -> Ledgers] : f[0] = s /\ \A i \in 1 .. n : f[i] = step[i][f[i - 1]]
  BY <1>3 DEF Iterates
<1>5. Eqn(f)
  <2>1. ASSUME NEW i \in 1 .. n
        PROVE  f[i] = IF f[i - 1].ok THEN apply[ops[i]][f[i - 1]] ELSE f[i - 1]
    <3>1. i - 1 \in 0 .. n
      BY <1>1
    <3>2. f[i - 1] \in Ledgers
      BY <1>4, <3>1
    <3> QED BY <1>4, <3>2
  <2>2. \A i \in 0 .. n : f[i] = IF i = 0 THEN s ELSE IF f[i - 1].ok THEN apply[ops[i]][f[i - 1]] ELSE f[i - 1]
    <3>1. \A i \in 0 .. n : i = 0 \/ i \in 1 .. n
      BY <1>1
    <3> QED BY <1>4, <2>1, <3>1
  <2> QED BY <1>4, <2>2
<1>6. Eqn(c)
  BY <1>5
<1>7. after = c
  BY DEF AfterEach
<1> HIDE DEF c
<1>8. c[0] = s /\ \A i \in 1 .. n : c[i] = IF c[i - 1].ok THEN apply[ops[i]][c[i - 1]] ELSE c[i - 1]
  BY <1>1, <1>6
<1>9. ASSUME NEW i \in 1 .. n, c[i - 1] \in Ledgers
      PROVE  c[i] \in Ledgers
  <2>1. ops[i] \in Operations /\ c[i] = IF c[i - 1].ok THEN apply[ops[i]][c[i - 1]] ELSE c[i - 1]
    BY <1>1, <1>8
  <2>2. apply[ops[i]] \in [Ledgers -> Ledgers]
    BY <2>1
  <2>3. apply[ops[i]][c[i - 1]] \in Ledgers
    BY <1>9, <2>2
  <2> QED BY <1>9, <2>1, <2>3
<1>10. \A i \in 0 .. n : c[i] \in Ledgers
  <2> HIDE DEF n
  <2> QED BY <1>1, <1>8, <1>9, StaysIn
<1>11. c \in [0 .. n -> Ledgers]
  BY <1>6, <1>10
<1> QED BY <1>7, <1>8, <1>11

LEMMA ExecutedIs ==
  ASSUME NEW s \in Ledgers, NEW p \in ProposalObjects
  PROVE  /\ Executed(s, p) \in Ledgers /\ Executed(s, p).balance = s.balance
         /\ Executed(s, p).ok = s.ok /\ Untouched(s, Executed(s, p))
         /\ Executed(s, p).proposals = Removed(s.proposals, p.id)
         /\ Executed(s, p).applied_ops = s.applied_ops
         /\ Executed(s, p).executed
              = Append(s.executed, [id |-> p.id, expiration |-> p.expiration, review |-> p.review])
<1> DEFINE S == Removed(s.proposals, p.id)
           x == [id |-> p.id, expiration |-> p.expiration, review |-> p.review]
           e == Append(s.executed, x)
<1>1. S \subseteq ProposalObjects
  BY LedgerIs DEF Removed
<1>2. e \in Seq([id : Nat, expiration : Int, review : Int])
  <2>1. x \in [id : Nat, expiration : Int, review : Int]
    BY ProposalIs
  <2>2. s.executed \in Seq([id : Nat, expiration : Int, review : Int])
    BY LedgerIs
  <2> HIDE DEF x
  <2> QED BY <2>1, <2>2, AppendProperties
<1>3. Executed(s, p) = [s EXCEPT !.proposals = S, !.executed = e]
  BY DEF Executed, Ledgers
<1> HIDE DEF S, e
<1>4. [s EXCEPT !.proposals = S, !.executed = e] \in Ledgers
  BY <1>1, <1>2 DEF Ledgers
<1> QED BY <1>3, <1>4 DEF Ledgers, Untouched, S, e

(* The proposal is removed and kept among the executed. *)
LEMMA ExecutedLeads ==
  ASSUME NEW s, Sound(s), NEW p \in s.proposals, NEW now, p.review = Never \/ p.expiration <= now
  PROVE  Leads(s, Executed(s, p), now, p.id + 1)
<1> DEFINE t == Executed(s, p)
           x == [id |-> p.id, expiration |-> p.expiration, review |-> p.review]
           n == Len(s.executed)
<1>1. s \in Ledgers /\ p \in ProposalObjects /\ p.id \in Nat /\ s.last_id \in Nat
  BY LedgerIs, ProposalIs DEF Sound
<1>2. /\ t \in Ledgers /\ t.balance = s.balance /\ t.ok = s.ok /\ Untouched(s, t)
      /\ t.proposals = Removed(s.proposals, p.id) /\ t.applied_ops = s.applied_ops
      /\ t.executed = Append(s.executed, x)
  BY <1>1, ExecutedIs
<1> HIDE DEF t, x
<1>3. /\ n \in Nat /\ DOMAIN s.executed = 1 .. n
      /\ Len(t.executed) = n + 1 /\ DOMAIN t.executed = 1 .. n + 1
      /\ t.executed[n + 1] = x /\ \A i \in 1 .. n : t.executed[i] = s.executed[i]
  <2>1. x \in [id : Nat, expiration : Int, review : Int]
    BY <1>1, ProposalIs DEF x
  <2>2. s.executed \in Seq([id : Nat, expiration : Int, review : Int])
    BY <1>1, LedgerIs
  <2>3. DOMAIN s.executed = 1 .. n /\ n \in Nat
    BY <2>2, LenProperties
  <2> QED BY <1>2, <2>1, <2>2, <2>3, AppendProperties
<1> HIDE DEF n
<1>4. x.id = p.id /\ x.expiration = p.expiration /\ x.review = p.review
  BY DEF x
<1>5. \A r : r \in t.proposals <=> r \in s.proposals /\ r.id # p.id
  BY <1>2 DEF Removed
<1>6. UniqueIds(t.proposals, t.last_id)
  <2>1. IsFiniteSet(t.proposals)
    <3>1. t.proposals \subseteq s.proposals /\ IsFiniteSet(s.proposals)
      BY <1>5 DEF Sound, UniqueIds
    <3> QED BY <3>1, FS_Subset
  <2>2. t.last_id = s.last_id
    BY <1>2 DEF Untouched
  <2> QED BY <1>5, <2>1, <2>2 DEF Sound, UniqueIds
<1>7. OlderNamed(t)
  BY <1>5 DEF Sound, OlderNamed
<1>8. Once(t)
  <2>1. Exists(s.proposals, p.id) /\ ~Exists(t.proposals, p.id)
    BY <1>5 DEF Exists
  <2>2. \A i : Exists(t.proposals, i) => Exists(s.proposals, i)
    BY <1>5 DEF Exists
  <2>3. t.last_id = s.last_id /\ p.id <= s.last_id
    BY <1>2 DEF Untouched, Sound, UniqueIds
  <2>4. \A i \in 1 .. n : /\ s.executed[i].id <= s.last_id /\ ~Exists(s.proposals, s.executed[i].id)
                          /\ \A j \in 1 .. n : s.executed[i].id = s.executed[j].id => i = j
    BY <1>3 DEF Sound, Once
  <2>5. \A i \in 1 .. n + 1 : i = n + 1 \/ i \in 1 .. n
    BY <1>3
  <2>6. \A i \in 1 .. n : s.executed[i].id # p.id
    BY <2>1, <2>4
  <2>7. ASSUME NEW i \in 1 .. n + 1
        PROVE  t.executed[i].id <= t.last_id /\ ~Exists(t.proposals, t.executed[i].id)
    <3>1. CASE i = n + 1
      BY <1>3, <1>4, <2>1, <2>3, <3>1
    <3>2. CASE i \in 1 .. n
      BY <1>3, <2>2, <2>3, <2>4, <3>2
    <3> QED BY <2>5, <3>1, <3>2
  <2>8. ASSUME NEW i \in 1 .. n + 1, NEW j \in 1 .. n + 1, t.executed[i].id = t.executed[j].id
        PROVE  i = j
    <3>1. CASE i \in 1 .. n /\ j \in 1 .. n
      BY <1>3, <2>4, <2>8, <3>1
    <3>2. CASE i = n + 1 /\ j \in 1 .. n
      BY <1>3, <1>4, <2>6, <2>8, <3>2
    <3>3. CASE j = n + 1 /\ i \in 1 .. n
      BY <1>3, <1>4, <2>6, <2>8, <3>3
    <3> QED BY <2>5, <3>1, <3>2, <3>3
  <2> QED BY <1>3, <2>7, <2>8 DEF Once
<1>9. Sound(t)
  BY <1>2, <1>6, <1>7, <1>8 DEF Sound
<1>10. Pays(s, t)
  BY <1>1, <1>2, EffectsInt DEF Pays
<1>11. Changes(s, t, now, p.id + 1)
  <2>1. \A q \in t.proposals : q \in s.proposals /\ SameProposal(q, q, now)
    BY <1>5 DEF SameProposal
  <2>2. \A r : r.id >= p.id + 1 => r.id # p.id
    BY <1>1
  <2> QED BY <1>5, <2>1, <2>2 DEF Changes
<1>12. Executes(s, t, now)
  <2>1. \A i \in (1 .. n + 1) \ (1 .. n) : i = n + 1
    BY <1>3
  <2>2. n <= n + 1
    BY <1>3
  <2> QED BY <1>3, <1>4, <2>1, <2>2 DEF Executes, n
<1> QED BY <1>2, <1>9, <1>10, <1>11, <1>12 DEF Leads, t

LEMMA RefusedIs ==
  ASSUME NEW s \in Ledgers
  PROVE  Require(s, FALSE) \in Ledgers /\ ~Require(s, FALSE).ok
BY DEF Require, Ledgers

LEMMA PushIs ==
  ASSUME NEW apply \in [Operations -> [Ledgers -> Ledgers]], NEW s \in Ledgers, NEW p \in ProposalObjects
  PROVE  push_proposal(apply, s, p) \in Ledgers
<1> DEFINE after == AfterEach(apply, s, p.ops)
<1>1. p.ops \in Seq(Operations) /\ Len(p.ops) \in Nat
  BY ProposalIs
<1>2. after \in [0 .. Len(p.ops) -> Ledgers]
  BY <1>1, AfterEachIs
<1>3. after[Len(p.ops)] \in Ledgers
  BY <1>1, <1>2
<1> HIDE DEF after
<1>4. push_proposal(apply, s, p) = IF after[Len(p.ops)].ok THEN Executed(after[Len(p.ops)], p) ELSE Require(s, FALSE)
  BY DEF push_proposal, after
<1>5. Executed(after[Len(p.ops)], p) \in Ledgers
  BY <1>3, ExecutedIs
<1>6. Require(s, FALSE) \in Ledgers
  BY RefusedIs
<1> QED BY <1>4, <1>5, <1>6

(* A proposal that is pushed without an exception. *)
LEMMA PushLeads ==
  ASSUME NEW now, NEW apply, Good(apply, now), NEW s, Sound(s), NEW p \in s.proposals,
         p.review = Never \/ p.expiration <= now, push_proposal(apply, s, p).ok
  PROVE  Leads(s, push_proposal(apply, s, p), now, p.id + 1)
<1> DEFINE after == AfterEach(apply, s, p.ops)
           n == Len(p.ops)
           X == {x \in Ledgers : x.ok => Leads(s, x, now, p.id)}
<1>1. s \in Ledgers /\ p \in ProposalObjects /\ apply \in [Operations -> [Ledgers -> Ledgers]]
  BY LedgerIs DEF Sound, Good
<1>2. p.id \in Nat /\ p.ops \in Seq(Operations) /\ n \in Nat /\ \A i \in 1 .. n : p.ops[i] \in Operations
  BY <1>1, ProposalIs
<1>3. /\ after \in [0 .. n -> Ledgers] /\ after[0] = s
      /\ \A i \in 1 .. n : after[i] = IF after[i - 1].ok THEN apply[p.ops[i]][after[i - 1]] ELSE after[i - 1]
  BY <1>1, <1>2, AfterEachIs
<1>4. after[n] \in Ledgers
  BY <1>2, <1>3
<1>5. push_proposal(apply, s, p) = IF after[n].ok THEN Executed(after[n], p) ELSE Require(s, FALSE)
  BY DEF push_proposal
<1> HIDE DEF after
<1>6. after[0] \in X
  BY <1>1, <1>3, LeadsSelf
<1>7. ASSUME NEW i \in 1 .. n, after[i - 1] \in X
      PROVE  after[i] \in X
  <2>1. after[i] \in Ledgers /\ after[i - 1] \in Ledgers
    BY <1>2, <1>3
  <2>2. CASE ~after[i - 1].ok
    BY <1>3, <1>7, <2>2
  <2>3. CASE after[i - 1].ok
    <3>1. after[i] = apply[p.ops[i]][after[i - 1]] /\ p.ops[i] \in Operations
      BY <1>2, <1>3, <2>3
    <3>2. Leads(s, after[i - 1], now, p.id)
      BY <1>7, <2>3
    <3>3. Sound(after[i - 1])
      BY <3>2 DEF Leads
    <3>4. Names(p.ops[i], p.id)
      <4>1. DOMAIN p.ops = 1 .. n
        BY <1>1, ProposalIs
      <4> QED BY <4>1 DEF Sound, OlderNamed
    <3>5. ASSUME after[i].ok PROVE Leads(s, after[i], now, p.id)
      <4>1. Leads(after[i - 1], after[i], now, p.id)
        BY <1>2, <2>1, <3>1, <3>3, <3>4, <3>5 DEF Good
      <4>2. p.id <= p.id
        BY <1>2
      <4> QED BY <1>2, <3>2, <4>1, <4>2, LeadsOn
    <3> QED BY <2>1, <3>5
  <2> QED BY <2>2, <2>3
<1>8. after[n] \in X
  <2> HIDE DEF X, n
  <2>1. \A i \in 0 .. n : after[i] \in X
    BY <1>2, <1>6, <1>7, StaysIn
  <2> QED BY <1>2, <2>1
<1>9. after[n].ok
  BY <1>1, <1>5, RefusedIs
<1>10. Leads(s, after[n], now, p.id)
  BY <1>8, <1>9
<1>11. p \in after[n].proposals /\ Sound(after[n])
  <2>1. p.id >= p.id
    BY <1>2
  <2> QED BY <1>10, <2>1 DEF Leads, Changes
<1>12. Leads(after[n], Executed(after[n], p), now, p.id + 1)
  BY <1>11, ExecutedLeads
<1>13. p.id + 1 \in Nat /\ p.id <= p.id + 1
  BY <1>2
<1>14. Leads(s, Executed(after[n], p), now, p.id + 1)
  BY <1>2, <1>10, <1>12, <1>13, LeadsOn
<1> QED BY <1>5, <1>9, <1>14

-----------------------------------------------------------------------------
(* The proposals changed. *)
With(s, S) == [s EXCEPT !.proposals = S]

LEMMA WithIs ==
  ASSUME NEW s \in Ledgers, NEW S, S \subseteq ProposalObjects
  PROVE  /\ With(s, S) \in Ledgers /\ With(s, S).balance = s.balance
         /\ With(s, S).ok = s.ok /\ Untouched(s, With(s, S))
         /\ With(s, S).proposals = S /\ With(s, S).applied_ops = s.applied_ops
         /\ With(s, S).executed = s.executed
BY DEF With, Ledgers, Untouched

LEMMA ByIdIs ==
  ASSUME NEW S, NEW i, Exists(S, i)
  PROVE  ById(S, i) \in S /\ ById(S, i).id = i
BY DEF Exists, ById

(* None is added, but some are removed. *)
LEMMA RemovedLeads ==
  ASSUME NEW s, Sound(s), NEW p \in s.proposals, NEW now
  PROVE  Leads(s, With(s, Removed(s.proposals, p.id)), now, p.id + 1)
<1> DEFINE S == Removed(s.proposals, p.id)
           t == With(s, S)
<1>1. s \in Ledgers /\ p \in ProposalObjects /\ p.id \in Nat
  BY LedgerIs, ProposalIs DEF Sound
<1>2. \A r : r \in S <=> r \in s.proposals /\ r.id # p.id
  BY DEF Removed
<1> HIDE DEF S
<1>3. S \subseteq ProposalObjects /\ S \subseteq s.proposals
  BY <1>1, <1>2, LedgerIs
<1>4. /\ t \in Ledgers /\ t.balance = s.balance /\ t.ok = s.ok /\ Untouched(s, t)
      /\ t.proposals = S /\ t.applied_ops = s.applied_ops /\ t.executed = s.executed
  BY <1>1, <1>3, WithIs
<1> HIDE DEF t
<1>5. UniqueIds(t.proposals, t.last_id)
  <2>1. IsFiniteSet(s.proposals) /\ IsFiniteSet(S)
    BY <1>3, FS_Subset DEF Sound, UniqueIds
  <2> QED BY <1>3, <1>4, <2>1 DEF Sound, UniqueIds, Untouched
<1>6. OlderNamed(t)
  BY <1>3, <1>4 DEF Sound, OlderNamed
<1>7. Once(t)
  <2>1. \A i : Exists(t.proposals, i) => Exists(s.proposals, i)
    BY <1>3, <1>4 DEF Exists
  <2>2. t.last_id = s.last_id
    BY <1>4 DEF Untouched
  <2> QED BY <1>4, <2>1, <2>2 DEF Sound, Once
<1>8. Sound(t)
  BY <1>4, <1>5, <1>6, <1>7 DEF Sound
<1>9. Pays(s, t)
  BY <1>1, <1>4, EffectsInt DEF Pays
<1>10. Changes(s, t, now, p.id + 1)
  <2>1. \A q \in t.proposals : q \in s.proposals /\ SameProposal(q, q, now)
    BY <1>3, <1>4 DEF SameProposal
  <2>2. \A r : r.id >= p.id + 1 => r.id # p.id
    BY <1>1
  <2> QED BY <1>2, <1>4, <2>1, <2>2 DEF Changes
<1>11. Executes(s, t, now)
  BY <1>1, <1>4, SameProposals, LedgerIs, LenProperties DEF Executes
<1> QED BY <1>4, <1>8, <1>9, <1>10, <1>11 DEF Leads, t, S

(* New approvals. *)
LEMMA ReplacedLeads ==
  ASSUME NEW s, Sound(s), NEW p \in s.proposals, NEW now, NEW q \in ProposalObjects,
         SameProposal(p, q, now)
  PROVE  Leads(s, With(s, Replaced(s.proposals, q)), now, p.id + 1)
<1> DEFINE S == Replaced(s.proposals, q)
           t == With(s, S)
<1>1. s \in Ledgers /\ p \in ProposalObjects /\ p.id \in Nat /\ s.last_id \in Nat
  BY LedgerIs, ProposalIs DEF Sound
<1>2. \A r : r \in S <=> r = q \/ (r \in s.proposals /\ r.id # p.id)
  BY DEF Replaced, SameProposal
<1> HIDE DEF S
<1>3. S \subseteq ProposalObjects
  BY <1>1, <1>2, LedgerIs
<1>4. /\ t \in Ledgers /\ t.balance = s.balance /\ t.ok = s.ok /\ Untouched(s, t)
      /\ t.proposals = S /\ t.applied_ops = s.applied_ops /\ t.executed = s.executed
  BY <1>1, <1>3, WithIs
<1> HIDE DEF t
<1>5. UniqueIds(t.proposals, t.last_id)
  <2>1. IsFiniteSet(S)
    <3>1. IsFiniteSet(s.proposals)
      BY DEF Sound, UniqueIds
    <3>2. S \subseteq s.proposals \cup {q} /\ IsFiniteSet(s.proposals \cup {q})
      BY <1>2, <3>1, FS_AddElement
    <3> QED BY <3>2, FS_Subset
  <2>2. t.last_id = s.last_id
    BY <1>4 DEF Untouched
  <2>3. q.id = p.id /\ q.id <= s.last_id
    BY DEF SameProposal, Sound, UniqueIds
  <2>4. \A o \in s.proposals : o.id <= s.last_id /\ \A x \in s.proposals : o.id = x.id => o = x
    BY DEF Sound, UniqueIds
  <2>5. \A o \in S : o.id <= s.last_id /\ \A x \in S : o.id = x.id => o = x
    BY <1>2, <2>3, <2>4
  <2> QED BY <1>4, <2>1, <2>2, <2>5 DEF UniqueIds
<1>6. OlderNamed(t)
  <2>1. \A i \in DOMAIN q.ops : Names(q.ops[i], q.id)
    BY DEF SameProposal, Sound, OlderNamed
  <2> QED BY <1>2, <1>4, <2>1 DEF Sound, OlderNamed
<1>7. Once(t)
  <2>1. \A i : Exists(t.proposals, i) => Exists(s.proposals, i)
    BY <1>2, <1>4 DEF Exists, SameProposal
  <2>2. t.last_id = s.last_id
    BY <1>4 DEF Untouched
  <2> QED BY <1>4, <2>1, <2>2 DEF Sound, Once
<1>8. Sound(t)
  BY <1>4, <1>5, <1>6, <1>7 DEF Sound
<1>9. Pays(s, t)
  BY <1>1, <1>4, EffectsInt DEF Pays
<1>10. Changes(s, t, now, p.id + 1)
  <2>1. \A r \in t.proposals : \E o \in s.proposals : SameProposal(o, r, now)
    <3>1. \A o : SameProposal(o, o, now)
      BY DEF SameProposal
    <3> QED BY <1>2, <1>4, <3>1
  <2>2. ASSUME NEW r, r.id >= p.id + 1 PROVE r \in s.proposals <=> r \in t.proposals
    <3>1. r.id # p.id /\ r # q
      BY <1>1, <2>2 DEF SameProposal
    <3> QED BY <1>2, <1>4, <3>1
  <2> QED BY <2>1, <2>2 DEF Changes
<1>11. Executes(s, t, now)
  <2>1. Len(s.executed) \in Nat
    BY <1>1, LedgerIs, LenProperties
  <2> QED BY <1>4, <2>1 DEF Executes
<1> QED BY <1>4, <1>8, <1>9, <1>10, <1>11 DEF Leads, t, S

LEMMA LeadsMore ==
  ASSUME NEW s, NEW t, NEW now, NEW m \in Nat, NEW n \in Nat, m <= n, Sound(s), Leads(s, t, now, m)
  PROVE  Leads(s, t, now, n)
<1>1. Leads(t, t, now, n)
  BY LeadsSelf DEF Leads
<1> QED BY <1>1, LeadsOn

(* What proposal_update makes of a proposal. *)
Approved(p, op) == [p EXCEPT !.available = (@ \cup op.add) \ op.remove]

LEMMA ApprovedIs ==
  ASSUME NEW p \in ProposalObjects, NEW op \in Operations, op.type = "proposal_update"
  PROVE  /\ Approved(p, op) \in ProposalObjects /\ Approved(p, op).id = p.id
         /\ Approved(p, op).ops = p.ops /\ Approved(p, op).expiration = p.expiration
         /\ Approved(p, op).review = p.review
         /\ Approved(p, op).available = (p.available \cup op.add) \ op.remove
<1>1. op.add \subseteq Accounts /\ p.available \subseteq Accounts
  BY OperationIs, ProposalIs
<1> DEFINE A == (p.available \cup op.add) \ op.remove
<1>2. A \in SUBSET Accounts
  BY <1>1
<1>3. Approved(p, op) = [p EXCEPT !.available = A]
  BY DEF Approved, ProposalObjects
<1> HIDE DEF A
<1>4. [p EXCEPT !.available = A] \in ProposalObjects
  BY <1>2 DEF ProposalObjects
<1> QED BY <1>3, <1>4 DEF ProposalObjects, A

UpdateIs(apply, s, op, now, t) ==
  LET p == ById(s.proposals, op.proposal)
      q == Approved(p, op)
      u == With(s, Replaced(s.proposals, q))
  IN  \/ t = Require(s, FALSE)
      \/ /\ Exists(s.proposals, op.proposal)
         /\ InReview(p, now) => op.add = {}
         /\ \/ t = u
            \/ MayExecute(q) /\ push_proposal(apply, u, q).ok /\ t = push_proposal(apply, u, q)

LEMMA UpdateCases ==
  ASSUME NEW apply, NEW s, NEW op, NEW now
  PROVE  UpdateIs(apply, s, op, now, proposal_update(apply, s, op, now))
BY DEF UpdateIs, proposal_update, Approved, With

LEMMA UpdateTyped ==
  ASSUME NEW apply \in [Operations -> [Ledgers -> Ledgers]], NEW s \in Ledgers,
         NEW op \in Operations, op.type = "proposal_update", NEW now
  PROVE  proposal_update(apply, s, op, now) \in Ledgers
<1> DEFINE p == ById(s.proposals, op.proposal)
           q == Approved(p, op)
           S == Replaced(s.proposals, q)
           u == With(s, S)
           t == proposal_update(apply, s, op, now)
<1>1. UpdateIs(apply, s, op, now, t)
  BY UpdateCases
<1>2. CASE t = Require(s, FALSE)
  BY <1>2, RefusedIs
<1>3. CASE Exists(s.proposals, op.proposal)
  <2>1. p \in ProposalObjects
    BY <1>3, ByIdIs, LedgerIs
  <2> HIDE DEF p
  <2>2. q \in ProposalObjects
    BY <2>1, ApprovedIs
  <2> HIDE DEF q
  <2>3. S \subseteq ProposalObjects
    BY <2>2, LedgerIs DEF Replaced
  <2> HIDE DEF S
  <2>4. u \in Ledgers
    BY <2>3, WithIs
  <2> HIDE DEF u
  <2>5. push_proposal(apply, u, q) \in Ledgers
    BY <2>2, <2>4, PushIs
  <2>6. t = Require(s, FALSE) \/ t = u \/ t = push_proposal(apply, u, q)
    BY <1>1 DEF UpdateIs, u, S, q, p
  <2>7. Require(s, FALSE) \in Ledgers
    BY RefusedIs
  <2> HIDE DEF t
  <2> QED BY <2>4, <2>5, <2>6, <2>7 DEF t
<1> QED BY <1>1, <1>2, <1>3 DEF UpdateIs

(* proposal_update changes the approvals, or executes the proposal. *)
LEMMA UpdateLeads ==
  ASSUME NEW now, NEW apply, Good(apply, now), NEW s, Sound(s),
         NEW op \in Operations, op.type = "proposal_update", NEW n \in Nat, op.proposal < n,
         NEW t, t = proposal_update(apply, s, op, now), t.ok
  PROVE  Leads(s, t, now, n)
<1> DEFINE p == ById(s.proposals, op.proposal)
           q == Approved(p, op)
           u == With(s, Replaced(s.proposals, q))
<1>1. UpdateIs(apply, s, op, now, t)
  BY UpdateCases
<1>2. s \in Ledgers
  BY DEF Sound
<1>3. t # Require(s, FALSE)
  BY <1>2, RefusedIs
<1>4. InReview(p, now) => op.add = {}
  BY <1>1, <1>3 DEF UpdateIs
<1>5. t = u \/ (MayExecute(q) /\ push_proposal(apply, u, q).ok /\ t = push_proposal(apply, u, q))
  BY <1>1, <1>3 DEF UpdateIs
<1>6. Exists(s.proposals, op.proposal)
  BY <1>1, <1>3 DEF UpdateIs
<1>7. p \in s.proposals /\ p.id = op.proposal
  BY <1>6, ByIdIs
<1>8. p \in ProposalObjects /\ p.id \in Nat /\ p.id + 1 \in Nat /\ p.id + 1 <= n
  BY <1>2, <1>7, LedgerIs, ProposalIs
<1> HIDE DEF p
<1>9. /\ q \in ProposalObjects /\ q.id = p.id /\ q.ops = p.ops /\ q.expiration = p.expiration
      /\ q.review = p.review /\ q.available = (p.available \cup op.add) \ op.remove
  BY <1>8, ApprovedIs
<1> HIDE DEF q
<1>10. SameProposal(p, q, now)
  BY <1>4, <1>6, <1>9 DEF SameProposal
<1>11. Leads(s, u, now, p.id + 1)
  BY <1>7, <1>9, <1>10, ReplacedLeads
<1>12. q \in u.proposals /\ Sound(u)
  <2>1. Replaced(s.proposals, q) \subseteq ProposalObjects /\ q \in Replaced(s.proposals, q)
    BY <1>2, <1>9, LedgerIs DEF Replaced
  <2>2. u.proposals = Replaced(s.proposals, q)
    BY <1>2, <2>1, WithIs
  <2> QED BY <1>11, <2>1, <2>2 DEF Leads
<1> HIDE DEF u
<1>13. CASE t = u
  BY <1>8, <1>11, <1>13, LeadsMore
<1>14. CASE MayExecute(q) /\ push_proposal(apply, u, q).ok /\ t = push_proposal(apply, u, q)
  <2>1. q.review = Never
    BY <1>14 DEF MayExecute
  <2>2. Leads(u, t, now, p.id + 1)
    BY <1>9, <1>12, <1>14, <2>1, PushLeads
  <2>3. p.id + 1 <= p.id + 1
    BY <1>8
  <2>4. Leads(s, t, now, p.id + 1)
    BY <1>8, <1>11, <2>2, <2>3, LeadsOn
  <2> QED BY <1>8, <2>4, LeadsMore
<1> QED BY <1>5, <1>13, <1>14

LEMMA ListedLeads ==
  ASSUME NEW s, Sound(s), NEW op \in Operations, op.type # "transfer", NEW now, NEW n
  PROVE  Leads(s, Listed(s, op), now, n)
<1> DEFINE t == Listed(s, op)
<1>1. s \in Ledgers /\ s.ok /\ \A a \in Accounts : s.balance[a] >= 0
  BY DEF Sound
<1>2. /\ t \in Ledgers /\ t.balance = s.balance /\ t.ok = s.ok /\ Untouched(s, t)
      /\ t.proposals = s.proposals /\ t.executed = s.executed
      /\ t.applied_ops = Append(s.applied_ops, op)
  BY <1>1, ListedIs
<1> HIDE DEF t
<1>3. Sound(t)
  <2>1. s.last_id <= t.last_id
    BY <1>1, <1>2, LedgerIs DEF Untouched
  <2> QED BY <1>1, <1>2, <2>1, SoundWith
<1>4. Pays(s, t)
  <2>1. ASSUME NEW a \in Accounts
        PROVE  t.balance[a] - s.balance[a] = Effects(t.applied_ops, a) - Effects(s.applied_ops, a)
    <3>1. Effects(t.applied_ops, a) = Effects(s.applied_ops, a) + Effect(op, a)
      BY <1>1, <1>2, ListedEffects
    <3>2. Effect(op, a) = 0
      BY DEF Effect
    <3> QED BY <1>1, <1>2, <3>1, <3>2, EffectsInt
  <2> QED BY <1>2, <2>1 DEF Pays
<1>5. Changes(s, t, now, n) /\ Executes(s, t, now)
  BY <1>1, <1>2, SameProposals
<1> QED BY <1>2, <1>3, <1>4, <1>5 DEF Leads, t

DeleteIs(s, op, t) ==
  LET p == ById(s.proposals, op.proposal)
  IN  \/ t = Require(s, FALSE)
      \/ Exists(s.proposals, op.proposal) /\ t = With(s, Removed(s.proposals, p.id))

LEMMA DeleteCases ==
  ASSUME NEW s, NEW op
  PROVE  DeleteIs(s, op, proposal_delete(s, op))
BY DEF DeleteIs, proposal_delete, With

(* proposal_delete removes it, when a signer asks for it. *)
LEMMA DeleteLeads ==
  ASSUME NEW now, NEW s, Sound(s),
         NEW op \in Operations, op.type = "proposal_delete", NEW n \in Nat, op.proposal < n,
         NEW t, t = proposal_delete(s, op), t.ok
  PROVE  Leads(s, t, now, n)
<1> DEFINE p == ById(s.proposals, op.proposal)
<1>1. DeleteIs(s, op, t)
  BY DeleteCases
<1>2. s \in Ledgers
  BY DEF Sound
<1>3. t # Require(s, FALSE)
  BY <1>2, RefusedIs
<1>4. Exists(s.proposals, op.proposal)
  BY <1>1, <1>3 DEF DeleteIs
<1>5. t = With(s, Removed(s.proposals, p.id))
  BY <1>1, <1>3 DEF DeleteIs
<1>6. p \in s.proposals /\ p.id = op.proposal
  BY <1>4, ByIdIs
<1>7. p.id \in Nat /\ p.id + 1 \in Nat /\ p.id + 1 <= n
  <2>1. p \in ProposalObjects
    BY <1>2, <1>6, LedgerIs
  <2> HIDE DEF p
  <2>2. p.id \in Nat
    BY <2>1, ProposalIs
  <2> QED BY <1>6, <2>2
<1> HIDE DEF p
<1>8. Leads(s, t, now, p.id + 1)
  BY <1>5, <1>6, RemovedLeads
<1> QED BY <1>7, <1>8, LeadsMore

LEMMA DeleteTyped ==
  ASSUME NEW s \in Ledgers, NEW op
  PROVE  proposal_delete(s, op) \in Ledgers
<1> DEFINE S == Removed(s.proposals, ById(s.proposals, op.proposal).id)
<1>1. S \subseteq ProposalObjects
  BY LedgerIs DEF Removed
<1> HIDE DEF S
<1>2. With(s, S) \in Ledgers /\ Require(s, FALSE) \in Ledgers
  BY <1>1, WithIs, RefusedIs
<1>3. proposal_delete(s, op) = Require(s, FALSE) \/ proposal_delete(s, op) = With(s, S)
  BY DeleteCases DEF DeleteIs, S
<1> QED BY <1>2, <1>3

LEMMA EvaluateIs ==
  ASSUME NEW apply, NEW s, NEW op \in Operations, NEW now
  PROVE  /\ op.type = "transfer" => evaluate(apply, s, op, now) = transfer(Listed(s, op), op)
         /\ op.type = "proposal_update" =>
              evaluate(apply, s, op, now) = proposal_update(apply, Listed(s, op), op, now)
         /\ op.type = "proposal_delete" => evaluate(apply, s, op, now) = proposal_delete(Listed(s, op), op)
BY OperationIs DEF evaluate, Listed

LEMMA EvaluateTyped ==
  ASSUME NEW apply \in [Operations -> [Ledgers -> Ledgers]], NEW s \in Ledgers,
         NEW op \in Operations, NEW now
  PROVE  evaluate(apply, s, op, now) \in Ledgers
<1>1. Listed(s, op) \in Ledgers
  BY ListedIs
<1>2. CASE op.type = "transfer"
  <2>1. op.from \in Accounts /\ op.to \in Accounts /\ op.amount \in Int /\ -op.amount \in Int
    BY <1>2, OperationIs DEF Positive
  <2>2. adjust_balance(Listed(s, op), op.from, -op.amount) \in Ledgers
    BY <1>1, <2>1, AdjustIs
  <2>3. transfer(Listed(s, op), op) \in Ledgers
    BY <2>1, <2>2, AdjustIs DEF transfer
  <2>4. evaluate(apply, s, op, now) = transfer(Listed(s, op), op)
    BY <1>2, EvaluateIs
  <2> QED BY <2>3, <2>4
<1>3. CASE op.type = "proposal_update"
  BY <1>1, <1>3, EvaluateIs, UpdateTyped
<1>4. CASE op.type = "proposal_delete"
  BY <1>1, <1>4, EvaluateIs, DeleteTyped
<1> QED BY <1>2, <1>3, <1>4, OperationIs

(* An evaluation with what is good for the operations one level deeper. *)
LEMMA EvaluateLeads ==
  ASSUME NEW now, NEW apply, Good(apply, now), NEW s, Sound(s), NEW op \in Operations,
         NEW n \in Nat, Names(op, n), evaluate(apply, s, op, now).ok
  PROVE  Leads(s, evaluate(apply, s, op, now), now, n)
<1> DEFINE t == evaluate(apply, s, op, now)
           u == Listed(s, op)
<1>1. CASE op.type = "transfer"
  <2>1. t = transfer(Listed(s, op), op)
    BY <1>1, EvaluateIs
  <2> HIDE DEF t
  <2> QED BY <1>1, <2>1, TransferLeads DEF t
<1>2. CASE op.type # "transfer"
  <2>1. Leads(s, u, now, n) /\ op.proposal < n
    BY <1>2, ListedLeads DEF Names
  <2>2. Sound(u)
    BY <2>1 DEF Leads
  <2>3. t = proposal_update(apply, u, op, now) \/ t = proposal_delete(u, op)
    BY <1>2, OperationIs, EvaluateIs
  <2>4. op.type = "proposal_update" => t = proposal_update(apply, u, op, now)
    BY EvaluateIs
  <2>5. op.type = "proposal_delete" => t = proposal_delete(u, op)
    BY EvaluateIs
  <2>6. op.type = "proposal_update" \/ op.type = "proposal_delete"
    BY <1>2, OperationIs
  <2>7. t.ok
    OBVIOUS
  <2> HIDE DEF t, u
  <2>8. Leads(u, t, now, n)
    <3>1. CASE op.type = "proposal_update"
      BY <2>1, <2>2, <2>4, <2>7, <3>1, UpdateLeads
    <3>2. CASE op.type = "proposal_delete"
      BY <2>1, <2>2, <2>5, <2>7, <3>2, DeleteLeads
    <3> QED BY <2>6, <3>1, <3>2
  <2>9. Leads(s, t, now, n)
    BY <2>1, <2>8, LeadsOn
  <2> QED BY <2>9 DEF t
<1> QED BY <1>1, <1>2

(* At every depth. *)
LEMMA NestedGood ==
  ASSUME NEW depth \in Nat, NEW now
  PROVE  Good(Nested(depth, now), now)
<1> DEFINE X == [Operations -> [Ledgers -> Ledgers]]
           x0 == [op \in Operations |-> [s \in Ledgers |-> Require(s, FALSE)]]
           step == [d \in 1 .. depth |-> [f \in X |->
                      [op \in Operations |-> [s \in Ledgers |-> evaluate(f, s, op, now)]]]]
           Eqn(g) == g = [d \in 0 .. depth |-> [op \in Operations |-> [s \in Ledgers |->
                            IF d = 0 THEN Require(s, FALSE) ELSE evaluate(g[d - 1], s, op, now)]]]
           c == CHOOSE g : Eqn(g)
<1>1. x0 \in X
  BY RefusedIs
<1>2. step \in [1 .. depth -> [X -> X]]
  BY EvaluateTyped
<1>3. Iterates(depth, X, x0, step)
  <2> HIDE DEF X, x0, step
  <2> QED BY <1>1, <1>2, Iteration
<1>4. PICK f \in [0 .. depth -> X] : f[0] = x0 /\ \A d \in 1 .. depth : f[d] = step[d][f[d - 1]]
  BY <1>3 DEF Iterates
<1>5. Eqn(f)
  <2> DEFINE level(d) == [op \in Operations |-> [s \in Ledgers |->
                            IF d = 0 THEN Require(s, FALSE) ELSE evaluate(f[d - 1], s, op, now)]]
  <2>1. ASSUME NEW d \in 1 .. depth
        PROVE  f[d] = level(d)
    <3>1. d - 1 \in 0 .. depth /\ d # 0
      OBVIOUS
    <3>2. f[d - 1] \in X
      BY <1>4, <3>1
    <3>3. step[d][f[d - 1]] = [op \in Operations |-> [s \in Ledgers |-> evaluate(f[d - 1], s, op, now)]]
      BY <3>2
    <3> QED BY <1>4, <3>1, <3>3
  <2>2. f[0] = level(0)
    BY <1>4
  <2>3. \A d \in 0 .. depth : d = 0 \/ d \in 1 .. depth
    OBVIOUS
  <2>4. \A d \in 0 .. depth : f[d] = level(d)
    <3> HIDE DEF level
    <3> QED BY <2>1, <2>2, <2>3
  <2> QED BY <1>4, <2>4
<1>6. Eqn(c)
  BY <1>5
<1>7. Nested(depth, now) = c[depth]
  BY DEF Nested
<1> HIDE DEF c
<1>8. c[0] = x0
  BY <1>6
<1> DEFINE At(g, d, op, s) == IF d = 0 THEN Require(s, FALSE) ELSE evaluate(g[d - 1], s, op, now)
<1>60. c = [d \in 0 .. depth |-> [op \in Operations |-> [s \in Ledgers |-> At(c, d, op, s)]]]
  BY <1>6
<1>61. ASSUME NEW op, NEW s, NEW d \in 1 .. depth
       PROVE  At(c, d, op, s) = evaluate(c[d - 1], s, op, now)
  <2>1. d # 0
    OBVIOUS
  <2> QED BY <2>1
<1> HIDE DEF At
<1>9. ASSUME NEW d \in 1 .. depth
      PROVE  c[d] = [op \in Operations |-> [s \in Ledgers |-> At(c, d, op, s)]]
  <2>1. d \in 0 .. depth
    OBVIOUS
  <2> QED BY <1>60, <2>1
<1> DEFINE G == {a \in X : Good(a, now)}
<1>10. c[0] \in G
  <2>1. \A op \in Operations, s \in Ledgers : x0[op][s] = Require(s, FALSE)
    OBVIOUS
  <2>2. Good(x0, now)
    <3> HIDE DEF x0
    <3> QED BY <1>1, <2>1, RefusedIs DEF Good
  <2> QED BY <1>1, <1>8, <2>2
<1>11. ASSUME NEW d \in 1 .. depth, c[d - 1] \in G
       PROVE  c[d] \in G
  <2>1. c[d - 1] \in X /\ Good(c[d - 1], now)
    BY <1>11
  <2> DEFINE e(op, s) == At(c, d, op, s)
  <2>0. ASSUME NEW op, NEW s PROVE e(op, s) = evaluate(c[d - 1], s, op, now)
    BY <1>61
  <2>3. \A op \in Operations, s \in Ledgers : e(op, s) \in Ledgers
    <3> HIDE DEF X, e
    <3>1. \A op \in Operations, s \in Ledgers : evaluate(c[d - 1], s, op, now) \in Ledgers
      BY <2>1, EvaluateTyped DEF X
    <3> QED BY <2>0, <3>1
  <2>9. c[d] = [op \in Operations |-> [s \in Ledgers |-> e(op, s)]]
    BY <1>9
  <2> HIDE DEF e
  <2>2. \A op \in Operations, s \in Ledgers : c[d][op][s] = evaluate(c[d - 1], s, op, now)
    BY <2>0, <2>9
  <2>4. c[d] \in X
    BY <2>3, <2>9
  <2>5. \A op \in Operations, s \in Ledgers, n \in Nat :
          Sound(s) /\ Names(op, n) /\ evaluate(c[d - 1], s, op, now).ok
            => Leads(s, evaluate(c[d - 1], s, op, now), now, n)
    BY <2>1, EvaluateLeads
  <2>6. Good(c[d], now)
    BY <2>2, <2>4, <2>5 DEF Good
  <2> QED BY <2>4, <2>6
<1>12. c[depth] \in G
  <2> HIDE DEF G
  <2>1. \A d \in 0 .. depth : c[d] \in G
    BY <1>10, <1>11, StaysIn
  <2> QED BY <2>1
<1> QED BY <1>7, <1>12

(* An operation of a transaction. *)
LEMMA OperationLeads ==
  ASSUME NEW now, NEW s, Sound(s), NEW op \in Operations, NEW n \in Nat, Names(op, n),
         apply_operation(s, op, now).ok
  PROVE  Leads(s, apply_operation(s, op, now), now, n)
<1>1. s.last_id \in Nat
  BY LedgerIs DEF Sound
<1>2. Good(Nested(s.last_id, now), now)
  BY <1>1, NestedGood
<1> QED BY <1>2, EvaluateLeads DEF apply_operation

-----------------------------------------------------------------------------
(* The end of a block. *)
(* The first that expires is one of the expired. *)
LEMMA FirstProposalIs ==
  ASSUME NEW S, S \subseteq ProposalObjects, IsFiniteSet(S), S # {}
  PROVE  FirstProposal(S) \in S
<1> DEFINE R == {x \in S \X S : x[1].expiration < x[2].expiration
                                \/ (x[1].expiration = x[2].expiration /\ x[1].id <= x[2].id)}
<1>1. \A p \in S : p.expiration \in Int /\ p.id \in Nat
  BY ProposalIs
<1>2. \A p, q \in S : <<p, q>> \in R <=> (p.expiration < q.expiration
                                \/ (p.expiration = q.expiration /\ p.id <= q.id))
  OBVIOUS
<1> HIDE DEF R
<1>3. Ordered(R, S)
  BY <1>1, <1>2 DEF Ordered
<1>4. \E m \in S : \A x \in S : <<m, x>> \in R
  BY <1>3, FirstOf
<1>5. \E p \in S : \A q \in S : p.expiration < q.expiration
                                \/ (p.expiration = q.expiration /\ p.id <= q.id)
  BY <1>2, <1>4
<1> QED BY <1>5 DEF FirstProposal

LEMMA PushGone ==
  ASSUME NEW apply \in [Operations -> [Ledgers -> Ledgers]], NEW s \in Ledgers, NEW p \in ProposalObjects,
         push_proposal(apply, s, p).ok
  PROVE  ~Exists(push_proposal(apply, s, p).proposals, p.id)
<1> DEFINE after == AfterEach(apply, s, p.ops)
           done == after[Len(p.ops)]
<1>1. p.ops \in Seq(Operations) /\ Len(p.ops) \in Nat
  BY ProposalIs
<1>2. after \in [0 .. Len(p.ops) -> Ledgers]
  BY <1>1, AfterEachIs
<1>3. done \in Ledgers
  BY <1>1, <1>2
<1>4. push_proposal(apply, s, p) = IF done.ok THEN Executed(done, p) ELSE Require(s, FALSE)
  BY DEF push_proposal
<1> HIDE DEF done
<1>5. push_proposal(apply, s, p) = Executed(done, p)
  BY <1>4, RefusedIs
<1>6. Executed(done, p).proposals = Removed(done.proposals, p.id)
  BY <1>3, ExecutedIs
<1> QED BY <1>5, <1>6 DEF Exists, Removed

(* At its expiration a proposal is executed or deleted. *)
LEMMA ExpiresLeads ==
  ASSUME NEW s, Sound(s), NEW p \in s.proposals, NEW now, p.expiration <= now
  PROVE  /\ Leads(s, AtExpiration(s, p, now), now, p.id + 1)
         /\ ~Exists(AtExpiration(s, p, now).proposals, p.id)
<1> DEFINE a == Nested(s.last_id, now)
           S == Removed(s.proposals, p.id)
           t == AtExpiration(s, p, now)
<1>1. s \in Ledgers /\ s.last_id \in Nat /\ p \in ProposalObjects
  BY LedgerIs DEF Sound
<1>2. Good(a, now)
  BY <1>1, NestedGood
<1>3. a \in [Operations -> [Ledgers -> Ledgers]]
  BY <1>2 DEF Good
<1> HIDE DEF a
<1>4. t = IF is_authorized_to_execute(p) /\ push_proposal(a, s, p).ok THEN push_proposal(a, s, p)
          ELSE With(s, S)
  BY DEF AtExpiration, With, a
<1> HIDE DEF t
<1>5. CASE is_authorized_to_execute(p) /\ push_proposal(a, s, p).ok
  <2>1. Leads(s, push_proposal(a, s, p), now, p.id + 1)
    BY <1>2, <1>5, PushLeads
  <2>2. ~Exists(push_proposal(a, s, p).proposals, p.id)
    BY <1>1, <1>3, <1>5, PushGone
  <2> QED BY <1>4, <1>5, <2>1, <2>2 DEF t
<1>6. CASE ~(is_authorized_to_execute(p) /\ push_proposal(a, s, p).ok)
  <2>1. Leads(s, With(s, S), now, p.id + 1)
    BY RemovedLeads
  <2>2. S \subseteq ProposalObjects
    BY <1>1, LedgerIs DEF Removed
  <2>3. With(s, S).proposals = S
    BY <1>1, <2>2, WithIs
  <2>4. ~Exists(S, p.id)
    BY DEF Exists, Removed
  <2>5. t = With(s, S)
    BY <1>4, <1>6
  <2> HIDE DEF S
  <2> QED BY <2>1, <2>3, <2>4, <2>5 DEF t, S
<1> QED BY <1>5, <1>6

(* clear_expired_proposals, a proposal at a time. *)
Expired(t, now) == {p \in t.proposals : p.expiration <= now}
Ids(t) == {p.id : p \in t.proposals}
NextExpired(t, now) ==
  IF Expired(t, now) = {} THEN t ELSE AtExpiration(t, FirstProposal(Expired(t, now)), now)

LEMMA IdsCount ==
  ASSUME NEW s, IsFiniteSet(s.proposals)
  PROVE  IsFiniteSet(Ids(s)) /\ Cardinality(Ids(s)) <= Cardinality(s.proposals)
<1> DEFINE f == [p \in s.proposals |-> p.id]
<1>1. f \in Surjection(s.proposals, Ids(s))
  BY DEF Surjection, Ids
<1> HIDE DEF f
<1> QED BY <1>1, FS_Surjection

(* Each step of the loop leaves fewer ids, or nothing that has expired. *)
LEMMA NextExpiredLeads ==
  ASSUME NEW s, Sound(s), NEW now
  PROVE  LET t == NextExpired(s, now)
         IN  /\ Leads(s, t, now, s.last_id + 1)
             /\ \/ Expired(t, now) = {}
                \/ IsFiniteSet(Ids(s)) /\ IsFiniteSet(Ids(t)) /\ Cardinality(Ids(t)) < Cardinality(Ids(s))
<1> DEFINE t == NextExpired(s, now)
           p == FirstProposal(Expired(s, now))
<1>1. s \in Ledgers /\ s.last_id \in Nat /\ s.last_id + 1 \in Nat
  BY LedgerIs DEF Sound
<1>2. CASE Expired(s, now) = {}
  <2>1. t = s
    BY <1>2 DEF NextExpired
  <2> QED BY <1>2, <2>1, LeadsSelf
<1>3. CASE Expired(s, now) # {}
  <2>1. Expired(s, now) \subseteq ProposalObjects /\ Expired(s, now) \subseteq s.proposals
        /\ IsFiniteSet(Expired(s, now)) /\ IsFiniteSet(s.proposals)
    BY <1>1, LedgerIs, FS_Subset DEF Expired, Sound, UniqueIds
  <2>2. p \in Expired(s, now)
    BY <1>3, <2>1, FirstProposalIs
  <2>3. p \in s.proposals /\ p.expiration <= now /\ p.id \in Nat /\ p.id <= s.last_id
    BY <2>1, <2>2, ProposalIs DEF Expired, Sound, UniqueIds
  <2>4. t = AtExpiration(s, p, now)
    BY <1>3 DEF NextExpired
  <2> HIDE DEF t, p
  <2>5. Leads(s, t, now, p.id + 1) /\ ~Exists(t.proposals, p.id)
    BY <2>3, <2>4, ExpiresLeads
  <2>6. Leads(s, t, now, s.last_id + 1)
    BY <1>1, <2>3, <2>5, LeadsMore
  <2>7. Ids(t) \subseteq Ids(s) \ {p.id}
    <3>1. ASSUME NEW q \in t.proposals PROVE q.id \in Ids(s) /\ q.id # p.id
      <4>1. \E r \in s.proposals : r.id = q.id
        BY <2>5 DEF Leads, Changes, SameProposal
      <4> QED BY <2>5, <4>1 DEF Exists, Ids
    <3> QED BY <3>1 DEF Ids
  <2>8. IsFiniteSet(Ids(s)) /\ Cardinality(Ids(s)) <= Cardinality(s.proposals)
    BY <2>1, IdsCount
  <2>9. p.id \in Ids(s)
    BY <2>3 DEF Ids
  <2>10. IsFiniteSet(Ids(s) \ {p.id}) /\ Cardinality(Ids(s) \ {p.id}) = Cardinality(Ids(s)) - 1
    BY <2>8, <2>9, FS_RemoveElement
  <2>11. IsFiniteSet(Ids(t)) /\ Cardinality(Ids(t)) <= Cardinality(Ids(s) \ {p.id})
    BY <2>7, <2>10, FS_Subset
  <2>12. Cardinality(Ids(s)) \in Nat /\ Cardinality(Ids(t)) \in Nat
    BY <2>8, <2>11, FS_CardinalityType
  <2> QED BY <2>6, <2>8, <2>10, <2>11, <2>12 DEF t
<1> QED BY <1>2, <1>3

(* clear_expired_proposals leaves none that has expired. *)
LEMMA ClearLeads ==
  ASSUME NEW s, Sound(s), NEW now
  PROVE  /\ Leads(s, clear_expired_proposals(s, now), now, s.last_id + 1)
         /\ Expired(clear_expired_proposals(s, now), now) = {}
<1> DEFINE n == Cardinality(s.proposals)
           X == {t \in Ledgers : Sound(t)}
           step == [i \in 1 .. n |-> [t \in X |-> NextExpired(t, now)]]
           Eqn(g) == g = [i \in 0 .. n |-> IF i = 0 THEN s ELSE NextExpired(g[i - 1], now)]
           c == CHOOSE g : Eqn(g)
<1>1. n \in Nat /\ IsFiniteSet(s.proposals) /\ s \in Ledgers /\ s.last_id + 1 \in Nat
  BY FS_CardinalityType, LedgerIs DEF Sound, UniqueIds
<1>2. \A t \in X : NextExpired(t, now) \in X
  BY NextExpiredLeads DEF Leads, Sound
<1>3. Iterates(n, X, s, step)
  <2>1. step \in [1 .. n -> [X -> X]]
    BY <1>2
  <2>2. s \in X
    BY <1>1
  <2> HIDE DEF n, X, step
  <2> QED BY <1>1, <2>1, <2>2, Iteration
<1>4. PICK f \in [0 .. n -> X] : f[0] = s /\ \A i \in 1 .. n : f[i] = step[i][f[i - 1]]
  BY <1>3 DEF Iterates
<1>5. Eqn(f)
  <2>1. ASSUME NEW i \in 1 .. n PROVE f[i] = NextExpired(f[i - 1], now)
    <3>1. i - 1 \in 0 .. n
      BY <1>1
    <3>2. f[i - 1] \in X
      BY <1>4, <3>1
    <3> QED BY <1>4, <3>2
  <2>2. \A i \in 0 .. n : i = 0 \/ i \in 1 .. n
    BY <1>1
  <2> HIDE DEF n
  <2> QED BY <1>4, <2>1, <2>2
<1>6. Eqn(c)
  BY <1>5
<1>7. clear_expired_proposals(s, now) = c[n]
  BY DEF clear_expired_proposals, NextExpired, Expired
<1>8. c[0] = s /\ \A i \in 1 .. n : c[i] = NextExpired(c[i - 1], now)
  <2> HIDE DEF c
  <2> QED BY <1>1, <1>6
<1> HIDE DEF c
<1> DEFINE Left(i) == /\ Leads(s, c[i], now, s.last_id + 1)
                      /\ \/ Expired(c[i], now) = {}
                         \/ IsFiniteSet(Ids(c[i])) /\ Cardinality(Ids(c[i])) <= n - i
           K == {i \in Nat : i <= n => Left(i)}
<1>9. 0 \in K
  <2>1. IsFiniteSet(Ids(s)) /\ Cardinality(Ids(s)) <= n
    BY <1>1, IdsCount
  <2> QED BY <1>1, <1>8, <2>1, LeadsSelf
<1>10. ASSUME NEW i \in Nat, i \in K PROVE i + 1 \in K
  <2>1. SUFFICES ASSUME i + 1 <= n PROVE Left(i + 1)
    OBVIOUS
  <2>2. Left(i) /\ i + 1 \in 1 .. n /\ (i + 1) - 1 = i
    BY <1>1, <1>10, <2>1
  <2>3. c[i + 1] = NextExpired(c[i], now)
    BY <1>8, <2>2
  <2>4. Sound(c[i]) /\ c[i].last_id = s.last_id
    BY <2>2 DEF Leads, Untouched
  <2>5. /\ Leads(c[i], c[i + 1], now, s.last_id + 1)
        /\ \/ Expired(c[i + 1], now) = {}
           \/ /\ IsFiniteSet(Ids(c[i])) /\ IsFiniteSet(Ids(c[i + 1]))
              /\ Cardinality(Ids(c[i + 1])) < Cardinality(Ids(c[i]))
    BY <2>3, <2>4, NextExpiredLeads
  <2>6. Leads(s, c[i + 1], now, s.last_id + 1)
    BY <1>1, <2>2, <2>5, LeadsOn
  <2>7. CASE Expired(c[i], now) = {}
    <3>1. c[i + 1] = c[i]
      BY <2>3, <2>7 DEF NextExpired
    <3> QED BY <2>6, <2>7, <3>1
  <2>8. CASE Expired(c[i], now) # {} /\ Expired(c[i + 1], now) # {}
    <3>1. IsFiniteSet(Ids(c[i])) /\ Cardinality(Ids(c[i])) <= n - i
      BY <2>2, <2>8
    <3>2. IsFiniteSet(Ids(c[i + 1])) /\ Cardinality(Ids(c[i + 1])) < Cardinality(Ids(c[i]))
      BY <2>5, <2>8
    <3>3. Cardinality(Ids(c[i])) \in Nat /\ Cardinality(Ids(c[i + 1])) \in Nat
      BY <3>1, <3>2, FS_CardinalityType
    <3> HIDE DEF n
    <3>4. Cardinality(Ids(c[i + 1])) <= n - (i + 1)
      BY <1>1, <3>1, <3>2, <3>3
    <3> QED BY <2>6, <3>2, <3>4
  <2> QED BY <2>6, <2>7, <2>8
<1>11. Left(n)
  <2>1. n \in K
    <3> HIDE DEF K
    <3> QED BY <1>1, <1>9, <1>10, NatSetInduction
  <2> QED BY <1>1, <2>1
<1>12. Expired(c[n], now) = {}
  <2>1. SUFFICES ASSUME IsFiniteSet(Ids(c[n])), Cardinality(Ids(c[n])) <= n - n
                 PROVE  Expired(c[n], now) = {}
    BY <1>11
  <2>2. Ids(c[n]) = {}
    <3> HIDE DEF n
    <3>1. Cardinality(Ids(c[n])) = 0
      BY <1>1, <2>1, FS_CardinalityType
    <3> QED BY <2>1, <3>1, FS_EmptySet
  <2> QED BY <2>2 DEF Ids, Expired
<1> QED BY <1>7, <1>11, <1>12

-----------------------------------------------------------------------------
(* Whole numbers. *)
LEMMA MaxOfTwo ==
  ASSUME NEW a \in Int, NEW b \in Int
  PROVE  Max({a, b}) = IF a >= b THEN a ELSE b
<1> DEFINE m == IF a >= b THEN a ELSE b
<1>1. m \in {a, b} /\ \A y \in {a, b} : m >= y
  OBVIOUS
<1>2. \A x \in {a, b} : (\A y \in {a, b} : x >= y) => x = m
  OBVIOUS
<1> HIDE DEF m
<1>3. Max({a, b}) = m
  BY <1>1, <1>2 DEF Max
<1> QED BY <1>3 DEF m

LEMMA MinOfTwo ==
  ASSUME NEW a \in Int, NEW b \in Int
  PROVE  Min({a, b}) = IF a <= b THEN a ELSE b
<1> DEFINE m == IF a <= b THEN a ELSE b
<1>1. m \in {a, b} /\ \A y \in {a, b} : m <= y
  OBVIOUS
<1>2. \A x \in {a, b} : (\A y \in {a, b} : x <= y) => x = m
  OBVIOUS
<1> HIDE DEF m
<1>3. Min({a, b}) = m
  BY <1>1, <1>2 DEF Min
<1> QED BY <1>3 DEF m

LEMMA Whole ==
  ASSUME NEW a \in Int, NEW b \in Positive
  PROVE  /\ a \div b \in Int
         /\ (a \div b) * b <= a /\ a < (a \div b) * b + b
BY DEF Positive

LEMMA Product ==
  ASSUME NEW a \in Int, NEW b \in Int, NEW c \in Int
  PROVE  /\ a * b \in Int /\ a * b = b * a /\ (a + c) * b = a * b + c * b
         /\ a >= 0 /\ b >= 0 => a * b >= 0
OBVIOUS

(* The quotient is the only one. *)
LEMMA QuotientIs ==
  ASSUME NEW a \in Int, NEW b \in Positive, NEW q \in Int, q * b <= a, a < q * b + b
  PROVE  a \div b = q
<1> DEFINE r == a \div b
<1>1. r \in Int /\ r * b <= a /\ a < r * b + b /\ b \in Int /\ b > 0
  BY Whole DEF Positive
<1> HIDE DEF r
<1>2. ASSUME NEW x \in Int, NEW y \in Int, x < y
      PROVE  x * b + b <= y * b
  <2>1. x + 1 <= y
    BY <1>2
  <2>2. (y - (x + 1)) * b >= 0
    BY <1>1, <2>1, Product
  <2>3. y * b = ((y - (x + 1)) + (x + 1)) * b
    OBVIOUS
  <2>4. y * b = (y - (x + 1)) * b + (x + 1) * b
    BY <1>1, <2>3, Product
  <2>5. (x + 1) * b = x * b + 1 * b
    BY <1>1, Product
  <2>6. x * b \in Int /\ y * b \in Int /\ (y - (x + 1)) * b \in Int /\ 1 * b = b
    BY <1>1, Product
  <2> QED BY <1>1, <2>2, <2>4, <2>5, <2>6
<1>3. q * b \in Int /\ r * b \in Int
  BY <1>1, Product
<1>4. ~(r < q)
  BY <1>1, <1>2, <1>3
<1>5. ~(q < r)
  BY <1>1, <1>2, <1>3
<1> QED BY <1>1, <1>4, <1>5 DEF r

(* Whole periods taken off. *)
LEMMA QuotientOff ==
  ASSUME NEW a \in Int, NEW b \in Positive, NEW m \in Int
  PROVE  (a + m * b) \div b = m + a \div b
<1> DEFINE q == a \div b
<1>1. q \in Int /\ q * b <= a /\ a < q * b + b
  BY Whole
<1> HIDE DEF q
<1>2. b \in Int /\ m * b \in Int /\ q * b \in Int /\ (m + q) * b = m * b + q * b /\ (m + q) * b \in Int
  BY <1>1, Product DEF Positive
<1>3. (m + q) * b <= a + m * b /\ a + m * b < (m + q) * b + b
  BY <1>1, <1>2
<1>4. (a + m * b) \div b = m + q
  BY <1>1, <1>2, <1>3, QuotientIs
<1> QED BY <1>4 DEF q

-----------------------------------------------------------------------------
(* The claims in a period. *)
Claims == Seq([time : Int, amount : Int])
InPeriod(cs, first, period, k) == {i \in DOMAIN cs : (cs[i].time - first) \div period = k}
SumIn(cs, first, period, k) ==
  SumFunction([i \in InPeriod(cs, first, period, k) |-> cs[i].amount])

LEMMA ClaimedInIs == \A p, k : ClaimedIn(p, k) = SumIn(p.claims, p.first, p.period, k)
BY DEF ClaimedIn, SumIn, InPeriod

LEMMA NoClaims == \A first, period, k : SumIn(<<>>, first, period, k) = 0
<1>1. SUFFICES ASSUME NEW first, NEW period, NEW k PROVE SumIn(<<>>, first, period, k) = 0
  OBVIOUS
<1> DEFINE f == [i \in InPeriod(<<>>, first, period, k) |-> <<>>[i].amount]
<1>2. f \in [{} -> Int]
  BY DEF InPeriod
<1> QED BY <1>2, SumOfNothing DEF SumIn

AddsClaim(cs, c, first, period, k) ==
  SumIn(Append(cs, c), first, period, k)
    = SumIn(cs, first, period, k) + (IF (c.time - first) \div period = k THEN c.amount ELSE 0)

(* A claim counts in the period of its time, and in no other. *)
LEMMA ClaimsAppend ==
  ASSUME NEW cs \in Claims, NEW c \in [time : Int, amount : Int], NEW first \in Int,
         NEW period \in Positive, NEW k \in Int
  PROVE  /\ Append(cs, c) \in Claims /\ SumIn(cs, first, period, k) \in Int
         /\ AddsClaim(cs, c, first, period, k)
<1> DEFINE n == Len(cs)
           ds == Append(cs, c)
           x == n + 1
           D == InPeriod(ds, first, period, k)
           E == InPeriod(cs, first, period, k)
           f == [i \in D |-> ds[i].amount]
           e == [i \in E |-> cs[i].amount]
<1>1. n \in Nat /\ DOMAIN cs = 1 .. n /\ \A i \in 1 .. n : cs[i] \in [time : Int, amount : Int]
  BY LenProperties, ElementOfSeq DEF Claims
<1>2. /\ ds \in Claims /\ DOMAIN ds = 1 .. n + 1
      /\ ds[x] = c /\ \A i \in 1 .. n : ds[i] = cs[i]
  BY <1>1, AppendProperties DEF Claims
<1>3. \A i \in 1 .. n + 1 : i = x \/ i \in 1 .. n
  BY <1>1
<1>4. x \notin 1 .. n /\ x \in 1 .. n + 1
  BY <1>1
<1>5. IsFiniteSet(D) /\ IsFiniteSet(E)
  <2>1. IsFiniteSet(1 .. n + 1) /\ IsFiniteSet(1 .. n)
    BY <1>1, FS_Interval
  <2>2. D \subseteq 1 .. n + 1 /\ E \subseteq 1 .. n
    BY <1>1, <1>2 DEF InPeriod
  <2> QED BY <2>1, <2>2, FS_Subset
<1>6. f \in [D -> Int]
  <2>1. \A i \in D : ds[i] \in [time : Int, amount : Int]
    BY <1>1, <1>2, <1>3 DEF InPeriod
  <2> QED BY <2>1
<1>7. e \in [E -> Int]
  BY <1>1 DEF InPeriod
<1>8. \A i \in E : i \in D /\ i # x /\ e[i] = f[i]
  BY <1>1, <1>2, <1>4 DEF InPeriod
<1>9. SumFunction(e) \in Int
  <2> HIDE DEF e, E
  <2> QED BY <1>5, <1>7, SumIsInt
<1>10. CASE (c.time - first) \div period = k
  <2>1. x \in D
    BY <1>2, <1>4, <1>10 DEF InPeriod
  <2>2. Without(D, x) = E
    <3>1. \A i : i \in Without(D, x) => i \in E
      BY <1>1, <1>2, <1>3 DEF Without, InPeriod
    <3> QED BY <1>8, <3>1 DEF Without
  <2>3. f[x] = c.amount
    BY <1>2, <2>1
  <2> HIDE DEF D, E, f, e, x
  <2>4. SumFunction(f) \in Int /\ SumFunction(e) = SumFunction(f) - f[x]
    BY <1>5, <1>6, <1>7, <1>8, <2>1, <2>2, SumWithout
  <2>5. SumFunction(f) = SumFunction(e) + c.amount
    BY <1>9, <2>3, <2>4
  <2> QED BY <1>2, <1>9, <1>10, <2>5 DEF AddsClaim, SumIn, f, e, D, E
<1>11. CASE (c.time - first) \div period # k
  <2>1. D = E
    <3>1. \A i : i \in D => i \in E
      BY <1>1, <1>2, <1>3, <1>11 DEF InPeriod
    <3> QED BY <1>8, <3>1
  <2>2. f = e
    BY <1>8, <2>1
  <2>3. SumFunction(f) = SumFunction(e) + 0
    <3> HIDE DEF f, e
    <3> QED BY <1>9, <2>2
  <2> HIDE DEF D, E, f, e
  <2> QED BY <1>2, <1>9, <1>11, <2>3 DEF AddsClaim, SumIn, f, e, D, E
<1> QED BY <1>10, <1>11

(* What holds of a withdraw permission: it is in its m-th period, or was    *)
(* when it was last used, and what was claimed in that period is kept.      *)
InPeriodOf(p, m, now) ==
  /\ p.start = p.first + m * p.period
  /\ m > 0 => p.start <= now
  /\ ClaimedIn(p, m) + (IF m = 0 THEN p.carried ELSE 0) = p.claimed
  /\ \A k \in Int : k > m => ClaimedIn(p, k) = 0

Limited(p, now) ==
  /\ p.claimed >= 0 /\ p.carried >= 0
  /\ \E m \in Nat : InPeriodOf(p, m, now)
  /\ \A k \in Int : ClaimedIn(p, k) <= p.limit

LEMMA PermitIs ==
  ASSUME NEW p \in Permits
  PROVE  /\ p.id \in Nat /\ p.limit \in Positive /\ p.period \in Positive /\ p.start \in Int
         /\ p.expiration \in Int /\ p.claimed \in Int /\ p.first \in Int /\ p.carried \in Int
         /\ p.claims \in Claims /\ p.from \in Accounts /\ p.to \in Accounts
         /\ p.limit \in Int /\ p.period \in Int /\ p.period > 0 /\ p.limit > 0
BY DEF Permits, Claims, Positive

LEMMA ClaimedInt ==
  ASSUME NEW p \in Permits, NEW k \in Int
  PROVE  ClaimedIn(p, k) \in Int
<1>1. [time |-> 0, amount |-> 0] \in [time : Int, amount : Int]
  OBVIOUS
<1> QED BY <1>1, PermitIs, ClaimsAppend, ClaimedInIs

LEMMA AvailableIs ==
  ASSUME NEW p \in Permits, NEW now \in Int
  PROVE  available_this_period(p, now) =
           IF now >= p.start + p.period THEN p.limit
           ELSE IF p.limit - p.claimed >= 0 THEN p.limit - p.claimed ELSE 0
<1>1. p.limit - p.claimed \in Int
  BY PermitIs
<1>2. Max({p.limit - p.claimed, 0}) = IF p.limit - p.claimed >= 0 THEN p.limit - p.claimed ELSE 0
  BY <1>1, MaxOfTwo
<1> QED BY <1>2 DEF available_this_period

(* The property of WithinLimit, for a permission. *)
LEMMA LimitedIsWithin ==
  ASSUME NEW p \in Permits, NEW now \in Int, Limited(p, now)
  PROVE  LET k == (now - p.first) \div p.period
             carried == IF k = 0 THEN p.carried ELSE 0
         IN  /\ \A i \in 0 .. MaxTime : ClaimedIn(p, i) <= p.limit
             /\ now >= p.first =>
                  available_this_period(p, now) = Max({p.limit - carried - ClaimedIn(p, k), 0})
<1> DEFINE k == (now - p.first) \div p.period
           carried == IF k = 0 THEN p.carried ELSE 0
           d == (now - p.start) \div p.period
<1>1. PICK m \in Nat : InPeriodOf(p, m, now)
  BY DEF Limited
<1>2. \A i \in 0 .. MaxTime : ClaimedIn(p, i) <= p.limit
  <2>1. \A i \in 0 .. MaxTime : i \in Int
    BY LedgerAssumption
  <2> QED BY <2>1 DEF Limited
<1>3. SUFFICES ASSUME now >= p.first
               PROVE  available_this_period(p, now) = Max({p.limit - carried - ClaimedIn(p, k), 0})
  BY <1>2
<1>4. /\ p.start = p.first + m * p.period
      /\ p.first \in Int /\ p.period \in Int /\ p.start \in Int /\ p.period > 0 /\ p.period \in Positive
      /\ p.limit \in Int /\ p.limit > 0 /\ p.claimed \in Int /\ p.carried \in Int
  BY <1>1, PermitIs DEF InPeriodOf
<1>5. m * p.period \in Int /\ (m = 0 => m * p.period = 0)
  BY <1>4, Product
<1>50. m > 0 => p.start <= now
  BY <1>1 DEF InPeriodOf
<1>6. p.start <= now
  BY <1>3, <1>4, <1>5, <1>50
<1>7. k = m + d
  <2>1. now - p.start \in Int /\ now - p.first = (now - p.start) + m * p.period
    BY <1>4, <1>5
  <2> QED BY <1>4, <2>1, QuotientOff
<1>8. d \in Int /\ d * p.period <= now - p.start /\ now - p.start < d * p.period + p.period
  <2>1. now - p.start \in Int
    BY <1>4
  <2> QED BY <1>4, <2>1, Whole
<1> HIDE DEF k, d
<1>9. k \in Int /\ ClaimedIn(p, k) \in Int /\ carried \in Int
  BY <1>4, <1>7, <1>8, ClaimedInt
<1>10. Max({p.limit - carried - ClaimedIn(p, k), 0})
         = IF p.limit - carried - ClaimedIn(p, k) >= 0 THEN p.limit - carried - ClaimedIn(p, k) ELSE 0
  <2> HIDE DEF carried
  <2>1. p.limit - carried - ClaimedIn(p, k) \in Int
    BY <1>4, <1>9
  <2> QED BY <2>1, MaxOfTwo
<1>11. available_this_period(p, now) =
           IF now >= p.start + p.period THEN p.limit
           ELSE IF p.limit - p.claimed >= 0 THEN p.limit - p.claimed ELSE 0
  BY AvailableIs
<1>12. CASE now < p.start + p.period
  <2>1. d = 0
    <3>1. 0 * p.period <= now - p.start /\ now - p.start < 0 * p.period + p.period
      BY <1>4, <1>6, <1>12
    <3>2. now - p.start \in Int
      BY <1>4
    <3> QED BY <1>4, <3>1, <3>2, QuotientIs DEF d
  <2>2. k = m
    BY <1>7, <2>1
  <2>3. ClaimedIn(p, k) + carried = p.claimed
    BY <1>1, <2>2 DEF InPeriodOf
  <2> HIDE DEF carried
  <2>4. p.limit - carried - ClaimedIn(p, k) = p.limit - p.claimed
    BY <1>4, <1>9, <2>3
  <2> QED BY <1>4, <1>10, <1>11, <1>12, <2>4
<1>13. CASE now >= p.start + p.period
  <2>1. d > 0
    <3>1. SUFFICES ASSUME d <= 0 PROVE FALSE
      BY <1>8
    <3>2. (-d) * p.period >= 0 /\ d * p.period \in Int
      BY <1>4, <1>8, <3>1, Product
    <3>3. (-d) * p.period + d * p.period = 0
      <4>1. (-d + d) * p.period = (-d) * p.period + d * p.period
        BY <1>4, <1>8, Product
      <4> QED BY <1>4, <1>8, <4>1
    <3>4. (-d) * p.period \in Int
      BY <1>4, <1>8, Product
    <3>5. d * p.period <= 0
      BY <3>2, <3>3, <3>4
    <3> QED BY <1>4, <1>8, <1>13, <3>2, <3>5
  <2>2. k > m /\ k # 0
    BY <1>7, <1>8, <2>1
  <2>3. ClaimedIn(p, k) = 0
    BY <1>1, <1>9, <2>2 DEF InPeriodOf
  <2>4. carried = 0
    BY <2>2
  <2> HIDE DEF carried
  <2> QED BY <1>4, <1>10, <1>11, <1>13, <2>3, <2>4
<1> QED BY <1>4, <1>12, <1>13

(* Time alone changes nothing for a permission. *)
LEMMA LimitedLater ==
  ASSUME NEW p \in Permits, NEW now \in Int, NEW later \in Int, now <= later, Limited(p, now)
  PROVE  Limited(p, later)
<1>1. PICK m \in Nat : InPeriodOf(p, m, now)
  BY DEF Limited
<1>2. InPeriodOf(p, m, later)
  BY <1>1, PermitIs DEF InPeriodOf
<1> QED BY <1>2 DEF Limited

(* A permission without claims. *)
LEMMA LimitedNew ==
  ASSUME NEW p \in Permits, p.claims = <<>>, p.first = p.start, p.carried = p.claimed, p.claimed >= 0,
         NEW now \in Int
  PROVE  Limited(p, now)
<1>1. \A k : ClaimedIn(p, k) = 0
  BY NoClaims, ClaimedInIs
<1>2. /\ p.start \in Int /\ p.period \in Int /\ p.limit \in Int /\ p.limit > 0 /\ p.carried \in Int
      /\ p.claimed \in Int
  BY PermitIs
<1>3. 0 * p.period = 0
  BY <1>2
<1>4. InPeriodOf(p, 0, now)
  BY <1>1, <1>2, <1>3 DEF InPeriodOf
<1> QED BY <1>1, <1>2, <1>4 DEF Limited

(* A claim. *)
ClaimOf(p, n) ==
  [ClaimedPeriod(p) EXCEPT !.claimed = @ + n,
                           !.claims = Append(@, [time |-> head_time, amount |-> n])]

LEMMA ClaimIs ==
  ASSUME NEW p \in Permits, NEW n \in Int, head_time \in Int
  PROVE  LET d == (head_time - p.start) \div p.period
             q == ClaimOf(p, n)
         IN  /\ q \in Permits /\ q.id = p.id /\ q.limit = p.limit /\ q.period = p.period
             /\ q.first = p.first /\ q.carried = p.carried /\ q.expiration = p.expiration
             /\ q.start = p.start + d * p.period
             /\ q.claimed = (IF d = 0 THEN p.claimed ELSE 0) + n
             /\ q.claims = Append(p.claims, [time |-> head_time, amount |-> n])
<1> DEFINE d == (head_time - p.start) \div p.period
           q == ClaimOf(p, n)
           st == p.start + d * p.period
           cl == (IF d = 0 THEN p.claimed ELSE 0) + n
           c == [time |-> head_time, amount |-> n]
           cs == Append(p.claims, c)
<1>1. /\ p.start \in Int /\ p.period \in Positive /\ p.period \in Int /\ p.claimed \in Int /\ p.first \in Int
      /\ p.claims \in Claims
  BY PermitIs
<1>2. d \in Int
  <2>1. head_time - p.start \in Int
    BY <1>1
  <2> QED BY <1>1, <2>1, Whole
<1>3. q = [p EXCEPT !.start = st, !.claimed = cl, !.claims = cs]
  BY DEF ClaimOf, ClaimedPeriod, Permits
<1> HIDE DEF d
<1>4. st \in Int /\ cl \in Int
  BY <1>1, <1>2, Product
<1>5. cs \in Claims
  <2>1. c \in [time : Int, amount : Int]
    OBVIOUS
  <2> HIDE DEF c
  <2> QED BY <1>1, <2>1, AppendProperties DEF Claims
<1> HIDE DEF st, cl, cs, q
<1>6. q \in Permits
  BY <1>3, <1>4, <1>5 DEF Permits, Claims
<1>7. /\ q.id = p.id /\ q.limit = p.limit /\ q.period = p.period
      /\ q.first = p.first /\ q.carried = p.carried /\ q.expiration = p.expiration
      /\ q.start = st /\ q.claimed = cl /\ q.claims = cs
  BY <1>3 DEF Permits
<1> QED BY <1>6, <1>7 DEF q, st, cl, cs, d

(* withdraw_permission_claim stays within the limit of the period. *)
LEMMA LimitedClaim ==
  ASSUME NEW p \in Permits, NEW n \in Positive, head_time \in Int, Limited(p, head_time),
         p.start <= head_time, n <= available_this_period(p, head_time)
  PROVE  Limited(ClaimOf(p, n), head_time)
<1> DEFINE now == head_time
           d == (now - p.start) \div p.period
           q == ClaimOf(p, n)
           c == [time |-> now, amount |-> n]
<1>1. PICK m \in Nat : InPeriodOf(p, m, now)
  BY DEF Limited
<1>2. /\ p.first \in Int /\ p.period \in Int /\ p.start \in Int /\ p.period > 0 /\ p.period \in Positive
      /\ p.limit \in Int /\ p.limit > 0 /\ p.claimed \in Int /\ p.carried \in Int /\ p.claims \in Claims
  BY PermitIs
<1>3. n \in Int /\ n > 0
  BY DEF Positive
<1>4. now - p.start \in Int /\ d \in Int /\ d * p.period <= now - p.start
      /\ now - p.start < d * p.period + p.period /\ d * p.period \in Int
  <2>1. now - p.start \in Int
    BY <1>2
  <2> QED BY <1>2, <2>1, Whole, Product
<1>5. /\ q \in Permits /\ q.limit = p.limit /\ q.period = p.period
      /\ q.first = p.first /\ q.carried = p.carried
      /\ q.start = p.start + d * p.period
      /\ q.claimed = (IF d = 0 THEN p.claimed ELSE 0) + n
      /\ q.claims = Append(p.claims, c)
  BY <1>3, ClaimIs
<1>6. d >= 0
  <2>1. SUFFICES ASSUME d < 0 PROVE FALSE
    BY <1>4
  <2>2. (-1 - d) * p.period >= 0 /\ (-1 - d) * p.period \in Int
    BY <1>2, <1>4, <2>1, Product
  <2>3. ((-1 - d) + d) * p.period = (-1 - d) * p.period + d * p.period
    BY <1>2, <1>4, Product
  <2>4. ((-1 - d) + d) * p.period = -p.period
    BY <1>2, <1>4
  <2> QED BY <1>2, <1>4, <2>2, <2>3, <2>4
<1>7. (now - p.first) \div p.period = m + d
  <2>1. p.start = p.first + m * p.period /\ m * p.period \in Int
    BY <1>1, <1>2, Product DEF InPeriodOf
  <2>2. now - p.first = (now - p.start) + m * p.period
    BY <1>2, <2>1
  <2> QED BY <1>2, <1>4, <2>2, QuotientOff
<1> HIDE DEF d, q
<1>8. ASSUME NEW k \in Int
      PROVE  /\ ClaimedIn(p, k) \in Int
             /\ ClaimedIn(q, k) = ClaimedIn(p, k) + (IF k = m + d THEN n ELSE 0)
  <2>1. c \in [time : Int, amount : Int] /\ c.time = now /\ c.amount = n
    BY <1>3
  <2> HIDE DEF c
  <2>2. SumIn(Append(p.claims, c), p.first, p.period, k)
          = SumIn(p.claims, p.first, p.period, k) + (IF (c.time - p.first) \div p.period = k THEN c.amount ELSE 0)
    <3>1. /\ p.claims \in Claims /\ c \in [time : Int, amount : Int] /\ p.first \in Int
          /\ p.period \in Positive /\ k \in Int
      BY <1>2, <2>1
    <3>2. AddsClaim(p.claims, c, p.first, p.period, k)
      BY <3>1, ClaimsAppend
    <3> QED BY <3>2 DEF AddsClaim
  <2>3. ClaimedIn(q, k) = SumIn(Append(p.claims, c), p.first, p.period, k)
    BY <1>5, ClaimedInIs
  <2>4. ClaimedIn(p, k) = SumIn(p.claims, p.first, p.period, k)
    BY ClaimedInIs
  <2> QED BY <1>7, <2>1, <2>2, <2>3, <2>4, ClaimedInt
<1>9. q.claimed >= 0 /\ q.carried >= 0
  BY <1>2, <1>3, <1>5 DEF Limited
<1>10. /\ ClaimedIn(p, m) + (IF m = 0 THEN p.carried ELSE 0) = p.claimed
       /\ \A k \in Int : k > m => ClaimedIn(p, k) = 0
  BY <1>1 DEF InPeriodOf
<1>11. p.carried >= 0 /\ \A k \in Int : ClaimedIn(p, k) <= p.limit
  BY DEF Limited
<1>12. n <= IF now >= p.start + p.period THEN p.limit
            ELSE IF p.limit - p.claimed >= 0 THEN p.limit - p.claimed ELSE 0
  BY <1>2, AvailableIs
<1>13. InPeriodOf(q, m + d, now)
  <2>1. q.start = q.first + (m + d) * q.period
    <3>1. p.start = p.first + m * p.period /\ m * p.period \in Int
      BY <1>1, <1>2, Product DEF InPeriodOf
    <3>2. (m + d) * p.period = m * p.period + d * p.period
      BY <1>2, <1>4, Product
    <3>3. p.start + d * p.period = p.first + (m + d) * p.period
      <4> DEFINE x == m * p.period
                 y == d * p.period
                 z == (m + d) * p.period
      <4>1. z = x + y /\ x \in Int /\ y \in Int /\ p.start = p.first + x
        BY <1>4, <3>1, <3>2
      <4> HIDE DEF x, y, z
      <4>2. p.start + y = p.first + z
        BY <1>2, <4>1
      <4> QED BY <4>2 DEF y, z
    <3> QED BY <1>5, <3>3
  <2>2. q.start <= now
    BY <1>2, <1>4, <1>5
  <2>3. ClaimedIn(q, m + d) + (IF m + d = 0 THEN q.carried ELSE 0) = q.claimed
    <3>1. ClaimedIn(q, m + d) = ClaimedIn(p, m + d) + n /\ ClaimedIn(p, m + d) \in Int
      BY <1>4, <1>8
    <3>2. CASE d = 0
      BY <1>2, <1>3, <1>5, <1>10, <3>1, <3>2
    <3>3. CASE d # 0
      <4>1. m + d > m /\ m + d \in Int /\ m + d # 0
        BY <1>4, <1>6, <3>3
      <4>2. ClaimedIn(p, m + d) = 0
        BY <1>10, <4>1
      <4> QED BY <1>3, <1>5, <3>1, <3>3, <4>1, <4>2
    <3> QED BY <3>2, <3>3
  <2>4. ASSUME NEW k \in Int, k > m + d PROVE ClaimedIn(q, k) = 0
    <3>1. k > m /\ k # m + d
      BY <1>4, <1>6, <2>4
    <3> QED BY <1>8, <1>10, <3>1
  <2> QED BY <2>1, <2>2, <2>3, <2>4 DEF InPeriodOf
<1>14. ASSUME NEW k \in Int PROVE ClaimedIn(q, k) <= q.limit
  <2>1. CASE k # m + d
    <3>1. ClaimedIn(q, k) = ClaimedIn(p, k) + 0 /\ ClaimedIn(p, k) \in Int
      BY <1>8, <2>1
    <3>2. ClaimedIn(p, k) <= p.limit
      BY <1>11
    <3> QED BY <1>5, <3>1, <3>2
  <2>2. CASE k = m + d /\ d = 0
    <3>1. now < p.start + p.period
      BY <1>2, <1>4, <2>2
    <3>2. n <= p.limit - p.claimed
      BY <1>2, <1>3, <1>12, <3>1
    <3>3. ClaimedIn(p, k) <= p.claimed /\ ClaimedIn(p, k) \in Int
      BY <1>2, <1>8, <1>10, <1>11, <2>2
    <3>4. ClaimedIn(q, k) = ClaimedIn(p, k) + n
      BY <1>8, <2>2
    <3> QED BY <1>2, <1>3, <1>5, <3>2, <3>3, <3>4
  <2>3. CASE k = m + d /\ d # 0
    <3>1. k > m
      BY <1>4, <1>6, <2>3
    <3>2. ClaimedIn(q, k) = 0 + n
      BY <1>8, <1>10, <2>3, <3>1
    <3>3. n <= p.limit
      BY <1>2, <1>3, <1>12, <1>11 DEF Limited
    <3> QED BY <1>3, <1>5, <3>2, <3>3
  <2> QED BY <2>1, <2>2, <2>3
<1>15. m + d \in Nat
  BY <1>4, <1>6
<1> QED BY <1>9, <1>13, <1>14, <1>15 DEF Limited, q

-----------------------------------------------------------------------------
(* Coin seconds, as numbers: those of a balance B that had e of them d      *)
(* seconds ago and earns w for each unit.                                   *)
Earns(e, B, d, w) == IF e + B * d <= B * w THEN e + B * d ELSE B * w

LEMMA EarnsIs ==
  ASSUME NEW e \in Int, NEW B \in Int, NEW d \in Int, NEW w \in Int
  PROVE  /\ Earns(e, B, d, w) \in Int /\ Earns(e, B, d, w) <= B * w /\ B * w \in Int
         /\ e >= 0 /\ B >= 0 /\ d >= 0 /\ w >= 0 => Earns(e, B, d, w) >= 0
         /\ e >= 0 /\ e <= B * w => Earns(e, B, 0, w) = e
<1> DEFINE x == B * d
           y == B * w
<1>1. x \in Int /\ y \in Int /\ (B >= 0 /\ d >= 0 => x >= 0) /\ (B >= 0 /\ w >= 0 => y >= 0)
  BY Product
<1>2. B * 0 = 0
  OBVIOUS
<1>3. Earns(e, B, d, w) = IF e + x <= y THEN e + x ELSE y
  BY DEF Earns
<1>4. Earns(e, B, 0, w) = IF e + 0 <= y THEN e + 0 ELSE y
  BY <1>2 DEF Earns
<1> HIDE DEF x
<1>5. /\ Earns(e, B, d, w) \in Int /\ Earns(e, B, d, w) <= y
      /\ e >= 0 /\ B >= 0 /\ d >= 0 /\ w >= 0 => Earns(e, B, d, w) >= 0
      /\ e >= 0 /\ e <= y => Earns(e, B, 0, w) = e
  <2> HIDE DEF y
  <2> QED BY <1>1, <1>3, <1>4
<1> QED BY <1>1, <1>5

(* Later, and when the balance was left alone for the whole time. *)
LEMMA EarnsLater ==
  ASSUME NEW e \in Int, NEW B \in Int, NEW d \in Int, NEW w \in Int, NEW c \in Int, B >= 0, c >= 0
  PROVE  Earns(e, B, d + c, w) <= Earns(e, B, d, w) + B * c
<1> DEFINE x == B * d
           y == B * w
           z == B * c
           v == B * (d + c)
<1>1. x \in Int /\ y \in Int /\ z \in Int /\ z >= 0
  BY Product
<1>2. v = x + z
  <2>1. (d + c) * B = d * B + c * B
    BY Product
  <2>2. (d + c) * B = B * (d + c) /\ d * B = B * d /\ c * B = B * c
    BY Product
  <2> QED BY <2>1, <2>2
<1>3. /\ Earns(e, B, d, w) = IF e + x <= y THEN e + x ELSE y
      /\ Earns(e, B, d + c, w) = IF e + v <= y THEN e + v ELSE y
  BY DEF Earns
<1>4. Earns(e, B, d + c, w) <= Earns(e, B, d, w) + z
  <2> HIDE DEF x, y, z, v
  <2> QED BY <1>1, <1>2, <1>3
<1> QED BY <1>4

LEMMA EarnsAll ==
  ASSUME NEW e \in Int, NEW B \in Int, NEW d \in Int, NEW w \in Int, e >= 0, B >= 0, d >= w
  PROVE  Earns(e, B, d, w) = B * w
<1> DEFINE x == B * d
           y == B * w
           z == B * (d - w)
<1>1. x \in Int /\ y \in Int /\ z \in Int /\ z >= 0
  BY Product
<1>2. x = y + z
  <2>1. (w + (d - w)) * B = w * B + (d - w) * B
    BY Product
  <2>2. w * B = B * w /\ (d - w) * B = B * (d - w) /\ d * B = B * d
    BY Product
  <2>3. w + (d - w) = d
    OBVIOUS
  <2> QED BY <2>1, <2>2, <2>3
<1>3. Earns(e, B, d, w) = IF e + x <= y THEN e + x ELSE y
  BY DEF Earns
<1>4. Earns(e, B, d, w) = y
  <2> HIDE DEF x, y, z
  <2> QED BY <1>1, <1>2, <1>3
<1> QED BY <1>4

(* Products compared. *)
LEMMA ProductLess ==
  ASSUME NEW a \in Int, NEW b \in Int, NEW c \in Int, c >= 0, a <= b
  PROVE  a * c <= b * c /\ a * c \in Int /\ b * c \in Int
<1>1. (b - a) * c >= 0 /\ (b - a) * c \in Int /\ a * c \in Int /\ b * c \in Int
  BY Product
<1>2. ((b - a) + a) * c = (b - a) * c + a * c
  BY Product
<1>3. (b - a) + a = b
  OBVIOUS
<1>4. b * c = (b - a) * c + a * c
  BY <1>2, <1>3
<1> DEFINE x == a * c
           y == b * c
           z == (b - a) * c
<1>5. x \in Int /\ y \in Int /\ z \in Int /\ z >= 0 /\ y = z + x
  BY <1>1, <1>4
<1>6. x <= y
  <2> HIDE DEF x, y, z
  <2> QED BY <1>5
<1> QED BY <1>1, <1>6

(* What a quotient allows. *)
LEMMA QuotientBetween ==
  ASSUME NEW a \in Int, NEW b \in Positive, NEW x \in Int, NEW y \in Int, x * b <= a, a <= y * b
  PROVE  x <= a \div b /\ a \div b <= y /\ a \div b \in Int /\ (a \div b) * b <= a
<1> DEFINE q == a \div b
<1>1. q \in Int /\ q * b <= a /\ a < q * b + b /\ b \in Int /\ b > 0
  BY Whole DEF Positive
<1> HIDE DEF q
<1>2. x <= q
  <2>1. SUFFICES ASSUME q + 1 <= x PROVE FALSE
    BY <1>1
  <2>2. (q + 1) * b <= x * b /\ (q + 1) * b \in Int /\ x * b \in Int
    BY <1>1, <2>1, ProductLess
  <2>3. (q + 1) * b = q * b + b /\ q * b \in Int
    <3>1. (q + 1) * b = q * b + 1 * b /\ 1 * b = b
      BY <1>1, Product
    <3> QED BY <1>1, <3>1, Product
  <2> QED BY <1>1, <2>2, <2>3
<1>3. q <= y
  <2>1. SUFFICES ASSUME y + 1 <= q PROVE FALSE
    BY <1>1
  <2>2. (y + 1) * b <= q * b /\ (y + 1) * b \in Int /\ q * b \in Int
    BY <1>1, <2>1, ProductLess
  <2>3. (y + 1) * b = y * b + b /\ y * b \in Int
    <3>1. (y + 1) * b = y * b + 1 * b /\ 1 * b = b
      BY <1>1, Product
    <3> QED BY <1>1, <3>1, Product
  <2> QED BY <1>1, <2>2, <2>3
<1> QED BY <1>1, <1>2, <1>3 DEF q

-----------------------------------------------------------------------------
(* What holds of a vesting balance. *)
CddVested(b, now) ==
  /\ b.policy.earned >= 0
  /\ b.policy.last_update <= b.changed /\ b.changed <= now
  /\ Needed(b, b.withdrawn) + compute_coin_seconds_earned(b, now) <= b.held + Needed(b, b.granted)

Elapsed(b, now) == Max({0, now - b.policy.begin})

LinearVested(b, now) ==
  /\ b.withdrawn >= 0 /\ b.policy.begin_balance = b.balance + b.withdrawn
  /\ b.withdrawn * b.policy.duration <= b.policy.begin_balance * Elapsed(b, now)
  /\ Elapsed(b, now) < b.policy.cliff => b.withdrawn = 0

Vested(b, now) ==
  /\ b.balance >= 0
  /\ b.policy.type = "cdd" => CddVested(b, now)
  /\ b.policy.type = "linear" => LinearVested(b, now)

Rate(b) == Max({b.policy.seconds, 1})

LEMMA VestingIs ==
  ASSUME NEW b \in VestingBalances
  PROVE  /\ b.id \in Nat /\ b.owner \in Accounts /\ b.balance \in Int /\ b.held \in Int
         /\ b.granted \in Int /\ b.withdrawn \in Int /\ b.changed \in Int
         /\ b.policy.type \in {"linear", "cdd"}
         /\ b.policy.type = "linear" => b.policy \in LinearPolicies
         /\ b.policy.type = "cdd" => b.policy \in CddPolicies
BY DEF VestingBalances, LinearPolicies, CddPolicies

LEMMA GenesisIs ==
  ASSUME NEW b \in GenesisBalances
  PROVE  /\ b.id \in Nat /\ b.balance \in Int /\ b.held \in Int
         /\ b.granted \in Int /\ b.withdrawn \in Int /\ b.changed \in Int /\ b.last_claim \in Int
         /\ b.policy.type \in {"linear", "none"}
         /\ b.policy.type = "linear" => b.policy \in LinearPolicies
BY DEF GenesisBalances, LinearPolicies

LEMMA CddIs ==
  ASSUME NEW b \in VestingBalances, b.policy.type = "cdd", NEW now \in Int
  PROVE  /\ b.policy.seconds \in Nat /\ b.policy.start_claim \in Int /\ b.policy.earned \in Int
         /\ b.policy.last_update \in Int
         /\ Rate(b) \in Positive /\ Rate(b) \in Int /\ Rate(b) >= 1 /\ Rate(b) >= b.policy.seconds
         /\ \A n : Needed(b, n) = n * Rate(b)
         /\ compute_coin_seconds_earned(b, now)
              = Earns(b.policy.earned, b.balance, now - b.policy.last_update, Rate(b))
         /\ compute_coin_seconds_earned(b, now) \in Int
<1>1. /\ b.policy.seconds \in Nat /\ b.policy.start_claim \in Int /\ b.policy.earned \in Int
      /\ b.policy.last_update \in Int /\ b.balance \in Int
  BY VestingIs DEF CddPolicies
<1>2. Rate(b) = IF b.policy.seconds >= 1 THEN b.policy.seconds ELSE 1
  BY <1>1, MaxOfTwo DEF Rate
<1>3. Rate(b) \in Positive /\ Rate(b) \in Int /\ Rate(b) >= 1 /\ Rate(b) >= b.policy.seconds
  BY <1>1, <1>2 DEF Positive
<1>4. \A n : Needed(b, n) = n * Rate(b)
  BY DEF Needed, Rate
<1> DEFINE d == now - b.policy.last_update
           x == b.policy.earned + b.balance * d
           y == b.balance * Rate(b)
<1>5. x \in Int /\ y \in Int
  <2>1. d \in Int
    BY <1>1
  <2>2. b.balance * d \in Int
    <3> HIDE DEF d
    <3> QED BY <1>1, <2>1, Product
  <2>3. y \in Int
    BY <1>1, <1>3, Product
  <2> QED BY <1>1, <2>2, <2>3
<1>6. compute_coin_seconds_earned(b, now) = Min({x, y})
  BY <1>4 DEF compute_coin_seconds_earned
<1>7. Min({x, y}) = IF x <= y THEN x ELSE y
  <2> HIDE DEF x, y
  <2> QED BY <1>5, MinOfTwo
<1>8. Earns(b.policy.earned, b.balance, d, Rate(b)) = IF x <= y THEN x ELSE y
  BY DEF Earns
<1>9. compute_coin_seconds_earned(b, now) = Earns(b.policy.earned, b.balance, d, Rate(b))
  <2> HIDE DEF x, y, d
  <2> QED BY <1>6, <1>7, <1>8
<1>10. compute_coin_seconds_earned(b, now) \in Int
  <2> HIDE DEF x, y
  <2> QED BY <1>5, <1>6, <1>7
<1> QED BY <1>1, <1>3, <1>4, <1>9, <1>10

(* A balance with the numbers of another that pays out at the same rate. *)
LEMMA CddNow ==
  ASSUME NEW b \in VestingBalances, b.policy.type = "cdd", NEW now \in Int,
         b.policy.last_update = now, b.policy.earned >= 0, b.policy.earned <= b.balance * Rate(b)
  PROVE  compute_coin_seconds_earned(b, now) = b.policy.earned
<1>1. now - b.policy.last_update = 0
  BY CddIs
<1>2. compute_coin_seconds_earned(b, now) = Earns(b.policy.earned, b.balance, 0, Rate(b))
  BY <1>1, CddIs
<1> DEFINE e == b.policy.earned
           B == b.balance
           w == Rate(b)
<1>3. e \in Int /\ B \in Int /\ w \in Int /\ 0 \in Int /\ e >= 0 /\ e <= B * w
  BY CddIs, VestingIs
<1>4. Earns(e, B, 0, w) = e
  <2> HIDE DEF e, B, w
  <2> QED BY <1>3, EarnsIs
<1> QED BY <1>2, <1>4

(* Between nothing and what all of the balance needs. *)
LEMMA CddBetween ==
  ASSUME NEW b \in VestingBalances, b.policy.type = "cdd", NEW now \in Int, b.balance >= 0, CddVested(b, now)
  PROVE  /\ compute_coin_seconds_earned(b, now) >= 0
         /\ compute_coin_seconds_earned(b, now) <= b.balance * Rate(b)
<1> DEFINE e == b.policy.earned
           B == b.balance
           d == now - b.policy.last_update
           w == Rate(b)
<1>1. B \in Int /\ B >= 0 /\ b.changed \in Int
  BY VestingIs
<1>2. e \in Int /\ b.policy.last_update \in Int /\ w \in Int /\ w >= 1
  BY CddIs
<1>3. w >= 0
  BY <1>2
<1>4. e >= 0 /\ b.policy.last_update <= b.changed /\ b.changed <= now
  BY DEF CddVested
<1>5. d \in Int /\ d >= 0
  BY <1>1, <1>2, <1>4
<1>6. compute_coin_seconds_earned(b, now) = Earns(e, B, d, w)
  BY CddIs
<1>7. Earns(e, B, d, w) >= 0 /\ Earns(e, B, d, w) <= B * w
  <2> HIDE DEF e, B, d, w
  <2> QED BY <1>1, <1>2, <1>3, <1>4, <1>5, EarnsIs
<1> QED BY <1>6, <1>7

(* What Withdrawable says of a coin-seconds balance. *)
LEMMA CddAllowed ==
  ASSUME NEW b \in VestingBalances, b.policy.type = "cdd", NEW now \in Int, Vested(b, now)
  PROVE  /\ cdd_allowed(b, now) \in 0 .. b.balance
         /\ cdd_allowed(b, now) * Rate(b) <= compute_coin_seconds_earned(b, now)
         /\ now >= b.changed + Rate(b) /\ now > b.policy.start_claim => cdd_allowed(b, now) = b.balance
<1> DEFINE c == compute_coin_seconds_earned(b, now)
           B == b.balance
           w == Rate(b)
           q == c \div w
<1>1. B \in Int /\ B >= 0 /\ w \in Positive /\ w \in Int /\ c \in Int /\ c >= 0 /\ c <= B * w
  BY CddIs, CddBetween, VestingIs DEF Vested
<1>2. 0 * w = 0
  BY <1>1
<1>3. cdd_allowed(b, now) = IF now <= b.policy.start_claim THEN 0 ELSE q
  BY DEF cdd_allowed, Rate
<1>4. 0 <= q /\ q <= B /\ q \in Int /\ q * w <= c
  <2> HIDE DEF c, B, w
  <2> QED BY <1>1, <1>2, QuotientBetween
<1>5. ASSUME now >= b.changed + w PROVE q = B
  <2> DEFINE d == now - b.policy.last_update
             e == b.policy.earned
  <2>1. d \in Int /\ d >= w /\ e \in Int /\ e >= 0
    <3>1. b.changed \in Int /\ b.policy.last_update \in Int /\ e \in Int
      BY CddIs, VestingIs
    <3>2. e >= 0 /\ b.policy.last_update <= b.changed
      BY DEF Vested, CddVested
    <3> HIDE DEF w, e
    <3> QED BY <1>1, <1>5, <3>1, <3>2
  <2>2. c = Earns(e, B, d, w)
    BY CddIs
  <2>3. c = B * w
    <3> HIDE DEF c, B, d, w, e
    <3> QED BY <1>1, <2>1, <2>2, EarnsAll
  <2>4. B * w <= c /\ c < B * w + w
    <3>1. B * w \in Int
      BY <1>1, Product
    <3>2. w > 0
      BY <1>1 DEF Positive
    <3> DEFINE x == B * w
    <3>3. x <= c /\ c < x + w /\ x \in Int
      <4>1. x \in Int /\ c = x
        BY <2>3, <3>1
      <4> HIDE DEF x, c, w
      <4> QED BY <1>1, <3>2, <4>1
    <3> QED BY <3>3
  <2> HIDE DEF c, B, w
  <2> QED BY <1>1, <2>4, QuotientIs
<1> HIDE DEF c, B, w, q
<1>6. cdd_allowed(b, now) * w <= c
  BY <1>1, <1>2, <1>3, <1>4
<1>7. cdd_allowed(b, now) \in 0 .. B
  BY <1>1, <1>3, <1>4
<1>8. now >= b.changed + w /\ now > b.policy.start_claim => cdd_allowed(b, now) = B
  BY <1>3, <1>5, CddIs
<1> QED BY <1>6, <1>7, <1>8 DEF B, c, w

(* c is b after n more, of which g were vested, and d more were withdrawn. *)
CddStep(b, c, now, n, g, d) ==
  /\ c.policy.type = "cdd" /\ c.policy.seconds = b.policy.seconds
  /\ c.policy.last_update = now /\ c.changed = now /\ c.held = b.held
  /\ c.balance = b.balance + n /\ c.granted = b.granted + g /\ c.withdrawn = b.withdrawn + d
  /\ c.policy.earned = compute_coin_seconds_earned(b, now) + g * Rate(b) - d * Rate(b)

(* Then what was paid out has still been paid for. *)
LEMMA CddKept ==
  ASSUME NEW b \in VestingBalances, b.policy.type = "cdd", NEW now \in Int, Vested(b, now),
         NEW c \in VestingBalances, NEW n \in Int, NEW g \in Int, NEW d \in Int,
         CddStep(b, c, now, n, g, d), n >= g - d, c.balance >= 0, c.policy.earned >= 0
  PROVE  Vested(c, now)
<1> DEFINE C == compute_coin_seconds_earned(b, now)
           w == Rate(b)
           B == b.balance
           e == c.policy.earned
<1>1. /\ w \in Int /\ w >= 0 /\ C \in Int /\ C <= B * w
      /\ B \in Int /\ b.withdrawn \in Int /\ b.granted \in Int /\ b.held \in Int
  BY CddIs, CddBetween, VestingIs DEF Vested
<1>2. Rate(c) = w /\ c.policy.type = "cdd" /\ e = C + g * w - d * w
  BY DEF CddStep, Rate
<1>3. Needed(b, b.withdrawn) + C <= b.held + Needed(b, b.granted)
  BY DEF Vested, CddVested
<1>4. Needed(b, b.withdrawn) = b.withdrawn * w /\ Needed(b, b.granted) = b.granted * w
  BY CddIs
<1>5. Needed(c, c.withdrawn) = (b.withdrawn + d) * w /\ Needed(c, c.granted) = (b.granted + g) * w
  BY <1>2, CddIs DEF CddStep
<1>6. c.held = b.held /\ c.balance = B + n
  BY DEF CddStep
<1> DEFINE wd == b.withdrawn * w
           gr == b.granted * w
           dw == d * w
           gw == g * w
           Bw == B * w
<1>7. /\ wd \in Int /\ gr \in Int /\ dw \in Int /\ gw \in Int /\ Bw \in Int
      /\ (b.withdrawn + d) * w = wd + dw /\ (b.granted + g) * w = gr + gw
  <2> HIDE DEF w, B
  <2> QED BY <1>1, Product
<1>8. e <= (B + n) * w
  <2>1. (g - d) * w <= n * w /\ (g - d) * w \in Int /\ n * w \in Int
    <3>1. g - d \in Int
      OBVIOUS
    <3> HIDE DEF w
    <3> QED BY <1>1, <3>1, ProductLess
  <2>2. (g - d) * w = gw - dw
    <3>1. ((g - d) + d) * w = (g - d) * w + dw
      <4> HIDE DEF w
      <4> QED BY <1>1, Product DEF dw
    <3>2. (g - d) + d = g
      OBVIOUS
    <3>3. gw = (g - d) * w + dw
      BY <3>1, <3>2
    <3> DEFINE x == (g - d) * w
    <3>4. x \in Int /\ gw = x + dw
      BY <2>1, <3>3
    <3>5. x = gw - dw
      <4> HIDE DEF x, gw, dw
      <4> QED BY <1>7, <3>4
    <3> QED BY <3>5
  <2>3. (B + n) * w = Bw + n * w
    <3> HIDE DEF w, B
    <3> QED BY <1>1, Product DEF Bw
  <2> DEFINE nw == n * w
  <2>4. gw - dw <= nw /\ nw \in Int /\ C <= Bw /\ e = C + gw - dw /\ (B + n) * w = Bw + nw
    BY <1>1, <1>2, <2>1, <2>2, <2>3
  <2>5. e <= Bw + nw
    <3> HIDE DEF nw, gw, dw, Bw, C, e, w
    <3> QED BY <1>1, <1>7, <2>4
  <2> QED BY <2>4, <2>5
<1>9. compute_coin_seconds_earned(c, now) = e
  <2>1. c.policy.last_update = now /\ c.policy.earned <= c.balance * Rate(c)
    BY <1>2, <1>6, <1>8 DEF CddStep
  <2> QED BY <1>2, <2>1, CddNow
<1>10. Needed(c, c.withdrawn) + e <= c.held + Needed(c, c.granted)
  <2>1. wd + C <= b.held + gr /\ e = C + gw - dw
    BY <1>2, <1>3, <1>4
  <2>2. wd + dw + e <= b.held + (gr + gw)
    <3> HIDE DEF wd, gr, dw, gw, C, e
    <3> QED BY <1>1, <1>7, <2>1
  <2> QED BY <1>5, <1>6, <1>7, <2>2
<1>11. c.policy.last_update <= c.changed /\ c.changed <= now
  BY DEF CddStep
<1> QED BY <1>2, <1>9, <1>10, <1>11 DEF Vested, CddVested

(* The time that passes is counted. *)
Aged(b, seconds) == [b EXCEPT !.held = @ + b.balance * seconds]

LEMMA AgedIs ==
  ASSUME NEW b \in VestingBalances, NEW d \in Int
  PROVE  /\ Aged(b, d) \in VestingBalances /\ Aged(b, d).id = b.id /\ Aged(b, d).balance = b.balance
         /\ Aged(b, d).owner = b.owner
         /\ Aged(b, d).granted = b.granted /\ Aged(b, d).withdrawn = b.withdrawn
         /\ Aged(b, d).changed = b.changed /\ Aged(b, d).policy = b.policy
         /\ Aged(b, d).held = b.held + b.balance * d
<1> DEFINE h == b.held + b.balance * d
<1>1. h \in Int
  BY VestingIs, Product
<1>2. Aged(b, d) = [b EXCEPT !.held = h]
  BY DEF Aged
<1> HIDE DEF h
<1>3. /\ Aged(b, d) \in VestingBalances /\ Aged(b, d).id = b.id /\ Aged(b, d).balance = b.balance
      /\ Aged(b, d).owner = b.owner
      /\ Aged(b, d).granted = b.granted /\ Aged(b, d).withdrawn = b.withdrawn
      /\ Aged(b, d).changed = b.changed /\ Aged(b, d).policy = b.policy
      /\ Aged(b, d).held = h
  BY <1>1, <1>2 DEF VestingBalances
<1> QED BY <1>3 DEF h

LEMMA CddAged ==
  ASSUME NEW b \in VestingBalances, b.policy.type = "cdd", NEW now \in Int, Vested(b, now),
         NEW d \in Int, d >= 0
  PROVE  CddVested(Aged(b, d), now + d)
<1> DEFINE c == Aged(b, d)
           e == b.policy.earned
           B == b.balance
           w == Rate(b)
           a == now - b.policy.last_update
           x == B * d
<1>1. /\ c \in VestingBalances /\ c.balance = B /\ c.granted = b.granted /\ c.withdrawn = b.withdrawn
      /\ c.changed = b.changed /\ c.policy = b.policy /\ c.held = b.held + x
  BY AgedIs
<1>2. /\ B \in Int /\ B >= 0 /\ e \in Int /\ w \in Int /\ b.policy.last_update \in Int /\ b.changed \in Int
      /\ b.held \in Int /\ b.granted \in Int /\ b.withdrawn \in Int
  BY CddIs, VestingIs DEF Vested
<1>3. a \in Int /\ (now + d) - b.policy.last_update = a + d /\ now + d \in Int
  BY <1>2
<1>4. Rate(c) = w
  BY <1>1 DEF Rate
<1>5. /\ compute_coin_seconds_earned(b, now) = Earns(e, B, a, w)
      /\ compute_coin_seconds_earned(b, now) \in Int
  BY CddIs
<1>6. /\ compute_coin_seconds_earned(c, now + d) = Earns(e, B, a + d, w)
      /\ compute_coin_seconds_earned(c, now + d) \in Int
  <2>1. compute_coin_seconds_earned(c, now + d)
          = Earns(c.policy.earned, c.balance, (now + d) - c.policy.last_update, Rate(c))
    BY <1>1, <1>3, CddIs
  <2>2. compute_coin_seconds_earned(c, now + d) \in Int
    BY <1>1, <1>3, CddIs
  <2> QED BY <1>1, <1>3, <1>4, <2>1, <2>2
<1>7. Earns(e, B, a + d, w) <= Earns(e, B, a, w) + x
  <2> HIDE DEF e, B, w, a
  <2> QED BY <1>2, <1>3, EarnsLater DEF x
<1>8. Needed(c, c.withdrawn) = Needed(b, b.withdrawn) /\ Needed(c, c.granted) = Needed(b, b.granted)
  BY <1>1, <1>4, CddIs
<1>9. Needed(b, b.withdrawn) \in Int /\ Needed(b, b.granted) \in Int /\ x \in Int
  <2>1. Needed(b, b.withdrawn) = b.withdrawn * w /\ Needed(b, b.granted) = b.granted * w
    BY CddIs
  <2> HIDE DEF w, B
  <2> QED BY <1>2, <2>1, Product
<1>10. /\ e >= 0 /\ b.policy.last_update <= b.changed /\ b.changed <= now
       /\ Needed(b, b.withdrawn) + compute_coin_seconds_earned(b, now) <= b.held + Needed(b, b.granted)
  BY DEF Vested, CddVested
<1>11. Needed(c, c.withdrawn) + compute_coin_seconds_earned(c, now + d) <= c.held + Needed(c, c.granted)
  <2> DEFINE C == compute_coin_seconds_earned(b, now)
             F == compute_coin_seconds_earned(c, now + d)
             wd == Needed(b, b.withdrawn)
             gr == Needed(b, b.granted)
  <2>1. F <= C + x /\ wd + C <= b.held + gr /\ C \in Int /\ F \in Int /\ wd \in Int /\ gr \in Int
    BY <1>5, <1>6, <1>7, <1>9, <1>10
  <2>2. wd + F <= (b.held + x) + gr
    <3> HIDE DEF C, F, wd, gr, x, c
    <3> QED BY <1>2, <1>9, <2>1
  <2> QED BY <1>1, <1>8, <2>2
<1>12. c.policy.earned >= 0 /\ c.policy.last_update <= c.changed /\ c.changed <= now + d
  <2>1. b.changed <= now + d
    BY <1>2, <1>10
  <2> QED BY <1>1, <1>10, <2>1
<1> QED BY <1>11, <1>12 DEF CddVested

(* The linear policy. *)
Linear(b) == b.balance \in Int /\ b.withdrawn \in Int /\ b.policy \in LinearPolicies

LEMMA LinearIs ==
  ASSUME NEW b, Linear(b), NEW now \in Int
  PROVE  /\ b.policy.type = "linear" /\ b.policy.begin \in Int /\ b.policy.cliff \in Nat
         /\ b.policy.duration \in Nat /\ b.policy.begin_balance \in Nat
         /\ Elapsed(b, now) = IF now - b.policy.begin > 0 THEN now - b.policy.begin ELSE 0
         /\ Elapsed(b, now) \in Nat
<1>1. /\ b.policy.type = "linear" /\ b.policy.begin \in Int /\ b.policy.cliff \in Nat
      /\ b.policy.duration \in Nat /\ b.policy.begin_balance \in Nat
  BY DEF Linear, LinearPolicies
<1>2. now - b.policy.begin \in Int
  BY <1>1
<1>3. Max({0, now - b.policy.begin}) = IF 0 >= now - b.policy.begin THEN 0 ELSE now - b.policy.begin
  BY <1>2, MaxOfTwo
<1>4. Elapsed(b, now) = IF now - b.policy.begin > 0 THEN now - b.policy.begin ELSE 0
  BY <1>2, <1>3 DEF Elapsed
<1> QED BY <1>1, <1>2, <1>4

(* Of a linear balance the share of the time that has passed may be        *)
(* withdrawn, never more than there is, and all of it in the end.           *)
LEMMA LinearAllowed ==
  ASSUME NEW b, Linear(b), NEW now \in Int, Vested(b, now)
  PROVE  /\ linear_allowed(b, now) \in 0 .. b.balance
         /\ \A n \in Positive : n <= linear_allowed(b, now) =>
              /\ (b.withdrawn + n) * b.policy.duration <= b.policy.begin_balance * Elapsed(b, now)
              /\ Elapsed(b, now) >= b.policy.cliff
         /\ /\ now > b.policy.begin
            /\ now >= b.policy.begin + Max({b.policy.duration, b.policy.cliff})
            => linear_allowed(b, now) = b.balance
<1> DEFINE el == now - b.policy.begin
           D == b.policy.duration
           X == b.policy.begin_balance
           W == b.withdrawn
           B == b.balance
           v == IF el < D THEN (X * el) \div D ELSE X
<1>1. /\ b.policy.begin \in Int /\ b.policy.cliff \in Nat /\ D \in Nat /\ X \in Nat /\ D \in Int /\ X \in Int
      /\ Elapsed(b, now) = IF el > 0 THEN el ELSE 0
      /\ el \in Int /\ B \in Int /\ W \in Int
  BY LinearIs DEF Linear
<1>2. /\ B >= 0 /\ W >= 0 /\ X = B + W
      /\ W * D <= X * Elapsed(b, now)
      /\ Elapsed(b, now) < b.policy.cliff => W = 0
  BY LinearIs DEF Vested, LinearVested
<1>3. linear_allowed(b, now) = IF el <= 0 \/ el < b.policy.cliff THEN 0 ELSE v - (X - B)
  BY DEF linear_allowed
<1>4. CASE el <= 0 \/ el < b.policy.cliff
  <2>1. linear_allowed(b, now) = 0
    BY <1>3, <1>4
  <2>2. Max({D, b.policy.cliff}) = IF D >= b.policy.cliff THEN D ELSE b.policy.cliff
    <3> HIDE DEF D
    <3> QED BY <1>1, MaxOfTwo
  <2>3. ~(now > b.policy.begin /\ now >= b.policy.begin + Max({D, b.policy.cliff}))
    BY <1>1, <1>4, <2>2
  <2>4. 0 \in 0 .. B
    BY <1>1, <1>2
  <2>5. \A n \in Positive : ~(n <= 0)
    BY DEF Positive
  <2> QED BY <2>1, <2>3, <2>4, <2>5
<1>5. CASE ~(el <= 0 \/ el < b.policy.cliff)
  <2>1. Elapsed(b, now) = el /\ el > 0 /\ el >= b.policy.cliff
    BY <1>1, <1>5
  <2>2. W * D <= X * el
    BY <1>2, <2>1
  <2>3. linear_allowed(b, now) = v - W
    <3>1. X - B = W
      BY <1>1, <1>2
    <3>2. linear_allowed(b, now) = v - (X - B)
      BY <1>3, <1>5
    <3> QED BY <3>1, <3>2
  <2>4. v \in Int /\ W <= v /\ v <= X /\ v * D <= X * el
    <3>1. CASE el < D
      <4>1. D \in Positive /\ D >= 0
        BY <1>1, <2>1, <3>1 DEF Positive
      <4>2. X * el <= X * D /\ X * el \in Int
        <5>1. el * X <= D * X /\ el * X \in Int
          <6> HIDE DEF el, D, X
          <6> QED BY <1>1, <2>1, <3>1, ProductLess
        <5>2. el * X = X * el /\ D * X = X * D
          <6> HIDE DEF el, D, X
          <6> QED BY <1>1, Product
        <5> QED BY <5>1, <5>2
      <4> DEFINE y == X * el
      <4>3. W <= y \div D /\ y \div D <= X /\ y \div D \in Int /\ (y \div D) * D <= y
        <5>1. y \in Int /\ W * D <= y /\ y <= X * D
          BY <2>2, <4>2
        <5> HIDE DEF y, D, X, W
        <5> QED BY <1>1, <4>1, <5>1, QuotientBetween
      <4>4. v = y \div D
        BY <3>1
      <4> QED BY <4>3, <4>4
    <3>2. CASE ~(el < D)
      <4>1. v = X
        BY <3>2
      <4>2. D * X <= el * X
        <5>1. D <= el /\ X >= 0
          BY <1>1, <3>2
        <5> HIDE DEF el, D, X
        <5> QED BY <1>1, <5>1, ProductLess
      <4>3. el * X = X * el /\ D * X = X * D
        <5> HIDE DEF el, D, X
        <5> QED BY <1>1, Product
      <4>4. W <= X
        BY <1>1, <1>2
      <4> HIDE DEF v
      <4> QED BY <1>1, <4>1, <4>2, <4>3, <4>4
    <3> QED BY <3>1, <3>2
  <2>5. v - W \in 0 .. B
    <3> HIDE DEF v
    <3> QED BY <1>1, <1>2, <2>4
  <2>6. ASSUME NEW n \in Positive, n <= v - W
        PROVE  (W + n) * D <= X * Elapsed(b, now)
    <3>1. W + n \in Int /\ W + n <= v
      <4> HIDE DEF v
      <4> QED BY <1>1, <2>4, <2>6 DEF Positive
    <3>2. (W + n) * D <= v * D /\ (W + n) * D \in Int /\ v * D \in Int
      <4> HIDE DEF v, W, D
      <4> QED BY <1>1, <2>4, <3>1, ProductLess
    <3>3. X * el \in Int
      <4> HIDE DEF X, el
      <4> QED BY <1>1, Product
    <3> DEFINE x1 == (W + n) * D
               x2 == v * D
               x3 == X * el
    <3>4. x1 <= x2 /\ x2 <= x3 /\ x1 \in Int /\ x2 \in Int /\ x3 \in Int
      BY <2>4, <3>2, <3>3
    <3>5. x1 <= x3
      <4> HIDE DEF x1, x2, x3
      <4> QED BY <3>4
    <3> QED BY <2>1, <3>5
  <2>7. ASSUME now >= b.policy.begin + Max({D, b.policy.cliff}) PROVE v - W = B
    <3>1. Max({D, b.policy.cliff}) = IF D >= b.policy.cliff THEN D ELSE b.policy.cliff
      <4> HIDE DEF D
      <4> QED BY <1>1, MaxOfTwo
    <3>2. el >= D
      BY <1>1, <2>7, <3>1
    <3>3. v = X
      BY <1>1, <3>2
    <3> HIDE DEF v
    <3> QED BY <1>1, <1>2, <3>3
  <2> HIDE DEF v
  <2> QED BY <2>1, <2>3, <2>5, <2>6, <2>7
<1> QED BY <1>4, <1>5

(* Linear balances with time, and when they pay out. *)
LEMMA LinearLater ==
  ASSUME NEW b, Linear(b), NEW now \in Int, NEW later \in Int, now <= later, Vested(b, now),
         NEW c, c.balance = b.balance, c.withdrawn = b.withdrawn, c.policy = b.policy
  PROVE  LinearVested(c, later)
<1> DEFINE D == b.policy.duration
           X == b.policy.begin_balance
           W == b.withdrawn
           x == Elapsed(b, now)
           y == Elapsed(b, later)
<1>1. D \in Int /\ X \in Int /\ X >= 0 /\ x \in Int /\ y \in Int /\ W \in Int /\ x <= y /\ b.policy.cliff \in Int
  <2> DEFINE z == b.policy.begin
  <2>1. /\ z \in Int /\ D \in Nat /\ X \in Nat /\ b.policy.cliff \in Nat
        /\ x = (IF now - z > 0 THEN now - z ELSE 0) /\ x \in Nat
    BY LinearIs
  <2>2. y = (IF later - z > 0 THEN later - z ELSE 0) /\ y \in Nat
    BY LinearIs
  <2>3. W \in Int
    BY DEF Linear
  <2> HIDE DEF x, y, z
  <2>4. x <= y
    BY <2>1, <2>2
  <2> QED BY <2>1, <2>2, <2>3, <2>4
<1>2. /\ W >= 0 /\ X = b.balance + W /\ W * D <= X * x
      /\ x < b.policy.cliff => W = 0
  BY LinearIs DEF Vested, LinearVested
<1>3. Elapsed(c, later) = y
  BY DEF Elapsed
<1>4. W * D <= X * y
  <2>1. x * X <= y * X /\ x * X \in Int /\ y * X \in Int /\ x * X = X * x /\ y * X = X * y /\ W * D \in Int
    <3> HIDE DEF x, y, X, W, D
    <3> QED BY <1>1, ProductLess, Product
  <2> DEFINE p == W * D
             q == X * x
             r == X * y
  <2>2. p <= q /\ q <= r /\ p \in Int /\ q \in Int /\ r \in Int
    BY <1>2, <2>1
  <2>3. p <= r
    <3> HIDE DEF p, q, r
    <3> QED BY <2>2
  <2> QED BY <2>3
<1>5. y < b.policy.cliff => W = 0
  <2> HIDE DEF x, y, W
  <2> QED BY <1>1, <1>2
<1> QED BY <1>2, <1>3, <1>4, <1>5 DEF LinearVested

LEMMA LinearPaid ==
  ASSUME NEW b, Linear(b), NEW now \in Int, Vested(b, now),
         NEW n \in Positive, n <= linear_allowed(b, now),
         NEW c, c.balance = b.balance - n, c.withdrawn = b.withdrawn + n, c.policy = b.policy
  PROVE  Vested(c, now)
<1>1. /\ linear_allowed(b, now) \in 0 .. b.balance
      /\ (b.withdrawn + n) * b.policy.duration <= b.policy.begin_balance * Elapsed(b, now)
      /\ Elapsed(b, now) >= b.policy.cliff
  BY LinearAllowed
<1>2. b.balance \in Int /\ b.withdrawn \in Int /\ b.policy.type = "linear" /\ n \in Int /\ n > 0
  BY LinearIs DEF Linear, Positive
<1>3. /\ b.withdrawn >= 0 /\ b.policy.begin_balance = b.balance + b.withdrawn
      /\ Elapsed(b, now) \in Nat /\ b.policy.cliff \in Nat
  BY <1>2, LinearIs DEF Vested, LinearVested
<1>4. Elapsed(c, now) = Elapsed(b, now)
  BY DEF Elapsed
<1>5. c.balance >= 0 /\ c.withdrawn >= 0 /\ b.policy.begin_balance = c.balance + c.withdrawn
  BY <1>1, <1>2, <1>3
<1>6. ~(Elapsed(c, now) < c.policy.cliff)
  BY <1>1, <1>3, <1>4
<1>7. c.withdrawn * c.policy.duration <= c.policy.begin_balance * Elapsed(c, now)
  BY <1>1, <1>4
<1>8. c.policy.type = "linear" /\ c.policy.begin_balance = c.balance + c.withdrawn
  BY <1>2, <1>5
<1> QED BY <1>5, <1>6, <1>7, <1>8 DEF Vested, LinearVested

(* The policy with its coin seconds brought up to date, and y more of them. *)
Updated(b, now, y) == [b.policy EXCEPT !.earned = compute_coin_seconds_earned(b, now) + y, !.last_update = now]

LEMMA UpdatedIs ==
  ASSUME NEW b \in VestingBalances, b.policy.type = "cdd", NEW now \in Int, NEW y \in Int
  PROVE  /\ Updated(b, now, y) \in CddPolicies
         /\ Updated(b, now, y).type = "cdd" /\ Updated(b, now, y).seconds = b.policy.seconds
         /\ Updated(b, now, y).earned = compute_coin_seconds_earned(b, now) + y
         /\ Updated(b, now, y).last_update = now
<1> DEFINE e == compute_coin_seconds_earned(b, now) + y
<1>1. e \in Int
  BY CddIs
<1>2. b.policy \in CddPolicies
  BY VestingIs
<1>3. Updated(b, now, y) = [b.policy EXCEPT !.earned = e, !.last_update = now]
  BY DEF Updated
<1> HIDE DEF e
<1>4. /\ Updated(b, now, y) \in CddPolicies
      /\ Updated(b, now, y).type = "cdd" /\ Updated(b, now, y).seconds = b.policy.seconds
      /\ Updated(b, now, y).earned = e
      /\ Updated(b, now, y).last_update = now
  BY <1>1, <1>2, <1>3 DEF CddPolicies
<1> QED BY <1>4 DEF e

(* b with x more, g more given, d more withdrawn and another policy. *)
Changed(b, now, x, g, d, p) ==
  [b EXCEPT !.balance = @ + x, !.granted = @ + g, !.withdrawn = @ + d, !.changed = now, !.policy = p]

LEMMA ChangedIs ==
  ASSUME NEW b \in VestingBalances, NEW now \in Int, NEW x \in Int, NEW g \in Int, NEW d \in Int,
         NEW p \in LinearPolicies \cup CddPolicies
  PROVE  LET c == Changed(b, now, x, g, d, p)
         IN  /\ c \in VestingBalances /\ c.id = b.id /\ c.owner = b.owner
             /\ c.balance = b.balance + x /\ c.granted = b.granted + g /\ c.withdrawn = b.withdrawn + d
             /\ c.held = b.held /\ c.changed = now /\ c.policy = p
<1> DEFINE c == Changed(b, now, x, g, d, p)
           u == b.balance + x
           v == b.granted + g
           w == b.withdrawn + d
<1>1. u \in Int /\ v \in Int /\ w \in Int
  BY VestingIs
<1>2. c = [b EXCEPT !.balance = u, !.granted = v, !.withdrawn = w, !.changed = now, !.policy = p]
  BY DEF Changed, VestingBalances
<1> HIDE DEF u, v, w, c
<1>3. /\ c \in VestingBalances /\ c.id = b.id /\ c.owner = b.owner
      /\ c.balance = u /\ c.granted = v /\ c.withdrawn = w
      /\ c.held = b.held /\ c.changed = now /\ c.policy = p
  BY <1>1, <1>2 DEF VestingBalances
<1> QED BY <1>3 DEF c, u, v, w

LEMMA DepositIs ==
  ASSUME NEW b \in VestingBalances, b.policy.type = "cdd", NEW now \in Int, NEW n \in Int
  PROVE  deposit(b, now, n) = Changed(b, now, n, 0, 0, Updated(b, now, 0))
<1> DEFINE C == compute_coin_seconds_earned(b, now)
           P == [b.policy EXCEPT !.earned = C, !.last_update = now]
<1>1. C \in Int /\ b.granted \in Int /\ b.withdrawn \in Int
  BY CddIs, VestingIs
<1>2. C + 0 = C /\ b.granted + 0 = b.granted /\ b.withdrawn + 0 = b.withdrawn
  <2> HIDE DEF C
  <2> QED BY <1>1
<1>3. Updated(b, now, 0) = P
  BY <1>2 DEF Updated
<1>4. update_coin_seconds_earned(b, now) = [b EXCEPT !.policy = P]
  <2>1. b.policy \in CddPolicies
    BY VestingIs
  <2> HIDE DEF C
  <2>2. update_coin_seconds_earned(b, now) = [b EXCEPT !.policy.earned = C, !.policy.last_update = now]
    BY DEF update_coin_seconds_earned, C
  <2> QED BY <2>1, <2>2 DEF VestingBalances, CddPolicies
<1>5. deposit(b, now, n) = [[b EXCEPT !.policy = P] EXCEPT !.balance = @ + n, !.changed = now]
  BY <1>4 DEF deposit
<1> HIDE DEF P
<1>6. deposit(b, now, n) = [b EXCEPT !.balance = @ + n, !.changed = now, !.policy = P]
  BY <1>5 DEF VestingBalances
<1>7. Changed(b, now, n, 0, 0, P) = [b EXCEPT !.balance = @ + n, !.changed = now, !.policy = P]
  BY <1>2 DEF Changed, VestingBalances
<1> QED BY <1>3, <1>6, <1>7

LEMMA DepositVestedIs ==
  ASSUME NEW b \in VestingBalances, b.policy.type = "cdd", NEW now \in Int, NEW n \in Int
  PROVE  deposit_vested(b, now, n) = Changed(b, now, n, n, 0, Updated(b, now, n * Rate(b)))
<1> DEFINE C == compute_coin_seconds_earned(b, now)
           P == Updated(b, now, 0)
           c == deposit(b, now, n)
           y == n * Rate(b)
<1>1. C \in Int /\ b.granted \in Int /\ b.withdrawn \in Int /\ Needed(b, n) = y
  BY CddIs, VestingIs
<1>2. C + 0 = C /\ b.granted + 0 = b.granted /\ b.withdrawn + 0 = b.withdrawn
  <2> HIDE DEF C
  <2> QED BY <1>1
<1>3. c = Changed(b, now, n, 0, 0, P)
  BY DepositIs
<1>4. /\ c \in VestingBalances /\ c.id = b.id /\ c.owner = b.owner
      /\ c.balance = b.balance + n /\ c.granted = b.granted + 0 /\ c.withdrawn = b.withdrawn + 0
      /\ c.held = b.held /\ c.changed = now /\ c.policy = P
  <2>1. P \in LinearPolicies \cup CddPolicies
    BY UpdatedIs
  <2> HIDE DEF P
  <2> QED BY <1>3, <2>1, ChangedIs
<1>5. P = [b.policy EXCEPT !.earned = C, !.last_update = now] /\ b.policy \in CddPolicies
  BY <1>2, VestingIs DEF Updated
<1>6. Updated(b, now, y) = [P EXCEPT !.earned = @ + y]
  <2> HIDE DEF C, y
  <2>1. Updated(b, now, y) = [b.policy EXCEPT !.earned = C + y, !.last_update = now]
    BY DEF Updated, C
  <2> QED BY <1>5, <2>1 DEF CddPolicies
<1>7. deposit_vested(b, now, n) = [c EXCEPT !.policy.earned = @ + y, !.granted = @ + n]
  BY <1>1 DEF deposit_vested
<1>8. deposit_vested(b, now, n)
        = [c EXCEPT !.policy = [P EXCEPT !.earned = @ + y], !.granted = b.granted + n]
  <2> HIDE DEF c, P, y
  <2> QED BY <1>2, <1>4, <1>5, <1>7 DEF VestingBalances, CddPolicies
<1>9. c = [b EXCEPT !.balance = @ + n, !.changed = now, !.policy = P]
  BY <1>2, <1>3 DEF Changed, VestingBalances
<1>10. Changed(b, now, n, n, 0, Updated(b, now, y))
         = [b EXCEPT !.balance = @ + n, !.granted = @ + n, !.changed = now, !.policy = Updated(b, now, y)]
  BY <1>2 DEF Changed, VestingBalances
<1>11. [c EXCEPT !.policy = Updated(b, now, y), !.granted = b.granted + n]
         = [b EXCEPT !.balance = @ + n, !.granted = @ + n, !.changed = now, !.policy = Updated(b, now, y)]
  <2> HIDE DEF c, P, y
  <2> QED BY <1>9 DEF VestingBalances
<1> QED BY <1>6, <1>8, <1>10, <1>11

LEMMA WithdrawIs ==
  ASSUME NEW b \in VestingBalances, NEW now \in Int, NEW n \in Int
  PROVE  /\ b.policy.type = "cdd" =>
              withdraw(b, now, n) = Changed(b, now, -n, 0, n, Updated(b, now, -(n * Rate(b))))
         /\ b.policy.type = "linear" => withdraw(b, now, n) = Changed(b, now, -n, 0, n, b.policy)
<1> DEFINE C == compute_coin_seconds_earned(b, now)
           paid == [b EXCEPT !.balance = @ - n, !.withdrawn = @ + n, !.changed = now]
           y == n * Rate(b)
<1>1. b.granted \in Int /\ b.withdrawn \in Int /\ b.balance \in Int
  BY VestingIs
<1>2. b.granted + 0 = b.granted /\ b.balance + (-n) = b.balance - n
  BY <1>1
<1>3. ASSUME NEW p
      PROVE  Changed(b, now, -n, 0, n, p) = [paid EXCEPT !.policy = p]
  BY <1>2 DEF Changed, VestingBalances
<1>4. ASSUME b.policy.type = "linear" PROVE withdraw(b, now, n) = Changed(b, now, -n, 0, n, b.policy)
  <2>1. withdraw(b, now, n) = paid
    BY <1>4 DEF withdraw
  <2>2. [paid EXCEPT !.policy = b.policy] = paid
    BY DEF VestingBalances
  <2> QED BY <1>3, <2>1, <2>2
<1>5. ASSUME b.policy.type = "cdd"
      PROVE  withdraw(b, now, n) = Changed(b, now, -n, 0, n, Updated(b, now, -y))
  <2> DEFINE P == [b.policy EXCEPT !.earned = C, !.last_update = now]
  <2>1. C \in Int /\ Needed(b, n) = y /\ b.policy \in CddPolicies /\ Rate(b) \in Int
    BY <1>5, CddIs, VestingIs
  <2>2. y \in Int /\ C - y = C + (-y)
    <3>1. y \in Int
      BY <2>1, Product
    <3> HIDE DEF y, C
    <3> QED BY <2>1, <3>1
  <2>3. update_coin_seconds_earned(b, now).policy = P
    <3> HIDE DEF C
    <3>1. update_coin_seconds_earned(b, now) = [b EXCEPT !.policy.earned = C, !.policy.last_update = now]
      BY DEF update_coin_seconds_earned, C
    <3> QED BY <2>1, <3>1 DEF VestingBalances, CddPolicies
  <2>4. withdraw(b, now, n) = [paid EXCEPT !.policy = [P EXCEPT !.earned = @ - y]]
    <3>1. b.policy.type # "linear"
      BY <1>5
    <3> HIDE DEF P, y
    <3> QED BY <2>1, <2>3, <3>1 DEF withdraw
  <2>5. Updated(b, now, -y) = [P EXCEPT !.earned = @ - y]
    <3> HIDE DEF C, y
    <3>1. Updated(b, now, -y) = [b.policy EXCEPT !.earned = C + (-y), !.last_update = now]
      BY DEF Updated, C
    <3> QED BY <2>1, <2>2, <3>1 DEF CddPolicies
  <2> QED BY <1>3, <2>4, <2>5
<1> QED BY <1>4, <1>5

(* Each operation on a balance keeps what holds of it. *)
LEMMA CddOnly ==
  ASSUME NEW c, c.policy.type = "cdd", NEW now
  PROVE  Vested(c, now) <=> c.balance >= 0 /\ CddVested(c, now)
BY DEF Vested

LEMMA DepositKept ==
  ASSUME NEW b \in VestingBalances, b.policy.type = "cdd", NEW now \in Int, Vested(b, now), NEW n \in Nat
  PROVE  LET c == deposit(b, now, n)
         IN  c \in VestingBalances /\ c.id = b.id /\ c.balance = b.balance + n /\ Vested(c, now)
<1> DEFINE p == Updated(b, now, 0)
           c == Changed(b, now, n, 0, 0, p)
           C == compute_coin_seconds_earned(b, now)
<1>1. /\ p \in LinearPolicies \cup CddPolicies /\ p.type = "cdd" /\ p.seconds = b.policy.seconds
      /\ p.earned = C + 0 /\ p.last_update = now
  BY UpdatedIs
<1>2. /\ c \in VestingBalances /\ c.id = b.id
      /\ c.balance = b.balance + n /\ c.granted = b.granted + 0 /\ c.withdrawn = b.withdrawn + 0
      /\ c.held = b.held /\ c.changed = now /\ c.policy = p
  <2> HIDE DEF p
  <2> QED BY <1>1, ChangedIs
<1>3. C \in Int /\ C >= 0 /\ Rate(b) \in Int /\ b.balance \in Int /\ b.balance >= 0
  BY CddIs, CddBetween, VestingIs DEF Vested
<1> HIDE DEF p, c, C
<1>4. 0 * Rate(b) = 0 /\ C + 0 = C
  BY <1>3
<1>5. p.earned = C + 0 * Rate(b) - 0 * Rate(b)
  BY <1>1, <1>3, <1>4
<1>6. CddStep(b, c, now, n, 0, 0)
  BY <1>1, <1>2, <1>5 DEF CddStep, C
<1>7. c.balance >= 0 /\ c.policy.earned >= 0 /\ n >= 0 - 0
  BY <1>1, <1>2, <1>3
<1>8. Vested(c, now)
  BY <1>2, <1>6, <1>7, CddKept
<1>9. deposit(b, now, n) = c
  BY DepositIs DEF c, p
<1> QED BY <1>2, <1>8, <1>9

LEMMA DepositVestedKept ==
  ASSUME NEW b \in VestingBalances, b.policy.type = "cdd", NEW now \in Int, Vested(b, now), NEW n \in Nat
  PROVE  LET c == deposit_vested(b, now, n)
         IN  c \in VestingBalances /\ c.id = b.id /\ c.balance = b.balance + n /\ Vested(c, now)
<1> DEFINE y == n * Rate(b)
           p == Updated(b, now, y)
           c == Changed(b, now, n, n, 0, p)
           C == compute_coin_seconds_earned(b, now)
<1>0. C \in Int /\ C >= 0 /\ Rate(b) \in Int /\ Rate(b) >= 1 /\ b.balance \in Int /\ b.balance >= 0
  BY CddIs, CddBetween, VestingIs DEF Vested
<1>00. y \in Int /\ y >= 0
  BY <1>0, Product
<1>1. /\ p \in LinearPolicies \cup CddPolicies /\ p.type = "cdd" /\ p.seconds = b.policy.seconds
      /\ p.earned = C + y /\ p.last_update = now
  <2> HIDE DEF y
  <2> QED BY <1>00, UpdatedIs
<1>2. /\ c \in VestingBalances /\ c.id = b.id
      /\ c.balance = b.balance + n /\ c.granted = b.granted + n /\ c.withdrawn = b.withdrawn + 0
      /\ c.held = b.held /\ c.changed = now /\ c.policy = p
  <2> HIDE DEF p
  <2> QED BY <1>1, ChangedIs
<1> HIDE DEF p, c, C
<1>4. 0 * Rate(b) = 0
  BY <1>0
<1>5. p.earned = C + n * Rate(b) - 0 * Rate(b) /\ p.earned >= 0
  <2>1. p.earned = C + y - 0 /\ p.earned >= 0
    <3> HIDE DEF y
    <3> QED BY <1>0, <1>00, <1>1
  <2> QED BY <1>4, <2>1
<1>6. CddStep(b, c, now, n, n, 0)
  BY <1>1, <1>2, <1>5 DEF CddStep, C
<1>7. c.balance >= 0 /\ c.policy.earned >= 0 /\ n >= n - 0
  BY <1>0, <1>2, <1>5
<1>8. Vested(c, now)
  BY <1>2, <1>6, <1>7, CddKept
<1>9. deposit_vested(b, now, n) = c
  BY DepositVestedIs DEF c, p
<1> QED BY <1>2, <1>8, <1>9

LEMMA AllowedIs ==
  ASSUME NEW b \in VestingBalances, NEW now \in Int, Vested(b, now)
  PROVE  /\ get_allowed_withdraw(b, now) \in 0 .. b.balance
         /\ b.policy.type = "linear" => Linear(b)
<1>1. b.policy.type = "linear" => Linear(b)
  BY VestingIs DEF Linear
<1> QED BY <1>1, VestingIs, CddAllowed, LinearAllowed DEF get_allowed_withdraw

(* A withdrawal of what is allowed. *)
LEMMA WithdrawKept ==
  ASSUME NEW b \in VestingBalances, NEW now \in Int, Vested(b, now),
         NEW n \in Positive, n <= get_allowed_withdraw(b, now)
  PROVE  LET c == withdraw(b, now, n)
         IN  c \in VestingBalances /\ c.id = b.id /\ c.balance = b.balance - n /\ Vested(c, now)
<1>1. n \in Int /\ n > 0 /\ -n \in Int
  BY DEF Positive
<1>2. b.balance \in Int /\ b.balance >= n
  BY <1>1, AllowedIs, VestingIs
<1>3. CASE b.policy.type = "linear"
  <2> DEFINE c == Changed(b, now, -n, 0, n, b.policy)
  <2>1. b.policy \in LinearPolicies \cup CddPolicies
    BY VestingIs
  <2>2. /\ c \in VestingBalances /\ c.id = b.id /\ c.balance = b.balance + (-n)
        /\ c.withdrawn = b.withdrawn + n /\ c.policy = b.policy
    BY <1>1, <2>1, ChangedIs
  <2>3. withdraw(b, now, n) = c
    BY <1>1, <1>3, WithdrawIs
  <2> HIDE DEF c
  <2>4. c.balance = b.balance - n
    BY <1>1, <1>2, <2>2
  <2>5. Linear(b) /\ n <= linear_allowed(b, now)
    BY <1>3, AllowedIs DEF get_allowed_withdraw
  <2>6. Vested(c, now)
    BY <2>2, <2>4, <2>5, LinearPaid
  <2> QED BY <2>2, <2>3, <2>4, <2>6
<1>4. CASE b.policy.type = "cdd"
  <2> DEFINE y == n * Rate(b)
             p == Updated(b, now, -y)
             c == Changed(b, now, -n, 0, n, p)
             C == compute_coin_seconds_earned(b, now)
             a == cdd_allowed(b, now)
  <2>0. C \in Int /\ Rate(b) \in Int /\ Rate(b) >= 1
    BY <1>4, CddIs
  <2>00. y \in Int /\ -y \in Int
    BY <1>1, <2>0, Product
  <2>1. /\ p \in LinearPolicies \cup CddPolicies /\ p.type = "cdd" /\ p.seconds = b.policy.seconds
        /\ p.earned = C + (-y) /\ p.last_update = now
    <3> HIDE DEF y
    <3> QED BY <1>4, <2>00, UpdatedIs
  <2>2. /\ c \in VestingBalances /\ c.id = b.id
        /\ c.balance = b.balance + (-n) /\ c.granted = b.granted + 0 /\ c.withdrawn = b.withdrawn + n
        /\ c.held = b.held /\ c.changed = now /\ c.policy = p
    <3> HIDE DEF p
    <3> QED BY <1>1, <2>1, ChangedIs
  <2>3. withdraw(b, now, n) = c
    BY <1>1, <1>4, WithdrawIs
  <2>4. y <= C
    <3>1. n <= a /\ a \in Int /\ a * Rate(b) <= C
      <4>1. a \in 0 .. b.balance /\ a * Rate(b) <= C
        BY <1>4, CddAllowed
      <4>2. n <= a
        BY <1>4 DEF get_allowed_withdraw
      <4> HIDE DEF a, C
      <4> QED BY <1>2, <4>1, <4>2
    <3> DEFINE w == Rate(b)
               z == a * w
    <3>2. y <= z /\ z \in Int
      <4>1. w \in Int /\ w >= 0
        BY <2>0
      <4> HIDE DEF a, w
      <4> QED BY <1>1, <3>1, <4>1, ProductLess DEF w
    <3>3. z <= C
      BY <3>1
    <3> HIDE DEF z, y, C
    <3> QED BY <2>0, <2>00, <3>2, <3>3
  <2> HIDE DEF p, c, C, a
  <2>5. 0 * Rate(b) = 0
    BY <2>0
  <2>6. p.earned = C + 0 * Rate(b) - n * Rate(b) /\ p.earned >= 0
    <3>1. p.earned = C + 0 - y /\ p.earned >= 0
      <4> HIDE DEF y
      <4> QED BY <2>0, <2>00, <2>1, <2>4
    <3> QED BY <2>5, <3>1
  <2>7. CddStep(b, c, now, -n, 0, n)
    BY <2>1, <2>2, <2>6 DEF CddStep, C
  <2>8. c.balance >= 0 /\ c.policy.earned >= 0 /\ -n >= 0 - n /\ c.balance = b.balance - n
    BY <1>1, <1>2, <2>2, <2>6
  <2>9. Vested(c, now)
    <3>1. -n \in Int /\ 0 \in Int /\ n \in Int
      BY <1>1
    <3> QED BY <1>4, <2>2, <2>7, <2>8, <3>1, CddKept
  <2> QED BY <2>2, <2>3, <2>8, <2>9
<1> QED BY <1>3, <1>4, VestingIs

LEMMA AgedKept ==
  ASSUME NEW b \in VestingBalances, NEW now \in Int, Vested(b, now), NEW d \in Int, d >= 0
  PROVE  Vested(Aged(b, d), now + d)
<1> DEFINE c == Aged(b, d)
<1>1. c.balance = b.balance /\ c.withdrawn = b.withdrawn /\ c.policy = b.policy
  BY AgedIs
<1> HIDE DEF c
<1>2. CASE b.policy.type = "cdd"
  <2>1. CddVested(c, now + d)
    BY <1>2, CddAged DEF c
  <2> QED BY <1>1, <1>2, <2>1 DEF Vested, c
<1>3. CASE b.policy.type = "linear"
  <2>1. LinearVested(c, now + d)
    <3>1. Linear(b) /\ now <= now + d /\ now + d \in Int
      BY <1>3, AllowedIs
    <3> QED BY <1>1, <3>1, LinearLater
  <2> QED BY <1>1, <1>3, <2>1 DEF Vested, c
<1> QED BY <1>2, <1>3, VestingIs

-----------------------------------------------------------------------------
(* Sets of balances: what they hold together, and that ids are not used     *)
(* twice.                                                                   *)
Amounted(S) == IsFiniteSet(S) /\ \A b \in S : b.balance \in Int

LEMMA TotalInt ==
  ASSUME NEW S, Amounted(S)
  PROVE  Total(S) \in Int
<1>1. [b \in S |-> b.balance] \in [S -> Int]
  BY DEF Amounted
<1> QED BY <1>1, SumIsInt DEF Total, Amounted

LEMMA TotalPlus ==
  ASSUME NEW S, Amounted(S), NEW o, o \notin S, o.balance \in Int
  PROVE  Amounted(S \cup {o}) /\ Total(S \cup {o}) = Total(S) + o.balance
<1> DEFINE T == S \cup {o}
           f == [b \in T |-> b.balance]
           e == [b \in S |-> b.balance]
<1>1. IsFiniteSet(T) /\ \A b \in T : b.balance \in Int
  <2>1. IsFiniteSet(S)
    BY DEF Amounted
  <2> QED BY <2>1, FS_AddElement DEF Amounted
<1>2. f \in [T -> Int] /\ e \in [S -> Int] /\ f[o] = o.balance
  BY <1>1
<1>3. Without(T, o) = S /\ \A y \in Without(T, o) : e[y] = f[y]
  BY DEF Without
<1>4. SumFunction(f) \in Int /\ SumFunction(e) = SumFunction(f) - f[o]
  <2>1. o \in T
    OBVIOUS
  <2> HIDE DEF T, f, e
  <2> QED BY <1>1, <1>2, <1>3, <2>1, SumWithout
<1>5. SumFunction(e) \in Int
  <2> HIDE DEF e, f
  <2> QED BY <1>2, SumIsInt DEF Amounted
<1>6. SumFunction(f) = SumFunction(e) + o.balance
  <2> HIDE DEF f, e
  <2> QED BY <1>2, <1>4, <1>5
<1> QED BY <1>1, <1>6 DEF Total, Amounted

LEMMA TotalMinus ==
  ASSUME NEW S, Amounted(S), NEW b \in S
  PROVE  Amounted(S \ {b}) /\ Total(S \ {b}) = Total(S) - b.balance
<1> DEFINE T == S \ {b}
<1>1. Amounted(T)
  BY FS_RemoveElement DEF Amounted
<1>2. b \notin T /\ T \cup {b} = S /\ b.balance \in Int
  BY DEF Amounted
<1> HIDE DEF T
<1>3. Total(S) = Total(T) + b.balance
  BY <1>1, <1>2, TotalPlus
<1>4. Total(T) \in Int
  BY <1>1, TotalInt
<1> QED BY <1>1, <1>2, <1>3, <1>4 DEF T

LEMMA RemovedIs ==
  ASSUME NEW S, NEW last, UniqueIds(S, last), NEW b \in S
  PROVE  Removed(S, b.id) = S \ {b} /\ UniqueIds(S \ {b}, last)
<1>1. Removed(S, b.id) = S \ {b}
  BY DEF Removed, UniqueIds
<1>2. IsFiniteSet(S \ {b})
  BY FS_RemoveElement DEF UniqueIds
<1> QED BY <1>1, <1>2 DEF UniqueIds

LEMMA ReplacedIs ==
  ASSUME NEW S, NEW last, UniqueIds(S, last), NEW b \in S, NEW o, o.id = b.id
  PROVE  Replaced(S, o) = (S \ {b}) \cup {o} /\ UniqueIds(Replaced(S, o), last) /\ o \notin S \ {b}
<1>1. Replaced(S, o) = (S \ {b}) \cup {o}
  BY DEF Replaced, UniqueIds
<1>2. IsFiniteSet((S \ {b}) \cup {o})
  BY FS_RemoveElement, FS_AddElement DEF UniqueIds
<1> QED BY <1>1, <1>2 DEF UniqueIds

LEMMA TotalReplaced ==
  ASSUME NEW S, NEW last, UniqueIds(S, last), Amounted(S), NEW b \in S, NEW o, o.id = b.id,
         o.balance \in Int
  PROVE  /\ Amounted(Replaced(S, o)) /\ UniqueIds(Replaced(S, o), last)
         /\ Total(Replaced(S, o)) = Total(S) - b.balance + o.balance
<1> DEFINE T == S \ {b}
<1>1. Replaced(S, o) = T \cup {o} /\ UniqueIds(Replaced(S, o), last) /\ o \notin T
  BY ReplacedIs
<1>2. Amounted(T) /\ Total(T) = Total(S) - b.balance
  BY TotalMinus
<1> HIDE DEF T
<1>3. Amounted(T \cup {o}) /\ Total(T \cup {o}) = Total(T) + o.balance
  BY <1>1, <1>2, TotalPlus
<1> QED BY <1>1, <1>2, <1>3

LEMMA TotalNew ==
  ASSUME NEW S, NEW last \in Nat, UniqueIds(S, last), Amounted(S), \A b \in S : b.id \in Nat,
         NEW o, o.id = last + 1, o.balance \in Int
  PROVE  /\ Amounted(S \cup {o}) /\ UniqueIds(S \cup {o}, last + 1)
         /\ Total(S \cup {o}) = Total(S) + o.balance
<1>1. \A b \in S : b.id < o.id /\ b.id # o.id /\ b.id <= last + 1
  <2>1. \A b \in S : b.id \in Nat /\ b.id <= last
    BY DEF UniqueIds
  <2> QED BY <2>1
<1>2. o \notin S
  BY <1>1
<1>3. Amounted(S \cup {o}) /\ Total(S \cup {o}) = Total(S) + o.balance
  BY <1>2, TotalPlus
<1>4. UniqueIds(S \cup {o}, last + 1)
  BY <1>1, <1>3 DEF UniqueIds, Amounted
<1> QED BY <1>3, <1>4

(* A later last id. *)
LEMMA UniqueMore ==
  ASSUME NEW S, NEW m \in Int, NEW n \in Int, m <= n, UniqueIds(S, m), \A b \in S : b.id \in Nat
  PROVE  UniqueIds(S, n)
<1>1. \A b \in S : b.id \in Nat /\ b.id <= m
  BY DEF UniqueIds
<1>2. \A b \in S : b.id <= n
  BY <1>1
<1> QED BY <1>2 DEF UniqueIds

(* Time passes for all of them: they hold the same. *)
Older(S, d) == {Aged(b, d) : b \in S}

OlderIs(S, d) == Amounted(Older(S, d)) /\ Total(Older(S, d)) = Total(S)

LEMMA TotalOlder ==
  ASSUME NEW S, NEW last, UniqueIds(S, last), S \subseteq VestingBalances, NEW d \in Int
  PROVE  Amounted(Older(S, d)) /\ Total(Older(S, d)) = Total(S) /\ UniqueIds(Older(S, d), last)
<1>1. IsFiniteSet(S) /\ \A b \in S : b \in VestingBalances /\ b.balance \in Int
  BY VestingIs DEF UniqueIds
<1> DEFINE K == {k \in Nat : \A T \in SUBSET S : Cardinality(T) = k => OlderIs(T, d)}
<1>2. 0 \in K
  <2>1. SUFFICES ASSUME NEW T \in SUBSET S, Cardinality(T) = 0 PROVE OlderIs(T, d)
    OBVIOUS
  <2>2. T = {}
    BY <1>1, <2>1, PartSize
  <2>3. Older(T, d) = T
    BY <2>2 DEF Older
  <2>4. Amounted(T)
    BY <2>2, FS_EmptySet DEF Amounted
  <2> QED BY <2>3, <2>4 DEF OlderIs
<1>3. ASSUME NEW k \in Nat, k \in K PROVE k + 1 \in K
  <2>1. SUFFICES ASSUME NEW T \in SUBSET S, Cardinality(T) = k + 1 PROVE OlderIs(T, d)
    OBVIOUS
  <2>2. IsFiniteSet(T) /\ T # {}
    <3>1. k + 1 # 0
      OBVIOUS
    <3> QED BY <1>1, <2>1, <3>1, PartSize
  <2>3. PICK x \in T : TRUE
    BY <2>2
  <2> DEFINE R == T \ {x}
             y == Aged(x, d)
  <2>4. R \in SUBSET S /\ Cardinality(R) = k
    <3>1. Cardinality(R) = Cardinality(T) - 1
      BY <1>1, PartSize
    <3> QED BY <2>1, <3>1
  <2>5. Amounted(Older(R, d)) /\ Total(Older(R, d)) = Total(R)
    BY <1>3, <2>4 DEF OlderIs
  <2>6. y.balance = x.balance /\ y.balance \in Int /\ y.id = x.id
    BY <1>1, AgedIs
  <2>7. y \notin Older(R, d)
    <3>1. SUFFICES ASSUME NEW b \in R, Aged(b, d) = y PROVE FALSE
      BY DEF Older
    <3>2. b.id = x.id
      <4>1. b \in VestingBalances
        BY <1>1
      <4>2. Aged(b, d).id = b.id
        BY <4>1, AgedIs
      <4> QED BY <2>6, <3>1, <4>2
    <3> QED BY <3>2 DEF UniqueIds
  <2>8. Older(T, d) = Older(R, d) \cup {y}
    BY DEF Older
  <2>9. Amounted(R) /\ x \notin R /\ R \cup {x} = T
    <3>1. IsFiniteSet(R)
      BY <1>1, <2>4, FS_Subset
    <3> QED BY <1>1, <3>1 DEF Amounted
  <2> HIDE DEF R, y
  <2>10. Amounted(Older(T, d)) /\ Total(Older(T, d)) = Total(R) + y.balance
    BY <2>5, <2>6, <2>7, <2>8, TotalPlus
  <2>11. Total(T) = Total(R) + x.balance
    BY <2>6, <2>9, TotalPlus
  <2> QED BY <2>6, <2>10, <2>11 DEF OlderIs
<1>4. Cardinality(S) \in K
  <2>1. Cardinality(S) \in Nat
    BY <1>1, FS_CardinalityType
  <2> HIDE DEF K
  <2> QED BY <1>2, <1>3, <2>1, NatSetInduction
<1>5. OlderIs(S, d)
  BY <1>4
<1>6. UniqueIds(Older(S, d), last)
  <2>1. \A b \in S : Aged(b, d).id = b.id
    BY <1>1, AgedIs
  <2>2. \A c \in Older(S, d) : \E b \in S : c = Aged(b, d) /\ c.id = b.id
    BY <2>1 DEF Older
  <2>3. ASSUME NEW c \in Older(S, d)
        PROVE  c.id <= last /\ \A e \in Older(S, d) : c.id = e.id => c = e
    <3>1. PICK b \in S : c = Aged(b, d) /\ c.id = b.id
      BY <2>2
    <3>2. ASSUME NEW e \in Older(S, d), c.id = e.id PROVE c = e
      <4>1. PICK a \in S : e = Aged(a, d) /\ e.id = a.id
        BY <2>2
      <4>2. a = b
        BY <3>1, <3>2, <4>1 DEF UniqueIds
      <4> QED BY <3>1, <4>1, <4>2
    <3>3. c.id <= last
      BY <3>1 DEF UniqueIds
    <3> QED BY <3>2, <3>3
  <2> QED BY <1>5, <2>3 DEF UniqueIds, OlderIs, Amounted
<1> QED BY <1>5, <1>6 DEF OlderIs

-----------------------------------------------------------------------------
(* The state of the objects between operations. *)
(* The permissions, *)
PermitsLimited(P, now) == \A p \in P : Limited(p, now) /\ p.expiration > now
(* the balances, *)
BalancesVested(S, last, now) == UniqueIds(S, last) /\ \A b \in S : Vested(b, now)

(* and all of the ledger. *)
Proper(s, now) ==
  /\ Sound(s) /\ PermitsLimited(s.permits, now)
  /\ BalancesVested(s.vestings, s.last_id, now) /\ BalancesVested(s.genesis, s.last_id, now)
  /\ \A p \in s.proposals : p.expiration > now

(* Nothing of the proposals changed. *)
SameHistory(s, t) ==
  t.proposals = s.proposals /\ t.executed = s.executed /\ t.applied_ops = s.applied_ops

(* What an operation on the other objects does. *)
Settles(s, t, now) == Proper(t, now) /\ Money(t) = Money(s) /\ SameHistory(s, t)

LEMMA ProperIs ==
  ASSUME NEW s, NEW now, Proper(s, now)
  PROVE  /\ s \in Ledgers /\ s.ok /\ \A a \in Accounts : s.balance[a] >= 0
         /\ s.last_id \in Nat /\ s.permits \subseteq Permits
         /\ s.vestings \subseteq VestingBalances /\ s.genesis \subseteq GenesisBalances
         /\ UniqueIds(s.vestings, s.last_id) /\ UniqueIds(s.genesis, s.last_id)
         /\ Amounted(s.vestings) /\ Amounted(s.genesis)
         /\ \A b \in s.vestings \cup s.genesis : b.id \in Nat /\ Vested(b, now)
<1>1. s \in Ledgers /\ s.ok /\ \A a \in Accounts : s.balance[a] >= 0
  BY DEF Proper, Sound
<1>2. /\ s.last_id \in Nat /\ s.permits \subseteq Permits
      /\ s.vestings \subseteq VestingBalances /\ s.genesis \subseteq GenesisBalances
  BY <1>1, LedgerIs
<1>3. /\ UniqueIds(s.vestings, s.last_id) /\ UniqueIds(s.genesis, s.last_id)
      /\ \A b \in s.vestings \cup s.genesis : Vested(b, now)
  BY DEF Proper, BalancesVested
<1>4. IsFiniteSet(s.vestings) /\ IsFiniteSet(s.genesis)
  BY <1>3 DEF UniqueIds
<1>5. \A b \in s.vestings : b.id \in Nat /\ b.balance \in Int
  BY <1>2, VestingIs
<1>6. \A b \in s.genesis : b.id \in Nat /\ b.balance \in Int
  BY <1>2, GenesisIs
<1> QED BY <1>1, <1>2, <1>3, <1>4, <1>5, <1>6 DEF Amounted

(* What does not touch the proposals leaves the ledger proper, when the     *)
(* objects it changes are.                                                  *)
LEMMA ProperWith ==
  ASSUME NEW s, NEW now, Proper(s, now), NEW t \in Ledgers, t.ok, \A a \in Accounts : t.balance[a] >= 0,
         SameHistory(s, t), s.last_id <= t.last_id, PermitsLimited(t.permits, now),
         BalancesVested(t.vestings, t.last_id, now), BalancesVested(t.genesis, t.last_id, now)
  PROVE  Proper(t, now)
<1>1. Sound(t)
  BY SoundWith DEF Proper, SameHistory
<1> QED BY <1>1 DEF Proper, SameHistory

LEMMA VestedMore ==
  ASSUME NEW s, NEW now, Proper(s, now), NEW n \in Nat, s.last_id <= n
  PROVE  BalancesVested(s.vestings, n, now) /\ BalancesVested(s.genesis, n, now)
<1>1. UniqueIds(s.vestings, n)
  <2>1. \A b \in s.vestings : b.id \in Nat
    BY ProperIs
  <2> QED BY <2>1, ProperIs, UniqueMore
<1>2. UniqueIds(s.genesis, n)
  <2>1. \A b \in s.genesis : b.id \in Nat
    BY ProperIs
  <2> QED BY <2>1, ProperIs, UniqueMore
<1> QED BY <1>1, <1>2, ProperIs DEF BalancesVested

LEMMA MoneyIs ==
  ASSUME NEW s \in Ledgers, Amounted(s.vestings), Amounted(s.genesis)
  PROVE  /\ SumFunction(s.balance) \in Int /\ s.fees \in Int /\ s.burned \in Int
         /\ Total(s.vestings) \in Int /\ Total(s.genesis) \in Int
<1>1. s.balance \in [Accounts -> Int] /\ IsFiniteSet(Accounts)
  BY LedgerIs, LedgerAssumption
<1>2. SumFunction(s.balance) \in Int
  BY <1>1, SumIsInt
<1> QED BY <1>2, LedgerIs, TotalInt

LEMMA RequireIs ==
  ASSUME NEW s \in Ledgers, NEW c \in BOOLEAN
  PROVE  /\ Require(s, c) \in Ledgers /\ Require(s, c).ok = (s.ok /\ c)
         /\ Require(s, c).balance = s.balance
         /\ Untouched(s, Require(s, c)) /\ SameHistory(s, Require(s, c))
<1> DEFINE k == s.ok /\ c
<1>1. k \in BOOLEAN
  BY LedgerIs
<1>2. Require(s, c) = [s EXCEPT !.ok = k]
  BY DEF Require, Ledgers
<1> HIDE DEF k
<1>3. [s EXCEPT !.ok = k] \in Ledgers
  BY <1>1 DEF Ledgers
<1> QED BY <1>2, <1>3 DEF k, Ledgers, Untouched, SameHistory

(* Other objects in place of those of the ledger. *)
WithPermits(s, P, n) == [s EXCEPT !.permits = P, !.last_id = n]
WithVestings(s, V, n) == [s EXCEPT !.vestings = V, !.last_id = n]
WithGenesis(s, G) == [s EXCEPT !.genesis = G]

LEMMA WithPermitsIs ==
  ASSUME NEW s \in Ledgers, NEW P, P \subseteq Permits, NEW n \in Nat
  PROVE  LET t == WithPermits(s, P, n)
         IN  /\ t \in Ledgers /\ t.permits = P /\ t.last_id = n /\ t.balance = s.balance
             /\ t.fees = s.fees /\ t.burned = s.burned /\ t.vestings = s.vestings /\ t.genesis = s.genesis
             /\ t.cashback_vb = s.cashback_vb /\ t.ok = s.ok /\ SameHistory(s, t)
BY DEF WithPermits, Ledgers, SameHistory

LEMMA WithVestingsIs ==
  ASSUME NEW s \in Ledgers, NEW V, V \subseteq VestingBalances, NEW n \in Nat
  PROVE  LET t == WithVestings(s, V, n)
         IN  /\ t \in Ledgers /\ t.vestings = V /\ t.last_id = n /\ t.balance = s.balance
             /\ t.fees = s.fees /\ t.burned = s.burned /\ t.permits = s.permits /\ t.genesis = s.genesis
             /\ t.cashback_vb = s.cashback_vb /\ t.ok = s.ok /\ SameHistory(s, t)
BY DEF WithVestings, Ledgers, SameHistory

LEMMA WithGenesisIs ==
  ASSUME NEW s \in Ledgers, NEW G, G \subseteq GenesisBalances
  PROVE  LET t == WithGenesis(s, G)
         IN  /\ t \in Ledgers /\ t.genesis = G /\ t.last_id = s.last_id /\ t.balance = s.balance
             /\ t.fees = s.fees /\ t.burned = s.burned /\ t.permits = s.permits /\ t.vestings = s.vestings
             /\ t.cashback_vb = s.cashback_vb /\ t.ok = s.ok /\ SameHistory(s, t)
BY DEF WithGenesis, Ledgers, SameHistory

(* The permissions. *)
PermissionTerms ==
  [from : Accounts, to : Accounts, limit : Positive, period : Positive, start : Nat, periods : Positive]

LEMMA PermissionIs ==
  ASSUME NEW op \in PermissionTerms
  PROVE  /\ op.from \in Accounts /\ op.to \in Accounts /\ op.limit \in Positive /\ op.period \in Positive
         /\ op.start \in Int /\ op.periods * op.period \in Int /\ op.periods * op.period > 0
<1>1. /\ op.from \in Accounts /\ op.to \in Accounts /\ op.limit \in Positive /\ op.period \in Positive
      /\ op.start \in Int /\ op.periods \in Int /\ op.periods > 0 /\ op.period \in Int /\ op.period > 0
  BY DEF PermissionTerms, Positive
<1>2. 1 * op.period <= op.periods * op.period /\ op.periods * op.period \in Int
  <2> DEFINE a == op.periods
             b == op.period
  <2>1. a \in Int /\ b \in Int /\ b >= 0 /\ 1 <= a /\ 1 \in Int
    BY <1>1
  <2>2. 1 * b <= a * b /\ a * b \in Int
    <3> HIDE DEF a, b
    <3> QED BY <2>1, ProductLess
  <2> QED BY <2>2
<1> DEFINE x == op.periods * op.period
<1>3. x \in Int /\ 1 * op.period <= x
  BY <1>2
<1>4. x > 0
  <2> HIDE DEF x
  <2> QED BY <1>1, <1>3
<1> QED BY <1>1, <1>2, <1>4

(* The state of the objects with other permissions. *)
LEMMA PermitsProper ==
  ASSUME NEW s, NEW now, Proper(s, now), NEW P, P \subseteq Permits, PermitsLimited(P, now),
         NEW n \in Nat, s.last_id <= n, NEW c \in BOOLEAN,
         NEW t, t = WithPermits(Require(s, c), P, n), t.ok
  PROVE  Settles(s, t, now)
<1> DEFINE r == Require(s, c)
<1>1. s \in Ledgers /\ s.ok /\ \A a \in Accounts : s.balance[a] >= 0
  BY ProperIs
<1>2. /\ r \in Ledgers /\ r.balance = s.balance /\ Untouched(s, r) /\ SameHistory(s, r)
  BY <1>1, RequireIs
<1> HIDE DEF r
<1>3. /\ t \in Ledgers /\ t.permits = P /\ t.last_id = n /\ t.balance = s.balance
      /\ t.fees = s.fees /\ t.burned = s.burned /\ t.vestings = s.vestings /\ t.genesis = s.genesis
      /\ SameHistory(s, t)
  <2>1. t = WithPermits(r, P, n)
    BY DEF r
  <2> QED BY <1>2, <2>1, WithPermitsIs DEF Untouched, SameHistory
<1>4. Proper(t, now)
  BY <1>1, <1>3, ProperWith, VestedMore
<1>5. Money(t) = Money(s)
  BY <1>3 DEF Money
<1> QED BY <1>3, <1>4, <1>5 DEF Settles

(* Each operation on a permission neither moves money that is not in a      *)
(* balance nor breaks the limit.                                            *)
LEMMA PermitCreated ==
  ASSUME head_time \in Int, NEW s, Proper(s, head_time), NEW op \in PermissionTerms,
         NEW t, t = withdraw_permission_create(s, op), t.ok
  PROVE  Settles(s, t, head_time)
<1> DEFINE q == [id |-> NewId(s), from |-> op.from, to |-> op.to, limit |-> op.limit,
                 period |-> op.period, start |-> op.start,
                 expiration |-> op.start + op.periods * op.period,
                 claimed |-> 0, claims |-> <<>>, first |-> op.start, carried |-> 0]
           P == s.permits \cup {q}
           c == op.start > head_time
           r == Require(s, c)
<1>1. s \in Ledgers /\ s.last_id \in Nat /\ s.permits \subseteq Permits /\ PermitsLimited(s.permits, head_time)
  BY ProperIs DEF Proper
<1>2. r \in Ledgers /\ r.ok = (s.ok /\ c) /\ r.permits = s.permits /\ r.last_id = s.last_id
  <2>1. c \in BOOLEAN
    OBVIOUS
  <2> HIDE DEF c
  <2> QED BY <1>1, <2>1, RequireIs DEF Untouched
<1>3. t = WithPermits(r, P, s.last_id + 1)
  <2>1. t = [r EXCEPT !.last_id = @ + 1, !.permits = @ \cup {q}]
    BY DEF withdraw_permission_create
  <2> HIDE DEF q, r
  <2> QED BY <1>2, <2>1 DEF WithPermits, Ledgers
<1>4. q \in Permits
  <2> DEFINE x == op.start + op.periods * op.period
  <2>1. x \in Int /\ NewId(s) \in Nat
    <3>1. op.start \in Int /\ op.periods * op.period \in Int
      BY PermissionIs
    <3> DEFINE y == op.periods * op.period
    <3>2. y \in Int
      BY <3>1
    <3>3. op.start + y \in Int
      <4> HIDE DEF y
      <4> QED BY <3>1, <3>2
    <3> QED BY <1>1, <3>3 DEF NewId
  <2>2. <<>> \in Seq([time : Int, amount : Int])
    OBVIOUS
  <2> HIDE DEF x
  <2>3. [id |-> NewId(s), from |-> op.from, to |-> op.to, limit |-> op.limit,
         period |-> op.period, start |-> op.start, expiration |-> x,
         claimed |-> 0, claims |-> <<>>, first |-> op.start, carried |-> 0] \in Permits
    BY <2>1, <2>2, PermissionIs DEF Permits
  <2> QED BY <2>3 DEF x
<1>5. q.claims = <<>> /\ q.first = q.start /\ q.carried = q.claimed /\ q.claimed >= 0
  OBVIOUS
<1>6. r.ok
  <2> HIDE DEF r, P
  <2> QED BY <1>2, <1>3 DEF WithPermits, Ledgers
<1>7. q.expiration > head_time
  <2> DEFINE y == op.periods * op.period
  <2>1. y \in Int /\ y > 0 /\ op.start \in Int /\ op.start > head_time /\ q.expiration = op.start + y
    BY <1>2, <1>6, PermissionIs
  <2>2. op.start + y > head_time
    <3> HIDE DEF y
    <3> QED BY <2>1
  <2> QED BY <2>1, <2>2
<1> HIDE DEF q
<1>8. Limited(q, head_time)
  BY <1>4, <1>5, LimitedNew
<1>9. P \subseteq Permits /\ PermitsLimited(P, head_time)
  BY <1>1, <1>4, <1>7, <1>8 DEF PermitsLimited
<1>10. s.last_id + 1 \in Nat /\ s.last_id <= s.last_id + 1 /\ c \in BOOLEAN
  BY <1>1
<1> HIDE DEF P, c
<1> QED BY <1>3, <1>9, <1>10, PermitsProper DEF r

LEMMA SamePermits ==
  ASSUME NEW s, NEW now, Proper(s, now), NEW P
  PROVE  /\ [s EXCEPT !.permits = P] = WithPermits(s, P, s.last_id)
         /\ Require(s, TRUE) = s
<1>1. s \in Ledgers /\ s.ok
  BY ProperIs
<1>2. Require(s, TRUE) = s
  BY <1>1 DEF Require, Ledgers
<1> QED BY <1>1, <1>2 DEF WithPermits, Ledgers

LEMMA PermitDeleted ==
  ASSUME NEW s, NEW now, Proper(s, now), NEW p, NEW t, t = withdraw_permission_delete(s, p), t.ok
  PROVE  Settles(s, t, now)
<1> DEFINE P == Removed(s.permits, p.id)
<1>1. t = [s EXCEPT !.permits = P]
  BY DEF withdraw_permission_delete
<1>2. s.permits \subseteq Permits /\ PermitsLimited(s.permits, now) /\ s.last_id \in Nat
  BY ProperIs DEF Proper
<1>3. P \subseteq Permits /\ PermitsLimited(P, now)
  BY <1>2 DEF PermitsLimited, Removed
<1> HIDE DEF P
<1>4. t = WithPermits(Require(s, TRUE), P, s.last_id)
  BY <1>1, SamePermits
<1>5. TRUE \in BOOLEAN /\ s.last_id <= s.last_id
  BY <1>2
<1> QED BY <1>2, <1>3, <1>4, <1>5, PermitsProper

LEMMA PermitUpdated ==
  ASSUME head_time \in Int, NEW s, Proper(s, head_time), NEW p \in s.permits, NEW op \in PermissionTerms,
         NEW t, t = withdraw_permission_update(s, p, op), t.ok
  PROVE  Settles(s, t, head_time)
<1> DEFINE y == op.periods * op.period
           x == op.start + y
           q == [p EXCEPT !.limit = op.limit, !.period = op.period, !.start = op.start, !.expiration = x,
                          !.claims = <<>>, !.first = op.start, !.carried = p.claimed]
           P == Replaced(s.permits, q)
           c == op.start >= head_time
           r == Require(s, c)
<1>1. /\ s \in Ledgers /\ s.last_id \in Nat /\ s.permits \subseteq Permits /\ PermitsLimited(s.permits, head_time)
      /\ p \in Permits
  BY ProperIs DEF Proper
<1>2. r \in Ledgers /\ r.ok = (s.ok /\ c) /\ r.permits = s.permits /\ r.last_id = s.last_id
  <2>1. c \in BOOLEAN
    OBVIOUS
  <2> HIDE DEF c
  <2> QED BY <1>1, <2>1, RequireIs DEF Untouched
<1>3. t = WithPermits(r, P, s.last_id)
  <2>1. t = [r EXCEPT !.permits = Replaced(@, q)]
    BY DEF withdraw_permission_update
  <2> HIDE DEF q, r
  <2> QED BY <1>2, <2>1 DEF WithPermits, Ledgers
<1>4. y \in Int /\ y > 0 /\ op.start \in Int /\ x \in Int
  <2>1. y \in Int /\ y > 0 /\ op.start \in Int
    BY PermissionIs
  <2> HIDE DEF y
  <2> QED BY <2>1
<1>5. r.ok
  <2> HIDE DEF r, P
  <2> QED BY <1>2, <1>3 DEF WithPermits, Ledgers
<1>6. x > head_time
  <2>1. op.start >= head_time
    BY <1>2, <1>5
  <2> HIDE DEF y
  <2> QED BY <1>4, <2>1
<1>7. q \in Permits
  <2>1. <<>> \in Seq([time : Int, amount : Int])
    OBVIOUS
  <2> HIDE DEF x
  <2> QED BY <1>1, <1>4, <2>1, PermissionIs, PermitIs DEF Permits
<1>8. /\ q.claims = <<>> /\ q.first = q.start /\ q.carried = q.claimed /\ q.claimed >= 0 /\ q.expiration = x
  <2>1. p.claimed >= 0
    BY <1>1 DEF PermitsLimited, Limited
  <2> HIDE DEF x
  <2> QED BY <1>1, <2>1 DEF Permits
<1> HIDE DEF q, x, y
<1>9. Limited(q, head_time)
  BY <1>7, <1>8, LimitedNew
<1>10. P \subseteq Permits /\ PermitsLimited(P, head_time)
  BY <1>1, <1>6, <1>7, <1>8, <1>9 DEF PermitsLimited, Replaced
<1>11. c \in BOOLEAN /\ s.last_id <= s.last_id
  BY <1>1
<1> HIDE DEF P, c
<1> QED BY <1>1, <1>3, <1>10, <1>11, PermitsProper DEF r

(* The claim pays the one account out of the other. *)
LEMMA PermitClaimed ==
  ASSUME head_time \in Int, NEW s, Proper(s, head_time), NEW p \in s.permits, NEW n \in Positive,
         NEW t, t = withdraw_permission_claim(s, p, n), t.ok
  PROVE  Settles(s, t, head_time)
<1> DEFINE c == /\ p.expiration > head_time /\ p.start <= head_time
                /\ n <= available_this_period(p, head_time)
           r == Require(s, c)
           op == [type |-> "transfer", from |-> p.from, to |-> p.to, amount |-> n]
           u == transfer(r, op)
           q == ClaimOf(p, n)
           P == Replaced(s.permits, q)
<1>1. /\ s \in Ledgers /\ s.last_id \in Nat /\ s.permits \subseteq Permits /\ PermitsLimited(s.permits, head_time)
      /\ p \in Permits /\ \A a \in Accounts : s.balance[a] >= 0
  BY ProperIs DEF Proper
<1>2. c \in BOOLEAN
  OBVIOUS
<1>3. r \in Ledgers /\ r.ok = (s.ok /\ c) /\ r.balance = s.balance /\ Untouched(s, r) /\ SameHistory(s, r)
  <2> HIDE DEF c
  <2> QED BY <1>1, <1>2, RequireIs
<1>4. op \in Operations /\ op.type = "transfer"
  BY <1>1, PermitIs DEF Operations
<1>5. t = [u EXCEPT !.permits = Replaced(@, q)]
  BY DEF withdraw_permission_claim, transfer, ClaimOf
<1> HIDE DEF c, r, op
<1>6. /\ u \in Ledgers /\ Untouched(r, u) /\ SameHistory(r, u)
      /\ SumFunction(u.balance) = SumFunction(r.balance)
      /\ u.ok => r.ok /\ \A a \in Accounts : u.balance[a] >= 0
  <2>1. \A a \in Accounts : r.balance[a] >= 0
    BY <1>1, <1>3
  <2> QED BY <1>3, <1>4, <2>1, TransferIs DEF SameHistory
<1> HIDE DEF u, q
<1>7. t = WithPermits(u, P, s.last_id)
  <2>1. u.permits = s.permits /\ u.last_id = s.last_id
    BY <1>3, <1>6 DEF Untouched
  <2>2. t = [u EXCEPT !.permits = P] /\ u \in Ledgers
    BY <1>5, <1>6, <2>1
  <2> HIDE DEF P
  <2> QED BY ONLY <2>1, <2>2 DEF WithPermits, Ledgers
<1>8. u.ok
  BY <1>5, <1>6 DEF Ledgers
<1>9. c
  BY <1>3, <1>6, <1>8
<1>10. q \in Permits /\ q.expiration = p.expiration /\ Limited(q, head_time)
  <2>1. n \in Int
    BY DEF Positive
  <2>2. q \in Permits /\ q.expiration = p.expiration
    BY <1>1, <2>1, ClaimIs DEF q
  <2>3. Limited(p, head_time) /\ p.start <= head_time /\ n <= available_this_period(p, head_time)
    BY <1>1, <1>9 DEF PermitsLimited, c
  <2>4. Limited(q, head_time)
    BY <1>1, <2>3, LimitedClaim DEF q
  <2> QED BY <2>2, <2>4
<1>11. P \subseteq Permits /\ PermitsLimited(P, head_time)
  BY <1>1, <1>10 DEF PermitsLimited, Replaced
<1> HIDE DEF P
<1>12. /\ t \in Ledgers /\ t.permits = P /\ t.last_id = s.last_id /\ t.balance = u.balance
       /\ t.fees = s.fees /\ t.burned = s.burned /\ t.vestings = s.vestings /\ t.genesis = s.genesis
       /\ SameHistory(s, t)
  BY <1>1, <1>3, <1>6, <1>7, <1>11, WithPermitsIs DEF Untouched, SameHistory
<1>13. Proper(t, head_time)
  <2>1. \A a \in Accounts : t.balance[a] >= 0
    BY <1>6, <1>8, <1>12
  <2>2. s.last_id <= t.last_id
    BY <1>1, <1>12
  <2> QED BY <1>1, <1>11, <1>12, <2>1, <2>2, ProperWith, VestedMore
<1>14. Money(t) = Money(s)
  BY <1>3, <1>6, <1>12 DEF Money
<1> QED BY <1>12, <1>13, <1>14 DEF Settles

(* Vesting balances. *)
LEMMA VestingsProper ==
  ASSUME NEW s, NEW now, Proper(s, now), NEW u \in Ledgers, u.ok, \A a \in Accounts : u.balance[a] >= 0,
         Untouched(s, u), SameHistory(s, u),
         NEW V, V \subseteq VestingBalances, NEW n \in Nat, s.last_id <= n, BalancesVested(V, n, now),
         Amounted(V), SumFunction(u.balance) + Total(V) = SumFunction(s.balance) + Total(s.vestings),
         NEW t, t = WithVestings(u, V, n)
  PROVE  Settles(s, t, now)
<1>1. /\ t \in Ledgers /\ t.vestings = V /\ t.last_id = n /\ t.balance = u.balance
      /\ t.fees = s.fees /\ t.burned = s.burned /\ t.permits = s.permits /\ t.genesis = s.genesis
      /\ t.ok /\ SameHistory(s, t)
  BY WithVestingsIs DEF Untouched, SameHistory
<1>2. Proper(t, now)
  <2>1. PermitsLimited(s.permits, now)
    BY DEF Proper
  <2>2. BalancesVested(s.genesis, n, now)
    BY VestedMore
  <2> QED BY <1>1, <2>1, <2>2, ProperWith
<1>3. Money(t) = Money(s)
  <2>1. s \in Ledgers /\ Amounted(s.vestings) /\ Amounted(s.genesis)
    BY ProperIs
  <2>2. /\ SumFunction(s.balance) \in Int /\ s.fees \in Int /\ s.burned \in Int
        /\ Total(s.vestings) \in Int /\ Total(s.genesis) \in Int
    BY <2>1, MoneyIs
  <2>3. SumFunction(u.balance) \in Int /\ Total(V) \in Int
    <3>1. Amounted(u.vestings) /\ Amounted(u.genesis)
      BY <2>1 DEF Untouched
    <3> QED BY <3>1, MoneyIs, TotalInt
  <2> DEFINE x == SumFunction(u.balance)
             y == SumFunction(s.balance)
             v == Total(V)
             w == Total(s.vestings)
             g == Total(s.genesis)
             e == s.fees
             f == s.burned
  <2>4. /\ Money(t) = x + e + f + v + g
        /\ Money(s) = y + e + f + w + g
    BY <1>1 DEF Money
  <2>5. x \in Int /\ y \in Int /\ v \in Int /\ w \in Int /\ g \in Int /\ e \in Int /\ f \in Int
        /\ x + v = y + w
    BY <2>2, <2>3
  <2>6. x + e + f + v + g = y + e + f + w + g
    <3> HIDE DEF x, y, v, w, g, e, f
    <3> QED BY ONLY <2>5
  <2> QED BY <2>4, <2>6
<1> QED BY <1>1, <1>2, <1>3 DEF Settles

LEMMA NewCdd ==
  ASSUME NEW b \in VestingBalances, b.policy.type = "cdd", NEW now \in Int, b.balance >= 0,
         b.policy.last_update = now, b.changed = now, b.held = 0, b.withdrawn = 0,
         b.policy.earned >= 0, b.policy.earned <= b.balance * Rate(b),
         b.policy.earned <= b.granted * Rate(b)
  PROVE  Vested(b, now)
<1>1. compute_coin_seconds_earned(b, now) = b.policy.earned
  BY CddNow
<1>2. Needed(b, b.withdrawn) = 0 * Rate(b) /\ Needed(b, b.granted) = b.granted * Rate(b) /\ Rate(b) \in Int
  BY CddIs
<1>3. 0 * Rate(b) = 0
  BY <1>2
<1>4. b.granted * Rate(b) \in Int /\ b.policy.earned \in Int
  <2>1. b.granted \in Int /\ b.policy.earned \in Int
    BY VestingIs, CddIs
  <2> QED BY <1>2, <2>1, Product
<1> DEFINE g == b.granted * Rate(b)
           e == b.policy.earned
<1>5. 0 + e <= 0 + g
  <2>1. e <= g /\ e \in Int /\ g \in Int
    BY <1>4
  <2> HIDE DEF e, g
  <2> QED BY <2>1
<1>6. Needed(b, b.withdrawn) + compute_coin_seconds_earned(b, now) <= b.held + Needed(b, b.granted)
  BY <1>1, <1>2, <1>3, <1>5
<1> QED BY <1>6 DEF Vested, CddVested

LEMMA NewLinear ==
  ASSUME NEW b, Linear(b), NEW now \in Int, b.balance >= 0, b.withdrawn = 0, b.policy.begin_balance = b.balance
  PROVE  Vested(b, now)
<1>1. /\ b.policy.type = "linear" /\ b.policy.duration \in Int /\ Elapsed(b, now) \in Int
      /\ Elapsed(b, now) >= 0 /\ b.balance \in Int
  BY LinearIs DEF Linear
<1>2. 0 * b.policy.duration = 0
  BY <1>1
<1>3. b.policy.begin_balance * Elapsed(b, now) >= 0
  <2> DEFINE x == Elapsed(b, now)
             y == b.balance
  <2>1. x \in Int /\ x >= 0 /\ y \in Int /\ y >= 0
    BY <1>1
  <2>2. y * x >= 0
    <3> HIDE DEF x, y
    <3> QED BY <2>1, Product
  <2> QED BY <2>2
<1> QED BY <1>1, <1>2, <1>3 DEF Vested, LinearVested

LEMMA NewVestingIs ==
  ASSUME head_time \in Int, NEW s, NEW owner \in Accounts, NEW n \in Int, NEW g \in Int, s.last_id \in Nat,
         NEW p \in LinearPolicies \cup CddPolicies, NEW b, b = NewVesting(s, owner, n, p, g)
  PROVE  /\ b \in VestingBalances /\ b.id = s.last_id + 1 /\ b.balance = n /\ b.policy = p
         /\ b.held = 0 /\ b.granted = g /\ b.withdrawn = 0 /\ b.changed = head_time
BY DEF NewVesting, NewId, VestingBalances

LEMMA AddedProper ==
  ASSUME NEW s, NEW now, Proper(s, now), NEW b \in VestingBalances, b.id = s.last_id + 1, Vested(b, now)
  PROVE  LET V == s.vestings \cup {b}
         IN  /\ V \subseteq VestingBalances /\ s.last_id + 1 \in Nat /\ s.last_id <= s.last_id + 1
             /\ BalancesVested(V, s.last_id + 1, now) /\ Amounted(V)
             /\ Total(V) = Total(s.vestings) + b.balance
<1>1. /\ s.last_id \in Nat /\ UniqueIds(s.vestings, s.last_id) /\ Amounted(s.vestings)
      /\ \A x \in s.vestings : x.id \in Nat /\ Vested(x, now)
      /\ s.vestings \subseteq VestingBalances
  BY ProperIs
<1>2. b.balance \in Int
  BY VestingIs
<1> DEFINE V == s.vestings \cup {b}
<1>3. Amounted(V) /\ UniqueIds(V, s.last_id + 1) /\ Total(V) = Total(s.vestings) + b.balance
  BY <1>1, <1>2, TotalNew
<1> QED BY <1>1, <1>3 DEF BalancesVested

LEMMA SwappedProper ==
  ASSUME NEW s, NEW now, Proper(s, now), NEW b \in s.vestings, NEW c \in VestingBalances, c.id = b.id,
         Vested(c, now)
  PROVE  LET V == Replaced(s.vestings, c)
         IN  /\ V \subseteq VestingBalances /\ BalancesVested(V, s.last_id, now) /\ Amounted(V)
             /\ Total(V) = Total(s.vestings) - b.balance + c.balance
<1>1. /\ UniqueIds(s.vestings, s.last_id) /\ Amounted(s.vestings)
      /\ \A x \in s.vestings : Vested(x, now)
      /\ s.vestings \subseteq VestingBalances
  BY ProperIs
<1>2. c.balance \in Int
  BY VestingIs
<1> DEFINE V == Replaced(s.vestings, c)
<1>3. Amounted(V) /\ UniqueIds(V, s.last_id) /\ Total(V) = Total(s.vestings) - b.balance + c.balance
  BY <1>1, <1>2, TotalReplaced
<1>4. V \subseteq VestingBalances /\ \A x \in V : Vested(x, now)
  BY <1>1 DEF Replaced
<1> QED BY <1>3, <1>4 DEF BalancesVested

VestingTerms == [owner : Accounts, amount : Positive, policy : LinearPolicies \cup CddPolicies]

(* What the balance holds was the account's. *)
LEMMA VestingCreated ==
  ASSUME head_time \in Int, NEW s, Proper(s, head_time), NEW a \in Accounts, NEW op \in VestingTerms,
         op.policy.type = "cdd" => op.policy.earned = 0,
         NEW t, t = vesting_balance_create(s, a, op), t.ok
  PROVE  Settles(s, t, head_time)
<1> DEFINE p == IF op.policy.type = "linear" THEN [op.policy EXCEPT !.begin_balance = op.amount]
                ELSE [op.policy EXCEPT !.last_update = head_time]
           b == NewVesting(s, op.owner, op.amount, p, 0)
           n == -op.amount
           u == adjust_balance(s, a, n)
           V == s.vestings \cup {b}
<1>1. /\ s \in Ledgers /\ s.ok /\ s.last_id \in Nat /\ \A x \in Accounts : s.balance[x] >= 0
  BY ProperIs
<1>2. /\ op.owner \in Accounts /\ op.amount \in Nat /\ op.amount > 0 /\ op.amount \in Int /\ n \in Int
      /\ op.policy \in LinearPolicies \cup CddPolicies
      /\ op.policy.type \in {"linear", "cdd"}
  BY DEF VestingTerms, Positive, LinearPolicies, CddPolicies
<1>3. /\ p \in LinearPolicies \cup CddPolicies /\ p.type = op.policy.type
      /\ p.type = "linear" => p \in LinearPolicies /\ p.begin_balance = op.amount
      /\ p.type = "cdd" => p \in CddPolicies /\ p.last_update = head_time /\ p.earned = 0
  <2>1. CASE op.policy.type = "linear"
    <3>1. op.policy \in LinearPolicies
      BY <1>2, <2>1 DEF CddPolicies
    <3>2. p = [op.policy EXCEPT !.begin_balance = op.amount]
      BY <2>1
    <3> HIDE DEF p
    <3> QED BY <1>2, <2>1, <3>1, <3>2 DEF LinearPolicies
  <2>2. CASE op.policy.type = "cdd"
    <3>1. op.policy \in CddPolicies
      BY <1>2, <2>2 DEF LinearPolicies
    <3>2. p = [op.policy EXCEPT !.last_update = head_time]
      BY <2>2
    <3> HIDE DEF p
    <3> QED BY <1>2, <2>2, <3>1, <3>2 DEF CddPolicies
  <2> QED BY <1>2, <2>1, <2>2
<1>4. t = [u EXCEPT !.last_id = @ + 1, !.vestings = @ \cup {b}]
  BY DEF vesting_balance_create
<1> HIDE DEF p, n
<1>5. /\ b \in VestingBalances /\ b.id = s.last_id + 1 /\ b.balance = op.amount /\ b.policy = p
      /\ b.held = 0 /\ b.granted = 0 /\ b.withdrawn = 0 /\ b.changed = head_time
  <2>1. /\ head_time \in Int /\ op.owner \in Accounts /\ op.amount \in Int /\ 0 \in Int /\ s.last_id \in Nat
        /\ p \in LinearPolicies \cup CddPolicies
    BY <1>1, <1>2, <1>3
  <2>2. b = NewVesting(s, op.owner, op.amount, p, 0)
    OBVIOUS
  <2> HIDE DEF b
  <2> QED BY ONLY <2>1, <2>2, NewVestingIs
<1> HIDE DEF b
<1>6. /\ u \in Ledgers /\ u.balance = [s.balance EXCEPT ![a] = @ + n]
      /\ u.ok = (s.ok /\ s.balance[a] + n >= 0)
      /\ Untouched(s, u) /\ SameHistory(s, u)
  BY <1>1, <1>2, AdjustIs DEF SameHistory
<1> HIDE DEF u
<1>7. t = WithVestings(u, V, s.last_id + 1) /\ u.ok
  <2>1. t = WithVestings(u, V, s.last_id + 1)
    BY <1>4, <1>6 DEF WithVestings, Ledgers, Untouched
  <2>2. u.ok
    BY <1>4, <1>6 DEF Ledgers
  <2> QED BY <2>1, <2>2
<1>8. \A x \in Accounts : u.balance[x] >= 0
  <2>1. s.balance \in [Accounts -> Int]
    BY <1>1, LedgerIs
  <2> QED BY <1>1, <1>2, <1>6, <1>7, <2>1
<1>9. Vested(b, head_time)
  <2>1. CASE p.type = "linear"
    <3>1. Linear(b)
      BY <1>2, <1>3, <1>5, <2>1 DEF Linear
    <3> QED BY <1>2, <1>3, <1>5, <2>1, <3>1, NewLinear
  <2>2. CASE p.type = "cdd"
    <3>1. b.policy.earned = 0 /\ b.policy.last_update = head_time /\ b.policy.type = "cdd"
      BY <1>3, <1>5, <2>2
    <3>2. Rate(b) \in Int /\ Rate(b) >= 1
      BY <1>5, <3>1, CddIs
    <3>3. 0 <= b.balance * Rate(b) /\ 0 <= b.granted * Rate(b)
      <4>1. b.balance \in Int /\ b.balance >= 0 /\ b.granted \in Int /\ b.granted >= 0 /\ Rate(b) >= 0
        BY <1>2, <1>5, <3>2
      <4> DEFINE x == b.balance
                 y == b.granted
                 w == Rate(b)
      <4>2. x * w >= 0 /\ y * w >= 0
        <5>1. x \in Int /\ x >= 0 /\ y \in Int /\ y >= 0 /\ w >= 0 /\ w \in Int
          BY <3>2, <4>1
        <5> HIDE DEF x, y, w
        <5> QED BY <5>1, Product
      <4> QED BY <4>2
    <3> QED BY <1>2, <1>5, <3>1, <3>3, NewCdd
  <2> QED BY <1>2, <1>3, <2>1, <2>2
<1>10. /\ V \subseteq VestingBalances /\ s.last_id + 1 \in Nat /\ s.last_id <= s.last_id + 1
       /\ BalancesVested(V, s.last_id + 1, head_time) /\ Amounted(V)
       /\ Total(V) = Total(s.vestings) + b.balance
  BY <1>5, <1>9, AddedProper
<1> HIDE DEF V
<1>11. SumFunction(u.balance) + Total(V) = SumFunction(s.balance) + Total(s.vestings)
  <2>1. SumFunction(s.balance) \in Int /\ SumFunction(u.balance) = SumFunction(s.balance) + n
    BY <1>1, <1>2, <1>6, BalanceSum
  <2>2. Total(s.vestings) \in Int
    BY ProperIs, TotalInt
  <2>3. Total(V) = Total(s.vestings) + op.amount /\ n = -op.amount
    BY <1>5, <1>10 DEF n
  <2> QED BY <1>2, <2>1, <2>2, <2>3
<1> DEFINE m == s.last_id + 1
<1>12. m \in Nat /\ s.last_id <= m /\ BalancesVested(V, m, head_time) /\ t = WithVestings(u, V, m)
  BY <1>7, <1>10
<1> HIDE DEF m
<1> QED BY <1>6, <1>7, <1>8, <1>10, <1>11, <1>12, VestingsProper

(* n more in the balance of a, when that is allowed. *)
LEMMA ReceivedIs ==
  ASSUME NEW s, NEW now, Proper(s, now), NEW c \in BOOLEAN, NEW a \in Accounts, NEW n \in Positive,
         NEW u, u = adjust_balance(Require(s, c), a, n)
  PROVE  /\ u \in Ledgers /\ Untouched(s, u) /\ SameHistory(s, u) /\ u.ok = c
         /\ \A x \in Accounts : u.balance[x] >= 0
         /\ SumFunction(u.balance) = SumFunction(s.balance) + n /\ SumFunction(s.balance) \in Int
<1> DEFINE r == Require(s, c)
<1>1. /\ s \in Ledgers /\ s.ok /\ \A x \in Accounts : s.balance[x] >= 0 /\ n \in Int /\ n > 0
  BY ProperIs DEF Positive
<1>2. r \in Ledgers /\ r.ok = c /\ r.balance = s.balance /\ Untouched(s, r) /\ SameHistory(s, r)
  BY <1>1, RequireIs
<1> HIDE DEF r
<1>3. /\ u \in Ledgers /\ u.balance = [r.balance EXCEPT ![a] = @ + n]
      /\ u.ok = (r.ok /\ r.balance[a] + n >= 0)
      /\ Untouched(r, u) /\ SameHistory(r, u)
  <2>1. u = adjust_balance(r, a, n)
    BY DEF r
  <2> QED BY <1>1, <1>2, <2>1, AdjustIs DEF SameHistory
<1>4. s.balance \in [Accounts -> Int]
  BY <1>1, LedgerIs
<1>5. \A x \in Accounts : u.balance[x] >= 0
  BY <1>1, <1>2, <1>3, <1>4
<1>6. u.ok = c
  BY <1>1, <1>2, <1>3, <1>4
<1>7. SumFunction(u.balance) = SumFunction(s.balance) + n /\ SumFunction(s.balance) \in Int
  BY <1>1, <1>2, <1>3, BalanceSum
<1> QED BY <1>2, <1>3, <1>5, <1>6, <1>7 DEF Untouched, SameHistory

(* The owner gets what has vested. *)
LEMMA VestingWithdrawn ==
  ASSUME head_time \in Int, NEW s, Proper(s, head_time), NEW b \in s.vestings, NEW n \in Positive,
         NEW t, t = vesting_balance_withdraw(s, b, n), t.ok
  PROVE  Settles(s, t, head_time)
<1> DEFINE k == n <= get_allowed_withdraw(b, head_time)
           u == adjust_balance(Require(s, k), b.owner, n)
           c == withdraw(b, head_time, n)
           V == Replaced(s.vestings, c)
<1>1. /\ s \in Ledgers /\ s.last_id \in Nat /\ s.vestings \subseteq VestingBalances /\ Amounted(s.vestings)
      /\ Vested(b, head_time) /\ b \in VestingBalances /\ b.owner \in Accounts /\ b.balance \in Int
  BY ProperIs, VestingIs
<1>2. k \in BOOLEAN
  OBVIOUS
<1>3. t = [u EXCEPT !.vestings = Replaced(@, c)]
  BY DEF vesting_balance_withdraw
<1> HIDE DEF k
<1>4. /\ u \in Ledgers /\ Untouched(s, u) /\ SameHistory(s, u) /\ u.ok = k
      /\ \A x \in Accounts : u.balance[x] >= 0
      /\ SumFunction(u.balance) = SumFunction(s.balance) + n /\ SumFunction(s.balance) \in Int
  BY <1>1, <1>2, ReceivedIs
<1> HIDE DEF u
<1>5. t = WithVestings(u, V, s.last_id)
  <2> HIDE DEF c
  <2> QED BY <1>3, <1>4 DEF WithVestings, Ledgers, Untouched
<1>6. u.ok /\ k
  <2> HIDE DEF V
  <2> QED BY <1>4, <1>5 DEF WithVestings, Ledgers
<1>7. c \in VestingBalances /\ c.id = b.id /\ c.balance = b.balance - n /\ Vested(c, head_time)
  BY <1>1, <1>6, WithdrawKept DEF k
<1> HIDE DEF c
<1>8. /\ V \subseteq VestingBalances /\ BalancesVested(V, s.last_id, head_time) /\ Amounted(V)
      /\ Total(V) = Total(s.vestings) - b.balance + c.balance
  BY <1>7, SwappedProper
<1> HIDE DEF V
<1>9. SumFunction(u.balance) + Total(V) = SumFunction(s.balance) + Total(s.vestings)
  <2>1. Total(s.vestings) \in Int /\ n \in Int
    BY <1>1, TotalInt DEF Positive
  <2> DEFINE w == Total(s.vestings)
             x == SumFunction(s.balance)
             y == SumFunction(u.balance)
             v == Total(V)
  <2>2. w \in Int /\ n \in Int /\ x \in Int /\ y = x + n /\ v = w - b.balance + (b.balance - n) /\ b.balance \in Int
    BY <1>1, <1>4, <1>7, <1>8, <2>1
  <2>3. y + v = x + w
    <3> HIDE DEF w, x, y, v
    <3> QED BY ONLY <2>2
  <2> QED BY <2>3
<1>10. s.last_id <= s.last_id
  BY <1>1
<1> QED BY <1>1, <1>4, <1>5, <1>6, <1>8, <1>9, <1>10, VestingsProper

(* Fees that come back. *)
WithFees(s, f, g, cb) == [s EXCEPT !.fees = f, !.burned = g, !.cashback_vb = cb]

LEMMA FeesIs ==
  ASSUME NEW s \in Ledgers, NEW f \in Int, NEW g \in Int, NEW cb \in [Accounts -> Nat]
  PROVE  LET t == WithFees(s, f, g, cb)
         IN  /\ t \in Ledgers /\ t.fees = f /\ t.burned = g /\ t.balance = s.balance
             /\ t.permits = s.permits /\ t.vestings = s.vestings /\ t.genesis = s.genesis
             /\ t.last_id = s.last_id /\ t.ok = s.ok /\ SameHistory(s, t)
BY DEF WithFees, Ledgers, SameHistory

CashbackTerms == [account : Accounts, amount : Nat, seconds : Nat, require_vesting : BOOLEAN]

(* The vesting balance the fees are put into, and the last id then. *)
LazyIs(s, n, t) ==
  \E V, m : /\ t = WithVestings(s, V, m) /\ m \in Nat /\ s.last_id <= m /\ V \subseteq VestingBalances
            /\ BalancesVested(V, m, head_time) /\ Amounted(V) /\ Total(V) = Total(s.vestings) + n

LEMMA LazyDeposited ==
  ASSUME head_time \in Int, NEW s, Proper(s, head_time), NEW id, NEW n \in Nat, NEW seconds \in Nat,
         NEW owner \in Accounts, NEW require_vesting \in BOOLEAN,
         NEW t, t = deposit_lazy_vesting(s, id, n, seconds, owner, require_vesting)
  PROVE  LazyIs(s, n, t)
<1> DEFINE old == {b \in s.vestings : /\ b.id = id /\ b.owner = owner
                                 /\ b.policy.type = "cdd" /\ b.policy.seconds = seconds}
           b == CHOOSE x \in old : TRUE
           after == IF require_vesting THEN deposit(b, head_time, n) ELSE deposit_vested(b, head_time, n)
           earned == IF require_vesting THEN 0 ELSE n * seconds
           p == cdd_vesting_policy(seconds, 0, earned, head_time)
           g == IF require_vesting THEN 0 ELSE n
           created == NewVesting(s, owner, n, p, g)
<1>1. t = IF old # {} THEN [s EXCEPT !.vestings = Replaced(@, after)]
          ELSE [s EXCEPT !.vestings = @ \cup {created}, !.last_id = @ + 1]
  BY DEF deposit_lazy_vesting
<1>2. /\ s \in Ledgers /\ s.last_id \in Nat /\ s.vestings \subseteq VestingBalances /\ Amounted(s.vestings)
      /\ \A x \in s.vestings : Vested(x, head_time)
  BY ProperIs
<1>20. Total(s.vestings) \in Int
  BY <1>2, TotalInt
<1>3. CASE old # {}
  <2>1. b \in s.vestings /\ b.policy.type = "cdd" /\ b \in VestingBalances /\ Vested(b, head_time)
        /\ b.balance \in Int
    BY <1>2, <1>3, VestingIs
  <2> HIDE DEF b
  <2>2. /\ after \in VestingBalances /\ after.id = b.id /\ after.balance = b.balance + n
        /\ Vested(after, head_time)
    BY <2>1, DepositKept, DepositVestedKept
  <2> DEFINE V == Replaced(s.vestings, after)
  <2>3. t = [s EXCEPT !.vestings = Replaced(@, after)]
    BY <1>1, <1>3
  <2> HIDE DEF after
  <2>4. t = WithVestings(s, V, s.last_id)
    BY <1>2, <2>3 DEF WithVestings, Ledgers
  <2>5. /\ V \subseteq VestingBalances /\ BalancesVested(V, s.last_id, head_time) /\ Amounted(V)
        /\ Total(V) = Total(s.vestings) - b.balance + after.balance
    BY <2>1, <2>2, SwappedProper
  <2>6. Total(V) = Total(s.vestings) + n
    <3> HIDE DEF V
    <3> QED BY <1>20, <2>1, <2>2, <2>5
  <2>7. s.last_id <= s.last_id
    BY <1>2
  <2> HIDE DEF V
  <2> QED BY <1>2, <2>4, <2>5, <2>6, <2>7 DEF LazyIs
<1>4. CASE old = {}
  <2>1. earned \in Int /\ earned >= 0 /\ g \in Int /\ g >= 0
    <3>1. n * seconds \in Int /\ n * seconds >= 0
      BY Product
    <3> QED BY <3>1
  <2>2. t = [s EXCEPT !.vestings = @ \cup {created}, !.last_id = @ + 1]
    BY <1>1, <1>4
  <2>3. (require_vesting => earned = 0) /\ (~require_vesting => earned = n * seconds /\ g = n)
    OBVIOUS
  <2> HIDE DEF earned, g
  <2>4. /\ p \in CddPolicies /\ p.type = "cdd" /\ p.seconds = seconds /\ p.earned = earned
        /\ p.last_update = head_time
    BY <2>1 DEF cdd_vesting_policy, CddPolicies
  <2> HIDE DEF p
  <2>5. /\ created \in VestingBalances /\ created.id = s.last_id + 1 /\ created.balance = n
        /\ created.policy = p /\ created.held = 0 /\ created.granted = g /\ created.withdrawn = 0
        /\ created.changed = head_time
    BY <1>2, <2>1, <2>4, NewVestingIs
  <2> HIDE DEF created
  <2>6. Vested(created, head_time)
    <3> DEFINE w == Rate(created)
    <3>1. created.policy.type = "cdd" /\ created.policy.seconds = seconds
      BY <2>4, <2>5
    <3>2. w \in Int /\ w >= 1 /\ w >= seconds
      BY <2>5, <3>1, CddIs
    <3>3. earned <= n * w /\ earned <= g * w
      <4> HIDE DEF w
      <4>1. n * w >= 0 /\ g * w >= 0
        <5>1. w >= 0
          BY <3>2
        <5> QED BY <2>1, <3>2, <5>1, Product
      <4>2. seconds * n <= w * n /\ seconds * n = n * seconds /\ w * n = n * w
        BY <3>2, ProductLess, Product
      <4>3. CASE require_vesting
        BY <2>3, <4>1, <4>3
      <4>4. CASE ~require_vesting
        BY <2>3, <4>2, <4>4
      <4> QED BY <4>3, <4>4
    <3> QED BY <2>1, <2>4, <2>5, <3>1, <3>3, NewCdd
  <2> DEFINE V == s.vestings \cup {created}
             m == s.last_id + 1
  <2>7. /\ V \subseteq VestingBalances /\ m \in Nat /\ s.last_id <= m
        /\ BalancesVested(V, m, head_time) /\ Amounted(V)
        /\ Total(V) = Total(s.vestings) + n
    BY <2>5, <2>6, AddedProper
  <2>8. t = WithVestings(s, V, m)
    BY <1>2, <2>2 DEF WithVestings, Ledgers
  <2> HIDE DEF V, m
  <2> QED BY <2>7, <2>8 DEF LazyIs
<1> QED BY <1>3, <1>4

(* Fees go into a vesting balance, an old or a new one, or are burned. *)
LEMMA FeesReturned ==
  ASSUME head_time \in Int, NEW s, Proper(s, head_time), NEW op \in CashbackTerms,
         NEW t, t = deposit_cashback(s, op)
  PROVE  Settles(s, t, head_time)
<1>1. /\ op.account \in Accounts /\ op.amount \in Nat /\ op.seconds \in Nat /\ op.require_vesting \in BOOLEAN
  BY DEF CashbackTerms
<1>2. /\ s \in Ledgers /\ s.ok /\ s.last_id \in Nat /\ \A a \in Accounts : s.balance[a] >= 0
      /\ Amounted(s.vestings) /\ Amounted(s.genesis)
  BY ProperIs
<1>3. s.fees \in Int /\ s.burned \in Int /\ s.cashback_vb \in [Accounts -> Nat]
  BY <1>2, LedgerIs
<1>4. PermitsLimited(s.permits, head_time)
  BY DEF Proper
<1>5. CASE op.account = Committee
  <2> DEFINE f == s.fees - op.amount
             g == s.burned + op.amount
             cb == s.cashback_vb
  <2>1. t = WithFees(s, f, g, cb)
    <3>1. t = [s EXCEPT !.fees = @ - op.amount, !.burned = @ + op.amount]
      BY <1>5 DEF deposit_cashback
    <3> QED BY <1>2, <3>1 DEF WithFees, Ledgers
  <2>2. f \in Int /\ g \in Int
    BY <1>1, <1>3
  <2>3. f + g = s.fees + s.burned
    BY <1>1, <1>3
  <2> HIDE DEF f, g
  <2>4. /\ t \in Ledgers /\ t.fees = f /\ t.burned = g /\ t.balance = s.balance
        /\ t.permits = s.permits /\ t.vestings = s.vestings /\ t.genesis = s.genesis
        /\ t.last_id = s.last_id /\ t.ok = s.ok /\ SameHistory(s, t)
    <3>1. cb \in [Accounts -> Nat]
      BY <1>3
    <3> HIDE DEF cb
    <3>2. s \in Ledgers
      BY <1>2
    <3> QED BY ONLY <2>1, <2>2, <3>1, <3>2, FeesIs
  <2>5. Proper(t, head_time)
    <3>1. s.last_id <= t.last_id /\ s.last_id <= s.last_id
      BY <1>2, <2>4
    <3> QED BY <1>2, <1>4, <2>4, <3>1, ProperWith, VestedMore
  <2>6. Money(t) = Money(s)
    <3>1. /\ SumFunction(s.balance) \in Int /\ Total(s.vestings) \in Int /\ Total(s.genesis) \in Int
      BY <1>2, MoneyIs
    <3> DEFINE x == SumFunction(s.balance)
               v == Total(s.vestings)
               w == Total(s.genesis)
               e == s.fees
               h == s.burned
    <3>2. Money(t) = x + f + g + v + w /\ Money(s) = x + e + h + v + w
      BY <2>4 DEF Money
    <3>3. /\ x \in Int /\ v \in Int /\ w \in Int /\ e \in Int /\ h \in Int
          /\ f + g = e + h
      BY <1>3, <2>3, <3>1
    <3>4. x + f + g + v + w = x + e + h + v + w
      <4> HIDE DEF x, v, w, e, h
      <4> QED BY ONLY <2>2, <3>3
    <3> QED BY <3>2, <3>4
  <2> QED BY <2>4, <2>5, <2>6 DEF Settles
<1>6. CASE op.account # Committee
  <2> DEFINE u == deposit_lazy_vesting(s, s.cashback_vb[op.account], op.amount, op.seconds, op.account,
                                       op.require_vesting)
             f == s.fees - op.amount
             cb == IF u.last_id = s.last_id THEN s.cashback_vb
                   ELSE [s.cashback_vb EXCEPT ![op.account] = u.last_id]
  <2>1. t = [u EXCEPT !.fees = @ - op.amount, !.cashback_vb = cb]
    BY <1>6 DEF deposit_cashback
  <2>2. PICK V, m : /\ u = WithVestings(s, V, m) /\ m \in Nat /\ s.last_id <= m /\ V \subseteq VestingBalances
                    /\ BalancesVested(V, m, head_time) /\ Amounted(V)
                    /\ Total(V) = Total(s.vestings) + op.amount
    <3>1. LazyIs(s, op.amount, u)
      BY <1>1, LazyDeposited
    <3> HIDE DEF u
    <3> QED BY <3>1 DEF LazyIs
  <2> HIDE DEF u
  <2>3. /\ u \in Ledgers /\ u.vestings = V /\ u.last_id = m /\ u.balance = s.balance
        /\ u.fees = s.fees /\ u.burned = s.burned /\ u.permits = s.permits /\ u.genesis = s.genesis
        /\ u.cashback_vb = s.cashback_vb /\ u.ok = s.ok /\ SameHistory(s, u)
    <3>1. u = WithVestings(s, V, m) /\ m \in Nat /\ V \subseteq VestingBalances /\ s \in Ledgers
      BY <1>2, <2>2
    <3> QED BY ONLY <3>1, WithVestingsIs
  <2>4. f \in Int /\ cb \in [Accounts -> Nat]
    BY <1>1, <1>3, <2>2, <2>3
  <2>5. t = WithFees(u, f, s.burned, cb)
    <3>1. u.fees = s.fees
      BY <2>3
    <3> HIDE DEF cb
    <3>2. t = [u EXCEPT !.fees = f, !.cashback_vb = cb]
      BY <2>1, <3>1
    <3> HIDE DEF f, cb
    <3>3. u \in Ledgers /\ u.burned = s.burned
      BY <2>3
    <3> QED BY ONLY <3>2, <3>3 DEF WithFees, Ledgers
  <2> HIDE DEF cb
  <2>6. /\ t \in Ledgers /\ t.fees = f /\ t.burned = s.burned /\ t.balance = s.balance
        /\ t.permits = s.permits /\ t.vestings = V /\ t.genesis = s.genesis
        /\ t.last_id = m /\ t.ok = s.ok /\ SameHistory(s, t)
    <3> HIDE DEF f
    <3> QED BY <1>3, <2>3, <2>4, <2>5, FeesIs DEF SameHistory
  <2>7. Proper(t, head_time)
    <3>1. BalancesVested(s.genesis, m, head_time)
      BY <2>2, VestedMore
    <3> HIDE DEF f
    <3>2. /\ t \in Ledgers /\ t.ok /\ SameHistory(s, t) /\ s.last_id <= t.last_id
          /\ \A a \in Accounts : t.balance[a] >= 0
          /\ PermitsLimited(t.permits, head_time)
          /\ BalancesVested(t.vestings, t.last_id, head_time)
          /\ BalancesVested(t.genesis, t.last_id, head_time)
      BY <1>2, <1>4, <2>2, <2>6, <3>1
    <3> QED BY <3>2, ProperWith
  <2>8. Money(t) = Money(s)
    <3>1. /\ SumFunction(s.balance) \in Int /\ Total(s.vestings) \in Int /\ Total(s.genesis) \in Int
      BY <1>2, MoneyIs
    <3> DEFINE x == SumFunction(s.balance)
               v == Total(s.vestings)
               w == Total(s.genesis)
               y == Total(V)
               e == s.fees
               h == s.burned
               k == op.amount
    <3>2. Money(t) = x + f + h + y + w /\ Money(s) = x + e + h + v + w
      <4> HIDE DEF f
      <4> QED BY <2>6 DEF Money
    <3>3. /\ x \in Int /\ v \in Int /\ w \in Int /\ e \in Int /\ h \in Int /\ k \in Int
          /\ f = e - k /\ y = v + k
      BY <1>1, <1>3, <2>2, <3>1
    <3>4. x + f + h + y + w = x + e + h + v + w
      <4> HIDE DEF x, v, w, e, h, y, k, f
      <4> QED BY ONLY <3>3
    <3> QED BY <3>2, <3>4
  <2> QED BY <2>6, <2>7, <2>8 DEF Settles
<1> QED BY <1>5, <1>6

(* Balances of genesis. *)
ClaimedBalance(b, n) == [withdraw(b, head_time, n) EXCEPT !.last_claim = head_time]

LEMMA ClaimedIs ==
  ASSUME head_time \in Int, NEW b \in GenesisBalances, b.policy.type = "linear", Vested(b, head_time),
         NEW n \in Positive, n <= linear_allowed(b, head_time)
  PROVE  LET c == ClaimedBalance(b, n)
         IN  c \in GenesisBalances /\ c.id = b.id /\ c.balance = b.balance - n /\ Vested(c, head_time)
<1> DEFINE c == ClaimedBalance(b, n)
           x == b.balance - n
           y == b.withdrawn + n
<1>1. n \in Int /\ b.balance \in Int /\ b.withdrawn \in Int /\ b.policy \in LinearPolicies
  BY GenesisIs DEF Positive
<1>2. x \in Int /\ y \in Int
  BY <1>1
<1>3. c = [b EXCEPT !.balance = x, !.withdrawn = y, !.changed = head_time, !.last_claim = head_time]
  <2>1. withdraw(b, head_time, n) = [b EXCEPT !.balance = @ - n, !.withdrawn = @ + n, !.changed = head_time]
    BY DEF withdraw
  <2>2. c = [[b EXCEPT !.balance = @ - n, !.withdrawn = @ + n, !.changed = head_time] EXCEPT !.last_claim = head_time]
    BY <2>1 DEF ClaimedBalance
  <2> QED BY <2>2 DEF GenesisBalances
<1> HIDE DEF c, x, y
<1>4. c \in GenesisBalances /\ c.id = b.id /\ c.balance = x /\ c.withdrawn = y /\ c.policy = b.policy
  BY <1>2, <1>3 DEF GenesisBalances
<1>5. Linear(b)
  BY <1>1 DEF Linear
<1>6. Vested(c, head_time)
  BY <1>4, <1>5, LinearPaid DEF x, y
<1> QED BY <1>4, <1>6 DEF c, x

(* The genesis balances after a claim of n, and what they hold. *)
GenesisPaid(s, G, n) ==
  /\ G \subseteq GenesisBalances /\ BalancesVested(G, s.last_id, head_time) /\ Amounted(G)
  /\ Total(G) = Total(s.genesis) - n

LEMMA AfterClaimIs ==
  ASSUME head_time \in Int, NEW s, Proper(s, head_time), NEW b \in s.genesis, NEW n \in Positive,
         b.policy.type = "linear" => n <= linear_allowed(b, head_time),
         b.policy.type # "linear" => n = b.balance
  PROVE  GenesisPaid(s, AfterClaim(s.genesis, b, n), n)
<1> DEFINE c == ClaimedBalance(b, n)
<1>1. /\ s.genesis \subseteq GenesisBalances /\ UniqueIds(s.genesis, s.last_id) /\ Amounted(s.genesis)
      /\ \A x \in s.genesis : Vested(x, head_time)
      /\ b \in GenesisBalances /\ b.balance \in Int
  BY ProperIs, GenesisIs
<1>2. Total(s.genesis) \in Int /\ n \in Int
  BY <1>1, TotalInt DEF Positive
<1>3. CASE b.policy.type = "linear" /\ n < b.balance
  <2>1. c \in GenesisBalances /\ c.id = b.id /\ c.balance = b.balance - n /\ Vested(c, head_time)
    BY <1>1, <1>3, ClaimedIs
  <2>2. AfterClaim(s.genesis, b, n) = Replaced(s.genesis, c)
    BY <1>3 DEF AfterClaim, ClaimedBalance
  <2> HIDE DEF c
  <2> DEFINE G == Replaced(s.genesis, c)
  <2>3. c.balance \in Int
    BY <1>1, <1>2, <2>1
  <2>4. /\ Amounted(G) /\ UniqueIds(G, s.last_id)
        /\ Total(G) = Total(s.genesis) - b.balance + c.balance
    BY <1>1, <2>1, <2>3, TotalReplaced
  <2>5. G \subseteq GenesisBalances /\ \A x \in G : Vested(x, head_time)
    BY <1>1, <2>1 DEF Replaced
  <2> HIDE DEF G
  <2>6. Total(G) = Total(s.genesis) - n
    BY <1>1, <1>2, <2>1, <2>4
  <2> QED BY <2>2, <2>4, <2>5, <2>6 DEF GenesisPaid, BalancesVested, G
<1>4. CASE ~(b.policy.type = "linear" /\ n < b.balance)
  <2>1. n = b.balance
    <3>1. CASE b.policy.type = "linear"
      <4>1. Linear(b) /\ Vested(b, head_time)
        BY <1>1, <3>1, GenesisIs DEF Linear
      <4>2. linear_allowed(b, head_time) \in 0 .. b.balance
        BY <4>1, LinearAllowed
      <4> QED BY <1>1, <1>2, <1>4, <3>1, <4>2
    <3> QED BY <3>1
  <2> DEFINE G == s.genesis \ {b}
  <2>2. AfterClaim(s.genesis, b, n) = G /\ UniqueIds(G, s.last_id)
    BY <1>1, <1>4, RemovedIs DEF AfterClaim
  <2>3. Amounted(G) /\ Total(G) = Total(s.genesis) - b.balance
    BY <1>1, TotalMinus
  <2>4. G \subseteq GenesisBalances /\ \A x \in G : Vested(x, head_time)
    BY <1>1
  <2> HIDE DEF G
  <2> QED BY <2>1, <2>2, <2>3, <2>4 DEF GenesisPaid, BalancesVested
<1> QED BY <1>3, <1>4

(* The claimant gets what is taken off the genesis balance. *)
LEMMA GenesisClaimed ==
  ASSUME head_time \in Int, NEW s, Proper(s, head_time), NEW a \in Accounts, NEW b \in s.genesis,
         NEW n \in Positive, NEW t, t = balance_claim(s, a, b, n), t.ok
  PROVE  Settles(s, t, head_time)
<1> DEFINE k == IF b.policy.type = "linear"
                  THEN /\ n <= linear_allowed(b, head_time)
                       /\ head_time - b.last_claim >= ClaimInterval
                  ELSE n = b.balance
           u == adjust_balance(Require(s, k), a, n)
           G == AfterClaim(s.genesis, b, n)
<1>1. /\ s \in Ledgers /\ s.last_id \in Nat /\ Amounted(s.vestings) /\ Amounted(s.genesis)
      /\ PermitsLimited(s.permits, head_time) /\ BalancesVested(s.vestings, s.last_id, head_time)
  BY ProperIs DEF Proper
<1>2. k \in BOOLEAN
  OBVIOUS
<1>3. t = [u EXCEPT !.genesis = AfterClaim(@, b, n)]
  BY DEF balance_claim
<1> HIDE DEF k
<1>4. /\ u \in Ledgers /\ Untouched(s, u) /\ SameHistory(s, u) /\ u.ok = k
      /\ \A x \in Accounts : u.balance[x] >= 0
      /\ SumFunction(u.balance) = SumFunction(s.balance) + n /\ SumFunction(s.balance) \in Int
  BY <1>2, ReceivedIs
<1> HIDE DEF u
<1>5. t = WithGenesis(u, G)
  BY <1>3, <1>4 DEF WithGenesis, Untouched
<1>6. u.ok /\ k
  <2> HIDE DEF G
  <2> QED BY <1>4, <1>5 DEF WithGenesis, Ledgers
<1>7. GenesisPaid(s, G, n)
  BY <1>6, AfterClaimIs DEF k
<1> HIDE DEF G
<1>8. /\ t \in Ledgers /\ t.genesis = G /\ t.last_id = s.last_id /\ t.balance = u.balance
      /\ t.fees = s.fees /\ t.burned = s.burned /\ t.permits = s.permits /\ t.vestings = s.vestings
      /\ t.ok /\ SameHistory(s, t)
  <2>1. G \subseteq GenesisBalances
    BY <1>7 DEF GenesisPaid
  <2> QED BY <1>4, <1>5, <1>6, <2>1, WithGenesisIs DEF Untouched, SameHistory
<1>9. Proper(t, head_time)
  <2>1. /\ \A x \in Accounts : t.balance[x] >= 0
        /\ s.last_id <= t.last_id /\ BalancesVested(t.genesis, t.last_id, head_time)
    BY <1>1, <1>4, <1>7, <1>8 DEF GenesisPaid
  <2> QED BY <1>1, <1>8, <2>1, ProperWith
<1>10. Money(t) = Money(s)
  <2>1. /\ SumFunction(s.balance) \in Int /\ s.fees \in Int /\ s.burned \in Int
        /\ Total(s.vestings) \in Int /\ Total(s.genesis) \in Int
    BY <1>1, MoneyIs
  <2> DEFINE x == SumFunction(s.balance)
             y == SumFunction(u.balance)
             v == Total(s.vestings)
             w == Total(s.genesis)
             z == Total(G)
             e == s.fees
             h == s.burned
  <2>2. Money(t) = y + e + h + v + z /\ Money(s) = x + e + h + v + w
    BY <1>8 DEF Money
  <2>3. /\ x \in Int /\ v \in Int /\ w \in Int /\ e \in Int /\ h \in Int /\ n \in Int
        /\ y = x + n /\ z = w - n
    BY <1>4, <1>7, <2>1 DEF GenesisPaid, Positive
  <2>4. y + e + h + v + z = x + e + h + v + w
    <3> HIDE DEF x, y, v, w, z, e, h
    <3> QED BY ONLY <2>3
  <2> QED BY <2>2, <2>4
<1> QED BY <1>8, <1>9, <1>10 DEF Settles

(* A transaction or block begins. *)
Listing(s, ops) == [s EXCEPT !.applied_ops = ops]

LEMMA ListingIs ==
  ASSUME NEW s, NEW now, Proper(s, now), NEW ops \in Seq(AppliedOps)
  PROVE  LET t == Listing(s, ops)
         IN  /\ Proper(t, now) /\ Money(t) = Money(s) /\ t.applied_ops = ops /\ t.balance = s.balance
             /\ t.permits = s.permits /\ t.vestings = s.vestings /\ t.genesis = s.genesis
             /\ t.proposals = s.proposals /\ t.executed = s.executed /\ t.last_id = s.last_id
             /\ t.fees = s.fees
<1> DEFINE t == Listing(s, ops)
<1>1. /\ s \in Ledgers /\ s.ok /\ s.last_id \in Nat /\ \A a \in Accounts : s.balance[a] >= 0
  BY ProperIs
<1>2. /\ t \in Ledgers /\ t.ok /\ t.applied_ops = ops /\ t.balance = s.balance
      /\ t.permits = s.permits /\ t.vestings = s.vestings /\ t.genesis = s.genesis
      /\ t.proposals = s.proposals /\ t.executed = s.executed /\ t.last_id = s.last_id
      /\ t.fees = s.fees /\ t.burned = s.burned
  BY <1>1 DEF Listing, Ledgers, AppliedOps
<1> HIDE DEF t
<1>3. Sound(t)
  <2>1. s.last_id <= t.last_id
    BY <1>1, <1>2
  <2> QED BY <1>1, <1>2, <2>1, SoundWith DEF Proper
<1>4. Proper(t, now)
  BY <1>2, <1>3 DEF Proper
<1>5. Money(t) = Money(s)
  BY <1>2 DEF Money
<1> QED BY <1>2, <1>4, <1>5 DEF t

(* Proposals, among the other objects. *)
ProposalTerms == [ops : Seq(Operations), lifetime : Nat, review : Nat \cup {Never}]

(* What proposal_create does: it adds proposals that are new. *)
Proposes(s, t, now) ==
  /\ Proper(t, now) /\ Money(t) = Money(s) /\ t.executed = s.executed /\ t.applied_ops = s.applied_ops
  /\ \A q \in t.proposals : q \in s.proposals \/ q.id > s.last_id

(* A new proposal names only older ones. *)
LEMMA ProposalCreated ==
  ASSUME head_time \in Int, NEW s, Proper(s, head_time), NEW op \in ProposalTerms,
         \A i \in DOMAIN op.ops : op.ops[i].type # "transfer" => Exists(s.proposals, op.ops[i].proposal),
         NEW t, t = proposal_create(s, op), t.ok
  PROVE  Proposes(s, t, head_time)
<1> DEFINE fits == /\ op.lifetime > 0 /\ op.lifetime <= MaxProposalLifetime
                   /\ op.review = Never \/ op.review < op.lifetime
                   /\ Committee \in Signers(op.ops) => op.review # Never /\ op.review >= CommitteeReview
           x == head_time + op.lifetime
           y == IF op.review = Never THEN Never ELSE head_time + op.lifetime - op.review
           q == [id |-> NewId(s), ops |-> op.ops, expiration |-> x, review |-> y, available |-> {}]
           r == Require(s, fits)
           Q == s.proposals \cup {q}
           m == s.last_id + 1
<1>1. /\ op.ops \in Seq(Operations) /\ op.lifetime \in Nat /\ op.lifetime \in Int
      /\ op.review \in Int /\ Never \in Int
  BY DEF ProposalTerms, Never
<1>2. /\ s \in Ledgers /\ s.ok /\ s.last_id \in Nat /\ \A a \in Accounts : s.balance[a] >= 0
      /\ s.proposals \subseteq ProposalObjects /\ Sound(s)
  BY ProperIs, LedgerIs DEF Proper
<1>3. fits \in BOOLEAN
  OBVIOUS
<1>4. t = [r EXCEPT !.last_id = @ + 1, !.proposals = @ \cup {q}]
  BY DEF proposal_create
<1>5. x \in Int /\ y \in Int /\ (op.lifetime > 0 => x > head_time)
  BY <1>1
<1>6. fits => op.lifetime > 0
  OBVIOUS
<1> HIDE DEF fits, x, y
<1>7. q \in ProposalObjects /\ q.id = m /\ q.ops = op.ops /\ q.expiration = x
  BY <1>1, <1>2, <1>5 DEF ProposalObjects, NewId
<1>8. r \in Ledgers /\ r.ok = fits /\ r.balance = s.balance /\ Untouched(s, r) /\ SameHistory(s, r)
  BY <1>2, <1>3, RequireIs
<1> HIDE DEF q, r
<1>9. t = [r EXCEPT !.last_id = m, !.proposals = Q]
  BY <1>4, <1>8 DEF Ledgers, Untouched, SameHistory
<1>10. m \in Nat /\ Q \subseteq ProposalObjects /\ s.last_id < m
  BY <1>2, <1>7
<1> HIDE DEF Q
<1>11. /\ t \in Ledgers /\ t.last_id = m /\ t.proposals = Q /\ t.balance = s.balance /\ t.ok = r.ok
       /\ t.fees = s.fees /\ t.burned = s.burned /\ t.permits = s.permits /\ t.vestings = s.vestings
       /\ t.genesis = s.genesis /\ t.executed = s.executed /\ t.applied_ops = s.applied_ops
  <2>1. /\ t \in Ledgers /\ t.last_id = m /\ t.proposals = Q /\ t.balance = r.balance /\ t.ok = r.ok
        /\ t.fees = r.fees /\ t.burned = r.burned /\ t.permits = r.permits /\ t.vestings = r.vestings
        /\ t.genesis = r.genesis /\ t.executed = r.executed /\ t.applied_ops = r.applied_ops
    <3> HIDE DEF m
    <3> QED BY <1>8, <1>9, <1>10 DEF Ledgers
  <2> QED BY <1>8, <2>1 DEF Untouched, SameHistory
<1>12. fits /\ x > head_time
  BY <1>5, <1>6, <1>8, <1>11
<1>13. UniqueIds(s.proposals, s.last_id) /\ OlderNamed(s) /\ Once(s)
       /\ \A p \in s.proposals : p.id \in Nat /\ p.id <= s.last_id /\ p.id # m /\ p.id <= m
  <2>1. UniqueIds(s.proposals, s.last_id) /\ OlderNamed(s) /\ Once(s)
    BY <1>2 DEF Sound
  <2>2. \A p \in s.proposals : p.id \in Nat /\ p.id <= s.last_id
    BY <1>2, <2>1, ProposalIs DEF UniqueIds
  <2> QED BY <1>2, <2>1, <2>2
<1>14. UniqueIds(Q, m)
  <2>1. IsFiniteSet(Q)
    BY <1>13, FS_AddElement DEF UniqueIds, Q
  <2>2. \A o \in Q : o.id <= m /\ \A p \in Q : o.id = p.id => o = p
    BY <1>7, <1>10, <1>13 DEF UniqueIds, Q
  <2> QED BY <2>1, <2>2 DEF UniqueIds
<1>15. OlderNamed(t)
  <2>1. \A i \in DOMAIN q.ops : Names(q.ops[i], q.id)
    <3>1. SUFFICES ASSUME NEW i \in DOMAIN op.ops, op.ops[i].type # "transfer"
                   PROVE  op.ops[i].proposal < m
      BY <1>7 DEF Names
    <3>2. PICK p \in s.proposals : p.id = op.ops[i].proposal
      BY <3>1 DEF Exists
    <3> QED BY <1>10, <1>13, <3>2, <1>2
  <2> QED BY <1>11, <1>13, <2>1 DEF OlderNamed, Q
<1>16. Once(t)
  <2>1. ASSUME NEW i \in DOMAIN s.executed
        PROVE  /\ s.executed[i].id <= m /\ s.executed[i].id # m
               /\ ~Exists(s.proposals, s.executed[i].id)
    <3>1. s.executed[i].id <= s.last_id /\ ~Exists(s.proposals, s.executed[i].id)
      BY <1>13 DEF Once
    <3>2. s.executed[i].id \in Nat
      <4>1. s.executed \in Seq([id : Nat, expiration : Int, review : Int])
        BY <1>2, LedgerIs
      <4>2. s.executed[i] \in [id : Nat, expiration : Int, review : Int]
        BY <4>1, ElementOfSeq, LenProperties
      <4> QED BY <4>2
    <3> QED BY <1>2, <3>1, <3>2
  <2>2. \A i \in DOMAIN s.executed : ~Exists(Q, s.executed[i].id)
    BY <1>7, <2>1 DEF Exists, Q
  <2>3. \A i, j \in DOMAIN s.executed : s.executed[i].id = s.executed[j].id => i = j
    BY <1>13 DEF Once
  <2> QED BY <1>11, <2>1, <2>2, <2>3 DEF Once
<1>17. Sound(t)
  BY <1>2, <1>8, <1>11, <1>12, <1>14, <1>15, <1>16 DEF Sound
<1>18. Proper(t, head_time)
  <2>1. PermitsLimited(s.permits, head_time) /\ \A p \in s.proposals : p.expiration > head_time
    BY DEF Proper
  <2>2. BalancesVested(s.vestings, m, head_time) /\ BalancesVested(s.genesis, m, head_time)
    <3>1. s.last_id <= m
      BY <1>2
    <3> HIDE DEF m
    <3> QED BY <1>10, <3>1, VestedMore
  <2>3. \A p \in Q : p.expiration > head_time
    BY <1>7, <1>12, <2>1 DEF Q
  <2> HIDE DEF m
  <2> QED BY <1>11, <1>17, <2>1, <2>2, <2>3 DEF Proper
<1>19. Money(t) = Money(s)
  BY <1>11 DEF Money
<1>20. \A p \in t.proposals : p \in s.proposals \/ p.id > s.last_id
  BY <1>7, <1>10, <1>11 DEF Q
<1> QED BY <1>11, <1>18, <1>19, <1>20 DEF Proposes

(* What leads on leaves the other objects proper. *)
LEMMA LeadsProper ==
  ASSUME NEW s, NEW now, Proper(s, now), NEW t, NEW later, NEW n, Leads(s, t, later, n)
  PROVE  Proper(t, now) /\ Money(t) = Money(s)
<1>1. Sound(t) /\ Untouched(s, t) /\ SumFunction(t.balance) = SumFunction(s.balance)
  BY DEF Leads, Pays
<1>2. \A q \in t.proposals : \E p \in s.proposals : q.expiration = p.expiration
  BY DEF Leads, Changes, SameProposal
<1>3. Proper(t, now)
  BY <1>1, <1>2 DEF Proper, Untouched
<1>4. Money(t) = Money(s)
  BY <1>1 DEF Money, Untouched
<1> QED BY <1>3, <1>4

(* The time of the next block. *)
LEMMA BalancesLater ==
  ASSUME NEW s, NEW now \in Int, Proper(s, now), NEW later \in Int, now <= later
  PROVE  LET V == Older(s.vestings, later - now)
         IN  /\ V \subseteq VestingBalances /\ Amounted(V) /\ Total(V) = Total(s.vestings)
             /\ BalancesVested(V, s.last_id, later) /\ BalancesVested(s.genesis, s.last_id, later)
<1> DEFINE d == later - now
           V == Older(s.vestings, d)
<1>1. /\ UniqueIds(s.vestings, s.last_id) /\ s.vestings \subseteq VestingBalances
      /\ UniqueIds(s.genesis, s.last_id) /\ s.genesis \subseteq GenesisBalances
      /\ \A b \in s.vestings \cup s.genesis : Vested(b, now)
  BY ProperIs
<1>2. d \in Int /\ d >= 0 /\ now + d = later
  OBVIOUS
<1> HIDE DEF d
<1>3. Amounted(V) /\ Total(V) = Total(s.vestings) /\ UniqueIds(V, s.last_id)
  BY <1>1, <1>2, TotalOlder
<1>4. ASSUME NEW c \in V PROVE c \in VestingBalances /\ Vested(c, later)
  <2>1. PICK b \in s.vestings : c = Aged(b, d)
    BY DEF Older
  <2>2. b \in VestingBalances /\ Vested(b, now)
    BY <1>1
  <2>3. Aged(b, d) \in VestingBalances
    BY <1>2, <2>2, AgedIs
  <2>4. Vested(Aged(b, d), now + d)
    BY <1>2, <2>2, AgedKept
  <2> QED BY <1>2, <2>1, <2>3, <2>4
<1>5. ASSUME NEW b \in s.genesis PROVE Vested(b, later)
  <2>1. b \in GenesisBalances /\ Vested(b, now) /\ b.balance >= 0
    BY <1>1 DEF Vested
  <2>2. CASE b.policy.type = "linear"
    <3>1. Linear(b)
      BY <2>1, <2>2, GenesisIs DEF Linear
    <3>2. LinearVested(b, later)
      BY <2>1, <3>1, LinearLater
    <3> QED BY <2>1, <2>2, <3>2 DEF Vested
  <2>3. CASE b.policy.type = "none"
    BY <2>1, <2>3 DEF Vested
  <2> QED BY <2>1, <2>2, <2>3, GenesisIs
<1> HIDE DEF V
<1>6. V \subseteq VestingBalances /\ BalancesVested(V, s.last_id, later)
  BY <1>3, <1>4 DEF BalancesVested
<1>7. BalancesVested(s.genesis, s.last_id, later)
  BY <1>1, <1>5 DEF BalancesVested
<1> QED BY <1>3, <1>6, <1>7 DEF V, d

-----------------------------------------------------------------------------
(* What a transaction or the end of a block does, with the properties of    *)
(* such a step.                                                             *)
(* the step of ReviewRespected, *)
Respects(s, t, now) ==
  /\ \A i \in DOMAIN t.executed \ DOMAIN s.executed :
       LET x == t.executed[i] IN x.review # Never => now >= x.expiration
  /\ \A p \in s.proposals, q \in t.proposals :
       p.id = q.id /\ InReview(p, now) => q.available \subseteq p.available

(* the step of AllOrNothing, *)
Applies(s, t) ==
  t.applied_ops # <<[type |-> "other"]>> =>
    \A a \in Accounts :
      t.balance[a] - s.balance[a] =
        SumFunction([i \in DOMAIN t.applied_ops |-> Effect(t.applied_ops[i], a)])

(* and both, with the money and the ledger kept. *)
Follows(s, t, now) ==
  Proper(t, now) /\ Money(t) = Money(s) /\ Respects(s, t, now) /\ Applies(s, t)

LEMMA LeadsRespects ==
  ASSUME NEW s, Sound(s), NEW u, u.proposals = s.proposals, u.executed = s.executed,
         NEW t, NEW now \in Int, NEW n, Leads(u, t, now, n)
  PROVE  Respects(s, t, now)
<1>1. s \in Ledgers /\ t \in Ledgers /\ UniqueIds(s.proposals, s.last_id)
  BY DEF Sound, Leads
<1>2. ASSUME NEW i \in DOMAIN t.executed \ DOMAIN s.executed, t.executed[i].review # Never
      PROVE  now >= t.executed[i].expiration
  <2>1. t.executed[i].expiration <= now
    BY <1>2 DEF Leads, Executes
  <2>2. t.executed \in Seq([id : Nat, expiration : Int, review : Int])
    BY <1>1, LedgerIs
  <2>3. t.executed[i] \in [id : Nat, expiration : Int, review : Int]
    BY <2>2, LenProperties, ElementOfSeq
  <2>4. t.executed[i].expiration \in Int
    BY <2>3
  <2> QED BY <2>1, <2>4
<1>3. ASSUME NEW p \in s.proposals, NEW q \in t.proposals, p.id = q.id, InReview(p, now)
      PROVE  q.available \subseteq p.available
  <2>1. PICK r \in s.proposals : SameProposal(r, q, now)
    BY DEF Leads, Changes
  <2>2. r = p
    BY <1>1, <1>3, <2>1 DEF UniqueIds, SameProposal
  <2> QED BY <1>3, <2>1, <2>2 DEF SameProposal
<1> QED BY <1>2, <1>3 DEF Respects

LEMMA LeadsApplies ==
  ASSUME NEW s \in Ledgers, NEW u \in Ledgers, u.balance = s.balance, u.applied_ops = <<>>,
         NEW t \in Ledgers, NEW v, v.balance = t.balance, v.applied_ops = t.applied_ops, Pays(u, t)
  PROVE  Applies(s, v)
<1>1. ASSUME NEW a \in Accounts
      PROVE  v.balance[a] - s.balance[a] = Effects(v.applied_ops, a)
  <2>1. t.balance[a] - u.balance[a] = Effects(t.applied_ops, a) - Effects(u.applied_ops, a)
    BY DEF Pays
  <2>2. Effects(u.applied_ops, a) = 0
    BY NoEffects
  <2>3. Effects(t.applied_ops, a) \in Int
    BY EffectsInt
  <2> QED BY <2>1, <2>2, <2>3
<1> QED BY <1>1 DEF Applies, Effects

(* A transaction with an operation that a proposal may also hold. *)
LEMMA OperateFollows ==
  ASSUME head_time \in Int, Proper(ledger, head_time), NEW op \in Operations,
         NEW t, t = apply_operation(Begin, op, head_time), t.ok
  PROVE  Follows(ledger, t, head_time)
<1> DEFINE u == Begin
           n == IF op.type = "transfer" THEN 0 ELSE op.proposal + 1
<1>1. u = Listing(ledger, <<>>)
  BY DEF Begin, Listing
<1>2. /\ Proper(u, head_time) /\ Money(u) = Money(ledger) /\ u.applied_ops = <<>>
      /\ u.balance = ledger.balance /\ u.proposals = ledger.proposals /\ u.executed = ledger.executed
  <2>1. <<>> \in Seq(AppliedOps)
    OBVIOUS
  <2> HIDE DEF u
  <2> QED BY <1>1, <2>1, ListingIs
<1>3. n \in Nat /\ Names(op, n)
  BY OperationIs DEF Names
<1> HIDE DEF u, n
<1>4. t = apply_operation(u, op, head_time)
  BY DEF u
<1>5. Sound(u) /\ Sound(ledger) /\ u \in Ledgers /\ ledger \in Ledgers
  BY <1>2 DEF Proper, Sound
<1>6. Leads(u, t, head_time, n)
  BY <1>3, <1>4, <1>5, OperationLeads
<1>7. Proper(t, head_time) /\ Money(t) = Money(u)
  BY <1>2, <1>6, LeadsProper
<1>8. Respects(ledger, t, head_time)
  BY <1>2, <1>5, <1>6, LeadsRespects
<1>9. Applies(ledger, t)
  <2>1. Pays(u, t) /\ t \in Ledgers
    BY <1>6 DEF Leads, Sound
  <2> QED BY <1>2, <1>5, <2>1, LeadsApplies
<1> QED BY <1>2, <1>7, <1>8, <1>9 DEF Follows

LEMMA OtherIs ==
  ASSUME Proper(ledger, head_time)
  PROVE  /\ Proper(Other, head_time) /\ Money(Other) = Money(ledger)
         /\ Other.applied_ops = <<[type |-> "other"]>> /\ Other.balance = ledger.balance
         /\ Other.permits = ledger.permits /\ Other.vestings = ledger.vestings
         /\ Other.genesis = ledger.genesis /\ Other.proposals = ledger.proposals
         /\ Other.executed = ledger.executed /\ Other.last_id = ledger.last_id
<1> DEFINE l == <<[type |-> "other"]>>
<1>1. l \in Seq(AppliedOps)
  BY DEF AppliedOps
<1>2. Other = Listing(ledger, l)
  BY DEF Other, Listing
<1> HIDE DEF l
<1>3. /\ Proper(Other, head_time) /\ Money(Other) = Money(ledger)
      /\ Other.applied_ops = l /\ Other.balance = ledger.balance
      /\ Other.permits = ledger.permits /\ Other.vestings = ledger.vestings
      /\ Other.genesis = ledger.genesis /\ Other.proposals = ledger.proposals
      /\ Other.executed = ledger.executed /\ Other.last_id = ledger.last_id
  BY <1>1, <1>2, ListingIs
<1> QED BY <1>3 DEF l

LEMMA ProposesFollows ==
  ASSUME head_time \in Int, Proper(ledger, head_time), NEW t, Proposes(Other, t, head_time)
  PROVE  Follows(ledger, t, head_time)
<1>1. /\ Money(Other) = Money(ledger)
      /\ Other.applied_ops = <<[type |-> "other"]>> /\ Other.proposals = ledger.proposals
      /\ Other.executed = ledger.executed /\ Other.last_id = ledger.last_id
  BY OtherIs
<1>2. /\ Proper(t, head_time) /\ Money(t) = Money(ledger) /\ t.executed = ledger.executed
      /\ t.applied_ops = <<[type |-> "other"]>>
      /\ \A q \in t.proposals : q \in ledger.proposals \/ q.id > ledger.last_id
  BY <1>1 DEF Proposes
<1>3. UniqueIds(ledger.proposals, ledger.last_id) /\ ledger.last_id \in Nat
      /\ ledger.proposals \subseteq ProposalObjects
  BY LedgerIs DEF Proper, Sound
<1>4. ASSUME NEW p \in ledger.proposals, NEW q \in t.proposals, p.id = q.id
      PROVE  q.available \subseteq p.available
  <2>1. p.id \in Nat /\ p.id <= ledger.last_id
    BY <1>3, ProposalIs DEF UniqueIds
  <2>2. ~(q.id > ledger.last_id)
    BY <1>3, <1>4, <2>1
  <2>3. q = p
    BY <1>2, <1>3, <1>4, <2>2 DEF UniqueIds
  <2> QED BY <2>3
<1>5. Respects(ledger, t, head_time)
  BY <1>2, <1>4 DEF Respects
<1>6. Applies(ledger, t)
  BY <1>2 DEF Applies
<1> QED BY <1>2, <1>5, <1>6 DEF Follows

(* A transaction with an operation on the other objects. *)
LEMMA SettlesFollows ==
  ASSUME head_time \in Int, Proper(ledger, head_time), NEW t, Settles(Other, t, head_time)
  PROVE  Follows(ledger, t, head_time)
<1>1. Proposes(Other, t, head_time)
  BY DEF Settles, SameHistory, Proposes
<1> QED BY <1>1, ProposesFollows

(* The end of a block. *)
(* update_withdraw_permissions removes the permissions that have expired. *)
LEMMA Unexpired ==
  ASSUME NEW s, NEW before, NEW now \in Int, before \in Int, before <= now, Sound(s),
         PermitsLimited(s.permits, before), BalancesVested(s.vestings, s.last_id, now),
         BalancesVested(s.genesis, s.last_id, now), Expired(s, now) = {},
         NEW t, t = update_withdraw_permissions(s, now)
  PROVE  /\ Proper(t, now) /\ Money(t) = Money(s) /\ SameHistory(s, t) /\ t.balance = s.balance
<1> DEFINE P == {p \in s.permits : p.expiration > now}
<1>1. /\ s \in Ledgers /\ s.ok /\ \A a \in Accounts : s.balance[a] >= 0
      /\ s.permits \subseteq Permits /\ s.last_id \in Nat /\ s.proposals \subseteq ProposalObjects
  BY LedgerIs DEF Sound
<1>2. P \subseteq Permits /\ PermitsLimited(P, now)
  <2>1. ASSUME NEW p \in P PROVE p \in Permits /\ Limited(p, now) /\ p.expiration > now
    <3>1. p \in Permits /\ Limited(p, before) /\ p.expiration > now
      BY <1>1 DEF PermitsLimited
    <3> QED BY <3>1, LimitedLater
  <2> HIDE DEF P
  <2> QED BY <2>1 DEF PermitsLimited
<1>3. t = [s EXCEPT !.permits = P]
  BY DEF update_withdraw_permissions
<1> HIDE DEF P
<1>4. /\ t \in Ledgers /\ t.ok /\ t.permits = P /\ t.last_id = s.last_id /\ t.balance = s.balance
      /\ t.fees = s.fees /\ t.burned = s.burned /\ t.vestings = s.vestings /\ t.genesis = s.genesis
      /\ SameHistory(s, t)
  <2>1. t = WithPermits(s, P, s.last_id)
    BY <1>1, <1>3 DEF WithPermits, Ledgers
  <2> QED BY <1>1, <1>2, <2>1, WithPermitsIs
<1>5. Sound(t)
  <2>1. s.last_id <= t.last_id
    BY <1>1, <1>4
  <2> QED BY <1>1, <1>4, <2>1, SoundWith DEF SameHistory
<1>6. \A p \in s.proposals : p.expiration > now
  BY <1>1, ProposalIs DEF Expired
<1>7. Proper(t, now)
  BY <1>2, <1>4, <1>5, <1>6 DEF Proper, SameHistory
<1>8. Money(t) = Money(s)
  BY <1>4 DEF Money
<1> QED BY <1>4, <1>7, <1>8

(* Time passes, and what has expired is executed or removed. *)
LEMMA BlockFollows ==
  ASSUME head_time \in Int, Proper(ledger, head_time), NEW now \in Int, head_time <= now, apply_block(now)
  PROVE  Follows(ledger, ledger', now)
<1> DEFINE u == Begin
           V == Older(u.vestings, now - head_time)
           held == WithVestings(u, V, u.last_id)
           t == clear_expired_proposals(held, now)
<1>1. /\ Proper(u, head_time) /\ Money(u) = Money(ledger) /\ u.applied_ops = <<>>
      /\ u.balance = ledger.balance /\ u.proposals = ledger.proposals /\ u.executed = ledger.executed
  <2>1. <<>> \in Seq(AppliedOps)
    OBVIOUS
  <2>2. u = Listing(ledger, <<>>)
    BY DEF Begin, Listing
  <2> HIDE DEF u
  <2> QED BY <2>1, <2>2, ListingIs
<1>2. ledger' = update_withdraw_permissions(t, now)
  <2>1. [u EXCEPT !.vestings = {[b EXCEPT !.held = @ + b.balance * (now - head_time)] : b \in @}] = held
    <3>1. u \in Ledgers
      BY <1>1 DEF Proper, Sound
    <3>2. {[b EXCEPT !.held = @ + b.balance * (now - head_time)] : b \in u.vestings} = V
      BY DEF Older, Aged
    <3> HIDE DEF u, V
    <3>3. [u EXCEPT !.vestings = V] = WithVestings(u, V, u.last_id)
      BY <3>1 DEF WithVestings, Ledgers
    <3>4. [u EXCEPT !.vestings = {[b EXCEPT !.held = @ + b.balance * (now - head_time)] : b \in @}]
            = [u EXCEPT !.vestings = {[b EXCEPT !.held = @ + b.balance * (now - head_time)] : b \in u.vestings}]
      BY <3>1 DEF Ledgers
    <3> QED BY <3>2, <3>3, <3>4
  <2> HIDE DEF held
  <2> QED BY <2>1 DEF apply_block
<1> HIDE DEF u
<1>3. /\ u \in Ledgers /\ u.ok /\ u.last_id \in Nat /\ Sound(u) /\ \A a \in Accounts : u.balance[a] >= 0
      /\ ledger \in Ledgers /\ Sound(ledger) /\ PermitsLimited(u.permits, head_time)
  BY <1>1, ProperIs DEF Proper
<1>4. /\ V \subseteq VestingBalances /\ Amounted(V) /\ Total(V) = Total(u.vestings)
      /\ BalancesVested(V, u.last_id, now) /\ BalancesVested(u.genesis, u.last_id, now)
  <2>1. /\ Older(u.vestings, now - head_time) \subseteq VestingBalances
        /\ Amounted(Older(u.vestings, now - head_time))
        /\ Total(Older(u.vestings, now - head_time)) = Total(u.vestings)
        /\ BalancesVested(Older(u.vestings, now - head_time), u.last_id, now)
        /\ BalancesVested(u.genesis, u.last_id, now)
    <3> HIDE DEF V
    <3>1. Proper(u, head_time) /\ head_time \in Int /\ now \in Int /\ head_time <= now
      BY <1>1
    <3> QED BY ONLY <3>1, BalancesLater
  <2> QED BY <2>1
<1> HIDE DEF V
<1>5. /\ held \in Ledgers /\ held.vestings = V /\ held.last_id = u.last_id /\ held.balance = u.balance
      /\ held.fees = u.fees /\ held.burned = u.burned /\ held.permits = u.permits /\ held.genesis = u.genesis
      /\ held.ok = u.ok /\ SameHistory(u, held)
  <2>1. u \in Ledgers /\ V \subseteq VestingBalances /\ u.last_id \in Nat
    BY <1>3, <1>4
  <2>2. held = WithVestings(u, V, u.last_id)
    OBVIOUS
  <2> HIDE DEF held
  <2> QED BY ONLY <2>1, <2>2, WithVestingsIs
<1> HIDE DEF held
<1>6. Sound(held)
  <2>1. u.last_id <= held.last_id
    BY <1>3, <1>5
  <2> QED BY <1>3, <1>5, <2>1, SoundWith DEF SameHistory
<1>7. Money(held) = Money(u)
  BY <1>4, <1>5 DEF Money
<1>8. Leads(held, t, now, held.last_id + 1) /\ Expired(t, now) = {}
  BY <1>6, ClearLeads
<1> HIDE DEF t
<1>9. /\ Sound(t) /\ t \in Ledgers /\ Pays(held, t) /\ SumFunction(t.balance) = SumFunction(held.balance)
      /\ t.permits = u.permits /\ t.vestings = V /\ t.genesis = u.genesis /\ t.last_id = u.last_id
      /\ t.fees = held.fees /\ t.burned = held.burned /\ Untouched(held, t)
  BY <1>5, <1>8 DEF Leads, Sound, Pays, Untouched
<1>10. Money(t) = Money(held)
  BY <1>9 DEF Money, Untouched
<1>11. /\ Proper(ledger', now) /\ Money(ledger') = Money(t) /\ SameHistory(t, ledger')
       /\ ledger'.balance = t.balance
  BY <1>2, <1>3, <1>4, <1>8, <1>9, Unexpired
<1>12. Respects(ledger, ledger', now)
  <2>1. held.proposals = ledger.proposals /\ held.executed = ledger.executed
    BY <1>1, <1>5 DEF SameHistory
  <2>2. Respects(ledger, t, now)
    BY <1>3, <1>8, <2>1, LeadsRespects
  <2> QED BY <1>11, <2>2 DEF Respects, SameHistory
<1>13. Applies(ledger, ledger')
  <2>1. held.balance = ledger.balance /\ held.applied_ops = <<>>
    BY <1>1, <1>5 DEF SameHistory
  <2>2. ledger'.balance = t.balance /\ ledger'.applied_ops = t.applied_ops
    BY <1>11 DEF SameHistory
  <2> QED BY <1>3, <1>5, <1>9, <2>1, <2>2, LeadsApplies
<1> QED BY <1>1, <1>7, <1>10, <1>11, <1>12, <1>13 DEF Follows

-----------------------------------------------------------------------------
(* The invariant. *)
(* The ledger is proper at the head time and holds the money of the start. *)
Inv ==
  /\ Proper(ledger, head_time) /\ Conserved
  /\ head_time \in 0 .. MaxTime /\ operations \in 0 .. MaxOperations

(* A ledger to begin with is proper. *)
LEMMA StartProper ==
  ASSUME NEW s \in Start
  PROVE  Proper(s, 0)
<1>1. /\ s \in Ledgers /\ s.ok /\ s.executed = <<>>
      /\ \A a \in Accounts : s.balance[a] >= 0
      /\ \A S \in {s.permits, s.genesis, s.proposals} : UniqueIds(S, s.last_id)
      /\ s.vestings = {}
      /\ \A p \in s.permits :
           p.claimed = 0 /\ p.claims = <<>> /\ p.carried = 0 /\ p.first = p.start /\ p.expiration > 0
      /\ \A b \in s.genesis :
           /\ b.balance > 0 /\ b.withdrawn >= 0 /\ PaidWhenVested(b, 0)
           /\ b.policy.type = "linear" => b.policy.begin_balance = b.balance + b.withdrawn
      /\ \A p \in s.proposals :
           p.expiration > 0 /\ \A i \in DOMAIN p.ops : Names(p.ops[i], p.id)
  BY StartAssumption
<1>2. s.permits \subseteq Permits /\ s.genesis \subseteq GenesisBalances
  BY <1>1, LedgerIs
<1>3. Sound(s)
  BY <1>1 DEF Sound, OlderNamed, Once
<1>4. PermitsLimited(s.permits, 0)
  <2>1. ASSUME NEW p \in s.permits PROVE Limited(p, 0) /\ p.expiration > 0
    <3>1. /\ p \in Permits /\ p.claims = <<>> /\ p.first = p.start /\ p.carried = p.claimed /\ p.claimed >= 0
          /\ p.expiration > 0 /\ 0 \in Int
      BY <1>1, <1>2
    <3> QED BY <3>1, LimitedNew
  <2> QED BY <2>1 DEF PermitsLimited
<1>5. BalancesVested(s.vestings, s.last_id, 0)
  BY <1>1, FS_EmptySet DEF BalancesVested, UniqueIds
<1>6. BalancesVested(s.genesis, s.last_id, 0)
  <2>1. ASSUME NEW b \in s.genesis PROVE Vested(b, 0)
    <3>1. b \in GenesisBalances /\ b.balance \in Int /\ b.balance >= 0 /\ b.withdrawn >= 0 /\ PaidWhenVested(b, 0)
      BY <1>1, <1>2, GenesisIs
    <3>2. CASE b.policy.type = "linear"
      <4>1. b.policy.begin_balance = b.balance + b.withdrawn
        BY <1>1, <3>2
      <4>2. /\ b.withdrawn * b.policy.duration <= b.policy.begin_balance * Elapsed(b, 0)
            /\ Elapsed(b, 0) < b.policy.cliff => b.withdrawn = 0
        BY <3>1, <3>2 DEF PaidWhenVested, Elapsed
      <4>3. LinearVested(b, 0)
        BY <3>1, <4>1, <4>2 DEF LinearVested
      <4> QED BY <3>1, <3>2, <4>3 DEF Vested
    <3>3. CASE b.policy.type = "none"
      BY <3>1, <3>3 DEF Vested
    <3> QED BY <3>1, <3>2, <3>3, GenesisIs
  <2> QED BY <1>1, <2>1 DEF BalancesVested
<1> QED BY <1>1, <1>3, <1>4, <1>5, <1>6 DEF Proper

LEMMA InvInit == Init => Inv
<1>1. SUFFICES ASSUME Init PROVE Inv
  OBVIOUS
<1>2. ledger \in Start /\ head_time = 0 /\ operations = 0
  BY <1>1 DEF Init
<1>3. Proper(ledger, head_time)
  BY <1>2, StartProper
<1>4. Conserved
  BY <1>2, StartAssumption DEF Conserved
<1>5. 0 \in 0 .. MaxTime /\ 0 \in 0 .. MaxOperations
  BY LedgerAssumption
<1> QED BY <1>2, <1>3, <1>4, <1>5 DEF Inv

(* Every action of Next is such a step. *)
Steps == Follows(ledger, ledger', head_time')

LEMMA TermsAre ==
  /\ Transfers \subseteq Operations /\ Permissions \subseteq PermissionTerms
  /\ Vestings \subseteq VestingTerms /\ \A op \in Vestings : op.policy.type = "cdd" => op.policy.earned = 0
  /\ Cashbacks \subseteq CashbackTerms /\ Amounts \subseteq Positive /\ Proposals \subseteq ProposalTerms
BY OperationsAssumption DEF PermissionTerms, VestingTerms, CashbackTerms, ProposalTerms

(* By the disjuncts of Next. *)
LEMMA NextFollows ==
  ASSUME Inv, Next
  PROVE  Steps /\ head_time' \in 0 .. MaxTime /\ operations' \in 0 .. MaxOperations
<1>1. /\ Proper(ledger, head_time) /\ head_time \in Int /\ head_time >= 0 /\ head_time \in 0 .. MaxTime
      /\ operations \in Nat /\ MaxOperations \in Nat /\ MaxTime \in Nat /\ MaxMissed \in Nat
      /\ operations \in 0 .. MaxOperations
  BY LedgerAssumption DEF Inv
<1>2. /\ Proper(Other, head_time) /\ Other.permits = ledger.permits /\ Other.vestings = ledger.vestings
      /\ Other.genesis = ledger.genesis /\ Other.proposals = ledger.proposals
  BY <1>1, OtherIs
<1> DEFINE Goal == Steps /\ head_time' \in 0 .. MaxTime /\ operations' \in 0 .. MaxOperations
<1>3. ASSUME NEW t, Apply(t), t.ok => Follows(ledger, t, head_time)
      PROVE  Goal
  <2>1. t.ok /\ ledger' = t /\ head_time' = head_time /\ operations' = operations + 1 /\ operations < MaxOperations
    BY <1>3 DEF Apply
  <2>2. Follows(ledger, ledger', head_time')
    BY <1>3, <2>1
  <2>3. operations' \in 0 .. MaxOperations
    BY <1>1, <2>1
  <2> QED BY <1>1, <2>1, <2>2, <2>3 DEF Steps
<1>4. ASSUME NEW t, Apply(t), t.ok => Settles(Other, t, head_time)
      PROVE  Goal
  <2>1. t.ok => Follows(ledger, t, head_time)
    BY <1>1, <1>4, SettlesFollows
  <2> HIDE DEF Goal
  <2> QED BY <1>3, <1>4, <2>1
<1>5. ASSUME NEW op \in Operations, Operate(op)
      PROVE  Goal
  <2> DEFINE t == apply_operation(Begin, op, head_time)
  <2>1. t.ok => Follows(ledger, t, head_time)
    BY <1>1, OperateFollows
  <2>2. Apply(t)
    BY <1>5 DEF Operate
  <2> HIDE DEF Goal, t
  <2> QED BY <1>3, <2>1, <2>2
<1> HIDE DEF Goal
<1>6. ASSUME NEW op \in Transfers, Operate(op) PROVE Goal
  BY <1>5, <1>6, TermsAre
<1>7. ASSUME NEW op \in Permissions, Apply(withdraw_permission_create(Other, op)) PROVE Goal
  <2> DEFINE t == withdraw_permission_create(Other, op)
  <2>1. t.ok => Settles(Other, t, head_time)
    BY <1>1, <1>2, TermsAre, PermitCreated
  <2> HIDE DEF t
  <2> QED BY <1>4, <1>7, <2>1 DEF t
<1>8. ASSUME NEW p \in ledger.permits, NEW n \in Amounts, Withdraw(p, n) PROVE Goal
  <2> DEFINE t == withdraw_permission_claim(Other, p, n)
  <2>1. t.ok => Settles(Other, t, head_time)
    BY <1>1, <1>2, TermsAre, PermitClaimed
  <2>2. Apply(t)
    BY <1>8 DEF Withdraw
  <2> HIDE DEF t
  <2> QED BY <1>4, <2>1, <2>2
<1>9. ASSUME NEW p \in ledger.permits, NEW op \in Permissions, Apply(withdraw_permission_update(Other, p, op))
      PROVE  Goal
  <2> DEFINE t == withdraw_permission_update(Other, p, op)
  <2>1. t.ok => Settles(Other, t, head_time)
    BY <1>1, <1>2, TermsAre, PermitUpdated
  <2>2. Apply(t)
    BY <1>9
  <2> HIDE DEF t
  <2> QED BY <1>4, <2>1, <2>2
<1>10. ASSUME NEW p \in ledger.permits, Apply(withdraw_permission_delete(Other, p)) PROVE Goal
  <2> DEFINE t == withdraw_permission_delete(Other, p)
  <2>1. t.ok => Settles(Other, t, head_time)
    BY <1>1, <1>2, PermitDeleted
  <2>2. Apply(t)
    BY <1>10
  <2> HIDE DEF t
  <2> QED BY <1>4, <2>1, <2>2
<1>11. ASSUME NEW a \in Accounts, NEW op \in Vestings, Apply(vesting_balance_create(Other, a, op)) PROVE Goal
  <2> DEFINE t == vesting_balance_create(Other, a, op)
  <2>1. t.ok => Settles(Other, t, head_time)
    BY <1>1, <1>2, TermsAre, VestingCreated
  <2>2. Apply(t)
    BY <1>11
  <2> HIDE DEF t
  <2> QED BY <1>4, <2>1, <2>2
<1>12. ASSUME NEW b \in ledger.vestings, NEW n \in Amounts, Apply(vesting_balance_withdraw(Other, b, n)) PROVE Goal
  <2> DEFINE t == vesting_balance_withdraw(Other, b, n)
  <2>1. t.ok => Settles(Other, t, head_time)
    BY <1>1, <1>2, TermsAre, VestingWithdrawn
  <2>2. Apply(t)
    BY <1>12
  <2> HIDE DEF t
  <2> QED BY <1>4, <2>1, <2>2
<1>13. ASSUME NEW op \in Cashbacks, Pay(op) PROVE Goal
  <2> DEFINE t == deposit_cashback(Other, op)
  <2>1. Settles(Other, t, head_time)
    BY <1>1, <1>2, TermsAre, FeesReturned
  <2>2. Apply(t)
    BY <1>13 DEF Pay
  <2> HIDE DEF t
  <2> QED BY <1>4, <2>1, <2>2
<1>14. ASSUME NEW a \in Accounts, NEW b \in ledger.genesis, NEW n \in Amounts, Apply(balance_claim(Other, a, b, n))
       PROVE  Goal
  <2> DEFINE t == balance_claim(Other, a, b, n)
  <2>1. t.ok => Settles(Other, t, head_time)
    BY <1>1, <1>2, TermsAre, GenesisClaimed
  <2>2. Apply(t)
    BY <1>14
  <2> HIDE DEF t
  <2> QED BY <1>4, <2>1, <2>2
<1>15. ASSUME NEW op \in Proposals, Propose(op) PROVE Goal
  <2> DEFINE t == proposal_create(Other, op)
  <2>1. Apply(t) /\ \A i \in DOMAIN op.ops :
                      op.ops[i].type # "transfer" => Exists(Other.proposals, op.ops[i].proposal)
    BY <1>2, <1>15 DEF Propose
  <2>2. t.ok => Proposes(Other, t, head_time)
    BY <1>1, <1>2, <2>1, TermsAre, ProposalCreated
  <2> HIDE DEF t
  <2>3. t.ok => Follows(ledger, t, head_time)
    BY <1>1, <2>2, ProposesFollows
  <2> QED BY <1>3, <2>1, <2>3
<1>16. \A p \in ledger.proposals : p.id \in Nat
  BY <1>1, LedgerIs, ProposalIs DEF Proper, Sound
<1>17. ASSUME NEW a \in Accounts, NEW p \in ledger.proposals, NEW add \in BOOLEAN, Approve(a, p, add) PROVE Goal
  <2> DEFINE op == [type |-> "proposal_update", account |-> a, proposal |-> p.id,
                    add |-> IF add THEN {a} ELSE {}, remove |-> IF add THEN {} ELSE {a}]
  <2>1. op \in Operations
    BY <1>16 DEF Operations
  <2>2. Operate(op)
    BY <1>17 DEF Approve
  <2> HIDE DEF op
  <2> QED BY <1>5, <2>1, <2>2
<1>18. ASSUME NEW a \in Accounts, NEW p \in ledger.proposals,
              Operate([type |-> "proposal_delete", account |-> a, proposal |-> p.id])
       PROVE  Goal
  <2> DEFINE op == [type |-> "proposal_delete", account |-> a, proposal |-> p.id]
  <2>1. op \in Operations
    BY <1>16 DEF Operations
  <2>2. Operate(op)
    BY <1>18
  <2> HIDE DEF op
  <2> QED BY <1>5, <2>1, <2>2
<1>19. ASSUME NEW missed \in 0 .. MaxMissed, apply_block(head_time + 1 + missed) PROVE Goal
  <2> DEFINE now == head_time + 1 + missed
  <2>1. now \in Int /\ head_time <= now /\ now >= 0
    BY <1>1
  <2>2. apply_block(now)
    BY <1>19
  <2> HIDE DEF now
  <2>3. now <= MaxTime /\ head_time' = now /\ operations' = operations
    BY <2>2 DEF apply_block
  <2>4. Follows(ledger, ledger', now)
    BY <1>1, <2>1, <2>2, BlockFollows
  <2> QED BY <1>1, <2>1, <2>3, <2>4 DEF Goal, Steps
<1>20. Goal
  BY <1>6, <1>7, <1>8, <1>9, <1>10, <1>11, <1>12, <1>13, <1>14, <1>15, <1>17, <1>18, <1>19 DEF Next
<1> QED BY <1>20 DEF Goal

(* The invariant is inductive. *)
LEMMA InvNext == Inv /\ [Next]_vars => Inv'
<1>1. SUFFICES ASSUME Inv, [Next]_vars PROVE Inv'
  OBVIOUS
<1>2. CASE Next
  <2>1. Steps /\ head_time' \in 0 .. MaxTime /\ operations' \in 0 .. MaxOperations
    BY <1>1, <1>2, NextFollows
  <2>2. Proper(ledger', head_time') /\ Money(ledger') = Money(ledger)
    BY <2>1 DEF Steps, Follows
  <2> QED BY <1>1, <2>1, <2>2 DEF Inv, Conserved
<1>3. CASE UNCHANGED vars
  BY <1>1, <1>3 DEF Inv, vars, Conserved
<1> QED BY <1>1, <1>2, <1>3

-----------------------------------------------------------------------------
(* The properties from the invariant. *)
LEMMA InvWithinLimit == Inv => WithinLimit
<1>1. SUFFICES ASSUME Inv, NEW p \in ledger.permits
               PROVE  LET k == (head_time - p.first) \div p.period
                          carried == IF k = 0 THEN p.carried ELSE 0
                      IN  /\ \A i \in 0 .. MaxTime : ClaimedIn(p, i) <= p.limit
                          /\ head_time >= p.first =>
                               available_this_period(p, head_time) = Max({p.limit - carried - ClaimedIn(p, k), 0})
  BY DEF WithinLimit
<1>2. p \in Permits /\ Limited(p, head_time) /\ head_time \in Int
  <2>1. Proper(ledger, head_time) /\ head_time \in Int
    BY <1>1 DEF Inv
  <2>2. ledger.permits \subseteq Permits
    BY <2>1, ProperIs
  <2>3. PermitsLimited(ledger.permits, head_time)
    BY <2>1 DEF Proper
  <2> QED BY <1>1, <2>1, <2>2, <2>3 DEF PermitsLimited
<1> QED BY <1>2, LimitedIsWithin

LEMMA InvProposalsEnd == Inv => ProposalsEnd
<1>1. SUFFICES ASSUME Inv PROVE ExecutedOnce /\ NoneExpired
  BY DEF ProposalsEnd
<1>2. Once(ledger) /\ PermitsLimited(ledger.permits, head_time)
      /\ \A p \in ledger.proposals : p.expiration > head_time
  BY <1>1 DEF Inv, Proper, Sound
<1>3. NoneExpired
  BY <1>2 DEF NoneExpired, PermitsLimited
<1>4. ExecutedOnce
  <2>1. IsInjective([i \in DOMAIN ledger.executed |-> ledger.executed[i].id])
    BY <1>2 DEF IsInjective, Once
  <2> QED BY <1>2, <2>1 DEF ExecutedOnce, Once
<1> QED BY <1>3, <1>4

(* get_allowed_withdraw never pays what has not vested, and pays it in the end. *)
LEMMA InvVested ==
  ASSUME Inv
  PROVE  VestedOnly /\ Withdrawable
<1>1. /\ ledger.vestings \subseteq VestingBalances /\ ledger.genesis \subseteq GenesisBalances
      /\ \A b \in ledger.vestings \cup ledger.genesis : Vested(b, head_time)
      /\ head_time \in Int
  BY ProperIs DEF Inv
<1>2. ASSUME NEW b \in ledger.vestings \cup ledger.genesis
      PROVE  PaidWhenVested(b, head_time)
  <2>1. CASE b.policy.type = "cdd"
    <3>1. CddVested(b, head_time)
      BY <1>1, <2>1 DEF Vested
    <3>2. Needed(b, b.withdrawn) + compute_coin_seconds_earned(b, head_time) <= b.held + Needed(b, b.granted)
      BY <3>1 DEF CddVested
    <3> QED BY <2>1, <3>2 DEF PaidWhenVested
  <2>2. CASE b.policy.type = "linear"
    <3>1. LinearVested(b, head_time)
      BY <1>1, <2>2 DEF Vested
    <3>2. /\ b.withdrawn * b.policy.duration <= b.policy.begin_balance * Max({0, head_time - b.policy.begin})
          /\ Max({0, head_time - b.policy.begin}) < b.policy.cliff => b.withdrawn = 0
      BY <3>1 DEF LinearVested, Elapsed
    <3> QED BY <2>2, <3>2 DEF PaidWhenVested
  <2>3. CASE b.policy.type # "cdd" /\ b.policy.type # "linear"
    BY <2>3 DEF PaidWhenVested
  <2> QED BY <2>1, <2>2, <2>3
<1>3. VestedOnly
  BY <1>2 DEF VestedOnly
<1>4. ASSUME NEW b \in ledger.vestings
      PROVE  LET allowed == get_allowed_withdraw(b, head_time)
                 matured == IF b.policy.type = "linear"
                              THEN /\ head_time >= b.policy.begin + Max({b.policy.duration, b.policy.cliff})
                                   /\ head_time > b.policy.begin
                              ELSE /\ head_time >= b.changed + Max({b.policy.seconds, 1})
                                   /\ head_time > b.policy.start_claim
             IN  allowed \in 0 .. b.balance /\ (matured => allowed = b.balance)
  <2>1. b \in VestingBalances /\ Vested(b, head_time) /\ b.policy.type \in {"linear", "cdd"}
    BY <1>1, VestingIs
  <2>2. CASE b.policy.type = "linear"
    <3>1. Linear(b)
      BY <1>1, <2>1, <2>2, AllowedIs
    <3>2. /\ linear_allowed(b, head_time) \in 0 .. b.balance
          /\ /\ head_time > b.policy.begin
             /\ head_time >= b.policy.begin + Max({b.policy.duration, b.policy.cliff})
             => linear_allowed(b, head_time) = b.balance
      BY <1>1, <2>1, <3>1, LinearAllowed
    <3> QED BY <2>2, <3>2 DEF get_allowed_withdraw
  <2>3. CASE b.policy.type = "cdd"
    <3>1. /\ cdd_allowed(b, head_time) \in 0 .. b.balance
          /\ head_time >= b.changed + Rate(b) /\ head_time > b.policy.start_claim
               => cdd_allowed(b, head_time) = b.balance
      BY <1>1, <2>1, <2>3, CddAllowed
    <3> QED BY <2>3, <3>1 DEF get_allowed_withdraw, Rate
  <2> QED BY <2>1, <2>2, <2>3
<1>5. Withdrawable
  BY <1>4 DEF Withdrawable
<1> QED BY <1>3, <1>5

LEMMA InvMoneyKept == Inv => MoneyKept
<1>1. SUFFICES ASSUME Inv PROVE MoneyKept
  OBVIOUS
<1>2. Proper(ledger, head_time) /\ Conserved /\ head_time \in 0 .. MaxTime /\ operations \in 0 .. MaxOperations
  BY <1>1 DEF Inv
<1>3. /\ ledger \in Ledgers /\ ledger.ok /\ \A a \in Accounts : ledger.balance[a] >= 0
      /\ ledger.permits \subseteq Permits
      /\ ledger.vestings \subseteq VestingBalances /\ ledger.genesis \subseteq GenesisBalances
      /\ \A b \in ledger.vestings \cup ledger.genesis : Vested(b, head_time)
  BY <1>2, ProperIs
<1>4. ledger.balance \in [Accounts -> Nat]
  BY <1>3, LedgerIs
<1>5. ASSUME NEW b \in ledger.vestings \cup ledger.genesis PROVE b.balance \in Nat
  <2>1. b.balance >= 0
    BY <1>3 DEF Vested
  <2>2. b.balance \in Int
    BY <1>3, VestingIs, GenesisIs
  <2> QED BY <2>1, <2>2
<1>6. ASSUME NEW b \in ledger.vestings, b.policy.type = "cdd" PROVE b.policy.earned \in Nat
  <2>1. b.policy.earned >= 0
    BY <1>3, <1>6 DEF Vested, CddVested
  <2>2. b.policy.earned \in Int
    BY <1>3, <1>6, VestingIs DEF CddPolicies
  <2> QED BY <2>1, <2>2
<1>7. ASSUME NEW p \in ledger.permits PROVE p.claimed \in Nat
  <2>1. Limited(p, head_time)
    BY <1>2 DEF Proper, PermitsLimited
  <2>2. p.claimed \in Int
    BY <1>3, PermitIs
  <2> QED BY <2>1, <2>2 DEF Limited
<1>8. TypeOK
  BY <1>2, <1>3, <1>4, <1>5, <1>6, <1>7 DEF TypeOK
<1> QED BY <1>1, <1>2, <1>8, InvVested DEF MoneyKept

-----------------------------------------------------------------------------
(* The invariant of the objects holds: permissions are limited, balances    *)
(* vested, proposals sound, whatever sequence of operations and blocks      *)
(* came before.                                                             *)
THEOREM InvHolds == Spec => []Inv
<1>1. Init => Inv
  BY InvInit
<1>2. Inv /\ [Next]_vars => Inv'
  BY InvNext
<1> QED BY <1>1, <1>2, PTL DEF Spec

(* Claims, deposits, withdrawals, cashbacks and executed proposals neither  *)
(* make nor lose money and overdraw no balance; a vesting balance pays out  *)
(* only what has vested, and all of it once it was left alone long enough.  *)
THEOREM MoneyKeptHolds == Spec => []MoneyKept
<1>1. Inv => MoneyKept
  BY InvMoneyKept
<1> QED BY <1>1, InvHolds, PTL

(* In no period more is claimed with a withdraw permission than its limit,  *)
(* and what is left of the limit may always be claimed, although the claim  *)
(* moves the start of the period and an update carries the claims over.     *)
THEOREM WithinLimitHolds == Spec => []WithinLimit
<1>1. Inv => WithinLimit
  BY InvWithinLimit
<1> QED BY <1>1, InvHolds, PTL

(* A proposal is executed at most once, also when an operation of another   *)
(* approves it, and after a block nothing is left that has expired:         *)
(* clear_expired_proposals ends each, although each may remove others.      *)
THEOREM ProposalsEndHolds == Spec => []ProposalsEnd
<1>1. Inv => ProposalsEnd
  BY InvProposalsEnd
<1> QED BY <1>1, InvHolds, PTL

(* A proposal with a review period is executed only at its expiration, and  *)
(* gets no approval in the review period, at whatever depth the operation   *)
(* that approves it is executed.                                            *)
THEOREM ReviewRespectedHolds == Spec => ReviewRespected
<1>1. ASSUME Inv, [Next]_vars
      PROVE  [/\ \A i \in DOMAIN ledger'.executed \ DOMAIN ledger.executed :
                   LET x == ledger'.executed[i] IN x.review # Never => head_time' >= x.expiration
              /\ \A p \in ledger.proposals, q \in ledger'.proposals :
                   p.id = q.id /\ InReview(p, head_time') => q.available \subseteq p.available]_vars
  <2>1. CASE Next
    <3>1. Respects(ledger, ledger', head_time')
      BY <1>1, <2>1, NextFollows DEF Steps, Follows
    <3> QED BY <3>1 DEF Respects
  <2>2. CASE UNCHANGED vars
    BY <2>2
  <2> QED BY <1>1, <2>1, <2>2
<1> QED BY <1>1, InvHolds, PTL DEF Spec, ReviewRespected

(* The balances change by what _applied_ops lists and by nothing else: a    *)
(* proposal that fails, and the proposals executed inside it, leave no      *)
(* trace in either.                                                         *)
THEOREM AllOrNothingHolds == Spec => AllOrNothing
<1>1. ASSUME Inv, [Next]_vars
      PROVE  [ledger'.applied_ops # <<[type |-> "other"]>> =>
                \A a \in Accounts :
                  ledger'.balance[a] - ledger.balance[a] =
                    SumFunction([i \in DOMAIN ledger'.applied_ops |-> Effect(ledger'.applied_ops[i], a)])]_vars
  <2>1. CASE Next
    <3>1. Applies(ledger, ledger')
      BY <1>1, <2>1, NextFollows DEF Steps, Follows
    <3> QED BY <3>1 DEF Applies
  <2>2. CASE UNCHANGED vars
    BY <2>2
  <2> QED BY <1>1, <2>1, <2>2
<1> QED BY <1>1, InvHolds, PTL DEF Spec, AllOrNothing
=============================================================================
