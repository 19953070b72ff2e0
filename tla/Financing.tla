----------------------------- MODULE Financing -----------------------------
(***************************************************************************)
(* The crowd-funding life cycle of a project asset: investors pay KHD into *)
(* the escrow of a project (financing_current_supply), block maintenance   *)
(* decides whether the financing succeeded, and then either the investors  *)
(* take their KHD back or the issuer draws it in three instalments while   *)
(* the investors take the project's tokens.                                *)
(*                                                                         *)
(* A transaction in block N is evaluated while head_block_number is N-1;   *)
(* the maintenance of block N already sees head_block_number = N.  The     *)
(* action NextBlock is the end of a block: it raises head and, when the    *)
(* block is a maintenance block, updates every project.                    *)
(***************************************************************************)
EXTENDS Integers, Sequences, Sums

CONSTANTS NumAccounts,        \* account ids are 1 .. NumAccounts
          NumProjects,        \* ids of project assets are 1 .. NumProjects
          Offerings,          \* project_asset_options an issuer may submit
          Amounts,            \* KHD amounts of one investment
          TokenAmounts,       \* amounts of an asset_issue or asset_reserve
          InitialKHD,         \* KHD balance of every account at the start
          KHDPerPower,        \* KHC_POWER_CONVERT_KHD_RATIO, scaled
          MaintenanceBlocks,  \* at most so many blocks from one maintenance to the next
          MaxHead,            \* bound: the last block of a behaviour
          LastCreate,         \* bound: projects are created up to this block
          MaxInvestments,     \* bound: investment objects in the database
          Updates,            \* new max_supply and core_exchange_rate of an asset_update
          MaxEdits            \* bound: asset updates, issuer changes, listings

VARIABLES head,         \* dynamic_global_property_object.head_block_number
          sinceMaint,   \* blocks since the last maintenance block
          created,      \* project assets in the asset index
          issuer,       \* asset_object.issuer
          opts,         \* asset_object.proj_options, max_supply and exchange rates
          \* asset_dynamic_data_object, one variable for each member
          state, claim_times, current_supply,
          financing_current_supply, financing_confidential_supply,
          investment_current_supply, investment_confidential_supply,
          investments,  \* asset_investment_object's, in order of their ids
          khd,          \* KHD balances
          token,        \* balances in the project assets
          locked,       \* account_locked_power_object of each project
          authorized,   \* accounts for which is_authorized_asset holds
          edits         \* operations so far that count towards MaxEdits

chainVars == <<head, sinceMaint>>
escrowVars == <<claim_times, financing_current_supply, financing_confidential_supply>>
supplyVars == <<current_supply, investment_current_supply, investment_confidential_supply>>
balanceVars == <<investments, khd, token>>
listVars == <<authorized, edits>>
vars == <<head, sinceMaint, created, issuer, opts, state, claim_times, current_supply,
          financing_current_supply, financing_confidential_supply,
          investment_current_supply, investment_confidential_supply,
          investments, khd, token, locked, authorized, edits>>
-----------------------------------------------------------------------------
Accounts == 1 .. NumAccounts
Projects == 1 .. NumProjects

(* asset_dynamic_data_object::project_state *)
about_to_start      == 0
financing           == 1
financing_failue    == 2
project_in_progress == 3
project_end         == 4

KHC_PRIVATE_OFFERING == 0
KHC_PUBLIC_OFFERING  == 1
KHC_FIRST_CLAIM_INVESTMENT_RATIO  == 30
KHC_SECOND_CLAIM_INVESTMENT_TATIO == 30
KHC_100_PERCENT == 100

(* A price quote/base, applied to an amount as asset * price does. *)
Price == [quote : Nat, base : Nat \ {0}]
Times(amount, price) == (amount * price.quote) \div price.base

Offering ==
  [financing_type : {KHC_PRIVATE_OFFERING, KHC_PUBLIC_OFFERING},
   start_financing_block_num : Nat, end_financing_block_num : Nat,
   start_project_block_num : Nat, end_project_block_num : Nat,
   min_financing_amount : Nat, max_financing_amount : Nat,
   project_blocks : Nat,          \* project_cycle / block_interval
   max_supply : Nat, khd_exchange_rate : Price, core_exchange_rate : Price,
   khd_value : Nat,               \* convert_to_khd_amount(max_supply, ...)
   power : Nat]                   \* asset_create_operation.power

Investment ==
  [account : Accounts, asset : Projects, khd_amount : Nat \ {0}, tokens : Nat,
   has_receive_token : BOOLEAN, return_financing_flag : BOOLEAN]

LockedPower == [owner : Accounts, power_value : Nat, unlock_height : Nat]

ASSUME BoundsAssumption ==
  /\ NumAccounts \in Nat \ {0} /\ NumProjects \in Nat \ {0}
  /\ InitialKHD \in Nat /\ MaxHead \in Nat /\ MaxInvestments \in Nat
  /\ MaxEdits \in Nat /\ LastCreate \in Nat
  /\ MaintenanceBlocks \in Nat \ {0} /\ KHDPerPower \in Nat \ {0}
ASSUME AmountsAssumption == Amounts \subseteq Nat \ {0} /\ TokenAmounts \subseteq Nat \ {0}
ASSUME OfferingsAssumption ==
  /\ Offerings \subseteq Offering
  /\ Updates \subseteq [max_supply : Nat, core_exchange_rate : Price]

(* The order in which the wallet puts the blocks of an offering: financing *)
(* ends before the project starts, and not after it ends.  No evaluator of *)
(* the chain checks it, so that only the theorems that need it assume it.  *)
OrderOf(o) ==
  o.financing_type = KHC_PUBLIC_OFFERING =>
    /\ o.start_project_block_num > o.end_financing_block_num
    /\ o.end_project_block_num >= o.end_financing_block_num

WalletOrder == \A o \in Offerings : OrderOf(o)

NoOffering ==
  [financing_type |-> KHC_PRIVATE_OFFERING,
   start_financing_block_num |-> 0, end_financing_block_num |-> 0,
   start_project_block_num |-> 0, end_project_block_num |-> 0,
   min_financing_amount |-> 0, max_financing_amount |-> 0, project_blocks |-> 0,
   max_supply |-> 0, khd_exchange_rate |-> [quote |-> 1, base |-> 1],
   core_exchange_rate |-> [quote |-> 1, base |-> 1], khd_value |-> 0, power |-> 0]

is_public_offering(p) == opts[p].financing_type = KHC_PUBLIC_OFFERING
is_financing_end(p) == state[p] \in {project_in_progress, project_end}
is_issue_to_investors(p) == investment_confidential_supply[p] > 0

(* power_required_for_finacing: the KHD value in units of power, rounded up *)
power_required(o) ==
  (o.khd_value \div KHDPerPower) + (IF o.khd_value % KHDPerPower # 0 THEN 1 ELSE 0)

(* The sum of amount(inv) over the investment objects inv with Test(inv) *)
Total(invs, Test(_), amount(_)) ==
  Sum([i \in 1 .. Len(invs) |-> IF Test(invs[i]) THEN amount(invs[i]) ELSE 0], Len(invs))

khdOf(inv) == inv.khd_amount
tokensOf(inv) == inv.tokens
-----------------------------------------------------------------------------
Init ==
  /\ head = 0 /\ sinceMaint = 0
  /\ created = {}
  /\ issuer \in [Projects -> Accounts]
  /\ opts = [p \in Projects |-> NoOffering]
  /\ state = [p \in Projects |-> about_to_start]
  /\ claim_times = [p \in Projects |-> 0]
  /\ current_supply = [p \in Projects |-> 0]
  /\ financing_current_supply = [p \in Projects |-> 0]
  /\ financing_confidential_supply = [p \in Projects |-> 0]
  /\ investment_current_supply = [p \in Projects |-> 0]
  /\ investment_confidential_supply = [p \in Projects |-> 0]
  /\ investments = <<>>
  /\ khd = [a \in Accounts |-> InitialKHD]
  /\ token = [a \in Accounts |-> [p \in Projects |-> 0]]
  /\ locked = [p \in Projects |-> [owner |-> issuer[p], power_value |-> 0, unlock_height |-> 0]]
  /\ authorized = [p \in Projects |-> Accounts]
  /\ edits = 0
-----------------------------------------------------------------------------
(* asset_create_evaluator: the declared power is compared with the power   *)
(* the financing needs, and locked until the project is over.              *)
asset_create(a, p, o) ==
  LET public == o.financing_type = KHC_PUBLIC_OFFERING
  IN  /\ head <= LastCreate
      /\ p \notin created
      /\ power_required(o) <= o.power
      /\ public => o.start_financing_block_num >= head
      /\ created' = created \cup {p}
      /\ issuer' = [issuer EXCEPT ![p] = a]
      /\ opts' = [opts EXCEPT ![p] = o]
      /\ state' = [state EXCEPT ![p] = IF public THEN about_to_start ELSE project_in_progress]
      /\ locked' = [locked EXCEPT ![p] = [owner |-> a, power_value |-> o.power,
                                          unlock_height |-> head + o.project_blocks]]
      /\ UNCHANGED <<chainVars, escrowVars, supplyVars, balanceVars, listVars>>

(* asset_investment_evaluator: the investment that reaches the maximum is  *)
(* cut down to it and ends the financing at the current block.             *)
Room(p) == opts[p].max_financing_amount - financing_current_supply[p]

AdvanceEnd(p, amount) == amount >= Room(p)

ActualInvestment_NotCut(p, amount) == amount

ActualInvestment(p, amount) == IF AdvanceEnd(p, amount) THEN Room(p) ELSE amount

InFinancingWindow_Open(p) == head >= opts[p].start_financing_block_num

InFinancingWindow(p) ==
  head \in opts[p].start_financing_block_num .. opts[p].end_financing_block_num

Charge_Requested(p, amount) == amount

Charge(p, amount) == ActualInvestment(p, amount)

asset_investment(a, p, amount) ==
  LET actual == ActualInvestment(p, amount)
  IN  /\ Len(investments) < MaxInvestments
      /\ a \in authorized[p]
      /\ khd[a] >= amount
      /\ is_public_offering(p)
      /\ Room(p) > 0
      /\ InFinancingWindow(p)
      /\ opts' = IF AdvanceEnd(p, amount)
                 THEN [opts EXCEPT ![p].end_financing_block_num = head,
                                   ![p].start_project_block_num = head + 1]
                 ELSE opts
      /\ investments' = Append(investments,
           [account |-> a, asset |-> p, khd_amount |-> actual, tokens |-> 0,
            has_receive_token |-> FALSE, return_financing_flag |-> FALSE])
      /\ financing_current_supply' = [financing_current_supply EXCEPT ![p] = @ + actual]
      /\ financing_confidential_supply' = [financing_confidential_supply EXCEPT ![p] = @ + actual]
      /\ state' = [state EXCEPT ![p] = IF AdvanceEnd(p, amount) THEN project_in_progress
                                       ELSE IF @ = about_to_start THEN financing ELSE @]
      /\ khd' = [khd EXCEPT ![a] = @ - Charge(p, amount)]
      /\ UNCHANGED <<chainVars, created, issuer, token, locked, listVars, supplyVars, claim_times>>

(* What rounding left over goes to the last investment object of the asset. *)
Remainder_Dropped(i, p, rest) == 0

Remainder(i, p, rest) ==
  IF \A j \in DOMAIN investments : investments[j].asset = p => j <= i THEN rest ELSE 0

(* issue_asset_to_investors_evaluator: every investment gets its share of  *)
(* the issue, rounded down, and the last one what rounding left over.  The *)
(* account that sends the operation need not be the issuer.  With no       *)
(* investment at all the code indexes an empty vector: the process cannot  *)
(* go on, and no state of the chain follows.                               *)
issue_asset_to_investors(p) ==
  LET raised == financing_confidential_supply[p]
      ofAsset(inv) == inv.asset = p
      total_issue == Times(Times(raised, opts[p].khd_exchange_rate),
                           opts[p].core_exchange_rate)
      issue_amount(inv) ==
        (total_issue * inv.khd_amount) \div raised
      mine == {i \in DOMAIN investments : ofAsset(investments[i])}
      total_tmp == Total(investments, ofAsset, issue_amount)
  IN  /\ is_public_offering(p)
      /\ is_financing_end(p)
      /\ raised = financing_current_supply[p]
      /\ current_supply[p] = 0
      /\ mine # {}
      /\ \A i \in mine : investments[i].account \in authorized[p]
      /\ total_tmp <= total_issue
      /\ Total(investments, ofAsset, khdOf) = raised
      /\ current_supply[p] + total_issue <= opts[p].max_supply
      /\ investments' = [i \in DOMAIN investments |->
           IF i \notin mine THEN investments[i]
           ELSE [investments[i] EXCEPT
                  !.has_receive_token = FALSE,
                  !.tokens = issue_amount(investments[i])
                             + Remainder(i, p, total_issue - total_tmp)]]
      /\ current_supply' = [current_supply EXCEPT ![p] = @ + total_issue]
      /\ investment_confidential_supply' = [investment_confidential_supply EXCEPT ![p] = total_issue]
      /\ investment_current_supply' = [investment_current_supply EXCEPT ![p] = total_issue]
      /\ UNCHANGED <<chainVars, created, issuer, opts, state, escrowVars, locked, khd, token, listVars>>

(* refund_investment_evaluator: all of the account's investments in a      *)
(* failed project that were not returned before go back in one operation.  *)
Refundable_Again(a, p, inv) == inv.account = a /\ inv.asset = p

Refundable(a, p, inv) == inv.account = a /\ inv.asset = p /\ ~inv.return_financing_flag

refund_investment(a, p) ==
  LET mine(inv) == Refundable(a, p, inv)
      total_investment == Total(investments, mine, khdOf)
  IN  /\ is_public_offering(p)
      /\ state[p] = financing_failue
      /\ financing_current_supply[p] - total_investment >= 0
      /\ \E i \in DOMAIN investments : mine(investments[i])
      /\ financing_current_supply' = [financing_current_supply EXCEPT ![p] = @ - total_investment]
      /\ khd' = [khd EXCEPT ![a] = @ + total_investment]
      /\ investments' = [i \in DOMAIN investments |->
           IF mine(investments[i])
           THEN [investments[i] EXCEPT !.return_financing_flag = TRUE]
           ELSE investments[i]]
      /\ UNCHANGED <<chainVars, created, issuer, opts, state, claim_times,
                     financing_confidential_supply, supplyVars, locked, token, listVars>>

(* claim_bitasset_investment_evaluator: the issuer's three instalments.    *)
Instalment(n, raised) ==
  LET first == (raised * KHC_FIRST_CLAIM_INVESTMENT_RATIO) \div KHC_100_PERCENT
      second == (raised * KHC_SECOND_CLAIM_INVESTMENT_TATIO) \div KHC_100_PERCENT
  IN  CASE n = 0 -> first [] n = 1 -> second [] OTHER -> raised - first - second

InstalmentBlock(n, o) ==
  o.start_project_block_num + (CASE n = 0 -> 0
                                 [] n = 1 -> o.project_blocks \div 2
                                 [] OTHER -> o.project_blocks)

claim_bitasset_investment(a, p) ==
  LET claim_amount == Instalment(claim_times[p], financing_confidential_supply[p])
  IN  /\ is_public_offering(p)
      /\ state[p] >= project_in_progress
      /\ claim_times[p] < 3
      /\ financing_current_supply[p] > 0
      /\ is_issue_to_investors(p)
      /\ issuer[p] = a
      /\ head >= opts[p].end_financing_block_num
      /\ head >= InstalmentBlock(claim_times[p], opts[p])
      /\ financing_current_supply[p] - claim_amount >= 0
      /\ khd' = [khd EXCEPT ![a] = @ + claim_amount]
      /\ financing_current_supply' = [financing_current_supply EXCEPT ![p] = @ - claim_amount]
      /\ claim_times' = [claim_times EXCEPT ![p] = @ + 1]
      /\ UNCHANGED <<chainVars, created, issuer, opts, state, financing_confidential_supply,
                     supplyVars, locked, investments, token, listVars>>

(* claim_asset_investment_evaluator: the investor takes the tokens of all  *)
(* its investments in p.  The loop also visits its investments in other    *)
(* projects, and rejects the claim when it may not hold one of those.      *)
claim_asset_investment(a, p) ==
  LET mine(inv) == inv.account = a /\ inv.asset = p
      tokens == Total(investments, mine, tokensOf)
  IN  /\ is_public_offering(p)
      /\ state[p] >= project_in_progress
      /\ is_issue_to_investors(p)
      /\ \A i \in DOMAIN investments :
           investments[i].account = a => a \in authorized[investments[i].asset]
      /\ \A i \in DOMAIN investments :
           mine(investments[i]) => ~investments[i].has_receive_token
      /\ tokens > 0
      /\ tokens <= investment_current_supply[p]
      /\ token' = [token EXCEPT ![a][p] = @ + tokens]
      /\ investment_current_supply' = [investment_current_supply EXCEPT ![p] = @ - tokens]
      /\ investments' = [i \in DOMAIN investments |->
           IF mine(investments[i])
           THEN [investments[i] EXCEPT !.has_receive_token = TRUE]
           ELSE investments[i]]
      /\ UNCHANGED <<chainVars, created, issuer, opts, state, escrowVars, current_supply,
                     investment_confidential_supply, locked, khd, listVars>>
-----------------------------------------------------------------------------
(* asset_issue_evaluator and asset_reserve_evaluator, for a project asset *)
asset_issue(a, p, amount) ==
  /\ p \in created
  /\ is_issue_to_investors(p)
  /\ a \in authorized[p]
  /\ current_supply[p] + amount <= opts[p].max_supply
  /\ token' = [token EXCEPT ![a][p] = @ + amount]
  /\ current_supply' = [current_supply EXCEPT ![p] = @ + amount]
  /\ UNCHANGED <<chainVars, created, issuer, opts, state, escrowVars, investment_current_supply,
                 investment_confidential_supply, locked, investments, khd, listVars>>

Reservable_NoBalance(a, p, amount) == current_supply[p] - amount >= 0

Reservable(a, p, amount) ==
  /\ current_supply[p] - amount >= 0
  /\ token[a][p] >= amount    \* asserted by adjust_balance

asset_reserve(a, p, amount) ==
  /\ p \in created
  /\ a \in authorized[p]
  /\ Reservable(a, p, amount)
  /\ token' = [token EXCEPT ![a][p] = @ - amount]
  /\ current_supply' = [current_supply EXCEPT ![p] = @ - amount]
  /\ UNCHANGED <<chainVars, created, issuer, opts, state, escrowVars, investment_current_supply,
                 investment_confidential_supply, locked, investments, khd, listVars>>

(* asset_update_issuer_evaluator: the locked power stays with its owner *)
asset_update_issuer(p, new_issuer) ==
  /\ p \in created
  /\ edits < MaxEdits
  /\ new_issuer # issuer[p]
  /\ issuer' = [issuer EXCEPT ![p] = new_issuer]
  /\ edits' = edits + 1
  /\ UNCHANGED <<chainVars, created, opts, state, escrowVars, supplyVars, locked, balanceVars,
                 authorized>>

(* asset_update_evaluator: the issuer replaces the common options *)
asset_update(p, u) ==
  /\ p \in created
  /\ edits < MaxEdits
  /\ opts' = [opts EXCEPT ![p].max_supply = u.max_supply,
                          ![p].core_exchange_rate = u.core_exchange_rate]
  /\ edits' = edits + 1
  /\ UNCHANGED <<chainVars, created, issuer, state, escrowVars, supplyVars, locked, balanceVars,
                 authorized>>

(* account_whitelist_evaluator and the lists of the asset's options: an    *)
(* account gains or loses the right to hold the asset.                     *)
account_whitelist(a, p) ==
  /\ p \in created
  /\ edits < MaxEdits
  /\ authorized' = [authorized EXCEPT ![p] = IF a \in @ THEN @ \ {a} ELSE @ \cup {a}]
  /\ edits' = edits + 1
  /\ UNCHANGED <<chainVars, created, issuer, opts, state, escrowVars, supplyVars, locked,
                 balanceVars>>
-----------------------------------------------------------------------------
(* financing_current_supply taken for what was raised *)
UnderFunded_Current(p) == financing_current_supply[p] < opts[p].min_financing_amount

UnderFunded(p) == financing_confidential_supply[p] < opts[p].min_financing_amount

(* The projects the loop passes over, and a version that also passes over  *)
(* those in progress                                                       *)
Settled_InProgress(p) == state[p] \in {project_in_progress, project_end, financing_failue}

Settled(p) == state[p] \in {project_end, financing_failue}

(* database::update_asset_project_states at block h: the new state of one  *)
(* project.  At h = end_financing_block_num the failure is not looked at,  *)
(* whatever was raised.                                                    *)
ProjectState(p, h) ==
  LET o == opts[p]
  IN  CASE Settled(p) -> state[p]
        [] ~Settled(p) /\ ~is_public_offering(p) ->
             IF h >= o.end_project_block_num THEN project_end ELSE state[p]
        [] ~Settled(p) /\ is_public_offering(p) ->
             IF h < o.start_financing_block_num THEN about_to_start
             ELSE IF h < o.end_financing_block_num
             THEN IF financing_confidential_supply[p] = o.max_financing_amount
                  THEN project_in_progress ELSE financing
             ELSE IF h > o.end_financing_block_num /\ UnderFunded(p) THEN financing_failue
             ELSE IF h <= o.end_project_block_num THEN project_in_progress
             ELSE project_end

update_asset_project_states(h) ==
  LET next == [p \in Projects |-> IF p \in created THEN ProjectState(p, h) ELSE state[p]]
      \* update_asset_power_status: looked up under the asset's present issuer
      unlock(p) == /\ next[p] = financing_failue /\ state[p] # financing_failue
                   /\ locked[p].owner = issuer[p]
  IN  /\ state' = next
      /\ locked' = [p \in Projects |-> IF unlock(p)
                                       THEN [locked[p] EXCEPT !.unlock_height = 0]
                                       ELSE locked[p]]

(* The end of a block: _apply_block raises the head and then, when the     *)
(* maintenance time has passed, calls perform_chain_maintenance.  Missed   *)
(* slots bring the maintenance forward by a number of blocks, so any block *)
(* may be the one; MaintenanceBlocks is the most there can be in between.  *)
NextBlock(maintenance) ==
  /\ head < MaxHead
  /\ sinceMaint + 1 >= MaintenanceBlocks => maintenance
  /\ head' = head + 1
  /\ IF maintenance
     THEN sinceMaint' = 0 /\ update_asset_project_states(head + 1)
     ELSE sinceMaint' = sinceMaint + 1 /\ UNCHANGED <<state, locked>>
  /\ UNCHANGED <<created, issuer, opts, escrowVars, supplyVars, balanceVars, listVars>>

Operation ==
  \E a \in Accounts, p \in Projects :
    \/ \E o \in Offerings : asset_create(a, p, o)
    \/ \E n \in Amounts : asset_investment(a, p, n)
    \/ refund_investment(a, p)
    \/ claim_bitasset_investment(a, p)
    \/ claim_asset_investment(a, p)
    \/ \E n \in TokenAmounts : asset_issue(a, p, n) \/ asset_reserve(a, p, n)
    \/ asset_update_issuer(p, a)
    \/ account_whitelist(a, p)
    \/ \E u \in Updates : asset_update(p, u)

Next ==
  \/ Operation
  \/ \E p \in Projects : issue_asset_to_investors(p)
  \/ \E maintenance \in BOOLEAN : NextBlock(maintenance)

(* Witnesses keep producing blocks; nobody is obliged to send operations. *)
Spec == Init /\ [][Next]_vars /\ WF_vars(\E m \in BOOLEAN : NextBlock(m))
-----------------------------------------------------------------------------
TypeOK ==
  /\ head \in 0 .. MaxHead
  /\ sinceMaint \in 0 .. MaintenanceBlocks
  /\ created \subseteq Projects
  /\ issuer \in [Projects -> Accounts]
  /\ opts \in [Projects -> Offering]
  /\ state \in [Projects -> about_to_start .. project_end]
  /\ claim_times \in [Projects -> 0 .. 3]
  /\ current_supply \in [Projects -> Nat]
  /\ financing_current_supply \in [Projects -> Nat]
  /\ financing_confidential_supply \in [Projects -> Nat]
  /\ investment_current_supply \in [Projects -> Nat]
  /\ investment_confidential_supply \in [Projects -> Nat]
  /\ investments \in Seq(Investment)
  /\ khd \in [Accounts -> Nat]
  /\ token \in [Accounts -> [Projects -> Nat]]
  /\ locked \in [Projects -> LockedPower]
  /\ authorized \in [Projects -> SUBSET Accounts]
  /\ edits \in 0 .. MaxEdits

(* What the issuer has drawn after n instalments of a financing that raised r *)
Drawn(n, r) == (IF n > 0 THEN Instalment(0, r) ELSE 0)
             + (IF n > 1 THEN Instalment(1, r) ELSE 0)
             + (IF n > 2 THEN Instalment(2, r) ELSE 0)

(* Every KHD a project raised is in its escrow, was drawn by the issuer, or *)
(* was returned to an investor, and what it raised is what its investment   *)
(* objects record: claim_bitasset_investment recomputes the instalments     *)
(* from financing_confidential_supply, so nothing may change that figure    *)
(* between two instalments.                                                 *)
EscrowLedger ==
  \A p \in Projects :
    LET raised == financing_confidential_supply[p]
        ofAsset(inv) == inv.asset = p
        returned(inv) == inv.asset = p /\ inv.return_financing_flag
    IN  /\ raised = Total(investments, ofAsset, khdOf)
        /\ financing_current_supply[p] = raised - Drawn(claim_times[p], raised)
                                         - Total(investments, returned, khdOf)

(* adjust_balance and the escrow counters move KHD but neither create nor  *)
(* destroy it, whatever the order of investments, refunds and claims.      *)
KHDConserved ==
  Sum(khd, NumAccounts) + Sum(financing_current_supply, NumProjects)
    = Sum([a \in Accounts |-> InitialKHD], NumAccounts)

(* The tokens in existence are those the accounts hold and those the       *)
(* investors have not claimed yet; what an investor may still claim never  *)
(* exceeds investment_current_supply.  Burning every token and issuing to  *)
(* the investors a second time keeps to this, although the evaluator only  *)
(* looks at current_supply to see whether it ran before.                   *)
TokenLedger ==
  \A p \in Projects :
    LET unclaimed(inv) == inv.asset = p /\ ~inv.has_receive_token
    IN  /\ investment_current_supply[p] = Total(investments, unclaimed, tokensOf)
        /\ current_supply[p] = investment_current_supply[p]
                                   + Sum([a \in Accounts |-> token[a][p]], NumAccounts)

(* Cutting down the last investment and closing the window keep the sum    *)
(* raised at or below max_financing_amount, also when the issuer's claims  *)
(* have lowered financing_current_supply again, which is the figure that   *)
(* the evaluator compares with the maximum.                                *)
RaisedWithinMaximum ==
  \A p \in created : financing_confidential_supply[p] <= opts[p].max_financing_amount

(* A financing that raised its minimum is never declared a failure, even   *)
(* after the issuer drew on the escrow.                                    *)
FundedNeverFails ==
  \A p \in created :
    financing_confidential_supply[p] >= opts[p].min_financing_amount
      => state[p] # financing_failue

(* A failed or an ended project stays so: no late investment, claim or     *)
(* maintenance revives it.                                                 *)
TerminalForever ==
  [][\A p \in Projects : state[p] \in {financing_failue, project_end}
                           => state'[p] = state[p]]_vars

(* Every project is eventually declared failed or ended by a maintenance.  *)
EventuallySettled ==
  \A p \in Projects : p \in created ~> state[p] \in {financing_failue, project_end}

(* KHC_EASSERT in refund_investment_evaluator::do_evaluate: the escrow of  *)
(* a failed project holds what each investor is to be given back.          *)
RefundCovered ==
  \A p \in created, a \in Accounts :
    LET mine(inv) == Refundable(a, p, inv)
    IN  state[p] = financing_failue
          => financing_current_supply[p] >= Total(investments, mine, khdOf)
=============================================================================
