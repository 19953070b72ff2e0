--------------------------- MODULE FinancingProofs ---------------------------
(***************************************************************************)
(* Theorems about Financing, for any number of accounts, projects, blocks  *)
(* and investments and for any offerings.  The first part has the types    *)
(* and the KHD there is, the second the life of an offering.               *)
(***************************************************************************)
EXTENDS Financing, SumsProofs, SequenceTheorems

LEMMA ConstantsTyped ==
  /\ NumAccounts \in Nat \ {0} /\ NumProjects \in Nat \ {0} /\ InitialKHD \in Nat
  /\ MaxHead \in Nat /\ MaxInvestments \in Nat /\ MaxEdits \in Nat
  /\ MaintenanceBlocks \in Nat \ {0}
BY BoundsAssumption

LEMMA DivNat ==
  ASSUME NEW a \in Nat, NEW c \in Nat \ {0}
  PROVE  a \div c \in Nat
OBVIOUS

LEMMA TimesNat ==
  ASSUME NEW a \in Nat, NEW p \in Price
  PROVE  Times(a, p) \in Nat
<1>1. p.quote \in Nat /\ p.base \in Nat \ {0}
  BY DEF Price
<1>2. a * p.quote \in Nat
  BY <1>1
<1> QED BY <1>1, <1>2, DivNat DEF Times

(* The instalments are parts of what was raised. *)
LEMMA InstalmentNat ==
  ASSUME NEW n \in 0 .. 3, NEW r \in Nat
  PROVE  Instalment(n, r) \in Nat
BY DEF Instalment, KHC_FIRST_CLAIM_INVESTMENT_RATIO, KHC_SECOND_CLAIM_INVESTMENT_TATIO,
       KHC_100_PERCENT

(* Records stay typed when the fields an operation assigns get typed values. *)
LEMMA OfferingUpdates ==
  ASSUME NEW o \in Offering, NEW x \in Nat, NEW y \in Nat, NEW r \in Price
  PROVE  /\ [o EXCEPT !.end_financing_block_num = x, !.start_project_block_num = y] \in Offering
         /\ [o EXCEPT !.max_supply = x, !.core_exchange_rate = r] \in Offering
BY DEF Offering

LEMMA InvestmentUpdates ==
  ASSUME NEW inv \in Investment, NEW x \in Nat, NEW b \in BOOLEAN
  PROVE  /\ [inv EXCEPT !.has_receive_token = b, !.tokens = x] \in Investment
         /\ [inv EXCEPT !.has_receive_token = b] \in Investment
         /\ [inv EXCEPT !.return_financing_flag = b] \in Investment
BY DEF Investment
-----------------------------------------------------------------------------
LEMMA InitTyped == Init => TypeOK
<1> SUFFICES ASSUME Init PROVE TypeOK
  OBVIOUS
<1> USE ConstantsTyped DEF Init
<1>1. opts \in [Projects -> Offering]
  BY DEF NoOffering, Offering, Price, KHC_PRIVATE_OFFERING
<1>2. /\ state \in [Projects -> about_to_start .. project_end]
      /\ claim_times \in [Projects -> 0 .. 3]
      /\ current_supply \in [Projects -> Nat]
      /\ financing_current_supply \in [Projects -> Nat]
      /\ financing_confidential_supply \in [Projects -> Nat]
      /\ investment_current_supply \in [Projects -> Nat]
      /\ investment_confidential_supply \in [Projects -> Nat]
  BY DEF about_to_start, project_end
<1>3. locked \in [Projects -> LockedPower]
  BY DEF LockedPower
<1>4. khd \in [Accounts -> Nat] /\ token \in [Accounts -> [Projects -> Nat]]
  OBVIOUS
<1>5. authorized \in [Projects -> SUBSET Accounts] /\ investments \in Seq(Investment)
  OBVIOUS
<1>6. head \in 0 .. MaxHead /\ sinceMaint \in 0 .. MaintenanceBlocks /\ edits \in 0 .. MaxEdits
  OBVIOUS
<1>7. created \subseteq Projects /\ issuer \in [Projects -> Accounts]
  OBVIOUS
<1> QED BY <1>1, <1>2, <1>3, <1>4, <1>5, <1>6, <1>7 DEF TypeOK

LEMMA CreateTyped ==
  ASSUME TypeOK, NEW a \in Accounts, NEW p \in Projects, NEW o \in Offerings,
         asset_create(a, p, o)
  PROVE  TypeOK'
<1>0. o \in Offering
  BY OfferingsAssumption
<1>1. opts' \in [Projects -> Offering]
  BY <1>0 DEF TypeOK, asset_create
<1>2. state' \in [Projects -> about_to_start .. project_end]
  BY DEF TypeOK, asset_create, about_to_start, project_in_progress, project_end
<1>3. locked' \in [Projects -> LockedPower]
  <2> DEFINE lock == [owner |-> a, power_value |-> o.power,
                      unlock_height |-> head + o.project_blocks]
  <2>1. o.power \in Nat /\ o.project_blocks \in Nat /\ head \in Nat
    BY <1>0, ConstantsTyped DEF Offering, TypeOK
  <2>2. lock \in LockedPower
    BY <2>1 DEF LockedPower
  <2>3. locked' = [locked EXCEPT ![p] = lock]
    BY DEF asset_create
  <2> HIDE DEF lock
  <2> QED BY <2>2, <2>3 DEF TypeOK
<1>4. created' \subseteq Projects /\ issuer' \in [Projects -> Accounts]
  BY DEF TypeOK, asset_create
<1>5. UNCHANGED <<chainVars, escrowVars, supplyVars, balanceVars, listVars>>
  BY DEF asset_create
<1> QED BY <1>1, <1>2, <1>3, <1>4, <1>5
     DEF TypeOK, chainVars, escrowVars, supplyVars, balanceVars, listVars

LEMMA InvestTyped ==
  ASSUME TypeOK, NEW a \in Accounts, NEW p \in Projects, NEW n \in Amounts,
         asset_investment(a, p, n)
  PROVE  TypeOK' /\ ActualInvestment(p, n) \in Nat \ {0}
<1> DEFINE actual == ActualInvestment(p, n)
           inv == [account |-> a, asset |-> p, khd_amount |-> actual, tokens |-> 0,
                   has_receive_token |-> FALSE, return_financing_flag |-> FALSE]
           closed == [opts[p] EXCEPT !.end_financing_block_num = head,
                                     !.start_project_block_num = head + 1]
<1>1. opts[p] \in Offering /\ n \in Nat \ {0} /\ financing_current_supply[p] \in Nat
  BY AmountsAssumption DEF TypeOK
<1>2. khd[a] \in Nat /\ khd[a] >= n
  BY DEF TypeOK, asset_investment
<1>3. Room(p) \in Int /\ Room(p) > 0
  <2>1. opts[p].max_financing_amount \in Nat
    BY <1>1 DEF Offering
  <2>2. Room(p) \in Int
    BY <1>1, <2>1 DEF Room
  <2> QED BY <2>2 DEF asset_investment
<1>4. actual \in Nat \ {0} /\ actual <= n
  BY <1>1, <1>3 DEF ActualInvestment, AdvanceEnd
<1>5. opts' \in [Projects -> Offering]
  <2>1. head \in Nat /\ head + 1 \in Nat /\ opts[p].core_exchange_rate \in Price
    BY <1>1, ConstantsTyped DEF TypeOK, Offering
  <2>2. closed \in Offering
    BY <1>1, <2>1, OfferingUpdates
  <2>3. opts' = opts \/ opts' = [opts EXCEPT ![p] = closed]
    BY DEF asset_investment
  <2> HIDE DEF closed
  <2> QED BY <2>2, <2>3 DEF TypeOK
<1>6. investments' \in Seq(Investment)
  <2>1. inv \in Investment
    BY <1>4 DEF Investment
  <2>2. investments' = Append(investments, inv)
    BY DEF asset_investment
  <2> HIDE DEF inv
  <2> QED BY <2>1, <2>2 DEF TypeOK
<1> HIDE DEF actual
<1>7. state' \in [Projects -> about_to_start .. project_end]
  BY DEF TypeOK, asset_investment, about_to_start, financing, project_in_progress, project_end
<1>8. /\ financing_current_supply' \in [Projects -> Nat]
      /\ financing_confidential_supply' \in [Projects -> Nat]
  <2>1. /\ financing_current_supply' =
             [financing_current_supply EXCEPT ![p] = financing_current_supply[p] + actual]
        /\ financing_confidential_supply' =
             [financing_confidential_supply EXCEPT ![p] = financing_confidential_supply[p] + actual]
    BY DEF asset_investment, actual
  <2>2. /\ financing_current_supply \in [Projects -> Nat]
        /\ financing_confidential_supply \in [Projects -> Nat]
    BY DEF TypeOK
  <2>3. /\ financing_current_supply[p] + actual \in Nat
        /\ financing_confidential_supply[p] + actual \in Nat
    BY <1>4, <2>2
  <2> QED BY <2>1, <2>2, <2>3
<1>9. khd' \in [Accounts -> Nat]
  <2>1. khd[a] - actual \in Nat
    BY <1>1, <1>2, <1>4
  <2>2. khd' = [khd EXCEPT ![a] = khd[a] - actual]
    BY DEF asset_investment, Charge, actual
  <2> QED BY <2>1, <2>2 DEF TypeOK
<1>10. UNCHANGED <<chainVars, created, issuer, token, locked, listVars, supplyVars, claim_times>>
  BY DEF asset_investment
<1> QED BY <1>4, <1>5, <1>6, <1>7, <1>8, <1>9, <1>10
     DEF TypeOK, actual, chainVars, supplyVars, listVars

(* The shares of an issue: each is a natural, since a project with an      *)
(* investment has raised something, and together with the remainder, which *)
(* one of them gets, they are the whole issue.                             *)
LEMMA IssueAmounts ==
  ASSUME TypeOK, NEW p \in Projects, issue_asset_to_investors(p)
  PROVE  \E t \in Nat : \E share :
           /\ Sum([i \in 1 .. Len(investments) |->
                     IF investments[i].asset = p THEN share[i] ELSE 0], Len(investments)) = t
           /\ \A i \in 1 .. Len(investments) : investments[i].asset = p => share[i] \in Nat
           /\ current_supply' = [current_supply EXCEPT ![p] = @ + t]
           /\ investment_confidential_supply' = [investment_confidential_supply EXCEPT ![p] = t]
           /\ investment_current_supply' = [investment_current_supply EXCEPT ![p] = t]
           /\ investments' = [i \in 1 .. Len(investments) |->
                IF investments[i].asset # p THEN investments[i]
                ELSE [investments[i] EXCEPT !.has_receive_token = FALSE, !.tokens = share[i]]]
<1> DEFINE n == Len(investments)
           raised == financing_confidential_supply[p]
           total == Times(Times(raised, opts[p].khd_exchange_rate), opts[p].core_exchange_rate)
           part(i) == (total * investments[i].khd_amount) \div raised
           k == [i \in 1 .. n |-> IF investments[i].asset = p THEN investments[i].khd_amount ELSE 0]
           f == [i \in 1 .. n |-> IF investments[i].asset = p THEN part(i) ELSE 0]
           share == [i \in 1 .. n |-> part(i) + Remainder(i, p, total - Sum(f, n))]
<1>1. /\ n \in Nat /\ DOMAIN investments = 1 .. n
      /\ \A i \in 1 .. n : investments[i] \in Investment
      /\ raised \in Nat /\ opts[p] \in Offering
  BY DEF TypeOK
<1>2. /\ \A i \in 1 .. n : investments[i].khd_amount \in Nat \ {0}
      /\ opts[p].khd_exchange_rate \in Price /\ opts[p].core_exchange_rate \in Price
  BY <1>1 DEF Investment, Offering
<1>3. total \in Nat
  BY <1>1, <1>2, TimesNat
<1>4. raised = Sum(k, n)
  BY <1>1 DEF issue_asset_to_investors, Total, khdOf
<1>5. raised \in Nat \ {0}
  <2>1. \A i \in 1 .. n : k[i] \in Nat
    BY <1>2
  <2>2. PICK j \in 1 .. n : investments[j].asset = p
    BY <1>1 DEF issue_asset_to_investors
  <2>3. k[j] \in Nat \ {0}
    BY <1>2, <2>2
  <2> HIDE DEF k
  <2>4. Sum(k, n) \in Nat /\ k[j] <= Sum(k, n)
    BY <1>1, <2>1, SumOfNaturals
  <2> QED BY <1>1, <1>4, <2>3, <2>4
<1>6. \A i \in 1 .. n : part(i) \in Nat
  <2> SUFFICES ASSUME NEW i \in 1 .. n PROVE part(i) \in Nat
    OBVIOUS
  <2>1. total * investments[i].khd_amount \in Nat
    <3> HIDE DEF total
    <3> QED BY <1>2, <1>3
  <2> HIDE DEF total, raised
  <2> QED BY <1>5, <2>1, DivNat
<1>7. Sum(f, n) \in Nat
  <2>1. \A i \in 1 .. n : f[i] \in Nat
    BY <1>6
  <2> HIDE DEF f
  <2> QED BY <1>1, <2>1, SumOfNaturals
<1>8. Sum(f, n) <= total
  BY <1>1 DEF issue_asset_to_investors, Total
<1>9. \A i \in 1 .. n : share[i] \in Nat
  <2> SUFFICES ASSUME NEW i \in 1 .. n PROVE share[i] \in Nat
    OBVIOUS
  <2>1. total - Sum(f, n) \in Nat
    <3> HIDE DEF total, f
    <3> QED BY <1>3, <1>7, <1>8
  <2>2. Remainder(i, p, total - Sum(f, n)) \in Nat
    <3> HIDE DEF total, f
    <3> QED BY <2>1 DEF Remainder
  <2>3. part(i) \in Nat
    BY <1>6
  <2> HIDE DEF total, f, part
  <2> QED BY <2>2, <2>3
<1>10. investments' = [i \in 1 .. n |->
                IF investments[i].asset # p THEN investments[i]
                ELSE [investments[i] EXCEPT !.has_receive_token = FALSE, !.tokens = share[i]]]
  BY <1>1 DEF issue_asset_to_investors, Total
<1>11. /\ current_supply' = [current_supply EXCEPT ![p] = @ + total]
       /\ investment_confidential_supply' = [investment_confidential_supply EXCEPT ![p] = total]
       /\ investment_current_supply' = [investment_current_supply EXCEPT ![p] = total]
  BY DEF issue_asset_to_investors
<1>12. Sum([i \in 1 .. n |-> IF investments[i].asset = p THEN share[i] ELSE 0], n) = total
  <2> DEFINE rest == total - Sum(f, n)
             g == [i \in 1 .. n |-> IF investments[i].asset = p THEN share[i] ELSE 0]
             S == {i \in 1 .. n : investments[i].asset = p}
  <2>1. PICK m \in S : \A i \in S : i <= m
    <3>1. S # {} /\ S \in SUBSET (1 .. n)
      BY <1>1 DEF issue_asset_to_investors
    <3> HIDE DEF S
    <3> QED BY <1>1, <3>1, LastOf
  <2> DEFINE e == [i \in 1 .. n |-> IF i = m THEN rest ELSE 0]
  <2>2. IntOn(f, n)
    BY <1>6 DEF IntOn
  <2>3. rest \in Int /\ total = Sum(f, n) + rest
    <3> HIDE DEF total, f
    <3> QED BY <1>3, <1>7
  <2>4. /\ IntOn(e, n) /\ e[m] = rest /\ m \in 1 .. n
        /\ \A i \in 1 .. n : i # m => e[i] = 0
    <3> HIDE DEF rest
    <3> QED BY <2>1, <2>3 DEF IntOn
  <2>5. ASSUME NEW i \in 1 .. n PROVE g[i] = f[i] + e[i]
    <3>1. CASE investments[i].asset # p
      <4>1. i # m
        BY <2>1, <3>1
      <4> HIDE DEF rest, share
      <4> QED BY <3>1, <4>1
    <3>2. CASE investments[i].asset = p
      <4>1. Remainder(i, p, rest) = e[i]
        <5>1. i = m <=> \A j \in DOMAIN investments : investments[j].asset = p => j <= i
          BY <1>1, <2>1, <3>2
        <5> HIDE DEF rest
        <5> QED BY <5>1 DEF Remainder
      <4>2. g[i] = part(i) + Remainder(i, p, rest) /\ f[i] = part(i)
        BY <3>2
      <4> HIDE DEF g, f, part, e, rest
      <4> QED BY <4>1, <4>2
    <3> QED BY <3>1, <3>2
  <2> HIDE DEF g, f, e, rest
  <2>6. Sum(e, n) = rest
    BY <1>1, <2>3, <2>4, SumOfOne
  <2>7. Sum(g, n) = Sum(f, n) + Sum(e, n)
    BY <1>1, <2>2, <2>4, <2>5, SumAdd
  <2>8. Sum(g, n) = total
    <3> HIDE DEF total
    <3> QED BY <2>3, <2>6, <2>7
  <2> QED BY <2>8 DEF g
<1> HIDE DEF total, share
<1> QED BY <1>3, <1>9, <1>10, <1>11, <1>12

LEMMA IssueTyped ==
  ASSUME TypeOK, NEW p \in Projects, issue_asset_to_investors(p)
  PROVE  TypeOK'
<1>1. PICK t \in Nat : \E share :
           /\ Sum([i \in 1 .. Len(investments) |->
                     IF investments[i].asset = p THEN share[i] ELSE 0], Len(investments)) = t
           /\ \A i \in 1 .. Len(investments) : investments[i].asset = p => share[i] \in Nat
           /\ current_supply' = [current_supply EXCEPT ![p] = @ + t]
           /\ investment_confidential_supply' = [investment_confidential_supply EXCEPT ![p] = t]
           /\ investment_current_supply' = [investment_current_supply EXCEPT ![p] = t]
           /\ investments' = [i \in 1 .. Len(investments) |->
                IF investments[i].asset # p THEN investments[i]
                ELSE [investments[i] EXCEPT !.has_receive_token = FALSE, !.tokens = share[i]]]
  BY IssueAmounts
<1>2. PICK share :
           /\ \A i \in 1 .. Len(investments) : investments[i].asset = p => share[i] \in Nat
           /\ investments' = [i \in 1 .. Len(investments) |->
                IF investments[i].asset # p THEN investments[i]
                ELSE [investments[i] EXCEPT !.has_receive_token = FALSE, !.tokens = share[i]]]
  BY <1>1
<1>3. Len(investments) \in Nat /\ \A i \in 1 .. Len(investments) : investments[i] \in Investment
  BY DEF TypeOK
<1>4. \A i \in 1 .. Len(investments) : investments'[i] \in Investment
  BY <1>2, <1>3, InvestmentUpdates
<1>5. investments' \in Seq(Investment)
  <2>1. investments' \in [1 .. Len(investments) -> Investment]
    BY <1>2, <1>4
  <2> QED BY <1>3, <2>1, SeqDef
<1>6. /\ current_supply' \in [Projects -> Nat]
      /\ investment_confidential_supply' \in [Projects -> Nat]
      /\ investment_current_supply' \in [Projects -> Nat]
  <2>1. current_supply[p] + t \in Nat
    BY DEF TypeOK
  <2>2. /\ current_supply' = [current_supply EXCEPT ![p] = current_supply[p] + t]
        /\ investment_confidential_supply' = [investment_confidential_supply EXCEPT ![p] = t]
        /\ investment_current_supply' = [investment_current_supply EXCEPT ![p] = t]
    BY <1>1
  <2> QED BY <2>1, <2>2 DEF TypeOK
<1>7. UNCHANGED <<chainVars, created, issuer, opts, state, escrowVars, locked, khd, token, listVars>>
  BY DEF issue_asset_to_investors
<1> QED BY <1>5, <1>6, <1>7 DEF TypeOK, chainVars, escrowVars, listVars

LEMMA RefundTyped ==
  ASSUME TypeOK, NEW a \in Accounts, NEW p \in Projects, refund_investment(a, p)
  PROVE  /\ TypeOK'
         /\ \E t \in Nat :
              /\ financing_current_supply' =
                   [financing_current_supply EXCEPT ![p] = financing_current_supply[p] - t]
              /\ khd' = [khd EXCEPT ![a] = khd[a] + t]
<1> DEFINE n == Len(investments)
           f == [i \in 1 .. n |-> IF Refundable(a, p, investments[i])
                                  THEN investments[i].khd_amount ELSE 0]
           t == Sum(f, n)
<1>1. n \in Nat /\ DOMAIN investments = 1 .. n /\ \A i \in 1 .. n : investments[i] \in Investment
  BY DEF TypeOK
<1>2. t \in Nat
  <2>1. \A i \in 1 .. n : f[i] \in Nat
    BY <1>1 DEF Investment
  <2> HIDE DEF f
  <2> QED BY <1>1, <2>1, SumOfNaturals
<1>3. /\ financing_current_supply[p] - t >= 0
      /\ financing_current_supply' =
           [financing_current_supply EXCEPT ![p] = financing_current_supply[p] - t]
      /\ khd' = [khd EXCEPT ![a] = khd[a] + t]
  BY DEF refund_investment, Total, khdOf
<1>4. investments' = [i \in 1 .. n |-> IF Refundable(a, p, investments[i])
                        THEN [investments[i] EXCEPT !.return_financing_flag = TRUE]
                        ELSE investments[i]]
  BY <1>1 DEF refund_investment
<1> HIDE DEF t
<1>5. investments' \in Seq(Investment)
  <2>1. \A i \in 1 .. n : investments'[i] \in Investment
    BY <1>1, <1>4, InvestmentUpdates
  <2>2. investments' \in [1 .. n -> Investment]
    BY <1>4, <2>1
  <2> QED BY <1>1, <2>2, SeqDef
<1>6. financing_current_supply' \in [Projects -> Nat] /\ khd' \in [Accounts -> Nat]
  <2>0. financing_current_supply[p] \in Nat /\ khd[a] \in Nat
    BY DEF TypeOK
  <2>1. financing_current_supply[p] - t \in Nat /\ khd[a] + t \in Nat
    BY <1>2, <1>3, <2>0
  <2> QED BY <1>3, <2>1 DEF TypeOK
<1>7. UNCHANGED <<chainVars, created, issuer, opts, state, claim_times,
                  financing_confidential_supply, supplyVars, locked, token, listVars>>
  BY DEF refund_investment
<1>8. TypeOK'
  BY <1>5, <1>6, <1>7 DEF TypeOK, chainVars, supplyVars, listVars
<1> QED BY <1>2, <1>3, <1>8

LEMMA ClaimBitassetTyped ==
  ASSUME TypeOK, NEW a \in Accounts, NEW p \in Projects, claim_bitasset_investment(a, p)
  PROVE  /\ TypeOK'
         /\ \E t \in Nat :
              /\ financing_current_supply' =
                   [financing_current_supply EXCEPT ![p] = financing_current_supply[p] - t]
              /\ khd' = [khd EXCEPT ![a] = khd[a] + t]
<1> DEFINE t == Instalment(claim_times[p], financing_confidential_supply[p])
<1>1. t \in Nat
  BY InstalmentNat DEF TypeOK
<1>2. /\ financing_current_supply[p] - t >= 0 /\ claim_times[p] < 3
      /\ financing_current_supply' =
           [financing_current_supply EXCEPT ![p] = financing_current_supply[p] - t]
      /\ khd' = [khd EXCEPT ![a] = khd[a] + t]
      /\ claim_times' = [claim_times EXCEPT ![p] = claim_times[p] + 1]
  BY DEF claim_bitasset_investment
<1> HIDE DEF t
<1>3. /\ financing_current_supply[p] - t \in Nat /\ khd[a] + t \in Nat
      /\ claim_times[p] + 1 \in 0 .. 3
  <2>1. financing_current_supply[p] \in Nat /\ khd[a] \in Nat /\ claim_times[p] \in 0 .. 3
    BY DEF TypeOK
  <2> QED BY <1>1, <1>2, <2>1
<1>4. UNCHANGED <<chainVars, created, issuer, opts, state, financing_confidential_supply,
                  supplyVars, locked, investments, token, listVars>>
  BY DEF claim_bitasset_investment
<1>5. /\ financing_current_supply' \in [Projects -> Nat] /\ khd' \in [Accounts -> Nat]
      /\ claim_times' \in [Projects -> 0 .. 3]
  <2>1. financing_current_supply' \in [Projects -> Nat]
    BY <1>2, <1>3 DEF TypeOK
  <2>2. khd' \in [Accounts -> Nat]
    BY <1>2, <1>3 DEF TypeOK
  <2>3. claim_times' \in [Projects -> 0 .. 3]
    BY <1>2, <1>3 DEF TypeOK
  <2> QED BY <2>1, <2>2, <2>3
<1>6. TypeOK'
  BY <1>4, <1>5 DEF TypeOK, chainVars, supplyVars, listVars
<1> QED BY <1>1, <1>2, <1>6

LEMMA ClaimAssetTyped ==
  ASSUME TypeOK, NEW a \in Accounts, NEW p \in Projects, claim_asset_investment(a, p)
  PROVE  TypeOK'
<1> DEFINE n == Len(investments)
           f == [i \in 1 .. n |-> IF investments[i].account = a /\ investments[i].asset = p
                                  THEN investments[i].tokens ELSE 0]
           t == Sum(f, n)
<1>1. n \in Nat /\ DOMAIN investments = 1 .. n /\ \A i \in 1 .. n : investments[i] \in Investment
  BY DEF TypeOK
<1>2. t \in Nat
  <2>1. \A i \in 1 .. n : f[i] \in Nat
    BY <1>1 DEF Investment
  <2> HIDE DEF f
  <2> QED BY <1>1, <2>1, SumOfNaturals
<1>3. /\ t <= investment_current_supply[p]
      /\ investment_current_supply' =
           [investment_current_supply EXCEPT ![p] = investment_current_supply[p] - t]
      /\ token' = [token EXCEPT ![a][p] = token[a][p] + t]
  BY DEF claim_asset_investment, Total, tokensOf
<1>4. investments' = [i \in 1 .. n |-> IF investments[i].account = a /\ investments[i].asset = p
                        THEN [investments[i] EXCEPT !.has_receive_token = TRUE]
                        ELSE investments[i]]
  BY <1>1 DEF claim_asset_investment
<1> HIDE DEF t
<1>5. investments' \in Seq(Investment)
  <2>1. \A i \in 1 .. n : investments'[i] \in Investment
    BY <1>1, <1>4, InvestmentUpdates
  <2>2. investments' \in [1 .. n -> Investment]
    BY <1>4, <2>1
  <2> QED BY <1>1, <2>2, SeqDef
<1>6. investment_current_supply' \in [Projects -> Nat]
  <2>1. investment_current_supply \in [Projects -> Nat]
    BY DEF TypeOK
  <2>2. investment_current_supply[p] - t \in Nat
    BY <1>2, <1>3, <2>1
  <2> QED BY <1>3, <2>1, <2>2
<1>7. token' \in [Accounts -> [Projects -> Nat]]
  <2>1. token \in [Accounts -> [Projects -> Nat]]
    BY DEF TypeOK
  <2>2. token[a][p] + t \in Nat
    BY <1>2, <2>1
  <2> QED BY <1>3, <2>1, <2>2
<1>8. UNCHANGED <<chainVars, created, issuer, opts, state, escrowVars, current_supply,
                  investment_confidential_supply, locked, khd, listVars>>
  BY DEF claim_asset_investment
<1> QED BY <1>5, <1>6, <1>7, <1>8 DEF TypeOK, chainVars, escrowVars, listVars

LEMMA TokenOperationsTyped ==
  ASSUME TypeOK, NEW a \in Accounts, NEW p \in Projects, NEW n \in TokenAmounts,
         asset_issue(a, p, n) \/ asset_reserve(a, p, n)
  PROVE  TypeOK'
<1>1. n \in Nat /\ current_supply[p] \in Nat /\ token[a][p] \in Nat
  BY AmountsAssumption DEF TypeOK
<1>2. PICK x \in Nat, y \in Nat : /\ current_supply' = [current_supply EXCEPT ![p] = x]
                                  /\ token' = [token EXCEPT ![a][p] = y]
  <2>1. CASE asset_issue(a, p, n)
    <3>1. current_supply[p] + n \in Nat /\ token[a][p] + n \in Nat
      BY <1>1
    <3>2. /\ current_supply' = [current_supply EXCEPT ![p] = current_supply[p] + n]
          /\ token' = [token EXCEPT ![a][p] = token[a][p] + n]
      BY <2>1 DEF asset_issue
    <3> QED BY <3>1, <3>2
  <2>2. CASE asset_reserve(a, p, n)
    <3>1. current_supply[p] - n \in Nat /\ token[a][p] - n \in Nat
      BY <1>1, <2>2 DEF asset_reserve, Reservable
    <3>2. /\ current_supply' = [current_supply EXCEPT ![p] = current_supply[p] - n]
          /\ token' = [token EXCEPT ![a][p] = token[a][p] - n]
      BY <2>2 DEF asset_reserve
    <3> QED BY <3>1, <3>2
  <2> QED BY <2>1, <2>2
<1>3. current_supply' \in [Projects -> Nat] /\ token' \in [Accounts -> [Projects -> Nat]]
  BY <1>2 DEF TypeOK
<1>4. UNCHANGED <<chainVars, created, issuer, opts, state, escrowVars, investment_current_supply,
                  investment_confidential_supply, locked, investments, khd, listVars>>
  BY DEF asset_issue, asset_reserve
<1> QED BY <1>3, <1>4 DEF TypeOK, chainVars, escrowVars, listVars

LEMMA EditsTyped ==
  ASSUME TypeOK, NEW a \in Accounts, NEW p \in Projects,
         \/ asset_update_issuer(p, a)
         \/ account_whitelist(a, p)
         \/ \E u \in Updates : asset_update(p, u)
  PROVE  TypeOK' /\ UNCHANGED <<financing_current_supply, khd>>
<1>1. edits < MaxEdits /\ edits' = edits + 1
  BY DEF asset_update_issuer, account_whitelist, asset_update
<1>2. edits' \in 0 .. MaxEdits
  BY <1>1, ConstantsTyped DEF TypeOK
<1>3. UNCHANGED <<chainVars, created, state, escrowVars, supplyVars, locked, balanceVars>>
  BY DEF asset_update_issuer, account_whitelist, asset_update
<1>4. issuer' \in [Projects -> Accounts]
  BY DEF asset_update_issuer, account_whitelist, asset_update, TypeOK
<1>5. authorized' \in [Projects -> SUBSET Accounts]
  <2>1. CASE UNCHANGED authorized
    BY <2>1 DEF TypeOK
  <2>2. CASE account_whitelist(a, p)
    <3>1. authorized[p] \in SUBSET Accounts
      BY DEF TypeOK
    <3>2. PICK s \in SUBSET Accounts : authorized' = [authorized EXCEPT ![p] = s]
      BY <2>2, <3>1, Zenon DEF account_whitelist
    <3> QED BY <3>2 DEF TypeOK
  <2> QED BY <2>1, <2>2 DEF asset_update_issuer, asset_update
<1>6. opts' \in [Projects -> Offering]
  <2>1. CASE UNCHANGED opts
    BY <2>1 DEF TypeOK
  <2>2. ASSUME NEW u \in Updates, asset_update(p, u) PROVE opts' \in [Projects -> Offering]
    <3> DEFINE o == [opts[p] EXCEPT !.max_supply = u.max_supply,
                                    !.core_exchange_rate = u.core_exchange_rate]
    <3>1. u.max_supply \in Nat /\ u.core_exchange_rate \in Price /\ opts[p] \in Offering
      BY OfferingsAssumption DEF TypeOK
    <3>2. o \in Offering
      BY <3>1, OfferingUpdates
    <3>3. opts' = [opts EXCEPT ![p] = o]
      BY <2>2 DEF asset_update
    <3> HIDE DEF o
    <3> QED BY <3>2, <3>3 DEF TypeOK
  <2> QED BY <2>1, <2>2 DEF asset_update_issuer, account_whitelist
<1> QED BY <1>2, <1>3, <1>4, <1>5, <1>6
     DEF TypeOK, chainVars, escrowVars, supplyVars, balanceVars

LEMMA BlockTyped ==
  ASSUME TypeOK, NEW m \in BOOLEAN, NextBlock(m)
  PROVE  TypeOK' /\ UNCHANGED <<financing_current_supply, khd>>
<1>1. head' \in 0 .. MaxHead
  BY ConstantsTyped DEF NextBlock, TypeOK
<1>2. sinceMaint' \in 0 .. MaintenanceBlocks
  BY ConstantsTyped DEF NextBlock, TypeOK
<1>3. state' \in [Projects -> about_to_start .. project_end]
  <2> USE DEF about_to_start, financing, financing_failue, project_in_progress, project_end
  <2>1. CASE ~m
    BY <2>1 DEF NextBlock, TypeOK
  <2>2. CASE m
    <3>1. \A p \in Projects : ProjectState(p, head + 1) \in about_to_start .. project_end
      BY DEF ProjectState, Settled, is_public_offering, TypeOK
    <3>2. state' = [p \in Projects |-> IF p \in created THEN ProjectState(p, head + 1) ELSE state[p]]
      BY <2>2 DEF NextBlock, update_asset_project_states
    <3> QED BY <3>1, <3>2 DEF TypeOK
  <2> QED BY <2>1, <2>2
<1>4. locked' \in [Projects -> LockedPower]
  <2>1. \A l \in LockedPower : [l EXCEPT !.unlock_height = 0] \in LockedPower
    BY DEF LockedPower
  <2>2. CASE ~m
    BY <2>2 DEF NextBlock, TypeOK
  <2>3. CASE m
    <3>1. \A p \in Projects : locked[p] \in LockedPower
      BY DEF TypeOK
    <3>2. /\ \A p \in Projects : locked'[p] \in {locked[p], [locked[p] EXCEPT !.unlock_height = 0]}
          /\ locked' = [p \in Projects |-> locked'[p]]
      BY <2>3 DEF NextBlock, update_asset_project_states
    <3>3. \A p \in Projects : locked'[p] \in LockedPower
      BY <2>1, <3>1, <3>2
    <3> QED BY <3>2, <3>3
  <2> QED BY <2>2, <2>3
<1>5. UNCHANGED <<created, issuer, opts, escrowVars, supplyVars, balanceVars, listVars>>
  BY DEF NextBlock
<1> QED BY <1>1, <1>2, <1>3, <1>4, <1>5 DEF TypeOK, escrowVars, supplyVars, balanceVars, listVars

(* Every operation keeps the counters and balances of Financing in their   *)
(* types; in particular no balance, escrow or supply becomes negative.     *)
THEOREM TypeCorrect == Spec => []TypeOK
<1>1. Init => TypeOK
  BY InitTyped
<1>2. ASSUME TypeOK, [Next]_vars PROVE TypeOK'
  <2>1. CASE UNCHANGED vars
    BY <1>2, <2>1 DEF TypeOK, vars
  <2>2. ASSUME NEW p \in Projects, issue_asset_to_investors(p) PROVE TypeOK'
    BY <1>2, <2>2, IssueTyped
  <2>3. ASSUME NEW m \in BOOLEAN, NextBlock(m) PROVE TypeOK'
    BY <1>2, <2>3, BlockTyped
  <2>4. CASE Operation
    BY <1>2, <2>4, CreateTyped, InvestTyped, RefundTyped, ClaimBitassetTyped, ClaimAssetTyped,
       TokenOperationsTyped, EditsTyped DEF Operation
  <2> QED BY <1>2, <2>1, <2>2, <2>3, <2>4 DEF Next
<1> QED BY <1>1, <1>2, PTL DEF Spec

(* Moving t from one entry of a balance to one entry of another leaves the *)
(* two sums together as they were.                                         *)
LEMMA MoveConserves ==
  ASSUME TypeOK, NEW a \in Accounts, NEW p \in Projects, NEW t \in Int,
         financing_current_supply'[p] = financing_current_supply[p] - t,
         \A q \in Projects : q # p => financing_current_supply'[q] = financing_current_supply[q],
         khd'[a] = khd[a] + t,
         \A b \in Accounts : b # a => khd'[b] = khd[b],
         KHDConserved
  PROVE  KHDConserved'
<1>1. /\ NumAccounts \in Nat /\ NumProjects \in Nat
      /\ a \in 1 .. NumAccounts /\ p \in 1 .. NumProjects
  BY ConstantsTyped DEF Accounts, Projects
<1>2. /\ \A b \in Accounts : khd[b] \in Int
      /\ \A q \in Projects : financing_current_supply[q] \in Int
  <2>1. khd \in [Accounts -> Nat] /\ financing_current_supply \in [Projects -> Nat]
    BY DEF TypeOK
  <2> QED BY <2>1
<1>3. IntOn(khd, NumAccounts) /\ IntOn(financing_current_supply, NumProjects)
  BY <1>2 DEF IntOn, Accounts, Projects
<1>4. khd'[a] \in Int /\ financing_current_supply'[p] \in Int
  BY <1>2
<1>5. Sum(khd', NumAccounts) = Sum(khd, NumAccounts) + khd'[a] - khd[a]
  <2>1. \A i \in 1 .. NumAccounts : i # a => khd'[i] = khd[i]
    BY DEF Accounts
  <2> QED BY <1>1, <1>3, <1>4, <2>1, SumUpdate, Zenon
<1>6. Sum(financing_current_supply', NumProjects) =
        Sum(financing_current_supply, NumProjects)
        + financing_current_supply'[p] - financing_current_supply[p]
  <2>1. \A i \in 1 .. NumProjects :
          i # p => financing_current_supply'[i] = financing_current_supply[i]
    BY DEF Projects
  <2> QED BY <1>1, <1>3, <1>4, <2>1, SumUpdate, Zenon
<1>7. Sum(khd, NumAccounts) \in Int /\ Sum(financing_current_supply, NumProjects) \in Int
  BY <1>1, <1>3, SumRecurrence
<1>8. Sum(khd', NumAccounts) + Sum(financing_current_supply', NumProjects)
        = Sum(khd, NumAccounts) + Sum(financing_current_supply, NumProjects)
  BY <1>2, <1>4, <1>5, <1>6, <1>7
<1> QED BY <1>8 DEF KHDConserved

(* No sequence of investments, refunds, claims and maintenance creates or  *)
(* destroys KHD.                                                           *)
THEOREM KHDIsConserved == Spec => []KHDConserved
<1>1. Init => KHDConserved
  <2> SUFFICES ASSUME Init PROVE KHDConserved
    OBVIOUS
  <2>1. khd = [a \in Accounts |-> InitialKHD]
    BY DEF Init
  <2>2. /\ IntOn(khd, NumAccounts) /\ NumAccounts \in Nat /\ NumProjects \in Nat
        /\ \A i \in 1 .. NumProjects : financing_current_supply[i] = 0
    BY ConstantsTyped DEF Init, IntOn, Accounts, Projects
  <2>3. Sum(financing_current_supply, NumProjects) = 0 /\ Sum(khd, NumAccounts) \in Int
    BY <2>2, SumOfNone, SumRecurrence
  <2> QED BY <2>1, <2>3 DEF KHDConserved
<1>2. ASSUME TypeOK, KHDConserved, [Next]_vars PROVE KHDConserved'
  <2>0. ASSUME UNCHANGED <<financing_current_supply, khd>> PROVE KHDConserved'
    BY <1>2, <2>0 DEF KHDConserved
  <2>1. CASE UNCHANGED vars
    BY <2>0, <2>1 DEF vars
  <2>2. ASSUME NEW p \in Projects, issue_asset_to_investors(p) PROVE KHDConserved'
    BY <2>0, <2>2 DEF issue_asset_to_investors, escrowVars
  <2>3. ASSUME NEW m \in BOOLEAN, NextBlock(m) PROVE KHDConserved'
    BY <1>2, <2>0, <2>3, BlockTyped
  <2>4. ASSUME NEW a \in Accounts, NEW p \in Projects, NEW n \in Amounts, asset_investment(a, p, n)
        PROVE  KHDConserved'
    <3> DEFINE actual == ActualInvestment(p, n)
    <3>1. actual \in Nat
      BY <1>2, <2>4, InvestTyped
    <3>2. financing_current_supply[p] \in Nat /\ khd[a] \in Nat
      BY <1>2 DEF TypeOK
    <3>3. /\ financing_current_supply' =
               [financing_current_supply EXCEPT ![p] = financing_current_supply[p] + actual]
          /\ khd' = [khd EXCEPT ![a] = khd[a] - actual]
      BY <2>4 DEF asset_investment, Charge
    <3> HIDE DEF actual
    <3> DEFINE t == -actual
    <3>4. /\ financing_current_supply[p] + actual = financing_current_supply[p] - t
          /\ khd[a] - actual = khd[a] + t /\ t \in Int
      BY <3>1, <3>2
    <3> HIDE DEF t
    <3>5. /\ financing_current_supply'[p] = financing_current_supply[p] - t
          /\ \A q \in Projects : q # p => financing_current_supply'[q] = financing_current_supply[q]
          /\ khd'[a] = khd[a] + t
          /\ \A b \in Accounts : b # a => khd'[b] = khd[b]
      BY <1>2, <3>2, <3>3, <3>4 DEF TypeOK
    <3>6. t \in Int
      BY <3>4
    <3> HIDE DEF actual
    <3> QED BY <1>2, <3>5, <3>6, MoveConserves, Zenon
  <2>5. ASSUME NEW a \in Accounts, NEW p \in Projects,
               refund_investment(a, p) \/ claim_bitasset_investment(a, p)
        PROVE  KHDConserved'
    <3>1. PICK t \in Nat :
            /\ financing_current_supply' =
                 [financing_current_supply EXCEPT ![p] = financing_current_supply[p] - t]
            /\ khd' = [khd EXCEPT ![a] = khd[a] + t]
      BY <1>2, <2>5, RefundTyped, ClaimBitassetTyped
    <3>2. /\ financing_current_supply'[p] = financing_current_supply[p] - t
          /\ \A q \in Projects : q # p => financing_current_supply'[q] = financing_current_supply[q]
          /\ khd'[a] = khd[a] + t
          /\ \A b \in Accounts : b # a => khd'[b] = khd[b]
      BY <1>2, <3>1 DEF TypeOK
    <3>3. t \in Int
      OBVIOUS
    <3> QED BY <1>2, <3>2, <3>3, MoveConserves, Zenon
  <2>6. ASSUME NEW a \in Accounts, NEW p \in Projects,
               \/ \E o \in Offerings : asset_create(a, p, o)
               \/ claim_asset_investment(a, p)
               \/ \E n \in TokenAmounts : asset_issue(a, p, n) \/ asset_reserve(a, p, n)
        PROVE  KHDConserved'
    BY <2>0, <2>6 DEF asset_create, claim_asset_investment, asset_issue, asset_reserve,
                      escrowVars, balanceVars
  <2>7. ASSUME NEW a \in Accounts, NEW p \in Projects,
               \/ asset_update_issuer(p, a)
               \/ account_whitelist(a, p)
               \/ \E u \in Updates : asset_update(p, u)
        PROVE  KHDConserved'
    BY <1>2, <2>0, <2>7, EditsTyped
  <2>8. CASE Operation
    BY <2>4, <2>5, <2>6, <2>7, <2>8 DEF Operation
  <2> QED BY <1>2, <2>1, <2>2, <2>3, <2>8 DEF Next
<1> QED BY <1>1, <1>2, TypeCorrect, PTL DEF Spec

-----------------------------------------------------------------------------
(* The safety of a financing: when it may fail, what ends it, what its escrow *)
(* holds and what tokens its investors may still claim.                      *)

LEMMA HeadTyped ==
  ASSUME TypeOK
  PROVE  /\ head \in Nat
         /\ \A p \in Projects :
              /\ opts[p] \in Offering /\ state[p] \in 0 .. 4 /\ claim_times[p] \in 0 .. 3
              /\ financing_confidential_supply[p] \in Nat /\ financing_current_supply[p] \in Nat
         /\ Len(investments) \in Nat /\ DOMAIN investments = 1 .. Len(investments)
         /\ \A i \in 1 .. Len(investments) : investments[i] \in Investment
BY ConstantsTyped DEF TypeOK, about_to_start, project_end

LEMMA OfferingFields ==
  ASSUME NEW o \in Offering
  PROVE  /\ o.financing_type \in {0, 1}
         /\ o.start_financing_block_num \in Nat /\ o.end_financing_block_num \in Nat
         /\ o.start_project_block_num \in Nat /\ o.end_project_block_num \in Nat
         /\ o.min_financing_amount \in Nat /\ o.max_financing_amount \in Nat
         /\ o.project_blocks \in Nat
BY DEF Offering, KHC_PRIVATE_OFFERING, KHC_PUBLIC_OFFERING

(* What the blocks of an offering and the state of its project say about   *)
(* each other, whatever the issuer submitted: only a project in the asset  *)
(* index is public or has left its first state, a private one has no       *)
(* investors, and a failed one closed below its minimum.                   *)
LifecycleOf(p) ==
  /\ p \notin created => ~is_public_offering(p) /\ state[p] = about_to_start
  /\ ~is_public_offering(p) =>
       /\ financing_confidential_supply[p] = 0
       /\ claim_times[p] = 0
       /\ \A i \in 1 .. Len(investments) : investments[i].asset # p
  /\ state[p] = financing_failue =>
       /\ is_public_offering(p)
       /\ financing_confidential_supply[p] < opts[p].min_financing_amount
       /\ head > opts[p].end_financing_block_num

Lifecycle == \A p \in Projects : LifecycleOf(p)

(* Under WalletOrder nothing is taken out of an escrow, and no project     *)
(* ends, before the last block in which an investment may still arrive.    *)
ClosedOf(p) ==
  /\ OrderOf(opts[p])
  /\ state[p] = project_end /\ is_public_offering(p) => head > opts[p].end_financing_block_num
  /\ claim_times[p] > 0 => head > opts[p].end_financing_block_num
  /\ \A i \in 1 .. Len(investments) :
       investments[i].asset = p /\ investments[i].return_financing_flag
         => head > opts[p].end_financing_block_num

Closed == \A p \in Projects : ClosedOf(p)
-----------------------------------------------------------------------------
(* A step that leaves the blocks, the state and the escrow of a project as *)
(* they were, and the fields of its investments that the invariants read.  *)
Untouched(p) ==
  /\ p \in created' <=> p \in created
  /\ opts'[p].financing_type = opts[p].financing_type
  /\ opts'[p].end_financing_block_num = opts[p].end_financing_block_num
  /\ opts'[p].start_project_block_num = opts[p].start_project_block_num
  /\ opts'[p].end_project_block_num = opts[p].end_project_block_num
  /\ opts'[p].min_financing_amount = opts[p].min_financing_amount
  /\ opts'[p].max_financing_amount = opts[p].max_financing_amount
  /\ state'[p] = state[p] /\ claim_times'[p] = claim_times[p]
  /\ financing_confidential_supply'[p] = financing_confidential_supply[p]

SameInvestments ==
  /\ Len(investments') = Len(investments)
  /\ \A i \in 1 .. Len(investments) :
       /\ investments'[i].asset = investments[i].asset
       /\ investments'[i].khd_amount = investments[i].khd_amount
       /\ investments'[i].return_financing_flag = investments[i].return_financing_flag

LEMMA UntouchedKeeps ==
  ASSUME TypeOK, NEW p \in Projects, LifecycleOf(p), Untouched(p), SameInvestments,
         head' \in Nat, head' >= head
  PROVE  LifecycleOf(p)' /\ (ClosedOf(p) => ClosedOf(p)')
<1>1. /\ head \in Nat /\ opts[p].end_financing_block_num \in Nat
      /\ head > opts[p].end_financing_block_num => head' > opts[p].end_financing_block_num
  BY HeadTyped, OfferingFields
<1>2. LifecycleOf(p)'
  BY <1>1 DEF LifecycleOf, Untouched, SameInvestments, is_public_offering
<1>3. ASSUME ClosedOf(p) PROVE ClosedOf(p)'
  BY <1>1, <1>3 DEF ClosedOf, OrderOf, Untouched, SameInvestments, is_public_offering
<1> QED BY <1>2, <1>3

LEMMA CreateLifecycle ==
  ASSUME TypeOK, Lifecycle, NEW a \in Accounts, NEW p \in Projects, NEW o \in Offerings,
         asset_create(a, p, o), NEW q \in Projects
  PROVE  LifecycleOf(q)' /\ (WalletOrder /\ ClosedOf(q) => ClosedOf(q)')
<1>0. LifecycleOf(q)
  BY DEF Lifecycle
<1>1. /\ head' = head /\ investments' = investments /\ claim_times' = claim_times
      /\ financing_confidential_supply' = financing_confidential_supply
      /\ opts' = [opts EXCEPT ![p] = o] /\ created' = created \cup {p}
      /\ state' = [state EXCEPT ![p] = IF o.financing_type = KHC_PUBLIC_OFFERING
                                       THEN about_to_start ELSE project_in_progress]
      /\ p \notin created
  BY DEF asset_create, chainVars, balanceVars, escrowVars
<1>2. o \in Offering /\ head \in Nat
  BY OfferingsAssumption, HeadTyped
<1>3. CASE q # p
  <2>1. Untouched(q)
    BY <1>1, <1>3 DEF Untouched, TypeOK
  <2>2. SameInvestments /\ head' >= head
    BY <1>1, <1>2 DEF SameInvestments
  <2> QED BY <1>0, <1>1, <1>2, <2>1, <2>2, UntouchedKeeps
<1>4. CASE q = p
  <2>1. opts'[q] = o /\ state'[q] \in {about_to_start, project_in_progress} /\ q \in created'
    BY <1>1, <1>4 DEF TypeOK
  <2>2. /\ financing_confidential_supply[q] = 0 /\ claim_times[q] = 0
        /\ \A i \in 1 .. Len(investments) : investments[i].asset # q
    BY <1>0, <1>1, <1>4 DEF LifecycleOf
  <2>3. LifecycleOf(q)'
    BY <1>1, <2>1, <2>2
       DEF LifecycleOf, about_to_start, project_in_progress, financing_failue
  <2>4. ASSUME WalletOrder PROVE ClosedOf(q)'
    BY <1>1, <2>1, <2>2, <2>4 DEF ClosedOf, WalletOrder, about_to_start, project_in_progress, project_end
  <2> QED BY <2>3, <2>4
<1> QED BY <1>3, <1>4

(* An investment arrives in a block of the window; the project it is for   *)
(* has then neither failed nor ended, and nobody drew on its escrow.       *)
LEMMA InvestChanges ==
  ASSUME TypeOK, NEW a \in Accounts, NEW p \in Projects, NEW n \in Amounts,
         asset_investment(a, p, n)
  PROVE  /\ is_public_offering(p)
         /\ head <= opts[p].end_financing_block_num
         /\ opts'[p].financing_type = opts[p].financing_type
         /\ opts'[p].min_financing_amount = opts[p].min_financing_amount
         /\ opts'[p].max_financing_amount = opts[p].max_financing_amount
         /\ opts'[p].end_project_block_num = opts[p].end_project_block_num
         /\ \/ /\ opts'[p].end_financing_block_num = opts[p].end_financing_block_num
               /\ opts'[p].start_project_block_num = opts[p].start_project_block_num
            \/ /\ opts'[p].end_financing_block_num = head
               /\ opts'[p].start_project_block_num = head + 1
         /\ state'[p] \in {state[p], financing, project_in_progress}
         /\ \A q \in Projects : q # p => Untouched(q)
         /\ head' = head /\ created' = created /\ claim_times' = claim_times
         /\ Len(investments') = Len(investments) + 1
         /\ \A i \in 1 .. Len(investments) : investments'[i] = investments[i]
         /\ investments'[Len(investments) + 1] =
              [account |-> a, asset |-> p, khd_amount |-> ActualInvestment(p, n), tokens |-> 0,
               has_receive_token |-> FALSE, return_financing_flag |-> FALSE]
<1> DEFINE inv == [account |-> a, asset |-> p, khd_amount |-> ActualInvestment(p, n), tokens |-> 0,
                   has_receive_token |-> FALSE, return_financing_flag |-> FALSE]
<1>1. /\ head \in Nat /\ opts[p].start_financing_block_num \in Nat
      /\ opts[p].end_financing_block_num \in Nat
  BY HeadTyped, OfferingFields
<1>2. /\ is_public_offering(p) /\ head <= opts[p].end_financing_block_num
      /\ head' = head /\ created' = created /\ claim_times' = claim_times
  BY <1>1 DEF asset_investment, InFinancingWindow, chainVars
<1>3. opts' = IF AdvanceEnd(p, n)
              THEN [opts EXCEPT ![p].end_financing_block_num = head,
                                ![p].start_project_block_num = head + 1]
              ELSE opts
  BY DEF asset_investment
<1>4. /\ opts'[p].financing_type = opts[p].financing_type
      /\ opts'[p].min_financing_amount = opts[p].min_financing_amount
      /\ opts'[p].max_financing_amount = opts[p].max_financing_amount
      /\ opts'[p].end_project_block_num = opts[p].end_project_block_num
      /\ \/ /\ opts'[p].end_financing_block_num = opts[p].end_financing_block_num
            /\ opts'[p].start_project_block_num = opts[p].start_project_block_num
         \/ /\ opts'[p].end_financing_block_num = head
            /\ opts'[p].start_project_block_num = head + 1
      /\ \A q \in Projects : q # p => opts'[q] = opts[q]
  <2> DEFINE closed == [opts[p] EXCEPT !.end_financing_block_num = head,
                                       !.start_project_block_num = head + 1]
  <2>1. opts' = opts \/ opts' = [opts EXCEPT ![p] = closed]
    BY <1>3
  <2>2. /\ closed.financing_type = opts[p].financing_type
        /\ closed.min_financing_amount = opts[p].min_financing_amount
        /\ closed.max_financing_amount = opts[p].max_financing_amount
        /\ closed.end_project_block_num = opts[p].end_project_block_num
        /\ closed.end_financing_block_num = head
        /\ closed.start_project_block_num = head + 1
    <3>1. opts[p] \in Offering
      BY DEF TypeOK
    <3> QED BY <3>1 DEF Offering
  <2> HIDE DEF closed, inv
  <2> QED BY <2>1, <2>2 DEF TypeOK
<1>5. /\ state'[p] \in {state[p], financing, project_in_progress}
      /\ \A q \in Projects : q # p => state'[q] = state[q]
  BY DEF asset_investment, TypeOK
<1>6. \A q \in Projects : q # p =>
        financing_confidential_supply'[q] = financing_confidential_supply[q]
  BY DEF asset_investment, TypeOK
<1>7. \A q \in Projects : q # p => Untouched(q)
  BY <1>2, <1>4, <1>5, <1>6 DEF Untouched
<1>8. investments' = Append(investments, inv)
  BY DEF asset_investment
<1>9. /\ Len(investments') = Len(investments) + 1
      /\ \A i \in 1 .. Len(investments) : investments'[i] = investments[i]
      /\ investments'[Len(investments) + 1] = inv
  <2> HIDE DEF inv
  <2> QED BY <1>8, HeadTyped, AppendProperties DEF TypeOK
<1> QED BY <1>2, <1>4, <1>5, <1>7, <1>9

LEMMA InvestLifecycle ==
  ASSUME TypeOK, Lifecycle, NEW a \in Accounts, NEW p \in Projects, NEW n \in Amounts,
         asset_investment(a, p, n), NEW q \in Projects
  PROVE  LifecycleOf(q)' /\ (ClosedOf(q) => ClosedOf(q)')
<1>0. LifecycleOf(q)
  BY DEF Lifecycle
<1>1. /\ Len(investments) \in Nat /\ head \in Nat /\ opts[q].end_financing_block_num \in Nat
      /\ opts[q].end_project_block_num \in Nat
  BY HeadTyped, OfferingFields
<1>2. \A i \in 1 .. Len(investments') :
        \/ i \in 1 .. Len(investments) /\ investments'[i] = investments[i]
        \/ investments'[i].asset = p /\ ~investments'[i].return_financing_flag
  <2>1. /\ Len(investments') = Len(investments) + 1
        /\ \A i \in 1 .. Len(investments) : investments'[i] = investments[i]
        /\ investments'[Len(investments) + 1] =
             [account |-> a, asset |-> p, khd_amount |-> ActualInvestment(p, n), tokens |-> 0,
              has_receive_token |-> FALSE, return_financing_flag |-> FALSE]
    BY InvestChanges
  <2>2. /\ investments'[Len(investments) + 1].asset = p
        /\ ~investments'[Len(investments) + 1].return_financing_flag
    BY <2>1
  <2> QED BY <1>1, <2>1, <2>2
<1>3. head' = head /\ created' = created /\ claim_times' = claim_times
  BY InvestChanges
<1>4. CASE q # p
  <2>1. Untouched(q)
    BY <1>4, InvestChanges
  <2>2. LifecycleOf(q)'
    BY <1>0, <1>1, <1>2, <1>3, <1>4, <2>1 DEF LifecycleOf, Untouched, is_public_offering
  <2>3. ASSUME ClosedOf(q) PROVE ClosedOf(q)'
    BY <1>1, <1>2, <1>3, <1>4, <2>1, <2>3 DEF ClosedOf, OrderOf, Untouched, is_public_offering
  <2> QED BY <2>2, <2>3
<1>5. CASE q = p
  <2>1. /\ is_public_offering(q) /\ head <= opts[q].end_financing_block_num
        /\ opts'[q].financing_type = opts[q].financing_type
        /\ opts'[q].end_project_block_num = opts[q].end_project_block_num
        /\ \/ /\ opts'[q].end_financing_block_num = opts[q].end_financing_block_num
              /\ opts'[q].start_project_block_num = opts[q].start_project_block_num
           \/ /\ opts'[q].end_financing_block_num = head
              /\ opts'[q].start_project_block_num = head + 1
        /\ state'[q] \in {state[q], financing, project_in_progress}
    BY <1>5, InvestChanges
  <2>2. state[q] # financing_failue /\ state'[q] # financing_failue
    BY <1>0, <1>1, <2>1 DEF LifecycleOf, financing, financing_failue, project_in_progress
  <2>3. LifecycleOf(q)'
    BY <1>0, <1>3, <2>1, <2>2 DEF LifecycleOf, is_public_offering
  <2>4. ASSUME ClosedOf(q) PROVE ClosedOf(q)'
    <3>1. /\ state[q] # project_end /\ ~(claim_times[q] > 0)
          /\ \A i \in 1 .. Len(investments) :
               ~(investments[i].asset = q /\ investments[i].return_financing_flag)
      BY <1>1, <2>1, <2>4 DEF ClosedOf
    <3>2. state'[q] # project_end
      BY <2>1, <3>1 DEF financing, project_in_progress, project_end
    <3>3. OrderOf(opts'[q])
      BY <1>1, <2>1, <2>4 DEF ClosedOf, OrderOf
    <3> QED BY <1>2, <1>3, <3>1, <3>2, <3>3 DEF ClosedOf
  <2> QED BY <2>3, <2>4
<1> QED BY <1>4, <1>5

(* Issuing, claiming, burning and editing tokens leave the financing alone. *)
LEMMA QuietSteps ==
  ASSUME TypeOK, NEW a \in Accounts, NEW p \in Projects,
         \/ issue_asset_to_investors(p)
         \/ claim_asset_investment(a, p)
         \/ \E n \in TokenAmounts : asset_issue(a, p, n) \/ asset_reserve(a, p, n)
         \/ asset_update_issuer(p, a)
         \/ account_whitelist(a, p)
         \/ \E u \in Updates : asset_update(p, u)
  PROVE  /\ SameInvestments /\ head' = head /\ created' = created /\ UNCHANGED escrowVars
         /\ \A q \in Projects : Untouched(q)
<1>1. /\ head' = head /\ created' = created /\ state' = state /\ UNCHANGED escrowVars
  BY DEF issue_asset_to_investors, claim_asset_investment, asset_issue, asset_reserve,
         asset_update_issuer, account_whitelist, asset_update, chainVars
<1>2. ASSUME NEW q \in Projects
      PROVE  /\ opts'[q].financing_type = opts[q].financing_type
             /\ opts'[q].end_financing_block_num = opts[q].end_financing_block_num
             /\ opts'[q].start_project_block_num = opts[q].start_project_block_num
             /\ opts'[q].end_project_block_num = opts[q].end_project_block_num
             /\ opts'[q].min_financing_amount = opts[q].min_financing_amount
             /\ opts'[q].max_financing_amount = opts[q].max_financing_amount
  <2>1. CASE UNCHANGED opts
    BY <2>1
  <2>2. ASSUME NEW u \in Updates, asset_update(p, u)
        PROVE  /\ opts'[q].financing_type = opts[q].financing_type
               /\ opts'[q].end_financing_block_num = opts[q].end_financing_block_num
               /\ opts'[q].start_project_block_num = opts[q].start_project_block_num
               /\ opts'[q].end_project_block_num = opts[q].end_project_block_num
               /\ opts'[q].min_financing_amount = opts[q].min_financing_amount
               /\ opts'[q].max_financing_amount = opts[q].max_financing_amount
    <3> DEFINE o == [opts[p] EXCEPT !.max_supply = u.max_supply,
                                    !.core_exchange_rate = u.core_exchange_rate]
    <3>1. opts' = [opts EXCEPT ![p] = o]
      BY <2>2 DEF asset_update
    <3>2. opts[p] \in Offering
      BY DEF TypeOK
    <3>3. /\ o.financing_type = opts[p].financing_type
          /\ o.end_financing_block_num = opts[p].end_financing_block_num
          /\ o.start_project_block_num = opts[p].start_project_block_num
          /\ o.end_project_block_num = opts[p].end_project_block_num
          /\ o.min_financing_amount = opts[p].min_financing_amount
          /\ o.max_financing_amount = opts[p].max_financing_amount
      BY <3>2 DEF Offering
    <3> HIDE DEF o
    <3> QED BY <3>1, <3>3 DEF TypeOK
  <2> QED BY <2>1, <2>2 DEF issue_asset_to_investors, claim_asset_investment, asset_issue,
             asset_reserve, asset_update_issuer, account_whitelist
<1>3. \A q \in Projects : Untouched(q)
  BY <1>1, <1>2 DEF Untouched, escrowVars
<1>4. SameInvestments
  <2>0. /\ Len(investments) \in Nat /\ DOMAIN investments = 1 .. Len(investments)
        /\ \A i \in 1 .. Len(investments) : investments[i] \in Investment
    BY HeadTyped
  <2>1. CASE UNCHANGED investments
    BY <2>1 DEF SameInvestments
  <2>2. CASE issue_asset_to_investors(p)
    <3>1. PICK share : investments' = [i \in 1 .. Len(investments) |->
                IF investments[i].asset # p THEN investments[i]
                ELSE [investments[i] EXCEPT !.has_receive_token = FALSE, !.tokens = share[i]]]
      BY <2>2, IssueAmounts
    <3>2. Len(investments') = Len(investments)
      <4> DEFINE new(i) == IF investments[i].asset # p THEN investments[i]
                ELSE [investments[i] EXCEPT !.has_receive_token = FALSE, !.tokens = share[i]]
      <4>1. investments' = [i \in 1 .. Len(investments) |-> new(i)]
        BY <3>1
      <4> HIDE DEF new
      <4> QED BY <2>0, <4>1
    <3>3. ASSUME NEW inv \in Investment, NEW x
          PROVE  LET new == [inv EXCEPT !.has_receive_token = FALSE, !.tokens = x]
                 IN  /\ new.asset = inv.asset /\ new.khd_amount = inv.khd_amount
                     /\ new.return_financing_flag = inv.return_financing_flag
      BY DEF Investment
    <3> QED BY <2>0, <3>1, <3>2, <3>3 DEF SameInvestments
  <2>3. CASE claim_asset_investment(a, p)
    <3>1. investments' = [i \in 1 .. Len(investments) |->
             IF investments[i].account = a /\ investments[i].asset = p
             THEN [investments[i] EXCEPT !.has_receive_token = TRUE]
             ELSE investments[i]]
      BY <2>0, <2>3 DEF claim_asset_investment
    <3>2. Len(investments') = Len(investments)
      BY <2>0, <3>1
    <3>3. ASSUME NEW inv \in Investment
          PROVE  LET new == [inv EXCEPT !.has_receive_token = TRUE]
                 IN  /\ new.asset = inv.asset /\ new.khd_amount = inv.khd_amount
                     /\ new.return_financing_flag = inv.return_financing_flag
      BY DEF Investment
    <3> QED BY <2>0, <3>1, <3>2, <3>3 DEF SameInvestments
  <2> QED BY <2>1, <2>2, <2>3 DEF asset_issue, asset_reserve, asset_update_issuer,
             account_whitelist, asset_update, balanceVars
<1> QED BY <1>1, <1>3, <1>4

LEMMA RefundChanges ==
  ASSUME TypeOK, NEW a \in Accounts, NEW p \in Projects, refund_investment(a, p)
  PROVE  /\ state[p] = financing_failue
         /\ head' = head
         /\ \A q \in Projects : Untouched(q)
         /\ Len(investments') = Len(investments)
         /\ \A i \in 1 .. Len(investments) :
              /\ investments'[i].asset = investments[i].asset
              /\ investments'[i].khd_amount = investments[i].khd_amount
              /\ investments'[i].return_financing_flag =
                   (investments[i].return_financing_flag \/ Refundable(a, p, investments[i]))
<1>0. /\ Len(investments) \in Nat /\ DOMAIN investments = 1 .. Len(investments)
      /\ \A i \in 1 .. Len(investments) : investments[i] \in Investment
  BY HeadTyped
<1>1. /\ state[p] = financing_failue /\ head' = head /\ created' = created /\ opts' = opts
      /\ state' = state /\ claim_times' = claim_times
      /\ financing_confidential_supply' = financing_confidential_supply
      /\ investments' = [i \in 1 .. Len(investments) |->
           IF Refundable(a, p, investments[i])
           THEN [investments[i] EXCEPT !.return_financing_flag = TRUE]
           ELSE investments[i]]
  BY <1>0 DEF refund_investment, chainVars
<1>2. \A q \in Projects : Untouched(q)
  BY <1>1 DEF Untouched
<1>3. ASSUME NEW inv \in Investment
      PROVE  LET new == [inv EXCEPT !.return_financing_flag = TRUE]
             IN  /\ new.asset = inv.asset /\ new.khd_amount = inv.khd_amount
                 /\ new.return_financing_flag = TRUE /\ inv.return_financing_flag \in BOOLEAN
  BY DEF Investment
<1>4. Len(investments') = Len(investments)
  BY <1>0, <1>1
<1>5. ASSUME NEW i \in 1 .. Len(investments)
      PROVE  /\ investments'[i].asset = investments[i].asset
             /\ investments'[i].khd_amount = investments[i].khd_amount
             /\ investments'[i].return_financing_flag =
                  (investments[i].return_financing_flag \/ Refundable(a, p, investments[i]))
  <2>1. CASE Refundable(a, p, investments[i])
    BY <1>0, <1>1, <1>3, <2>1
  <2>2. CASE ~Refundable(a, p, investments[i])
    BY <1>0, <1>1, <1>3, <2>2
  <2> QED BY <2>1, <2>2
<1> QED BY <1>1, <1>2, <1>4, <1>5

LEMMA RefundLifecycle ==
  ASSUME TypeOK, Lifecycle, NEW a \in Accounts, NEW p \in Projects, refund_investment(a, p),
         NEW q \in Projects
  PROVE  LifecycleOf(q)' /\ (ClosedOf(q) => ClosedOf(q)')
<1>0. LifecycleOf(q) /\ LifecycleOf(p) /\ Untouched(q) /\ head' = head
  BY RefundChanges DEF Lifecycle
<1>1. /\ Len(investments') = Len(investments)
      /\ \A i \in 1 .. Len(investments) :
              /\ investments'[i].asset = investments[i].asset
              /\ investments'[i].return_financing_flag =
                   (investments[i].return_financing_flag \/ Refundable(a, p, investments[i]))
  BY RefundChanges
<1>2. head > opts[p].end_financing_block_num
  BY <1>0, RefundChanges DEF LifecycleOf
<1>3. LifecycleOf(q)'
  BY <1>0, <1>1 DEF LifecycleOf, Untouched, is_public_offering
<1>4. ASSUME ClosedOf(q) PROVE ClosedOf(q)'
  <2>1. ASSUME NEW i \in 1 .. Len(investments), investments'[i].asset = q,
               investments'[i].return_financing_flag
        PROVE  head > opts[q].end_financing_block_num
    <3>1. CASE investments[i].return_financing_flag
      BY <1>1, <1>4, <2>1, <3>1 DEF ClosedOf
    <3>2. CASE Refundable(a, p, investments[i])
      BY <1>1, <1>2, <2>1, <3>2 DEF Refundable
    <3> QED BY <1>1, <2>1, <3>1, <3>2
  <2> QED BY <1>0, <1>1, <1>4, <2>1 DEF ClosedOf, OrderOf, Untouched, is_public_offering
<1> QED BY <1>3, <1>4

LEMMA ClaimLifecycle ==
  ASSUME TypeOK, Lifecycle, NEW a \in Accounts, NEW p \in Projects,
         claim_bitasset_investment(a, p), NEW q \in Projects
  PROVE  LifecycleOf(q)' /\ (ClosedOf(q) => ClosedOf(q)')
<1>0. LifecycleOf(q)
  BY DEF Lifecycle
<1>1. /\ head' = head /\ created' = created /\ opts' = opts /\ state' = state
      /\ financing_confidential_supply' = financing_confidential_supply
      /\ investments' = investments
      /\ is_public_offering(p) /\ head >= InstalmentBlock(claim_times[p], opts[p])
      /\ claim_times' = [claim_times EXCEPT ![p] = claim_times[p] + 1]
  BY DEF claim_bitasset_investment, chainVars
<1>2. CASE q # p
  <2>1. claim_times'[q] = claim_times[q]
    BY <1>1, <1>2 DEF TypeOK
  <2>2. Untouched(q) /\ SameInvestments
    BY <1>1, <2>1 DEF Untouched, SameInvestments
  <2> QED BY <1>0, <1>1, <2>2, HeadTyped, UntouchedKeeps
<1>3. CASE q = p
  <2>1. LifecycleOf(q)'
    BY <1>0, <1>1, <1>3 DEF LifecycleOf, is_public_offering
  <2>2. ASSUME ClosedOf(q) PROVE ClosedOf(q)'
    <3>1. /\ head \in Nat /\ opts[q].end_financing_block_num \in Nat
          /\ opts[q].start_project_block_num \in Nat /\ opts[q].project_blocks \in Nat
      BY HeadTyped, OfferingFields
    <3>2. opts[q].start_project_block_num > opts[q].end_financing_block_num
      BY <1>1, <1>3, <2>2 DEF ClosedOf, OrderOf, is_public_offering
    <3>3. opts[q].project_blocks \div 2 \in Nat
      BY <3>1
    <3>4. head >= opts[q].start_project_block_num
      <4> DEFINE half == opts[q].project_blocks \div 2
      <4>1. InstalmentBlock(claim_times[q], opts[q]) \in
              {opts[q].start_project_block_num + 0, opts[q].start_project_block_num + half,
               opts[q].start_project_block_num + opts[q].project_blocks}
        BY DEF InstalmentBlock
      <4> HIDE DEF half
      <4>2. half \in Nat
        BY <3>3 DEF half
      <4> QED BY <1>1, <1>3, <3>1, <4>1, <4>2
    <3>5. head > opts[q].end_financing_block_num
      BY <3>1, <3>2, <3>4
    <3> QED BY <1>1, <2>2, <3>5 DEF ClosedOf, is_public_offering
  <2> QED BY <2>1, <2>2
<1> QED BY <1>2, <1>3

(* The decisions of a maintenance at block h, for one project *)
LEMMA Decided ==
  ASSUME TypeOK, NEW p \in Projects, NEW h \in Nat
  PROVE  /\ state[p] \in {financing_failue, project_end} => ProjectState(p, h) = state[p]
         /\ ProjectState(p, h) = financing_failue =>
              \/ state[p] = financing_failue
              \/ /\ is_public_offering(p) /\ h > opts[p].end_financing_block_num
                 /\ financing_confidential_supply[p] < opts[p].min_financing_amount
         /\ ProjectState(p, h) = project_end /\ is_public_offering(p) =>
              state[p] = project_end \/ h > opts[p].end_project_block_num
<1>1. /\ opts[p].end_project_block_num \in Nat /\ opts[p].end_financing_block_num \in Nat
      /\ opts[p].start_financing_block_num \in Nat
  BY HeadTyped, OfferingFields
<1> USE DEF about_to_start, financing, financing_failue, project_in_progress, project_end
<1>2. CASE Settled(p)
  BY <1>2 DEF ProjectState, Settled
<1>3. CASE ~Settled(p) /\ ~is_public_offering(p)
  BY <1>1, <1>3 DEF ProjectState, Settled
<1>4. CASE ~Settled(p) /\ is_public_offering(p)
  BY <1>1, <1>4 DEF ProjectState, Settled, UnderFunded
<1> QED BY <1>2, <1>3, <1>4

LEMMA BlockChanges ==
  ASSUME TypeOK, NEW m \in BOOLEAN, NextBlock(m)
  PROVE  /\ head \in Nat /\ head' = head + 1 /\ created' = created /\ opts' = opts
         /\ UNCHANGED <<escrowVars, supplyVars, balanceVars>>
         /\ \A p \in Projects :
              \/ state'[p] = state[p]
              \/ p \in created /\ state'[p] = ProjectState(p, head + 1)
<1>1. /\ head \in Nat /\ head' = head + 1 /\ created' = created /\ opts' = opts
      /\ UNCHANGED <<escrowVars, supplyVars, balanceVars>>
  BY HeadTyped DEF NextBlock
<1>2. CASE m
  BY <1>1, <1>2 DEF NextBlock, update_asset_project_states
<1>3. CASE ~m
  BY <1>1, <1>3 DEF NextBlock
<1> QED BY <1>1, <1>2, <1>3

LEMMA BlockLifecycle ==
  ASSUME TypeOK, Lifecycle, NEW m \in BOOLEAN, NextBlock(m), NEW q \in Projects
  PROVE  LifecycleOf(q)' /\ (ClosedOf(q) => ClosedOf(q)')
<1>0. LifecycleOf(q) /\ head + 1 \in Nat
  BY HeadTyped DEF Lifecycle
<1>1. /\ head \in Nat /\ head' = head + 1 /\ created' = created /\ opts' = opts
      /\ financing_confidential_supply' = financing_confidential_supply
      /\ claim_times' = claim_times /\ investments' = investments
  BY BlockChanges DEF escrowVars, balanceVars
<1>2. CASE state'[q] = state[q]
  <2>1. Untouched(q) /\ SameInvestments
    BY <1>1, <1>2 DEF Untouched, SameInvestments
  <2>2. head' \in Nat /\ head' >= head
    BY <1>1
  <2> QED BY <1>0, <2>1, <2>2, UntouchedKeeps
<1>3. CASE q \in created /\ state'[q] = ProjectState(q, head + 1)
  <2>1. /\ opts[q].end_financing_block_num \in Nat /\ opts[q].end_project_block_num \in Nat
    BY HeadTyped, OfferingFields
  <2>2. state'[q] = financing_failue =>
              /\ is_public_offering(q) /\ head + 1 > opts[q].end_financing_block_num
              /\ financing_confidential_supply[q] < opts[q].min_financing_amount
    BY <1>0, <1>1, <1>3, <2>1, Decided DEF LifecycleOf
  <2>3. state'[q] = project_end /\ is_public_offering(q) =>
          state[q] = project_end \/ head + 1 > opts[q].end_project_block_num
    BY <1>0, <1>3, Decided
  <2>4. LifecycleOf(q)'
    BY <1>0, <1>1, <1>3, <2>2 DEF LifecycleOf, is_public_offering
  <2>5. ASSUME ClosedOf(q) PROVE ClosedOf(q)'
    <3>1. state'[q] = project_end /\ is_public_offering(q)
            => head + 1 > opts[q].end_financing_block_num
      BY <1>1, <2>1, <2>3, <2>5 DEF ClosedOf, OrderOf, is_public_offering
    <3> QED BY <1>1, <2>1, <2>5, <3>1 DEF ClosedOf, is_public_offering
  <2> QED BY <2>4, <2>5
<1> QED BY <1>2, <1>3, BlockChanges

(* The two invariants hold at the start and no step breaks them. *)
LEMMA LifecycleStep ==
  ASSUME TypeOK, Lifecycle, [Next]_vars
  PROVE  Lifecycle' /\ (WalletOrder /\ Closed => Closed')
<1> SUFFICES ASSUME NEW q \in Projects
             PROVE  LifecycleOf(q)' /\ (WalletOrder /\ ClosedOf(q) => ClosedOf(q)')
  BY DEF Lifecycle, Closed
<1>0. ASSUME SameInvestments, head' = head, Untouched(q)
      PROVE  LifecycleOf(q)' /\ (WalletOrder /\ ClosedOf(q) => ClosedOf(q)')
  BY <1>0, HeadTyped, UntouchedKeeps DEF Lifecycle
<1>1. CASE UNCHANGED vars
  BY <1>0, <1>1 DEF vars, SameInvestments, Untouched
<1>2. ASSUME NEW p \in Projects, issue_asset_to_investors(p)
      PROVE  LifecycleOf(q)' /\ (WalletOrder /\ ClosedOf(q) => ClosedOf(q)')
  <2>1. PICK a \in Accounts : TRUE
    BY ConstantsTyped DEF Accounts
  <2> QED BY <1>0, <1>2, QuietSteps
<1>3. ASSUME NEW m \in BOOLEAN, NextBlock(m)
      PROVE  LifecycleOf(q)' /\ (WalletOrder /\ ClosedOf(q) => ClosedOf(q)')
  BY <1>3, BlockLifecycle
<1>4. ASSUME NEW a \in Accounts, NEW p \in Projects,
             \/ claim_asset_investment(a, p)
             \/ \E n \in TokenAmounts : asset_issue(a, p, n) \/ asset_reserve(a, p, n)
             \/ asset_update_issuer(p, a)
             \/ account_whitelist(a, p)
             \/ \E u \in Updates : asset_update(p, u)
      PROVE  LifecycleOf(q)' /\ (WalletOrder /\ ClosedOf(q) => ClosedOf(q)')
  BY <1>0, <1>4, QuietSteps
<1>5. ASSUME NEW a \in Accounts, NEW p \in Projects,
             \/ \E o \in Offerings : asset_create(a, p, o)
             \/ \E n \in Amounts : asset_investment(a, p, n)
             \/ refund_investment(a, p)
             \/ claim_bitasset_investment(a, p)
      PROVE  LifecycleOf(q)' /\ (WalletOrder /\ ClosedOf(q) => ClosedOf(q)')
  BY <1>5, CreateLifecycle, InvestLifecycle, RefundLifecycle, ClaimLifecycle
<1>6. CASE Operation
  BY <1>4, <1>5, <1>6 DEF Operation
<1> QED BY <1>1, <1>2, <1>3, <1>6 DEF Next

LEMMA LifecycleInit ==
  ASSUME Init
  PROVE  Lifecycle /\ Closed
<1>1. ASSUME NEW p \in Projects
      PROVE  /\ opts[p] = NoOffering /\ ~is_public_offering(p) /\ state[p] = about_to_start
             /\ claim_times[p] = 0 /\ financing_confidential_supply[p] = 0
             /\ 1 .. Len(investments) = {}
  BY DEF Init, NoOffering, is_public_offering, KHC_PRIVATE_OFFERING, KHC_PUBLIC_OFFERING
<1>2. ASSUME NEW p \in Projects PROVE LifecycleOf(p)
  BY <1>1 DEF LifecycleOf, about_to_start, financing_failue
<1>3. ASSUME NEW p \in Projects PROVE ClosedOf(p)
  BY <1>1 DEF ClosedOf, OrderOf, NoOffering, is_public_offering, about_to_start, project_end
<1> QED BY <1>2, <1>3 DEF Lifecycle, Closed

(* The state that maintenance sets agrees with what was raised and with    *)
(* the blocks of the offering, whatever operations come in between.        *)
THEOREM LifecycleKept == Spec => []Lifecycle
<1>1. Init => Lifecycle
  BY LifecycleInit
<1>2. ASSUME TypeOK, Lifecycle, [Next]_vars PROVE Lifecycle'
  BY <1>2, LifecycleStep
<1> QED BY <1>1, <1>2, TypeCorrect, PTL DEF Spec

(* Whatever the offerings: update_asset_project_states never declares a    *)
(* financing that raised its minimum a failure, and no later operation     *)
(* makes a failed one reach it.                                            *)
THEOREM FundedNeverFailsHolds == Spec => []FundedNeverFails
<1>1. TypeOK /\ Lifecycle => FundedNeverFails
  <2> SUFFICES ASSUME TypeOK, Lifecycle, NEW p \in created,
                      financing_confidential_supply[p] >= opts[p].min_financing_amount,
                      state[p] = financing_failue
               PROVE  FALSE
    BY DEF FundedNeverFails
  <2>1. p \in Projects /\ financing_confidential_supply[p] \in Nat
    BY DEF TypeOK
  <2>2. opts[p].min_financing_amount \in Nat
    BY <2>1, HeadTyped, OfferingFields
  <2> QED BY <2>1, <2>2 DEF Lifecycle, LifecycleOf
<1> QED BY <1>1, TypeCorrect, LifecycleKept, PTL

(* With blocks in the wallet's order, the escrow is first drawn upon, by   *)
(* the issuer or by a refund, when no investment can arrive any more.      *)
THEOREM ClosedKept ==
  ASSUME WalletOrder
  PROVE  Spec => []Closed
<1>1. Init => Closed
  BY LifecycleInit
<1>2. ASSUME TypeOK, Lifecycle, Closed, [Next]_vars PROVE Closed'
  BY <1>2, LifecycleStep, WalletOrder
<1> QED BY <1>1, <1>2, TypeCorrect, LifecycleKept, PTL DEF Spec

LEMMA TerminalStep ==
  ASSUME TypeOK, Lifecycle, Closed, [Next]_vars, NEW q \in Projects,
         state[q] \in {financing_failue, project_end}
  PROVE  state'[q] = state[q]
<1> USE DEF about_to_start, financing_failue, project_end
<1>0. LifecycleOf(q) /\ ClosedOf(q) /\ head \in Nat /\ opts[q].end_financing_block_num \in Nat
  BY HeadTyped, OfferingFields DEF Lifecycle, Closed
<1>1. CASE UNCHANGED vars
  BY <1>1 DEF vars
<1>2. ASSUME NEW p \in Projects, issue_asset_to_investors(p) PROVE state'[q] = state[q]
  BY <1>2 DEF issue_asset_to_investors
<1>3. ASSUME NEW m \in BOOLEAN, NextBlock(m) PROVE state'[q] = state[q]
  <2>1. head + 1 \in Nat
    BY <1>0
  <2> QED BY <1>3, <2>1, BlockChanges, Decided
<1>4. ASSUME NEW a \in Accounts, NEW p \in Projects,
             \/ refund_investment(a, p)
             \/ claim_bitasset_investment(a, p)
             \/ claim_asset_investment(a, p)
             \/ \E n \in TokenAmounts : asset_issue(a, p, n) \/ asset_reserve(a, p, n)
             \/ asset_update_issuer(p, a)
             \/ account_whitelist(a, p)
             \/ \E u \in Updates : asset_update(p, u)
      PROVE  state'[q] = state[q]
  BY <1>4 DEF refund_investment, claim_bitasset_investment, claim_asset_investment, asset_issue,
              asset_reserve, asset_update_issuer, account_whitelist, asset_update
<1>5. ASSUME NEW a \in Accounts, NEW p \in Projects, NEW o \in Offerings, asset_create(a, p, o)
      PROVE  state'[q] = state[q]
  <2>1. q \in created
    BY <1>0 DEF LifecycleOf
  <2>2. q # p
    BY <1>5, <2>1 DEF asset_create
  <2> QED BY <1>5, <2>2 DEF asset_create, TypeOK
<1>6. ASSUME NEW a \in Accounts, NEW p \in Projects, NEW n \in Amounts, asset_investment(a, p, n)
      PROVE  state'[q] = state[q]
  <2>1. is_public_offering(p) /\ head <= opts[p].end_financing_block_num
    BY <1>6, InvestChanges
  <2>2. q # p
    BY <1>0, <2>1 DEF LifecycleOf, ClosedOf
  <2> QED BY <1>6, <2>2, InvestChanges DEF Untouched
<1>7. CASE Operation
  BY <1>4, <1>5, <1>6, <1>7 DEF Operation
<1> QED BY <1>1, <1>2, <1>3, <1>7 DEF Next

(* No late investment, claim or maintenance revives a failed or an ended   *)
(* project, when offerings have their blocks in the wallet's order.        *)
THEOREM TerminalForeverHolds ==
  ASSUME WalletOrder
  PROVE  Spec => TerminalForever
<1>1. ASSUME TypeOK, Lifecycle, Closed, [Next]_vars
      PROVE  [\A p \in Projects : state[p] \in {financing_failue, project_end}
                                    => state'[p] = state[p]]_vars
  BY <1>1, TerminalStep
<1> QED BY <1>1, TypeCorrect, LifecycleKept, ClosedKept, PTL DEF Spec, TerminalForever
-----------------------------------------------------------------------------
(* The sums of EscrowLedger, as functions of the investment objects s: the *)
(* KHD invested in p, and the part of it that was returned                 *)
Invested(s, p) == [i \in 1 .. Len(s) |-> IF s[i].asset = p THEN s[i].khd_amount ELSE 0]

Returned(s, p) ==
  [i \in 1 .. Len(s) |-> IF s[i].asset = p /\ s[i].return_financing_flag
                         THEN s[i].khd_amount ELSE 0]

LEMMA EscrowTerms ==
  ASSUME NEW s \in Seq(Investment), NEW p
  PROVE  /\ Len(s) \in Nat
         /\ IntOn(Invested(s, p), Len(s)) /\ IntOn(Returned(s, p), Len(s))
         /\ Sum(Invested(s, p), Len(s)) \in Int /\ Sum(Returned(s, p), Len(s)) \in Int
<1>1. Len(s) \in Nat /\ \A i \in 1 .. Len(s) : s[i].khd_amount \in Int
  <2>1. Len(s) \in Nat /\ \A i \in 1 .. Len(s) : s[i] \in Investment
    OBVIOUS
  <2> QED BY <2>1 DEF Investment
<1>2. IntOn(Invested(s, p), Len(s)) /\ IntOn(Returned(s, p), Len(s))
  BY <1>1 DEF IntOn, Invested, Returned
<1> QED BY <1>1, <1>2, SumRecurrence

(* Objects that agree in the project, the amount and the flag have the     *)
(* same sums.                                                              *)
LEMMA EscrowSame ==
  ASSUME TypeOK, SameInvestments, NEW p
  PROVE  /\ Sum(Invested(investments', p), Len(investments'))
              = Sum(Invested(investments, p), Len(investments))
         /\ Sum(Returned(investments', p), Len(investments'))
              = Sum(Returned(investments, p), Len(investments))
<1>1. investments \in Seq(Investment) /\ Len(investments') = Len(investments)
  BY DEF TypeOK, SameInvestments
<1>2. \A i \in 1 .. Len(investments) :
        /\ Invested(investments', p)[i] = Invested(investments, p)[i]
        /\ Returned(investments', p)[i] = Returned(investments, p)[i]
  BY DEF SameInvestments, Invested, Returned
<1> QED BY <1>1, <1>2, EscrowTerms, SumEqual

EscrowOf(p) ==
  /\ financing_confidential_supply[p] = Sum(Invested(investments, p), Len(investments))
  /\ financing_current_supply[p] =
       financing_confidential_supply[p]
       - Drawn(claim_times[p], financing_confidential_supply[p])
       - Sum(Returned(investments, p), Len(investments))

LEMMA EscrowIsOf ==
  /\ EscrowLedger <=> \A p \in Projects : EscrowOf(p)
  /\ EscrowLedger' <=> \A p \in Projects : EscrowOf(p)'
BY DEF EscrowLedger, EscrowOf, Total, Invested, Returned, khdOf

LEMMA DrawnSteps ==
  ASSUME NEW n \in 0 .. 3, NEW r \in Nat
  PROVE  /\ Drawn(n, r) \in Nat
         /\ Drawn(0, r) = 0
         /\ n < 3 => Drawn(n + 1, r) = Drawn(n, r) + Instalment(n, r)
<1>1. Instalment(0, r) \in Nat /\ Instalment(1, r) \in Nat /\ Instalment(2, r) \in Nat
  BY InstalmentNat
<1>2. n = 0 \/ n = 1 \/ n = 2 \/ n = 3
  OBVIOUS
<1> QED BY <1>1, <1>2 DEF Drawn

(* A step that touches neither the counters of p nor what its investment   *)
(* objects record *)
LEMMA EscrowUntouched ==
  ASSUME TypeOK, NEW p \in Projects, EscrowOf(p), SameInvestments,
         claim_times'[p] = claim_times[p],
         financing_confidential_supply'[p] = financing_confidential_supply[p],
         financing_current_supply'[p] = financing_current_supply[p]
  PROVE  EscrowOf(p)'
BY EscrowSame DEF EscrowOf

LEMMA InvestEscrow ==
  ASSUME TypeOK, Closed, \A p \in Projects : EscrowOf(p),
         NEW a \in Accounts, NEW p \in Projects, NEW n \in Amounts, asset_investment(a, p, n),
         NEW q \in Projects
  PROVE  EscrowOf(q)'
<1> DEFINE len == Len(investments)
           actual == ActualInvestment(p, n)
           inv == [account |-> a, asset |-> p, khd_amount |-> actual, tokens |-> 0,
                   has_receive_token |-> FALSE, return_financing_flag |-> FALSE]
<1>1. /\ investments \in Seq(Investment) /\ len \in Nat /\ actual \in Nat
      /\ Len(investments') = len + 1 /\ investments'[len + 1] = inv
      /\ \A i \in 1 .. len : investments'[i] = investments[i]
      /\ claim_times' = claim_times
  <2>1. investments \in Seq(Investment) /\ len \in Nat
    BY DEF TypeOK
  <2>2. actual \in Nat
    BY InvestTyped
  <2>3. /\ Len(investments') = len + 1 /\ investments'[len + 1] = inv
        /\ \A i \in 1 .. len : investments'[i] = investments[i]
        /\ claim_times' = claim_times
    BY InvestChanges
  <2> QED BY <2>1, <2>2, <2>3
<1>2. /\ financing_confidential_supply' =
           [financing_confidential_supply EXCEPT ![p] = financing_confidential_supply[p] + actual]
      /\ financing_current_supply' =
           [financing_current_supply EXCEPT ![p] = financing_current_supply[p] + actual]
  BY DEF asset_investment
<1>3. /\ inv.asset = p /\ inv.khd_amount = actual /\ ~inv.return_financing_flag
  OBVIOUS
<1> DEFINE more == IF q = p THEN actual ELSE 0
<1> HIDE DEF inv, actual
<1>4. /\ Invested(investments', q)[len + 1] = more
      /\ Returned(investments', q)[len + 1] = 0
      /\ \A i \in 1 .. len : /\ Invested(investments', q)[i] = Invested(investments, q)[i]
                             /\ Returned(investments', q)[i] = Returned(investments, q)[i]
  BY <1>1, <1>3 DEF Invested, Returned
<1>5. more \in Int
  BY <1>1
<1> HIDE DEF more
<1>6. /\ Sum(Invested(investments', q), len + 1) = Sum(Invested(investments, q), len) + more
      /\ Sum(Returned(investments', q), len + 1) = Sum(Returned(investments, q), len) + 0
  <2>1. IntOn(Invested(investments, q), len) /\ IntOn(Returned(investments, q), len)
    BY <1>1, EscrowTerms
  <2>2. Sum(Invested(investments', q), len + 1) =
          Sum(Invested(investments, q), len) + Invested(investments', q)[len + 1]
    BY <1>1, <1>4, <1>5, <2>1, SumExtend
  <2>3. Sum(Returned(investments', q), len + 1) =
          Sum(Returned(investments, q), len) + Returned(investments', q)[len + 1]
    BY <1>1, <1>4, <2>1, SumExtend
  <2> QED BY <1>4, <2>2, <2>3
<1>7. EscrowOf(q) /\ Sum(Returned(investments, q), len) \in Int
  BY <1>1, EscrowTerms
<1>8. CASE q # p
  BY <1>1, <1>2, <1>6, <1>7, <1>8, EscrowTerms DEF EscrowOf, more, TypeOK
<1>9. CASE q = p
  <2>1. claim_times[q] = 0
    <3>1. /\ head <= opts[p].end_financing_block_num /\ claim_times[p] \in 0 .. 3
          /\ head \in Nat /\ opts[p].end_financing_block_num \in Nat
      BY InvestChanges, HeadTyped, OfferingFields
    <3> QED BY <1>9, <3>1 DEF Closed, ClosedOf
  <2>2. /\ financing_confidential_supply[q] \in Nat /\ financing_current_supply[q] \in Nat
        /\ financing_confidential_supply'[q] = financing_confidential_supply[q] + actual
        /\ financing_current_supply'[q] = financing_current_supply[q] + actual
        /\ financing_confidential_supply'[q] \in Nat
    <3>1. /\ financing_confidential_supply \in [Projects -> Nat]
          /\ financing_current_supply \in [Projects -> Nat]
      BY DEF TypeOK
    <3>2. /\ financing_confidential_supply'[q] = financing_confidential_supply[q] + actual
          /\ financing_current_supply'[q] = financing_current_supply[q] + actual
      BY <1>2, <1>9, <3>1
    <3> QED BY <1>1, <3>1, <3>2
  <2>3. /\ Drawn(claim_times[q], financing_confidential_supply[q]) = 0
        /\ Drawn(claim_times[q], financing_confidential_supply'[q]) = 0
    BY <2>1, <2>2, DrawnSteps
  <2>4. /\ financing_confidential_supply[q] = Sum(Invested(investments, q), len)
        /\ financing_current_supply[q] = financing_confidential_supply[q] - 0
                                         - Sum(Returned(investments, q), len)
    BY <1>7, <2>3 DEF EscrowOf
  <2>5. /\ financing_confidential_supply'[q] = Sum(Invested(investments', q), len + 1)
        /\ financing_current_supply'[q] = financing_confidential_supply'[q] - 0
                                         - Sum(Returned(investments', q), len + 1)
    BY <1>1, <1>6, <1>7, <1>9, <2>2, <2>4 DEF more
  <2> QED BY <1>1, <2>3, <2>5 DEF EscrowOf
<1> QED BY <1>8, <1>9

LEMMA RefundEscrow ==
  ASSUME TypeOK, \A p \in Projects : EscrowOf(p),
         NEW a \in Accounts, NEW p \in Projects, refund_investment(a, p), NEW q \in Projects
  PROVE  EscrowOf(q)'
<1> DEFINE len == Len(investments)
           back == [i \in 1 .. len |-> IF Refundable(a, p, investments[i])
                                       THEN investments[i].khd_amount ELSE 0]
           t == Sum(back, len)
<1>1. /\ investments \in Seq(Investment) /\ len \in Nat /\ Len(investments') = len
      /\ Untouched(q)
      /\ \A i \in 1 .. len :
           /\ investments'[i].asset = investments[i].asset
           /\ investments'[i].khd_amount = investments[i].khd_amount
           /\ investments'[i].return_financing_flag =
                (investments[i].return_financing_flag \/ Refundable(a, p, investments[i]))
  <2>1. investments \in Seq(Investment) /\ len \in Nat
    BY DEF TypeOK
  <2> QED BY <2>1, RefundChanges
<1>2. financing_current_supply' =
        [financing_current_supply EXCEPT ![p] = financing_current_supply[p] - t]
  BY DEF refund_investment, Total, khdOf
<1>3. \A i \in 1 .. len : investments[i].khd_amount \in Int
  BY HeadTyped DEF Investment
<1>4. IntOn(back, len)
  BY <1>3 DEF IntOn
<1>5. Sum(Invested(investments', q), len) = Sum(Invested(investments, q), len)
  <2>1. \A i \in 1 .. len : Invested(investments', q)[i] = Invested(investments, q)[i]
    BY <1>1 DEF Invested
  <2> QED BY <1>1, <2>1, EscrowTerms, SumEqual
<1>6. CASE q # p
  <2>1. \A i \in 1 .. len : Returned(investments', q)[i] = Returned(investments, q)[i]
    BY <1>1, <1>6 DEF Returned, Refundable
  <2>2. Sum(Returned(investments', q), len) = Sum(Returned(investments, q), len)
    BY <1>1, <2>1, EscrowTerms, SumEqual
  <2> HIDE DEF back
  <2> QED BY <1>1, <1>2, <1>5, <1>6, <2>2 DEF EscrowOf, Untouched, TypeOK
<1>7. CASE q = p
  <2>1. \A i \in 1 .. len : Returned(investments', q)[i] = Returned(investments, q)[i] + back[i]
    <3> SUFFICES ASSUME NEW i \in 1 .. len
                 PROVE  Returned(investments', q)[i] = Returned(investments, q)[i] + back[i]
      OBVIOUS
    <3>1. /\ Returned(investments', q)[i] =
               IF investments[i].asset = p
                  /\ (investments[i].return_financing_flag \/ Refundable(a, p, investments[i]))
               THEN investments[i].khd_amount ELSE 0
          /\ Returned(investments, q)[i] =
               IF investments[i].asset = p /\ investments[i].return_financing_flag
               THEN investments[i].khd_amount ELSE 0
      BY <1>1, <1>7 DEF Returned
    <3> QED BY <1>3, <3>1 DEF Refundable
  <2> HIDE DEF back
  <2>2. Sum(Returned(investments', q), len) = Sum(Returned(investments, q), len) + t
    BY <1>1, <1>4, <2>1, EscrowTerms, SumAdd
  <2>3. t \in Int /\ Sum(Returned(investments, q), len) \in Int
    BY <1>1, <1>4, SumRecurrence, EscrowTerms
  <2>4. /\ financing_current_supply'[q] = financing_current_supply[q] - t
        /\ financing_current_supply[q] \in Nat /\ financing_confidential_supply[q] \in Nat
        /\ claim_times[q] \in 0 .. 3
    BY <1>2, <1>7 DEF TypeOK
  <2>5. Drawn(claim_times[q], financing_confidential_supply[q]) \in Nat
    BY <2>4, DrawnSteps
  <2>6. /\ financing_confidential_supply'[q] = financing_confidential_supply[q]
        /\ claim_times'[q] = claim_times[q] /\ EscrowOf(q)
    BY <1>1 DEF Untouched
  <2>7. financing_current_supply'[q] =
          financing_confidential_supply[q]
          - Drawn(claim_times[q], financing_confidential_supply[q])
          - Sum(Returned(investments', q), len)
    <3> HIDE DEF t
    <3> QED BY <2>2, <2>3, <2>4, <2>5, <2>6 DEF EscrowOf
  <2> QED BY <1>1, <1>5, <2>6, <2>7 DEF EscrowOf
<1> QED BY <1>6, <1>7

LEMMA ClaimEscrow ==
  ASSUME TypeOK, \A p \in Projects : EscrowOf(p),
         NEW a \in Accounts, NEW p \in Projects, claim_bitasset_investment(a, p),
         NEW q \in Projects
  PROVE  EscrowOf(q)'
<1> DEFINE c == claim_times[p]
           raised == financing_confidential_supply[p]
           t == Instalment(c, raised)
<1>1. /\ financing_current_supply' =
           [financing_current_supply EXCEPT ![p] = financing_current_supply[p] - t]
      /\ claim_times' = [claim_times EXCEPT ![p] = c + 1] /\ c < 3
      /\ financing_confidential_supply' = financing_confidential_supply
      /\ investments' = investments
  BY DEF claim_bitasset_investment
<1>2. c \in 0 .. 3 /\ raised \in Nat /\ financing_current_supply[p] \in Nat
  BY DEF TypeOK
<1>3. t \in Nat /\ Drawn(c, raised) \in Nat /\ Drawn(c + 1, raised) = Drawn(c, raised) + t
  BY <1>1, <1>2, InstalmentNat, DrawnSteps
<1> HIDE DEF t
<1>4. CASE q # p
  BY <1>1, <1>4 DEF EscrowOf, TypeOK
<1>5. CASE q = p
  <2>1. Sum(Returned(investments, q), Len(investments)) \in Int
    BY EscrowTerms DEF TypeOK
  <2>2. financing_current_supply'[q] = financing_current_supply[q] - t /\ claim_times'[q] = c + 1
    BY <1>1, <1>5 DEF TypeOK
  <2>3. financing_current_supply[q] = raised - Drawn(c, raised)
                                      - Sum(Returned(investments, q), Len(investments))
    BY <1>5 DEF EscrowOf
  <2>4. financing_current_supply'[q] = raised - Drawn(c + 1, raised)
                                      - Sum(Returned(investments, q), Len(investments))
    BY <1>2, <1>3, <2>1, <2>2, <2>3
  <2>5. raised = Sum(Invested(investments, q), Len(investments))
    BY <1>5 DEF EscrowOf
  <2> QED BY <1>1, <1>5, <2>2, <2>4, <2>5 DEF EscrowOf
<1> QED BY <1>4, <1>5

LEMMA EscrowStep ==
  ASSUME TypeOK, Lifecycle, Closed, EscrowLedger, [Next]_vars
  PROVE  EscrowLedger'
<1> SUFFICES ASSUME NEW q \in Projects PROVE EscrowOf(q)'
  BY EscrowIsOf
<1>0. \A p \in Projects : EscrowOf(p)
  BY EscrowIsOf
<1>1. ASSUME SameInvestments, UNCHANGED escrowVars PROVE EscrowOf(q)'
  BY <1>0, <1>1, EscrowUntouched DEF escrowVars
<1>2. CASE UNCHANGED vars
  BY <1>1, <1>2 DEF vars, SameInvestments, escrowVars
<1>3. ASSUME NEW p \in Projects, issue_asset_to_investors(p) PROVE EscrowOf(q)'
  <2>1. PICK a \in Accounts : TRUE
    BY ConstantsTyped DEF Accounts
  <2> QED BY <1>1, <1>3, QuietSteps
<1>4. ASSUME NEW m \in BOOLEAN, NextBlock(m) PROVE EscrowOf(q)'
  <2>1. investments' = investments /\ UNCHANGED escrowVars
    BY <1>4, BlockChanges DEF balanceVars
  <2> QED BY <1>1, <2>1 DEF SameInvestments
<1>5. ASSUME NEW a \in Accounts, NEW p \in Projects,
             \/ claim_asset_investment(a, p)
             \/ \E n \in TokenAmounts : asset_issue(a, p, n) \/ asset_reserve(a, p, n)
             \/ asset_update_issuer(p, a)
             \/ account_whitelist(a, p)
             \/ \E u \in Updates : asset_update(p, u)
      PROVE  EscrowOf(q)'
  BY <1>1, <1>5, QuietSteps
<1>6. ASSUME NEW a \in Accounts, NEW p \in Projects, NEW o \in Offerings, asset_create(a, p, o)
      PROVE  EscrowOf(q)'
  <2>1. investments' = investments /\ UNCHANGED escrowVars
    BY <1>6 DEF asset_create, balanceVars
  <2> QED BY <1>1, <2>1 DEF SameInvestments
<1>7. ASSUME NEW a \in Accounts, NEW p \in Projects,
             \/ \E n \in Amounts : asset_investment(a, p, n)
             \/ refund_investment(a, p)
             \/ claim_bitasset_investment(a, p)
      PROVE  EscrowOf(q)'
  BY <1>0, <1>7, InvestEscrow, RefundEscrow, ClaimEscrow
<1>8. CASE Operation
  BY <1>5, <1>6, <1>7, <1>8 DEF Operation
<1> QED BY <1>2, <1>3, <1>4, <1>8 DEF Next

LEMMA EscrowInit ==
  ASSUME Init
  PROVE  EscrowLedger
<1> SUFFICES ASSUME NEW p \in Projects PROVE EscrowOf(p)
  BY EscrowIsOf
<1>1. /\ investments = <<>> /\ Len(investments) = 0 /\ claim_times[p] = 0
      /\ financing_confidential_supply[p] = 0 /\ financing_current_supply[p] = 0
  BY DEF Init
<1>2. Sum(Invested(investments, p), 0) = 0 /\ Sum(Returned(investments, p), 0) = 0
  BY SumOfNone
<1>3. Drawn(0, 0) = 0
  BY DrawnSteps
<1> QED BY <1>1, <1>2, <1>3 DEF EscrowOf

(* Every KHD that was invested is in the escrow, with the issuer or back   *)
(* with an investor, and each instalment of claim_bitasset_investment is a *)
(* part of the same sum, when offerings have their blocks in the wallet's  *)
(* order.                                                                  *)
THEOREM EscrowLedgerHolds ==
  ASSUME WalletOrder
  PROVE  Spec => []EscrowLedger
<1>1. Init => EscrowLedger
  BY EscrowInit
<1>2. ASSUME TypeOK, Lifecycle, Closed, EscrowLedger, [Next]_vars PROVE EscrowLedger'
  BY <1>2, EscrowStep
<1> QED BY <1>1, <1>2, TypeCorrect, LifecycleKept, ClosedKept, PTL DEF Spec

LEMMA RaisedStep ==
  ASSUME TypeOK, TypeOK', Lifecycle, Closed, EscrowLedger, RaisedWithinMaximum, [Next]_vars
  PROVE  RaisedWithinMaximum'
<1> SUFFICES ASSUME NEW q \in created'
             PROVE  financing_confidential_supply'[q] <= opts'[q].max_financing_amount
  BY DEF RaisedWithinMaximum
<1>0. q \in Projects /\ EscrowOf(q) /\ LifecycleOf(q)
  BY EscrowIsOf DEF TypeOK, Lifecycle
<1>1. ASSUME Untouched(q)
      PROVE  financing_confidential_supply'[q] <= opts'[q].max_financing_amount
  BY <1>1 DEF RaisedWithinMaximum, Untouched
<1>2. CASE UNCHANGED vars
  BY <1>1, <1>2 DEF vars, Untouched
<1>3. ASSUME NEW p \in Projects, issue_asset_to_investors(p) PROVE Untouched(q)
  <2>1. PICK a \in Accounts : TRUE
    BY ConstantsTyped DEF Accounts
  <2> QED BY <1>0, <1>3, QuietSteps
<1>4. ASSUME NEW m \in BOOLEAN, NextBlock(m)
      PROVE  financing_confidential_supply'[q] <= opts'[q].max_financing_amount
  BY <1>4, BlockChanges DEF RaisedWithinMaximum, escrowVars
<1>5. ASSUME NEW a \in Accounts, NEW p \in Projects,
             \/ claim_asset_investment(a, p)
             \/ \E n \in TokenAmounts : asset_issue(a, p, n) \/ asset_reserve(a, p, n)
             \/ asset_update_issuer(p, a)
             \/ account_whitelist(a, p)
             \/ \E u \in Updates : asset_update(p, u)
      PROVE  Untouched(q)
  BY <1>0, <1>5, QuietSteps
<1>6. ASSUME NEW a \in Accounts, NEW p \in Projects, NEW o \in Offerings, asset_create(a, p, o)
      PROVE  financing_confidential_supply'[q] <= opts'[q].max_financing_amount
  <2>1. CASE q \in created
    <3>1. opts'[q] = opts[q] /\ financing_confidential_supply' = financing_confidential_supply
      BY <1>0, <1>6, <2>1 DEF asset_create, TypeOK, escrowVars
    <3> QED BY <2>1, <3>1 DEF RaisedWithinMaximum
  <2>2. CASE q \notin created
    <3>1. financing_confidential_supply'[q] = 0
      BY <1>0, <1>6, <2>2 DEF LifecycleOf, asset_create, escrowVars
    <3>2. opts'[q].max_financing_amount \in Nat
      <4>1. opts'[q] \in Offering
        BY <1>0 DEF TypeOK
      <4> QED BY <4>1, OfferingFields
    <3> QED BY <3>1, <3>2
  <2> QED BY <2>1, <2>2
<1>7. ASSUME NEW a \in Accounts, NEW p \in Projects, NEW n \in Amounts, asset_investment(a, p, n)
      PROVE  financing_confidential_supply'[q] <= opts'[q].max_financing_amount
  <2>1. CASE q # p
    BY <1>0, <1>1, <1>7, <2>1, InvestChanges
  <2>2. CASE q = p
    <3> DEFINE len == Len(investments)
               raised == financing_confidential_supply[q]
    <3>1. /\ head <= opts[q].end_financing_block_num /\ claim_times[q] \in 0 .. 3
          /\ head \in Nat /\ opts[q].end_financing_block_num \in Nat
          /\ raised \in Nat /\ len \in Nat /\ opts[q].max_financing_amount \in Nat
          /\ financing_current_supply[q] \in Nat /\ n \in Nat
      BY <1>7, <2>2, InvestChanges, HeadTyped, OfferingFields, AmountsAssumption
    <3>2. claim_times[q] = 0 /\ \A i \in 1 .. len : Returned(investments, q)[i] = 0
      BY <1>0, <3>1 DEF Closed, ClosedOf, Returned
    <3>3. Sum(Returned(investments, q), len) = 0 /\ Drawn(0, raised) = 0
      BY <3>1, <3>2, SumOfNone, DrawnSteps
    <3>4. financing_current_supply[q] = raised
      BY <1>0, <3>1, <3>2, <3>3 DEF EscrowOf
    <3>5. financing_confidential_supply'[q] = raised + ActualInvestment(q, n)
      BY <1>0, <1>7, <2>2 DEF asset_investment, TypeOK
    <3>6. ActualInvestment(q, n) \in Int
          /\ ActualInvestment(q, n) <= opts[q].max_financing_amount - raised
      BY <3>1, <3>4 DEF ActualInvestment, AdvanceEnd, Room
    <3>7. opts'[q].max_financing_amount = opts[q].max_financing_amount
      BY <1>7, <2>2, InvestChanges
    <3> QED BY <3>1, <3>5, <3>6, <3>7
  <2> QED BY <2>1, <2>2
<1>8. ASSUME NEW a \in Accounts, NEW p \in Projects,
             refund_investment(a, p) \/ claim_bitasset_investment(a, p)
      PROVE  financing_confidential_supply'[q] <= opts'[q].max_financing_amount
  BY <1>8 DEF refund_investment, claim_bitasset_investment, RaisedWithinMaximum
<1>9. CASE Operation
  BY <1>1, <1>5, <1>6, <1>7, <1>8, <1>9 DEF Operation
<1> QED BY <1>1, <1>2, <1>3, <1>4, <1>9 DEF Next

(* The evaluator compares an investment with max_financing_amount less     *)
(* financing_current_supply, a figure that claims and refunds lower; the   *)
(* sum raised stays within the maximum all the same, when offerings have   *)
(* their blocks in the wallet's order.                                     *)
THEOREM RaisedWithinMaximumHolds ==
  ASSUME WalletOrder
  PROVE  Spec => []RaisedWithinMaximum
<1>1. Init => RaisedWithinMaximum
  BY DEF Init, RaisedWithinMaximum
<1>2. ASSUME TypeOK, TypeOK', Lifecycle, Closed, EscrowLedger, RaisedWithinMaximum, [Next]_vars
      PROVE  RaisedWithinMaximum'
  BY <1>2, RaisedStep
<1> QED BY <1>1, <1>2, TypeCorrect, LifecycleKept, ClosedKept, EscrowLedgerHolds, PTL DEF Spec

-----------------------------------------------------------------------------
(* The sums of TokenLedger: the tokens the investors in p may still claim, *)
(* in the objects s, and those the accounts hold                           *)
Unclaimed(s, p) ==
  [i \in 1 .. Len(s) |-> IF s[i].asset = p /\ ~s[i].has_receive_token THEN s[i].tokens ELSE 0]

Held(t, p) == [a \in Accounts |-> t[a][p]]

TokensOf(p) ==
  /\ investment_current_supply[p] = Sum(Unclaimed(investments, p), Len(investments))
  /\ current_supply[p] = investment_current_supply[p] + Sum(Held(token, p), NumAccounts)

LEMMA TokenLedgerIsOf ==
  /\ TokenLedger <=> \A p \in Projects : TokensOf(p)
  /\ TokenLedger' <=> \A p \in Projects : TokensOf(p)'
BY DEF TokenLedger, TokensOf, Total, Unclaimed, Held, tokensOf

LEMMA TokenTerms ==
  ASSUME TypeOK, NEW p \in Projects
  PROVE  /\ NumAccounts \in Nat /\ Len(investments) \in Nat
         /\ IntOn(Unclaimed(investments, p), Len(investments))
         /\ \A i \in 1 .. Len(investments) : investments[i].tokens \in Nat
         /\ IntOn(Held(token, p), NumAccounts)
         /\ \A a \in 1 .. NumAccounts : Held(token, p)[a] \in Nat
         /\ Sum(Unclaimed(investments, p), Len(investments)) \in Nat
         /\ Sum(Held(token, p), NumAccounts) \in Nat
         /\ current_supply[p] \in Nat /\ investment_current_supply[p] \in Nat
<1>1. NumAccounts \in Nat /\ Len(investments) \in Nat
  BY ConstantsTyped, HeadTyped
<1>2. \A i \in 1 .. Len(investments) : investments[i].tokens \in Nat
  BY HeadTyped DEF Investment
<1>3. \A i \in 1 .. Len(investments) : Unclaimed(investments, p)[i] \in Nat
  BY <1>2 DEF Unclaimed
<1>4. \A a \in 1 .. NumAccounts : Held(token, p)[a] \in Nat
  <2>1. \A a \in Accounts : token[a][p] \in Nat
    BY DEF TypeOK
  <2> QED BY <2>1 DEF Held, Accounts
<1>5. IntOn(Unclaimed(investments, p), Len(investments)) /\ IntOn(Held(token, p), NumAccounts)
  BY <1>3, <1>4 DEF IntOn
<1>6. /\ Sum(Unclaimed(investments, p), Len(investments)) \in Nat
      /\ Sum(Held(token, p), NumAccounts) \in Nat
  BY <1>1, <1>3, <1>4, SumOfNaturals
<1>7. current_supply[p] \in Nat /\ investment_current_supply[p] \in Nat
  BY DEF TypeOK
<1> QED BY <1>1, <1>2, <1>4, <1>5, <1>6, <1>7

(* A change of one account's balance changes the sum by as much; the other *)
(* projects' balances stay.                                                *)
LEMMA HeldUpdate ==
  ASSUME TypeOK, NEW a \in Accounts, NEW p \in Projects, NEW x \in Int, NEW q \in Projects,
         token' = [token EXCEPT ![a][p] = token[a][p] + x]
  PROVE  /\ q # p => Held(token', q) = Held(token, q)
         /\ Sum(Held(token', p), NumAccounts) = Sum(Held(token, p), NumAccounts) + x
<1>1. ASSUME q # p PROVE Held(token', q) = Held(token, q)
  BY <1>1 DEF Held, TypeOK
<1>2. /\ a \in 1 .. NumAccounts /\ token[a][p] \in Nat
      /\ Held(token', p)[a] = token[a][p] + x /\ Held(token, p)[a] = token[a][p]
      /\ \A i \in 1 .. NumAccounts : i # a => Held(token', p)[i] = Held(token, p)[i]
  <2>1. token[a][p] \in Nat
    BY DEF TypeOK
  <2>2. token'[a][p] = token[a][p] + x /\ \A b \in Accounts : b # a => token'[b] = token[b]
    BY DEF TypeOK
  <2> QED BY <2>1, <2>2 DEF Held, Accounts
<1>3. Held(token', p)[a] \in Int
  BY <1>2
<1>4. /\ NumAccounts \in Nat /\ IntOn(Held(token, p), NumAccounts)
      /\ Sum(Held(token, p), NumAccounts) \in Nat
  BY TokenTerms
<1>5. Sum(Held(token', p), NumAccounts) =
        Sum(Held(token, p), NumAccounts) + Held(token', p)[a] - Held(token, p)[a]
  BY <1>2, <1>3, <1>4, SumUpdate, Zenon
<1>6. Sum(Held(token', p), NumAccounts) = Sum(Held(token, p), NumAccounts) + x
  BY <1>2, <1>4, <1>5
<1> QED BY <1>1, <1>6

(* A step after which the objects of p record the same tokens, its         *)
(* counters are the same and so are the balances in it                     *)
LEMMA TokensUntouched ==
  ASSUME TypeOK, NEW p \in Projects, TokensOf(p),
         Len(investments') = Len(investments),
         \A i \in 1 .. Len(investments) :
           Unclaimed(investments', p)[i] = Unclaimed(investments, p)[i],
         current_supply'[p] = current_supply[p],
         investment_current_supply'[p] = investment_current_supply[p],
         Held(token', p) = Held(token, p)
  PROVE  TokensOf(p)'
<1>1. Sum(Unclaimed(investments', p), Len(investments)) =
        Sum(Unclaimed(investments, p), Len(investments))
  BY TokenTerms, SumEqual
<1> QED BY <1>1 DEF TokensOf

LEMMA InvestTokens ==
  ASSUME TypeOK, NEW a \in Accounts, NEW p \in Projects, NEW n \in Amounts,
         asset_investment(a, p, n), NEW q \in Projects, TokensOf(q)
  PROVE  TokensOf(q)'
<1> DEFINE len == Len(investments)
<1>1. /\ Len(investments') = len + 1
      /\ \A i \in 1 .. len : investments'[i] = investments[i]
      /\ investments'[len + 1] =
           [account |-> a, asset |-> p, khd_amount |-> ActualInvestment(p, n), tokens |-> 0,
            has_receive_token |-> FALSE, return_financing_flag |-> FALSE]
  BY InvestChanges
<1>2. /\ len \in Nat /\ IntOn(Unclaimed(investments, q), len)
      /\ Sum(Unclaimed(investments, q), len) \in Nat
  BY TokenTerms
<1>3. investments'[len + 1].tokens = 0
  BY <1>1
<1>4. /\ Unclaimed(investments', q)[len + 1] = 0
      /\ \A i \in 1 .. len : Unclaimed(investments', q)[i] = Unclaimed(investments, q)[i]
  BY <1>1, <1>2, <1>3 DEF Unclaimed
<1>5. Sum(Unclaimed(investments', q), len + 1) =
        Sum(Unclaimed(investments, q), len) + Unclaimed(investments', q)[len + 1]
  BY <1>2, <1>4, SumExtend
<1>6. Sum(Unclaimed(investments', q), len + 1) = Sum(Unclaimed(investments, q), len)
  BY <1>2, <1>4, <1>5
<1>7. UNCHANGED <<token, current_supply, investment_current_supply>>
  BY DEF asset_investment, supplyVars
<1> QED BY <1>1, <1>6, <1>7 DEF TokensOf

LEMMA RefundTokens ==
  ASSUME TypeOK, NEW a \in Accounts, NEW p \in Projects, refund_investment(a, p),
         NEW q \in Projects, TokensOf(q)
  PROVE  TokensOf(q)'
<1>0. /\ Len(investments) \in Nat /\ DOMAIN investments = 1 .. Len(investments)
      /\ \A i \in 1 .. Len(investments) : investments[i] \in Investment
  BY HeadTyped
<1>1. /\ investments' = [i \in 1 .. Len(investments) |->
           IF Refundable(a, p, investments[i])
           THEN [investments[i] EXCEPT !.return_financing_flag = TRUE]
           ELSE investments[i]]
      /\ UNCHANGED <<token, current_supply, investment_current_supply>>
  BY <1>0 DEF refund_investment, supplyVars
<1>2. ASSUME NEW inv \in Investment
      PROVE  LET new == [inv EXCEPT !.return_financing_flag = TRUE]
             IN  /\ new.asset = inv.asset /\ new.tokens = inv.tokens
                 /\ new.has_receive_token = inv.has_receive_token
  BY DEF Investment
<1>3. ASSUME NEW i \in 1 .. Len(investments)
      PROVE  /\ investments'[i].asset = investments[i].asset
             /\ investments'[i].tokens = investments[i].tokens
             /\ investments'[i].has_receive_token = investments[i].has_receive_token
  BY <1>0, <1>1, <1>2
<1>4. Len(investments') = Len(investments)
  BY RefundChanges
<1>5. \A i \in 1 .. Len(investments) :
        Unclaimed(investments', q)[i] = Unclaimed(investments, q)[i]
  BY <1>3, <1>4 DEF Unclaimed
<1> QED BY <1>1, <1>4, <1>5, TokensUntouched

LEMMA SupplyTokens ==
  ASSUME TypeOK, NEW a \in Accounts, NEW p \in Projects, NEW n \in TokenAmounts,
         asset_issue(a, p, n) \/ asset_reserve(a, p, n), NEW q \in Projects, TokensOf(q)
  PROVE  TokensOf(q)'
<1>1. /\ n \in Nat /\ current_supply[p] \in Nat /\ token[a][p] \in Nat
  BY AmountsAssumption DEF TypeOK
<1>2. PICK x \in Int : /\ current_supply' = [current_supply EXCEPT ![p] = current_supply[p] + x]
                       /\ token' = [token EXCEPT ![a][p] = token[a][p] + x]
  <2>1. CASE asset_issue(a, p, n)
    <3>1. /\ current_supply' = [current_supply EXCEPT ![p] = current_supply[p] + n]
          /\ token' = [token EXCEPT ![a][p] = token[a][p] + n]
      BY <2>1 DEF asset_issue
    <3>2. n \in Int
      BY <1>1
    <3> QED BY <3>1, <3>2
  <2>2. CASE asset_reserve(a, p, n)
    <3>1. /\ current_supply' = [current_supply EXCEPT ![p] = current_supply[p] - n]
          /\ token' = [token EXCEPT ![a][p] = token[a][p] - n]
      BY <2>2 DEF asset_reserve
    <3> DEFINE x == -n
    <3>2. x \in Int /\ current_supply[p] - n = current_supply[p] + x /\ token[a][p] - n = token[a][p] + x
      BY <1>1
    <3> HIDE DEF x
    <3> QED BY <3>1, <3>2
  <2> QED BY <2>1, <2>2
<1>3. UNCHANGED <<investments, investment_current_supply>>
  BY DEF asset_issue, asset_reserve
<1>4. CASE q # p
  <2>1. Held(token', q) = Held(token, q)
    BY <1>2, <1>4, HeldUpdate
  <2>2. current_supply'[q] = current_supply[q]
    BY <1>2, <1>4 DEF TypeOK
  <2> QED BY <1>3, <2>1, <2>2 DEF TokensOf
<1>5. CASE q = p
  <2>1. Sum(Held(token', q), NumAccounts) = Sum(Held(token, q), NumAccounts) + x
    BY <1>2, <1>5, HeldUpdate
  <2>2. current_supply'[q] = current_supply[q] + x
    BY <1>2, <1>5 DEF TypeOK
  <2>3. Sum(Held(token, q), NumAccounts) \in Nat /\ investment_current_supply[q] \in Nat
    BY TokenTerms
  <2> QED BY <1>1, <1>3, <2>1, <2>2, <2>3 DEF TokensOf
<1> QED BY <1>4, <1>5

(* Nobody holds or may claim a token when the issue is made, so that the   *)
(* shares are then all there is, even after a first issue was burnt.       *)
LEMMA IssueTokens ==
  ASSUME TypeOK, NEW p \in Projects, issue_asset_to_investors(p), NEW q \in Projects, TokensOf(q)
  PROVE  TokensOf(q)'
<1> DEFINE len == Len(investments)
<1>0. /\ len \in Nat /\ DOMAIN investments = 1 .. len
      /\ \A i \in 1 .. len : investments[i] \in Investment
  BY HeadTyped
<1>1. PICK t \in Nat : \E share :
           /\ Sum([i \in 1 .. Len(investments) |->
                     IF investments[i].asset = p THEN share[i] ELSE 0], Len(investments)) = t
           /\ \A i \in 1 .. Len(investments) : investments[i].asset = p => share[i] \in Nat
           /\ current_supply' = [current_supply EXCEPT ![p] = @ + t]
           /\ investment_confidential_supply' = [investment_confidential_supply EXCEPT ![p] = t]
           /\ investment_current_supply' = [investment_current_supply EXCEPT ![p] = t]
           /\ investments' = [i \in 1 .. Len(investments) |->
                IF investments[i].asset # p THEN investments[i]
                ELSE [investments[i] EXCEPT !.has_receive_token = FALSE, !.tokens = share[i]]]
  BY IssueAmounts
<1>2. PICK share :
           /\ Sum([i \in 1 .. len |-> IF investments[i].asset = p THEN share[i] ELSE 0], len) = t
           /\ \A i \in 1 .. len : investments[i].asset = p => share[i] \in Nat
           /\ investments' = [i \in 1 .. len |->
                IF investments[i].asset # p THEN investments[i]
                ELSE [investments[i] EXCEPT !.has_receive_token = FALSE, !.tokens = share[i]]]
  BY <1>1
<1>3. Len(investments') = len
  <2>1. PICK a \in Accounts : TRUE
    BY ConstantsTyped DEF Accounts
  <2> QED BY QuietSteps DEF SameInvestments
<1>4. UNCHANGED token
  BY DEF issue_asset_to_investors
<1>5. CASE q # p
  <2>1. ASSUME NEW i \in 1 .. len
        PROVE  Unclaimed(investments', q)[i] = Unclaimed(investments, q)[i]
    <3>1. CASE investments[i].asset # p
      <4>1. investments'[i] = investments[i]
        BY <1>2, <3>1
      <4> QED BY <1>3, <4>1 DEF Unclaimed
    <3>2. CASE investments[i].asset = p
      <4>1. investments'[i] =
              [investments[i] EXCEPT !.has_receive_token = FALSE, !.tokens = share[i]]
        BY <1>2, <3>2
      <4>2. investments'[i].asset = p
        BY <1>0, <3>2, <4>1 DEF Investment
      <4> QED BY <1>3, <1>5, <3>2, <4>2 DEF Unclaimed
    <3> QED BY <3>1, <3>2
  <2>2. /\ current_supply'[q] = current_supply[q]
        /\ investment_current_supply'[q] = investment_current_supply[q]
    BY <1>1, <1>5 DEF TypeOK
  <2> QED BY <1>3, <1>4, <2>1, <2>2, TokensUntouched
<1>6. CASE q = p
  <2> DEFINE g == [i \in 1 .. len |-> IF investments[i].asset = p THEN share[i] ELSE 0]
  <2>1. current_supply[q] = 0
    BY <1>6 DEF issue_asset_to_investors
  <2>2. Sum(Held(token, q), NumAccounts) = 0
    <3>1. /\ Sum(Held(token, q), NumAccounts) \in Nat /\ investment_current_supply[q] \in Nat
      BY TokenTerms
    <3> QED BY <2>1, <3>1 DEF TokensOf
  <2>3. current_supply'[q] = t /\ investment_current_supply'[q] = t
    <3>1. /\ current_supply' = [current_supply EXCEPT ![p] = current_supply[p] + t]
          /\ investment_current_supply' = [investment_current_supply EXCEPT ![p] = t]
      BY <1>1
    <3> QED BY <1>6, <2>1, <3>1 DEF TypeOK
  <2>4. ASSUME NEW i \in 1 .. len PROVE Unclaimed(investments', q)[i] = g[i]
    <3>1. CASE investments[i].asset # p
      <4>1. investments'[i] = investments[i]
        BY <1>2, <3>1
      <4> QED BY <1>3, <1>6, <3>1, <4>1 DEF Unclaimed
    <3>2. CASE investments[i].asset = p
      <4>1. investments'[i] =
              [investments[i] EXCEPT !.has_receive_token = FALSE, !.tokens = share[i]]
        BY <1>2, <3>2
      <4>2. /\ investments'[i].asset = p /\ ~investments'[i].has_receive_token
            /\ investments'[i].tokens = share[i]
        BY <1>0, <3>2, <4>1 DEF Investment
      <4> QED BY <1>3, <1>6, <3>2, <4>2 DEF Unclaimed
    <3> QED BY <3>1, <3>2
  <2>5. IntOn(g, len) /\ Sum(g, len) = t
    <3>0. \A i \in 1 .. len : investments[i].asset = p => share[i] \in Nat
      BY <1>2
    <3>1. IntOn(g, len)
      BY <3>0 DEF IntOn
    <3>2. Sum(g, len) = t
      BY <1>2
    <3> QED BY <3>1, <3>2
  <2> HIDE DEF g
  <2>6. Sum(Unclaimed(investments', q), len) = t
    BY <1>0, <2>4, <2>5, SumEqual
  <2> QED BY <1>3, <1>4, <2>2, <2>3, <2>6 DEF TokensOf
<1> QED BY <1>5, <1>6

LEMMA ClaimTokens ==
  ASSUME TypeOK, NEW a \in Accounts, NEW p \in Projects, claim_asset_investment(a, p),
         NEW q \in Projects, TokensOf(q)
  PROVE  TokensOf(q)'
<1> DEFINE len == Len(investments)
           mine(i) == investments[i].account = a /\ investments[i].asset = p
           f == [i \in 1 .. len |-> IF mine(i) THEN investments[i].tokens ELSE 0]
           t == Sum(f, len)
<1>0. /\ len \in Nat /\ DOMAIN investments = 1 .. len
      /\ \A i \in 1 .. len : investments[i] \in Investment
  BY HeadTyped
<1>1. /\ investment_current_supply' =
           [investment_current_supply EXCEPT ![p] = investment_current_supply[p] - t]
      /\ token' = [token EXCEPT ![a][p] = token[a][p] + t]
      /\ UNCHANGED current_supply
  BY DEF claim_asset_investment, Total, tokensOf
<1>2. /\ investments' = [i \in 1 .. len |-> IF mine(i)
                        THEN [investments[i] EXCEPT !.has_receive_token = TRUE]
                        ELSE investments[i]]
      /\ \A i \in 1 .. len : mine(i) => ~investments[i].has_receive_token
  BY <1>0 DEF claim_asset_investment
<1>3. Len(investments') = len
  BY QuietSteps DEF SameInvestments
<1>4. IntOn(f, len)
  <2>1. \A i \in 1 .. len : investments[i].tokens \in Nat
    BY TokenTerms
  <2> QED BY <2>1 DEF IntOn
<1>5. t \in Int
  <2> HIDE DEF f
  <2> QED BY <1>0, <1>4, SumRecurrence
<1>6. ASSUME NEW i \in 1 .. len
      PROVE  /\ investments'[i].asset = investments[i].asset
             /\ investments'[i].tokens = investments[i].tokens
             /\ mine(i) => investments'[i].has_receive_token
             /\ ~mine(i) => investments'[i] = investments[i]
  <2>1. CASE mine(i)
    <3>1. investments'[i] = [investments[i] EXCEPT !.has_receive_token = TRUE]
      BY <1>2, <2>1
    <3>2. investments[i] \in Investment
      BY <1>0
    <3> QED BY <2>1, <3>1, <3>2 DEF Investment
  <2>2. CASE ~mine(i)
    BY <1>2, <2>2
  <2> QED BY <2>1, <2>2
<1>7. CASE q # p
  <2>1. \A i \in 1 .. len : Unclaimed(investments', q)[i] = Unclaimed(investments, q)[i]
    BY <1>3, <1>6, <1>7 DEF Unclaimed
  <2> HIDE DEF t
  <2>2. investment_current_supply'[q] = investment_current_supply[q]
    BY <1>1, <1>7 DEF TypeOK
  <2>3. Held(token', q) = Held(token, q)
    BY <1>1, <1>5, <1>7, HeldUpdate
  <2> QED BY <1>1, <1>3, <2>1, <2>2, <2>3, TokensUntouched
<1>8. CASE q = p
  <2> DEFINE left == Unclaimed(investments', q)
  <2>1. ASSUME NEW i \in 1 .. len
        PROVE  Unclaimed(investments, q)[i] = left[i] + f[i] /\ left[i] \in Int
    <3>0. investments[i].tokens \in Nat
      BY TokenTerms
    <3>1. CASE mine(i)
      <4>1. /\ investments'[i].has_receive_token /\ ~investments[i].has_receive_token
            /\ investments[i].asset = q
        BY <1>2, <1>6, <1>8, <3>1
      <4>2. left[i] = 0 /\ Unclaimed(investments, q)[i] = investments[i].tokens
        BY <1>3, <4>1 DEF Unclaimed
      <4> QED BY <3>0, <3>1, <4>2
    <3>2. CASE ~mine(i)
      <4>1. investments'[i] = investments[i] /\ f[i] = 0
        BY <1>6, <3>2
      <4>2. left[i] = Unclaimed(investments, q)[i] /\ left[i] \in Int
        BY <1>3, <3>0, <4>1 DEF Unclaimed
      <4> QED BY <4>1, <4>2
    <3> QED BY <3>1, <3>2
  <2>2. IntOn(left, len)
    BY <2>1 DEF IntOn
  <2> HIDE DEF f, left
  <2>3. Sum(Unclaimed(investments, q), len) = Sum(left, len) + t /\ Sum(left, len) \in Int
    BY <1>0, <1>4, <2>1, <2>2, SumAdd, SumRecurrence
  <2> HIDE DEF t
  <2>4. Sum(Held(token', q), NumAccounts) = Sum(Held(token, q), NumAccounts) + t
    BY <1>1, <1>5, <1>8, HeldUpdate
  <2>5. investment_current_supply'[q] = investment_current_supply[q] - t
    BY <1>1, <1>8 DEF TypeOK
  <2>6. Sum(Held(token, q), NumAccounts) \in Nat /\ investment_current_supply[q] \in Nat
    BY TokenTerms
  <2>7. investment_current_supply'[q] = Sum(left, len)
    BY <1>5, <2>3, <2>5, <2>6 DEF TokensOf
  <2>8. current_supply'[q] = investment_current_supply'[q] + Sum(Held(token', q), NumAccounts)
    BY <1>1, <1>5, <2>4, <2>5, <2>6 DEF TokensOf
  <2> QED BY <1>3, <2>7, <2>8 DEF TokensOf, left
<1> QED BY <1>7, <1>8

(* Whatever the order of issues, claims, burns and second issues: the      *)
(* tokens in existence are those held and those still to be claimed, and   *)
(* the investors' claims add up to investment_current_supply.              *)
THEOREM TokenLedgerHolds == Spec => []TokenLedger
<1>1. ASSUME Init PROVE TokenLedger
  <2> SUFFICES ASSUME NEW p \in Projects PROVE TokensOf(p)
    BY TokenLedgerIsOf
  <2>1. /\ investments = <<>> /\ Len(investments) = 0 /\ current_supply[p] = 0
        /\ investment_current_supply[p] = 0 /\ NumAccounts \in Nat
        /\ \A a \in 1 .. NumAccounts : Held(token, p)[a] = 0
    BY <1>1, ConstantsTyped DEF Init, Held, Accounts
  <2>2. Sum(Unclaimed(investments, p), 0) = 0 /\ Sum(Held(token, p), NumAccounts) = 0
    BY <2>1, SumOfNone
  <2> QED BY <2>1, <2>2 DEF TokensOf
<1>2. ASSUME TypeOK, TokenLedger, [Next]_vars PROVE TokenLedger'
  <2> SUFFICES ASSUME NEW q \in Projects PROVE TokensOf(q)'
    BY TokenLedgerIsOf
  <2>0. TokensOf(q)
    BY <1>2, TokenLedgerIsOf
  <2>1. ASSUME UNCHANGED <<investments, token, current_supply, investment_current_supply>>
        PROVE  TokensOf(q)'
    BY <2>0, <2>1 DEF TokensOf
  <2>2. CASE UNCHANGED vars
    BY <2>1, <2>2 DEF vars
  <2>3. ASSUME NEW p \in Projects, issue_asset_to_investors(p) PROVE TokensOf(q)'
    BY <1>2, <2>0, <2>3, IssueTokens
  <2>4. ASSUME NEW m \in BOOLEAN, NextBlock(m) PROVE TokensOf(q)'
    BY <2>1, <2>4 DEF NextBlock, balanceVars, supplyVars
  <2>5. ASSUME NEW a \in Accounts, NEW p \in Projects,
               \/ \E o \in Offerings : asset_create(a, p, o)
               \/ claim_bitasset_investment(a, p)
               \/ asset_update_issuer(p, a)
               \/ account_whitelist(a, p)
               \/ \E u \in Updates : asset_update(p, u)
        PROVE  TokensOf(q)'
    BY <2>1, <2>5 DEF asset_create, claim_bitasset_investment, asset_update_issuer,
                      account_whitelist, asset_update, balanceVars, supplyVars
  <2>6. ASSUME NEW a \in Accounts, NEW p \in Projects,
               \/ \E n \in Amounts : asset_investment(a, p, n)
               \/ refund_investment(a, p)
               \/ claim_asset_investment(a, p)
               \/ \E n \in TokenAmounts : asset_issue(a, p, n) \/ asset_reserve(a, p, n)
        PROVE  TokensOf(q)'
    BY <1>2, <2>0, <2>6, InvestTokens, RefundTokens, ClaimTokens, SupplyTokens
  <2>7. CASE Operation
    BY <2>5, <2>6, <2>7 DEF Operation
  <2> QED BY <1>2, <2>2, <2>3, <2>4, <2>7 DEF Next
<1> QED BY <1>1, <1>2, TypeCorrect, PTL DEF Spec
=============================================================================
