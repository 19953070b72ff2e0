------------------------------ MODULE Vesting -------------------------------
(* The two vesting policies of vesting_balance_object.cpp.  A vesting       *)
(* balance is a record with its balance and its policy; what it has held,   *)
(* was given as vested and has paid out is kept beside them, to compare the *)
(* policies with.                                                           *)
EXTENDS Integers, FiniteSetsExt

linear_vesting_policy(begin, cliff, duration, n) ==
  [type |-> "linear", begin |-> begin, cliff |-> cliff, duration |-> duration, begin_balance |-> n]
cdd_vesting_policy(seconds, start_claim, earned, now) ==
  [type |-> "cdd", seconds |-> seconds, start_claim |-> start_claim, earned |-> earned,
   last_update |-> now]

(* What has vested is paid out whatever was withdrawn before. *)
linear_allowed_Again(b, now) ==
  LET elapsed == now - b.policy.begin
  IN  IF elapsed <= 0 \/ elapsed < b.policy.cliff THEN 0
      ELSE IF elapsed < b.policy.duration
        THEN Min({b.balance, (b.policy.begin_balance * elapsed) \div b.policy.duration})
        ELSE b.balance

(* What has vested since the beginning less what is already withdrawn. *)
linear_allowed(b, now) ==
  LET elapsed == now - b.policy.begin
      total_vested == IF elapsed < b.policy.duration
                        THEN (b.policy.begin_balance * elapsed) \div b.policy.duration
                        ELSE b.policy.begin_balance
  IN  IF elapsed <= 0 \/ elapsed < b.policy.cliff THEN 0
      ELSE total_vested - (b.policy.begin_balance - b.balance)

(* Every second each unit of the balance earns one coin second, up to what  *)
(* all of the balance needs.                                                *)
Needed(b, n) == n * Max({b.policy.seconds, 1})

compute_coin_seconds_earned(b, now) ==
  Min({b.policy.earned + b.balance * (now - b.policy.last_update), Needed(b, b.balance)})

cdd_allowed(b, now) ==
  IF now <= b.policy.start_claim THEN 0
  ELSE compute_coin_seconds_earned(b, now) \div Max({b.policy.seconds, 1})

get_allowed_withdraw(b, now) ==
  IF b.policy.type = "linear" THEN linear_allowed(b, now) ELSE cdd_allowed(b, now)

(* The seconds that were earned are brought up to date before the balance   *)
(* changes, else the new balance would have earned them.                    *)
update_coin_seconds_earned_Late(b, now) == b

update_coin_seconds_earned(b, now) ==
  [b EXCEPT !.policy.earned = compute_coin_seconds_earned(b, now), !.policy.last_update = now]

deposit(b, now, n) ==
  [(IF b.policy.type = "cdd" THEN update_coin_seconds_earned(b, now) ELSE b)
     EXCEPT !.balance = @ + n, !.changed = now]

(* For the coin seconds policy only. *)
deposit_vested(b, now, n) ==
  [deposit(b, now, n) EXCEPT !.policy.earned = @ + Needed(b, n), !.granted = @ + n]

withdraw(b, now, n) ==
  LET paid == [b EXCEPT !.balance = @ - n, !.withdrawn = @ + n, !.changed = now]
  IN  IF b.policy.type = "linear" THEN paid
      ELSE [paid EXCEPT !.policy = [update_coin_seconds_earned(b, now).policy
                                      EXCEPT !.earned = @ - Needed(b, n)]]
=============================================================================
