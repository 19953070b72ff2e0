------------------------------- MODULE Market -------------------------------
(* The operations on the market (market_evaluator.cpp, asset_evaluator.cpp) *)
(* and what the end of a block and the maintenance do to it (db_update.cpp, *)
(* db_maint.cpp).  An operation that throws leaves no trace; a block whose  *)
(* processing throws is refused, with all of its operations.                *)
EXTENDS Orders

CONSTANTS
  Publishers,
  FeedLifetime, MinimumFeeds,   \* feed_lifetime_sec, minimum_feeds
  SettlementDelay,              \* force_settlement_delay_sec
  MaintenanceInterval,
  OrderFee,                     \* of limit_order_create, in core
  ExchangeRate,                 \* core_exchange_rate of the mia, for fees
  Start,                        \* markets to begin with
  LimitOrders,                  \* [sells, price, lifetime, fill_or_kill, fee]
  CallUpdates,                  \* [debt, collateral], the changes
  Settlements, Bids, Feeds, SettlePrices,
  MaxOperations, MaxTime        \* bounds

Positive == Nat \ {0}
Rates == [base : Positive, quote : Positive]
PriceFeeds == [price : Rates, mcr : Positive, mssr : Positive]

ASSUME MarketAssumption ==
  /\ IsFiniteSet(Accounts) /\ IsFiniteSet(Publishers)
  /\ {FeedLifetime, MinimumFeeds, MaintenanceInterval} \subseteq Positive
  /\ {SettlementDelay, OrderFee, MaxOperations, MaxTime} \subseteq Nat
  /\ ExchangeRate \in Rates
  /\ LimitOrders \subseteq [sells : Assets, price : Rates, lifetime : Nat,
                             fill_or_kill : BOOLEAN, fee : Assets]
  /\ CallUpdates \subseteq [debt : Int, collateral : Int]
  /\ Settlements \subseteq Nat /\ Bids \subseteq [debt : Nat, collateral : Nat]
  /\ Feeds \subseteq PriceFeeds /\ SettlePrices \subseteq Rates

VARIABLES market, head_time, refused, operations
vars == <<market, head_time, refused, operations>>

----------------------------------------------------------------------------
(* Feeds.  Each field of the median feed is the median of that field.       *)
NoFeed == [time |-> 0, feed |-> none]
Alive(s, now) == {p \in Publishers : s.feeds[p].feed # none /\ now - s.feeds[p].time < FeedLifetime}

Median(P, below(_, _)) ==
  CHOOSE p \in P :
    /\ Cardinality({q \in P : below(q, p)}) <= Cardinality(P) \div 2
    /\ Cardinality({q \in P : ~below(p, q)}) > Cardinality(P) \div 2

update_median_feeds(s, now) ==
  LET alive == Alive(s, now)
      Fed(p) == s.feeds[p].feed
  IN  IF Cardinality(alive) < MinimumFeeds
        THEN [s EXCEPT !.feed = none, !.published = now]
        ELSE [s EXCEPT
          !.feed = [price |-> Fed(Median(alive, LAMBDA p, q : Below(Fed(p).price, Fed(q).price))).price,
                    mcr |-> Fed(Median(alive, LAMBDA p, q : Fed(p).mcr < Fed(q).mcr)).mcr,
                    mssr |-> Fed(Median(alive, LAMBDA p, q : Fed(p).mssr < Fed(q).mssr)).mssr],
          !.published = Min({s.feeds[p].time : p \in alive})]

update_expired_feeds(s, now) ==
  IF s.published + FeedLifetime <= now
    THEN check_call_orders(update_median_feeds(s, now), TRUE)
    ELSE s

----------------------------------------------------------------------------
(* Collateral bids, for a market-issued asset that was settled.             *)
cancel_bid(s, b) ==
  [adjust_balance(s, b.bidder, "core", b.collateral) EXCEPT !.bids = @ \ {b}]

execute_bid(s, b, debt, from_fund) ==
  LET c == b.collateral + from_fund
  IN  [s EXCEPT !.bids = @ \ {b},
         !.calls = @ \cup {[id |-> NextId(s.calls), borrower |-> b.bidder, debt |-> debt,
                            collateral |-> c, call_price |-> call_price(debt, c, s.feed.mcr)]},
         !.core_in_orders[b.bidder] = @ + c]

CancelBidStep(t) == IF t.bids = {} THEN Done(t) ELSE cancel_bid(t, CHOOSE b \in t.bids : TRUE)

_cancel_bids_and_revive_mpa(s) ==
  LET cancelled == Loop(CancelBidStep, s, Cardinality(s.bids) + 1)
  IN  [cancelled EXCEPT !.settlement_price = null, !.settlement_fund = 0]

(* The issuer takes over all of the debt, with the fund as its collateral.  *)
(* The bid that is made up for it has to be the issuer's only one.          *)
revive_bitasset(s) ==
  LET bid == [bidder |-> Issuer, collateral |-> 0]
      unique == \A b \in s.bids : b.bidder # Issuer
  IN  _cancel_bids_and_revive_mpa(
        IF s.supply > 0 THEN execute_bid(Require(s, unique), bid, s.supply, s.settlement_fund)
                        ELSE Require(s, s.settlement_fund = 0))

(* The k-th bid, the one with most collateral for its debt first. *)
Bid(s, k) ==
  LET better(b, x) == Below(Price(x.collateral, x.debt), Price(b.collateral, b.debt))
  IN  CHOOSE b \in s.bids :
        Cardinality({x \in s.bids : better(x, b) \/ (~better(b, x) /\ x.id < b.id)}) = k - 1

FromFund(s, b) == ToQuote(b.debt, s.settlement_price)
BidIsSafe(s, b) ==
  Below(Inverted(call_price(b.debt, FromFund(s, b) + b.collateral, s.feed.mcr)), s.feed.price)

(* The first bids that cover the supply take it over when all are safe; the *)
(* last of them takes what is left of the debt and of the fund.             *)
Covered(s, k) == SumFunction([i \in 1 .. k |-> Bid(s, i).debt])
Taken(s, k) == SumFunction([i \in 1 .. k |-> FromFund(s, Bid(s, i))])

DebtOf(s, k, n) == IF k = n THEN s.supply - Covered(s, k - 1) ELSE Bid(s, k).debt

(* What is left of the fund stays where it is. *)
ShareOf_Floor(s, k, n) == FromFund(s, Bid(s, k))

ShareOf(s, k, n) ==
  IF k = n THEN s.settlement_fund - Taken(s, k - 1) ELSE FromFund(s, Bid(s, k))

process_bids(s) ==
  LET needed == {k \in 0 .. Cardinality(s.bids) : Covered(s, k) >= s.supply}
      n == Min(needed)
      After[k \in 0 .. Cardinality(s.bids)] ==
        IF k = 0 THEN Require(s, n > 0 \/ s.settlement_fund = 0)
        ELSE execute_bid(After[k - 1], Bid(s, k), DebtOf(s, k, n), ShareOf(s, k, n))
  IN  IF s.feed = none \/ needed = {} THEN s
      ELSE IF \E k \in 1 .. n : ~BidIsSafe(s, Bid(s, k)) THEN s
      ELSE _cancel_bids_and_revive_mpa(After[n])

(* Maintenance: a new volume of forced settlements, and the bids. *)
process_bitassets(s, now) ==
  LET Current(f) == f.time >= now - FeedLifetime
      reset == [s EXCEPT !.force_settled_volume = 0,
                         !.feeds = [p \in Publishers |-> IF Current(@[p]) THEN @[p] ELSE NoFeed]]
  IN  IF has_settlement(s) THEN process_bids(reset) ELSE reset

----------------------------------------------------------------------------
(* Forced settlement.                                                       *)
cancel_settle_order(s, o) ==
  [adjust_balance(s, o.owner, "mia", o.balance) EXCEPT !.settles = @ \ {o}]

fill_settle_order(s, o, pays, receives) ==
  [Filled(Receive(s, o.owner, "core", receives), null, pays, receives)
     EXCEPT !.settles = (@ \ {o}) \cup IF pays < o.balance THEN {[o EXCEPT !.balance = @ - pays]}
                                       ELSE {}]

max_force_settlement_volume(s) ==
  ((s.supply + s.force_settled_volume) * MaxSettlementPercent) \div 100

settlement_fill_price(s) ==
  Price(s.feed.price.base * 100, s.feed.price.quote * (100 - SettlementOffset))

(* Whatever may still be settled. *)
Wanted_Unlimited(o, c, most) == Min({o.balance, c.debt})

Wanted(o, c, most) == Min({o.balance, most, c.debt})

(* Tried again as it is. *)
Unfilled_Retried(s, o, wanted) == s

(* Not even a unit of core is due: a settle order that is too small is      *)
(* cancelled, else no more is settled in this block.                        *)
Unfilled(s, o, wanted) == IF wanted = o.balance THEN cancel_settle_order(s, o) ELSE Done(s)

(* match of the settle order o with the call order c; most is what may      *)
(* still be settled.  A call order that is covered pays at least one unit.  *)
match_settle(s, o, c, most) ==
  LET p == settlement_fill_price(s)
      wanted == Wanted(o, c, most)
      pays == IF wanted = c.debt THEN Max({1, ToQuoteUp(wanted, p)}) ELSE ToQuote(wanted, p)
      receives == IF wanted = c.debt THEN wanted ELSE ToBaseUp(pays, p)
      filled == fill_settle_order(fill_call_order(s, c, pays, receives), o, receives, pays)
      culled == IF wanted # c.debt /\ wanted = o.balance /\ receives # o.balance
                  THEN cancel_settle_order(filled, CHOOSE x \in filled.settles : x.id = o.id)
                  ELSE filled
  IN  IF pays > 0 THEN [culled EXCEPT !.force_settled_volume = @ + receives]
      ELSE Unfilled(s, o, wanted)

(* Expired limit orders, then the settle orders by date.  The limit on the  *)
(* volume is computed once.                                                 *)
Expired(s, now) == {o \in s.limits : o.expiration <= now}

CancelStep(t, now) ==
  IF Expired(t, now) = {} THEN Done(t)
  ELSE cancel_limit_order(t, CHOOSE o \in Expired(t, now) : TRUE, TRUE)

SettleStep(t, now, most) ==
  LET o == First(t.settles, LAMBDA x, y : x.date < y.date) IN
  IF t.settles = {} THEN Done(t)
  ELSE IF has_settlement(t) THEN cancel_settle_order(t, o)
  ELSE IF o.date > now THEN Done(t)
  ELSE IF t.feed = none THEN cancel_settle_order(t, o)
  ELSE IF t.force_settled_volume >= most THEN Done(t)
  ELSE IF t.calls = {} THEN Require(t, FALSE)
  ELSE IF o.balance = 0 THEN cancel_settle_order(t, o)
  ELSE match_settle(t, o, LeastCollateral(t), most - t.force_settled_volume)

clear_expired_orders(s, now) ==
  LET cancelled == Loop(LAMBDA t : CancelStep(t, now), s, Iterations(s))
      most == max_force_settlement_volume(s)
  IN  Loop(LAMBDA t : SettleStep(t, now, most), cancelled, Iterations(cancelled))

----------------------------------------------------------------------------
Init ==
  /\ market \in Start
  /\ head_time = 0
  /\ refused = FALSE
  /\ operations = 0

(* An operation of which the evaluator has accepted everything. *)
Apply(s) ==
  /\ ~refused /\ operations < MaxOperations
  /\ s.ok
  /\ market' = [s EXCEPT !.done = FALSE, !.called = FALSE]
  /\ operations' = operations + 1
  /\ UNCHANGED <<head_time, refused>>

Begin == [market EXCEPT !.fills = {}]

(* The fee, in core or in the mia, is deferred until the order is filled. *)
limit_order_create(a, op) ==
  LET x == op.sells
      paid == IF op.fee = "core" THEN 0 ELSE ToBaseUp(OrderFee, ExchangeRate)
      fee == IF op.fee = "core" THEN OrderFee ELSE ToQuote(paid, ExchangeRate)
      order == [id |-> NextId(Begin.limits), seller |-> a, sells |-> x, for_sale |-> op.price.base,
                price |-> op.price, expiration |-> head_time + op.lifetime,
                deferred_fee |-> fee, deferred_paid_fee |-> paid]
      pooled == IF op.fee = "core" THEN Begin ELSE [Begin EXCEPT !.fee_pool = @ - fee]
      created == [adjust_balance(pooled, a, x, -op.price.base)
                    EXCEPT !.core_in_orders[a] = @ + IF x = "core" THEN op.price.base ELSE 0,
                           !.limits = @ \cup {order}]
      applied == apply_order(created, order.id)
  IN  /\ Begin.balance[a][x] >= op.price.base
      /\ pooled.fee_pool >= 0
      /\ op.fill_or_kill => Find(applied, order.id) = {}
      /\ Apply(adjust_balance(applied, a, op.fee, IF op.fee = "core" THEN -OrderFee ELSE -paid))

limit_order_cancel(o) == Apply(cancel_limit_order(Begin, o, FALSE))

(* A position may be made or changed unless it would be called and not      *)
(* closed; what is already in margin call may only be made safer.           *)
call_order_update(a, op) ==
  LET old == {c \in Begin.calls : c.borrower = a}
      before == IF old = {} THEN [id |-> NextId(Begin.calls), borrower |-> a, debt |-> 0,
                                  collateral |-> 0]
                ELSE CHOOSE c \in old : TRUE
      debt == before.debt + op.debt
      collateral == before.collateral + op.collateral
      call == [id |-> before.id, borrower |-> a, debt |-> debt, collateral |-> collateral,
               call_price |-> call_price(debt, collateral, Begin.feed.mcr)]
      moved == [adjust_balance(adjust_balance(Begin, a, "mia", op.debt), a, "core", -op.collateral)
                  EXCEPT !.supply = @ + op.debt, !.core_in_orders[a] = @ + op.collateral]
      updated == [moved EXCEPT !.calls = (@ \ old) \cup {call}]
      checked == check_call_orders(updated, FALSE)
      safer == /\ old # {} /\ debt <= before.debt
               /\ Below(Price(before.collateral, before.debt), Price(collateral, debt))
      safe == Below(Inverted(call.call_price), Begin.feed.price)
  IN  /\ ~has_settlement(Begin) /\ Begin.feed # none
      /\ old = {} => op.debt > 0 /\ op.collateral > 0
      /\ \/ debt = 0 /\ collateral = 0 /\ Apply([moved EXCEPT !.calls = @ \ old])
         \/ /\ debt > 0 /\ collateral > 0
            /\ checked.called => \A c \in checked.calls : c.borrower # a
            /\ ~checked.called => safer \/ safe
            /\ Apply(checked)

(* What is taken for an amount of the fund. *)
Redeemed(s, n, amount) == IF n = s.supply THEN n ELSE ToBaseUp(amount, s.settlement_price)

(* Before a global settlement the amount waits for its date, after it the   *)
(* fund pays at once.                                                       *)
asset_settle(a, n) ==
  LET s == Begin
      amount == IF n = s.supply THEN s.settlement_fund ELSE ToQuote(n, s.settlement_price)
      pays == Redeemed(s, n, amount)
      paid == adjust_balance(adjust_balance(s, a, "mia", -pays), a, "core", amount)
  IN  /\ s.balance[a]["mia"] >= n
      /\ \/ /\ has_settlement(s)
            /\ amount > 0 /\ amount <= s.settlement_fund
            /\ Apply([paid EXCEPT !.settlement_fund = @ - amount, !.supply = @ - pays])
         \/ /\ ~has_settlement(s) /\ s.feed # none
            /\ Apply([adjust_balance(s, a, "mia", -n) EXCEPT !.settles = @ \cup
                 {[id |-> NextId(@), owner |-> a, balance |-> n,
                   date |-> head_time + SettlementDelay]}])

bid_collateral(a, op) ==
  LET old == {b \in Begin.bids : b.bidder = a}
      s == IF old = {} THEN Begin ELSE cancel_bid(Begin, CHOOSE b \in old : TRUE)
      bid == [id |-> NextId(s.bids), bidder |-> a, collateral |-> op.collateral, debt |-> op.debt]
  IN  /\ has_settlement(s)
      /\ Begin.balance[a]["core"] >= op.collateral
      /\ old = {} => op.debt > 0
      /\ Apply(IF op.debt = 0 THEN s
               ELSE [adjust_balance(s, a, "core", -op.collateral) EXCEPT !.bids = @ \cup {bid}])

(* A new median may revive a settled asset, or lead to margin calls. *)
publish_feed(p, f) ==
  LET s == update_median_feeds([Begin EXCEPT !.feeds[p] = [time |-> head_time, feed |-> f]], head_time)
      fund == call_price(s.supply, s.settlement_fund, s.feed.mcr)
      revived == IF /\ has_settlement(s) /\ s.feed # none
                    /\ s.supply = 0 \/ Below(Inverted(fund), s.feed.price)
                   THEN revive_bitasset(s) ELSE s
  IN  Apply(IF s.feed = Begin.feed THEN s ELSE check_call_orders(revived, TRUE))

asset_global_settle(p) ==
  LET c == LeastCollateral(Begin) IN
  /\ Begin.supply > 0 /\ ~has_settlement(Begin)
  /\ ToQuote(c.debt, p) <= c.collateral
  /\ Apply(globally_settle_asset(Begin, p))

(* The end of a block, of which every hour or so one does the maintenance. *)
apply_block ==
  LET now == head_time + 1
      maintained == IF now % MaintenanceInterval = 0 THEN process_bitassets(Begin, now) ELSE Begin
      s == update_expired_feeds(clear_expired_orders(maintained, now), now)
  IN  /\ ~refused /\ head_time < MaxTime
      /\ refused' = ~s.ok
      /\ market' = IF s.ok THEN [s EXCEPT !.done = FALSE, !.called = FALSE] ELSE market
      /\ head_time' = IF s.ok THEN now ELSE head_time
      /\ UNCHANGED operations

Next ==
  \/ \E a \in Accounts :
       \/ \E op \in LimitOrders : limit_order_create(a, op)
       \/ \E op \in CallUpdates : call_order_update(a, op)
       \/ \E n \in Settlements : asset_settle(a, n)
       \/ \E op \in Bids : bid_collateral(a, op)
  \/ \E o \in market.limits : limit_order_cancel(o)
  \/ \E p \in Publishers, f \in Feeds : publish_feed(p, f)
  \/ \E p \in SettlePrices : asset_global_settle(p)
  \/ apply_block

Spec == Init /\ [][Next]_vars

----------------------------------------------------------------------------
(* The market's objects.  Amounts are never below zero, an order or a       *)
(* position with nothing left is gone, an account has one position and one  *)
(* bid, and prices are never of nothing but where there is no feed or       *)
(* settlement.                                                              *)
Fields ==
  {"balance", "core_in_orders", "limits", "calls", "settles", "bids", "supply", "feeds", "feed",
   "published", "settlement_price", "settlement_fund", "force_settled_volume",
   "accumulated_fees", "fee_pool", "paid_fees", "fills", "ok", "done", "called", "hung"}

Limits == [id : Nat, seller : Accounts, sells : Assets, for_sale : Positive, price : Rates,
           expiration : Int, deferred_fee : Nat, deferred_paid_fee : Nat]
Positions == [id : Nat, borrower : Accounts, debt : Positive, collateral : Nat,
              call_price : [base : Nat, quote : Positive]]
Settles == [id : Nat, owner : Accounts, balance : Nat, date : Int]
Offers == [id : Nat, bidder : Accounts, collateral : Nat, debt : Positive]

Unique(S, field) == \A o, x \in S : o[field] = x[field] => o = x
Table(S, T) == IsFiniteSet(S) /\ S \subseteq T /\ Unique(S, "id")

IsMarket(s) ==
  /\ DOMAIN s = Fields
  /\ s.balance \in [Accounts -> [Assets -> Nat]] /\ s.core_in_orders \in [Accounts -> Int]
  /\ Table(s.limits, Limits) /\ Table(s.settles, Settles)
  /\ Table(s.calls, Positions) /\ Unique(s.calls, "borrower")
  /\ Table(s.bids, Offers) /\ Unique(s.bids, "bidder")
  /\ {s.supply, s.settlement_fund, s.fee_pool, s.force_settled_volume, s.paid_fees} \subseteq Nat
  /\ s.accumulated_fees \in [Assets -> Nat]
  /\ s.feeds \in [Publishers -> [time : Int, feed : PriceFeeds \cup {none}]]
  /\ s.feed \in PriceFeeds \cup {none} /\ s.published \in Int
  /\ s.settlement_price \in [base : Positive, quote : Nat] \cup {null}

Total(S, field) == SumFunction([o \in S |-> o[field]])
Held(balance, x) == SumFunction([a \in Accounts |-> balance[a][x]])
ForSale(limits, x) == SumFunction([o \in limits |-> IF o.sells = x THEN o.for_sale ELSE 0])

TotalCore(s) ==
  Held(s.balance, "core") + ForSale(s.limits, "core") + Total(s.limits, "deferred_fee")
  + Total(s.calls, "collateral") + Total(s.bids, "collateral") + s.settlement_fund
  + s.fee_pool + s.paid_fees + s.accumulated_fees["core"]

TotalMia(s) ==
  Held(s.balance, "mia") + ForSale(s.limits, "mia") + Total(s.limits, "deferred_paid_fee")
  + Total(s.settles, "balance") + s.accumulated_fees["mia"]

CoreSupply == TotalCore(CHOOSE s \in Start : TRUE)

(* No fill, cancellation, settlement, bid or fee, with all their roundings, *)
(* makes or loses a unit of either asset: the core there is never changes,  *)
(* and the mia's current_supply is what accounts, orders and fees hold.     *)
Conserved(s) == TotalCore(s) = CoreSupply /\ TotalMia(s) = s.supply

(* Each unit of the mia is somebody's debt, until a global settlement       *)
(* closes all positions; what revives the asset takes all of the supply     *)
(* over.  clear_expired_orders asserts that there is a call order to settle *)
(* with ("There should always be a call order, since asset exists!").       *)
DebtIsSupply(s) == IF has_settlement(s) THEN s.calls = {} ELSE Total(s.calls, "debt") = s.supply

(* total_core_in_orders, from which votes are counted, is kept by a dozen   *)
(* additions and subtractions: it is what the account has in limit orders   *)
(* and as collateral.                                                       *)
OfOrders(limits, a) ==
  SumFunction([o \in limits |-> IF o.sells = "core" /\ o.seller = a THEN o.for_sale ELSE 0])
OfPositions(calls, a) ==
  SumFunction([c \in calls |-> IF c.borrower = a THEN c.collateral ELSE 0])
CoreInOrders(s) ==
  \A a \in Accounts : s.core_in_orders[a] = OfOrders(s.limits, a) + OfPositions(s.calls, a)

(* After a global settlement the fund pays what the rest of the supply is   *)
(* worth at the settlement price, whatever was paid out and rounded before: *)
(* the assertion of asset_settle on it never fails.  Before it, and when    *)
(* the asset is revived, there is no fund.                                  *)
FundCovers(s) ==
  IF has_settlement(s)
    THEN s.supply * s.settlement_price.quote <= s.settlement_fund * s.settlement_price.base
    ELSE s.settlement_fund = 0

Balanced(s) ==
  IsMarket(s) /\ Conserved(s) /\ DebtIsSupply(s) /\ CoreInOrders(s) /\ FundCovers(s)

(* The markets to begin with are in order, and have the same core.          *)
ASSUME StartAssumption == \A s \in Start : s.ok /\ Balanced(s)

(* The books of the market balance: its objects are sound, both assets are  *)
(* conserved, debt is supply, total_core_in_orders is right and the         *)
(* settlement fund suffices.                                                *)
BooksBalance == Balanced(market)

(* No two limit orders that would match are left on the book: apply_order   *)
(* looks only at an order that is at its front, and stops early.            *)
Uncrossed ==
  \A o \in Selling(market, "core"), x \in Selling(market, "mia") :
    Below(o.price, Inverted(x.price))

(* No position in margin call is left when there is an order it may buy     *)
(* from: every operation that moves the feed, a position or the book does   *)
(* all the margin calls there are.                                          *)
MarginCalled ==
  market.feed # none /\ Callers(market) # {} =>
    \A c \in market.calls : ~InMarginCall(market, c)

(* A position has the collateral to be settled at the feed price: a black   *)
(* swan is noticed before it has not.  match relies on it ("be here, we     *)
(* should have: call_pays <= call_collateral").                             *)
CallsBacked ==
  market.feed # none =>
    \A c \in market.calls : ToQuoteUp(c.debt, settlement_fill_price(market)) <= c.collateral

(* Nothing is given for nothing in a fill, and no limit order pays a whole  *)
(* unit more than its price allows for what it receives.                    *)
FairFills ==
  \A f \in market.fills :
    /\ f.pays > 0 /\ f.receives > 0
    /\ f.price # null => (f.pays - 1) * f.price.quote < f.receives * f.price.base

(* Matching is complete and fair: it leaves no orders that cross and no     *)
(* margin call that can be met, and no fill is below an order's price.      *)
Matched == Uncrossed /\ MarginCalled /\ FairFills

(* Every loop over orders ends, and the settlements, bids and feeds at the  *)
(* end of a block never throw, which would refuse the block.                *)
BlocksApply == ~refused /\ ~market.hung

(* What a block settles by force, with what was settled before it in the    *)
(* same maintenance interval, is no more than max_force_settlement_volume   *)
(* allowed of the supply before the block: the limit is computed once and   *)
(* the supply shrinks with each settlement.                                 *)
SettledBefore ==
  IF head_time' # head_time /\ head_time' % MaintenanceInterval = 0 THEN 0
  ELSE market.force_settled_volume

VolumeLimited ==
  [][market'.force_settled_volume > SettledBefore =>
       100 * market'.force_settled_volume <= MaxSettlementPercent * (market.supply + SettledBefore)]_vars
=============================================================================
