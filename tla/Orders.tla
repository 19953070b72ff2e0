------------------------------- MODULE Orders -------------------------------
(* The market of db_market.cpp: limit orders between the core asset and one *)
(* market-issued asset ("mia") that is backed by it, the call orders that   *)
(* borrowed it, the settle orders and the collateral bids.  Every operator  *)
(* maps the state s of the market's objects to the one the method leaves;   *)
(* s.ok turns FALSE where the method throws, s.hung TRUE where a loop would *)
(* not end.  Objects are kept with ids that grow with their age.            *)
EXTENDS Prices, FiniteSets, FiniteSetsExt, Functions

CONSTANTS
  Accounts,
  MarketFeePercent, MaxMarketFee,   \* by asset
  CancelFee,                        \* what the cancellation of an order costs
  MaxSettlementPercent,             \* maximum_force_settlement_volume
  SettlementOffset,                 \* force_settlement_offset_percent
  Issuer                            \* of the market-issued asset

null == Price(0, 0)                 \* price(), of no asset
none == [price |-> null, mcr |-> 0, mssr |-> 0]   \* price_feed()
Assets == {"core", "mia"}
Other(x) == IF x = "core" THEN "mia" ELSE "core"

ASSUME OrdersAssumption ==
  /\ Issuer \in Accounts
  /\ CancelFee \in Nat /\ MaxSettlementPercent \in 0 .. 100 /\ SettlementOffset \in 0 .. 99
  /\ MarketFeePercent \in [Assets -> 0 .. 100] /\ MaxMarketFee \in [Assets -> Nat]

NextId(S) == 1 + Max({0} \cup {o.id : o \in S})

(* The element that is first, and the oldest one of several. *)
First(S, before(_, _)) ==
  CHOOSE o \in S : \A x \in S : ~before(x, o) /\ (before(o, x) \/ o.id <= x.id)

(* step until it is done, or has thrown; n iterations suffice. *)
Loop(step(_), s, n) ==
  LET after[i \in 0 .. n] ==
        IF i = 0 THEN [s EXCEPT !.done = FALSE]
        ELSE LET t == after[i - 1] IN IF t.done \/ ~t.ok THEN t ELSE step(t)
  IN  IF ~s.ok THEN s ELSE [after[n] EXCEPT !.hung = @ \/ (after[n].ok /\ ~after[n].done)]

Iterations(s) == Cardinality(s.limits) + Cardinality(s.calls) + Cardinality(s.settles) + 1
Done(s) == [s EXCEPT !.done = TRUE]
Require(s, condition) == [s EXCEPT !.ok = @ /\ condition]

adjust_balance(s, a, x, n) ==
  Require([s EXCEPT !.balance[a][x] = @ + n], s.balance[a][x] + n >= 0)

(* pay_market_fees, and the rest to the account. *)
calculate_market_fee(x, n) == Min({(n * MarketFeePercent[x]) \div 100, MaxMarketFee[x]})
Receive(s, a, x, n) ==
  LET fee == calculate_market_fee(x, n)
  IN  [adjust_balance(s, a, x, n - fee) EXCEPT !.accumulated_fees[x] = @ + fee]

(* fill_order_operation: what one order paid and received. *)
Filled(s, p, pays, receives) ==
  [s EXCEPT !.fills = @ \cup {[price |-> p, pays |-> pays, receives |-> receives]}]

----------------------------------------------------------------------------
(* Limit orders: the price has what the order sells as its base.            *)

(* The refund is what the cancellation fee, charged unless the owner        *)
(* cancels by an operation, leaves of the deferred fee.                     *)
cancel_limit_order(s, o, virtual) ==
  LET charged == IF virtual THEN Min({CancelFee, o.deferred_fee}) ELSE 0
      paid == IF charged = 0 THEN 0
              ELSE (o.deferred_paid_fee * charged + o.deferred_fee - 1) \div o.deferred_fee
      refunded == adjust_balance(s, o.seller, o.sells, o.for_sale)
      fee == IF o.deferred_paid_fee = 0
               THEN adjust_balance(refunded, o.seller, "core", o.deferred_fee - charged)
               ELSE [adjust_balance(refunded, o.seller, "mia", o.deferred_paid_fee - paid)
                       EXCEPT !.fee_pool = @ + o.deferred_fee - charged,
                              !.accumulated_fees["mia"] = @ + paid]
  IN  [fee EXCEPT !.limits = @ \ {o}, !.paid_fees = @ + charged,
                  !.core_in_orders[o.seller] = @ - IF o.sells = "core" THEN o.for_sale ELSE 0]

amount_to_receive(o) == ToQuote(o.for_sale, o.price)

maybe_cull_small_order(s, o) ==
  IF amount_to_receive(o) = 0 THEN cancel_limit_order(s, o, TRUE) ELSE s

fill_limit_order(s, o, pays, receives, cull_if_small) ==
  LET left == [o EXCEPT !.for_sale = @ - pays, !.deferred_fee = 0, !.deferred_paid_fee = 0]
      paid == [Filled(Receive(s, o.seller, Other(o.sells), receives), o.price, pays, receives)
                 EXCEPT !.core_in_orders[o.seller] = @ - IF o.sells = "core" THEN pays ELSE 0,
                        !.paid_fees = @ + o.deferred_fee,
                        !.accumulated_fees["mia"] = @ + o.deferred_paid_fee,
                        !.limits = (@ \ {o}) \cup IF pays = o.for_sale THEN {} ELSE {left}]
  IN  IF cull_if_small /\ pays # o.for_sale THEN maybe_cull_small_order(paid, left) ELSE paid

Selling(s, x) == {o \in s.limits : o.sells = x}
Best(S) == First(S, LAMBDA o, x : Below(x.price, o.price))

Find(s, id) == {o \in s.limits : o.id = id}
Taker(s, id) == CHOOSE o \in Find(s, id) : TRUE

(* The taker is done with when it is filled, or too small to be. *)
UnlessGone(s, id) == [s EXCEPT !.done = Find(s, id) = {}]

(* match: the taker with the id t and the maker o, at o's price.  What the  *)
(* smaller order receives is rounded down, and what it pays for that up.    *)

ForNothing(smaller, receives) == smaller /\ receives = 0

match(s, t, o) ==
  LET taker == Taker(s, t)
      smaller == taker.for_sale <= ToQuote(o.for_sale, o.price)
      receives == IF smaller THEN ToBase(taker.for_sale, o.price)
                  ELSE ToBaseUp(ToQuote(o.for_sale, o.price), o.price)
      pays == IF smaller THEN ToQuoteUp(receives, o.price) ELSE ToQuote(o.for_sale, o.price)
      filled == fill_limit_order(s, taker, pays, receives, smaller)
      both == fill_limit_order(filled, o, receives, pays, TRUE)
  IN  IF ForNothing(smaller, receives) THEN Done(s)
      ELSE UnlessGone(Require(both, Find(both, t) = {} \/ Find(both, o.id) = {}), t)

----------------------------------------------------------------------------
(* Call orders.  Collateral is in core, debt in mia.                        *)
has_settlement(s) == s.settlement_price # null
FirstCall(s) == First(s.calls, LAMBDA c, x : Below(c.call_price, x.call_price))
LeastCollateral(s) ==
  First(s.calls, LAMBDA c, x : Below(Price(c.collateral, c.debt), Price(x.collateral, x.debt)))
InMarginCall(s, c) == ~Below(Inverted(s.feed.price), c.call_price)

fill_call_order(s, c, pays, receives) ==
  LET left == [c EXCEPT !.debt = @ - receives, !.collateral = @ - pays]
      freed == IF left.debt = 0 THEN left.collateral ELSE 0
      paid == adjust_balance(Require(s, c.collateral >= pays), c.borrower, "core", freed)
      priced == [left EXCEPT !.call_price = call_price(left.debt, left.collateral, s.feed.mcr)]
  IN  [Filled(paid, null, pays, receives)
        EXCEPT !.calls = (@ \ {c}) \cup IF left.debt = 0 THEN {} ELSE {priced},
               !.supply = @ - receives,
               !.core_in_orders[c.borrower] = @ - freed - pays]

(* What limit order and call order exchange: n of the mia is for sale.      *)
(* p has the mia as its base.                                               *)
Exchange(c, n, p) ==
  IF c.debt > n THEN LET r == ToQuote(n, p) IN [core |-> r, mia |-> ToBaseUp(r, p)]
  ELSE [core |-> ToQuoteUp(c.debt, p), mia |-> c.debt]

(* match with a call order: a taker at the squeeze price. *)
match_call(s, t, c) ==
  LET taker == Taker(s, t)
      x == Exchange(c, taker.for_sale, max_short_squeeze_price(s.feed))
      filled == fill_limit_order(s, taker, x.mia, x.core, c.debt > taker.for_sale)
  IN  IF x.core = 0 THEN Done(s)
      ELSE UnlessGone(fill_call_order(filled, c, x.core, x.mia), t)

----------------------------------------------------------------------------
(* Every position is closed at the price p of mia in core, what it pays     *)
(* goes to the fund and the supply stays.                                   *)
CloseStep(t, pays) ==
  IF t.calls = {} THEN Done(t)
  ELSE LET c == FirstCall(t) IN fill_call_order(t, c, pays[c], c.debt)

globally_settle_asset(s, p) ==
  LET pays == [c \in s.calls |-> Min({ToQuoteUp(c.debt, p), c.collateral})]
      gathered == SumFunction(pays)
      closed == Loop(LAMBDA t : CloseStep(t, pays), Require(s, ~has_settlement(s)), Iterations(s))
  IN  [closed EXCEPT !.settlement_price = Price(s.supply, gathered),
                     !.settlement_fund = gathered, !.supply = s.supply]

(* The call order that is first has less collateral than the best bid, or   *)
(* the squeeze price, pays.                                                 *)
Swan(s) ==
  /\ s.feed # none /\ s.calls # {}
  /\ LET c == FirstCall(s)
         swan == Price(c.debt, c.collateral)
     IN  /\ ~Below(swan, max_short_squeeze_price(s.feed))
         /\ \A o \in Selling(s, "mia") : ~Below(swan, o.price)

check_for_blackswan(s, enable_black_swan) ==
  LET c == FirstCall(s)
      swan == Price(c.debt, c.collateral)
  IN  globally_settle_asset(Require(s, enable_black_swan),
                            IF Below(s.feed.price, swan) THEN swan ELSE s.feed.price)

(* The orders a margin call may buy from. *)
Callers(s) == {o \in Selling(s, "mia") : ~Below(o.price, max_short_squeeze_price(s.feed))}

(* The first call order buys from the best limit order, at its price. *)
MarginCall(s, enable_black_swan) ==
  LET c == FirstCall(s)
      o == Best(Callers(s))
      x == Exchange(c, o.for_sale, o.price)
      called == [s EXCEPT !.called = TRUE]
  IN  IF ToQuote(c.debt, o.price) > c.collateral
        THEN Done(globally_settle_asset(Require(called, enable_black_swan), s.feed.price))
        ELSE fill_limit_order(fill_call_order(called, c, x.core, x.mia), o, x.mia, x.core, TRUE)

(* No black swan without a limit order to meet it. *)
CheckStep_NeedsOrders(t, enable_black_swan) ==
  IF has_settlement(t) \/ t.feed = none \/ t.calls = {} \/ Callers(t) = {} THEN Done(t)
  ELSE IF Swan(t) THEN Done(check_for_blackswan(t, enable_black_swan))
  ELSE IF InMarginCall(t, FirstCall(t)) THEN MarginCall(t, enable_black_swan)
  ELSE Done(t)

CheckStep(t, enable_black_swan) ==
  IF has_settlement(t) \/ t.feed = none THEN Done(t)
  ELSE IF Swan(t) THEN Done(check_for_blackswan(t, enable_black_swan))
  ELSE IF t.calls = {} \/ Callers(t) = {} THEN Done(t)
  ELSE IF InMarginCall(t, FirstCall(t)) THEN MarginCall(t, enable_black_swan)
  ELSE Done(t)

check_call_orders(s, enable_black_swan) ==
  Loop(LAMBDA t : CheckStep(t, enable_black_swan), s, Iterations(s))

----------------------------------------------------------------------------
(* A new order, t, takes the orders of the other side that offer more than  *)
(* its price, and when it sells the mia at the squeeze price or better the  *)
(* margin calls, in the order of their prices.                              *)
AtFront(s, o) == o = Best(Selling(s, o.sells))
Makers(s, o) == {x \in Selling(s, Other(o.sells)) : ~Below(x.price, Inverted(o.price))}
Calls(s, o) ==
  IF \/ o.sells = "core" \/ has_settlement(s) \/ s.feed = none
     \/ Below(o.price, max_short_squeeze_price(s.feed))
    THEN {}
    ELSE {c \in s.calls : InMarginCall(s, c)}
BetterThanCalls(s, x) == Below(Inverted(max_short_squeeze_price(s.feed)), x.price)

(* The order meets one maker only. *)
apply_order_OneMaker(s, t) ==
  LET o == Taker(s, t)
      matched == match(s, t, Best(Makers(s, o)))
  IN  IF ~AtFront(s, o) \/ Makers(s, o) = {} THEN s
      ELSE IF Find(matched, t) = {} THEN matched
      ELSE maybe_cull_small_order(matched, Taker(matched, t))

MatchStep(u, t) ==
  LET o == Taker(u, t)
      calls == Calls(u, o)
      makers == Makers(u, o)
  IN  IF makers # {} /\ (calls = {} \/ BetterThanCalls(u, Best(makers)))
        THEN match(u, t, Best(makers))
      ELSE IF calls # {} THEN match_call(u, t, FirstCall(u))
      ELSE Done(u)

apply_order(s, t) ==
  LET matched == Loop(LAMBDA u : MatchStep(u, t), s, Iterations(s))
  IN  IF ~AtFront(s, Taker(s, t)) THEN s
      ELSE IF Find(matched, t) = {} THEN matched
      ELSE maybe_cull_small_order(matched, Taker(matched, t))
=============================================================================
