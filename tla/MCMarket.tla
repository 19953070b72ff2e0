------------------------------ MODULE MCMarket ------------------------------
(* Two borrowers and a trader, a feed of one mia for one core, of which     *)
(* 7/4 is the maintenance and 5/4 the squeeze ratio.                        *)
EXTENDS Market

MCFeePercent == [core |-> 0, mia |-> 34]
MCMaxFee == [core |-> 0, mia |-> 1]
MCRate == Price(1, 1)

Feed(b, q, m) == [price |-> Price(b, q), mcr |-> m, mssr |-> 5]
MCFeeds == {Feed(1, 1, 7), Feed(3, 4, 7), Feed(1, 2, 7)}
MCTwoRatios == {Feed(1, 1, 15), Feed(2, 5, 15)}

Order(x, p, t, kill, fee) ==
  [sells |-> x, price |-> p, lifetime |-> t, fill_or_kill |-> kill, fee |-> fee]
MCLimitOrders ==
  {Order("mia", Price(2, 3), 1, FALSE, "core"), Order("mia", Price(1, 1), 9, FALSE, "mia"),
   Order("core", Price(3, 2), 9, FALSE, "core"), Order("core", Price(2, 1), 9, TRUE, "mia")}

Change(d, c) == [debt |-> d, collateral |-> c]
MCCallUpdates == {Change(2, 3), Change(-2, -4), Change(0, 2)}
MCOpen == {Change(1, 4)}
MCBids == {Change(3, 2), Change(6, 3), Change(0, 0)}
MCSettlePrices == {Price(1, 1)}

Call(i, a, d, c) ==
  [id |-> i, borrower |-> a, debt |-> d, collateral |-> c, call_price |-> call_price(d, c, 7)]
Limit(i, a, x, p) ==
  [id |-> i, seller |-> a, sells |-> x, for_sale |-> p.base, price |-> p, expiration |-> 2,
   deferred_fee |-> 1, deferred_paid_fee |-> 0]

(* Two positions of debt 5, most of the mia with others, and no orders. *)
Quiet ==
  [balance |-> [alice |-> [core |-> 4, mia |-> 2], bob |-> [core |-> 4, mia |-> 2],
                carol |-> [core |-> 5, mia |-> 1]],
   core_in_orders |-> [alice |-> 7, bob |-> 4, carol |-> 0],
   limits |-> {}, calls |-> {Call(1, "alice", 3, 7), Call(2, "bob", 2, 4)},
   settles |-> {}, bids |-> {}, supply |-> 5,
   feeds |-> [p \in Publishers |-> IF p = "p" THEN [time |-> 0, feed |-> Feed(1, 1, 7)] ELSE NoFeed],
   feed |-> Feed(1, 1, 7), published |-> 0,
   settlement_price |-> null, settlement_fund |-> 0, force_settled_volume |-> 0,
   accumulated_fees |-> [core |-> 0, mia |-> 0], fee_pool |-> 2, paid_fees |-> 0,
   fills |-> {}, ok |-> TRUE, done |-> FALSE, called |-> FALSE, hung |-> FALSE]

(* Orders on both sides and one settlement that waits. *)
Open ==
  [Quiet EXCEPT !.balance["alice"] = [core |-> 3, mia |-> 0],
                !.balance["carol"] = [core |-> 0, mia |-> 0],
                !.core_in_orders["carol"] = 4,
                !.limits = {Limit(1, "alice", "mia", Price(2, 3)),
                            Limit(2, "carol", "core", Price(4, 3))},
                !.settles = {[id |-> 1, owner |-> "carol", balance |-> 1, date |-> 1]}]

(* The issuer has settled the asset. *)
Settled ==
  [globally_settle_asset(Quiet, Price(3, 4)) EXCEPT !.done = FALSE, !.fills = {}]

MCStart == {Quiet, Open, Settled}
MCQuiet == {Quiet}
=============================================================================
