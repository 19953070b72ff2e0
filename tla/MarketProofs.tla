---------------------------- MODULE MarketProofs ----------------------------
(***************************************************************************)
(* The books of the market balance, whatever its accounts, prices, fees    *)
(* and operations: bids, settle orders, feeds and the end of a block, and  *)
(* then every operation, keep the core there is, the supply of the mia,    *)
(* the debt for it, the votes from orders and the settlement fund.         *)
(***************************************************************************)
EXTENDS OrdersProofs

-----------------------------------------------------------------------------
(* Collateral bids.                                                        *)
LEMMA BidGone ==
  ASSUME NEW B, Table(B, Offers), Unique(B, "bidder"), NEW b \in B
  PROVE  /\ Table(Without(B, b), Offers) /\ Unique(Without(B, b), "bidder")
         /\ Total(B, "collateral") \in Int
         /\ Total(Without(B, b), "collateral") = Total(B, "collateral") - b.collateral
<1>1. IsFiniteSet(B) /\ \A x \in B : x["collateral"] \in Int
  BY DEF Table, Offers
<1>2. Total(B, "collateral") \in Int
      /\ Total(Without(B, b), "collateral") = Total(B, "collateral") - b["collateral"]
  BY <1>1, TotalGone
<1> QED BY <1>2, TableGone, UniqueGone

BidFields == {"balance", "ok", "bids"}

LEMMA CancelBidStops ==
  ASSUME NEW s, DOMAIN s = Fields, NEW b
  PROVE  LET p == adjust_balance(s, b.bidder, "core", b.collateral)
             t == cancel_bid(s, b)
         IN  /\ Stops(s, p) /\ Only(s, p, {"balance", "ok"}) /\ Only(p, t, {"bids"})
             /\ Stops(s, t) /\ Only(s, t, BidFields) /\ (t.ok <=> p.ok)
             /\ t.bids = p.bids \ {b}
<1> DEFINE p == adjust_balance(s, b.bidder, "core", b.collateral)
           t == [p EXCEPT !.bids = @ \ {b}]
<1>1. cancel_bid(s, b) = t
  BY DEF cancel_bid
<1>2. Stops(s, p) /\ Only(s, p, {"balance", "ok"})
  BY AdjustStops
<1> HIDE DEF p
<1>3. Only(p, t, {"bids"}) /\ (t.ok <=> p.ok) /\ t.bids = p.bids \ {b}
  BY <1>2 DEF Stops, Only, Fields
<1> HIDE DEF t
<1>4. Only(s, t, BidFields)
  BY <1>2, <1>3, OnlyTrans DEF BidFields
<1>5. Stops(s, t)
  BY <1>2, <1>3 DEF Stops, Only
<1> QED BY <1>1, <1>2, <1>3, <1>4, <1>5 DEF p

LEMMA CancelBid ==
  ASSUME NEW s, Sound(s), NEW b \in s.bids, NEW t, t = cancel_bid(s, b)
  PROVE  /\ Moves(s, t, BidFields, "core", 0, 0)
         /\ t.bids = Without(s.bids, b)
<1> DEFINE p == adjust_balance(s, b.bidder, "core", b.collateral)
<1>0. DOMAIN s = Fields
  BY SoundTables
<1>1. /\ Stops(s, p) /\ Only(s, p, {"balance", "ok"}) /\ Only(p, t, {"bids"})
      /\ Stops(s, t) /\ Only(s, t, BidFields) /\ (t.ok <=> p.ok)
      /\ t.bids = p.bids \ {b}
  BY <1>0, CancelBidStops
<1>2. t.bids = Without(s.bids, b)
  <2>1. p.bids = s.bids
    BY <1>1 DEF Only, Fields
  <2> QED BY <1>1, <2>1 DEF Without
<1>3. ASSUME t.ok
      PROVE  Sound(t) /\ TotalCore(t) = TotalCore(s) /\ TotalMia(t) = TotalMia(s)
  <2>1. p.ok
    BY <1>1, <1>3
  <2>2. b \in Offers
    BY SoundTables
  <2>3. b.bidder \in Accounts /\ b.collateral \in Int
    BY <2>2 DEF Offers
  <2>4. Moves(s, p, {"balance", "ok"}, "core", b.collateral, 0)
    BY <2>3, Adjust, AssetsAre
  <2>5. /\ Sound(p) /\ TotalCore(p) = TotalCore(s) + b.collateral /\ TotalMia(p) = TotalMia(s) + 0
    BY <2>1, <2>4, OtherIs DEF Moves
  <2>6. p.bids = s.bids
    BY <1>1 DEF Only, Fields
  <2> HIDE DEF p
  <2>7. /\ Table(t.bids, Offers) /\ Unique(t.bids, "bidder")
        /\ Total(s.bids, "collateral") \in Int
        /\ Total(t.bids, "collateral") = Total(s.bids, "collateral") - b.collateral
    BY <1>2, BidGone DEF Sound
  <2>8. /\ DOMAIN t = Fields /\ t.balance = p.balance /\ t.limits = p.limits
        /\ t.settles = p.settles /\ t.calls = p.calls /\ t.supply = p.supply
        /\ t.core_in_orders = p.core_in_orders
        /\ t.feeds = p.feeds /\ t.feed = p.feed /\ t.published = p.published
        /\ t.settlement_price = p.settlement_price /\ t.settlement_fund = p.settlement_fund
        /\ t.force_settled_volume = p.force_settled_volume
        /\ t.accumulated_fees = p.accumulated_fees /\ t.fee_pool = p.fee_pool
        /\ t.paid_fees = p.paid_fees
    BY <1>1 DEF Only, Fields
  <2>9. Sound(t)
    BY <1>3, <2>5, <2>7, <2>8 DEF Sound, CoreInOrders
  <2>10. TotalMia(s) \in Int /\ TotalMia(t) = TotalMia(p)
    BY <2>8, SoundParts DEF TotalMia
  <2>11. TotalCore(t) = TotalCore(s)
    <3>1. TotalCore(t) =
          Held(p.balance, "core") + ForSale(p.limits, "core")
          + Total(p.limits, "deferred_fee") + Total(p.calls, "collateral")
          + (Total(p.bids, "collateral") - b.collateral) + p.settlement_fund + p.fee_pool
          + p.paid_fees + p.accumulated_fees["core"]
      BY <2>6, <2>7, <2>8 DEF TotalCore
    <3>2. TotalCore(p) =
          Held(p.balance, "core") + ForSale(p.limits, "core")
          + Total(p.limits, "deferred_fee") + Total(p.calls, "collateral")
          + Total(p.bids, "collateral") + p.settlement_fund + p.fee_pool
          + p.paid_fees + p.accumulated_fees["core"]
      BY DEF TotalCore
    <3>3. /\ Held(p.balance, "core") \in Int /\ ForSale(p.limits, "core") \in Int
          /\ Total(p.limits, "deferred_fee") \in Int /\ Total(p.calls, "collateral") \in Int
          /\ Total(p.bids, "collateral") \in Int /\ p.settlement_fund \in Int
          /\ p.fee_pool \in Int /\ p.paid_fees \in Int /\ p.accumulated_fees["core"] \in Int
      BY <2>5, SoundParts, AssetsAre
    <3>4. TotalCore(p) = TotalCore(s) + b.collateral /\ TotalCore(s) \in Int
      BY <2>5, SoundParts
    <3>5. TotalCore(t) = TotalCore(p) - b.collateral
      BY <2>3, <3>1, <3>2, <3>3
    <3> QED BY <2>3, <3>4, <3>5
  <2> QED BY <2>5, <2>9, <2>10, <2>11
<1> HIDE DEF p
<1>4. t.ok => Sound(t) /\ \A x \in Assets : Tot(t, x) = Tot(s, x)
  BY <1>3, AssetsAre, OtherIs
<1>5. Moves(s, t, BidFields, "core", 0, 0)
  BY <1>1, <1>4, SameMoves
<1> QED BY <1>2, <1>5

LEMMA MovesTrans ==
  ASSUME NEW s, Sound(s), NEW t, NEW u, NEW F, Moves(s, t, F, "core", 0, 0), Stops(t, u),
         t.ok => Moves(t, u, F, "core", 0, 0), Only(t, u, F)
  PROVE  Moves(s, u, F, "core", 0, 0)
<1>1. Only(s, u, F)
  BY OnlyTrans DEF Moves
<1>2. ASSUME u.ok PROVE Sound(u) /\ \A x \in Assets : Tot(u, x) = Tot(s, x)
  <2>1. t.ok
    BY <1>2 DEF Stops
  <2>2. Sound(t) /\ \A x \in Assets : Tot(t, x) = Tot(s, x)
    BY <2>1, MovesZero
  <2>3. Sound(u) /\ \A x \in Assets : Tot(u, x) = Tot(t, x)
    BY <1>2, <2>1, <2>2, MovesZero
  <2> QED BY <2>2, <2>3
<1> QED BY <1>1, <1>2, SameMoves

LEMMA MovesWider ==
  ASSUME NEW s, NEW t, NEW F, NEW G, F \subseteq G, Moves(s, t, F, "core", 0, 0)
  PROVE  Moves(s, t, G, "core", 0, 0)
BY DEF Moves, Only

AllBidFields == BidFields \cup {"done", "hung"}

LEMMA CancelBidStepIs ==
  ASSUME NEW s, Sound(s)
  PROVE  LET t == CancelBidStep(s) IN Moves(s, t, AllBidFields, "core", 0, 0) /\ Stops(s, t)
<1> DEFINE b == CHOOSE x \in s.bids : TRUE
           t == CancelBidStep(s)
<1>0. DOMAIN s = Fields
  BY SoundTables
<1>1. CASE s.bids = {}
  <2>1. t = Done(s)
    BY <1>1 DEF CancelBidStep
  <2> HIDE DEF t
  <2>2. Only(s, t, {"done"}) /\ Alike(s, t) /\ Stops(s, t)
    BY <1>0, <2>1, DoneIs
  <2>3. Only(s, t, AllBidFields)
    BY <2>2 DEF Only, AllBidFields
  <2> QED BY <2>2, <2>3, MovesNothing DEF t
<1>2. CASE s.bids # {}
  <2>1. t = cancel_bid(s, b) /\ b \in s.bids
    BY <1>2 DEF CancelBidStep
  <2> HIDE DEF t, b
  <2>2. Moves(s, t, BidFields, "core", 0, 0)
    BY <2>1, CancelBid
  <2>3. Stops(s, t)
    BY <1>0, <2>1, CancelBidStops
  <2>4. BidFields \subseteq AllBidFields
    BY DEF AllBidFields
  <2>5. Moves(s, t, AllBidFields, "core", 0, 0)
    BY <2>2, <2>4, MovesWider
  <2> QED BY <2>3, <2>5 DEF t
<1> QED BY <1>1, <1>2

LEMMA CancelBidsIs ==
  ASSUME NEW s, Sound(s), NEW n \in Nat, NEW u, u = CancelBids(s, n)
  PROVE  Moves(s, u, AllBidFields, "core", 0, 0) /\ Stops(s, u)
<1> DEFINE k == [loop |-> "bids"]
<1>0. DOMAIN s = Fields /\ s.ok /\ k.loop = "bids"
  BY SoundTables
<1> HIDE DEF k
<1>1. PICK g : Follows(g, k, s, n) /\ u = Ended(g[n])
  <2>1. Runs(u, k, s, n)
    BY <1>0, CancelBidRuns
  <2> QED BY <2>1 DEF Runs
<1> DEFINE X == {x \in {g[i] : i \in 0 .. n} : Moves(s, x, AllBidFields, "core", 0, 0)}
<1>2. g[0] \in X
  <2>1. g[0] = Begun(s) /\ 0 \in 0 .. n
    BY <1>1 DEF Follows
  <2>2. Alike(s, g[0]) /\ Only(s, g[0], {"done"})
    BY <1>0, <2>1, BegunIs
  <2>3. Only(s, g[0], AllBidFields)
    BY <2>2 DEF Only, AllBidFields
  <2> QED BY <2>1, <2>2, <2>3, MovesNothing
<1>3. ASSUME NEW i \in 1 .. n, g[i - 1] \in X PROVE g[i] \in X
  <2> DEFINE x == g[i - 1]
  <2>1. g[i] = Stepped(k, x) /\ Moves(s, x, AllBidFields, "core", 0, 0) /\ i \in 0 .. n
    BY <1>1, <1>3 DEF Follows
  <2>2. CASE x.done \/ ~x.ok
    <3>1. g[i] = x
      BY <2>1, <2>2 DEF Stepped
    <3> QED BY <1>3, <3>1
  <2>3. CASE ~x.done /\ x.ok
    <3>1. g[i] = CancelBidStep(x)
      BY <1>0, <2>1, <2>3 DEF Stepped, AnyStep
    <3>2. Sound(x)
      BY <2>1, <2>3 DEF Moves
    <3> HIDE DEF x
    <3>3. Moves(x, g[i], AllBidFields, "core", 0, 0) /\ Stops(x, g[i])
      BY <3>1, <3>2, CancelBidStepIs
    <3>4. Moves(s, g[i], AllBidFields, "core", 0, 0)
      BY <2>1, <3>3, MovesTrans DEF Moves
    <3> QED BY <2>1, <3>4
  <2> QED BY <2>2, <2>3
<1>4. Moves(s, g[n], AllBidFields, "core", 0, 0)
  <2> HIDE DEF X
  <2>1. \A i \in 0 .. n : g[i] \in X
    BY <1>2, <1>3, StaysIn
  <2> QED BY <2>1 DEF X
<1>5. DOMAIN g[n] = Fields
  BY <1>4 DEF Moves, Only
<1>6. Only(g[n], u, {"hung"}) /\ Alike(g[n], u)
  BY <1>1, <1>5, EndedIs
<1>7. Stops(g[n], u) /\ Only(g[n], u, AllBidFields)
  BY <1>6, AlikeSound DEF Only, AllBidFields
<1>8. g[n].ok => Moves(g[n], u, AllBidFields, "core", 0, 0)
  BY <1>4, <1>6, <1>7, MovesNothing DEF Moves
<1>9. Moves(s, u, AllBidFields, "core", 0, 0)
  BY <1>4, <1>7, <1>8, MovesTrans
<1>10. Stops(s, u)
  BY <1>0, <1>9 DEF Stops, Moves, Only
<1> QED BY <1>9, <1>10

-----------------------------------------------------------------------------
(* A bid becomes a position.                                               *)
NewPosition(s, b, debt, from_fund) ==
  [id |-> NextId(s.calls), borrower |-> b.bidder, debt |-> debt,
   collateral |-> b.collateral + from_fund,
   call_price |-> call_price(debt, b.collateral + from_fund, s.feed.mcr)]
Indebted(s, a, n) == [s.core_in_orders EXCEPT ![a] = @ + n]
ExecuteFields == {"bids", "calls", "core_in_orders"}

LEMMA ExecuteStops ==
  ASSUME NEW s, DOMAIN s = Fields, NEW b, NEW debt, NEW from
  PROVE  LET t == execute_bid(s, b, debt, from) IN
         /\ Only(s, t, ExecuteFields) /\ Stops(s, t)
         /\ t.bids = Without(s.bids, b) /\ t.calls = With(s.calls, NewPosition(s, b, debt, from))
         /\ t.core_in_orders = Indebted(s, b.bidder, b.collateral + from)
<1> DEFINE y == NewPosition(s, b, debt, from)
           c == b.collateral + from
           t == [s EXCEPT !.bids = @ \ {b}, !.calls = @ \cup {y}, !.core_in_orders[b.bidder] = @ + c]
<1>1. execute_bid(s, b, debt, from) = t
  BY DEF execute_bid, NewPosition
<1> HIDE DEF y, c
<1>2. /\ Only(s, t, ExecuteFields) /\ (t.ok <=> s.ok)
      /\ t.bids = s.bids \ {b} /\ t.calls = s.calls \cup {y}
      /\ t.core_in_orders = [s.core_in_orders EXCEPT ![b.bidder] = @ + c]
  BY DEF Only, Fields, ExecuteFields
<1> HIDE DEF t
<1> QED BY <1>1, <1>2 DEF Stops, Only, Without, With, Indebted, y, c

LEMMA NewPositionIs ==
  ASSUME NEW s, Sound(s), s.feed # none, NEW b, b.bidder \in Accounts, b.collateral \in Nat,
         NEW debt \in Positive, NEW from \in Nat
  PROVE  LET y == NewPosition(s, b, debt, from) IN
         /\ y \in Positions /\ y.borrower = b.bidder /\ y.debt = debt
         /\ y.collateral = b.collateral + from /\ \A c \in s.calls : c.id # y.id
<1> DEFINE n == b.collateral + from
           p == call_price(debt, n, s.feed.mcr)
           id == NextId(s.calls)
<1>1. n \in Nat /\ debt \in Nat /\ debt > 0
  BY DEF Positive
<1>2. s.feed.mcr \in Nat /\ s.feed.mcr > 0 /\ RatioDenom \in Nat
  BY SoundFeed, RatioDenomAssumption DEF PriceFeeds, Positive
<1> HIDE DEF n
<1>3. p \in [base : Nat, quote : Positive]
  <2>1. debt * s.feed.mcr \in Nat /\ debt * s.feed.mcr > 0 /\ n * RatioDenom \in Nat
    BY <1>1, <1>2
  <2> QED BY <2>1 DEF call_price, Price, Positive
<1>4. id \in Nat /\ \A c \in s.calls : c.id # id
  <2>1. \A c \in s.calls : c.id \in Nat
    BY SoundTables DEF Positions
  <2> QED BY <2>1, SoundTables, NextIdIs
<1> DEFINE y == [id |-> id, borrower |-> b.bidder, debt |-> debt, collateral |-> n, call_price |-> p]
<1>5. NewPosition(s, b, debt, from) = y
  BY DEF NewPosition, n
<1> HIDE DEF p, id
<1>6. /\ y \in Positions /\ y.borrower = b.bidder /\ y.debt = debt
      /\ y.collateral = n /\ y.id = id
  BY <1>1, <1>3, <1>4 DEF Positions
<1> HIDE DEF y
<1> QED BY <1>4, <1>5, <1>6 DEF n

LEMMA ExecuteIs ==
  ASSUME NEW s, Sound(s), s.feed # none, NEW b, b.bidder \in Accounts, b.collateral \in Nat,
         NEW debt \in Positive, NEW from \in Nat, \A c \in s.calls : c.borrower # b.bidder,
         Table(Without(s.bids, b), Offers), Unique(Without(s.bids, b), "bidder"),
         NEW t, t = execute_bid(s, b, debt, from)
  PROVE  /\ Sound(t) /\ TotalMia(t) = TotalMia(s) /\ Debt(t) = Debt(s) + debt
         /\ TotalCore(t) = TotalCore(s) - Total(s.bids, "collateral")
                           + Total(t.bids, "collateral") + b.collateral + from
         /\ \A c \in t.calls : c \in s.calls \/ c.borrower = b.bidder
<1> DEFINE y == NewPosition(s, b, debt, from)
           n == b.collateral + from
           N == With(s.calls, y)
<1>0. DOMAIN s = Fields /\ s.ok
  BY SoundTables
<1>1. /\ Only(s, t, ExecuteFields) /\ Stops(s, t)
      /\ t.bids = Without(s.bids, b) /\ t.calls = N
      /\ t.core_in_orders = Indebted(s, b.bidder, n)
  BY <1>0, ExecuteStops
<1>2. /\ y \in Positions /\ y.borrower = b.bidder /\ y.debt = debt
      /\ y.collateral = n /\ \A c \in s.calls : c.id # y.id
  BY NewPositionIs
<1>3. n \in Nat /\ debt \in Nat
  BY DEF Positive
<1> HIDE DEF y, n
<1>4. /\ Table(N, Positions)
      /\ \A a \in Accounts : /\ OfPositions(s.calls, a) \in Int
                            /\ OfPositions(N, a) = OfPositions(s.calls, a) + InPosition(y, a)
      /\ Total(s.calls, "debt") \in Int /\ Total(s.calls, "collateral") \in Int
      /\ Total(N, "debt") = Total(s.calls, "debt") + y.debt
      /\ Total(N, "collateral") = Total(s.calls, "collateral") + y.collateral
  BY <1>2, PositionNew DEF Sound
<1>5. Unique(N, "borrower")
  <2>1. \A c \in s.calls : c["borrower"] # y["borrower"]
    BY <1>2
  <2> QED BY <2>1, UniqueNew DEF Sound
<1>6. \A c \in t.calls : c \in s.calls \/ c.borrower = b.bidder
  BY <1>1, <1>2 DEF With
<1> HIDE DEF N
<1>7. /\ DOMAIN t = Fields /\ t.ok /\ t.balance = s.balance /\ t.limits = s.limits
      /\ t.settles = s.settles /\ t.supply = s.supply
      /\ t.feeds = s.feeds /\ t.feed = s.feed /\ t.published = s.published
      /\ t.settlement_price = s.settlement_price /\ t.settlement_fund = s.settlement_fund
      /\ t.force_settled_volume = s.force_settled_volume
      /\ t.accumulated_fees = s.accumulated_fees /\ t.fee_pool = s.fee_pool
      /\ t.paid_fees = s.paid_fees
  BY <1>0, <1>1 DEF Only, Fields, ExecuteFields
<1>8. t.core_in_orders \in [Accounts -> Int]
      /\ \A a \in Accounts : t.core_in_orders[a] =
           s.core_in_orders[a] + IF b.bidder = a THEN n ELSE 0
  <2>1. s.core_in_orders \in [Accounts -> Int]
    BY DEF Sound
  <2> QED BY <1>1, <1>3, <2>1 DEF Indebted
<1>9. ASSUME NEW a \in Accounts
      PROVE  t.core_in_orders[a] = OfOrders(t.limits, a) + OfPositions(t.calls, a)
  <2> DEFINE d == IF b.bidder = a THEN n ELSE 0
  <2>1. t.core_in_orders[a] = s.core_in_orders[a] + d
    BY <1>8
  <2>2. InPosition(y, a) = d
    BY <1>2 DEF InPosition
  <2>3. OfPositions(t.calls, a) = OfPositions(s.calls, a) + d /\ OfPositions(s.calls, a) \in Int
    BY <1>1, <1>4, <2>2
  <2>4. s.core_in_orders[a] = OfOrders(s.limits, a) + OfPositions(s.calls, a)
        /\ s.core_in_orders[a] \in Int
    BY DEF Sound, CoreInOrders
  <2>5. OfOrders(s.limits, a) \in Int
    BY OrderSums DEF Sound
  <2>6. d \in Int
    BY <1>3
  <2> HIDE DEF d
  <2> QED BY <1>7, <2>1, <2>3, <2>4, <2>5, <2>6
<1>10. Sound(t)
  BY <1>1, <1>4, <1>5, <1>7, <1>8, <1>9 DEF Sound, CoreInOrders
<1>11. TotalMia(t) = TotalMia(s)
  BY <1>7 DEF TotalMia
<1>12. Debt(t) = Debt(s) + debt
  BY <1>1, <1>2, <1>4 DEF Debt
<1>13. TotalCore(t) = TotalCore(s) - Total(s.bids, "collateral") + Total(t.bids, "collateral") + n
  <2>1. TotalCore(t) =
          Held(s.balance, "core") + ForSale(s.limits, "core")
          + Total(s.limits, "deferred_fee") + (Total(s.calls, "collateral") + n)
          + Total(t.bids, "collateral") + s.settlement_fund + s.fee_pool
          + s.paid_fees + s.accumulated_fees["core"]
    BY <1>1, <1>2, <1>4, <1>7 DEF TotalCore
  <2>2. TotalCore(s) =
          Held(s.balance, "core") + ForSale(s.limits, "core")
          + Total(s.limits, "deferred_fee") + Total(s.calls, "collateral")
          + Total(s.bids, "collateral") + s.settlement_fund + s.fee_pool
          + s.paid_fees + s.accumulated_fees["core"]
    BY DEF TotalCore
  <2>3. /\ Held(s.balance, "core") \in Int /\ ForSale(s.limits, "core") \in Int
        /\ Total(s.limits, "deferred_fee") \in Int /\ Total(s.calls, "collateral") \in Int
        /\ Total(s.bids, "collateral") \in Int /\ s.settlement_fund \in Int
        /\ s.fee_pool \in Int /\ s.paid_fees \in Int /\ s.accumulated_fees["core"] \in Int
    BY SoundParts, AssetsAre
  <2>4. Total(t.bids, "collateral") \in Int
    BY <1>10, SoundParts
  <2> QED BY <1>3, <2>1, <2>2, <2>3, <2>4
<1>14. TotalCore(s) \in Int /\ Total(s.bids, "collateral") \in Int /\ Total(t.bids, "collateral") \in Int
  BY <1>10, SoundParts
<1>15. TotalCore(t) = TotalCore(s) - Total(s.bids, "collateral")
                      + Total(t.bids, "collateral") + b.collateral + from
  BY <1>13, <1>14 DEF n
<1> QED BY <1>6, <1>10, <1>11, <1>12, <1>15

-----------------------------------------------------------------------------
(* The rest of the bids is cancelled, and the settlement is over.          *)
Unsettled(u) == [u EXCEPT !.settlement_price = null, !.settlement_fund = 0]

LEMMA UnsettledIs ==
  ASSUME NEW u, DOMAIN u = Fields
  PROVE  /\ Only(u, Unsettled(u), {"settlement_price", "settlement_fund"})
         /\ Unsettled(u).settlement_price = null /\ Unsettled(u).settlement_fund = 0
         /\ Stops(u, Unsettled(u))
BY DEF Unsettled, Only, Fields, Stops

LEMMA RevivedIs ==
  ASSUME NEW s, DOMAIN s = Fields, s.ok => Sound(s),
         NEW t, t = _cancel_bids_and_revive_mpa(s)
  PROVE  /\ Stops(s, t)
         /\ t.ok => /\ Sound(t) /\ TotalCore(t) = TotalCore(s) - s.settlement_fund
                    /\ TotalMia(t) = TotalMia(s) /\ t.supply = s.supply /\ t.calls = s.calls
                    /\ ~has_settlement(t) /\ t.settlement_fund = 0
<1> DEFINE n == Cardinality(s.bids) + 1
           u == CancelBids(s, n)
<1>1. t = Unsettled(u)
  BY DEF _cancel_bids_and_revive_mpa, CancelBids, Unsettled
<1>2. CASE ~s.ok
  <2>1. u = s
    BY <1>2, NoLoop
  <2>2. Stops(s, t)
    BY <1>1, <2>1, UnsettledIs
  <2> QED BY <1>2, <2>2 DEF Stops
<1>3. CASE s.ok
  <2>1. n \in Nat
    BY <1>3, SoundTables, FS_CardinalityType
  <2> HIDE DEF n
  <2>2. Moves(s, u, AllBidFields, "core", 0, 0) /\ Stops(s, u)
    BY <1>3, <2>1, CancelBidsIs
  <2> HIDE DEF u
  <2>3. /\ Only(u, t, {"settlement_price", "settlement_fund"}) /\ Stops(u, t)
        /\ t.settlement_price = null /\ t.settlement_fund = 0
    BY <1>1, <2>2, UnsettledIs DEF Stops
  <2>4. Stops(s, t)
    BY <2>2, <2>3 DEF Stops
  <2>5. SUFFICES ASSUME t.ok
        PROVE  /\ Sound(t) /\ TotalCore(t) = TotalCore(s) - s.settlement_fund
               /\ TotalMia(t) = TotalMia(s) /\ t.supply = s.supply /\ t.calls = s.calls
               /\ ~has_settlement(t) /\ t.settlement_fund = 0
    BY <2>4
  <2>6. u.ok
    BY <2>3, <2>5 DEF Stops
  <2>7. Sound(u) /\ TotalCore(u) = TotalCore(s) /\ TotalMia(u) = TotalMia(s)
    BY <2>2, <2>6, <1>3, MovesZero, OtherIs, AssetsAre
  <2>8. u.settlement_fund = s.settlement_fund /\ u.supply = s.supply /\ u.calls = s.calls
    BY <2>2 DEF Moves, Only, Fields, AllBidFields, BidFields
  <2>9. /\ DOMAIN t = Fields /\ t.balance = u.balance /\ t.limits = u.limits
        /\ t.settles = u.settles /\ t.bids = u.bids /\ t.calls = u.calls /\ t.supply = u.supply
        /\ t.core_in_orders = u.core_in_orders
        /\ t.feeds = u.feeds /\ t.feed = u.feed /\ t.published = u.published
        /\ t.force_settled_volume = u.force_settled_volume
        /\ t.accumulated_fees = u.accumulated_fees /\ t.fee_pool = u.fee_pool
        /\ t.paid_fees = u.paid_fees
    BY <2>3 DEF Only, Fields
  <2>10. Sound(t)
    BY <2>3, <2>5, <2>7, <2>9 DEF Sound, CoreInOrders
  <2>11. TotalMia(t) = TotalMia(s)
    BY <2>7, <2>9 DEF TotalMia
  <2>12. TotalCore(t) = TotalCore(u) - u.settlement_fund
    <3>1. TotalCore(t) =
          Held(u.balance, "core") + ForSale(u.limits, "core")
          + Total(u.limits, "deferred_fee") + Total(u.calls, "collateral")
          + Total(u.bids, "collateral") + 0 + u.fee_pool
          + u.paid_fees + u.accumulated_fees["core"]
      BY <2>3, <2>9 DEF TotalCore
    <3>2. TotalCore(u) =
          Held(u.balance, "core") + ForSale(u.limits, "core")
          + Total(u.limits, "deferred_fee") + Total(u.calls, "collateral")
          + Total(u.bids, "collateral") + u.settlement_fund + u.fee_pool
          + u.paid_fees + u.accumulated_fees["core"]
      BY DEF TotalCore
    <3>3. /\ Held(u.balance, "core") \in Int /\ ForSale(u.limits, "core") \in Int
          /\ Total(u.limits, "deferred_fee") \in Int /\ Total(u.calls, "collateral") \in Int
          /\ Total(u.bids, "collateral") \in Int /\ u.settlement_fund \in Int
          /\ u.fee_pool \in Int /\ u.paid_fees \in Int /\ u.accumulated_fees["core"] \in Int
      BY <2>7, SoundParts, AssetsAre
    <3> QED BY <3>1, <3>2, <3>3
  <2>13. ~has_settlement(t)
    BY <2>3 DEF has_settlement
  <2> QED BY <2>3, <2>7, <2>8, <2>9, <2>10, <2>11, <2>12, <2>13
<1> QED BY <1>2, <1>3

(* What revives a settled asset keeps the books when all of the debt and   *)
(* of the fund was taken over.                                             *)
LEMMA RevivalKeeps ==
  ASSUME NEW s, Proper(s), NEW u, Stops(s, u),
         u.ok => /\ Sound(u) /\ TotalMia(u) = TotalMia(s) /\ u.supply = s.supply
                 /\ Debt(u) = s.supply
                 /\ TotalCore(u) = TotalCore(s) + u.settlement_fund
  PROVE  Keeps(s, _cancel_bids_and_revive_mpa(u))
<1> DEFINE t == _cancel_bids_and_revive_mpa(u)
<1>1. DOMAIN u = Fields
  BY DEF Stops
<1>2. /\ Stops(u, t)
      /\ t.ok => /\ Sound(t) /\ TotalCore(t) = TotalCore(u) - u.settlement_fund
                 /\ TotalMia(t) = TotalMia(u) /\ t.supply = u.supply /\ t.calls = u.calls
                 /\ ~has_settlement(t) /\ t.settlement_fund = 0
  BY <1>1, RevivedIs
<1> HIDE DEF t
<1>3. Stops(s, t)
  BY <1>2 DEF Stops
<1>4. ASSUME NEW k \in Int, NEW m \in Int, Books(s, k, m), t.ok PROVE Books(t, k, m)
  <2>1. u.ok
    BY <1>2, <1>4 DEF Stops
  <2>2. TotalCore(s) = k /\ TotalMia(s) = s.supply + m /\ s.supply \in Nat
    BY <1>4 DEF Books
  <2>3. u.settlement_fund \in Int
    BY <2>1, SoundParts
  <2>4. TotalCore(t) = k
    BY <1>2, <1>4, <2>1, <2>2, <2>3
  <2>5. DebtIsSupply(t)
    BY <1>2, <1>4, <2>1 DEF DebtIsSupply, Debt
  <2>6. FundCovers(t)
    BY <1>2, <1>4 DEF FundCovers
  <2> QED BY <1>2, <1>4, <2>1, <2>2, <2>4, <2>5, <2>6 DEF Books
<1>5. Keeps(s, t)
  BY <1>3, <1>4 DEF Keeps
<1> QED BY <1>5 DEF t

-----------------------------------------------------------------------------
LEMMA ReviveKeeps ==
  ASSUME NEW s, Proper(s), s.ok, has_settlement(s), s.feed # none
  PROVE  Keeps(s, revive_bitasset(s))
<1> DEFINE bid == [bidder |-> Issuer, collateral |-> 0]
           unique == \A b \in s.bids : b.bidder # Issuer
           r == Require(s, unique)
           e == execute_bid(r, bid, s.supply, s.settlement_fund)
           z == Require(s, s.settlement_fund = 0)
<1>1. revive_bitasset(s) = _cancel_bids_and_revive_mpa(IF s.supply > 0 THEN e ELSE z)
  BY DEF revive_bitasset
<1>2. /\ DOMAIN s = Fields /\ Sound(s) /\ s.calls = {} /\ s.supply \in Nat /\ s.settlement_fund \in Nat
      /\ TotalCore(s) \in Int /\ TotalMia(s) \in Int /\ Debt(s) = 0
  <2>1. DOMAIN s = Fields /\ Sound(s) /\ s.supply \in Nat /\ DebtIsSupply(s)
    BY DEF Proper
  <2>2. s.calls = {}
    BY <2>1 DEF DebtIsSupply
  <2>3. Debt(s) = 0
    BY <2>2, TotalNone DEF Debt
  <2> QED BY <2>1, <2>2, <2>3, SoundParts
<1>3. CASE s.supply > 0
  <2>1. Stops(s, r) /\ (r.ok => Alike(s, r)) /\ (r.ok => unique)
    <3>1. r.ok => unique
      BY <1>2 DEF Require, Fields
    <3> QED BY <1>2, <3>1, RequireStops
  <2>2. DOMAIN r = Fields
    BY <2>1 DEF Stops
  <2>3. bid.bidder = Issuer /\ bid.collateral = 0 /\ Issuer \in Accounts
    BY OrdersAssumption
  <2> HIDE DEF r, bid
  <2>4. Stops(r, e) /\ Only(r, e, ExecuteFields) /\ e.bids = Without(r.bids, bid)
    BY <2>2, ExecuteStops
  <2>5. Stops(s, e)
    BY <2>1, <2>4 DEF Stops
  <2>6. ASSUME e.ok
        PROVE  /\ Sound(e) /\ TotalMia(e) = TotalMia(s) /\ e.supply = s.supply
               /\ Debt(e) = s.supply
               /\ TotalCore(e) = TotalCore(s) + e.settlement_fund
    <3>1. r.ok /\ Alike(s, r) /\ unique
      BY <2>1, <2>4, <2>6 DEF Stops
    <3>2. Sound(r) /\ TotalCore(r) = TotalCore(s) /\ TotalMia(r) = TotalMia(s) /\ Debt(r) = 0
      BY <1>2, <3>1, AlikeSound
    <3>3. r.calls = {} /\ r.bids = s.bids /\ r.feed = s.feed /\ r.supply = s.supply
          /\ r.settlement_fund = s.settlement_fund
      BY <1>2, <3>1 DEF Alike
    <3>4. Without(r.bids, bid) = r.bids
      BY <2>3, <3>1, <3>3 DEF Without
    <3>5. Table(Without(r.bids, bid), Offers) /\ Unique(Without(r.bids, bid), "bidder")
      BY <3>2, <3>4 DEF Sound
    <3>6. s.supply \in Positive /\ r.feed # none /\ bid.bidder \in Accounts /\ bid.collateral \in Nat
          /\ \A c \in r.calls : c.borrower # bid.bidder
      BY <1>2, <1>3, <2>3, <3>3 DEF Positive
    <3> HIDE DEF e
    <3>7. /\ Sound(e) /\ TotalMia(e) = TotalMia(r) /\ Debt(e) = Debt(r) + s.supply
          /\ TotalCore(e) = TotalCore(r) - Total(r.bids, "collateral")
                            + Total(e.bids, "collateral") + bid.collateral + s.settlement_fund
      BY <1>2, <3>2, <3>5, <3>6, ExecuteIs DEF e
    <3>8. e.supply = r.supply /\ e.settlement_fund = r.settlement_fund
      BY <2>4 DEF Only, Fields, ExecuteFields
    <3>9. Total(r.bids, "collateral") \in Int /\ Total(e.bids, "collateral") = Total(r.bids, "collateral")
      BY <2>4, <3>2, <3>4, SoundParts
    <3>10. TotalCore(e) = TotalCore(s) + e.settlement_fund
      BY <1>2, <2>3, <3>2, <3>3, <3>7, <3>8, <3>9
    <3> QED BY <1>2, <3>2, <3>3, <3>7, <3>8, <3>10
  <2> HIDE DEF e
  <2>7. Keeps(s, _cancel_bids_and_revive_mpa(e))
    BY <2>5, <2>6, RevivalKeeps
  <2> QED BY <1>1, <1>3, <2>7
<1>4. CASE ~(s.supply > 0)
  <2>1. Stops(s, z) /\ (z.ok => Alike(s, z)) /\ (z.ok => s.settlement_fund = 0)
    <3>1. z.ok => s.settlement_fund = 0
      BY <1>2 DEF Require, Fields
    <3> QED BY <1>2, <3>1, RequireStops
  <2> HIDE DEF z
  <2>2. ASSUME z.ok
        PROVE  /\ Sound(z) /\ TotalMia(z) = TotalMia(s) /\ z.supply = s.supply
               /\ Debt(z) = s.supply
               /\ TotalCore(z) = TotalCore(s) + z.settlement_fund
    <3>1. Sound(z) /\ TotalMia(z) = TotalMia(s) /\ TotalCore(z) = TotalCore(s) /\ Debt(z) = 0
      BY <1>2, <2>1, <2>2, AlikeSound
    <3>2. z.supply = s.supply /\ z.settlement_fund = 0
      BY <2>1, <2>2 DEF Alike
    <3>3. s.supply = 0
      BY <1>2, <1>4
    <3> QED BY <1>2, <3>1, <3>2, <3>3
  <2>3. Keeps(s, _cancel_bids_and_revive_mpa(z))
    BY <2>1, <2>2, RevivalKeeps
  <2> QED BY <1>1, <1>4, <2>3
<1> QED BY <1>3, <1>4

-----------------------------------------------------------------------------
(* The bids in order.                                                      *)
Better(b, x) == Below(Price(x.collateral, x.debt), Price(b.collateral, b.debt))
BidOrder(B) ==
  {p \in B \X B : Better(p[1], p[2]) \/ (~Better(p[2], p[1]) /\ p[1].id < p[2].id)}
Rank(B, b) ==
  Cardinality({x \in B : Better(x, b) \/ (~Better(b, x) /\ x.id < b.id)})

LEMMA BidIs ==
  ASSUME NEW s, IsFiniteSet(s.bids), s.bids \subseteq Offers, Unique(s.bids, "id"),
         NEW k \in 1 .. Cardinality(s.bids)
  PROVE  Bid(s, k) \in s.bids /\ Rank(s.bids, Bid(s, k)) = k - 1
<1> DEFINE B == s.bids
           R == BidOrder(B)
           P(b) == Cardinality({x \in B : Better(x, b) \/ (~Better(b, x) /\ x.id < b.id)}) = k - 1
<1>1. Bid(s, k) = CHOOSE b \in B : P(b)
  BY DEF Bid, Better
<1>2. \A x \in B : x.id \in Nat /\ Price(x.collateral, x.debt) \in Ratios
  BY DEF Offers, Price, Ratios
<1>3. \A x, y, z \in B : /\ ~(Better(x, y) /\ Better(y, x))
                         /\ ~Better(y, x) /\ ~Better(z, y) => ~Better(z, x)
                         /\ Better(x, y) /\ ~Better(z, y) => Better(x, z)
                         /\ ~Better(y, x) /\ Better(y, z) => Better(x, z)
  <2> SUFFICES ASSUME NEW x \in B, NEW y \in B, NEW z \in B
               PROVE  /\ ~(Better(x, y) /\ Better(y, x))
                      /\ ~Better(y, x) /\ ~Better(z, y) => ~Better(z, x)
                      /\ Better(x, y) /\ ~Better(z, y) => Better(x, z)
                      /\ ~Better(y, x) /\ Better(y, z) => Better(x, z)
    OBVIOUS
  <2> DEFINE px == Price(x.collateral, x.debt)
             py == Price(y.collateral, y.debt)
             pz == Price(z.collateral, z.debt)
  <2>1. px \in Ratios /\ py \in Ratios /\ pz \in Ratios
    BY <1>2
  <2>2. /\ Better(x, y) = Below(py, px) /\ Better(y, x) = Below(px, py)
        /\ Better(y, z) = Below(pz, py) /\ Better(z, y) = Below(py, pz)
        /\ Better(x, z) = Below(pz, px) /\ Better(z, x) = Below(px, pz)
    BY DEF Better
  <2> HIDE DEF px, py, pz
  <2>3. /\ ~(Below(py, px) /\ Below(px, py))
        /\ ~Below(px, py) /\ ~Below(py, pz) => ~Below(px, pz)
        /\ Below(py, px) /\ ~Below(py, pz) => Below(pz, px)
        /\ ~Below(px, py) /\ Below(pz, py) => Below(pz, px)
    BY <2>1, BelowOrders
  <2> QED BY <2>2, <2>3
<1>4. \A x, y \in B : <<x, y>> \in R <=> Better(x, y) \/ (~Better(y, x) /\ x.id < y.id)
  BY DEF BidOrder
<1>5. \A x, y \in B : x.id = y.id => x = y
  <2>1. \A x, y \in B : x["id"] = y["id"] => x = y
    BY DEF Unique
  <2> QED BY <2>1
<1>6. \A x, y \in B : x # y => <<x, y>> \in R \/ <<y, x>> \in R
  BY <1>2, <1>3, <1>4, <1>5
<1>7. \A x \in B : <<x, x>> \notin R
  BY <1>2, <1>3, <1>4
<1>8. \A x, y, z \in B : <<x, y>> \in R /\ <<y, z>> \in R => <<x, z>> \in R
  <2> SUFFICES ASSUME NEW x \in B, NEW y \in B, NEW z \in B, <<x, y>> \in R, <<y, z>> \in R
               PROVE  <<x, z>> \in R
    OBVIOUS
  <2> HIDE DEF R
  <2>1. /\ Better(x, y) \/ (~Better(y, x) /\ x.id < y.id)
        /\ Better(y, z) \/ (~Better(z, y) /\ y.id < z.id)
    BY <1>4
  <2>2. Better(x, z) \/ (~Better(z, x) /\ x.id < z.id)
    BY <1>2, <1>3, <2>1
  <2> QED BY <1>4, <2>2
<1> HIDE DEF R
<1>9. PICK b \in B : Cardinality(Preceding(R, B, b)) = k - 1
  BY <1>6, <1>7, <1>8, Ranks
<1>10. Preceding(R, B, b) = {x \in B : Better(x, b) \/ (~Better(b, x) /\ x.id < b.id)}
  BY <1>4 DEF Preceding
<1>11. P(b)
  BY <1>9, <1>10
<1>12. Bid(s, k) \in B /\ P(Bid(s, k))
  <2> HIDE DEF P
  <2> QED BY <1>1, <1>11
<1> QED BY <1>12 DEF Rank

LEMMA BidsDiffer ==
  ASSUME NEW s, IsFiniteSet(s.bids), s.bids \subseteq Offers, Unique(s.bids, "id"),
         NEW i \in 1 .. Cardinality(s.bids), NEW j \in 1 .. Cardinality(s.bids), i # j
  PROVE  Bid(s, i) # Bid(s, j)
<1>1. Rank(s.bids, Bid(s, i)) = i - 1 /\ Rank(s.bids, Bid(s, j)) = j - 1
  BY BidIs
<1>2. i \in Int /\ j \in Int
  BY FS_CardinalityType
<1> QED BY <1>1, <1>2

-----------------------------------------------------------------------------
(* What the first bids take over.                                          *)
LEMMA UpTo ==
  ASSUME NEW k \in Nat
  PROVE  /\ IsFiniteSet(1 .. k) /\ With(1 .. k, k + 1) = 1 .. k + 1 /\ k + 1 \notin 1 .. k
BY FS_Interval DEF With

(* The sum over 1 .. k grows by its last term. *)
LEMMA SumUpTo ==
  ASSUME NEW k \in Nat, NEW f \in [1 .. k -> Int], NEW e \in [1 .. k + 1 -> Int],
         \A i \in 1 .. k : e[i] = f[i]
  PROVE  SumFunction(f) \in Int /\ SumFunction(e) = SumFunction(f) + e[k + 1]
<1> DEFINE S == 1 .. k
           y == k + 1
<1>1. IsFiniteSet(S) /\ With(S, y) = 1 .. k + 1 /\ y \notin S
  BY UpTo
<1>2. f \in [S -> Int] /\ e \in [With(S, y) -> Int] /\ \A i \in S : e[i] = f[i]
  BY <1>1
<1> HIDE DEF S
<1>3. SumFunction(f) \in Int /\ SumFunction(e) = SumFunction(f) + e[y]
  BY <1>1, <1>2, SumNew
<1> QED BY <1>3

(* The bids of s are in order, and its settlement price is one.            *)
Biddable(s) ==
  /\ Table(s.bids, Offers) /\ Unique(s.bids, "bidder")
  /\ s.settlement_price.base \in Positive /\ s.settlement_price.quote \in Nat

LEMMA BidParts ==
  ASSUME NEW s, Biddable(s), NEW k \in 1 .. Cardinality(s.bids)
  PROVE  LET b == Bid(s, k) IN
         /\ b \in s.bids /\ b.debt \in Positive /\ b.debt \in Nat /\ b.collateral \in Nat
         /\ b.bidder \in Accounts /\ b.id \in Nat
         /\ FromFund(s, b) \in Nat
         /\ FromFund(s, b) * s.settlement_price.base <= b.debt * s.settlement_price.quote
<1> DEFINE b == Bid(s, k)
<1>1. b \in s.bids /\ b \in Offers
  BY BidIs DEF Biddable, Table
<1> HIDE DEF b
<1>2. /\ b.debt \in Positive /\ b.debt \in Nat /\ b.collateral \in Nat
      /\ b.bidder \in Accounts /\ b.id \in Nat
  BY <1>1 DEF Offers, Positive
<1>3. /\ FromFund(s, b) \in Nat
      /\ FromFund(s, b) * s.settlement_price.base <= b.debt * s.settlement_price.quote
  BY <1>2, RoundDown DEF Biddable, FromFund
<1> QED BY <1>1, <1>2, <1>3 DEF b

LEMMA SizeOfBids ==
  ASSUME NEW s, Biddable(s)
  PROVE  Cardinality(s.bids) \in Nat
BY FS_CardinalityType DEF Biddable, Table

LEMMA CoveredIs ==
  ASSUME NEW s, Biddable(s)
  PROVE  /\ Covered(s, 0) = 0 /\ Taken(s, 0) = 0
         /\ \A k \in Nat : k < Cardinality(s.bids) =>
              /\ Covered(s, k) \in Int /\ Covered(s, k + 1) = Covered(s, k) + Bid(s, k + 1).debt
              /\ Taken(s, k) \in Int /\ Taken(s, k + 1) = Taken(s, k) + FromFund(s, Bid(s, k + 1))
<1>0. Cardinality(s.bids) \in Nat
  BY SizeOfBids
<1>1. Covered(s, 0) = 0
  <2>1. [i \in 1 .. 0 |-> Bid(s, i).debt] \in [{} -> Int]
    OBVIOUS
  <2> QED BY <2>1, SumOfNothing DEF Covered
<1>2. Taken(s, 0) = 0
  <2>1. [i \in 1 .. 0 |-> FromFund(s, Bid(s, i))] \in [{} -> Int]
    OBVIOUS
  <2> QED BY <2>1, SumOfNothing DEF Taken
<1>3. ASSUME NEW k \in Nat, k < Cardinality(s.bids)
      PROVE  /\ Covered(s, k) \in Int /\ Covered(s, k + 1) = Covered(s, k) + Bid(s, k + 1).debt
             /\ Taken(s, k) \in Int /\ Taken(s, k + 1) = Taken(s, k) + FromFund(s, Bid(s, k + 1))
  <2>1. \A i \in 1 .. k + 1 : Bid(s, i).debt \in Int /\ FromFund(s, Bid(s, i)) \in Int
    <3>1. \A i \in 1 .. k + 1 : i \in 1 .. Cardinality(s.bids)
      BY <1>0, <1>3
    <3> QED BY <3>1, BidParts
  <2> DEFINE f == [i \in 1 .. k |-> Bid(s, i).debt]
             e == [i \in 1 .. k + 1 |-> Bid(s, i).debt]
             g == [i \in 1 .. k |-> FromFund(s, Bid(s, i))]
             h == [i \in 1 .. k + 1 |-> FromFund(s, Bid(s, i))]
  <2>2. f \in [1 .. k -> Int] /\ e \in [1 .. k + 1 -> Int] /\ \A i \in 1 .. k : e[i] = f[i]
    BY <2>1
  <2>3. g \in [1 .. k -> Int] /\ h \in [1 .. k + 1 -> Int] /\ \A i \in 1 .. k : h[i] = g[i]
    BY <2>1
  <2>4. e[k + 1] = Bid(s, k + 1).debt /\ h[k + 1] = FromFund(s, Bid(s, k + 1))
    OBVIOUS
  <2>5. /\ Covered(s, k) = SumFunction(f) /\ Covered(s, k + 1) = SumFunction(e)
        /\ Taken(s, k) = SumFunction(g) /\ Taken(s, k + 1) = SumFunction(h)
    BY DEF Covered, Taken
  <2> HIDE DEF f, e, g, h
  <2>6. SumFunction(f) \in Int /\ SumFunction(e) = SumFunction(f) + e[k + 1]
    BY <2>2, SumUpTo
  <2>7. SumFunction(g) \in Int /\ SumFunction(h) = SumFunction(g) + h[k + 1]
    BY <2>3, SumUpTo
  <2> QED BY <2>4, <2>5, <2>6, <2>7
<1> QED BY <1>1, <1>2, <1>3

(* What is taken from the fund is worth no more than the debt it is for.   *)
LEMMA TakenAtMost ==
  ASSUME NEW s, Biddable(s)
  PROVE  \A k \in Nat : k <= Cardinality(s.bids) =>
           /\ Covered(s, k) \in Nat /\ Taken(s, k) \in Nat
           /\ Taken(s, k) * s.settlement_price.base <= Covered(s, k) * s.settlement_price.quote
<1> DEFINE c == Cardinality(s.bids)
           p == s.settlement_price.base
           q == s.settlement_price.quote
           P(k) == /\ Covered(s, k) \in Nat /\ Taken(s, k) \in Nat
                   /\ Taken(s, k) * p <= Covered(s, k) * q
           S == {k \in Nat : k <= c => P(k)}
<1>0. c \in Nat /\ p \in Nat /\ q \in Nat
  BY SizeOfBids DEF Biddable, Positive
<1>1. 0 \in S
  <2>1. P(0)
    BY <1>0, CoveredIs
  <2> QED BY <2>1
<1>2. ASSUME NEW k \in Nat, k \in S PROVE k + 1 \in S
  <2>1. SUFFICES ASSUME k + 1 <= c PROVE P(k + 1)
    OBVIOUS
  <2>2. P(k) /\ k < c
    BY <1>0, <1>2, <2>1
  <2>a. k + 1 \in 1 .. c
    BY <1>0, <2>1
  <2>3. /\ Covered(s, k + 1) = Covered(s, k) + Bid(s, k + 1).debt
        /\ Taken(s, k + 1) = Taken(s, k) + FromFund(s, Bid(s, k + 1))
    BY <2>2, CoveredIs
  <2>4. /\ Bid(s, k + 1).debt \in Nat /\ FromFund(s, Bid(s, k + 1)) \in Nat
        /\ FromFund(s, Bid(s, k + 1)) * p <= Bid(s, k + 1).debt * q
    BY <2>a, BidParts
  <2> DEFINE d == Bid(s, k + 1).debt
             f == FromFund(s, Bid(s, k + 1))
             C == Covered(s, k)
             T == Taken(s, k)
  <2>5. d \in Nat /\ f \in Nat /\ f * p <= d * q /\ C \in Nat /\ T \in Nat /\ T * p <= C * q
    BY <2>2, <2>4
  <2> HIDE DEF d, f, C, T, p, q, c
  <2>6. (T + f) * p = T * p + f * p /\ (C + d) * q = C * q + d * q
    BY <1>0, <2>5
  <2>7. T * p \in Int /\ f * p \in Int /\ C * q \in Int /\ d * q \in Int
    BY <1>0, <2>5
  <2>8. (T + f) * p <= (C + d) * q
    BY <2>5, <2>6, <2>7
  <2> QED BY <2>3, <2>5, <2>8 DEF d, f, C, T
<1>3. Nat \subseteq S
  <2> HIDE DEF S
  <2> QED BY <1>1, <1>2, NatSetInduction
<1> QED BY <1>3

-----------------------------------------------------------------------------
(* process_bids: the bids that are executed, one after the other.          *)
Needed(s) == {k \in 0 .. Cardinality(s.bids) : Covered(s, k) >= s.supply}
Opened(s, n) == Require(s, n > 0 \/ s.settlement_fund = 0)
Executed(s, n, k, x) == execute_bid(x, Bid(s, k), DebtOf(s, k, n), ShareOf(s, k, n))
Executes(g, s, n, m) ==
  g[0] = Opened(s, n) /\ \A i \in 1 .. m : g[i] = Executed(s, n, i, g[i - 1])

Solution(g, s, n, m) == Executes(g, s, n, m) /\ g = [i \in 0 .. m |-> g[i]]

LEMMA ExecutesExists ==
  ASSUME NEW s, NEW n
  PROVE  \A m \in Nat : \E g : Solution(g, s, n, m)
<1> DEFINE S == {m \in Nat : \E g : Executes(g, s, n, m) /\ g = [i \in 0 .. m |-> g[i]]}
<1>1. 0 \in S
  <2> DEFINE g == [i \in 0 .. 0 |-> Opened(s, n)]
  <2>1. Executes(g, s, n, 0)
    BY DEF Executes
  <2>2. g = [i \in 0 .. 0 |-> g[i]]
    OBVIOUS
  <2> HIDE DEF g
  <2> QED BY <2>1, <2>2
<1>2. ASSUME NEW m \in Nat, m \in S PROVE m + 1 \in S
  <2>1. PICK g : Executes(g, s, n, m) /\ g = [i \in 0 .. m |-> g[i]]
    BY <1>2
  <2> DEFINE h == [i \in 0 .. m + 1 |-> IF i = m + 1 THEN Executed(s, n, m + 1, g[m]) ELSE g[i]]
  <2>2. h[0] = g[0] /\ h[m + 1] = Executed(s, n, m + 1, g[m]) /\ \A i \in 0 .. m : h[i] = g[i]
    OBVIOUS
  <2>3. h = [i \in 0 .. m + 1 |-> h[i]]
    OBVIOUS
  <2> HIDE DEF h
  <2>4. ASSUME NEW i \in 1 .. m + 1 PROVE h[i] = Executed(s, n, i, h[i - 1])
    <3>1. CASE i = m + 1
      <4>1. h[i - 1] = g[m]
        BY <2>2, <3>1
      <4> QED BY <2>2, <3>1, <4>1
    <3>2. CASE i \in 1 .. m
      <4>1. h[i] = g[i] /\ h[i - 1] = g[i - 1]
        BY <2>2, <3>2
      <4>2. g[i] = Executed(s, n, i, g[i - 1])
        BY <2>1, <3>2 DEF Executes
      <4> QED BY <4>1, <4>2
    <3> QED BY <3>1, <3>2
  <2>5. Executes(h, s, n, m + 1)
    BY <2>1, <2>2, <2>4 DEF Executes
  <2> QED BY <2>3, <2>5
<1> HIDE DEF S
<1>3. Nat \subseteq S
  BY <1>1, <1>2, NatSetInduction
<1> QED BY <1>3 DEF S, Solution

AllBids(s, n) ==
  LET After[k \in 0 .. Cardinality(s.bids)] ==
        IF k = 0 THEN Require(s, n > 0 \/ s.settlement_fund = 0)
        ELSE execute_bid(After[k - 1], Bid(s, k), DebtOf(s, k, n), ShareOf(s, k, n))
  IN  After[n]

LEMMA AllBidsIs ==
  ASSUME NEW s, NEW n, Cardinality(s.bids) \in Nat
  PROVE  \E g : Executes(g, s, n, Cardinality(s.bids)) /\ AllBids(s, n) = g[n]
<1> DEFINE m == Cardinality(s.bids)
           Op(k, x) == execute_bid(x, Bid(s, k), DebtOf(s, k, n), ShareOf(s, k, n))
           q == Require(s, n > 0 \/ s.settlement_fund = 0)
           Eqn(a) == a = [k \in 0 .. m |-> IF k = 0 THEN q ELSE Op(k, a[k - 1])]
           c == CHOOSE a : Eqn(a)
<1>1. AllBids(s, n) = c[n]
  BY DEF AllBids
<1>2. q = Opened(s, n) /\ \A k, x : Executed(s, n, k, x) = Op(k, x)
  BY DEF Opened, Executed
<1>3. m \in Nat
  OBVIOUS
<1> HIDE DEF c, Op, q, m
<1>3a. PICK g : Solution(g, s, n, m)
  BY <1>3, ExecutesExists
<1>4. Executes(g, s, n, m) /\ g = [i \in 0 .. m |-> g[i]]
  BY <1>3a DEF Solution
<1>5. Eqn(g)
  <2>1. ASSUME NEW i \in 0 .. m PROVE g[i] = IF i = 0 THEN q ELSE Op(i, g[i - 1])
    <3>1. i = 0 \/ i \in 1 .. m
      BY <1>3
    <3>2. ASSUME i \in 1 .. m PROVE g[i] = Op(i, g[i - 1]) /\ i # 0
      <4>1. g[i] = Executed(s, n, i, g[i - 1])
        BY <1>4, <3>2 DEF Executes
      <4> QED BY <1>2, <3>2, <4>1
    <3> QED BY <1>2, <1>4, <3>1, <3>2 DEF Executes
  <2> QED BY <1>4, <2>1
<1>6. Eqn(c)
  <2> HIDE DEF Eqn
  <2> QED BY <1>5 DEF c
<1>7. Executes(c, s, n, m)
  <2>1. c[0] = q
    BY <1>3, <1>6
  <2>2. ASSUME NEW i \in 1 .. m PROVE c[i] = Executed(s, n, i, c[i - 1])
    <3>1. i \in 0 .. m /\ i # 0
      OBVIOUS
    <3>2. c[i] = Op(i, c[i - 1])
      BY <1>6, <3>1
    <3> HIDE DEF Eqn
    <3> QED BY <1>2, <3>2
  <2> HIDE DEF Eqn
  <2> QED BY <1>2, <2>1, <2>2 DEF Executes
<1> QED BY <1>1, <1>7 DEF m

-----------------------------------------------------------------------------
(* The state x after the first k bids of s were executed, with debt and    *)
(* core in all.                                                            *)
Executing(s, x, k, debt, core) ==
  /\ Stops(s, x)
  /\ x.ok => /\ Sound(x) /\ Only(s, x, ExecuteFields \cup {"ok"})
             /\ TotalMia(x) = TotalMia(s) /\ Debt(x) = debt /\ TotalCore(x) = TotalCore(s) + core
             /\ \A i \in k + 1 .. Cardinality(s.bids) : Bid(s, i) \in x.bids
             /\ \A c \in x.calls : \E i \in 1 .. k : c.borrower = Bid(s, i).bidder

LEMMA ExecuteStep ==
  ASSUME NEW s, Biddable(s), s.feed # none, NEW k \in Nat, k < Cardinality(s.bids),
         NEW covered \in Int, NEW taken \in Int, TotalCore(s) \in Int,
         NEW x, Executing(s, x, k, covered, taken),
         NEW debt \in Positive, NEW from \in Nat,
         NEW t, t = execute_bid(x, Bid(s, k + 1), debt, from)
  PROVE  Executing(s, t, k + 1, covered + debt, taken + from)
<1> DEFINE b == Bid(s, k + 1)
           m == Cardinality(s.bids)
<1>0. m \in Nat /\ k + 1 \in 1 .. m /\ k + 1 \in k + 1 .. m
  BY SizeOfBids
<1>1. b \in s.bids /\ b.collateral \in Nat /\ b.bidder \in Accounts
  BY <1>0, BidParts
<1>2. t = execute_bid(x, b, debt, from)
  OBVIOUS
<1>3. \A i \in k + 2 .. m : Bid(s, i) # b
  <2>1. ASSUME NEW i \in k + 2 .. m PROVE Bid(s, i) # b
    <3>1. i \in 1 .. m /\ i # k + 1
      BY <1>0
    <3> QED BY <1>0, <3>1, BidsDiffer DEF Biddable, Table
  <2> QED BY <2>1
<1>4. \A i \in 1 .. k : Bid(s, i).bidder # b.bidder
  <2>1. ASSUME NEW i \in 1 .. k PROVE Bid(s, i).bidder # b.bidder
    <3>1. i \in 1 .. m /\ i # k + 1
      BY <1>0
    <3>2. Bid(s, i) # b /\ Bid(s, i) \in s.bids
      BY <1>0, <3>1, BidsDiffer, BidIs DEF Biddable, Table
    <3> QED BY <1>1, <3>2 DEF Biddable, Unique
  <2> QED BY <2>1
<1>5. b = Bid(s, k + 1)
  OBVIOUS
<1> HIDE DEF b, m
<1>6. DOMAIN x = Fields /\ Stops(s, x)
  BY DEF Executing, Stops
<1>7. /\ Only(x, t, ExecuteFields) /\ Stops(x, t)
      /\ t.bids = Without(x.bids, b)
  BY <1>2, <1>6, ExecuteStops
<1>8. Stops(s, t)
  BY <1>6, <1>7 DEF Stops
<1>9. ASSUME t.ok
      PROVE  /\ Sound(t) /\ Only(s, t, ExecuteFields \cup {"ok"})
             /\ TotalMia(t) = TotalMia(s) /\ Debt(t) = covered + debt
             /\ TotalCore(t) = TotalCore(s) + (taken + from)
             /\ \A i \in (k + 1) + 1 .. m : Bid(s, i) \in t.bids
             /\ \A c \in t.calls : \E i \in 1 .. k + 1 : c.borrower = Bid(s, i).bidder
  <2>1. x.ok
    BY <1>7, <1>9 DEF Stops
  <2>2. /\ Sound(x) /\ Only(s, x, ExecuteFields \cup {"ok"})
        /\ TotalMia(x) = TotalMia(s) /\ Debt(x) = covered /\ TotalCore(x) = TotalCore(s) + taken
        /\ \A i \in k + 1 .. m : Bid(s, i) \in x.bids
        /\ \A c \in x.calls : \E i \in 1 .. k : c.borrower = Bid(s, i).bidder
    BY <2>1 DEF Executing, m
  <2>3. b \in x.bids
    BY <1>0, <1>5, <2>2
  <2>4. x.feed # none
    BY <2>2 DEF Only, Fields, ExecuteFields
  <2>5. Table(x.bids, Offers) /\ Unique(x.bids, "bidder")
    BY <2>2 DEF Sound
  <2>6. /\ Table(Without(x.bids, b), Offers) /\ Unique(Without(x.bids, b), "bidder")
        /\ Total(x.bids, "collateral") \in Int
        /\ Total(Without(x.bids, b), "collateral") = Total(x.bids, "collateral") - b.collateral
    BY <2>3, <2>5, BidGone
  <2>7. \A c \in x.calls : c.borrower # b.bidder
    BY <1>4, <2>2
  <2>8. /\ Sound(t) /\ TotalMia(t) = TotalMia(x) /\ Debt(t) = Debt(x) + debt
        /\ TotalCore(t) = TotalCore(x) - Total(x.bids, "collateral")
                          + Total(t.bids, "collateral") + b.collateral + from
        /\ \A c \in t.calls : c \in x.calls \/ c.borrower = b.bidder
    BY <1>1, <1>2, <2>2, <2>4, <2>6, <2>7, ExecuteIs
  <2>9. TotalCore(t) = TotalCore(s) + (taken + from)
    BY <1>1, <1>7, <2>2, <2>6, <2>8
  <2>10. Only(s, t, ExecuteFields \cup {"ok"})
    BY <1>7, <2>2, OnlyTrans
  <2>11. ASSUME NEW i \in (k + 1) + 1 .. m PROVE Bid(s, i) \in t.bids
    <3>1. i \in k + 1 .. m /\ i \in k + 2 .. m
      BY <1>0
    <3> QED BY <1>3, <1>7, <2>2, <3>1 DEF Without
  <2>12. ASSUME NEW c \in t.calls PROVE \E i \in 1 .. k + 1 : c.borrower = Bid(s, i).bidder
    <3>1. CASE c \in x.calls
      <4>1. PICK i \in 1 .. k : c.borrower = Bid(s, i).bidder
        BY <2>2, <3>1
      <4>2. i \in 1 .. k + 1
        OBVIOUS
      <4> QED BY <4>1, <4>2
    <3>2. CASE c.borrower = b.bidder
      <4>1. k + 1 \in 1 .. k + 1
        OBVIOUS
      <4> QED BY <1>5, <3>2, <4>1
    <3> QED BY <2>8, <3>1, <3>2
  <2>13. TotalMia(t) = TotalMia(s) /\ Debt(t) = covered + debt
    BY <2>2, <2>8
  <2> QED BY <2>8, <2>9, <2>10, <2>11, <2>12, <2>13
<1> QED BY <1>8, <1>9 DEF Executing, m

-----------------------------------------------------------------------------
LEMMA Scaled ==
  ASSUME NEW a \in Int, NEW b \in Int, a <= b, NEW q \in Nat
  PROVE  a * q <= b * q
<1>1. (b - a) * q >= 0
  OBVIOUS
<1>2. (b - a) * q = b * q - a * q
  OBVIOUS
<1> QED BY <1>1, <1>2

LEMMA SettledParts ==
  ASSUME NEW s, Proper(s), s.ok, has_settlement(s)
  PROVE  /\ Sound(s) /\ DOMAIN s = Fields /\ s.supply \in Nat /\ s.settlement_fund \in Nat
         /\ s.calls = {} /\ Debt(s) = 0 /\ TotalCore(s) \in Int /\ TotalMia(s) \in Int
         /\ Biddable(s)
         /\ s.supply * s.settlement_price.quote <= s.settlement_fund * s.settlement_price.base
<1>1. DOMAIN s = Fields /\ Sound(s) /\ s.supply \in Nat /\ DebtIsSupply(s) /\ FundCovers(s)
  BY DEF Proper
<1>2. s.calls = {}
  BY <1>1 DEF DebtIsSupply
<1>3. Debt(s) = 0
  BY <1>2, TotalNone DEF Debt
<1>4. s.settlement_price.base \in Positive /\ s.settlement_price.quote \in Nat
  BY <1>1 DEF Sound, has_settlement
<1>5. Biddable(s)
  BY <1>1, <1>4 DEF Biddable, Sound
<1>6. s.supply * s.settlement_price.quote <= s.settlement_fund * s.settlement_price.base
  BY <1>1 DEF FundCovers
<1> QED BY <1>1, <1>2, <1>3, <1>5, <1>6, SoundParts

LEMMA OpenedIs ==
  ASSUME NEW s, Proper(s), s.ok, has_settlement(s), NEW n \in Nat
  PROVE  /\ Executing(s, Opened(s, n), 0, 0, 0)
         /\ Opened(s, n).ok /\ n = 0 => s.settlement_fund = 0
<1> DEFINE q == Opened(s, n)
           m == Cardinality(s.bids)
<1>1. /\ Sound(s) /\ DOMAIN s = Fields /\ s.calls = {} /\ Debt(s) = 0 /\ Biddable(s)
      /\ TotalCore(s) \in Int
  BY SettledParts
<1>2. Stops(s, q) /\ Only(s, q, {"ok"}) /\ (q.ok => Alike(s, q))
  BY <1>1, RequireStops DEF Opened
<1>3. q.ok /\ n = 0 => s.settlement_fund = 0
  <2>1. "ok" \in DOMAIN s
    BY <1>1 DEF Fields
  <2>2. q.ok = (s.ok /\ (n > 0 \/ s.settlement_fund = 0))
    BY <2>1, Zenon DEF Opened, Require
  <2>3. n = 0 => ~(n > 0)
    OBVIOUS
  <2> QED BY <2>2, <2>3, Zenon
<1>4. \A i \in 0 + 1 .. m : Bid(s, i) \in s.bids
  BY <1>1, BidParts
<1> HIDE DEF q
<1>5. ASSUME q.ok
      PROVE  /\ Sound(q) /\ Only(s, q, ExecuteFields \cup {"ok"})
             /\ TotalMia(q) = TotalMia(s) /\ Debt(q) = 0 /\ TotalCore(q) = TotalCore(s) + 0
             /\ \A i \in 0 + 1 .. m : Bid(s, i) \in q.bids
             /\ \A c \in q.calls : \E i \in 1 .. 0 : c.borrower = Bid(s, i).bidder
  <2>1. Alike(s, q)
    BY <1>2, <1>5
  <2>2. Sound(q) /\ TotalMia(q) = TotalMia(s) /\ Debt(q) = 0 /\ TotalCore(q) = TotalCore(s)
    BY <1>1, <2>1, AlikeSound
  <2>3. q.bids = s.bids /\ q.calls = {}
    BY <1>1, <2>1 DEF Alike
  <2>4. Only(s, q, ExecuteFields \cup {"ok"})
    BY <1>2 DEF Only
  <2> QED BY <1>1, <1>4, <2>2, <2>3, <2>4
<1>6. Executing(s, q, 0, 0, 0)
  BY <1>2, <1>5 DEF Executing, m
<1> QED BY <1>3, <1>6 DEF q

LEMMA LastNeeded ==
  ASSUME NEW s, Biddable(s), s.supply \in Nat, NEW n \in Needed(s), \A k \in Needed(s) : n <= k
  PROVE  /\ n \in 0 .. Cardinality(s.bids) /\ Covered(s, n) >= s.supply
         /\ \A k \in Nat : k < n => Covered(s, k) < s.supply
<1>1. Cardinality(s.bids) \in Nat
  BY SizeOfBids
<1>2. n \in 0 .. Cardinality(s.bids) /\ Covered(s, n) >= s.supply
  BY DEF Needed
<1>3. ASSUME NEW k \in Nat, k < n PROVE Covered(s, k) < s.supply
  <2>1. k \in 0 .. Cardinality(s.bids)
    BY <1>1, <1>2, <1>3
  <2>2. k \notin Needed(s)
    BY <1>2, <1>3
  <2>3. Covered(s, k) \in Nat
    BY <1>1, <2>1, TakenAtMost
  <2> QED BY <2>1, <2>2, <2>3 DEF Needed
<1> QED BY <1>2, <1>3

LEMMA FirstNeeded ==
  ASSUME NEW s, Biddable(s), Needed(s) # {}
  PROVE  Min(Needed(s)) \in Needed(s) /\ \A k \in Needed(s) : Min(Needed(s)) <= k
<1>1. Cardinality(s.bids) \in Nat
  BY SizeOfBids
<1>2. IsFiniteSet(0 .. Cardinality(s.bids))
  BY <1>1, FS_Interval
<1>3. Needed(s) \subseteq 0 .. Cardinality(s.bids)
  BY DEF Needed
<1>4. IsFiniteSet(Needed(s)) /\ Needed(s) \subseteq Int
  BY <1>1, <1>2, <1>3, FS_Subset
<1> QED BY <1>4, MinIs

LEMMA ShareIs ==
  ASSUME NEW s, Proper(s), s.ok, has_settlement(s), NEW k \in Nat, k <= Cardinality(s.bids),
         Covered(s, k) < s.supply
  PROVE  s.supply - Covered(s, k) \in Positive /\ s.settlement_fund - Taken(s, k) \in Nat
<1> DEFINE c == Covered(s, k)
           t == Taken(s, k)
           p == s.settlement_price.base
           q == s.settlement_price.quote
           f == s.settlement_fund
           n == s.supply
<1>1. /\ Biddable(s) /\ n \in Nat /\ f \in Nat /\ n * q <= f * p
  BY SettledParts
<1>2. p \in Positive /\ q \in Nat
  BY <1>1 DEF Biddable
<1>3. c \in Nat /\ t \in Nat /\ t * p <= c * q
  BY <1>1, TakenAtMost
<1>4. c < n
  OBVIOUS
<1> HIDE DEF c, t, p, q, f, n
<1>5. c * q <= n * q
  BY <1>1, <1>2, <1>3, <1>4, Scaled
<1>6. t * p \in Int /\ c * q \in Int /\ n * q \in Int /\ f * p \in Int
  BY <1>1, <1>2, <1>3 DEF Positive
<1>7. t * p <= f * p
  BY <1>1, <1>3, <1>5, <1>6
<1>8. t <= f
  BY <1>1, <1>2, <1>3, <1>7, Bounded
<1>9. n - c \in Positive /\ f - t \in Nat
  BY <1>1, <1>3, <1>4, <1>8 DEF Positive
<1> QED BY <1>9 DEF n, c, f, t

LEMMA AllExecuted ==
  ASSUME NEW s, Proper(s), s.ok, has_settlement(s), s.feed # none, Needed(s) # {},
         NEW n, n = Min(Needed(s))
  PROVE  Executing(s, AllBids(s, n), n, s.supply, s.settlement_fund)
<1> DEFINE m == Cardinality(s.bids)
<1>1. /\ Biddable(s) /\ s.supply \in Nat /\ s.settlement_fund \in Nat /\ TotalCore(s) \in Int
  BY SettledParts
<1>2. m \in Nat
  BY <1>1, SizeOfBids
<1>3. n \in 0 .. m /\ Covered(s, n) >= s.supply /\ \A k \in Nat : k < n => Covered(s, k) < s.supply
  <2>1. n \in Needed(s) /\ \A k \in Needed(s) : n <= k
    BY <1>1, FirstNeeded
  <2> QED BY <1>1, <2>1, LastNeeded
<1>4. PICK g : Executes(g, s, n, m) /\ AllBids(s, n) = g[n]
  BY <1>2, AllBidsIs
<1>5. g[0] = Opened(s, n) /\ \A i \in 1 .. m : g[i] = Executed(s, n, i, g[i - 1])
  BY <1>4 DEF Executes
<1>6. Executing(s, g[0], 0, 0, 0) /\ (g[0].ok /\ n = 0 => s.settlement_fund = 0)
  BY <1>2, <1>3, <1>5, OpenedIs
<1> DEFINE S == {k \in Nat : k < n => Executing(s, g[k], k, Covered(s, k), Taken(s, k))}
<1>7. 0 \in S
  BY <1>1, <1>6, CoveredIs
<1>8. ASSUME NEW k \in Nat, k \in S PROVE k + 1 \in S
  <2>1. SUFFICES ASSUME k + 1 < n PROVE Executing(s, g[k + 1], k + 1, Covered(s, k + 1), Taken(s, k + 1))
    OBVIOUS
  <2>2. k < n /\ k < m /\ k + 1 \in 1 .. m /\ k + 1 # n
    BY <1>2, <1>3, <2>1
  <2>3. Executing(s, g[k], k, Covered(s, k), Taken(s, k))
    BY <1>8, <2>2
  <2>4. /\ Covered(s, k) \in Int /\ Covered(s, k + 1) = Covered(s, k) + Bid(s, k + 1).debt
        /\ Taken(s, k) \in Int /\ Taken(s, k + 1) = Taken(s, k) + FromFund(s, Bid(s, k + 1))
    BY <1>1, <2>2, CoveredIs
  <2>5. Bid(s, k + 1).debt \in Positive /\ FromFund(s, Bid(s, k + 1)) \in Nat
    BY <1>1, <2>2, BidParts
  <2>6. g[k + 1] = Executed(s, n, k + 1, g[k])
    <3>1. (k + 1) - 1 = k
      OBVIOUS
    <3> QED BY <1>5, <2>2, <3>1
  <2>7. g[k + 1] = execute_bid(g[k], Bid(s, k + 1), Bid(s, k + 1).debt, FromFund(s, Bid(s, k + 1)))
    BY <2>2, <2>6 DEF Executed, DebtOf, ShareOf
  <2>8. Executing(s, g[k + 1], k + 1, Covered(s, k) + Bid(s, k + 1).debt,
                  Taken(s, k) + FromFund(s, Bid(s, k + 1)))
    BY <1>1, <2>2, <2>3, <2>4, <2>5, <2>7, ExecuteStep
  <2> QED BY <2>4, <2>8
<1> HIDE DEF S
<1>9. Nat \subseteq S
  BY <1>7, <1>8, NatSetInduction
<1>10. CASE n = 0
  <2>1. Covered(s, 0) = 0
    BY <1>1, CoveredIs
  <2>2. s.supply = 0
    BY <1>1, <1>3, <1>10, <2>1
  <2>3. g[0].ok => s.settlement_fund = 0
    BY <1>6, <1>10
  <2>4. Executing(s, g[0], 0, s.supply, s.settlement_fund)
    BY <1>6, <2>2, <2>3 DEF Executing
  <2> QED BY <1>4, <1>10, <2>4
<1>11. CASE n # 0
  <2> DEFINE k == n - 1
  <2>1. k \in Nat /\ k < n /\ k < m /\ k + 1 = n /\ n \in 1 .. m /\ k <= m
    BY <1>2, <1>3, <1>11
  <2> HIDE DEF k
  <2>2. Executing(s, g[k], k, Covered(s, k), Taken(s, k))
    BY <1>9, <2>1 DEF S
  <2>3. Covered(s, k) \in Int /\ Taken(s, k) \in Int /\ Covered(s, k) < s.supply
    BY <1>1, <1>3, <2>1, CoveredIs
  <2>4. s.supply - Covered(s, k) \in Positive /\ s.settlement_fund - Taken(s, k) \in Nat
    BY <2>1, <2>3, ShareIs
  <2>5. n - 1 = k
    BY DEF k
  <2>6. g[n] = Executed(s, n, n, g[k])
    BY <1>5, <2>1, <2>5
  <2>7. g[n] = execute_bid(g[k], Bid(s, n), s.supply - Covered(s, k), s.settlement_fund - Taken(s, k))
    BY <2>5, <2>6 DEF Executed, DebtOf, ShareOf
  <2>8. Executing(s, g[n], n, Covered(s, k) + (s.supply - Covered(s, k)),
                  Taken(s, k) + (s.settlement_fund - Taken(s, k)))
    BY <1>1, <2>1, <2>2, <2>3, <2>4, <2>7, ExecuteStep
  <2>9. /\ Covered(s, k) + (s.supply - Covered(s, k)) = s.supply
        /\ Taken(s, k) + (s.settlement_fund - Taken(s, k)) = s.settlement_fund
    BY <1>1, <2>3
  <2> QED BY <1>4, <2>8, <2>9
<1> QED BY <1>10, <1>11

LEMMA ProcessBidsKeeps ==
  ASSUME NEW s, Proper(s), s.ok, has_settlement(s)
  PROVE  Keeps(s, process_bids(s))
<1> DEFINE n == Min(Needed(s))
           u == AllBids(s, n)
<1>1. DOMAIN s = Fields
  BY DEF Proper
<1>2. \/ process_bids(s) = s
      \/ s.feed # none /\ Needed(s) # {} /\ process_bids(s) = _cancel_bids_and_revive_mpa(u)
  BY DEF process_bids, Needed, AllBids
<1> HIDE DEF u, n
<1>3. ASSUME s.feed # none, Needed(s) # {}
      PROVE  Keeps(s, _cancel_bids_and_revive_mpa(u))
  <2>1. Executing(s, u, n, s.supply, s.settlement_fund)
    BY <1>3, AllExecuted DEF u, n
  <2>2. Stops(s, u)
    BY <2>1 DEF Executing
  <2>3. ASSUME u.ok
        PROVE  /\ Sound(u) /\ TotalMia(u) = TotalMia(s) /\ u.supply = s.supply
               /\ Debt(u) = s.supply
               /\ TotalCore(u) = TotalCore(s) + u.settlement_fund
    <3>1. /\ Sound(u) /\ Only(s, u, ExecuteFields \cup {"ok"})
          /\ TotalMia(u) = TotalMia(s) /\ Debt(u) = s.supply
          /\ TotalCore(u) = TotalCore(s) + s.settlement_fund
      BY <2>1, <2>3 DEF Executing
    <3>2. u.supply = s.supply /\ u.settlement_fund = s.settlement_fund
      BY <3>1 DEF Only, Fields, ExecuteFields
    <3> QED BY <3>1, <3>2
  <2> QED BY <2>2, <2>3, RevivalKeeps
<1>4. Keeps(s, s)
  BY <1>1, KeepsRefl
<1> QED BY <1>2, <1>3, <1>4

-----------------------------------------------------------------------------
(* The fields on feeds and the volume of settlements: no book is kept in   *)
(* them.                                                                   *)
FeedFields == {"feeds", "feed", "published", "force_settled_volume"}
FeedsAre(t) ==
  /\ t.feeds \in [Publishers -> [time : Int, feed : PriceFeeds \cup {none}]]
  /\ t.feed \in PriceFeeds \cup {none} /\ t.published \in Int /\ t.force_settled_volume \in Nat

LEMMA KeepsFeeds ==
  ASSUME NEW s, NEW t, Only(s, t, FeedFields), Sound(s) => FeedsAre(t)
  PROVE  Keeps(s, t)
<1>1. /\ DOMAIN t = Fields /\ t.ok = s.ok
      /\ t.balance = s.balance /\ t.core_in_orders = s.core_in_orders /\ t.limits = s.limits
      /\ t.calls = s.calls /\ t.settles = s.settles /\ t.bids = s.bids /\ t.supply = s.supply
      /\ t.settlement_price = s.settlement_price /\ t.settlement_fund = s.settlement_fund
      /\ t.accumulated_fees = s.accumulated_fees /\ t.fee_pool = s.fee_pool
      /\ t.paid_fees = s.paid_fees
  BY DEF Only, Fields, FeedFields
<1>2. Stops(s, t)
  BY <1>1 DEF Stops
<1>3. ASSUME Sound(s), t.ok PROVE \A k, m \in Int : Books(s, k, m) => Books(t, k, m)
  <2>1. Sound(t)
    BY <1>1, <1>3 DEF Sound, CoreInOrders, FeedsAre
  <2>2. TotalCore(t) = TotalCore(s) /\ TotalMia(t) = TotalMia(s)
    BY <1>1 DEF TotalCore, TotalMia
  <2>3. (DebtIsSupply(s) => DebtIsSupply(t)) /\ (FundCovers(s) => FundCovers(t))
    BY <1>1 DEF DebtIsSupply, FundCovers, has_settlement
  <2> QED BY <1>1, <2>1, <2>2, <2>3 DEF Books
<1> QED BY <1>2, <1>3, KeepsStops

LEMMA SoundFeeds ==
  ASSUME NEW s, Sound(s)
  PROVE  FeedsAre(s)
BY DEF Sound, FeedsAre

-----------------------------------------------------------------------------
(* Settle orders.                                                          *)
LEMMA SettleGone ==
  ASSUME NEW S, Table(S, Settles), NEW o \in S
  PROVE  /\ Table(Without(S, o), Settles)
         /\ Total(S, "balance") \in Int
         /\ Total(Without(S, o), "balance") = Total(S, "balance") - o.balance
<1>1. IsFiniteSet(S) /\ \A x \in S : x["balance"] \in Int
  BY DEF Table, Settles
<1>2. Total(S, "balance") \in Int
      /\ Total(Without(S, o), "balance") = Total(S, "balance") - o["balance"]
  BY <1>1, TotalGone
<1> QED BY <1>2, TableGone

LEMMA SettleNew ==
  ASSUME NEW S, Table(S, Settles), NEW y \in Settles, \A x \in S : x.id # y.id
  PROVE  /\ Table(With(S, y), Settles)
         /\ Total(S, "balance") \in Int
         /\ Total(With(S, y), "balance") = Total(S, "balance") + y.balance
<1>1. IsFiniteSet(S) /\ y \notin S /\ (\A x \in S : x["balance"] \in Int) /\ y["balance"] \in Int
  BY DEF Table, Settles
<1>2. Total(S, "balance") \in Int
      /\ Total(With(S, y), "balance") = Total(S, "balance") + y["balance"]
  BY <1>1, TotalNew
<1> QED BY <1>2, TableNew

(* A change of the settle orders only.                                     *)
LEMMA SettlesChange ==
  ASSUME NEW s, Sound(s), NEW t, Only(s, t, {"settles"}), Table(t.settles, Settles)
  PROVE  /\ Sound(t) /\ TotalCore(t) = TotalCore(s)
         /\ TotalMia(t) = TotalMia(s) - Total(s.settles, "balance") + Total(t.settles, "balance")
<1>1. /\ DOMAIN t = Fields /\ t.ok = s.ok
      /\ t.balance = s.balance /\ t.core_in_orders = s.core_in_orders /\ t.limits = s.limits
      /\ t.calls = s.calls /\ t.bids = s.bids /\ t.supply = s.supply
      /\ t.feeds = s.feeds /\ t.feed = s.feed /\ t.published = s.published
      /\ t.settlement_price = s.settlement_price /\ t.settlement_fund = s.settlement_fund
      /\ t.force_settled_volume = s.force_settled_volume
      /\ t.accumulated_fees = s.accumulated_fees /\ t.fee_pool = s.fee_pool
      /\ t.paid_fees = s.paid_fees
  BY DEF Only, Fields
<1>2. Sound(t)
  BY <1>1 DEF Sound, CoreInOrders
<1>3. TotalCore(t) = TotalCore(s)
  BY <1>1 DEF TotalCore
<1>4. TotalMia(t) = Held(s.balance, "mia") + ForSale(s.limits, "mia")
                    + Total(s.limits, "deferred_paid_fee") + Total(t.settles, "balance")
                    + s.accumulated_fees["mia"]
  BY <1>1 DEF TotalMia
<1>5. TotalMia(s) = Held(s.balance, "mia") + ForSale(s.limits, "mia")
                    + Total(s.limits, "deferred_paid_fee") + Total(s.settles, "balance")
                    + s.accumulated_fees["mia"]
  BY DEF TotalMia
<1>6. /\ Held(s.balance, "mia") \in Int /\ ForSale(s.limits, "mia") \in Int
      /\ Total(s.limits, "deferred_paid_fee") \in Int /\ Total(s.settles, "balance") \in Int
      /\ s.accumulated_fees["mia"] \in Int
  BY SoundParts, AssetsAre
<1>7. Total(t.settles, "balance") \in Int
  BY <1>2, SoundParts
<1>8. TotalMia(t) = TotalMia(s) - Total(s.settles, "balance") + Total(t.settles, "balance")
  BY <1>4, <1>5, <1>6, <1>7
<1> QED BY <1>2, <1>3, <1>8

LEMMA CancelSettleStops ==
  ASSUME NEW s, DOMAIN s = Fields, NEW o
  PROVE  LET p == adjust_balance(s, o.owner, "mia", o.balance)
             t == cancel_settle_order(s, o)
         IN  /\ Stops(s, p) /\ Only(s, p, {"balance", "ok"}) /\ Only(p, t, {"settles"})
             /\ Stops(s, t) /\ Only(s, t, {"balance", "ok", "settles"}) /\ (t.ok <=> p.ok)
             /\ t.settles = p.settles \ {o}
<1> DEFINE p == adjust_balance(s, o.owner, "mia", o.balance)
           t == [p EXCEPT !.settles = @ \ {o}]
<1>1. cancel_settle_order(s, o) = t
  BY DEF cancel_settle_order
<1>2. Stops(s, p) /\ Only(s, p, {"balance", "ok"})
  BY AdjustStops
<1> HIDE DEF p
<1>3. Only(p, t, {"settles"}) /\ (t.ok <=> p.ok) /\ t.settles = p.settles \ {o}
  BY <1>2 DEF Stops, Only, Fields
<1> HIDE DEF t
<1>4. Only(s, t, {"balance", "ok", "settles"})
  BY <1>2, <1>3, OnlyTrans
<1>5. Stops(s, t)
  BY <1>2, <1>3 DEF Stops, Only
<1> QED BY <1>1, <1>2, <1>3, <1>4, <1>5 DEF p

LEMMA CancelSettleKeeps ==
  ASSUME NEW s, DOMAIN s = Fields, NEW o, Sound(s) => o \in s.settles
  PROVE  Keeps(s, cancel_settle_order(s, o))
<1> DEFINE p == adjust_balance(s, o.owner, "mia", o.balance)
           t == cancel_settle_order(s, o)
<1>1. /\ Stops(s, p) /\ Only(s, p, {"balance", "ok"}) /\ Only(p, t, {"settles"})
      /\ Stops(s, t) /\ Only(s, t, {"balance", "ok", "settles"}) /\ (t.ok <=> p.ok)
      /\ t.settles = p.settles \ {o}
  BY CancelSettleStops
<1>1a. p = adjust_balance(s, o.owner, "mia", o.balance)
  OBVIOUS
<1> HIDE DEF p, t
<1>2. ASSUME Sound(s), t.ok PROVE \A k, m \in Int : Books(s, k, m) => Books(t, k, m)
  <2>1. o \in s.settles /\ o.owner \in Accounts /\ o.balance \in Int
    BY <1>2, SoundTables DEF Settles
  <2>2. p.ok
    BY <1>1, <1>2
  <2>3. Moves(s, p, {"balance", "ok"}, "mia", o.balance, 0)
    BY <1>1a, <1>2, <2>1, AssetsAre, Adjust
  <2>4. Sound(p) /\ TotalMia(p) = TotalMia(s) + o.balance /\ TotalCore(p) = TotalCore(s) + 0
    BY <2>2, <2>3, OtherIs DEF Moves
  <2>5. p.settles = s.settles
    BY <1>1 DEF Only, Fields
  <2>6. t.settles = Without(p.settles, o)
    BY <1>1 DEF Without
  <2>7. Table(p.settles, Settles) /\ o \in p.settles
    BY <2>1, <2>4, <2>5 DEF Sound
  <2>8. /\ Table(Without(p.settles, o), Settles)
        /\ Total(p.settles, "balance") \in Int
        /\ Total(Without(p.settles, o), "balance") = Total(p.settles, "balance") - o.balance
    BY <2>7, SettleGone
  <2>9. /\ Sound(t) /\ TotalCore(t) = TotalCore(p)
        /\ TotalMia(t) = TotalMia(p) - Total(p.settles, "balance") + Total(t.settles, "balance")
    BY <1>1, <2>4, <2>6, <2>8, SettlesChange
  <2>10. TotalCore(s) \in Int /\ TotalMia(s) \in Int
    BY <1>2, SoundParts
  <2>11. TotalMia(t) = TotalMia(s) /\ TotalCore(t) = TotalCore(s)
    BY <2>1, <2>4, <2>6, <2>8, <2>9, <2>10
  <2>12. t.calls = s.calls /\ t.supply = s.supply /\ t.settlement_price = s.settlement_price
         /\ t.settlement_fund = s.settlement_fund
    BY <1>1 DEF Only, Fields
  <2>13. (DebtIsSupply(s) => DebtIsSupply(t)) /\ (FundCovers(s) => FundCovers(t))
    BY <2>12 DEF DebtIsSupply, FundCovers, has_settlement
  <2> QED BY <2>9, <2>11, <2>12, <2>13 DEF Books
<1>3. Keeps(s, t)
  BY <1>1, <1>2, KeepsStops
<1> QED BY <1>3 DEF t

-----------------------------------------------------------------------------
(* What is left of a settle order of which a part is filled.               *)
Unsettle(o, pays) == [o EXCEPT !.balance = @ - pays]
SettleFields == {"balance", "ok", "accumulated_fees", "fills", "settles"}

LEMMA FillSettleStops ==
  ASSUME NEW s, DOMAIN s = Fields, NEW o, NEW pays, NEW receives
  PROVE  LET r == Receive(s, o.owner, "core", receives)
             f == Filled(r, null, pays, receives)
             t == fill_settle_order(s, o, pays, receives)
         IN  /\ Stops(s, r) /\ Alike(r, f) /\ Stops(s, f)
             /\ Only(f, t, {"settles"}) /\ (t.ok <=> f.ok)
             /\ Stops(s, t) /\ Only(s, t, SettleFields)
             /\ t.settles = (f.settles \ {o}) \cup IF pays < o.balance THEN {Unsettle(o, pays)} ELSE {}
             /\ f.settles = s.settles
<1> DEFINE r == Receive(s, o.owner, "core", receives)
           f == Filled(r, null, pays, receives)
           t == [f EXCEPT !.settles = (@ \ {o}) \cup IF pays < o.balance THEN {Unsettle(o, pays)}
                                                     ELSE {}]
<1>1. fill_settle_order(s, o, pays, receives) = t
  BY DEF fill_settle_order, Unsettle
<1>2. Stops(s, r) /\ Only(s, r, {"balance", "ok", "accumulated_fees"})
  BY ReceiveStops
<1>3. DOMAIN r = Fields
  BY <1>2 DEF Stops
<1> HIDE DEF r
<1>4. Only(r, f, {"fills"}) /\ Alike(r, f) /\ Stops(r, f)
  BY <1>3, FilledIs
<1> HIDE DEF f
<1>5. DOMAIN f = Fields
  BY <1>4 DEF Stops
<1>6. Only(f, t, {"settles"}) /\ (t.ok <=> f.ok)
      /\ t.settles = (f.settles \ {o}) \cup IF pays < o.balance THEN {Unsettle(o, pays)} ELSE {}
  BY <1>5 DEF Only, Fields
<1> HIDE DEF t
<1>7. Only(s, f, SettleFields)
  BY <1>2, <1>4, OnlyTrans DEF SettleFields
<1>8. Only(s, t, SettleFields)
  <2>1. SettleFields \subseteq SettleFields /\ {"settles"} \subseteq SettleFields
    BY DEF SettleFields
  <2> QED BY <1>6, <1>7, <2>1, OnlyTrans
<1>9. Stops(s, f) /\ Stops(s, t)
  BY <1>2, <1>4, <1>6 DEF Stops, Only
<1>10. f.settles = s.settles
  BY <1>2, <1>4 DEF Only, Fields
<1> QED BY <1>1, <1>2, <1>4, <1>6, <1>8, <1>9, <1>10 DEF f, r

LEMMA FillSettle ==
  ASSUME NEW s, Sound(s), NEW o \in s.settles, NEW pays \in Nat, pays <= o.balance,
         NEW receives \in Nat, NEW t, t = fill_settle_order(s, o, pays, receives), t.ok
  PROVE  /\ Sound(t) /\ TotalCore(t) = TotalCore(s) + receives /\ TotalMia(t) = TotalMia(s) - pays
         /\ Only(s, t, SettleFields)
         /\ pays < o.balance => Unsettle(o, pays) \in t.settles /\ Unsettle(o, pays).id = o.id
<1> DEFINE r == Receive(s, o.owner, "core", receives)
           f == Filled(r, null, pays, receives)
<1>0. DOMAIN s = Fields
  BY SoundTables
<1>1. /\ Stops(s, r) /\ Alike(r, f) /\ Stops(s, f)
      /\ Only(f, t, {"settles"}) /\ (t.ok <=> f.ok)
      /\ Stops(s, t) /\ Only(s, t, SettleFields)
      /\ t.settles = (f.settles \ {o}) \cup IF pays < o.balance THEN {Unsettle(o, pays)} ELSE {}
      /\ f.settles = s.settles
  BY <1>0, FillSettleStops
<1>2. f.ok /\ r.ok
  BY <1>1 DEF Alike
<1>3. o \in Settles /\ o.owner \in Accounts /\ o.balance \in Nat
  BY SoundTables DEF Settles
<1>4. r = Receive(s, o.owner, "core", receives)
  OBVIOUS
<1> HIDE DEF f, r
<1>5. Moves(s, r, {"balance", "ok", "accumulated_fees"}, "core", receives, 0)
  BY <1>3, <1>4, AssetsAre, ReceiveIs
<1>6. Sound(r) /\ TotalCore(r) = TotalCore(s) + receives /\ TotalMia(r) = TotalMia(s) + 0
  BY <1>2, <1>5, OtherIs DEF Moves
<1>7. Sound(f) /\ TotalCore(f) = TotalCore(r) /\ TotalMia(f) = TotalMia(r)
  BY <1>1, <1>6, AlikeSound
<1>8. TotalCore(s) \in Int /\ TotalMia(s) \in Int
  BY SoundParts
<1> DEFINE R == Without(s.settles, o)
           y == Unsettle(o, pays)
<1>9. /\ Table(s.settles, Settles) /\ Table(R, Settles)
      /\ Total(s.settles, "balance") \in Int
      /\ Total(R, "balance") = Total(s.settles, "balance") - o.balance
      /\ \A x \in R : x.id # o.id
  <2>1. Table(s.settles, Settles)
    BY DEF Sound
  <2> QED BY <2>1, SettleGone, TableGone
<1>10. f.settles \ {o} = R
  BY <1>1 DEF Without
<1> HIDE DEF R
<1>11. CASE pays < o.balance
  <2>1. y \in Settles /\ y.id = o.id /\ y.balance = o.balance - pays
    BY <1>3, <1>11 DEF Unsettle, Settles
  <2>2. t.settles = With(R, y)
    BY <1>1, <1>10, <1>11 DEF With
  <2>3. y \in t.settles
    BY <2>2 DEF With
  <2> HIDE DEF y
  <2>4. /\ Table(With(R, y), Settles) /\ Total(R, "balance") \in Int
        /\ Total(With(R, y), "balance") = Total(R, "balance") + y.balance
    BY <1>9, <2>1, SettleNew
  <2>5. /\ Sound(t) /\ TotalCore(t) = TotalCore(f)
        /\ TotalMia(t) = TotalMia(f) - Total(f.settles, "balance") + Total(t.settles, "balance")
    BY <1>1, <1>7, <2>2, <2>4, SettlesChange
  <2>6. TotalCore(t) = TotalCore(s) + receives /\ TotalMia(t) = TotalMia(s) - pays
    BY <1>1, <1>3, <1>6, <1>7, <1>8, <1>9, <2>1, <2>2, <2>4, <2>5
  <2> QED BY <1>1, <2>1, <2>3, <2>5, <2>6 DEF y
<1>12. CASE ~(pays < o.balance)
  <2>1. t.settles = R
    BY <1>1, <1>10, <1>12
  <2>2. pays = o.balance
    BY <1>3, <1>12
  <2>3. /\ Sound(t) /\ TotalCore(t) = TotalCore(f)
        /\ TotalMia(t) = TotalMia(f) - Total(f.settles, "balance") + Total(t.settles, "balance")
    BY <1>1, <1>7, <1>9, <2>1, SettlesChange
  <2>3a. Total(t.settles, "balance") = Total(f.settles, "balance") - pays /\ Total(f.settles, "balance") \in Int
    BY <1>1, <1>9, <2>1, <2>2
  <2>3b. TotalMia(f) = TotalMia(s) /\ TotalMia(s) \in Int
    BY <1>6, <1>7, <1>8
  <2>4. TotalCore(t) = TotalCore(s) + receives /\ TotalMia(t) = TotalMia(s) - pays
    BY <1>6, <1>7, <2>3, <2>3a, <2>3b
  <2> QED BY <1>1, <1>12, <2>3, <2>4
<1> QED BY <1>11, <1>12

-----------------------------------------------------------------------------
(* The order gives n of the mia to the position for r.                     *)
LEMMA CallThenSettle ==
  ASSUME NEW s, Sound(s), ~has_settlement(s), s.feed # none,
         NEW o \in s.settles, NEW c \in s.calls,
         NEW n \in Nat, n <= o.balance, n <= c.debt, NEW r \in Nat,
         NEW f, f = fill_call_order(s, c, r, n),
         NEW t, t = fill_settle_order(f, o, n, r), t.ok
  PROVE  /\ Sound(t) /\ \A k, m \in Int : Books(s, k, m) => Books(t, k, m)
         /\ n < o.balance => Unsettle(o, n) \in t.settles /\ Unsettle(o, n).id = o.id
<1>0. DOMAIN s = Fields
  BY SoundTables
<1>1. Stops(s, f)
  BY <1>0, FillCallIs
<1>2. DOMAIN f = Fields
  BY <1>1 DEF Stops
<1>3. Stops(f, t)
  BY <1>2, FillSettleStops
<1>4. f.ok
  BY <1>3 DEF Stops
<1>5. /\ Only(s, f, CallFields)
      /\ Sound(f) /\ TotalCore(f) = TotalCore(s) - r /\ TotalMia(f) = TotalMia(s)
      /\ f.supply = s.supply - n /\ Debt(f) = Debt(s) - n
  BY <1>4, CallFilled
<1>6. /\ f.settles = s.settles /\ f.settlement_price = s.settlement_price
      /\ f.settlement_fund = s.settlement_fund
  BY <1>5 DEF Only, Fields, CallFields
<1>7. /\ Sound(t) /\ TotalCore(t) = TotalCore(f) + r /\ TotalMia(t) = TotalMia(f) - n
      /\ Only(f, t, SettleFields)
      /\ n < o.balance => Unsettle(o, n) \in t.settles /\ Unsettle(o, n).id = o.id
  BY <1>5, <1>6, FillSettle
<1>8. /\ t.calls = f.calls /\ t.supply = f.supply /\ t.settlement_price = s.settlement_price
      /\ t.settlement_fund = s.settlement_fund
  BY <1>6, <1>7 DEF Only, Fields, SettleFields
<1>9. TotalCore(s) \in Int /\ TotalMia(s) \in Int /\ s.supply \in Int /\ Debt(s) \in Int
  BY SoundParts DEF Sound, Debt
<1>10. ~has_settlement(t)
  BY <1>8 DEF has_settlement
<1> SUFFICES ASSUME NEW k \in Int, NEW m \in Int, Books(s, k, m)
             PROVE  Books(t, k, m)
  BY <1>7
<1>11. TotalCore(s) = k /\ TotalMia(s) = s.supply + m /\ Debt(s) = s.supply /\ s.settlement_fund = 0
  BY DEF Books, DebtIsSupply, Debt, FundCovers
<1>12. TotalCore(t) = k /\ TotalMia(t) = t.supply + m /\ Debt(f) = t.supply
  BY <1>5, <1>7, <1>8, <1>9, <1>11
<1>13. DebtIsSupply(t) /\ FundCovers(t)
  BY <1>8, <1>10, <1>11, <1>12 DEF DebtIsSupply, Debt, FundCovers
<1>14. t.supply \in Nat
  BY <1>5, <1>12, SoundParts DEF Debt
<1> QED BY <1>7, <1>12, <1>13, <1>14 DEF Books

-----------------------------------------------------------------------------
LEMMA MinOfThree ==
  ASSUME NEW a \in Nat, NEW b \in Nat, NEW c \in Nat
  PROVE  LET m == Min({a, b, c}) IN m \in Nat /\ m <= a /\ m <= b /\ m <= c
<1> DEFINE S == {a, b, c}
<1>1. IsFiniteSet(S) /\ S \subseteq Int /\ S # {} /\ S \subseteq Nat
  <2>2. IsFiniteSet({a}) /\ IsFiniteSet({b}) /\ IsFiniteSet({c})
    BY FS_Singleton
  <2>3. IsFiniteSet({a} \cup {b})
    BY <2>2, FS_Union
  <2>4. IsFiniteSet(({a} \cup {b}) \cup {c})
    BY <2>2, <2>3, FS_Union
  <2>5. S = ({a} \cup {b}) \cup {c}
    OBVIOUS
  <2>6. IsFiniteSet(S)
    BY <2>4, <2>5
  <2> QED BY <2>6
<1>2. a \in S /\ b \in S /\ c \in S
  OBVIOUS
<1> HIDE DEF S
<1>3. Min(S) \in S /\ Min(S) <= a /\ Min(S) <= b /\ Min(S) <= c
  BY <1>1, <1>2, MinIs
<1>4. Min(S) \in Nat
  BY <1>1, <1>3
<1> QED BY <1>3, <1>4 DEF S

LEMMA SettlePriceIs ==
  ASSUME NEW s, s.feed \in PriceFeeds
  PROVE  settlement_fill_price(s) \in Rates
<1>1. s.feed.price.base \in Positive /\ s.feed.price.quote \in Positive
  BY DEF PriceFeeds, Rates
<1>2. 100 - SettlementOffset \in Positive
  BY OrdersAssumption DEF Positive
<1>3. s.feed.price.base * 100 \in Positive /\ s.feed.price.quote * (100 - SettlementOffset) \in Positive
  BY <1>1, <1>2 DEF Positive
<1> QED BY <1>3 DEF settlement_fill_price, Price, Rates

LEMMA SettleAmounts ==
  ASSUME NEW p \in Rates, NEW wanted \in Nat, NEW all,
         NEW pays, pays = IF all THEN Max({1, ToQuoteUp(wanted, p)}) ELSE ToQuote(wanted, p),
         NEW receives, receives = IF all THEN wanted ELSE ToBaseUp(pays, p)
  PROVE  pays \in Nat /\ receives \in Nat /\ receives <= wanted
<1>1. p.base \in Positive /\ p.quote \in Nat
  BY DEF Rates, Positive
<1>2. CASE all
  <2>1. ToQuoteUp(wanted, p) \in Nat
    BY <1>1, RoundUp
  <2> DEFINE u == ToQuoteUp(wanted, p)
  <2>2. u \in Nat
    BY <2>1
  <2> HIDE DEF u
  <2>3. Max({1, u}) \in {1, u}
    BY <2>2, MaxOfTwo
  <2>4. Max({1, u}) \in Nat
    BY <2>2, <2>3
  <2> QED BY <1>2, <2>4 DEF u
<1>3. CASE ~all
  <2>1. ToQuote(wanted, p) \in Nat
    BY <1>1, RoundDown
  <2>2. ToBaseUp(ToQuote(wanted, p), p) \in Nat /\ ToBaseUp(ToQuote(wanted, p), p) <= wanted
    BY ThereAndBack
  <2> QED BY <1>3, <2>1, <2>2
<1> QED BY <1>2, <1>3

LEMMA MatchSettleKeeps ==
  ASSUME NEW s, DOMAIN s = Fields, NEW o, NEW c, NEW most,
         Sound(s) => /\ o \in s.settles /\ c \in s.calls /\ ~has_settlement(s) /\ s.feed # none
                     /\ most \in Nat
  PROVE  Keeps(s, match_settle(s, o, c, most))
<1> DEFINE p == settlement_fill_price(s)
           wanted == Wanted(o, c, most)
           pays == IF wanted = c.debt THEN Max({1, ToQuoteUp(wanted, p)}) ELSE ToQuote(wanted, p)
           receives == IF wanted = c.debt THEN wanted ELSE ToBaseUp(pays, p)
           f == fill_call_order(s, c, pays, receives)
           filled == fill_settle_order(f, o, receives, pays)
           cull == wanted # c.debt /\ wanted = o.balance /\ receives # o.balance
           x == CHOOSE y \in filled.settles : y.id = o.id
           gone == cancel_settle_order(filled, x)
           culled == IF cull THEN gone ELSE filled
           v == [culled EXCEPT !.force_settled_volume = @ + receives]
           w == Unfilled(s, o, wanted)
<1>1. match_settle(s, o, c, most) = IF pays > 0 THEN v ELSE w
  BY DEF match_settle
<1>2. Keeps(s, w)
  <2>1. Keeps(s, cancel_settle_order(s, o))
    BY CancelSettleKeeps
  <2>2. Keeps(s, Done(s))
    BY KeepsDone
  <2> QED BY <2>1, <2>2 DEF Unfilled
<1>3. ASSUME Sound(s)
      PROVE  /\ pays \in Nat /\ receives \in Nat /\ receives <= o.balance /\ receives <= c.debt
             /\ receives <= wanted /\ o.balance \in Nat
             /\ o \in s.settles /\ c \in s.calls /\ ~has_settlement(s) /\ s.feed # none
  <2>1. o \in s.settles /\ c \in s.calls /\ ~has_settlement(s) /\ s.feed # none /\ most \in Nat
    BY <1>3
  <2>2. o.balance \in Nat /\ c.debt \in Nat
    BY <1>3, <2>1, SoundTables DEF Settles, Positions, Positive
  <2>3. wanted \in Nat /\ wanted <= o.balance /\ wanted <= c.debt
    BY <2>1, <2>2, MinOfThree DEF Wanted
  <2>4. p \in Rates
    BY <1>3, <2>1, SoundFeed, SettlePriceIs
  <2> DEFINE all == wanted = c.debt
  <2>5. /\ pays = IF all THEN Max({1, ToQuoteUp(wanted, p)}) ELSE ToQuote(wanted, p)
        /\ receives = IF all THEN wanted ELSE ToBaseUp(pays, p)
    OBVIOUS
  <2> HIDE DEF wanted, p, all, pays, receives
  <2>6. pays \in Nat /\ receives \in Nat /\ receives <= wanted
    BY <2>3, <2>4, <2>5, SettleAmounts
  <2> QED BY <2>1, <2>2, <2>3, <2>6
<1>4. cull => wanted = o.balance /\ receives # o.balance
  OBVIOUS
<1> HIDE DEF wanted, pays, receives, cull, p, w
<1>5. Stops(s, f)
  BY FillCallIs
<1>6. DOMAIN f = Fields
  BY <1>5 DEF Stops
<1>6a. f = fill_call_order(s, c, pays, receives)
  OBVIOUS
<1> HIDE DEF f
<1>7. Stops(f, filled)
  BY <1>6, FillSettleStops
<1>7a. filled = fill_settle_order(f, o, receives, pays)
  OBVIOUS
<1>7b. x = CHOOSE y \in filled.settles : y.id = o.id
  OBVIOUS
<1> HIDE DEF filled, x
<1>8. DOMAIN filled = Fields
  BY <1>7 DEF Stops
<1>9. Stops(filled, gone)
  BY <1>8, CancelSettleStops
<1>9a. gone = cancel_settle_order(filled, x)
  OBVIOUS
<1> HIDE DEF gone
<1>10. Stops(filled, culled)
  BY <1>8, <1>9 DEF Stops
<1>10a. culled = IF cull THEN gone ELSE filled
  OBVIOUS
<1> HIDE DEF culled
<1>11. DOMAIN culled = Fields
  BY <1>10 DEF Stops
<1>12. Only(culled, v, {"force_settled_volume"}) /\ v.ok = culled.ok
       /\ v.force_settled_volume = culled.force_settled_volume + receives
  BY <1>11 DEF Only, Fields
<1> HIDE DEF v
<1>13. Stops(s, v)
  BY <1>5, <1>7, <1>10, <1>12 DEF Stops, Only
<1>14. ASSUME Sound(s), v.ok PROVE \A k, m \in Int : Books(s, k, m) => Books(v, k, m)
  <2>1. culled.ok /\ filled.ok
    BY <1>10, <1>12, <1>14 DEF Stops
  <2>2. /\ pays \in Nat /\ receives \in Nat /\ receives <= o.balance /\ receives <= c.debt
        /\ receives <= wanted /\ o.balance \in Nat
        /\ o \in s.settles /\ c \in s.calls /\ ~has_settlement(s) /\ s.feed # none
    BY <1>3, <1>14
  <2>3. /\ Sound(filled) /\ \A k, m \in Int : Books(s, k, m) => Books(filled, k, m)
        /\ receives < o.balance => Unsettle(o, receives) \in filled.settles
                                   /\ Unsettle(o, receives).id = o.id
    BY <1>6a, <1>7a, <1>14, <2>1, <2>2, CallThenSettle
  <2>4. Keeps(filled, culled)
    <3>1. CASE cull
      <4>1. receives < o.balance
        BY <1>4, <2>2, <3>1
      <4>2. x \in filled.settles
        BY <1>7b, <2>3, <4>1
      <4>3. Keeps(filled, gone)
        BY <1>8, <1>9a, <4>2, CancelSettleKeeps
      <4> QED BY <1>10a, <3>1, <4>3
    <3>2. CASE ~cull
      BY <1>8, <1>10a, <3>2, KeepsRefl
    <3> QED BY <3>1, <3>2
  <2>5. Keeps(culled, v)
    <3>1. Only(culled, v, FeedFields)
      BY <1>12 DEF Only, FeedFields
    <3>2. ASSUME Sound(culled) PROVE FeedsAre(v)
      <4>1. /\ v.feeds = culled.feeds /\ v.feed = culled.feed /\ v.published = culled.published
        BY <1>12 DEF Only, Fields
      <4>2. v.force_settled_volume \in Nat
        BY <1>12, <2>2, <3>2 DEF Sound
      <4> QED BY <3>2, <4>1, <4>2, SoundFeeds DEF FeedsAre
    <3> QED BY <3>1, <3>2, KeepsFeeds
  <2> QED BY <1>14, <2>1, <2>3, <2>4, <2>5 DEF Keeps
<1>15. Keeps(s, v)
  BY <1>13, <1>14, KeepsStops
<1> QED BY <1>1, <1>2, <1>15

-----------------------------------------------------------------------------
(* The end of a block.                                                     *)
LEMMA SettleStepKeeps ==
  ASSUME NEW s, DOMAIN s = Fields, NEW now, NEW most \in Int
  PROVE  Keeps(s, SettleStep(s, now, most))
<1> DEFINE o == First(s.settles, LAMBDA x, y : x.date < y.date)
           c == LeastCollateral(s)
           left == most - s.force_settled_volume
           t == SettleStep(s, now, most)
<1>1. \/ t = Done(s) \/ t = Require(s, FALSE)
      \/ s.settles # {} /\ t = cancel_settle_order(s, o)
      \/ /\ s.settles # {} /\ ~has_settlement(s) /\ s.feed # none
         /\ ~(s.force_settled_volume >= most) /\ s.calls # {} /\ t = match_settle(s, o, c, left)
  BY DEF SettleStep
<1>2. Sound(s) /\ s.settles # {} => o \in s.settles
  BY FirstSettleIs, SoundTables
<1>3. Sound(s) /\ s.calls # {} => c \in s.calls
  BY LeastCollateralIs, SoundTables
<1>4. Sound(s) /\ ~(s.force_settled_volume >= most) => left \in Nat
  BY DEF Sound
<1> HIDE DEF o, c, left, t
<1>5. Keeps(s, Done(s)) /\ Keeps(s, Require(s, FALSE))
  BY KeepsDone, KeepsRequire
<1>6. ASSUME s.settles # {} PROVE Keeps(s, cancel_settle_order(s, o))
  BY <1>2, <1>6, CancelSettleKeeps
<1>7. ASSUME s.settles # {}, ~has_settlement(s), s.feed # none,
             ~(s.force_settled_volume >= most), s.calls # {}
      PROVE  Keeps(s, match_settle(s, o, c, left))
  BY <1>2, <1>3, <1>4, <1>7, MatchSettleKeeps
<1>8. Keeps(s, t)
  BY <1>1, <1>5, <1>6, <1>7
<1> QED BY <1>8 DEF t

LEMMA CancelStepKeeps ==
  ASSUME NEW s, DOMAIN s = Fields, NEW now
  PROVE  Keeps(s, CancelStep(s, now))
<1> DEFINE o == CHOOSE x \in Expired(s, now) : TRUE
<1>1. CancelStep(s, now) = IF Expired(s, now) = {} THEN Done(s) ELSE cancel_limit_order(s, o, TRUE)
  BY DEF CancelStep
<1>2. Expired(s, now) # {} => o \in s.limits
  BY DEF Expired
<1> HIDE DEF o
<1>3. Keeps(s, Done(s))
  BY KeepsDone
<1>4. ASSUME Expired(s, now) # {} PROVE \A virtual : Keeps(s, cancel_limit_order(s, o, virtual))
  BY <1>2, <1>4, KeepsCancel
<1> QED BY <1>1, <1>3, <1>4

LEMMA CancelAllKeeps ==
  ASSUME NEW s, Proper(s), NEW now
  PROVE  Keeps(s, CancelAll(s, Iterations(s), now))
<1> DEFINE n == Iterations(s)
           k == [loop |-> "cancel", now |-> now]
           u == CancelAll(s, n, now)
<1>1. DOMAIN s = Fields
  BY DEF Proper
<1>2. CASE ~s.ok
  <2>1. u = s
    BY <1>2, NoLoop
  <2> QED BY <1>1, <2>1, KeepsRefl
<1>3. CASE s.ok
  <2>1. n \in Nat
    BY <1>3, ProperParts
  <2>2. k.loop = "cancel" /\ k.now = now
    OBVIOUS
  <2> HIDE DEF n, k
  <2>3. Runs(u, k, s, n)
    BY <1>3, <2>1, <2>2, CancelRuns
  <2>4. ASSUME NEW t, Proper(t), t.ok PROVE Keeps(t, AnyStep(k, t))
    <3>1. AnyStep(k, t) = CancelStep(t, now)
      BY <2>2 DEF AnyStep
    <3>2. DOMAIN t = Fields
      BY <2>4 DEF Proper
    <3> QED BY <3>1, <3>2, CancelStepKeeps
  <2> HIDE DEF u
  <2>5. Keeps(s, u)
    BY <2>1, <2>3, <2>4, LoopKeeps
  <2> QED BY <2>5 DEF u, n
<1> QED BY <1>2, <1>3

LEMMA SettleAllKeeps ==
  ASSUME NEW s, Proper(s), NEW now, NEW most, s.ok => most \in Int
  PROVE  Keeps(s, SettleAll(s, Iterations(s), now, most))
<1> DEFINE n == Iterations(s)
           k == [loop |-> "settle", now |-> now, most |-> most]
           u == SettleAll(s, n, now, most)
<1>1. DOMAIN s = Fields
  BY DEF Proper
<1>2. CASE ~s.ok
  <2>1. u = s
    BY <1>2, NoLoop
  <2> QED BY <1>1, <2>1, KeepsRefl
<1>3. CASE s.ok
  <2>1. n \in Nat
    BY <1>3, ProperParts
  <2>2. k.loop = "settle" /\ k.now = now /\ k.most = most
    OBVIOUS
  <2> HIDE DEF n, k
  <2>3. Runs(u, k, s, n)
    BY <1>3, <2>1, <2>2, SettleRuns
  <2>4. ASSUME NEW t, Proper(t), t.ok PROVE Keeps(t, AnyStep(k, t))
    <3>1. AnyStep(k, t) = SettleStep(t, now, most)
      BY <2>2 DEF AnyStep
    <3>2. DOMAIN t = Fields
      BY <2>4 DEF Proper
    <3> QED BY <1>3, <3>1, <3>2, SettleStepKeeps
  <2> HIDE DEF u
  <2>5. Keeps(s, u)
    BY <2>1, <2>3, <2>4, LoopKeeps
  <2> QED BY <2>5 DEF u, n
<1> QED BY <1>2, <1>3

LEMMA ClearExpiredKeeps ==
  ASSUME NEW s, Proper(s), NEW now
  PROVE  Keeps(s, clear_expired_orders(s, now))
<1> DEFINE u == CancelAll(s, Iterations(s), now)
           most == max_force_settlement_volume(s)
           t == SettleAll(u, Iterations(u), now, most)
<1>1. clear_expired_orders(s, now) = t
  BY DEF clear_expired_orders, CancelAll, SettleAll
<1>2. Keeps(s, u)
  BY CancelAllKeeps
<1>3. Proper(u)
  BY <1>2, KeepsProper
<1>4. s.ok => most \in Int
  <2>1. ASSUME s.ok PROVE most \in Int
    <3>1. (s.supply + s.force_settled_volume) * MaxSettlementPercent \in Int
      BY <2>1, OrdersAssumption DEF Proper, Sound
    <3> QED BY <3>1 DEF max_force_settlement_volume
  <2> QED BY <2>1
<1>5. u.ok => s.ok
  BY <1>2 DEF Keeps, Stops
<1> HIDE DEF u, most
<1>6. Keeps(u, t)
  BY <1>3, <1>4, <1>5, SettleAllKeeps
<1> HIDE DEF t
<1>7. Keeps(s, t)
  BY <1>2, <1>6, KeepsTrans
<1> QED BY <1>1, <1>7

-----------------------------------------------------------------------------
(* The median feed.                                                        *)
PriceMedian(s, P) == Median(P, LAMBDA p, q : Below(s.feeds[p].feed.price, s.feeds[q].feed.price))
McrMedian(s, P) == Median(P, LAMBDA p, q : s.feeds[p].feed.mcr < s.feeds[q].feed.mcr)
MssrMedian(s, P) == Median(P, LAMBDA p, q : s.feeds[p].feed.mssr < s.feeds[q].feed.mssr)

LEMMA PriceMedianIs ==
  ASSUME NEW s, NEW P, IsFiniteSet(P), P # {}, \A a \in P : s.feeds[a].feed \in PriceFeeds
  PROVE  PriceMedian(s, P) \in P
<1> DEFINE p == [a \in P |-> s.feeds[a].feed.price]
           V(a) == s.feeds[a].feed.price
           n == CHOOSE x \in P :
                  /\ Cardinality({q \in P : Below(V(q), V(x))}) <= Cardinality(P) \div 2
                  /\ Cardinality({q \in P : ~Below(V(x), V(q))}) > Cardinality(P) \div 2
<1>1. PriceMedian(s, P) = n
  BY DEF PriceMedian, Median
<1>2. p \in [P -> Ratios]
  BY DEF PriceFeeds, Rates, Ratios, Positive
<1>3. \A a \in P : V(a) = p[a]
  OBVIOUS
<1> HIDE DEF p, V
<1>4. \A x \in P : /\ {q \in P : Below(V(q), V(x))} = {q \in P : Below(p[q], p[x])}
                   /\ {q \in P : ~Below(V(x), V(q))} = {q \in P : ~Below(p[x], p[q])}
  BY <1>3
<1>6. n \in P
  <2>1. \E x \in P :
          /\ Cardinality({q \in P : Below(p[q], p[x])}) <= Cardinality(P) \div 2
          /\ Cardinality({q \in P : ~Below(p[x], p[q])}) > Cardinality(P) \div 2
    BY <1>2, MedianExists
  <2>2. \E x \in P :
          /\ Cardinality({q \in P : Below(V(q), V(x))}) <= Cardinality(P) \div 2
          /\ Cardinality({q \in P : ~Below(V(x), V(q))}) > Cardinality(P) \div 2
    BY <1>4, <2>1
  <2> QED BY <2>2
<1> QED BY <1>1, <1>6

LEMMA NumberMedianExists ==
  ASSUME NEW P, IsFiniteSet(P), P # {}, NEW v \in [P -> Int]
  PROVE  \E m \in P :
           /\ Cardinality({q \in P : v[q] < v[m]}) <= Cardinality(P) \div 2
           /\ Cardinality({q \in P : ~(v[m] < v[q])}) > Cardinality(P) \div 2
<1> DEFINE p == [a \in P |-> Price(v[a], 1)]
<1>1. p \in [P -> Ratios]
  BY DEF Ratios, Positive, Price
<1>2. \A a, b \in P : Below(p[a], p[b]) <=> v[a] < v[b]
  <2>1. ASSUME NEW a \in P, NEW b \in P PROVE Below(p[a], p[b]) <=> v[a] < v[b]
    <3>1. p[a].base = v[a] /\ p[a].quote = 1 /\ p[b].base = v[b] /\ p[b].quote = 1
      BY DEF Price
    <3>2. v[a] \in Int /\ v[b] \in Int
      OBVIOUS
    <3> HIDE DEF p
    <3>3. Below(p[a], p[b]) <=> v[a] * 1 < v[b] * 1
      BY <3>1 DEF Below
    <3> QED BY <3>2, <3>3
  <2> QED BY <2>1
<1> HIDE DEF p
<1>3. \A m \in P : /\ {q \in P : Below(p[q], p[m])} = {q \in P : v[q] < v[m]}
                   /\ {q \in P : ~Below(p[m], p[q])} = {q \in P : ~(v[m] < v[q])}
  BY <1>2
<1>4. \E m \in P :
        /\ Cardinality({q \in P : Below(p[q], p[m])}) <= Cardinality(P) \div 2
        /\ Cardinality({q \in P : ~Below(p[m], p[q])}) > Cardinality(P) \div 2
  BY <1>1, MedianExists
<1> QED BY <1>3, <1>4

LEMMA McrMedianIs ==
  ASSUME NEW s, NEW P, IsFiniteSet(P), P # {}, \A a \in P : s.feeds[a].feed \in PriceFeeds
  PROVE  McrMedian(s, P) \in P
<1> DEFINE v == [a \in P |-> s.feeds[a].feed.mcr]
           V(a) == s.feeds[a].feed.mcr
           n == CHOOSE x \in P :
                  /\ Cardinality({q \in P : V(q) < V(x)}) <= Cardinality(P) \div 2
                  /\ Cardinality({q \in P : ~(V(x) < V(q))}) > Cardinality(P) \div 2
<1>1. McrMedian(s, P) = n
  BY DEF McrMedian, Median
<1>2. v \in [P -> Int]
  BY DEF PriceFeeds, Positive
<1>3. \A a \in P : V(a) = v[a]
  OBVIOUS
<1> HIDE DEF v, V
<1>4. \A x \in P : /\ {q \in P : V(q) < V(x)} = {q \in P : v[q] < v[x]}
                   /\ {q \in P : ~(V(x) < V(q))} = {q \in P : ~(v[x] < v[q])}
  BY <1>3
<1>5. \E x \in P :
        /\ Cardinality({q \in P : v[q] < v[x]}) <= Cardinality(P) \div 2
        /\ Cardinality({q \in P : ~(v[x] < v[q])}) > Cardinality(P) \div 2
  BY <1>2, NumberMedianExists
<1>6. \E x \in P :
        /\ Cardinality({q \in P : V(q) < V(x)}) <= Cardinality(P) \div 2
        /\ Cardinality({q \in P : ~(V(x) < V(q))}) > Cardinality(P) \div 2
  BY <1>4, <1>5
<1> QED BY <1>1, <1>6

LEMMA MssrMedianIs ==
  ASSUME NEW s, NEW P, IsFiniteSet(P), P # {}, \A a \in P : s.feeds[a].feed \in PriceFeeds
  PROVE  MssrMedian(s, P) \in P
<1> DEFINE v == [a \in P |-> s.feeds[a].feed.mssr]
           V(a) == s.feeds[a].feed.mssr
           n == CHOOSE x \in P :
                  /\ Cardinality({q \in P : V(q) < V(x)}) <= Cardinality(P) \div 2
                  /\ Cardinality({q \in P : ~(V(x) < V(q))}) > Cardinality(P) \div 2
<1>1. MssrMedian(s, P) = n
  BY DEF MssrMedian, Median
<1>2. v \in [P -> Int]
  BY DEF PriceFeeds, Positive
<1>3. \A a \in P : V(a) = v[a]
  OBVIOUS
<1> HIDE DEF v, V
<1>4. \A x \in P : /\ {q \in P : V(q) < V(x)} = {q \in P : v[q] < v[x]}
                   /\ {q \in P : ~(V(x) < V(q))} = {q \in P : ~(v[x] < v[q])}
  BY <1>3
<1>5. \E x \in P :
        /\ Cardinality({q \in P : v[q] < v[x]}) <= Cardinality(P) \div 2
        /\ Cardinality({q \in P : ~(v[x] < v[q])}) > Cardinality(P) \div 2
  BY <1>2, NumberMedianExists
<1>6. \E x \in P :
        /\ Cardinality({q \in P : V(q) < V(x)}) <= Cardinality(P) \div 2
        /\ Cardinality({q \in P : ~(V(x) < V(q))}) > Cardinality(P) \div 2
  BY <1>4, <1>5
<1> QED BY <1>1, <1>6

-----------------------------------------------------------------------------
FeedOf(s, P) ==
  [price |-> s.feeds[PriceMedian(s, P)].feed.price, mcr |-> s.feeds[McrMedian(s, P)].feed.mcr,
   mssr |-> s.feeds[MssrMedian(s, P)].feed.mssr]
Since(s, P) == Min({s.feeds[p].time : p \in P})

LEMMA MedianFeeds ==
  ASSUME NEW s, NEW now
  PROVE  update_median_feeds(s, now) =
           IF Cardinality(Alive(s, now)) < MinimumFeeds
             THEN [s EXCEPT !.feed = none, !.published = now]
             ELSE [s EXCEPT !.feed = FeedOf(s, Alive(s, now)), !.published = Since(s, Alive(s, now))]
BY DEF update_median_feeds, FeedOf, Since, PriceMedian, McrMedian, MssrMedian

LEMMA FeedOfIs ==
  ASSUME NEW s, FeedsAre(s), NEW P \in SUBSET Publishers, P # {}, \A p \in P : s.feeds[p].feed # none
  PROVE  FeedOf(s, P) \in PriceFeeds /\ Since(s, P) \in Int
<1>1. IsFiniteSet(P)
  BY MarketAssumption, FS_Subset
<1>2. \A p \in P : s.feeds[p].feed \in PriceFeeds /\ s.feeds[p].time \in Int
  BY DEF FeedsAre
<1>3. PriceMedian(s, P) \in P /\ McrMedian(s, P) \in P /\ MssrMedian(s, P) \in P
  BY <1>1, <1>2, PriceMedianIs, McrMedianIs, MssrMedianIs
<1>4. FeedOf(s, P) \in PriceFeeds
  <2>1. /\ s.feeds[PriceMedian(s, P)].feed.price \in Rates
        /\ s.feeds[McrMedian(s, P)].feed.mcr \in Positive
        /\ s.feeds[MssrMedian(s, P)].feed.mssr \in Positive
    BY <1>2, <1>3 DEF PriceFeeds
  <2> QED BY <2>1 DEF FeedOf, PriceFeeds
<1>5. Since(s, P) \in Int
  <2> DEFINE T == {s.feeds[p].time : p \in P}
  <2>1. IsFiniteSet(T)
    <3>1. [p \in P |-> s.feeds[p].time] \in Surjection(P, T)
      BY DEF Surjection
    <3> QED BY <1>1, <3>1, FS_Surjection
  <2>2. T \subseteq Int /\ T # {}
    BY <1>2
  <2> HIDE DEF T
  <2>3. Min(T) \in T
    BY <2>1, <2>2, MinIs
  <2>4. Min(T) \in Int
    BY <2>2, <2>3
  <2> QED BY <2>4 DEF T, Since
<1> QED BY <1>4, <1>5

LEMMA MedianFeedsKeeps ==
  ASSUME NEW s, DOMAIN s = Fields, NEW now \in Int
  PROVE  LET t == update_median_feeds(s, now) IN
         Keeps(s, t) /\ Only(s, t, FeedFields)
<1> DEFINE P == Alive(s, now)
           u == [s EXCEPT !.feed = none, !.published = now]
           v == [s EXCEPT !.feed = FeedOf(s, P), !.published = Since(s, P)]
           t == update_median_feeds(s, now)
<1>1. t = IF Cardinality(P) < MinimumFeeds THEN u ELSE v
  BY MedianFeeds
<1>2. P \in SUBSET Publishers /\ \A p \in P : s.feeds[p].feed # none
  BY DEF Alive
<1> HIDE DEF P, t
<1>3. /\ Only(s, u, FeedFields) /\ u.feed = none /\ u.published = now /\ u.feeds = s.feeds
      /\ u.force_settled_volume = s.force_settled_volume
  BY DEF Only, Fields, FeedFields
<1>4. /\ Only(s, v, FeedFields) /\ v.feed = FeedOf(s, P) /\ v.published = Since(s, P)
      /\ v.feeds = s.feeds /\ v.force_settled_volume = s.force_settled_volume
  BY DEF Only, Fields, FeedFields
<1> HIDE DEF u, v
<1>5. Keeps(s, u)
  <2>1. ASSUME Sound(s) PROVE FeedsAre(u)
    BY <1>3, <2>1, SoundFeeds DEF FeedsAre
  <2> QED BY <1>3, <2>1, KeepsFeeds
<1>6. ASSUME ~(Cardinality(P) < MinimumFeeds) PROVE Keeps(s, v)
  <2>1. ASSUME Sound(s) PROVE FeedsAre(v)
    <3>1. P # {}
      <4>1. Cardinality({}) = 0 /\ MinimumFeeds \in Nat /\ MinimumFeeds # 0
        BY MarketAssumption, FS_EmptySet DEF Positive
      <4>2. Cardinality({}) < MinimumFeeds
        BY <4>1
      <4> QED BY <1>6, <4>2
    <3>2. FeedOf(s, P) \in PriceFeeds /\ Since(s, P) \in Int
      BY <1>2, <2>1, <3>1, SoundFeeds, FeedOfIs
    <3> QED BY <1>4, <2>1, <3>2, SoundFeeds DEF FeedsAre
  <2> QED BY <1>4, <2>1, KeepsFeeds
<1>7. Keeps(s, t) /\ Only(s, t, FeedFields)
  BY <1>1, <1>3, <1>4, <1>5, <1>6
<1> QED BY <1>7 DEF t

LEMMA ExpiredFeedsKeeps ==
  ASSUME NEW s, Proper(s), NEW now \in Int
  PROVE  Keeps(s, update_expired_feeds(s, now))
<1> DEFINE u == update_median_feeds(s, now)
           t == check_call_orders(u, TRUE)
<1>1. update_expired_feeds(s, now) = t \/ update_expired_feeds(s, now) = s
  BY DEF update_expired_feeds
<1>2. DOMAIN s = Fields
  BY DEF Proper
<1>3. Keeps(s, u)
  BY <1>2, MedianFeedsKeeps
<1>4. Proper(u)
  BY <1>3, KeepsProper
<1>5. t = check_call_orders(u, TRUE)
  OBVIOUS
<1> HIDE DEF u, t
<1>6. \A enable : Keeps(u, check_call_orders(u, enable))
  BY <1>4, CheckCallsKeeps
<1>7. Keeps(u, t)
  BY <1>5, <1>6
<1> QED BY <1>1, <1>2, <1>3, <1>7, KeepsTrans, KeepsRefl

LEMMA ProcessBitassetsKeeps ==
  ASSUME NEW s, Proper(s), s.ok, NEW now \in Int
  PROVE  Keeps(s, process_bitassets(s, now))
<1> DEFINE Current(f) == f.time >= now - FeedLifetime
           kept == [p \in Publishers |-> IF Current(s.feeds[p]) THEN s.feeds[p] ELSE NoFeed]
           r == [s EXCEPT !.force_settled_volume = 0, !.feeds = kept]
<1>1. process_bitassets(s, now) = IF has_settlement(s) THEN process_bids(r) ELSE r
  BY DEF process_bitassets
<1>2. DOMAIN s = Fields
  BY DEF Proper
<1>3. FeedsAre(s) => kept \in [Publishers -> [time : Int, feed : PriceFeeds \cup {none}]]
  BY DEF FeedsAre, NoFeed
<1> HIDE DEF kept
<1>4. /\ Only(s, r, FeedFields) /\ r.feed = s.feed /\ r.published = s.published /\ r.feeds = kept
      /\ r.force_settled_volume = 0 /\ r.ok = s.ok /\ r.settlement_price = s.settlement_price
  BY <1>2 DEF Only, Fields, FeedFields
<1> HIDE DEF r
<1>5. Keeps(s, r)
  <2>1. ASSUME Sound(s) PROVE FeedsAre(r)
    BY <1>3, <1>4, <2>1, SoundFeeds DEF FeedsAre
  <2> QED BY <1>4, <2>1, KeepsFeeds
<1>6. Proper(r) /\ DOMAIN r = Fields
  BY <1>5, KeepsProper, KeepsDomain
<1>7. ASSUME has_settlement(s) PROVE Keeps(s, process_bids(r))
  <2>1. has_settlement(r) /\ r.ok
    BY <1>4, <1>7 DEF has_settlement
  <2>2. Keeps(r, process_bids(r))
    BY <1>6, <2>1, ProcessBidsKeeps
  <2> QED BY <1>5, <2>2, KeepsTrans
<1> QED BY <1>1, <1>5, <1>7

-----------------------------------------------------------------------------
(* The operations.  The books of the market, with the core there has to be. *)
Good(s) == Books(s, CoreSupply, 0)

LEMMA GoodIs ==
  ASSUME NEW s
  PROVE  s.ok /\ Balanced(s) <=> Good(s)
<1>1. Positive \subseteq Nat
  BY DEF Positive
<1>2. ASSUME s.ok, Balanced(s) PROVE Good(s)
  <2>1. IsMarket(s) /\ TotalCore(s) = CoreSupply /\ TotalMia(s) = s.supply /\ DebtIsSupply(s)
        /\ CoreInOrders(s) /\ FundCovers(s)
    BY <1>2 DEF Balanced, Conserved
  <2>2. s.supply \in Nat /\ s.supply + 0 = s.supply
    BY <2>1 DEF IsMarket
  <2>3. Sound(s)
    BY <1>2, <2>1 DEF IsMarket, Sound, Balances
  <2> QED BY <2>1, <2>2, <2>3 DEF Good, Books
<1>3. ASSUME Good(s) PROVE s.ok /\ Balanced(s)
  <2>1. /\ Sound(s) /\ s.supply \in Nat /\ TotalCore(s) = CoreSupply /\ TotalMia(s) = s.supply + 0
        /\ DebtIsSupply(s) /\ FundCovers(s)
    BY <1>3 DEF Good, Books
  <2>2. TotalMia(s) = s.supply
    BY <2>1
  <2>3. s.ok /\ IsMarket(s) /\ CoreInOrders(s)
    BY <2>1 DEF Sound, IsMarket, Balances
  <2> QED BY <2>1, <2>2, <2>3 DEF Balanced, Conserved
<1> QED BY <1>2, <1>3

LEMMA GoodParts ==
  ASSUME NEW s, Good(s)
  PROVE  Proper(s) /\ s.ok /\ DOMAIN s = Fields /\ Sound(s) /\ CoreSupply \in Int
<1>1. Sound(s) /\ TotalCore(s) = CoreSupply /\ s.supply \in Nat /\ DebtIsSupply(s) /\ FundCovers(s)
  BY DEF Good, Books
<1>2. DOMAIN s = Fields /\ s.ok
  BY <1>1, SoundTables
<1>3. CoreSupply \in Int
  BY <1>1, SoundParts
<1> QED BY <1>1, <1>2, <1>3 DEF Proper

LEMMA GoodAlike ==
  ASSUME NEW s, Good(s), NEW t, Alike(s, t)
  PROVE  Good(t)
<1>1. DOMAIN s = Fields /\ s.ok /\ CoreSupply \in Int
  BY GoodParts
<1>2. Keeps(s, t) /\ t.ok
  BY <1>1, KeepsAlike DEF Alike
<1> QED BY <1>1, <1>2 DEF Keeps, Good

LEMMA GoodKept ==
  ASSUME NEW s, Good(s), NEW t, Keeps(s, t), t.ok
  PROVE  Good(t)
BY GoodParts DEF Keeps, Good

LEMMA BeginIs ==
  ASSUME Good(market)
  PROVE  Good(Begin) /\ Alike(market, Begin)
<1>1. DOMAIN market = Fields
  BY GoodParts
<1>2. Only(market, Begin, {"fills", "done", "called", "hung"})
  BY <1>1 DEF Begin, Only, Fields
<1>3. Alike(market, Begin)
  BY <1>2, AlikeIs
<1> QED BY <1>3, GoodAlike

LEMMA ResetIs ==
  ASSUME NEW s, Good(s), NEW t, t = [s EXCEPT !.done = FALSE, !.called = FALSE]
  PROVE  Good(t)
<1>1. DOMAIN s = Fields
  BY GoodParts
<1>2. Only(s, t, {"fills", "done", "called", "hung"})
  BY <1>1 DEF Only, Fields
<1>3. Alike(s, t)
  BY <1>2, AlikeIs
<1> QED BY <1>3, GoodAlike

(* What an operation leaves when it is accepted.                           *)
LEMMA Applied ==
  ASSUME NEW s, Apply(s), s.ok => Good(s)
  PROVE  Good(market') /\ head_time' = head_time
<1>1. s.ok /\ market' = [s EXCEPT !.done = FALSE, !.called = FALSE] /\ head_time' = head_time
  BY DEF Apply
<1>2. Good(s)
  BY <1>1
<1> QED BY <1>1, <1>2, ResetIs

LEMMA AppliedKeeps ==
  ASSUME Good(market), NEW s, Apply(s), Keeps(Begin, s)
  PROVE  Good(market') /\ head_time' = head_time
<1>1. Good(Begin)
  BY BeginIs
<1>2. s.ok => Good(s)
  BY <1>1, GoodKept
<1> QED BY <1>2, Applied

-----------------------------------------------------------------------------
LEMMA CancelKeepsBooks ==
  ASSUME Good(market), NEW o \in market.limits, limit_order_cancel(o)
  PROVE  Good(market') /\ head_time' = head_time
<1>1. DOMAIN Begin = Fields /\ Begin.limits = market.limits
  BY BeginIs, GoodParts DEF Alike
<1>2. \A virtual : Keeps(Begin, cancel_limit_order(Begin, o, virtual))
  BY <1>1, KeepsCancel
<1>3. Keeps(Begin, cancel_limit_order(Begin, o, FALSE)) /\ Apply(cancel_limit_order(Begin, o, FALSE))
  BY <1>2 DEF limit_order_cancel
<1> DEFINE t == cancel_limit_order(Begin, o, FALSE)
<1>4. Keeps(Begin, t) /\ Apply(t)
  BY <1>3
<1> HIDE DEF t
<1> QED BY <1>4, AppliedKeeps

LEMMA GlobalSettleKeepsBooks ==
  ASSUME Good(market), NEW p \in SettlePrices, asset_global_settle(p)
  PROVE  Good(market') /\ head_time' = head_time
<1>1. Proper(Begin)
  BY BeginIs, GoodParts
<1>2. p.base \in Positive /\ p.quote \in Nat
  BY MarketAssumption DEF Rates, Positive
<1>3. Begin.supply > 0 /\ Apply(globally_settle_asset(Begin, p))
  BY DEF asset_global_settle
<1>4. Keeps(Begin, globally_settle_asset(Begin, p))
  BY <1>1, <1>2, <1>3, GlobalKeeps
<1> QED BY <1>3, <1>4, AppliedKeeps

LEMMA BlockKeepsBooks ==
  ASSUME Good(market), head_time \in Int, apply_block
  PROVE  Good(market') /\ head_time' \in Int
<1> DEFINE now == head_time + 1
           b == Begin
           q == process_bitassets(b, now)
           m == IF now % MaintenanceInterval = 0 THEN q ELSE b
           c == clear_expired_orders(m, now)
           s == update_expired_feeds(c, now)
           t == [s EXCEPT !.done = FALSE, !.called = FALSE]
<1>1. (market' = IF s.ok THEN t ELSE market) /\ (head_time' = IF s.ok THEN now ELSE head_time)
  BY DEF apply_block
<1>2. now \in Int
  OBVIOUS
<1>3. Good(b) /\ Proper(b) /\ b.ok /\ DOMAIN b = Fields
  BY BeginIs, GoodParts
<1>4. m = q \/ m = b
  OBVIOUS
<1>5. q = process_bitassets(b, now)
  OBVIOUS
<1> HIDE DEF now, b, q, m
<1>6. Keeps(b, q) /\ Keeps(b, b)
  BY <1>2, <1>3, <1>5, ProcessBitassetsKeeps, KeepsRefl
<1>7. Keeps(b, m)
  BY <1>4, <1>6
<1>8. Proper(m)
  BY <1>3, <1>7, KeepsProper
<1>9. Keeps(m, c)
  BY <1>8, ClearExpiredKeeps
<1> HIDE DEF c
<1>10. Proper(c)
  BY <1>8, <1>9, KeepsProper
<1>11. Keeps(c, s)
  BY <1>2, <1>10, ExpiredFeedsKeeps
<1> HIDE DEF s
<1>12. Keeps(b, s)
  BY <1>7, <1>9, <1>11, KeepsTrans
<1>13. s.ok => Good(t)
  BY <1>3, <1>12, GoodKept, ResetIs
<1> HIDE DEF t
<1> QED BY <1>1, <1>2, <1>13

LEMMA PublishKeepsBooks ==
  ASSUME Good(market), head_time \in Int, NEW p \in Publishers, NEW f \in Feeds, publish_feed(p, f)
  PROVE  Good(market') /\ head_time' = head_time
<1> DEFINE b == Begin
           n == [b EXCEPT !.feeds[p] = [time |-> head_time, feed |-> f]]
           s == update_median_feeds(n, head_time)
           fund == call_price(s.supply, s.settlement_fund, s.feed.mcr)
           must == /\ has_settlement(s) /\ s.feed # none
                   /\ s.supply = 0 \/ Below(Inverted(fund), s.feed.price)
           v == revive_bitasset(s)
           revived == IF must THEN v ELSE s
           c == check_call_orders(revived, TRUE)
           r == IF s.feed = b.feed THEN s ELSE c
<1>1. Apply(r)
  BY DEF publish_feed
<1>2. Good(b) /\ DOMAIN b = Fields /\ b.ok /\ Sound(b) /\ Proper(b)
  BY BeginIs, GoodParts
<1>2a. b = Begin
  OBVIOUS
<1>3. must => has_settlement(s) /\ s.feed # none
  OBVIOUS
<1> HIDE DEF b, must
<1>4. Only(b, n, FeedFields) /\ n.ok = b.ok
      /\ n.feeds = [b.feeds EXCEPT ![p] = [time |-> head_time, feed |-> f]]
      /\ n.feed = b.feed /\ n.published = b.published /\ n.force_settled_volume = b.force_settled_volume
  BY <1>2 DEF Only, Fields, FeedFields
<1> HIDE DEF n
<1>5. FeedsAre(n)
  <2>1. FeedsAre(b)
    BY <1>2, SoundFeeds
  <2>2. f \in PriceFeeds
    BY MarketAssumption
  <2> QED BY <1>4, <2>1, <2>2 DEF FeedsAre
<1>6. Keeps(b, n)
  BY <1>4, <1>5, KeepsFeeds
<1>7. Proper(n) /\ DOMAIN n = Fields /\ n.ok
  BY <1>2, <1>4, <1>6, KeepsProper, KeepsDomain
<1>8. Keeps(n, s) /\ Only(n, s, FeedFields)
  BY <1>7, MedianFeedsKeeps
<1> HIDE DEF s
<1>9. Proper(s) /\ DOMAIN s = Fields /\ s.ok
  <2>1. s.ok = n.ok
    BY <1>8 DEF Only, Fields, FeedFields
  <2> QED BY <1>7, <1>8, <2>1, KeepsProper, KeepsDomain
<1>10. Keeps(s, revived)
  <2>1. must => Keeps(s, v)
    BY <1>3, <1>9, ReviveKeeps
  <2>2. Keeps(s, s)
    BY <1>9, KeepsRefl
  <2> HIDE DEF v
  <2> QED BY <2>1, <2>2
<1> HIDE DEF revived
<1>11. Proper(revived)
  BY <1>9, <1>10, KeepsProper
<1>12. \A enable : Keeps(revived, check_call_orders(revived, enable))
  BY <1>11, CheckCallsKeeps
<1>13. Keeps(revived, c)
  BY <1>12
<1> HIDE DEF c
<1>14. Keeps(b, s) /\ Keeps(b, c)
  BY <1>6, <1>8, <1>10, <1>13, KeepsTrans
<1>15. Keeps(b, r)
  BY <1>14
<1> HIDE DEF r
<1> QED BY <1>1, <1>2a, <1>15, AppliedKeeps

-----------------------------------------------------------------------------
(* Settlement.  Once the asset is settled, the fund pays.                  *)
LEMMA RedeemedIs ==
  ASSUME NEW s, s.supply \in Nat, s.settlement_fund \in Nat,
         NEW p, p = s.settlement_price, p.base \in Positive, p.quote \in Nat,
         s.supply * p.quote <= s.settlement_fund * p.base, NEW n \in Nat,
         NEW amount, amount = IF n = s.supply THEN s.settlement_fund ELSE ToQuote(n, p), amount > 0,
         amount <= s.settlement_fund
  PROVE  LET pays == Redeemed(s, n, amount) IN
         /\ amount \in Nat /\ pays \in Nat
         /\ (s.supply - pays) * p.quote <= (s.settlement_fund - amount) * p.base
<1> DEFINE pays == Redeemed(s, n, amount)
           u == s.supply
           d == s.settlement_fund
<1>1. u \in Nat /\ d \in Nat /\ u * p.quote <= d * p.base
  OBVIOUS
<1>2. pays = IF n = u THEN n ELSE ToBaseUp(amount, p)
  BY DEF Redeemed
<1>3. amount = IF n = u THEN d ELSE ToQuote(n, p)
  OBVIOUS
<1> HIDE DEF pays, u, d
<1>4. CASE n = u
  <2>1. pays = u /\ amount = d
    BY <1>2, <1>3, <1>4
  <2>2. (u - u) * p.quote <= (d - d) * p.base
    <3>1. u - u = 0 /\ d - d = 0
      BY <1>1
    <3> QED BY <3>1 DEF Positive
  <2> QED BY <1>1, <2>1, <2>2 DEF pays, u, d
<1>5. CASE n # u
  <2>1. pays = ToBaseUp(amount, p) /\ amount = ToQuote(n, p)
    BY <1>2, <1>3, <1>5
  <2>2. amount \in Nat
    BY <2>1, RoundDown
  <2>3. p.quote # 0
    <3>1. ASSUME p.quote = 0 PROVE FALSE
      <4>1. amount * p.base <= n * p.quote
        BY <2>1, RoundDown
      <4>2. n * p.quote = 0
        BY <3>1
      <4>3. amount >= 1 /\ p.base >= 1 /\ p.base \in Nat
        BY <2>2 DEF Positive
      <4>4. 1 * p.base <= amount * p.base
        BY <2>2, <4>3, Scaled
      <4>5. amount * p.base \in Int
        BY <2>2, <4>3
      <4> QED BY <4>1, <4>2, <4>3, <4>4, <4>5
    <3> QED BY <3>1
  <2> DEFINE i == Inverted(p)
  <2>4. i.base = p.quote /\ i.quote = p.base /\ i.base \in Positive /\ i.quote \in Nat
    BY <2>3 DEF Inverted, Price, Positive
  <2>5. pays = ToQuoteUp(amount, i)
    BY <2>1 DEF ToBaseUp
  <2> HIDE DEF i
  <2>6. pays \in Nat /\ amount * i.quote <= pays * i.base
    BY <2>2, <2>4, <2>5, RoundUp
  <2>7. amount * p.base <= pays * p.quote
    BY <2>4, <2>6
  <2>8. /\ (u - pays) * p.quote = u * p.quote - pays * p.quote
        /\ (d - amount) * p.base = d * p.base - amount * p.base
    BY <1>1, <2>2, <2>6 DEF Positive
  <2>9. u * p.quote \in Int /\ pays * p.quote \in Int /\ d * p.base \in Int /\ amount * p.base \in Int
    BY <1>1, <2>2, <2>6 DEF Positive
  <2>10. (u - pays) * p.quote <= (d - amount) * p.base
    BY <1>1, <2>7, <2>8, <2>9
  <2> QED BY <2>2, <2>6, <2>10 DEF pays, u, d
<1> QED BY <1>4, <1>5

(* The fund and the supply are less by what is paid and what is taken.     *)
LEMMA FundPays ==
  ASSUME NEW s, Good(s), has_settlement(s), NEW a \in Accounts, NEW amount \in Nat, NEW pays \in Nat,
         amount <= s.settlement_fund,
         (s.supply - pays) * s.settlement_price.quote
           <= (s.settlement_fund - amount) * s.settlement_price.base,
         NEW u, u = adjust_balance(s, a, "mia", -pays),
         NEW v, v = adjust_balance(u, a, "core", amount),
         NEW t, t = [v EXCEPT !.settlement_fund = @ - amount, !.supply = @ - pays], t.ok
  PROVE  Good(t)
<1>1. Proper(s) /\ DOMAIN s = Fields /\ s.ok /\ Sound(s)
  BY GoodParts
<1>2. /\ s.supply \in Nat /\ s.settlement_fund \in Nat /\ s.calls = {}
      /\ TotalCore(s) \in Int /\ TotalMia(s) \in Int
  BY <1>1, SettledParts
<1>3. -pays \in Int /\ amount \in Int
  OBVIOUS
<1>4. Moves(s, u, {"balance", "ok"}, "mia", -pays, 0) /\ Stops(s, u)
  BY <1>1, <1>3, AssetsAre, Adjust
<1>5. DOMAIN u = Fields
  BY <1>4 DEF Stops
<1>6. Stops(u, v)
  BY <1>5, AdjustStops
<1>7. DOMAIN v = Fields
  BY <1>6 DEF Stops
<1>8. Only(v, t, {"settlement_fund", "supply"}) /\ t.settlement_fund = v.settlement_fund - amount
      /\ t.supply = v.supply - pays /\ t.ok = v.ok
  BY <1>7 DEF Only, Fields
<1>9. v.ok /\ u.ok
  BY <1>6, <1>8 DEF Stops
<1>10. Sound(u) /\ TotalMia(u) = TotalMia(s) + (-pays) /\ TotalCore(u) = TotalCore(s) + 0
  BY <1>4, <1>9, OtherIs DEF Moves
<1>11. Moves(u, v, {"balance", "ok"}, "core", amount, 0)
  BY <1>3, <1>10, AssetsAre, Adjust
<1>12. Sound(v) /\ TotalCore(v) = TotalCore(u) + amount /\ TotalMia(v) = TotalMia(u) + 0
  BY <1>9, <1>11, OtherIs DEF Moves
<1>13. /\ v.supply = s.supply /\ v.settlement_fund = s.settlement_fund /\ v.calls = s.calls
       /\ v.settlement_price = s.settlement_price
  <2>1. Only(s, u, {"balance", "ok"}) /\ Only(u, v, {"balance", "ok"})
    BY <1>4, <1>11 DEF Moves
  <2> QED BY <2>1 DEF Only, Fields
<1>14. /\ DOMAIN t = Fields /\ t.balance = v.balance /\ t.limits = v.limits
       /\ t.settles = v.settles /\ t.bids = v.bids /\ t.calls = v.calls
       /\ t.core_in_orders = v.core_in_orders
       /\ t.feeds = v.feeds /\ t.feed = v.feed /\ t.published = v.published
       /\ t.settlement_price = v.settlement_price
       /\ t.force_settled_volume = v.force_settled_volume
       /\ t.accumulated_fees = v.accumulated_fees /\ t.fee_pool = v.fee_pool
       /\ t.paid_fees = v.paid_fees
  BY <1>8 DEF Only, Fields
<1>15. t.settlement_fund \in Nat /\ t.supply \in Int
  BY <1>2, <1>8, <1>13
<1>16. Sound(t)
  BY <1>12, <1>14, <1>15 DEF Sound, CoreInOrders
<1>17. TotalMia(t) = TotalMia(v)
  BY <1>14 DEF TotalMia
<1>18. TotalCore(t) = TotalCore(v) - amount
  <2>1. TotalCore(t) =
        Held(v.balance, "core") + ForSale(v.limits, "core")
        + Total(v.limits, "deferred_fee") + Total(v.calls, "collateral")
        + Total(v.bids, "collateral") + (v.settlement_fund - amount) + v.fee_pool
        + v.paid_fees + v.accumulated_fees["core"]
    BY <1>8, <1>14 DEF TotalCore
  <2>2. TotalCore(v) =
        Held(v.balance, "core") + ForSale(v.limits, "core")
        + Total(v.limits, "deferred_fee") + Total(v.calls, "collateral")
        + Total(v.bids, "collateral") + v.settlement_fund + v.fee_pool
        + v.paid_fees + v.accumulated_fees["core"]
    BY DEF TotalCore
  <2>3. /\ Held(v.balance, "core") \in Int /\ ForSale(v.limits, "core") \in Int
        /\ Total(v.limits, "deferred_fee") \in Int /\ Total(v.calls, "collateral") \in Int
        /\ Total(v.bids, "collateral") \in Int /\ v.settlement_fund \in Int
        /\ v.fee_pool \in Int /\ v.paid_fees \in Int /\ v.accumulated_fees["core"] \in Int
    BY <1>12, SoundParts, AssetsAre
  <2> QED BY <2>1, <2>2, <2>3
<1>19. TotalCore(s) = CoreSupply /\ TotalMia(s) = s.supply + 0
  BY DEF Good, Books
<1>20. TotalCore(t) = CoreSupply /\ TotalMia(t) = t.supply + 0
  BY <1>2, <1>8, <1>10, <1>12, <1>13, <1>17, <1>18, <1>19
<1>21. t.supply \in Nat
  BY <1>15, <1>16, <1>20, SoundParts
<1>22. DebtIsSupply(t) /\ FundCovers(t)
  <2>1. has_settlement(t) /\ t.calls = {}
    BY <1>2, <1>13, <1>14 DEF has_settlement
  <2>2. t.supply * t.settlement_price.quote <= t.settlement_fund * t.settlement_price.base
    BY <1>8, <1>13, <1>14
  <2> QED BY <2>1, <2>2 DEF DebtIsSupply, FundCovers
<1> QED BY <1>16, <1>20, <1>21, <1>22 DEF Good, Books

-----------------------------------------------------------------------------
(* What an account pays, or is paid.                                       *)
LEMMA Adjusted ==
  ASSUME NEW s, Sound(s), NEW a \in Accounts, NEW x \in Assets, NEW n \in Int,
         NEW t, t = adjust_balance(s, a, x, n), t.ok
  PROVE  /\ Sound(t) /\ DOMAIN t = Fields /\ Only(s, t, {"balance", "ok"})
         /\ TotalCore(s) \in Int /\ TotalMia(s) \in Int
         /\ x = "core" => TotalCore(t) = TotalCore(s) + n /\ TotalMia(t) = TotalMia(s)
         /\ x = "mia" => TotalMia(t) = TotalMia(s) + n /\ TotalCore(t) = TotalCore(s)
<1>1. Moves(s, t, {"balance", "ok"}, x, n, 0)
  BY Adjust
<1>2. Sound(t) /\ Tot(t, x) = Tot(s, x) + n /\ Tot(t, Other(x)) = Tot(s, Other(x)) + 0
      /\ Only(s, t, {"balance", "ok"})
  BY <1>1 DEF Moves
<1>3. TotalCore(s) \in Int /\ TotalMia(s) \in Int
  BY SoundParts
<1> QED BY <1>2, <1>3, OtherIs DEF Only

(* Debt and fund are in order when nothing that they are of has changed.   *)
LEMMA SameDebt ==
  ASSUME NEW s, NEW t, t.calls = s.calls, t.supply = s.supply,
         t.settlement_price = s.settlement_price, t.settlement_fund = s.settlement_fund
  PROVE  (DebtIsSupply(s) => DebtIsSupply(t)) /\ (FundCovers(s) => FundCovers(t))
BY DEF DebtIsSupply, FundCovers, has_settlement

-----------------------------------------------------------------------------
(* The amount waits for its date.                                          *)
NewSettle(S, a, n, date) == [id |-> NextId(S), owner |-> a, balance |-> n, date |-> date]

LEMMA NewSettleIs ==
  ASSUME NEW S, Table(S, Settles), NEW a \in Accounts, NEW n \in Nat, NEW date \in Int
  PROVE  LET y == NewSettle(S, a, n, date) IN
         y \in Settles /\ y.balance = n /\ \A x \in S : x.id # y.id
<1>1. IsFiniteSet(S) /\ \A x \in S : x.id \in Nat
  BY DEF Table, Settles
<1>2. NextId(S) \in Nat /\ \A x \in S : x.id # NextId(S)
  BY <1>1, NextIdIs
<1> QED BY <1>2 DEF NewSettle, Settles

LEMMA WaitKeeps ==
  ASSUME NEW s, Good(s), NEW a \in Accounts, NEW n \in Nat, NEW date \in Int,
         NEW u, u = adjust_balance(s, a, "mia", -n),
         NEW t, t = [u EXCEPT !.settles = @ \cup {NewSettle(@, a, n, date)}], t.ok
  PROVE  Good(t)
<1> DEFINE y == NewSettle(u.settles, a, n, date)
<1>1. Sound(s) /\ DOMAIN s = Fields /\ s.ok
  BY GoodParts
<1>2. DOMAIN u = Fields
  BY <1>1, AdjustStops DEF Stops
<1>3. Only(u, t, {"settles"}) /\ t.settles = u.settles \cup {y} /\ t.ok = u.ok
  BY <1>2 DEF Only, Fields
<1>4. u.ok /\ -n \in Int
  BY <1>3
<1>5. /\ Sound(u) /\ TotalMia(u) = TotalMia(s) + (-n) /\ TotalCore(u) = TotalCore(s)
      /\ Only(s, u, {"balance", "ok"}) /\ TotalMia(s) \in Int
  BY <1>1, <1>4, AssetsAre, Adjusted
<1>6. Table(u.settles, Settles)
  BY <1>5 DEF Sound
<1>7. y \in Settles /\ y.balance = n /\ \A x \in u.settles : x.id # y.id
  BY <1>6, NewSettleIs
<1> HIDE DEF y
<1>8. t.settles = With(u.settles, y)
  BY <1>3 DEF With
<1>9. /\ Table(t.settles, Settles)
      /\ Total(u.settles, "balance") \in Int
      /\ Total(t.settles, "balance") = Total(u.settles, "balance") + n
  BY <1>6, <1>7, <1>8, SettleNew
<1>10. /\ Sound(t) /\ TotalCore(t) = TotalCore(u)
       /\ TotalMia(t) = TotalMia(u) - Total(u.settles, "balance") + Total(t.settles, "balance")
  BY <1>3, <1>5, <1>9, SettlesChange
<1>11. TotalMia(t) = TotalMia(s) /\ TotalCore(t) = TotalCore(s)
  BY <1>5, <1>9, <1>10
<1>12. t.calls = s.calls /\ t.supply = s.supply /\ t.settlement_price = s.settlement_price
       /\ t.settlement_fund = s.settlement_fund
  BY <1>3, <1>5 DEF Only, Fields
<1>13. (DebtIsSupply(s) => DebtIsSupply(t)) /\ (FundCovers(s) => FundCovers(t))
  BY <1>12, SameDebt
<1> QED BY <1>10, <1>11, <1>12, <1>13 DEF Good, Books

LEMMA SettleKeepsBooks ==
  ASSUME Good(market), head_time \in Int, NEW a \in Accounts, NEW n \in Settlements, asset_settle(a, n)
  PROVE  Good(market') /\ head_time' = head_time
<1> DEFINE s == Begin
           amount == IF n = s.supply THEN s.settlement_fund ELSE ToQuote(n, s.settlement_price)
           pays == Redeemed(s, n, amount)
           u == adjust_balance(s, a, "mia", -pays)
           v == adjust_balance(u, a, "core", amount)
           t == [v EXCEPT !.settlement_fund = @ - amount, !.supply = @ - pays]
           date == head_time + SettlementDelay
           w == adjust_balance(s, a, "mia", -n)
           z == [w EXCEPT !.settles = @ \cup {NewSettle(@, a, n, date)}]
<1>1. \/ has_settlement(s) /\ amount > 0 /\ amount <= s.settlement_fund /\ Apply(t)
      \/ Apply(z)
  BY DEF asset_settle, NewSettle
<1>2. Good(s)
  BY BeginIs
<1>3. n \in Nat /\ date \in Int
  BY MarketAssumption
<1> HIDE DEF s, date
<1>4. CASE has_settlement(s) /\ amount > 0 /\ amount <= s.settlement_fund /\ Apply(t)
  <2> DEFINE p == s.settlement_price
  <2>1. Proper(s) /\ s.ok
    BY <1>2, GoodParts
  <2>2. /\ s.supply \in Nat /\ s.settlement_fund \in Nat /\ Biddable(s)
        /\ s.supply * p.quote <= s.settlement_fund * p.base
    BY <1>4, <2>1, SettledParts
  <2>3. p.base \in Positive /\ p.quote \in Nat
    BY <2>2 DEF Biddable
  <2>4. /\ amount \in Nat /\ pays \in Nat
        /\ (s.supply - pays) * p.quote <= (s.settlement_fund - amount) * p.base
    BY <1>3, <1>4, <2>2, <2>3, RedeemedIs
  <2> HIDE DEF amount, pays
  <2>5. t.ok => Good(t)
    BY <1>2, <1>4, <2>4, FundPays
  <2> HIDE DEF t
  <2> QED BY <1>4, <2>5, Applied
<1>5. CASE Apply(z)
  <2>1. z.ok => Good(z)
    BY <1>2, <1>3, WaitKeeps
  <2> HIDE DEF z
  <2> QED BY <1>5, <2>1, Applied
<1> QED BY <1>1, <1>4, <1>5
-----------------------------------------------------------------------------
(* A change of the bids only.                                              *)
LEMMA BidsChange ==
  ASSUME NEW s, Sound(s), NEW t, Only(s, t, {"bids"}), Table(t.bids, Offers), Unique(t.bids, "bidder")
  PROVE  /\ Sound(t) /\ TotalMia(t) = TotalMia(s)
         /\ TotalCore(t) = TotalCore(s) - Total(s.bids, "collateral") + Total(t.bids, "collateral")
<1>1. /\ DOMAIN t = Fields /\ t.ok = s.ok
      /\ t.balance = s.balance /\ t.core_in_orders = s.core_in_orders /\ t.limits = s.limits
      /\ t.calls = s.calls /\ t.settles = s.settles /\ t.supply = s.supply
      /\ t.feeds = s.feeds /\ t.feed = s.feed /\ t.published = s.published
      /\ t.settlement_price = s.settlement_price /\ t.settlement_fund = s.settlement_fund
      /\ t.force_settled_volume = s.force_settled_volume
      /\ t.accumulated_fees = s.accumulated_fees /\ t.fee_pool = s.fee_pool
      /\ t.paid_fees = s.paid_fees
  BY DEF Only, Fields
<1>2. Sound(t)
  BY <1>1 DEF Sound, CoreInOrders
<1>3. TotalMia(t) = TotalMia(s)
  BY <1>1 DEF TotalMia
<1>4. TotalCore(t) =
        Held(s.balance, "core") + ForSale(s.limits, "core")
        + Total(s.limits, "deferred_fee") + Total(s.calls, "collateral")
        + Total(t.bids, "collateral") + s.settlement_fund + s.fee_pool
        + s.paid_fees + s.accumulated_fees["core"]
  BY <1>1 DEF TotalCore
<1>5. TotalCore(s) =
        Held(s.balance, "core") + ForSale(s.limits, "core")
        + Total(s.limits, "deferred_fee") + Total(s.calls, "collateral")
        + Total(s.bids, "collateral") + s.settlement_fund + s.fee_pool
        + s.paid_fees + s.accumulated_fees["core"]
  BY DEF TotalCore
<1>6. /\ Held(s.balance, "core") \in Int /\ ForSale(s.limits, "core") \in Int
      /\ Total(s.limits, "deferred_fee") \in Int /\ Total(s.calls, "collateral") \in Int
      /\ Total(s.bids, "collateral") \in Int /\ s.settlement_fund \in Int
      /\ s.fee_pool \in Int /\ s.paid_fees \in Int /\ s.accumulated_fees["core"] \in Int
  BY SoundParts, AssetsAre
<1>7. Total(t.bids, "collateral") \in Int
  BY <1>2, SoundParts
<1> QED BY <1>2, <1>3, <1>4, <1>5, <1>6, <1>7

NewBid(s, a, op) ==
  [id |-> NextId(s.bids), bidder |-> a, collateral |-> op.collateral, debt |-> op.debt]

LEMMA BidNew ==
  ASSUME NEW s, Sound(s), NEW a \in Accounts, \A b \in s.bids : b.bidder # a,
         NEW op \in [debt : Nat, collateral : Nat], op.debt # 0
  PROVE  LET y == NewBid(s, a, op)
             N == With(s.bids, y)
         IN  /\ Table(N, Offers) /\ Unique(N, "bidder")
             /\ Total(s.bids, "collateral") \in Int
             /\ Total(N, "collateral") = Total(s.bids, "collateral") + op.collateral
<1> DEFINE y == NewBid(s, a, op)
           N == With(s.bids, y)
<1>1. /\ Table(s.bids, Offers) /\ Unique(s.bids, "bidder") /\ IsFiniteSet(s.bids)
      /\ \A x \in s.bids : x.id \in Nat /\ x["collateral"] \in Int
  <2>1. s.bids \subseteq Offers /\ IsFiniteSet(s.bids)
    BY SoundTables
  <2>2. \A x \in s.bids : x.id \in Nat /\ x["collateral"] \in Int
    BY <2>1 DEF Offers
  <2>3. Table(s.bids, Offers) /\ Unique(s.bids, "bidder")
    BY DEF Sound
  <2> QED BY <2>1, <2>2, <2>3
<1>2. NextId(s.bids) \in Nat /\ \A x \in s.bids : x.id # NextId(s.bids)
  BY <1>1, NextIdIs
<1>3. op.debt \in Positive /\ op.collateral \in Nat
  BY DEF Positive
<1>4. y \in Offers /\ y["collateral"] = op.collateral /\ y["bidder"] = a
      /\ \A x \in s.bids : x.id # y.id
  BY <1>2, <1>3 DEF NewBid, Offers
<1> HIDE DEF y
<1>5. Table(N, Offers) /\ y \notin s.bids
  BY <1>1, <1>4, TableNew
<1>6. Unique(N, "bidder")
  <2>1. \A x \in s.bids : x["bidder"] # y["bidder"]
    BY <1>4
  <2> QED BY <1>1, <2>1, UniqueNew
<1>7. /\ Total(s.bids, "collateral") \in Int
      /\ Total(N, "collateral") = Total(s.bids, "collateral") + y["collateral"]
  BY <1>1, <1>3, <1>4, <1>5, TotalNew
<1>8. Total(N, "collateral") = Total(s.bids, "collateral") + op.collateral
  BY <1>4, <1>7
<1> HIDE DEF N
<1> QED BY <1>5, <1>6, <1>7, <1>8 DEF N, y

-----------------------------------------------------------------------------
(* A bid replaces the account's earlier one.                               *)
Earlier(a) == {b \in Begin.bids : b.bidder = a}
AfterEarlier(a) == IF Earlier(a) = {} THEN Begin ELSE cancel_bid(Begin, CHOOSE b \in Earlier(a) : TRUE)

LEMMA GoodMoved ==
  ASSUME NEW s, Good(s), NEW t, Moves(s, t, BidFields, "core", 0, 0), t.ok
  PROVE  Good(t)
<1>1. Sound(s)
  BY GoodParts
<1>2. Sound(t) /\ \A x \in Assets : Tot(t, x) = Tot(s, x) /\ Tot(s, x) \in Int
  BY <1>1, MovesZero
<1>3. TotalCore(t) = TotalCore(s) /\ TotalMia(t) = TotalMia(s)
  BY <1>2, AssetsAre, OtherIs
<1>4. t.calls = s.calls /\ t.supply = s.supply /\ t.settlement_price = s.settlement_price
      /\ t.settlement_fund = s.settlement_fund
  BY DEF Moves, Only, Fields, BidFields
<1>5. (DebtIsSupply(s) => DebtIsSupply(t)) /\ (FundCovers(s) => FundCovers(t))
  BY <1>4, SameDebt
<1> QED BY <1>2, <1>3, <1>4, <1>5 DEF Good, Books

LEMMA EarlierGone ==
  ASSUME Good(market), NEW a \in Accounts
  PROVE  LET s == AfterEarlier(a) IN
         /\ DOMAIN s = Fields
         /\ s.ok => Good(s) /\ \A b \in s.bids : b.bidder # a
<1> DEFINE e == Earlier(a)
           m == Begin
           s == AfterEarlier(a)
           o == CHOOSE b \in e : TRUE
           c == cancel_bid(m, o)
<1>1. Good(m) /\ DOMAIN m = Fields /\ Sound(m)
  BY BeginIs, GoodParts
<1>2. e = {b \in m.bids : b.bidder = a}
  BY DEF Earlier
<1>3. s = IF e = {} THEN m ELSE c
  BY DEF AfterEarlier
<1> HIDE DEF e, m
<1>4. CASE e = {}
  <2>1. s = m
    BY <1>3, <1>4
  <2>2. DOMAIN m = Fields /\ (m.ok => Good(m) /\ \A b \in m.bids : b.bidder # a)
    BY <1>1, <1>2, <1>4
  <2> HIDE DEF s
  <2>3. DOMAIN s = Fields /\ (s.ok => Good(s) /\ \A b \in s.bids : b.bidder # a)
    BY <2>1, <2>2
  <2> QED BY <2>3 DEF s
<1>5. CASE e # {}
  <2>1. s = c /\ o \in e
    BY <1>3, <1>5
  <2>2. o \in m.bids /\ o.bidder = a
    BY <1>2, <2>1
  <2> HIDE DEF o
  <2>3. Moves(m, c, BidFields, "core", 0, 0) /\ c.bids = Without(m.bids, o)
    BY <1>1, <2>2, CancelBid
  <2>4. DOMAIN c = Fields
    BY <2>3 DEF Moves, Only
  <2>5. c.ok => Good(c)
    BY <1>1, <2>3, GoodMoved
  <2>6. \A b \in c.bids : b.bidder # a
    <3>1. Unique(m.bids, "bidder")
      BY <1>1 DEF Sound
    <3>2. \A b \in m.bids : b["bidder"] = o["bidder"] => b = o
      BY <2>2, <3>1 DEF Unique
    <3> QED BY <2>2, <2>3, <3>2 DEF Without
  <2> HIDE DEF c, s
  <2>7. DOMAIN s = Fields /\ (s.ok => Good(s) /\ \A b \in s.bids : b.bidder # a)
    BY <2>1, <2>4, <2>5, <2>6
  <2> QED BY <2>7 DEF s
<1> QED BY <1>4, <1>5

LEMMA BidAdded ==
  ASSUME NEW s, Good(s), NEW a \in Accounts, \A b \in s.bids : b.bidder # a,
         NEW op \in [debt : Nat, collateral : Nat], op.debt # 0,
         NEW u, u = adjust_balance(s, a, "core", -op.collateral),
         NEW t, t = [u EXCEPT !.bids = @ \cup {NewBid(s, a, op)}], t.ok
  PROVE  Good(t)
<1> DEFINE y == NewBid(s, a, op)
           n == op.collateral
<1>1. Sound(s) /\ DOMAIN s = Fields /\ s.ok
  BY GoodParts
<1>2. DOMAIN u = Fields
  BY <1>1, AdjustStops DEF Stops
<1>3. Only(u, t, {"bids"}) /\ t.bids = u.bids \cup {y} /\ t.ok = u.ok
  BY <1>2 DEF Only, Fields
<1>4. u.ok /\ -n \in Int /\ n \in Int
  BY <1>3
<1>5. /\ Sound(u) /\ TotalCore(u) = TotalCore(s) + (-n) /\ TotalMia(u) = TotalMia(s)
      /\ Only(s, u, {"balance", "ok"}) /\ TotalCore(s) \in Int
  BY <1>1, <1>4, AssetsAre, Adjusted
<1>6. u.bids = s.bids
  BY <1>5 DEF Only, Fields
<1>7. /\ Table(With(s.bids, y), Offers) /\ Unique(With(s.bids, y), "bidder")
      /\ Total(s.bids, "collateral") \in Int
      /\ Total(With(s.bids, y), "collateral") = Total(s.bids, "collateral") + n
  BY <1>1, BidNew
<1> HIDE DEF y
<1>8. t.bids = With(s.bids, y)
  BY <1>3, <1>6 DEF With
<1>4a. n \in Int
  BY <1>4
<1> HIDE DEF n
<1>9. /\ Sound(t) /\ TotalMia(t) = TotalMia(u)
      /\ TotalCore(t) = TotalCore(u) - Total(u.bids, "collateral") + Total(t.bids, "collateral")
  <2>1. Table(t.bids, Offers) /\ Unique(t.bids, "bidder")
    BY <1>7, <1>8
  <2> QED BY <1>3, <1>5, <2>1, BidsChange
<1>10. TotalMia(t) = TotalMia(s) /\ TotalCore(t) = TotalCore(s)
  <2> DEFINE old == Total(s.bids, "collateral")
             new == Total(t.bids, "collateral")
  <2>1. new = old + n /\ old \in Int
    BY <1>7, <1>8
  <2>2. TotalCore(t) = TotalCore(u) - old + new
    BY <1>6, <1>9
  <2> HIDE DEF old, new
  <2> QED BY <1>4a, <1>5, <1>9, <2>1, <2>2
<1>11. t.calls = s.calls /\ t.supply = s.supply /\ t.settlement_price = s.settlement_price
       /\ t.settlement_fund = s.settlement_fund
  BY <1>3, <1>5 DEF Only, Fields
<1>12. (DebtIsSupply(s) => DebtIsSupply(t)) /\ (FundCovers(s) => FundCovers(t))
  BY <1>11, SameDebt
<1> QED BY <1>9, <1>10, <1>11, <1>12 DEF Good, Books

LEMMA BidKeepsBooks ==
  ASSUME Good(market), NEW a \in Accounts, NEW op \in Bids, bid_collateral(a, op)
  PROVE  Good(market') /\ head_time' = head_time
<1> DEFINE s == AfterEarlier(a)
           u == adjust_balance(s, a, "core", -op.collateral)
           t == [u EXCEPT !.bids = @ \cup {NewBid(s, a, op)}]
           r == IF op.debt = 0 THEN s ELSE t
<1>1. Apply(r)
  BY DEF bid_collateral, AfterEarlier, Earlier, NewBid
<1>2. DOMAIN s = Fields /\ (s.ok => Good(s) /\ \A b \in s.bids : b.bidder # a)
  BY EarlierGone
<1>3. op \in [debt : Nat, collateral : Nat]
  BY MarketAssumption
<1> HIDE DEF s
<1>4. Stops(s, u)
  BY <1>2, AdjustStops
<1>5. t.ok = u.ok
  BY <1>4 DEF Stops, Fields
<1>6. t.ok => s.ok
  BY <1>4, <1>5 DEF Stops
<1>7. ASSUME op.debt # 0, t.ok PROVE Good(t)
  BY <1>2, <1>3, <1>6, <1>7, BidAdded
<1> HIDE DEF t
<1>8. r.ok => Good(r)
  BY <1>2, <1>7
<1> HIDE DEF r
<1> QED BY <1>1, <1>8, Applied

-----------------------------------------------------------------------------
(* The positions N are those of C, but for d more of debt and c more of    *)
(* collateral of the account a.                                            *)
Shifts(C, N, a, d, c) ==
  /\ Table(N, Positions) /\ Unique(N, "borrower")
  /\ Total(N, "debt") = Total(C, "debt") + d
  /\ Total(N, "collateral") = Total(C, "collateral") + c
  /\ \A b \in Accounts : OfPositions(N, b) = OfPositions(C, b) + IF b = a THEN c ELSE 0

LEMMA ShiftGone ==
  ASSUME NEW C, Table(C, Positions), Unique(C, "borrower"), NEW o \in C
  PROVE  /\ Shifts(C, Without(C, o), o.borrower, 0 - o.debt, 0 - o.collateral)
         /\ \A x \in Without(C, o) : x.borrower # o.borrower /\ x.id # o.id
<1> DEFINE R == Without(C, o)
<1>1. o.debt \in Nat /\ o.collateral \in Nat
  BY DEF Table, Positions, Positive
<1>2. /\ Table(R, Positions)
      /\ \A a \in Accounts : /\ OfPositions(C, a) \in Int
                            /\ OfPositions(R, a) = OfPositions(C, a) - InPosition(o, a)
      /\ Total(C, "debt") \in Int /\ Total(C, "collateral") \in Int
      /\ Total(R, "debt") = Total(C, "debt") - o.debt
      /\ Total(R, "collateral") = Total(C, "collateral") - o.collateral
  BY PositionGone
<1>3. Unique(R, "borrower")
  BY UniqueGone
<1>4. \A x \in R : x.borrower # o.borrower /\ x.id # o.id
  <2>1. \A x \in C : x["borrower"] = o["borrower"] => x = o
    BY DEF Unique
  <2>2. \A x \in R : x \in C /\ x.id # o.id /\ x # o
    BY TableGone DEF Without
  <2> QED BY <2>1, <2>2
<1> HIDE DEF R
<1>5. /\ Total(R, "debt") = Total(C, "debt") + (0 - o.debt)
      /\ Total(R, "collateral") = Total(C, "collateral") + (0 - o.collateral)
  BY <1>1, <1>2
<1>6. \A b \in Accounts : OfPositions(R, b) =
        OfPositions(C, b) + IF b = o.borrower THEN 0 - o.collateral ELSE 0
  <2>1. TAKE b \in Accounts
  <2>2. InPosition(o, b) = IF b = o.borrower THEN o.collateral ELSE 0
    BY DEF InPosition
  <2>3. OfPositions(C, b) \in Int /\ OfPositions(R, b) = OfPositions(C, b) - InPosition(o, b)
    BY <1>2
  <2>4. CASE b = o.borrower
    BY <1>1, <2>2, <2>3, <2>4
  <2>5. CASE b # o.borrower
    BY <2>2, <2>3, <2>5
  <2> QED BY <2>4, <2>5
<1>7. Shifts(C, R, o.borrower, 0 - o.debt, 0 - o.collateral)
  BY <1>2, <1>3, <1>5, <1>6 DEF Shifts
<1> QED BY <1>4, <1>7 DEF R

LEMMA ShiftNew ==
  ASSUME NEW C, Table(C, Positions), Unique(C, "borrower"), NEW y \in Positions,
         \A x \in C : x.borrower # y.borrower /\ x.id # y.id
  PROVE  Shifts(C, With(C, y), y.borrower, y.debt, y.collateral)
<1> DEFINE N == With(C, y)
<1>1. y.debt \in Nat /\ y.collateral \in Nat
  BY DEF Positions, Positive
<1>2. /\ Table(N, Positions)
      /\ \A a \in Accounts : /\ OfPositions(C, a) \in Int
                            /\ OfPositions(N, a) = OfPositions(C, a) + InPosition(y, a)
      /\ Total(C, "debt") \in Int /\ Total(C, "collateral") \in Int
      /\ Total(N, "debt") = Total(C, "debt") + y.debt
      /\ Total(N, "collateral") = Total(C, "collateral") + y.collateral
  BY PositionNew
<1>3. Unique(N, "borrower")
  <2>1. \A x \in C : x["borrower"] # y["borrower"]
    OBVIOUS
  <2> QED BY <2>1, UniqueNew
<1> HIDE DEF N
<1>4. \A b \in Accounts : InPosition(y, b) = IF b = y.borrower THEN y.collateral ELSE 0
  BY DEF InPosition
<1>5. \A b \in Accounts : OfPositions(N, b) =
        OfPositions(C, b) + IF b = y.borrower THEN y.collateral ELSE 0
  BY <1>2, <1>4
<1>6. Shifts(C, N, y.borrower, y.debt, y.collateral)
  BY <1>2, <1>3, <1>5 DEF Shifts
<1> QED BY <1>6 DEF N

LEMMA ShiftBoth ==
  ASSUME NEW C, Table(C, Positions), Unique(C, "borrower"), NEW o \in C, NEW y \in Positions,
         y.borrower = o.borrower, y.id = o.id
  PROVE  Shifts(C, With(Without(C, o), y), y.borrower, y.debt - o.debt, y.collateral - o.collateral)
<1> DEFINE R == Without(C, o)
           N == With(R, y)
<1>1. /\ o.debt \in Int /\ o.collateral \in Int /\ o.borrower \in Accounts
      /\ y.debt \in Int /\ y.collateral \in Int
  <2>1. o \in Positions
    BY DEF Table
  <2> QED BY <2>1 DEF Positions, Positive
<1>2. /\ Shifts(C, R, o.borrower, 0 - o.debt, 0 - o.collateral)
      /\ \A x \in R : x.borrower # o.borrower /\ x.id # o.id
  BY ShiftGone
<1>3. Total(C, "debt") \in Int /\ Total(C, "collateral") \in Int
      /\ \A b \in Accounts : OfPositions(C, b) \in Int
  BY PositionGone
<1> HIDE DEF R
<1>4. Table(R, Positions) /\ Unique(R, "borrower")
  BY <1>2 DEF Shifts
<1>5. Shifts(R, N, y.borrower, y.debt, y.collateral)
  BY <1>2, <1>4, ShiftNew
<1> HIDE DEF N
<1>6. Total(N, "debt") = Total(C, "debt") + (y.debt - o.debt)
      /\ Total(N, "collateral") = Total(C, "collateral") + (y.collateral - o.collateral)
  <2>1. Total(R, "debt") = Total(C, "debt") + (0 - o.debt)
        /\ Total(R, "collateral") = Total(C, "collateral") + (0 - o.collateral)
    BY <1>2 DEF Shifts
  <2>2. Total(N, "debt") = Total(R, "debt") + y.debt
        /\ Total(N, "collateral") = Total(R, "collateral") + y.collateral
    BY <1>5 DEF Shifts
  <2> QED BY <1>1, <1>3, <2>1, <2>2
<1>7. \A b \in Accounts : OfPositions(N, b) =
        OfPositions(C, b) + IF b = y.borrower THEN y.collateral - o.collateral ELSE 0
  <2>1. TAKE b \in Accounts
  <2>2. OfPositions(R, b) = OfPositions(C, b) + IF b = o.borrower THEN 0 - o.collateral ELSE 0
    BY <1>2 DEF Shifts
  <2>3. OfPositions(N, b) = OfPositions(R, b) + IF b = y.borrower THEN y.collateral ELSE 0
    BY <1>5 DEF Shifts
  <2>4. OfPositions(C, b) \in Int
    BY <1>3
  <2>5. CASE b = y.borrower
    BY <1>1, <2>2, <2>3, <2>4, <2>5
  <2>6. CASE b # y.borrower
    BY <2>2, <2>3, <2>4, <2>6
  <2> QED BY <2>5, <2>6
<1>8. Shifts(C, N, y.borrower, y.debt - o.debt, y.collateral - o.collateral)
  BY <1>5, <1>6, <1>7 DEF Shifts
<1> QED BY <1>8 DEF N, R

-----------------------------------------------------------------------------
(* The account has d more of debt, for which it gets as much, and pays c   *)
(* for its collateral.                                                     *)
LEMMA PositionMoved ==
  ASSUME NEW s, Good(s), ~has_settlement(s), NEW a \in Accounts, NEW d \in Int, NEW c \in Int,
         NEW u, u = adjust_balance(s, a, "mia", d), NEW v, v = adjust_balance(u, a, "core", -c),
         NEW t, Only(v, t, {"supply", "core_in_orders", "calls"}), t.supply = v.supply + d,
         t.core_in_orders = [v.core_in_orders EXCEPT ![a] = @ + c], t.ok,
         Shifts(s.calls, t.calls, a, d, c)
  PROVE  Good(t)
<1>1. Sound(s) /\ DOMAIN s = Fields
  BY GoodParts
<1>2. Stops(s, u)
  BY <1>1, AdjustStops
<1>3. Stops(u, v)
  BY <1>2, AdjustStops DEF Stops
<1>4. v.ok /\ u.ok
  BY <1>3 DEF Stops, Only, Fields
<1>5. /\ Sound(u) /\ TotalMia(u) = TotalMia(s) + d /\ TotalCore(u) = TotalCore(s)
      /\ Only(s, u, {"balance", "ok"}) /\ TotalMia(s) \in Int /\ TotalCore(s) \in Int
  BY <1>1, <1>4, AssetsAre, Adjusted
<1>6. -c \in Int
  OBVIOUS
<1>7. /\ Sound(v) /\ TotalCore(v) = TotalCore(u) + (-c) /\ TotalMia(v) = TotalMia(u)
      /\ Only(u, v, {"balance", "ok"})
  BY <1>4, <1>5, <1>6, AssetsAre, Adjusted
<1>8. /\ v.calls = s.calls /\ v.supply = s.supply /\ v.settlement_price = s.settlement_price
      /\ v.settlement_fund = s.settlement_fund
  BY <1>5, <1>7 DEF Only, Fields
<1>9. /\ DOMAIN t = Fields /\ t.balance = v.balance /\ t.limits = v.limits
      /\ t.settles = v.settles /\ t.bids = v.bids
      /\ t.feeds = v.feeds /\ t.feed = v.feed /\ t.published = v.published
      /\ t.settlement_price = v.settlement_price /\ t.settlement_fund = v.settlement_fund
      /\ t.force_settled_volume = v.force_settled_volume
      /\ t.accumulated_fees = v.accumulated_fees /\ t.fee_pool = v.fee_pool
      /\ t.paid_fees = v.paid_fees
  BY DEF Only, Fields
<1>10. /\ Table(t.calls, Positions) /\ Unique(t.calls, "borrower")
       /\ Total(t.calls, "debt") = Total(s.calls, "debt") + d
       /\ Total(t.calls, "collateral") = Total(s.calls, "collateral") + c
       /\ \A b \in Accounts : OfPositions(t.calls, b) =
                                OfPositions(s.calls, b) + IF b = a THEN c ELSE 0
  BY DEF Shifts
<1>11. /\ t.core_in_orders \in [Accounts -> Int]
       /\ \A b \in Accounts : t.core_in_orders[b] = v.core_in_orders[b] + IF b = a THEN c ELSE 0
  <2>1. v.core_in_orders \in [Accounts -> Int]
    BY <1>7 DEF Sound
  <2> QED BY <2>1
<1>12. ASSUME NEW b \in Accounts
       PROVE  t.core_in_orders[b] = OfOrders(t.limits, b) + OfPositions(t.calls, b)
  <2> DEFINE e == IF b = a THEN c ELSE 0
  <2>1. t.core_in_orders[b] = v.core_in_orders[b] + e /\ e \in Int
    BY <1>11
  <2>2. OfPositions(t.calls, b) = OfPositions(v.calls, b) + e
    BY <1>8, <1>10
  <2>3. v.core_in_orders[b] = OfOrders(v.limits, b) + OfPositions(v.calls, b)
    BY <1>7 DEF Sound, CoreInOrders
  <2>4. OfOrders(v.limits, b) \in Int /\ OfPositions(v.calls, b) \in Int
    BY <1>7, OrderSums, CallSums DEF Sound
  <2> HIDE DEF e
  <2> QED BY <1>9, <2>1, <2>2, <2>3, <2>4
<1>13. t.supply \in Int
  BY <1>7 DEF Sound
<1>14. Sound(t)
  BY <1>7, <1>9, <1>10, <1>11, <1>12, <1>13 DEF Sound, CoreInOrders
<1>15. TotalMia(t) = TotalMia(v)
  BY <1>9 DEF TotalMia
<1>16. TotalCore(t) = TotalCore(v) + c
  <2>1. TotalCore(t) =
          Held(v.balance, "core") + ForSale(v.limits, "core")
          + Total(v.limits, "deferred_fee") + (Total(v.calls, "collateral") + c)
          + Total(v.bids, "collateral") + v.settlement_fund + v.fee_pool
          + v.paid_fees + v.accumulated_fees["core"]
    BY <1>8, <1>9, <1>10 DEF TotalCore
  <2>2. TotalCore(v) =
          Held(v.balance, "core") + ForSale(v.limits, "core")
          + Total(v.limits, "deferred_fee") + Total(v.calls, "collateral")
          + Total(v.bids, "collateral") + v.settlement_fund + v.fee_pool
          + v.paid_fees + v.accumulated_fees["core"]
    BY DEF TotalCore
  <2>3. /\ Held(v.balance, "core") \in Int /\ ForSale(v.limits, "core") \in Int
        /\ Total(v.limits, "deferred_fee") \in Int /\ Total(v.calls, "collateral") \in Int
        /\ Total(v.bids, "collateral") \in Int /\ v.settlement_fund \in Int
        /\ v.fee_pool \in Int /\ v.paid_fees \in Int /\ v.accumulated_fees["core"] \in Int
    BY <1>7, SoundParts, AssetsAre
  <2> QED BY <2>1, <2>2, <2>3
<1>17. TotalCore(s) = CoreSupply /\ TotalMia(s) = s.supply + 0 /\ s.supply \in Nat
       /\ Total(s.calls, "debt") = s.supply /\ s.settlement_fund = 0
  BY DEF Good, Books, DebtIsSupply, FundCovers
<1>18. TotalCore(t) = CoreSupply /\ TotalMia(t) = t.supply + 0
  <2>1. TotalCore(t) = TotalCore(s)
    BY <1>5, <1>7, <1>16
  <2>2. t.supply = s.supply + d
    BY <1>8
  <2>3. TotalMia(t) = TotalMia(s) + d
    BY <1>5, <1>7, <1>15
  <2> QED BY <1>17, <2>1, <2>2, <2>3
<1>19. Total(t.calls, "debt") = t.supply
  BY <1>8, <1>10, <1>17
<1>20. t.supply \in Nat
  BY <1>14, <1>19, SoundParts
<1>21. DebtIsSupply(t) /\ FundCovers(t)
  BY <1>8, <1>9, <1>17, <1>19 DEF DebtIsSupply, FundCovers, has_settlement
<1> QED BY <1>14, <1>18, <1>20, <1>21 DEF Good, Books

-----------------------------------------------------------------------------
(* The position of the account, or what it is to be changed from.          *)
OldCalls(s, a) == {c \in s.calls : c.borrower = a}
Prior(s, a) ==
  IF OldCalls(s, a) = {} THEN [id |-> NextId(s.calls), borrower |-> a, debt |-> 0, collateral |-> 0]
  ELSE CHOOSE c \in OldCalls(s, a) : TRUE
NewCall(s, a, o, op) ==
  [id |-> o.id, borrower |-> a, debt |-> o.debt + op.debt, collateral |-> o.collateral + op.collateral,
   call_price |-> call_price(o.debt + op.debt, o.collateral + op.collateral, s.feed.mcr)]

LEMMA NoneBefore ==
  ASSUME NEW s, Sound(s), NEW a, OldCalls(s, a) = {}
  PROVE  LET o == Prior(s, a) IN
         /\ o.debt = 0 /\ o.collateral = 0 /\ o.id \in Nat
         /\ \A x \in s.calls : x.borrower # a /\ x.id # o.id
<1>1. \A x \in s.calls : x.borrower # a
  BY DEF OldCalls
<1>2. IsFiniteSet(s.calls) /\ s.calls \subseteq Positions
  BY SoundTables
<1>3. \A x \in s.calls : x.id \in Nat
  BY <1>2 DEF Positions
<1>4. NextId(s.calls) \in Nat /\ \A x \in s.calls : x.id # NextId(s.calls)
  BY <1>2, <1>3, NextIdIs
<1>5. Prior(s, a) = [id |-> NextId(s.calls), borrower |-> a, debt |-> 0, collateral |-> 0]
  BY DEF Prior
<1> QED BY <1>1, <1>4, <1>5

LEMMA OneBefore ==
  ASSUME NEW s, Sound(s), NEW a, OldCalls(s, a) # {}
  PROVE  LET o == Prior(s, a) IN
         /\ o \in s.calls /\ o.borrower = a /\ s.calls \ OldCalls(s, a) = Without(s.calls, o)
<1> DEFINE o == Prior(s, a)
<1>1. o \in OldCalls(s, a)
  BY DEF Prior
<1> HIDE DEF o
<1>2. o \in s.calls /\ o.borrower = a
  BY <1>1 DEF OldCalls
<1>3. Unique(s.calls, "borrower")
  BY DEF Sound
<1>4. \A x \in s.calls : x["borrower"] = o["borrower"] => x = o
  BY <1>2, <1>3 DEF Unique
<1>5. OldCalls(s, a) = {o}
  BY <1>2, <1>4 DEF OldCalls
<1> QED BY <1>2, <1>5 DEF Without, o

LEMMA NewCallIs ==
  ASSUME NEW s, Sound(s), s.feed # none, NEW a \in Accounts, NEW o, o.id \in Nat,
         NEW op, o.debt + op.debt \in Positive, o.collateral + op.collateral \in Nat
  PROVE  LET y == NewCall(s, a, o, op) IN
         /\ y \in Positions /\ y.borrower = a /\ y.id = o.id
         /\ y.debt = o.debt + op.debt /\ y.collateral = o.collateral + op.collateral
<1> DEFINE d == o.debt + op.debt
           n == o.collateral + op.collateral
           p == call_price(d, n, s.feed.mcr)
           y == [id |-> o.id, borrower |-> a, debt |-> d, collateral |-> n, call_price |-> p]
<1>1. n \in Nat /\ d \in Nat /\ d > 0 /\ d \in Positive
  BY DEF Positive
<1>2. s.feed.mcr \in Nat /\ s.feed.mcr > 0 /\ RatioDenom \in Nat
  BY SoundFeed, RatioDenomAssumption DEF PriceFeeds, Positive
<1>3. NewCall(s, a, o, op) = y
  BY DEF NewCall
<1> HIDE DEF n, d
<1>4. p \in [base : Nat, quote : Positive]
  <2>1. d * s.feed.mcr \in Nat /\ d * s.feed.mcr > 0 /\ n * RatioDenom \in Nat
    BY <1>1, <1>2
  <2> QED BY <2>1 DEF call_price, Price, Positive
<1> HIDE DEF p
<1>5. y \in Positions /\ y.borrower = a /\ y.debt = d /\ y.collateral = n /\ y.id = o.id
  BY <1>1, <1>4 DEF Positions
<1> HIDE DEF y
<1> QED BY <1>3, <1>5 DEF d, n

(* What becomes of the positions when the account's is changed or closed.  *)
LEMMA CallShifts ==
  ASSUME NEW s, Sound(s), s.feed # none, NEW a \in Accounts, NEW op, op.debt \in Int, op.collateral \in Int,
         NEW o, o = Prior(s, a), o.debt + op.debt > 0, o.collateral + op.collateral > 0
  PROVE  Shifts(s.calls, (s.calls \ OldCalls(s, a)) \cup {NewCall(s, a, o, op)}, a, op.debt, op.collateral)
<1> DEFINE y == NewCall(s, a, o, op)
           N == (s.calls \ OldCalls(s, a)) \cup {y}
<1>0. Table(s.calls, Positions) /\ Unique(s.calls, "borrower")
  BY DEF Sound
<1>1. CASE OldCalls(s, a) = {}
  <2>1. /\ o.debt = 0 /\ o.collateral = 0 /\ o.id \in Nat
        /\ \A x \in s.calls : x.borrower # a /\ x.id # o.id
    BY <1>1, NoneBefore
  <2>2. o.debt + op.debt \in Positive /\ o.collateral + op.collateral \in Nat
        /\ o.debt + op.debt = op.debt /\ o.collateral + op.collateral = op.collateral
    BY <2>1 DEF Positive
  <2>3. /\ y \in Positions /\ y.borrower = a /\ y.id = o.id
        /\ y.debt = op.debt /\ y.collateral = op.collateral
    BY <2>1, <2>2, NewCallIs
  <2>4. N = With(s.calls, y)
    BY <1>1 DEF With
  <2> HIDE DEF y, N
  <2>5. Shifts(s.calls, With(s.calls, y), y.borrower, y.debt, y.collateral)
    BY <1>0, <2>1, <2>3, ShiftNew
  <2>6. Shifts(s.calls, N, a, op.debt, op.collateral)
    BY <2>3, <2>4, <2>5
  <2> QED BY <2>6 DEF N, y
<1>2. CASE OldCalls(s, a) # {}
  <2>1. o \in s.calls /\ o.borrower = a /\ s.calls \ OldCalls(s, a) = Without(s.calls, o)
    BY <1>2, OneBefore
  <2>2. o \in Positions
    BY <2>1, SoundTables
  <2>3. o.id \in Nat /\ o.debt \in Int /\ o.collateral \in Int
    BY <2>2 DEF Positions, Positive
  <2>4. /\ o.debt + op.debt \in Positive /\ o.collateral + op.collateral \in Nat
        /\ (o.debt + op.debt) - o.debt = op.debt
        /\ (o.collateral + op.collateral) - o.collateral = op.collateral
    BY <2>3 DEF Positive
  <2>5. /\ y \in Positions /\ y.borrower = a /\ y.id = o.id
        /\ y.debt - o.debt = op.debt /\ y.collateral - o.collateral = op.collateral
    BY <2>3, <2>4, NewCallIs
  <2>6. N = With(Without(s.calls, o), y)
    BY <2>1 DEF With
  <2> HIDE DEF y, N
  <2>7. Shifts(s.calls, With(Without(s.calls, o), y), y.borrower, y.debt - o.debt,
               y.collateral - o.collateral)
    BY <1>0, <2>1, <2>5, ShiftBoth
  <2>8. Shifts(s.calls, N, a, op.debt, op.collateral)
    BY <2>5, <2>6, <2>7
  <2> QED BY <2>8 DEF N, y
<1> QED BY <1>1, <1>2

LEMMA CloseShifts ==
  ASSUME NEW s, Sound(s), NEW a \in Accounts, NEW op, op.debt \in Int, op.collateral \in Int,
         NEW o, o = Prior(s, a), o.debt + op.debt = 0, o.collateral + op.collateral = 0,
         OldCalls(s, a) = {} => op.debt > 0
  PROVE  Shifts(s.calls, s.calls \ OldCalls(s, a), a, op.debt, op.collateral)
<1>0. Table(s.calls, Positions) /\ Unique(s.calls, "borrower")
  BY DEF Sound
<1>1. OldCalls(s, a) # {}
  <2>1. ASSUME OldCalls(s, a) = {} PROVE FALSE
    <3>1. o.debt = 0 /\ op.debt > 0
      BY <2>1, NoneBefore
    <3> QED BY <3>1
  <2> QED BY <2>1
<1>2. o \in s.calls /\ o.borrower = a /\ s.calls \ OldCalls(s, a) = Without(s.calls, o)
  BY <1>1, OneBefore
<1>3. o \in Positions
  BY <1>2, SoundTables
<1>4. o.debt \in Int /\ o.collateral \in Int
  BY <1>3 DEF Positions, Positive
<1>5. 0 - o.debt = op.debt /\ 0 - o.collateral = op.collateral
  BY <1>4
<1>6. Shifts(s.calls, Without(s.calls, o), o.borrower, 0 - o.debt, 0 - o.collateral)
  BY <1>0, <1>2, ShiftGone
<1> QED BY <1>2, <1>5, <1>6

-----------------------------------------------------------------------------
(* The fields that an update of a position changes.                        *)
Shifted(v, a, op, N) ==
  [v EXCEPT !.supply = @ + op.debt, !.core_in_orders[a] = @ + op.collateral, !.calls = N]

LEMMA ShiftedIs ==
  ASSUME NEW v, DOMAIN v = Fields, NEW a, NEW op, NEW N, NEW t, t = Shifted(v, a, op, N)
  PROVE  /\ Only(v, t, {"supply", "core_in_orders", "calls"}) /\ t.supply = v.supply + op.debt
         /\ t.core_in_orders = Indebted(v, a, op.collateral)
         /\ t.calls = N /\ t.ok = v.ok /\ DOMAIN t = Fields
<1>1. DOMAIN t = Fields
  BY DEF Shifted
<1> QED BY <1>1 DEF Shifted, Only, Fields, Indebted

LEMMA ShiftedGood ==
  ASSUME NEW s, Good(s), ~has_settlement(s), NEW a \in Accounts,
         NEW op, op.debt \in Int, op.collateral \in Int,
         NEW u, u = adjust_balance(s, a, "mia", op.debt),
         NEW v, v = adjust_balance(u, a, "core", -op.collateral),
         NEW N, Shifts(s.calls, N, a, op.debt, op.collateral),
         NEW t, t = Shifted(v, a, op, N)
  PROVE  Proper(t) /\ (t.ok => Good(t))
<1>1. DOMAIN s = Fields
  BY GoodParts
<1>2. DOMAIN u = Fields
  BY <1>1, AdjustStops DEF Stops
<1>3. DOMAIN v = Fields
  BY <1>2, AdjustStops DEF Stops
<1>4. /\ Only(v, t, {"supply", "core_in_orders", "calls"}) /\ t.supply = v.supply + op.debt
      /\ t.core_in_orders = Indebted(v, a, op.collateral)
      /\ t.calls = N /\ DOMAIN t = Fields
  BY <1>3, ShiftedIs
<1>5. Shifts(s.calls, t.calls, a, op.debt, op.collateral)
  BY <1>4
<1>5a. t.core_in_orders = [v.core_in_orders EXCEPT ![a] = @ + op.collateral]
  BY <1>4 DEF Indebted
<1>6. ASSUME t.ok PROVE Good(t)
  BY <1>4, <1>5, <1>5a, <1>6, PositionMoved
<1>7. Proper(t)
  <2>1. CASE t.ok
    BY <1>6, <2>1, GoodParts
  <2>2. CASE ~t.ok
    BY <1>4, <2>2 DEF Proper
  <2> QED BY <2>1, <2>2
<1> QED BY <1>6, <1>7

LEMMA CallKeepsBooks ==
  ASSUME Good(market), NEW a \in Accounts, NEW op \in CallUpdates, call_order_update(a, op)
  PROVE  Good(market') /\ head_time' = head_time
<1> DEFINE s == Begin
           old == OldCalls(s, a)
           o == Prior(s, a)
           u == adjust_balance(s, a, "mia", op.debt)
           v == adjust_balance(u, a, "core", -op.collateral)
           moved == [v EXCEPT !.supply = @ + op.debt, !.core_in_orders[a] = @ + op.collateral]
           closed == [moved EXCEPT !.calls = @ \ old]
           updated == [moved EXCEPT !.calls = (@ \ old) \cup {NewCall(s, a, o, op)}]
           c == check_call_orders(updated, FALSE)
           debt == o.debt + op.debt
           collateral == o.collateral + op.collateral
<1>1. /\ ~has_settlement(s) /\ s.feed # none
      /\ old = {} => op.debt > 0 /\ op.collateral > 0
      /\ \/ debt = 0 /\ collateral = 0 /\ Apply(closed)
         \/ debt > 0 /\ collateral > 0 /\ Apply(c)
  BY DEF call_order_update, OldCalls, Prior, NewCall
<1>2. Good(s)
  BY BeginIs
<1>3. op.debt \in Int /\ op.collateral \in Int
  BY MarketAssumption
<1>4. o = Prior(s, a) /\ old = OldCalls(s, a)
  OBVIOUS
<1> HIDE DEF s
<1>5. Sound(s) /\ DOMAIN s = Fields
  BY <1>2, GoodParts
<1>6. Stops(s, u) /\ Only(s, u, {"balance", "ok"})
  BY <1>5, AdjustStops
<1>7. Stops(u, v) /\ Only(u, v, {"balance", "ok"})
  BY <1>6, AdjustStops DEF Stops
<1>8. DOMAIN v = Fields /\ v.calls = s.calls
  BY <1>6, <1>7 DEF Stops, Only, Fields
<1>9. u = adjust_balance(s, a, "mia", op.debt) /\ v = adjust_balance(u, a, "core", -op.collateral)
  OBVIOUS
<1> HIDE DEF u, v
<1> DEFINE N == s.calls \ old
           U == (s.calls \ old) \cup {NewCall(s, a, o, op)}
<1>10. closed = Shifted(v, a, op, N)
  BY <1>8 DEF Shifted, Fields
<1>11. updated = Shifted(v, a, op, U)
  BY <1>8 DEF Shifted, Fields
<1> HIDE DEF old, o
<1>12. c = check_call_orders(updated, FALSE)
  OBVIOUS
<1> HIDE DEF closed, updated, moved
<1>13. CASE debt = 0 /\ collateral = 0 /\ Apply(closed)
  <2>1. Shifts(s.calls, N, a, op.debt, op.collateral)
    BY <1>1, <1>3, <1>4, <1>5, <1>13, CloseShifts
  <2> HIDE DEF N
  <2>2. closed.ok => Good(closed)
    BY <1>1, <1>2, <1>3, <1>9, <1>10, <2>1, ShiftedGood
  <2> QED BY <1>13, <2>2, Applied
<1>14. CASE debt > 0 /\ collateral > 0 /\ Apply(c)
  <2>1. Shifts(s.calls, U, a, op.debt, op.collateral)
    BY <1>1, <1>3, <1>4, <1>5, <1>14, CallShifts
  <2> HIDE DEF U
  <2>2. Proper(updated) /\ (updated.ok => Good(updated))
    BY <1>1, <1>2, <1>3, <1>9, <1>11, <2>1, ShiftedGood
  <2>3. \A enable : Keeps(updated, check_call_orders(updated, enable))
    BY <2>2, CheckCallsKeeps
  <2>4. Keeps(updated, c)
    BY <1>12, <2>3
  <2> HIDE DEF c
  <2>5. c.ok => updated.ok
    BY <2>4 DEF Keeps, Stops
  <2>6. c.ok => Good(c)
    BY <2>2, <2>4, <2>5, GoodKept
  <2> QED BY <1>14, <2>6, Applied
<1> QED BY <1>1, <1>13, <1>14

-----------------------------------------------------------------------------
(* A new order is put on the book, and deferred fees with it.              *)
LEMMA Pooled ==
  ASSUME NEW s, Sound(s), NEW g \in Int, NEW t, Only(s, t, {"fee_pool"}), t.fee_pool = s.fee_pool - g,
         t.fee_pool >= 0
  PROVE  Sound(t) /\ TotalCore(t) = TotalCore(s) - g /\ TotalMia(t) = TotalMia(s) /\ TotalCore(s) \in Int
<1>1. /\ DOMAIN t = Fields /\ t.ok = s.ok
      /\ t.balance = s.balance /\ t.core_in_orders = s.core_in_orders /\ t.limits = s.limits
      /\ t.calls = s.calls /\ t.settles = s.settles /\ t.bids = s.bids /\ t.supply = s.supply
      /\ t.feeds = s.feeds /\ t.feed = s.feed /\ t.published = s.published
      /\ t.settlement_price = s.settlement_price /\ t.settlement_fund = s.settlement_fund
      /\ t.force_settled_volume = s.force_settled_volume
      /\ t.accumulated_fees = s.accumulated_fees /\ t.paid_fees = s.paid_fees
  BY DEF Only, Fields
<1>2. s.fee_pool \in Nat
  BY SoundParts
<1>3. t.fee_pool \in Nat
  BY <1>2
<1>4. Sound(t)
  BY <1>1, <1>3 DEF Sound, CoreInOrders
<1>5. TotalMia(t) = TotalMia(s)
  BY <1>1 DEF TotalMia
<1>6. TotalCore(t) =
        Held(s.balance, "core") + ForSale(s.limits, "core")
        + Total(s.limits, "deferred_fee") + Total(s.calls, "collateral")
        + Total(s.bids, "collateral") + s.settlement_fund + (s.fee_pool - g)
        + s.paid_fees + s.accumulated_fees["core"]
  BY <1>1 DEF TotalCore
<1>7. TotalCore(s) =
        Held(s.balance, "core") + ForSale(s.limits, "core")
        + Total(s.limits, "deferred_fee") + Total(s.calls, "collateral")
        + Total(s.bids, "collateral") + s.settlement_fund + s.fee_pool
        + s.paid_fees + s.accumulated_fees["core"]
  BY DEF TotalCore
<1>8. /\ Held(s.balance, "core") \in Int /\ ForSale(s.limits, "core") \in Int
      /\ Total(s.limits, "deferred_fee") \in Int /\ Total(s.calls, "collateral") \in Int
      /\ Total(s.bids, "collateral") \in Int /\ s.settlement_fund \in Int
      /\ s.fee_pool \in Int /\ s.paid_fees \in Int /\ s.accumulated_fees["core"] \in Int
  BY SoundParts, AssetsAre
<1>9. TotalCore(t) = TotalCore(s) - g
  BY <1>6, <1>7, <1>8
<1>10. TotalCore(s) \in Int
  BY SoundParts
<1> QED BY <1>4, <1>5, <1>9, <1>10

LEMMA Listed ==
  ASSUME NEW s, Sound(s), NEW y \in Limits, \A x \in s.limits : x.id # y.id,
         NEW u, u = adjust_balance(s, y.seller, y.sells, -y.for_sale),
         NEW t, Only(u, t, {"limits", "core_in_orders"}), t.limits = With(u.limits, y),
         t.core_in_orders = Indebted(u, y.seller, IF y.sells = "core" THEN y.for_sale ELSE 0), t.ok
  PROVE  /\ Sound(t) /\ TotalCore(t) = TotalCore(s) + y.deferred_fee
         /\ TotalMia(t) = TotalMia(s) + y.deferred_paid_fee
         /\ t.calls = s.calls /\ t.supply = s.supply
         /\ t.settlement_price = s.settlement_price /\ t.settlement_fund = s.settlement_fund
<1> DEFINE a == y.seller
           x == y.sells
           n == y.for_sale
           L == u.limits
           N == With(L, y)
<1>1. a \in Accounts /\ x \in Assets /\ n \in Nat /\ -n \in Int
      /\ y.deferred_fee \in Nat /\ y.deferred_paid_fee \in Nat
  BY DEF Limits, Positive
<1>2. u.ok
  BY DEF Only, Fields
<1>3. /\ Sound(u) /\ Only(s, u, {"balance", "ok"})
      /\ TotalCore(s) \in Int /\ TotalMia(s) \in Int
      /\ x = "core" => TotalCore(u) = TotalCore(s) + (-n) /\ TotalMia(u) = TotalMia(s)
      /\ x = "mia" => TotalMia(u) = TotalMia(s) + (-n) /\ TotalCore(u) = TotalCore(s)
  BY <1>1, <1>2, Adjusted
<1>4. /\ L = s.limits /\ u.calls = s.calls /\ u.supply = s.supply
      /\ u.settlement_price = s.settlement_price /\ u.settlement_fund = s.settlement_fund
  BY <1>3 DEF Only, Fields
<1>5. Table(L, Limits) /\ \A o \in L : o.id # y.id
  BY <1>3, <1>4 DEF Sound
<1>6. /\ Table(N, Limits)
      /\ \A z \in Assets : /\ ForSale(L, z) \in Int
                          /\ ForSale(N, z) = ForSale(L, z) + Sold(y, z)
      /\ \A b \in Accounts : /\ OfOrders(L, b) \in Int
                            /\ OfOrders(N, b) = OfOrders(L, b) + InOrder(y, b)
      /\ Total(L, "deferred_fee") \in Int /\ Total(L, "deferred_paid_fee") \in Int
      /\ Total(N, "deferred_fee") = Total(L, "deferred_fee") + y.deferred_fee
      /\ Total(N, "deferred_paid_fee") = Total(L, "deferred_paid_fee") + y.deferred_paid_fee
  BY <1>5, LimitNew
<1>7. /\ DOMAIN t = Fields /\ t.balance = u.balance /\ t.calls = u.calls
      /\ t.settles = u.settles /\ t.bids = u.bids /\ t.supply = u.supply
      /\ t.feeds = u.feeds /\ t.feed = u.feed /\ t.published = u.published
      /\ t.settlement_price = u.settlement_price /\ t.settlement_fund = u.settlement_fund
      /\ t.force_settled_volume = u.force_settled_volume
      /\ t.accumulated_fees = u.accumulated_fees /\ t.fee_pool = u.fee_pool
      /\ t.paid_fees = u.paid_fees /\ t.limits = N
  BY DEF Only, Fields
<1> DEFINE e == IF x = "core" THEN n ELSE 0
<1>8. e \in Int
  BY <1>1
<1>9. /\ t.core_in_orders \in [Accounts -> Int]
      /\ \A b \in Accounts : t.core_in_orders[b] = u.core_in_orders[b] + IF b = a THEN e ELSE 0
  <2>1. u.core_in_orders \in [Accounts -> Int]
    BY <1>3 DEF Sound
  <2>2. t.core_in_orders = [u.core_in_orders EXCEPT ![a] = @ + e]
    BY DEF Indebted
  <2> HIDE DEF e
  <2> QED BY <1>8, <2>1, <2>2
<1>10. ASSUME NEW b \in Accounts
       PROVE  t.core_in_orders[b] = OfOrders(N, b) + OfPositions(u.calls, b)
  <2> DEFINE f == IF b = a THEN e ELSE 0
  <2>1. InOrder(y, b) = f
    BY DEF InOrder
  <2>2. t.core_in_orders[b] = u.core_in_orders[b] + f /\ f \in Int
    BY <1>8, <1>9
  <2>3. OfOrders(N, b) = OfOrders(L, b) + f /\ OfOrders(L, b) \in Int
    BY <1>6, <2>1
  <2>4. u.core_in_orders[b] = OfOrders(L, b) + OfPositions(u.calls, b)
    BY <1>3 DEF Sound, CoreInOrders
  <2>5. OfPositions(u.calls, b) \in Int
    BY <1>3, CallSums DEF Sound
  <2> HIDE DEF f, e, N, L
  <2> QED BY <2>2, <2>3, <2>4, <2>5
<1> HIDE DEF N, L, e
<1>11. Sound(t)
  <2>1. Table(t.limits, Limits) /\ t.ok
    BY <1>6, <1>7
  <2>2. CoreInOrders(t)
    BY <1>7, <1>10 DEF CoreInOrders
  <2> QED BY <1>3, <1>7, <1>9, <2>1, <2>2 DEF Sound
<1>12. TotalCore(t) = TotalCore(u) + Sold(y, "core") + y.deferred_fee
  <2>1. TotalCore(t) =
          Held(u.balance, "core") + (ForSale(L, "core") + Sold(y, "core"))
          + (Total(L, "deferred_fee") + y.deferred_fee) + Total(u.calls, "collateral")
          + Total(u.bids, "collateral") + u.settlement_fund + u.fee_pool
          + u.paid_fees + u.accumulated_fees["core"]
    BY <1>6, <1>7, AssetsAre DEF TotalCore
  <2>2. TotalCore(u) =
          Held(u.balance, "core") + ForSale(L, "core")
          + Total(L, "deferred_fee") + Total(u.calls, "collateral")
          + Total(u.bids, "collateral") + u.settlement_fund + u.fee_pool
          + u.paid_fees + u.accumulated_fees["core"]
    BY DEF TotalCore, L
  <2>3. /\ Held(u.balance, "core") \in Int /\ ForSale(L, "core") \in Int
        /\ Total(L, "deferred_fee") \in Int /\ Total(u.calls, "collateral") \in Int
        /\ Total(u.bids, "collateral") \in Int /\ u.settlement_fund \in Int
        /\ u.fee_pool \in Int /\ u.paid_fees \in Int /\ u.accumulated_fees["core"] \in Int
    BY <1>3, <1>6, SoundParts, AssetsAre
  <2>4. Sold(y, "core") \in Int
    BY <1>1 DEF Sold
  <2> QED BY <1>1, <2>1, <2>2, <2>3, <2>4
<1>13. TotalMia(t) = TotalMia(u) + Sold(y, "mia") + y.deferred_paid_fee
  <2>1. TotalMia(t) = Held(u.balance, "mia") + (ForSale(L, "mia") + Sold(y, "mia"))
                      + (Total(L, "deferred_paid_fee") + y.deferred_paid_fee)
                      + Total(u.settles, "balance") + u.accumulated_fees["mia"]
    BY <1>6, <1>7, AssetsAre DEF TotalMia
  <2>2. TotalMia(u) = Held(u.balance, "mia") + ForSale(L, "mia") + Total(L, "deferred_paid_fee")
                      + Total(u.settles, "balance") + u.accumulated_fees["mia"]
    BY DEF TotalMia, L
  <2>3. /\ Held(u.balance, "mia") \in Int /\ ForSale(L, "mia") \in Int
        /\ Total(L, "deferred_paid_fee") \in Int /\ Total(u.settles, "balance") \in Int
        /\ u.accumulated_fees["mia"] \in Int
    BY <1>3, <1>6, SoundParts, AssetsAre
  <2>4. Sold(y, "mia") \in Int
    BY <1>1 DEF Sold
  <2> QED BY <1>1, <2>1, <2>2, <2>3, <2>4
<1>14. TotalCore(t) = TotalCore(s) + y.deferred_fee /\ TotalMia(t) = TotalMia(s) + y.deferred_paid_fee
  <2>1. CASE x = "core"
    <3>1. Sold(y, "core") = n /\ Sold(y, "mia") = 0
      BY <2>1 DEF Sold
    <3>2. TotalCore(u) = TotalCore(s) + (-n) /\ TotalMia(u) = TotalMia(s)
      BY <1>3, <2>1
    <3> HIDE DEF n
    <3> QED BY <1>1, <1>3, <1>12, <1>13, <3>1, <3>2
  <2>2. CASE x = "mia"
    <3>1. Sold(y, "mia") = n /\ Sold(y, "core") = 0
      BY <2>2 DEF Sold
    <3>2. TotalMia(u) = TotalMia(s) + (-n) /\ TotalCore(u) = TotalCore(s)
      BY <1>3, <2>2
    <3> HIDE DEF n
    <3> QED BY <1>1, <1>3, <1>12, <1>13, <3>1, <3>2
  <2> QED BY <1>1, <2>1, <2>2, AssetsAre
<1> QED BY <1>4, <1>7, <1>11, <1>14

-----------------------------------------------------------------------------
(* What is deferred for an order, in core and in the mia, and the order.   *)
FeePaid(op) == IF op.fee = "core" THEN 0 ELSE ToBaseUp(OrderFee, ExchangeRate)
FeeDeferred(op) == IF op.fee = "core" THEN OrderFee ELSE ToQuote(FeePaid(op), ExchangeRate)
FromPool(op) == IF op.fee = "core" THEN 0 ELSE FeeDeferred(op)
NewOrder(a, op) ==
  [id |-> NextId(Begin.limits), seller |-> a, sells |-> op.sells, for_sale |-> op.price.base,
   price |-> op.price, expiration |-> head_time + op.lifetime,
   deferred_fee |-> FeeDeferred(op), deferred_paid_fee |-> FeePaid(op)]

LEMMA FeesAre ==
  ASSUME NEW op
  PROVE  FeePaid(op) \in Nat /\ FeeDeferred(op) \in Nat
<1>1. OrderFee \in Nat /\ ExchangeRate.base \in Positive /\ ExchangeRate.quote \in Positive
  BY MarketAssumption DEF Rates
<1> DEFINE i == Inverted(ExchangeRate)
<1>2. i.base \in Positive /\ i.quote \in Nat
  BY <1>1 DEF Inverted, Price, Positive
<1>3. ToBaseUp(OrderFee, ExchangeRate) = ToQuoteUp(OrderFee, i)
  BY DEF ToBaseUp
<1> HIDE DEF i
<1>4. ToBaseUp(OrderFee, ExchangeRate) \in Nat
  BY <1>1, <1>2, <1>3, RoundUp
<1>5. FeePaid(op) \in Nat
  BY <1>4 DEF FeePaid
<1>6. ExchangeRate.quote \in Nat
  BY <1>1 DEF Positive
<1>7. ToQuote(FeePaid(op), ExchangeRate) \in Nat
  BY <1>1, <1>5, <1>6, RoundDown
<1> QED BY <1>1, <1>5, <1>7 DEF FeeDeferred

LEMMA NewOrderIs ==
  ASSUME Good(market), head_time \in Int, NEW a \in Accounts, NEW op \in LimitOrders
  PROVE  LET y == NewOrder(a, op) IN
         /\ y \in Limits /\ \A x \in Begin.limits : x.id # y.id
         /\ y.seller = a /\ y.sells = op.sells /\ y.for_sale = op.price.base
         /\ y.deferred_fee = FeeDeferred(op) /\ y.deferred_paid_fee = FeePaid(op)
         /\ op.fee \in Assets /\ op.sells \in Assets
<1> DEFINE id == NextId(Begin.limits)
           y == [id |-> id, seller |-> a, sells |-> op.sells, for_sale |-> op.price.base,
                 price |-> op.price, expiration |-> head_time + op.lifetime,
                 deferred_fee |-> FeeDeferred(op), deferred_paid_fee |-> FeePaid(op)]
<1>1. op \in [sells : Assets, price : Rates, lifetime : Nat, fill_or_kill : BOOLEAN, fee : Assets]
  BY MarketAssumption
<1>2. op.price \in Rates /\ op.price.base \in Positive /\ op.sells \in Assets /\ op.fee \in Assets
      /\ op.lifetime \in Nat
  BY <1>1 DEF Rates
<1>3. id \in Nat /\ \A x \in Begin.limits : x.id # id
  <2>1. Sound(Begin)
    BY BeginIs, GoodParts
  <2>2. IsFiniteSet(Begin.limits) /\ Begin.limits \subseteq Limits
    BY <2>1, SoundTables
  <2>3. \A x \in Begin.limits : x.id \in Nat
    BY <2>2 DEF Limits
  <2> QED BY <2>2, <2>3, NextIdIs
<1>4. FeeDeferred(op) \in Nat /\ FeePaid(op) \in Nat
  BY FeesAre
<1>5. NewOrder(a, op) = y
  BY DEF NewOrder
<1> HIDE DEF id
<1>6. y \in Limits
  BY <1>2, <1>3, <1>4 DEF Limits
<1>7. /\ y.id = id /\ y.seller = a /\ y.sells = op.sells /\ y.for_sale = op.price.base
      /\ y.deferred_fee = FeeDeferred(op) /\ y.deferred_paid_fee = FeePaid(op)
  OBVIOUS
<1> HIDE DEF y
<1> QED BY <1>2, <1>3, <1>5, <1>6, <1>7

(* The state with the order, before the fee is paid.                       *)
Created(u, y) ==
  [u EXCEPT !.core_in_orders[y.seller] = @ + IF y.sells = "core" THEN y.for_sale ELSE 0,
            !.limits = @ \cup {y}]

LEMMA CreatedBooks ==
  ASSUME Good(market), head_time \in Int, NEW a \in Accounts, NEW op \in LimitOrders,
         NEW y, y = NewOrder(a, op),
         NEW p, Only(Begin, p, {"fee_pool"}), p.fee_pool = Begin.fee_pool - FromPool(op), p.fee_pool >= 0,
         NEW u, u = adjust_balance(p, a, op.sells, -op.price.base),
         NEW t, t = Created(u, y)
  PROVE  /\ Proper(t) /\ Find(t, y.id) # {}
         /\ t.ok => Books(t, CoreSupply + FeeDeferred(op) - FromPool(op), FeePaid(op))
<1> DEFINE s == Begin
           g == FromPool(op)
           k == CoreSupply + FeeDeferred(op) - g
           m == FeePaid(op)
<1>1. /\ y \in Limits /\ \A x \in s.limits : x.id # y.id
      /\ y.seller = a /\ y.sells = op.sells /\ y.for_sale = op.price.base
      /\ y.deferred_fee = FeeDeferred(op) /\ y.deferred_paid_fee = FeePaid(op)
  BY NewOrderIs
<1>2. Good(s) /\ Sound(s) /\ CoreSupply \in Int
  BY BeginIs, GoodParts
<1>3. FeeDeferred(op) \in Int /\ m \in Int /\ m \in Nat
  BY FeesAre
<1>4. g \in Int
  BY <1>3 DEF FromPool
<1>5. Only(s, p, {"fee_pool"}) /\ p.fee_pool = s.fee_pool - g
  OBVIOUS
<1> HIDE DEF s, g, m
<1>6. Sound(p) /\ TotalCore(p) = TotalCore(s) - g /\ TotalMia(p) = TotalMia(s) /\ TotalCore(s) \in Int
  BY <1>2, <1>4, <1>5, Pooled
<1>7. p.limits = s.limits /\ p.calls = s.calls /\ p.supply = s.supply
      /\ p.settlement_price = s.settlement_price /\ p.settlement_fund = s.settlement_fund
      /\ DOMAIN p = Fields
  BY <1>5 DEF Only, Fields
<1>8. DOMAIN u = Fields
  BY <1>7, AdjustStops DEF Stops
<1>9. /\ Only(u, t, {"limits", "core_in_orders"}) /\ t.limits = With(u.limits, y)
      /\ t.core_in_orders = Indebted(u, y.seller, IF y.sells = "core" THEN y.for_sale ELSE 0)
      /\ DOMAIN t = Fields
  BY <1>8 DEF Created, Only, Fields, With, Indebted
<1>10. Find(t, y.id) # {}
  <2>1. y \in t.limits
    BY <1>9 DEF With
  <2>2. y \in Find(t, y.id)
    BY <2>1 DEF Find
  <2> QED BY <2>2
<1>11. ASSUME t.ok PROVE Books(t, k, m)
  <2>1. /\ Sound(t) /\ TotalCore(t) = TotalCore(p) + y.deferred_fee
        /\ TotalMia(t) = TotalMia(p) + y.deferred_paid_fee
        /\ t.calls = p.calls /\ t.supply = p.supply
        /\ t.settlement_price = p.settlement_price /\ t.settlement_fund = p.settlement_fund
    <3>1. u = adjust_balance(p, y.seller, y.sells, -y.for_sale)
      BY <1>1
    <3>2. \A x \in p.limits : x.id # y.id
      BY <1>1, <1>7
    <3> QED BY <1>1, <1>6, <1>9, <1>11, <3>1, <3>2, Listed
  <2>2. TotalCore(s) = CoreSupply /\ TotalMia(s) = s.supply + 0 /\ s.supply \in Nat
        /\ DebtIsSupply(s) /\ FundCovers(s)
    BY <1>2 DEF Good, Books
  <2>3. TotalCore(t) = k
    BY <1>1, <1>2, <1>3, <1>4, <1>6, <2>1, <2>2
  <2>4. TotalMia(t) = t.supply + m /\ t.supply \in Nat
    <3>1. m = y.deferred_paid_fee
      BY <1>1 DEF m
    <3> QED BY <1>3, <1>6, <1>7, <2>1, <2>2, <3>1
  <2>5. t.calls = s.calls /\ t.supply = s.supply
        /\ t.settlement_price = s.settlement_price /\ t.settlement_fund = s.settlement_fund
    BY <1>7, <2>1
  <2>6. DebtIsSupply(t) /\ FundCovers(t)
    BY <2>2, <2>5, SameDebt
  <2> HIDE DEF k
  <2> QED BY <2>1, <2>3, <2>4, <2>6 DEF Books
<1>12. Proper(t)
  <2> HIDE DEF k
  <2>1. CASE t.ok
    BY <1>9, <1>11, <2>1 DEF Books, Proper
  <2>2. CASE ~t.ok
    BY <1>9, <2>2 DEF Proper
  <2> QED BY <2>1, <2>2
<1> QED BY <1>10, <1>11, <1>12 DEF k, g, m

(* The fee is paid when the order was applied.                             *)
LEMMA FeeTaken ==
  ASSUME NEW op, op.fee \in Assets, NEW a \in Accounts, CoreSupply \in Int,
         NEW s, DOMAIN s = Fields,
         s.ok => Books(s, CoreSupply + FeeDeferred(op) - FromPool(op), FeePaid(op)),
         NEW t, t = adjust_balance(s, a, op.fee, IF op.fee = "core" THEN -OrderFee ELSE -FeePaid(op)), t.ok
  PROVE  Good(t)
<1> DEFINE n == IF op.fee = "core" THEN -OrderFee ELSE -FeePaid(op)
           k == CoreSupply + FeeDeferred(op) - FromPool(op)
           m == FeePaid(op)
<1>1. s.ok
  BY AdjustStops DEF Stops
<1>2. Books(s, k, m)
  BY <1>1
<1>3. OrderFee \in Nat /\ m \in Nat /\ FeeDeferred(op) \in Nat /\ n \in Int
  BY FeesAre, MarketAssumption
<1>4. op.fee = "core" => k = CoreSupply + OrderFee /\ m = 0 /\ n = -OrderFee
  BY <1>3 DEF FeeDeferred, FromPool, FeePaid
<1>5. op.fee = "mia" => k = CoreSupply /\ n = -m
  BY <1>3 DEF FromPool
<1>6. t = adjust_balance(s, a, op.fee, n)
  OBVIOUS
<1> HIDE DEF n, k, m
<1>7. Sound(s) /\ s.supply \in Nat /\ TotalCore(s) = k /\ TotalMia(s) = s.supply + m
      /\ DebtIsSupply(s) /\ FundCovers(s)
  BY <1>2 DEF Books
<1>8. /\ Sound(t) /\ Only(s, t, {"balance", "ok"})
      /\ op.fee = "core" => TotalCore(t) = TotalCore(s) + n /\ TotalMia(t) = TotalMia(s)
      /\ op.fee = "mia" => TotalMia(t) = TotalMia(s) + n /\ TotalCore(t) = TotalCore(s)
  BY <1>3, <1>6, <1>7, Adjusted
<1>9. t.calls = s.calls /\ t.supply = s.supply
      /\ t.settlement_price = s.settlement_price /\ t.settlement_fund = s.settlement_fund
  BY <1>8 DEF Only, Fields
<1>10. TotalCore(t) = CoreSupply /\ TotalMia(t) = t.supply + 0
  <2>1. CASE op.fee = "core"
    BY <1>3, <1>4, <1>7, <1>8, <1>9, <2>1
  <2>2. CASE op.fee = "mia"
    BY <1>3, <1>5, <1>7, <1>8, <1>9, <2>2
  <2> QED BY <2>1, <2>2, AssetsAre
<1>11. DebtIsSupply(t) /\ FundCovers(t)
  BY <1>7, <1>9, SameDebt
<1> QED BY <1>7, <1>8, <1>9, <1>10, <1>11 DEF Good, Books

-----------------------------------------------------------------------------
FromPooled(op) == IF op.fee = "core" THEN Begin ELSE [Begin EXCEPT !.fee_pool = @ - FeeDeferred(op)]

LEMMA FromPooledIs ==
  ASSUME Good(market), NEW op, NEW p, p = FromPooled(op)
  PROVE  Only(Begin, p, {"fee_pool"}) /\ p.fee_pool = Begin.fee_pool - FromPool(op)
<1> DEFINE s == Begin
<1>1. DOMAIN s = Fields /\ s.fee_pool \in Nat
  BY BeginIs, GoodParts, SoundParts
<1>2. CASE op.fee = "core"
  <2>1. p = s /\ FromPool(op) = 0
    BY <1>2 DEF FromPooled, FromPool
  <2> HIDE DEF s
  <2>2. Only(s, s, {"fee_pool"}) /\ s.fee_pool = s.fee_pool - 0
    BY <1>1 DEF Only
  <2>3. Only(s, p, {"fee_pool"}) /\ p.fee_pool = s.fee_pool - FromPool(op)
    BY <2>1, <2>2
  <2> QED BY <2>3 DEF s
<1>3. CASE op.fee # "core"
  <2>1. p = [s EXCEPT !.fee_pool = @ - FeeDeferred(op)] /\ FromPool(op) = FeeDeferred(op)
    BY <1>3 DEF FromPooled, FromPool
  <2> HIDE DEF s
  <2>2. Only(s, p, {"fee_pool"}) /\ p.fee_pool = s.fee_pool - FromPool(op)
    BY <1>1, <2>1 DEF Only, Fields
  <2> QED BY <2>2 DEF s
<1> QED BY <1>2, <1>3

LEMMA CreateKeepsBooks ==
  ASSUME Good(market), head_time \in Int, NEW a \in Accounts, NEW op \in LimitOrders,
         limit_order_create(a, op)
  PROVE  Good(market') /\ head_time' = head_time
<1> DEFINE p == FromPooled(op)
           y == NewOrder(a, op)
           u == adjust_balance(p, a, op.sells, -op.price.base)
           t == [u EXCEPT !.core_in_orders[a] = @ + IF op.sells = "core" THEN op.price.base ELSE 0,
                          !.limits = @ \cup {y}]
           c == apply_order(t, y.id)
           r == adjust_balance(c, a, op.fee, IF op.fee = "core" THEN -OrderFee ELSE -FeePaid(op))
<1>1. p.fee_pool >= 0 /\ Apply(r)
  BY DEF limit_order_create, FromPooled, FeeDeferred, FeePaid, NewOrder
<1>2. Only(Begin, p, {"fee_pool"}) /\ p.fee_pool = Begin.fee_pool - FromPool(op)
  BY FromPooledIs
<1>3. /\ y.seller = a /\ y.sells = op.sells /\ y.for_sale = op.price.base
      /\ op.fee \in Assets /\ op.sells \in Assets
  BY NewOrderIs
<1> HIDE DEF p
<1>4. y = NewOrder(a, op)
  OBVIOUS
<1> HIDE DEF y
<1>5. t = Created(u, y)
  BY <1>3 DEF Created
<1>6. u = adjust_balance(p, a, op.sells, -op.price.base)
  OBVIOUS
<1> HIDE DEF u, t
<1>7. /\ Proper(t) /\ Find(t, y.id) # {}
      /\ t.ok => Books(t, CoreSupply + FeeDeferred(op) - FromPool(op), FeePaid(op))
  BY <1>1, <1>2, <1>4, <1>5, <1>6, CreatedBooks
<1>8. Keeps(t, c)
  BY <1>7, ApplyOrderKeeps
<1> HIDE DEF c
<1>9. CoreSupply \in Int
  BY BeginIs, GoodParts
<1> DEFINE k == CoreSupply + FeeDeferred(op) - FromPool(op)
           m == FeePaid(op)
<1>10. k \in Int /\ m \in Int
  BY <1>9, FeesAre DEF FromPool
<1>11. DOMAIN c = Fields /\ (c.ok => Books(c, k, m))
  <2> HIDE DEF k, m
  <2>1. DOMAIN c = Fields /\ (c.ok => t.ok)
    BY <1>8 DEF Keeps, Stops
  <2>2. \A i, j \in Int : Books(t, i, j) /\ c.ok => Books(c, i, j)
    BY <1>8 DEF Keeps
  <2>3. t.ok => Books(t, k, m)
    BY <1>7 DEF k, m
  <2> QED BY <1>10, <2>1, <2>2, <2>3
<1>12. r.ok => Good(r)
  BY <1>3, <1>9, <1>11, FeeTaken
<1> HIDE DEF r
<1> QED BY <1>1, <1>12, Applied

-----------------------------------------------------------------------------
(* What every step keeps: the books in order, and a head block time from   *)
(* which expirations, dates of settlements and feeds are numbers.          *)
IInv == Good(market) /\ head_time \in Int

LEMMA InitBooks == Init => IInv
<1> SUFFICES ASSUME Init PROVE IInv
  OBVIOUS
<1>1. market \in Start /\ head_time = 0
  BY DEF Init
<1>2. market.ok /\ Balanced(market)
  BY <1>1, StartAssumption
<1>3. Good(market)
  BY <1>2, GoodIs
<1> QED BY <1>1, <1>3 DEF IInv

LEMMA StepKeepsBooks == IInv /\ [Next]_vars => IInv'
<1> SUFFICES ASSUME IInv, [Next]_vars PROVE IInv'
  OBVIOUS
<1>1. Good(market) /\ head_time \in Int
  BY DEF IInv
<1> USE DEF IInv
<1>2. CASE UNCHANGED vars
  <2>1. market' = market /\ head_time' = head_time
    BY <1>2 DEF vars
  <2>2. Good(market)' /\ (head_time \in Int)'
    BY <1>1, <2>1 DEF Good, CoreSupply
  <2> QED BY <2>2
<1>3. ASSUME NEW a \in Accounts, NEW op \in LimitOrders, limit_order_create(a, op)
      PROVE  Good(market') /\ head_time' \in Int
  BY <1>1, <1>3, CreateKeepsBooks
<1>4. ASSUME NEW a \in Accounts, NEW op \in CallUpdates, call_order_update(a, op)
      PROVE  Good(market') /\ head_time' \in Int
  BY <1>1, <1>4, CallKeepsBooks
<1>5. ASSUME NEW a \in Accounts, NEW n \in Settlements, asset_settle(a, n)
      PROVE  Good(market') /\ head_time' \in Int
  BY <1>1, <1>5, SettleKeepsBooks
<1>6. ASSUME NEW a \in Accounts, NEW op \in Bids, bid_collateral(a, op)
      PROVE  Good(market') /\ head_time' \in Int
  BY <1>1, <1>6, BidKeepsBooks
<1>7. ASSUME NEW o \in market.limits, limit_order_cancel(o)
      PROVE  Good(market') /\ head_time' \in Int
  BY <1>1, <1>7, CancelKeepsBooks
<1>8. ASSUME NEW p \in Publishers, NEW f \in Feeds, publish_feed(p, f)
      PROVE  Good(market') /\ head_time' \in Int
  BY <1>1, <1>8, PublishKeepsBooks
<1>9. ASSUME NEW p \in SettlePrices, asset_global_settle(p)
      PROVE  Good(market') /\ head_time' \in Int
  BY <1>1, <1>9, GlobalSettleKeepsBooks
<1>10. CASE apply_block
  BY <1>1, <1>10, BlockKeepsBooks
<1> QED BY <1>2, <1>3, <1>4, <1>5, <1>6, <1>7, <1>8, <1>9, <1>10 DEF Next

(* The books balance after every operation that an evaluator accepts and   *)
(* every block, for any accounts, fees, prices, orders and markets to      *)
(* begin with: no rounding of match, fill_order, cancel_order,             *)
(* execute_bid or globally_settle_asset makes or loses a unit of core or   *)
(* of the mia, debt is current_supply, total_core_in_orders is right and   *)
(* the settlement fund pays what the rest of the supply is worth.          *)
THEOREM BooksBalanceHolds == Spec => []BooksBalance
<1>1. IInv => BooksBalance
  BY GoodIs DEF IInv, BooksBalance
<1> QED BY <1>1, InitBooks, StepKeepsBooks, PTL DEF Spec

-----------------------------------------------------------------------------
(* The volume of forced settlements.  Nothing but a settlement changes it,  *)
(* and the fields that an operator leaves alone are those not in its set.   *)
NotVolume == Fields \ {"force_settled_volume"}
NotSupply == Fields \ {"force_settled_volume", "supply"}

LEMMA OnlyMore ==
  ASSUME NEW s, NEW t, NEW F, NEW H, Only(s, t, F), F \subseteq H
  PROVE  Only(s, t, H)
BY DEF Only

LEMMA OnlySame ==
  ASSUME NEW s, DOMAIN s = Fields, NEW F
  PROVE  Only(s, s, F)
BY DEF Only

LEMMA OnlyBoth ==
  ASSUME NEW s, NEW t, NEW u, NEW F, Only(s, t, F), Only(t, u, F)
  PROVE  Only(s, u, F)
BY DEF Only

LEMMA FieldSets ==
  /\ OrderFields \subseteq NotSupply /\ StepFields \subseteq NotSupply
  /\ AllBidFields \subseteq NotSupply /\ BidFields \subseteq NotSupply
  /\ ExecuteFields \subseteq NotSupply /\ SettleFields \subseteq NotSupply
  /\ {"done"} \subseteq NotSupply /\ {"hung"} \subseteq NotSupply /\ {"ok"} \subseteq NotSupply
  /\ {"called"} \subseteq NotSupply /\ {"balance", "ok"} \subseteq NotSupply
  /\ {"balance", "ok", "settles"} \subseteq NotSupply
  /\ NotSupply \subseteq NotVolume /\ CallFields \subseteq NotVolume
  /\ {"settlement_price", "settlement_fund", "supply"} \subseteq NotVolume
<1>1. /\ OrderFields \subseteq NotSupply /\ StepFields \subseteq NotSupply
      /\ AllBidFields \subseteq NotSupply /\ BidFields \subseteq NotSupply
  BY DEF NotSupply, Fields, OrderFields, StepFields, AllBidFields, BidFields
<1>2. ExecuteFields \subseteq NotSupply /\ SettleFields \subseteq NotSupply
  BY DEF NotSupply, Fields, ExecuteFields, SettleFields
<1>3. /\ {"done"} \subseteq NotSupply /\ {"hung"} \subseteq NotSupply /\ {"ok"} \subseteq NotSupply
      /\ {"called"} \subseteq NotSupply /\ {"balance", "ok"} \subseteq NotSupply
      /\ {"balance", "ok", "settles"} \subseteq NotSupply
  BY DEF NotSupply, Fields
<1>4. /\ NotSupply \subseteq NotVolume /\ CallFields \subseteq NotVolume
      /\ {"settlement_price", "settlement_fund", "supply"} \subseteq NotVolume
  BY DEF NotSupply, NotVolume, Fields, CallFields
<1> QED BY <1>1, <1>2, <1>3, <1>4

(* What every step of a loop leaves alone, the loop does; strict when the   *)
(* steps need a market that is in order.                                    *)
LEMMA LoopOnly ==
  ASSUME NEW s, DOMAIN s = Fields, NEW n \in Nat, NEW k, NEW u, Runs(u, k, s, n),
         NEW F, "done" \in F, "hung" \in F, NEW strict \in BOOLEAN, strict => Proper(s),
         \A t : DOMAIN t = Fields /\ t.ok /\ (strict => Proper(t)) =>
                  Only(t, AnyStep(k, t), F) /\ (strict => Proper(AnyStep(k, t)))
  PROVE  Only(s, u, F)
<1>1. PICK g : Follows(g, k, s, n) /\ u = Ended(g[n])
  BY DEF Runs
<1> DEFINE X == {x \in {g[i] : i \in 0 .. n} : Only(s, x, F) /\ (strict => Proper(x))}
<1>2. g[0] \in X
  <2>1. g[0] = Begun(s) /\ 0 \in 0 .. n
    BY <1>1 DEF Follows
  <2>2. Only(s, g[0], {"done"}) /\ Alike(s, g[0])
    BY <2>1, BegunIs
  <2>3. Only(s, g[0], F)
    BY <2>2, OnlyMore
  <2>4. Keeps(s, g[0])
    BY <2>2, KeepsAlike
  <2>5. strict => Proper(g[0])
    BY <2>4, KeepsProper
  <2> QED BY <2>1, <2>3, <2>5
<1>3. ASSUME NEW i \in 1 .. n, g[i - 1] \in X PROVE g[i] \in X
  <2> DEFINE x == g[i - 1]
  <2>1. /\ g[i] = Stepped(k, x) /\ Only(s, x, F) /\ (strict => Proper(x)) /\ i \in 0 .. n
    BY <1>1, <1>3 DEF Follows
  <2>2. DOMAIN x = Fields
    BY <2>1 DEF Only
  <2> HIDE DEF x
  <2>3. CASE x.done \/ ~x.ok
    <3>1. g[i] = x
      BY <2>1, <2>3 DEF Stepped
    <3> QED BY <2>1, <3>1
  <2>4. CASE ~x.done /\ x.ok
    <3>1. g[i] = AnyStep(k, x)
      BY <2>1, <2>4 DEF Stepped
    <3>2. Only(x, g[i], F) /\ (strict => Proper(g[i]))
      BY <2>1, <2>2, <2>4, <3>1
    <3>3. Only(s, g[i], F)
      BY <2>1, <3>2, OnlyBoth
    <3> QED BY <2>1, <3>2, <3>3
  <2> QED BY <2>3, <2>4
<1>4. Only(s, g[n], F)
  <2> HIDE DEF X
  <2>1. \A i \in 0 .. n : g[i] \in X
    BY <1>2, <1>3, StaysIn
  <2> QED BY <2>1 DEF X
<1>5. Only(g[n], u, {"hung"})
  <2>1. DOMAIN g[n] = Fields
    BY <1>4 DEF Only
  <2> QED BY <1>1, <2>1, EndedIs
<1>6. Only(g[n], u, F)
  BY <1>5, OnlyMore
<1> QED BY <1>4, <1>6, OnlyBoth

(* Fills of call orders, and a new order with its loop.                     *)
LEMMA CallOnly ==
  ASSUME NEW s, DOMAIN s = Fields, NEW c, NEW pays, NEW receives
  PROVE  Only(s, fill_call_order(s, c, pays, receives), NotVolume)
<1>1. Only(s, fill_call_order(s, c, pays, receives), CallFields)
  BY FillCallIs
<1> QED BY <1>1, FieldSets, OnlyMore

LEMMA FillOnly ==
  ASSUME NEW s, DOMAIN s = Fields, NEW o, NEW pays, NEW receives, NEW cull
  PROVE  Only(s, fill_limit_order(s, o, pays, receives, cull), NotVolume)
<1>1. Only(s, fill_limit_order(s, o, pays, receives, cull), OrderFields)
  BY FillStops
<1>2. OrderFields \subseteq NotVolume
  BY FieldSets
<1> QED BY <1>1, <1>2, OnlyMore

LEMMA DoneOnly ==
  ASSUME NEW s, DOMAIN s = Fields
  PROVE  Only(s, Done(s), NotSupply) /\ Only(s, Done(s), NotVolume)
<1>1. Only(s, Done(s), {"done"})
  BY DoneIs
<1>2. {"done"} \subseteq NotSupply /\ {"done"} \subseteq NotVolume
  BY FieldSets
<1> QED BY <1>1, <1>2, OnlyMore

LEMMA RequireOnly ==
  ASSUME NEW s, DOMAIN s = Fields, NEW c
  PROVE  Only(s, Require(s, c), NotSupply) /\ Only(s, Require(s, c), NotVolume)
<1>1. Only(s, Require(s, c), {"ok"})
  BY RequireStops
<1>2. {"ok"} \subseteq NotSupply /\ {"ok"} \subseteq NotVolume
  BY FieldSets
<1> QED BY <1>1, <1>2, OnlyMore

LEMMA AdjustOnly ==
  ASSUME NEW s, DOMAIN s = Fields, NEW a, NEW x, NEW n
  PROVE  /\ Only(s, adjust_balance(s, a, x, n), NotSupply)
         /\ Only(s, adjust_balance(s, a, x, n), NotVolume)
<1>1. Only(s, adjust_balance(s, a, x, n), {"balance", "ok"})
  BY AdjustStops
<1>2. {"balance", "ok"} \subseteq NotSupply /\ {"balance", "ok"} \subseteq NotVolume
  BY FieldSets
<1> QED BY <1>1, <1>2, OnlyMore

LEMMA CancelOnly ==
  ASSUME NEW s, DOMAIN s = Fields, NEW o, NEW virtual
  PROVE  /\ Only(s, cancel_limit_order(s, o, virtual), NotSupply)
         /\ Only(s, cancel_limit_order(s, o, virtual), NotVolume)
<1>1. Only(s, cancel_limit_order(s, o, virtual), OrderFields)
  BY CancelStops
<1>2. OrderFields \subseteq NotSupply /\ OrderFields \subseteq NotVolume
  BY FieldSets
<1> QED BY <1>1, <1>2, OnlyMore

LEMMA MatchCallOnly ==
  ASSUME NEW s, DOMAIN s = Fields, NEW t, NEW c
  PROVE  Only(s, match_call(s, t, c), NotVolume)
<1> DEFINE taker == Taker(s, t)
           x == Exchange(c, taker.for_sale, max_short_squeeze_price(s.feed))
           f == fill_limit_order(s, taker, x.mia, x.core, c.debt > taker.for_sale)
           g == fill_call_order(f, c, x.core, x.mia)
<1>1. match_call(s, t, c) = IF x.core = 0 THEN Done(s) ELSE UnlessGone(g, t)
  BY DEF match_call
<1>2. Only(s, f, NotVolume)
  BY FillOnly
<1> HIDE DEF f
<1>3. DOMAIN f = Fields
  BY <1>2 DEF Only
<1>4. Only(f, g, NotVolume)
  BY <1>3, CallOnly
<1> HIDE DEF g
<1>5. DOMAIN g = Fields
  BY <1>4 DEF Only
<1>6. Only(g, UnlessGone(g, t), {"done"})
  BY <1>5, UnlessGoneIs
<1>7. Only(g, UnlessGone(g, t), NotVolume)
  <2>1. {"done"} \subseteq NotVolume
    BY FieldSets
  <2> QED BY <1>6, <2>1, OnlyMore
<1>8. Only(s, UnlessGone(g, t), NotVolume)
  BY <1>2, <1>4, <1>7, OnlyBoth
<1>9. Only(s, Done(s), NotVolume)
  BY DoneOnly
<1> QED BY <1>1, <1>8, <1>9

LEMMA MatchStepOnly ==
  ASSUME NEW s, DOMAIN s = Fields, NEW t
  PROVE  Only(s, MatchStep(s, t), NotVolume)
<1>1. \A o : Only(s, match(s, t, o), NotVolume)
  <2>1. \A o : Only(s, match(s, t, o), StepFields)
    BY MatchStops
  <2>2. StepFields \subseteq NotVolume
    BY FieldSets
  <2> QED BY <2>1, <2>2, OnlyMore
<1>2. \A c : Only(s, match_call(s, t, c), NotVolume)
  BY MatchCallOnly
<1>3. Only(s, Done(s), NotVolume)
  BY DoneOnly
<1> QED BY <1>1, <1>2, <1>3 DEF MatchStep

LEMMA MatchAllOnly ==
  ASSUME NEW s, DOMAIN s = Fields, NEW id, NEW n, s.ok => n \in Nat
  PROVE  Only(s, MatchAll(s, n, id), NotVolume)
<1> DEFINE u == MatchAll(s, n, id)
           k == [loop |-> "match", id |-> id]
<1>1. CASE ~s.ok
  <2>1. u = s
    BY <1>1, NoLoop
  <2> QED BY <2>1, OnlySame
<1>2. CASE s.ok
  <2>1. n \in Nat /\ k.loop = "match" /\ k.id = id
    BY <1>2
  <2> HIDE DEF k
  <2>2. Runs(u, k, s, n)
    BY <1>2, <2>1, MatchRuns
  <2>3. \A t : AnyStep(k, t) = MatchStep(t, id)
    BY <2>1 DEF AnyStep
  <2>4. \A t : DOMAIN t = Fields => Only(t, AnyStep(k, t), NotVolume)
    BY <2>3, MatchStepOnly
  <2>5. "done" \in NotVolume /\ "hung" \in NotVolume
    BY DEF NotVolume, Fields
  <2> HIDE DEF u
  <2>6. Only(s, u, NotVolume)
    BY <2>1, <2>2, <2>4, <2>5, LoopOnly
  <2> QED BY <2>6 DEF u
<1> QED BY <1>1, <1>2

LEMMA ApplyOrderOnly ==
  ASSUME NEW s, DOMAIN s = Fields, s.ok => Iterations(s) \in Nat, NEW t
  PROVE  Only(s, apply_order(s, t), NotVolume)
<1> DEFINE n == Iterations(s)
           m == MatchAll(s, n, t)
           culled == maybe_cull_small_order(m, Taker(m, t))
<1>1. apply_order(s, t) = s \/ apply_order(s, t) = m \/ apply_order(s, t) = culled
  BY DEF apply_order, MatchAll
<1>2. Only(s, m, NotVolume)
  BY MatchAllOnly
<1>3. Only(s, s, NotVolume)
  BY OnlySame
<1> HIDE DEF m
<1>4. DOMAIN m = Fields
  BY <1>2 DEF Only
<1>5. Only(m, culled, OrderFields)
  BY <1>4, CullStops
<1>6. OrderFields \subseteq NotVolume
  BY FieldSets
<1>7. Only(m, culled, NotVolume)
  BY <1>5, <1>6, OnlyMore
<1> HIDE DEF culled
<1>8. Only(s, culled, NotVolume)
  BY <1>2, <1>7, OnlyBoth
<1> QED BY <1>1, <1>2, <1>3, <1>8

-----------------------------------------------------------------------------
(* A global settlement, and margin calls with their loop.                   *)
LEMMA CloseAllOnly ==
  ASSUME NEW s, DOMAIN s = Fields, NEW pays, NEW n, s.ok => n \in Nat
  PROVE  Only(s, CloseAll(s, n, pays), NotVolume)
<1> DEFINE u == CloseAll(s, n, pays)
           k == [loop |-> "close", pays |-> pays]
<1>1. CASE ~s.ok
  <2>1. u = s
    BY <1>1, NoLoop
  <2> QED BY <2>1, OnlySame
<1>2. CASE s.ok
  <2>1. n \in Nat /\ k.loop = "close" /\ k.pays = pays
    BY <1>2
  <2> HIDE DEF k
  <2>2. Runs(u, k, s, n)
    BY <1>2, <2>1, CloseRuns
  <2>3. \A t : AnyStep(k, t) = CloseStep(t, pays)
    BY <2>1 DEF AnyStep
  <2>4. ASSUME NEW t, DOMAIN t = Fields PROVE Only(t, AnyStep(k, t), NotVolume)
    <3>1. Only(t, Done(t), NotVolume)
      BY <2>4, DoneOnly
    <3>2. Only(t, fill_call_order(t, FirstCall(t), pays[FirstCall(t)], FirstCall(t).debt), NotVolume)
      BY <2>4, CallOnly
    <3> QED BY <2>3, <3>1, <3>2 DEF CloseStep
  <2>5. "done" \in NotVolume /\ "hung" \in NotVolume
    BY DEF NotVolume, Fields
  <2> HIDE DEF u
  <2>6. Only(s, u, NotVolume)
    BY <2>1, <2>2, <2>4, <2>5, LoopOnly
  <2> QED BY <2>6 DEF u
<1> QED BY <1>1, <1>2

LEMMA GlobalOnly ==
  ASSUME NEW s, DOMAIN s = Fields, s.ok => Iterations(s) \in Nat, NEW p
  PROVE  Only(s, globally_settle_asset(s, p), NotVolume)
<1> DEFINE q == Require(s, ~has_settlement(s))
           u == CloseAll(q, Iterations(s), PaysAt(s, p))
           t == Settled(s, u, SumFunction(PaysAt(s, p)))
<1>1. globally_settle_asset(s, p) = t
  BY GlobalIs
<1>2. Only(s, q, NotVolume) /\ (q.ok => s.ok)
  BY RequireOnly, RequireStops DEF Stops
<1> HIDE DEF q
<1>3. DOMAIN q = Fields
  BY <1>2 DEF Only
<1>4. Only(q, u, NotVolume)
  BY <1>2, <1>3, CloseAllOnly
<1> HIDE DEF u
<1>5. DOMAIN u = Fields
  BY <1>4 DEF Only
<1>6. Only(u, t, {"settlement_price", "settlement_fund", "supply"})
  BY <1>5, SettledIs
<1> HIDE DEF t
<1>7. Only(u, t, NotVolume)
  BY <1>6, FieldSets, OnlyMore
<1>8. Only(s, t, NotVolume)
  BY <1>2, <1>4, <1>7, OnlyBoth
<1> QED BY <1>1, <1>8

LEMMA ProperLoops ==
  ASSUME NEW s, Proper(s)
  PROVE  DOMAIN s = Fields /\ (s.ok => Iterations(s) \in Nat)
BY ProperParts DEF Proper

LEMMA ThrownOrSettledOnly ==
  ASSUME NEW s, Proper(s), NEW c, NEW p
  PROVE  Only(s, globally_settle_asset(Require(s, c), p), NotVolume)
<1> DEFINE r == Require(s, c)
<1>1. DOMAIN s = Fields
  BY DEF Proper
<1>2. Keeps(s, r)
  BY <1>1, KeepsRequire
<1>3. Only(s, r, NotVolume)
  BY <1>1, RequireOnly
<1> HIDE DEF r
<1>4. Proper(r)
  BY <1>2, KeepsProper
<1>5. Only(r, globally_settle_asset(r, p), NotVolume)
  BY <1>4, ProperLoops, GlobalOnly
<1>6. Only(s, globally_settle_asset(r, p), NotVolume)
  BY <1>3, <1>5, OnlyBoth
<1> QED BY <1>6 DEF r

LEMMA MarginCallOnly ==
  ASSUME NEW s, Proper(s), NEW enable
  PROVE  Only(s, MarginCall(s, enable), NotVolume)
<1> DEFINE c == FirstCall(s)
           o == Best(Callers(s))
           x == Exchange(c, o.for_sale, o.price)
           called == [s EXCEPT !.called = TRUE]
           settled == globally_settle_asset(Require(called, enable), s.feed.price)
           f == fill_call_order(called, c, x.core, x.mia)
           t == fill_limit_order(f, o, x.mia, x.core, TRUE)
<1>1. MarginCall(s, enable) = IF ToQuote(c.debt, o.price) > c.collateral THEN Done(settled) ELSE t
  BY DEF MarginCall
<1>2. DOMAIN s = Fields
  BY DEF Proper
<1>3. Only(s, called, {"called"})
  BY <1>2 DEF Only, Fields
<1> HIDE DEF called
<1>4. Only(s, called, NotVolume)
  <2>1. {"called"} \subseteq NotVolume
    BY FieldSets
  <2> QED BY <1>3, <2>1, OnlyMore
<1>5. Alike(s, called)
  <2>1. Only(s, called, {"fills", "done", "called", "hung"})
    BY <1>3 DEF Only
  <2> QED BY <2>1, AlikeIs
<1>6. Keeps(s, called)
  BY <1>2, <1>5, KeepsAlike
<1>7. Proper(called) /\ DOMAIN called = Fields
  BY <1>6, KeepsProper, KeepsDomain
<1>8. Only(s, Done(settled), NotVolume)
  <2>1. \A p : Only(called, globally_settle_asset(Require(called, enable), p), NotVolume)
    BY <1>7, ThrownOrSettledOnly
  <2>2. Only(called, settled, NotVolume)
    BY <2>1
  <2> HIDE DEF settled
  <2>3. DOMAIN settled = Fields
    BY <2>2 DEF Only
  <2>4. Only(settled, Done(settled), NotVolume)
    BY <2>3, DoneOnly
  <2> QED BY <1>4, <2>2, <2>4, OnlyBoth
<1>9. Only(s, t, NotVolume)
  <2>1. Only(called, f, NotVolume)
    BY <1>7, CallOnly
  <2> HIDE DEF f
  <2>2. DOMAIN f = Fields
    BY <2>1 DEF Only
  <2>3. Only(f, t, NotVolume)
    BY <2>2, FillOnly
  <2> HIDE DEF t
  <2> QED BY <1>4, <2>1, <2>3, OnlyBoth
<1> QED BY <1>1, <1>8, <1>9

LEMMA CheckStepOnly ==
  ASSUME NEW s, Proper(s), NEW enable
  PROVE  Only(s, CheckStep(s, enable), NotVolume)
<1> DEFINE b == check_for_blackswan(s, enable)
<1>1. DOMAIN s = Fields
  BY DEF Proper
<1>2. CheckStep(s, enable) \in {Done(s), Done(b), MarginCall(s, enable)}
  BY DEF CheckStep
<1>3. Only(s, b, NotVolume)
  <2>1. \E p : b = globally_settle_asset(Require(s, enable), p)
    BY DEF check_for_blackswan
  <2>2. \A p : Only(s, globally_settle_asset(Require(s, enable), p), NotVolume)
    BY ThrownOrSettledOnly
  <2> QED BY <2>1, <2>2
<1> HIDE DEF b
<1>4. DOMAIN b = Fields
  BY <1>3 DEF Only
<1>5. Only(b, Done(b), NotVolume)
  BY <1>4, DoneOnly
<1>6. Only(s, Done(b), NotVolume)
  BY <1>3, <1>5, OnlyBoth
<1>7. Only(s, Done(s), NotVolume)
  BY <1>1, DoneOnly
<1>8. Only(s, MarginCall(s, enable), NotVolume)
  BY MarginCallOnly
<1> QED BY <1>2, <1>6, <1>7, <1>8

LEMMA CheckCallsOnly ==
  ASSUME NEW s, Proper(s), NEW enable
  PROVE  Only(s, check_call_orders(s, enable), NotVolume)
<1> DEFINE n == Iterations(s)
           u == CheckAll(s, n, enable)
           k == [loop |-> "check", enable |-> enable]
<1>1. check_call_orders(s, enable) = u
  BY DEF check_call_orders, CheckAll
<1>2. DOMAIN s = Fields /\ (s.ok => n \in Nat)
  BY ProperLoops
<1>3. CASE ~s.ok
  <2>1. u = s
    BY <1>3, NoLoop
  <2> QED BY <1>1, <1>2, <2>1, OnlySame
<1>4. CASE s.ok
  <2>1. n \in Nat /\ k.loop = "check" /\ k.enable = enable
    BY <1>2, <1>4
  <2> HIDE DEF k, n
  <2>2. Runs(u, k, s, n)
    BY <1>4, <2>1, CheckRuns
  <2>3. \A t : AnyStep(k, t) = CheckStep(t, enable)
    BY <2>1 DEF AnyStep
  <2>4. ASSUME NEW t, Proper(t), t.ok PROVE Only(t, AnyStep(k, t), NotVolume) /\ Proper(AnyStep(k, t))
    <3>1. Only(t, CheckStep(t, enable), NotVolume)
      BY <2>4, CheckStepOnly
    <3>2. Keeps(t, CheckStep(t, enable))
      BY <2>4, CheckStepKeeps
    <3>3. Proper(CheckStep(t, enable))
      BY <2>4, <3>2, KeepsProper
    <3> QED BY <2>3, <3>1, <3>3
  <2>5. "done" \in NotVolume /\ "hung" \in NotVolume
    BY DEF NotVolume, Fields
  <2> HIDE DEF u
  <2>6. Only(s, u, NotVolume)
    <3> DEFINE strict == TRUE
    <3>1. strict \in BOOLEAN /\ strict
      OBVIOUS
    <3> HIDE DEF strict
    <3> QED BY <1>2, <2>1, <2>2, <2>4, <2>5, <3>1, LoopOnly
  <2> QED BY <1>1, <2>6 DEF u, n
<1> QED BY <1>3, <1>4

-----------------------------------------------------------------------------
(* Bids and revivals leave the supply alone as well.                        *)
LEMMA CancelBidsOnly ==
  ASSUME NEW s, DOMAIN s = Fields, NEW n, s.ok => n \in Nat
  PROVE  Only(s, CancelBids(s, n), NotSupply)
<1> DEFINE u == CancelBids(s, n)
           k == [loop |-> "bids"]
<1>1. CASE ~s.ok
  <2>1. u = s
    BY <1>1, NoLoop
  <2> QED BY <2>1, OnlySame
<1>2. CASE s.ok
  <2>1. n \in Nat /\ k.loop = "bids"
    BY <1>2
  <2> HIDE DEF k
  <2>2. Runs(u, k, s, n)
    BY <1>2, <2>1, CancelBidRuns
  <2>3. \A t : AnyStep(k, t) = CancelBidStep(t)
    BY <2>1 DEF AnyStep
  <2>4. ASSUME NEW t, DOMAIN t = Fields PROVE Only(t, AnyStep(k, t), NotSupply)
    <3>1. Only(t, Done(t), NotSupply)
      BY <2>4, DoneOnly
    <3>2. \A b : Only(t, cancel_bid(t, b), BidFields)
      BY <2>4, CancelBidStops
    <3>3. \A b : Only(t, cancel_bid(t, b), NotSupply)
      BY <3>2, FieldSets, OnlyMore
    <3> QED BY <2>3, <3>1, <3>3 DEF CancelBidStep
  <2>5. "done" \in NotSupply /\ "hung" \in NotSupply
    BY DEF NotSupply, Fields
  <2> HIDE DEF u
  <2>6. Only(s, u, NotSupply)
    BY <2>1, <2>2, <2>4, <2>5, LoopOnly
  <2> QED BY <2>6 DEF u
<1> QED BY <1>1, <1>2

LEMMA RevivedOnly ==
  ASSUME NEW s, DOMAIN s = Fields, s.ok => IsFiniteSet(s.bids)
  PROVE  Only(s, _cancel_bids_and_revive_mpa(s), NotSupply)
<1> DEFINE n == Cardinality(s.bids) + 1
           u == CancelBids(s, n)
           t == Unsettled(u)
<1>1. _cancel_bids_and_revive_mpa(s) = t
  BY DEF _cancel_bids_and_revive_mpa, CancelBids, Unsettled
<1>2. s.ok => n \in Nat
  <2>1. ASSUME s.ok PROVE Cardinality(s.bids) \in Nat
    BY <2>1, FS_CardinalityType
  <2> QED BY <2>1
<1> HIDE DEF n
<1>3. Only(s, u, NotSupply)
  BY <1>2, CancelBidsOnly
<1> HIDE DEF u
<1>4. DOMAIN u = Fields
  BY <1>3 DEF Only
<1>5. Only(u, t, {"settlement_price", "settlement_fund"})
  BY <1>4, UnsettledIs
<1>6. {"settlement_price", "settlement_fund"} \subseteq NotSupply
  BY DEF NotSupply, Fields
<1> HIDE DEF t
<1>7. Only(u, t, NotSupply)
  BY <1>5, <1>6, OnlyMore
<1> QED BY <1>1, <1>3, <1>7, OnlyBoth

LEMMA ReviveOnly ==
  ASSUME NEW s, Proper(s)
  PROVE  Only(s, revive_bitasset(s), NotSupply)
<1> DEFINE bid == [bidder |-> Issuer, collateral |-> 0]
           unique == \A b \in s.bids : b.bidder # Issuer
           r == Require(s, unique)
           e == execute_bid(r, bid, s.supply, s.settlement_fund)
           z == Require(s, s.settlement_fund = 0)
           x == IF s.supply > 0 THEN e ELSE z
<1>1. revive_bitasset(s) = _cancel_bids_and_revive_mpa(x)
  BY DEF revive_bitasset
<1>2. DOMAIN s = Fields /\ (s.ok => IsFiniteSet(s.bids))
  BY SoundTables DEF Proper
<1>3. Only(s, r, {"ok"}) /\ (r.ok => s.ok)
  BY <1>2, RequireStops DEF Stops
<1>4. Only(s, z, {"ok"}) /\ (z.ok => s.ok)
  BY <1>2, RequireStops DEF Stops
<1> HIDE DEF r, z, bid
<1>5. DOMAIN r = Fields
  BY <1>3 DEF Only
<1>6. Only(r, e, ExecuteFields) /\ Stops(r, e) /\ e.bids = Without(r.bids, bid)
  BY <1>5, ExecuteStops
<1> HIDE DEF e
<1>7. r.bids = s.bids /\ z.bids = s.bids
  BY <1>3, <1>4 DEF Only, Fields
<1>8. e.ok => IsFiniteSet(e.bids)
  <2>1. ASSUME e.ok PROVE IsFiniteSet(s.bids)
    BY <1>2, <1>3, <1>6, <2>1 DEF Stops
  <2>2. e.bids \subseteq s.bids
    BY <1>6, <1>7 DEF Without
  <2> QED BY <2>1, <2>2, FS_Subset
<1>9. Only(s, e, NotSupply)
  <2>1. Only(s, r, NotSupply) /\ Only(r, e, NotSupply)
    BY <1>3, <1>6, FieldSets, OnlyMore
  <2> QED BY <2>1, OnlyBoth
<1>10. Only(s, z, NotSupply)
  BY <1>4, FieldSets, OnlyMore
<1>11. Only(s, x, NotSupply) /\ (x.ok => IsFiniteSet(x.bids))
  BY <1>2, <1>4, <1>7, <1>8, <1>9, <1>10
<1> HIDE DEF x
<1>12. DOMAIN x = Fields
  BY <1>11 DEF Only
<1>13. Only(x, _cancel_bids_and_revive_mpa(x), NotSupply)
  BY <1>11, <1>12, RevivedOnly
<1> QED BY <1>1, <1>11, <1>13, OnlyBoth

LEMMA ProcessBidsOnly ==
  ASSUME NEW s, Proper(s), s.ok, has_settlement(s), process_bids(s).ok
  PROVE  Only(s, process_bids(s), NotSupply)
<1> DEFINE n == Min(Needed(s))
           u == AllBids(s, n)
           t == _cancel_bids_and_revive_mpa(u)
<1>1. DOMAIN s = Fields
  BY DEF Proper
<1>2. process_bids(s) = s \/ (s.feed # none /\ Needed(s) # {} /\ process_bids(s) = t)
  BY DEF process_bids, Needed, AllBids
<1>3. CASE process_bids(s) = s
  BY <1>1, <1>3, OnlySame
<1>4. CASE s.feed # none /\ Needed(s) # {} /\ process_bids(s) = t
  <2>1. Executing(s, u, n, s.supply, s.settlement_fund)
    BY <1>4, AllExecuted
  <2> HIDE DEF u, n
  <2>2. DOMAIN u = Fields /\ (u.ok => Sound(u) /\ Only(s, u, ExecuteFields \cup {"ok"}))
    BY <2>1 DEF Executing, Stops
  <2>3. t.ok => u.ok
    BY <2>2, RevivedIs DEF Stops
  <2>4. u.ok
    BY <1>4, <2>3
  <2>5. Only(s, u, NotSupply)
    <3>1. ExecuteFields \cup {"ok"} \subseteq NotSupply
      BY FieldSets
    <3> QED BY <2>2, <2>4, <3>1, OnlyMore
  <2>6. IsFiniteSet(u.bids)
    BY <2>2, <2>4, SoundTables
  <2>7. Only(u, t, NotSupply)
    BY <2>2, <2>6, RevivedOnly
  <2> HIDE DEF t
  <2> QED BY <1>4, <2>5, <2>7, OnlyBoth
<1> QED BY <1>2, <1>3, <1>4

(* A maintenance resets the volume.                                         *)
LEMMA BitassetsReset ==
  ASSUME NEW s, Proper(s), s.ok, NEW now \in Int, NEW t, t = process_bitassets(s, now), t.ok
  PROVE  t.force_settled_volume = 0 /\ t.supply = s.supply
<1> DEFINE Current(f) == f.time >= now - FeedLifetime
           kept == [p \in Publishers |-> IF Current(s.feeds[p]) THEN s.feeds[p] ELSE NoFeed]
           r == [s EXCEPT !.force_settled_volume = 0, !.feeds = kept]
<1>1. t = IF has_settlement(s) THEN process_bids(r) ELSE r
  BY DEF process_bitassets
<1>2. DOMAIN s = Fields
  BY DEF Proper
<1>3. FeedsAre(s) => kept \in [Publishers -> [time : Int, feed : PriceFeeds \cup {none}]]
  BY DEF FeedsAre, NoFeed
<1> HIDE DEF kept
<1>4. /\ Only(s, r, FeedFields) /\ r.feed = s.feed /\ r.published = s.published /\ r.feeds = kept
      /\ r.force_settled_volume = 0 /\ r.ok = s.ok /\ r.settlement_price = s.settlement_price
      /\ r.supply = s.supply
  BY <1>2 DEF Only, Fields, FeedFields
<1> HIDE DEF r
<1>5. Keeps(s, r)
  <2>1. ASSUME Sound(s) PROVE FeedsAre(r)
    BY <1>3, <1>4, <2>1, SoundFeeds DEF FeedsAre
  <2> QED BY <1>4, <2>1, KeepsFeeds
<1>6. Proper(r) /\ DOMAIN r = Fields
  BY <1>5, KeepsProper, KeepsDomain
<1>7. CASE has_settlement(s)
  <2>1. has_settlement(r) /\ r.ok /\ t = process_bids(r)
    BY <1>1, <1>4, <1>7 DEF has_settlement
  <2>2. Only(r, t, NotSupply)
    BY <1>6, <2>1, ProcessBidsOnly
  <2>3. t.force_settled_volume = r.force_settled_volume /\ t.supply = r.supply
    BY <2>2 DEF Only, NotSupply, Fields
  <2> QED BY <1>4, <2>3
<1> QED BY <1>1, <1>4, <1>7

LEMMA MedianOnly ==
  ASSUME NEW s, DOMAIN s = Fields, NEW now
  PROVE  Only(s, update_median_feeds(s, now), NotVolume)
<1> DEFINE u == [s EXCEPT !.feed = none, !.published = now]
           v == [s EXCEPT !.feed = FeedOf(s, Alive(s, now)), !.published = Since(s, Alive(s, now))]
<1>1. Only(s, u, {"feed", "published"})
  BY DEF Only, Fields
<1>2. Only(s, v, {"feed", "published"})
  BY DEF Only, Fields
<1>3. {"feed", "published"} \subseteq NotVolume
  BY DEF NotVolume, Fields
<1>4. update_median_feeds(s, now) = u \/ update_median_feeds(s, now) = v
  BY MedianFeeds
<1> HIDE DEF u, v
<1> QED BY <1>1, <1>2, <1>3, <1>4, OnlyMore

LEMMA ExpiredFeedsOnly ==
  ASSUME NEW s, Proper(s), NEW now \in Int
  PROVE  Only(s, update_expired_feeds(s, now), NotVolume)
<1> DEFINE u == update_median_feeds(s, now)
<1>1. update_expired_feeds(s, now) = check_call_orders(u, TRUE) \/ update_expired_feeds(s, now) = s
  BY DEF update_expired_feeds
<1>2. DOMAIN s = Fields
  BY DEF Proper
<1>3. Keeps(s, u) /\ Only(s, u, NotVolume)
  BY <1>2, MedianFeedsKeeps, MedianOnly
<1> HIDE DEF u
<1>4. Proper(u)
  BY <1>3, KeepsProper
<1>5. \A enable : Only(u, check_call_orders(u, enable), NotVolume)
  BY <1>4, CheckCallsOnly
<1>6. Only(s, check_call_orders(u, TRUE), NotVolume)
  BY <1>3, <1>5, OnlyBoth
<1> QED BY <1>1, <1>2, <1>6, OnlySame

-----------------------------------------------------------------------------
(* A settlement adds at most what may still be settled.                     *)
LEMMA CancelSettleOnly ==
  ASSUME NEW s, DOMAIN s = Fields, NEW o
  PROVE  Only(s, cancel_settle_order(s, o), NotSupply) /\ Only(s, cancel_settle_order(s, o), NotVolume)
<1>1. Only(s, cancel_settle_order(s, o), {"balance", "ok", "settles"})
  BY CancelSettleStops
<1>2. {"balance", "ok", "settles"} \subseteq NotSupply /\ {"balance", "ok", "settles"} \subseteq NotVolume
  BY FieldSets
<1> QED BY <1>1, <1>2, OnlyMore

LEMMA SameVolume ==
  ASSUME NEW s, NEW t, Only(s, t, NotVolume)
  PROVE  t.force_settled_volume = s.force_settled_volume
BY DEF Only, NotVolume, Fields

LEMMA MatchSettleVolume ==
  ASSUME NEW s, Sound(s), NEW o \in s.settles, NEW c \in s.calls, s.feed # none, NEW most \in Nat
  PROVE  LET t == match_settle(s, o, c, most)
         IN  t.force_settled_volume \in s.force_settled_volume .. s.force_settled_volume + most
<1> DEFINE p == settlement_fill_price(s)
           wanted == Wanted(o, c, most)
           pays == IF wanted = c.debt THEN Max({1, ToQuoteUp(wanted, p)}) ELSE ToQuote(wanted, p)
           receives == IF wanted = c.debt THEN wanted ELSE ToBaseUp(pays, p)
           f == fill_call_order(s, c, pays, receives)
           filled == fill_settle_order(f, o, receives, pays)
           cull == wanted # c.debt /\ wanted = o.balance /\ receives # o.balance
           x == CHOOSE y \in filled.settles : y.id = o.id
           gone == cancel_settle_order(filled, x)
           culled == IF cull THEN gone ELSE filled
           v == [culled EXCEPT !.force_settled_volume = @ + receives]
           w == Unfilled(s, o, wanted)
           t == match_settle(s, o, c, most)
<1>1. t = IF pays > 0 THEN v ELSE w
  BY DEF match_settle
<1>2. DOMAIN s = Fields /\ s.force_settled_volume \in Nat
  BY SoundTables DEF Sound
<1>3. w.force_settled_volume = s.force_settled_volume
  <2>1. Only(s, cancel_settle_order(s, o), NotVolume)
    BY <1>2, CancelSettleOnly
  <2>2. Only(s, Done(s), NotVolume)
    BY <1>2, DoneOnly
  <2>3. \A z : Unfilled(s, o, z) = cancel_settle_order(s, o) \/ Unfilled(s, o, z) = Done(s)
    BY DEF Unfilled
  <2>4. Only(s, w, NotVolume)
    BY <2>1, <2>2, <2>3
  <2> HIDE DEF w
  <2> QED BY <2>4, SameVolume
<1>4. receives \in Nat /\ receives <= most
  <2>1. o.balance \in Nat /\ c.debt \in Nat
    BY SoundTables DEF Settles, Positions, Positive
  <2>2. wanted \in Nat /\ wanted <= most
    BY <2>1, MinOfThree DEF Wanted
  <2>3. p \in Rates
    BY SoundFeed, SettlePriceIs
  <2> DEFINE all == wanted = c.debt
  <2>4. /\ pays = IF all THEN Max({1, ToQuoteUp(wanted, p)}) ELSE ToQuote(wanted, p)
        /\ receives = IF all THEN wanted ELSE ToBaseUp(pays, p)
    OBVIOUS
  <2> HIDE DEF wanted, p, all, pays, receives
  <2>5. pays \in Nat /\ receives \in Nat /\ receives <= wanted
    BY <2>2, <2>3, <2>4, SettleAmounts
  <2> QED BY <2>2, <2>5
<1> HIDE DEF w, t, wanted, pays, receives, cull, p
<1>5. Only(s, f, NotVolume)
  BY <1>2, CallOnly
<1> HIDE DEF f
<1>6. DOMAIN f = Fields
  BY <1>5 DEF Only
<1>7. Only(f, filled, NotVolume)
  <2>1. Only(f, filled, SettleFields)
    BY <1>6, FillSettleStops
  <2>2. SettleFields \subseteq NotVolume
    BY FieldSets
  <2> QED BY <2>1, <2>2, OnlyMore
<1> HIDE DEF filled, x
<1>8. DOMAIN filled = Fields
  BY <1>7 DEF Only
<1>9. Only(filled, gone, NotVolume)
  BY <1>8, CancelSettleOnly
<1> HIDE DEF gone
<1>10. Only(filled, culled, NotVolume)
  BY <1>8, <1>9, OnlySame
<1> HIDE DEF culled
<1>11. culled.force_settled_volume = s.force_settled_volume /\ DOMAIN culled = Fields
  <2>1. Only(s, culled, NotVolume)
    BY <1>5, <1>7, <1>10, OnlyBoth
  <2> QED BY <2>1, SameVolume DEF Only
<1>12. v.force_settled_volume = s.force_settled_volume + receives
  BY <1>11 DEF Fields
<1> HIDE DEF v
<1>13. t.force_settled_volume \in s.force_settled_volume .. s.force_settled_volume + most
  BY <1>1, <1>2, <1>3, <1>4, <1>12
<1> QED BY <1>13 DEF t

(* The volume is what it was, or within the limit.                          *)
LimitedTo(s, t, most) ==
  \/ t.force_settled_volume = s.force_settled_volume
  \/ t.force_settled_volume <= most

LEMMA SettleStepVolume ==
  ASSUME NEW s, Proper(s), s.ok, NEW now, NEW most \in Int
  PROVE  LimitedTo(s, SettleStep(s, now, most), most)
<1> DEFINE o == First(s.settles, LAMBDA x, y : x.date < y.date)
           c == LeastCollateral(s)
           left == most - s.force_settled_volume
           t == SettleStep(s, now, most)
<1>0. Sound(s) /\ DOMAIN s = Fields /\ s.force_settled_volume \in Nat
  BY DEF Proper, Sound
<1>1. \/ t = Done(s) \/ t = Require(s, FALSE) \/ t = cancel_settle_order(s, o)
      \/ /\ s.settles # {} /\ s.feed # none
         /\ ~(s.force_settled_volume >= most) /\ s.calls # {} /\ t = match_settle(s, o, c, left)
  BY DEF SettleStep
<1>2. s.settles # {} => o \in s.settles
  BY <1>0, FirstSettleIs, SoundTables
<1>3. s.calls # {} => c \in s.calls
  BY <1>0, LeastCollateralIs, SoundTables
<1>4. ~(s.force_settled_volume >= most) => left \in Nat /\ s.force_settled_volume + left = most
  BY <1>0
<1> HIDE DEF o, c, left, t
<1>5. /\ Only(s, Done(s), NotVolume) /\ Only(s, Require(s, FALSE), NotVolume)
      /\ Only(s, cancel_settle_order(s, o), NotVolume)
  BY <1>0, DoneOnly, RequireOnly, CancelSettleOnly
<1>6. CASE t = Done(s) \/ t = Require(s, FALSE) \/ t = cancel_settle_order(s, o)
  <2>1. Only(s, t, NotVolume)
    BY <1>5, <1>6
  <2> QED BY <2>1, SameVolume DEF LimitedTo, t
<1>7. CASE /\ s.settles # {} /\ s.feed # none
           /\ ~(s.force_settled_volume >= most) /\ s.calls # {} /\ t = match_settle(s, o, c, left)
  <2> DEFINE z == match_settle(s, o, c, left)
  <2>1. z.force_settled_volume \in s.force_settled_volume .. s.force_settled_volume + left
    BY <1>0, <1>2, <1>3, <1>4, <1>7, MatchSettleVolume
  <2>2. t.force_settled_volume = z.force_settled_volume
    BY <1>7
  <2> HIDE DEF z
  <2>3. t.force_settled_volume <= most
    BY <1>0, <1>4, <1>7, <2>1, <2>2
  <2> QED BY <2>3 DEF LimitedTo, t
<1> QED BY <1>1, <1>6, <1>7

LEMMA SettleAllVolume ==
  ASSUME NEW s, Proper(s), s.ok, NEW now, NEW most \in Int
  PROVE  LimitedTo(s, SettleAll(s, Iterations(s), now, most), most)
<1> DEFINE n == Iterations(s)
           k == [loop |-> "settle", now |-> now, most |-> most]
           u == SettleAll(s, n, now, most)
<1>1. DOMAIN s = Fields /\ n \in Nat
  BY ProperParts DEF Proper
<1>2. k.loop = "settle" /\ k.now = now /\ k.most = most
  OBVIOUS
<1> HIDE DEF n, k
<1>3. Runs(u, k, s, n)
  BY <1>1, <1>2, SettleRuns
<1> HIDE DEF u
<1>4. PICK g : Follows(g, k, s, n) /\ u = Ended(g[n])
  BY <1>3 DEF Runs
<1> DEFINE X == {x \in {g[i] : i \in 0 .. n} : Keeps(s, x) /\ LimitedTo(s, x, most)}
<1>5. g[0] \in X
  <2>1. g[0] = Begun(s) /\ 0 \in 0 .. n
    BY <1>1, <1>4 DEF Follows
  <2>2. Only(s, g[0], {"done"}) /\ Alike(s, g[0])
    BY <1>1, <2>1, BegunIs
  <2>3. Keeps(s, g[0])
    BY <1>1, <2>2, KeepsAlike
  <2>4. LimitedTo(s, g[0], most)
    BY <2>2 DEF Only, Fields, LimitedTo
  <2> QED BY <2>1, <2>3, <2>4
<1>6. ASSUME NEW i \in 1 .. n, g[i - 1] \in X PROVE g[i] \in X
  <2> DEFINE x == g[i - 1]
  <2>1. /\ g[i] = Stepped(k, x) /\ Keeps(s, x) /\ LimitedTo(s, x, most) /\ i \in 0 .. n
    BY <1>4, <1>6 DEF Follows
  <2>2. Proper(x)
    BY <2>1, KeepsProper
  <2> HIDE DEF x
  <2>3. CASE x.done \/ ~x.ok
    <3>1. g[i] = x
      BY <2>1, <2>3 DEF Stepped
    <3> QED BY <2>1, <3>1
  <2>4. CASE ~x.done /\ x.ok
    <3>1. g[i] = SettleStep(x, now, most)
      BY <1>2, <2>1, <2>4 DEF Stepped, AnyStep
    <3>2. DOMAIN x = Fields
      BY <2>2 DEF Proper
    <3>3. Keeps(x, SettleStep(x, now, most))
      BY <3>2, SettleStepKeeps
    <3>4. LimitedTo(x, SettleStep(x, now, most), most)
      BY <2>2, <2>4, SettleStepVolume
    <3>5. Keeps(s, g[i])
      BY <2>1, <3>1, <3>3, KeepsTrans
    <3>6. LimitedTo(s, g[i], most)
      BY <2>1, <3>1, <3>4 DEF LimitedTo
    <3> QED BY <2>1, <3>5, <3>6
  <2> QED BY <2>3, <2>4
<1>7. Keeps(s, g[n]) /\ LimitedTo(s, g[n], most)
  <2> HIDE DEF X
  <2>1. \A i \in 0 .. n : g[i] \in X
    BY <1>1, <1>5, <1>6, StaysIn
  <2> QED BY <1>1, <2>1 DEF X
<1>8. u.force_settled_volume = g[n].force_settled_volume
  <2>1. DOMAIN g[n] = Fields
    BY <1>7 DEF Keeps, Stops
  <2>2. Only(g[n], u, {"hung"})
    BY <1>4, <2>1, EndedIs
  <2> QED BY <2>2 DEF Only, Fields
<1> QED BY <1>7, <1>8 DEF LimitedTo, u, n

-----------------------------------------------------------------------------
(* The end of a block.                                                      *)
LEMMA CancelAllOnly ==
  ASSUME NEW s, Proper(s), NEW now
  PROVE  Only(s, CancelAll(s, Iterations(s), now), NotSupply)
<1> DEFINE n == Iterations(s)
           k == [loop |-> "cancel", now |-> now]
           u == CancelAll(s, n, now)
<1>1. DOMAIN s = Fields /\ (s.ok => n \in Nat)
  BY ProperLoops
<1>2. CASE ~s.ok
  <2>1. u = s
    BY <1>2, NoLoop
  <2> QED BY <1>1, <2>1, OnlySame
<1>3. CASE s.ok
  <2>1. n \in Nat /\ k.loop = "cancel" /\ k.now = now
    BY <1>1, <1>3
  <2> HIDE DEF n, k
  <2>2. Runs(u, k, s, n)
    BY <1>3, <2>1, CancelRuns
  <2>3. ASSUME NEW t, DOMAIN t = Fields PROVE Only(t, AnyStep(k, t), NotSupply)
    <3>1. AnyStep(k, t) = CancelStep(t, now)
      BY <2>1 DEF AnyStep
    <3>2. \A o : Only(t, cancel_limit_order(t, o, TRUE), NotSupply)
      BY <2>3, CancelOnly
    <3>3. Only(t, Done(t), NotSupply)
      BY <2>3, DoneOnly
    <3> QED BY <3>1, <3>2, <3>3 DEF CancelStep
  <2>4. "done" \in NotSupply /\ "hung" \in NotSupply
    BY DEF NotSupply, Fields
  <2> HIDE DEF u
  <2>5. Only(s, u, NotSupply)
    BY <1>1, <2>1, <2>2, <2>3, <2>4, LoopOnly
  <2> QED BY <2>5 DEF u, n
<1> QED BY <1>2, <1>3

LEMMA ClearExpiredVolume ==
  ASSUME NEW s, Proper(s), NEW now, clear_expired_orders(s, now).ok
  PROVE  s.ok /\ LimitedTo(s, clear_expired_orders(s, now), max_force_settlement_volume(s))
<1> DEFINE u == CancelAll(s, Iterations(s), now)
           most == max_force_settlement_volume(s)
           t == SettleAll(u, Iterations(u), now, most)
<1>1. clear_expired_orders(s, now) = t
  BY DEF clear_expired_orders, CancelAll, SettleAll
<1>2. Keeps(s, u) /\ Only(s, u, NotSupply)
  BY CancelAllKeeps, CancelAllOnly
<1>3. Proper(u)
  BY <1>2, KeepsProper
<1> HIDE DEF u
<1>4. u.ok
  <2>1. CASE u.ok
    BY <2>1
  <2>2. CASE ~u.ok
    <3>1. t = u
      BY <2>2, NoLoop
    <3> QED BY <1>1, <3>1
  <2> QED BY <2>1, <2>2
<1>5. s.ok
  BY <1>2, <1>4 DEF Keeps, Stops
<1>6. most \in Int
  <2>1. (s.supply + s.force_settled_volume) * MaxSettlementPercent \in Int
    BY <1>5, OrdersAssumption DEF Proper, Sound
  <2> QED BY <2>1 DEF max_force_settlement_volume
<1>7. u.force_settled_volume = s.force_settled_volume
  BY <1>2 DEF Only, NotSupply, Fields
<1> HIDE DEF most
<1>8. LimitedTo(u, t, most)
  BY <1>3, <1>4, <1>6, SettleAllVolume
<1> HIDE DEF t
<1>9. LimitedTo(s, t, most)
  BY <1>7, <1>8 DEF LimitedTo
<1> QED BY <1>1, <1>5, <1>9 DEF most

(* What a step does to the volume.                                          *)
Limited ==
  market'.force_settled_volume > SettledBefore =>
    100 * market'.force_settled_volume <= MaxSettlementPercent * (market.supply + SettledBefore)

LEMMA HundredTimes ==
  ASSUME NEW k \in Nat
  PROVE  100 * (k \div 100) <= k
OBVIOUS

LEMMA BlockVolume ==
  ASSUME Good(market), head_time \in Int, apply_block
  PROVE  Limited
<1> DEFINE now == head_time + 1
           b == Begin
           q == process_bitassets(b, now)
           every == now % MaintenanceInterval = 0
           m == IF every THEN q ELSE b
           c == clear_expired_orders(m, now)
           s == update_expired_feeds(c, now)
           t == [s EXCEPT !.done = FALSE, !.called = FALSE]
           most == max_force_settlement_volume(m)
<1>1. (market' = IF s.ok THEN t ELSE market) /\ (head_time' = IF s.ok THEN now ELSE head_time)
  BY DEF apply_block
<1>2. now \in Int /\ now # head_time
  OBVIOUS
<1>3. Good(b) /\ Proper(b) /\ b.ok /\ DOMAIN b = Fields /\ Alike(market, b)
  BY BeginIs, GoodParts
<1>4. b.supply = market.supply /\ b.force_settled_volume = market.force_settled_volume
      /\ market.supply \in Nat /\ market.force_settled_volume \in Nat
  <2>1. b.supply = market.supply /\ b.force_settled_volume = market.force_settled_volume
    BY GoodParts DEF Begin, Fields
  <2>2. market.supply \in Nat /\ market.force_settled_volume \in Nat
    BY GoodParts DEF Proper, Sound
  <2> QED BY <2>1, <2>2
<1>5. q = process_bitassets(b, now) /\ m = (IF every THEN q ELSE b) /\ (every <=> now % MaintenanceInterval = 0)
  OBVIOUS
<1>6. c = clear_expired_orders(m, now) /\ s = update_expired_feeds(c, now)
  OBVIOUS
<1> HIDE DEF now, b, q, m, every
<1>7. Keeps(b, q) /\ Keeps(b, b)
  BY <1>2, <1>3, <1>5, ProcessBitassetsKeeps, KeepsRefl
<1>8. Keeps(b, m)
  BY <1>5, <1>7
<1>9. Proper(m)
  BY <1>3, <1>8, KeepsProper
<1>10. Keeps(m, c)
  BY <1>9, ClearExpiredKeeps
<1> HIDE DEF c
<1>11. Proper(c)
  BY <1>9, <1>10, KeepsProper
<1>12. Keeps(c, s) /\ Only(c, s, NotVolume)
  BY <1>2, <1>6, <1>11, ExpiredFeedsKeeps, ExpiredFeedsOnly
<1> HIDE DEF s
<1>13. CASE ~s.ok
  <2>1. market' = market /\ head_time' = head_time
    BY <1>1, <1>13
  <2>2. SettledBefore = market.force_settled_volume
    BY <2>1 DEF SettledBefore
  <2> QED BY <1>4, <2>1, <2>2 DEF Limited
<1>14. CASE s.ok
  <2>1. market' = t /\ head_time' = now
    BY <1>1, <1>14
  <2>2. c.ok /\ m.ok
    BY <1>10, <1>12, <1>14 DEF Keeps, Stops
  <2>3. m.force_settled_volume = SettledBefore /\ m.supply = market.supply /\ SettledBefore \in Nat
    <3>1. CASE every
      <4>1. m = q /\ SettledBefore = 0
        BY <1>2, <1>5, <2>1, <3>1 DEF SettledBefore
      <4>2. q.force_settled_volume = 0 /\ q.supply = b.supply
        BY <1>2, <1>3, <1>5, <2>2, <4>1, BitassetsReset
      <4> QED BY <1>4, <4>1, <4>2
    <3>2. CASE ~every
      <4>1. m = b /\ SettledBefore = market.force_settled_volume
        BY <1>5, <2>1, <3>2 DEF SettledBefore
      <4> QED BY <1>4, <4>1
    <3> QED BY <3>1, <3>2
  <2>4. LimitedTo(m, c, most)
    BY <1>6, <1>9, <2>2, ClearExpiredVolume
  <2>5. t.force_settled_volume = c.force_settled_volume
    <3>1. s.force_settled_volume = c.force_settled_volume /\ DOMAIN s = Fields
      BY <1>12, SameVolume DEF Only
    <3> QED BY <3>1 DEF Fields
  <2> HIDE DEF t
  <2>6. most = ((market.supply + SettledBefore) * MaxSettlementPercent) \div 100
    BY <2>3 DEF max_force_settlement_volume
  <2> HIDE DEF most
  <2>7. 100 * most <= MaxSettlementPercent * (market.supply + SettledBefore) /\ most \in Int
    <3> DEFINE k == (market.supply + SettledBefore) * MaxSettlementPercent
    <3>1. k \in Nat /\ k = MaxSettlementPercent * (market.supply + SettledBefore)
      BY <1>4, <2>3, OrdersAssumption
    <3>2. most = k \div 100
      BY <2>6
    <3> HIDE DEF k
    <3>3. 100 * most <= k /\ most \in Int
      BY <3>1, <3>2, HundredTimes
    <3> QED BY <3>1, <3>3
  <2>8. c.force_settled_volume \in Nat
    BY <1>11, <2>2 DEF Proper, Sound
  <2>9. CASE c.force_settled_volume = m.force_settled_volume
    <3>1. market'.force_settled_volume = SettledBefore
      BY <2>1, <2>3, <2>5, <2>9
    <3> QED BY <2>3, <3>1 DEF Limited
  <2>10. CASE c.force_settled_volume <= most
    <3>1. market'.force_settled_volume = c.force_settled_volume
      BY <2>1, <2>5
    <3>2. 100 * c.force_settled_volume <= 100 * most
      BY <2>7, <2>8, <2>10
    <3>3. MaxSettlementPercent * (market.supply + SettledBefore) \in Int
      BY <1>4, <2>3, OrdersAssumption
    <3>4. 100 * c.force_settled_volume <= MaxSettlementPercent * (market.supply + SettledBefore)
      BY <2>7, <2>8, <3>2, <3>3
    <3> QED BY <3>1, <3>4 DEF Limited
  <2> QED BY <2>4, <2>9, <2>10 DEF LimitedTo
<1> QED BY <1>13, <1>14

-----------------------------------------------------------------------------
(* An operation leaves the volume alone.                                    *)
LEMMA SameIsLimited ==
  ASSUME Good(market), head_time' = head_time,
         market'.force_settled_volume = market.force_settled_volume
  PROVE  Limited
<1>1. market.force_settled_volume \in Nat
  BY GoodParts DEF Sound
<1>2. SettledBefore = market.force_settled_volume
  BY DEF SettledBefore
<1> QED BY <1>1, <1>2 DEF Limited

LEMMA AppliedVolume ==
  ASSUME Good(market), NEW s, Apply(s), Only(Begin, s, NotVolume)
  PROVE  Limited
<1>1. market' = [s EXCEPT !.done = FALSE, !.called = FALSE] /\ head_time' = head_time
  BY DEF Apply
<1>2. DOMAIN s = Fields /\ s.force_settled_volume = Begin.force_settled_volume
  BY SameVolume DEF Only
<1>3. Begin.force_settled_volume = market.force_settled_volume
  BY GoodParts DEF Begin, Fields
<1>4. market'.force_settled_volume = s.force_settled_volume
  BY <1>1, <1>2 DEF Fields
<1> QED BY <1>1, <1>2, <1>3, <1>4, SameIsLimited

LEMMA CancelVolume ==
  ASSUME Good(market), NEW o \in market.limits, limit_order_cancel(o)
  PROVE  Limited
<1> DEFINE t == cancel_limit_order(Begin, o, FALSE)
<1>1. DOMAIN Begin = Fields /\ Apply(t)
  BY BeginIs, GoodParts DEF limit_order_cancel
<1>2. Only(Begin, t, NotVolume)
  BY <1>1, CancelOnly
<1> HIDE DEF t
<1> QED BY <1>1, <1>2, AppliedVolume

LEMMA GlobalSettleVolume ==
  ASSUME Good(market), NEW p \in SettlePrices, asset_global_settle(p)
  PROVE  Limited
<1>1. Proper(Begin) /\ Apply(globally_settle_asset(Begin, p))
  BY BeginIs, GoodParts DEF asset_global_settle
<1>2. Only(Begin, globally_settle_asset(Begin, p), NotVolume)
  BY <1>1, ProperLoops, GlobalOnly
<1> QED BY <1>1, <1>2, AppliedVolume

LEMMA PublishVolume ==
  ASSUME Good(market), head_time \in Int, NEW p \in Publishers, NEW f \in Feeds, publish_feed(p, f)
  PROVE  Limited
<1> DEFINE b == Begin
           n == [b EXCEPT !.feeds[p] = [time |-> head_time, feed |-> f]]
           s == update_median_feeds(n, head_time)
           fund == call_price(s.supply, s.settlement_fund, s.feed.mcr)
           must == /\ has_settlement(s) /\ s.feed # none
                   /\ s.supply = 0 \/ Below(Inverted(fund), s.feed.price)
           v == revive_bitasset(s)
           revived == IF must THEN v ELSE s
           c == check_call_orders(revived, TRUE)
           r == IF s.feed = b.feed THEN s ELSE c
<1>1. Apply(r)
  BY DEF publish_feed
<1>2. Good(b) /\ DOMAIN b = Fields /\ b.ok /\ Sound(b) /\ Proper(b)
  BY BeginIs, GoodParts
<1>2a. b = Begin
  OBVIOUS
<1>3. must => has_settlement(s) /\ s.feed # none
  OBVIOUS
<1> HIDE DEF b, must
<1>4. Only(b, n, {"feeds"}) /\ n.ok = b.ok
      /\ n.feeds = [b.feeds EXCEPT ![p] = [time |-> head_time, feed |-> f]]
  BY <1>2 DEF Only, Fields
<1> HIDE DEF n
<1>5. Only(b, n, FeedFields) /\ Only(b, n, NotVolume)
  <2>1. {"feeds"} \subseteq FeedFields /\ {"feeds"} \subseteq NotVolume
    BY DEF FeedFields, NotVolume, Fields
  <2> QED BY <1>4, <2>1, OnlyMore
<1>6. FeedsAre(n)
  <2>1. FeedsAre(b)
    BY <1>2, SoundFeeds
  <2>2. f \in PriceFeeds
    BY MarketAssumption
  <2>3. n.feed = b.feed /\ n.published = b.published /\ n.force_settled_volume = b.force_settled_volume
    BY <1>4 DEF Only, Fields
  <2> QED BY <1>4, <2>1, <2>2, <2>3 DEF FeedsAre
<1>7. Keeps(b, n)
  BY <1>5, <1>6, KeepsFeeds
<1>8. Proper(n) /\ DOMAIN n = Fields /\ n.ok
  BY <1>2, <1>4, <1>7, KeepsProper, KeepsDomain
<1>9. Keeps(n, s) /\ Only(n, s, FeedFields) /\ Only(n, s, NotVolume)
  BY <1>8, MedianFeedsKeeps, MedianOnly
<1> HIDE DEF s
<1>10. Proper(s) /\ DOMAIN s = Fields /\ s.ok
  <2>1. s.ok = n.ok
    BY <1>9 DEF Only, Fields, FeedFields
  <2> QED BY <1>8, <1>9, <2>1, KeepsProper, KeepsDomain
<1>11. Keeps(s, revived) /\ Only(s, revived, NotVolume)
  <2>1. must => Keeps(s, v)
    BY <1>3, <1>10, ReviveKeeps
  <2>2. Keeps(s, s) /\ Only(s, s, NotVolume)
    BY <1>10, KeepsRefl, OnlySame
  <2>3. Only(s, v, NotSupply)
    BY <1>10, ReviveOnly
  <2> HIDE DEF v
  <2>4. Only(s, v, NotVolume)
    BY <2>3, FieldSets, OnlyMore
  <2> QED BY <2>1, <2>2, <2>4
<1> HIDE DEF revived
<1>12. Proper(revived)
  BY <1>10, <1>11, KeepsProper
<1>13. \A enable : Only(revived, check_call_orders(revived, enable), NotVolume)
  BY <1>12, CheckCallsOnly
<1>14. Only(revived, c, NotVolume)
  BY <1>13
<1> HIDE DEF c
<1>15. Only(b, s, NotVolume) /\ Only(b, c, NotVolume)
  BY <1>5, <1>9, <1>11, <1>14, OnlyBoth
<1>16. Only(b, r, NotVolume)
  BY <1>15
<1> HIDE DEF r
<1> QED BY <1>1, <1>2a, <1>16, AppliedVolume

LEMMA SettleVolume ==
  ASSUME Good(market), NEW a, NEW n, asset_settle(a, n)
  PROVE  Limited
<1> DEFINE s == Begin
           amount == IF n = s.supply THEN s.settlement_fund ELSE ToQuote(n, s.settlement_price)
           pays == Redeemed(s, n, amount)
           u == adjust_balance(s, a, "mia", -pays)
           v == adjust_balance(u, a, "core", amount)
           t == [v EXCEPT !.settlement_fund = @ - amount, !.supply = @ - pays]
           w == adjust_balance(s, a, "mia", -n)
           z == [w EXCEPT !.settles = @ \cup {NewSettle(@, a, n, head_time + SettlementDelay)}]
<1>1. Apply(t) \/ Apply(z)
  BY DEF asset_settle, NewSettle
<1>2. DOMAIN s = Fields /\ s = Begin
  BY BeginIs, GoodParts
<1> HIDE DEF s, amount, pays
<1>3. Only(s, u, NotVolume)
  BY <1>2, AdjustOnly
<1> HIDE DEF u
<1>4. DOMAIN u = Fields
  BY <1>3 DEF Only
<1>5. Only(u, v, NotVolume)
  BY <1>4, AdjustOnly
<1> HIDE DEF v
<1>6. DOMAIN v = Fields
  BY <1>5 DEF Only
<1>7. Only(v, t, {"settlement_fund", "supply"})
  BY <1>6 DEF Only, Fields
<1> HIDE DEF t
<1>8. Only(v, t, NotVolume)
  <2>1. {"settlement_fund", "supply"} \subseteq NotVolume
    BY DEF NotVolume, Fields
  <2> QED BY <1>7, <2>1, OnlyMore
<1>9. Only(s, t, NotVolume)
  BY <1>3, <1>5, <1>8, OnlyBoth
<1>10. Only(s, w, NotVolume)
  BY <1>2, AdjustOnly
<1> HIDE DEF w
<1>11. DOMAIN w = Fields
  BY <1>10 DEF Only
<1>12. Only(w, z, {"settles"})
  BY <1>11 DEF Only, Fields
<1> HIDE DEF z
<1>13. Only(w, z, NotVolume)
  <2>1. {"settles"} \subseteq NotVolume
    BY DEF NotVolume, Fields
  <2> QED BY <1>12, <2>1, OnlyMore
<1>14. Only(s, z, NotVolume)
  BY <1>10, <1>13, OnlyBoth
<1> QED BY <1>1, <1>2, <1>9, <1>14, AppliedVolume

LEMMA BidVolume ==
  ASSUME Good(market), NEW a, NEW op, bid_collateral(a, op)
  PROVE  Limited
<1> DEFINE e == AfterEarlier(a)
           u == adjust_balance(e, a, "core", -op.collateral)
           t == [u EXCEPT !.bids = @ \cup {NewBid(e, a, op)}]
<1>1. Apply(e) \/ Apply(t)
  BY DEF bid_collateral, AfterEarlier, Earlier, NewBid
<1>2. DOMAIN Begin = Fields
  BY BeginIs, GoodParts
<1>3. Only(Begin, e, NotVolume)
  <2>1. \A b : Only(Begin, cancel_bid(Begin, b), BidFields)
    BY <1>2, CancelBidStops
  <2>2. BidFields \subseteq NotVolume
    BY FieldSets
  <2>3. \A b : Only(Begin, cancel_bid(Begin, b), NotVolume)
    BY <2>1, <2>2, OnlyMore
  <2>4. Only(Begin, Begin, NotVolume)
    BY <1>2, OnlySame
  <2> QED BY <2>3, <2>4 DEF AfterEarlier
<1> HIDE DEF e
<1>4. DOMAIN e = Fields
  BY <1>3 DEF Only
<1>5. Only(e, u, NotVolume)
  BY <1>4, AdjustOnly
<1> HIDE DEF u
<1>6. DOMAIN u = Fields
  BY <1>5 DEF Only
<1>7. Only(u, t, {"bids"})
  BY <1>6 DEF Only, Fields
<1> HIDE DEF t
<1>8. Only(u, t, NotVolume)
  <2>1. {"bids"} \subseteq NotVolume
    BY DEF NotVolume, Fields
  <2> QED BY <1>7, <2>1, OnlyMore
<1>9. Only(Begin, t, NotVolume)
  BY <1>3, <1>5, <1>8, OnlyBoth
<1> QED BY <1>1, <1>3, <1>9, AppliedVolume

-----------------------------------------------------------------------------
LEMMA CallVolume ==
  ASSUME Good(market), NEW a \in Accounts, NEW op \in CallUpdates, call_order_update(a, op)
  PROVE  Limited
<1> DEFINE s == Begin
           old == OldCalls(s, a)
           o == Prior(s, a)
           u == adjust_balance(s, a, "mia", op.debt)
           v == adjust_balance(u, a, "core", -op.collateral)
           moved == [v EXCEPT !.supply = @ + op.debt, !.core_in_orders[a] = @ + op.collateral]
           closed == [moved EXCEPT !.calls = @ \ old]
           updated == [moved EXCEPT !.calls = (@ \ old) \cup {NewCall(s, a, o, op)}]
           c == check_call_orders(updated, FALSE)
           debt == o.debt + op.debt
           collateral == o.collateral + op.collateral
<1>1. /\ ~has_settlement(s) /\ s.feed # none
      /\ old = {} => op.debt > 0 /\ op.collateral > 0
      /\ \/ debt = 0 /\ collateral = 0 /\ Apply(closed)
         \/ debt > 0 /\ collateral > 0 /\ Apply(c)
  BY DEF call_order_update, OldCalls, Prior, NewCall
<1>2. Good(s) /\ s = Begin
  BY BeginIs
<1>3. op.debt \in Int /\ op.collateral \in Int
  BY MarketAssumption
<1>4. o = Prior(s, a) /\ old = OldCalls(s, a)
  OBVIOUS
<1> HIDE DEF s
<1>5. Sound(s) /\ DOMAIN s = Fields
  BY <1>2, GoodParts
<1>6. Stops(s, u) /\ Only(s, u, {"balance", "ok"}) /\ Only(s, u, NotVolume)
  BY <1>5, AdjustStops, AdjustOnly
<1>7. Stops(u, v) /\ Only(u, v, {"balance", "ok"}) /\ Only(u, v, NotVolume)
  BY <1>6, AdjustStops, AdjustOnly DEF Stops
<1>8. DOMAIN v = Fields /\ v.calls = s.calls
  BY <1>6, <1>7 DEF Stops, Only, Fields
<1>9. u = adjust_balance(s, a, "mia", op.debt) /\ v = adjust_balance(u, a, "core", -op.collateral)
  OBVIOUS
<1> HIDE DEF u, v
<1> DEFINE N == s.calls \ old
           U == (s.calls \ old) \cup {NewCall(s, a, o, op)}
<1>10. closed = Shifted(v, a, op, N)
  BY <1>8 DEF Shifted, Fields
<1>11. updated = Shifted(v, a, op, U)
  BY <1>8 DEF Shifted, Fields
<1> HIDE DEF old, o
<1>12. c = check_call_orders(updated, FALSE)
  OBVIOUS
<1> HIDE DEF closed, updated, moved, U, N
<1>13. Only(s, closed, NotVolume) /\ Only(s, updated, NotVolume)
  <2>1. {"supply", "core_in_orders", "calls"} \subseteq NotVolume
    BY DEF NotVolume, Fields
  <2>2. \A K, t : t = Shifted(v, a, op, K) => Only(v, t, {"supply", "core_in_orders", "calls"})
    BY <1>8, ShiftedIs
  <2>3. \A K, t : t = Shifted(v, a, op, K) => Only(v, t, NotVolume)
    BY <2>1, <2>2, OnlyMore
  <2>4. Only(v, closed, NotVolume) /\ Only(v, updated, NotVolume)
    BY <1>10, <1>11, <2>3
  <2> QED BY <1>6, <1>7, <2>4, OnlyBoth
<1>14. CASE Apply(closed)
  BY <1>2, <1>13, <1>14, AppliedVolume
<1>15. CASE debt > 0 /\ collateral > 0 /\ Apply(c)
  <2>1. Shifts(s.calls, U, a, op.debt, op.collateral)
    BY <1>1, <1>3, <1>4, <1>5, <1>15, CallShifts DEF U
  <2>2. Proper(updated)
    BY <1>1, <1>2, <1>3, <1>9, <1>11, <2>1, ShiftedGood
  <2>3. \A enable : Only(updated, check_call_orders(updated, enable), NotVolume)
    BY <2>2, CheckCallsOnly
  <2>4. Only(updated, c, NotVolume)
    BY <1>12, <2>3
  <2> HIDE DEF c
  <2>5. Only(s, c, NotVolume)
    BY <1>13, <2>4, OnlyBoth
  <2> QED BY <1>2, <1>15, <2>5, AppliedVolume
<1> QED BY <1>1, <1>14, <1>15

LEMMA CreateVolume ==
  ASSUME Good(market), head_time \in Int, NEW a \in Accounts, NEW op \in LimitOrders,
         limit_order_create(a, op)
  PROVE  Limited
<1> DEFINE p == FromPooled(op)
           y == NewOrder(a, op)
           u == adjust_balance(p, a, op.sells, -op.price.base)
           t == [u EXCEPT !.core_in_orders[a] = @ + IF op.sells = "core" THEN op.price.base ELSE 0,
                          !.limits = @ \cup {y}]
           c == apply_order(t, y.id)
           r == adjust_balance(c, a, op.fee, IF op.fee = "core" THEN -OrderFee ELSE -FeePaid(op))
<1>1. p.fee_pool >= 0 /\ Apply(r)
  BY DEF limit_order_create, FromPooled, FeeDeferred, FeePaid, NewOrder
<1>2. Only(Begin, p, {"fee_pool"}) /\ p.fee_pool = Begin.fee_pool - FromPool(op)
  BY FromPooledIs
<1>3. y.seller = a /\ y.sells = op.sells /\ y.for_sale = op.price.base
  BY NewOrderIs
<1> HIDE DEF p
<1>4. y = NewOrder(a, op)
  OBVIOUS
<1> HIDE DEF y
<1>5. t = Created(u, y)
  BY <1>3 DEF Created
<1>6. u = adjust_balance(p, a, op.sells, -op.price.base)
  OBVIOUS
<1>7. Only(Begin, p, NotVolume) /\ DOMAIN p = Fields
  <2>1. {"fee_pool"} \subseteq NotVolume
    BY DEF NotVolume, Fields
  <2>2. Only(Begin, p, NotVolume)
    BY <1>2, <2>1, OnlyMore
  <2> QED BY <1>2, <2>2 DEF Only
<1>8. Only(p, u, NotVolume)
  BY <1>7, AdjustOnly
<1> HIDE DEF u
<1>9. Only(u, t, NotVolume)
  <2>1. DOMAIN u = Fields
    BY <1>8 DEF Only
  <2>2. Only(u, t, {"core_in_orders", "limits"})
    BY <2>1 DEF Only, Fields
  <2>3. {"core_in_orders", "limits"} \subseteq NotVolume
    BY DEF NotVolume, Fields
  <2> HIDE DEF t
  <2> QED BY <2>2, <2>3, OnlyMore
<1> HIDE DEF t
<1>10. Proper(t)
  BY <1>1, <1>2, <1>4, <1>5, <1>6, CreatedBooks
<1>11. Only(t, c, NotVolume)
  BY <1>10, ProperLoops, ApplyOrderOnly
<1> HIDE DEF c
<1>12. DOMAIN c = Fields
  BY <1>11 DEF Only
<1>13. Only(c, r, NotVolume)
  BY <1>12, AdjustOnly
<1> HIDE DEF r
<1>14. Only(Begin, r, NotVolume)
  BY <1>7, <1>8, <1>9, <1>11, <1>13, OnlyBoth
<1> QED BY <1>1, <1>14, AppliedVolume

LEMMA StepLimited ==
  ASSUME IInv, Next
  PROVE  Limited
<1>1. Good(market) /\ head_time \in Int
  BY DEF IInv
<1>2. ASSUME NEW a \in Accounts, NEW op \in LimitOrders, limit_order_create(a, op) PROVE Limited
  BY <1>1, <1>2, CreateVolume
<1>3. ASSUME NEW a \in Accounts, NEW op \in CallUpdates, call_order_update(a, op) PROVE Limited
  BY <1>1, <1>3, CallVolume
<1>4. ASSUME NEW a \in Accounts, NEW n \in Settlements, asset_settle(a, n) PROVE Limited
  BY <1>1, <1>4, SettleVolume
<1>5. ASSUME NEW a \in Accounts, NEW op \in Bids, bid_collateral(a, op) PROVE Limited
  BY <1>1, <1>5, BidVolume
<1>6. ASSUME NEW o \in market.limits, limit_order_cancel(o) PROVE Limited
  BY <1>1, <1>6, CancelVolume
<1>7. ASSUME NEW p \in Publishers, NEW f \in Feeds, publish_feed(p, f) PROVE Limited
  BY <1>1, <1>7, PublishVolume
<1>8. ASSUME NEW p \in SettlePrices, asset_global_settle(p) PROVE Limited
  BY <1>1, <1>8, GlobalSettleVolume
<1>9. CASE apply_block
  BY <1>1, <1>9, BlockVolume
<1> QED BY <1>2, <1>3, <1>4, <1>5, <1>6, <1>7, <1>8, <1>9 DEF Next

(* What clear_expired_orders settles by force in a block, with what was     *)
(* settled before it in the maintenance interval, is never more than        *)
(* max_force_settlement_volume of the supply before the block, whatever the *)
(* amounts are rounded to; no operation and no margin call settles any.     *)
THEOREM VolumeLimitedHolds == Spec => VolumeLimited
<1>1. IInv /\ [Next]_vars => [Limited]_vars
  BY StepLimited
<1>2. Spec => [][Limited]_vars
  BY <1>1, InitBooks, StepKeepsBooks, PTL DEF Spec
<1> QED BY <1>2 DEF VolumeLimited, Limited
=============================================================================
