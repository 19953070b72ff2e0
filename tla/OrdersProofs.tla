---------------------------- MODULE OrdersProofs ----------------------------
(***************************************************************************)
(* Lemmas about the objects of the market and the operators of Orders, for *)
(* any accounts, fees, orders and positions: what sums over tables are,    *)
(* what rounding takes, and that fills, cancellations, margin calls, a     *)
(* global settlement and a new order, with their loops, keep the books.    *)
(***************************************************************************)
EXTENDS Market, SumsProofs

-----------------------------------------------------------------------------
(* What the tables add up to when an object leaves or comes. *)
With(S, y) == S \cup {y}

LEMMA TableGone ==
  ASSUME NEW S, NEW T, Table(S, T), NEW o \in S
  PROVE  Table(Without(S, o), T) /\ IsFiniteSet(S) /\ S \subseteq T
         /\ \A x \in Without(S, o) : x \in S /\ x.id # o.id
<1>1. IsFiniteSet(S \ {o})
  BY FS_RemoveElement DEF Table
<1> QED BY <1>1 DEF Table, Unique, Without

LEMMA TableNew ==
  ASSUME NEW S, NEW T, Table(S, T), NEW y \in T, \A x \in S : x.id # y.id
  PROVE  Table(With(S, y), T) /\ y \notin S /\ IsFiniteSet(S) /\ S \subseteq T
<1>1. IsFiniteSet(S \cup {y})
  BY FS_AddElement DEF Table
<1> QED BY <1>1 DEF Table, Unique, With

LEMMA SumGone ==
  ASSUME NEW S, IsFiniteSet(S), NEW f \in [S -> Int], NEW o \in S,
         NEW e \in [Without(S, o) -> Int], \A x \in Without(S, o) : e[x] = f[x]
  PROVE  SumFunction(f) \in Int /\ SumFunction(e) = SumFunction(f) - f[o]
BY SumWithout

LEMMA SumNew ==
  ASSUME NEW S, IsFiniteSet(S), NEW y, y \notin S, NEW f \in [S -> Int],
         NEW e \in [With(S, y) -> Int], \A x \in S : e[x] = f[x]
  PROVE  SumFunction(f) \in Int /\ SumFunction(e) = SumFunction(f) + e[y]
<1> DEFINE D == With(S, y)
<1>1. IsFiniteSet(D)
  BY FS_AddElement DEF With
<1>2. y \in D /\ Without(D, y) = S
  BY DEF With, Without
<1>0. e \in [D -> Int]
  OBVIOUS
<1> HIDE DEF D
<1>3. SumFunction(e) \in Int /\ SumFunction(f) = SumFunction(e) - e[y]
  BY <1>0, <1>1, <1>2, SumWithout
<1>4. e[y] \in Int
  BY <1>0, <1>2
<1> QED BY <1>3, <1>4

LEMMA TotalGone ==
  ASSUME NEW S, IsFiniteSet(S), NEW field, \A x \in S : x[field] \in Int, NEW o \in S
  PROVE  /\ Total(S, field) \in Int
         /\ Total(Without(S, o), field) = Total(S, field) - o[field]
<1> DEFINE f == [x \in S |-> x[field]]
           e == [x \in Without(S, o) |-> x[field]]
<1>1. f \in [S -> Int] /\ e \in [Without(S, o) -> Int] /\ f[o] = o[field]
      /\ \A x \in Without(S, o) : e[x] = f[x]
  BY DEF Without
<1>2. Total(S, field) = SumFunction(f) /\ Total(Without(S, o), field) = SumFunction(e)
  BY DEF Total
<1> HIDE DEF e, f
<1> QED BY <1>1, <1>2, SumGone

LEMMA TotalNew ==
  ASSUME NEW S, IsFiniteSet(S), NEW field, \A x \in S : x[field] \in Int,
         NEW y, y[field] \in Int, y \notin S
  PROVE  /\ Total(S, field) \in Int
         /\ Total(With(S, y), field) = Total(S, field) + y[field]
<1> DEFINE f == [x \in S |-> x[field]]
           e == [x \in With(S, y) |-> x[field]]
<1>1. f \in [S -> Int] /\ e \in [With(S, y) -> Int] /\ e[y] = y[field]
      /\ \A x \in S : e[x] = f[x]
  BY DEF With
<1>2. Total(S, field) = SumFunction(f) /\ Total(With(S, y), field) = SumFunction(e)
  BY DEF Total
<1> HIDE DEF e, f
<1> QED BY <1>1, <1>2, SumNew

LEMMA TotalNat ==
  ASSUME NEW S, IsFiniteSet(S), NEW field, \A x \in S : x[field] \in Nat
  PROVE  Total(S, field) \in Nat /\ \A x \in S : x[field] <= Total(S, field)
<1> DEFINE f == [x \in S |-> x[field]]
<1>1. f \in [S -> Nat] /\ \A x \in S : f[x] = x[field]
  OBVIOUS
<1>2. Total(S, field) = SumFunction(f)
  BY DEF Total
<1> HIDE DEF f
<1> QED BY <1>1, <1>2, SumOfNats

LEMMA TotalNone == \A field : Total({}, field) = 0
<1>1. SUFFICES ASSUME NEW field PROVE Total({}, field) = 0
  OBVIOUS
<1>2. [x \in {} |-> x[field]] \in [{} -> Int]
  OBVIOUS
<1> QED BY <1>2, SumOfNothing DEF Total

(* What an order counts for in ForSale and OfOrders, and a position in     *)
(* OfPositions.                                                            *)
Sold(o, x) == IF o.sells = x THEN o.for_sale ELSE 0
InOrder(o, a) == IF o.sells = "core" /\ o.seller = a THEN o.for_sale ELSE 0
InPosition(c, a) == IF c.borrower = a THEN c.collateral ELSE 0

LEMMA LimitGone ==
  ASSUME NEW L, Table(L, Limits), NEW o \in L
  PROVE  LET R == Without(L, o) IN
         /\ Table(R, Limits)
         /\ \A x \in Assets : /\ ForSale(L, x) \in Int
                             /\ ForSale(R, x) = ForSale(L, x) - Sold(o, x)
         /\ \A a \in Accounts : /\ OfOrders(L, a) \in Int
                               /\ OfOrders(R, a) = OfOrders(L, a) - InOrder(o, a)
         /\ Total(L, "deferred_fee") \in Int /\ Total(L, "deferred_paid_fee") \in Int
         /\ Total(R, "deferred_fee") = Total(L, "deferred_fee") - o.deferred_fee
         /\ Total(R, "deferred_paid_fee") = Total(L, "deferred_paid_fee") - o.deferred_paid_fee
<1> DEFINE R == Without(L, o)
<1>1. Table(R, Limits) /\ IsFiniteSet(L) /\ L \subseteq Limits
  BY TableGone
<1>2. \A x \in L : /\ x.for_sale \in Int /\ x.deferred_fee \in Int /\ x.deferred_paid_fee \in Int
                  /\ x["deferred_fee"] \in Int /\ x["deferred_paid_fee"] \in Int
  BY <1>1 DEF Limits, Positive
<1>3. R \subseteq L
  BY DEF Without
<1> HIDE DEF R
<1>4. ASSUME NEW x \in Assets
      PROVE  ForSale(L, x) \in Int /\ ForSale(R, x) = ForSale(L, x) - Sold(o, x)
  <2> DEFINE f == [y \in L |-> IF y.sells = x THEN y.for_sale ELSE 0]
             e == [y \in R |-> IF y.sells = x THEN y.for_sale ELSE 0]
  <2>1. f \in [L -> Int] /\ e \in [R -> Int] /\ f[o] = Sold(o, x) /\ \A y \in R : e[y] = f[y]
    BY <1>2, <1>3 DEF Sold
  <2>2. ForSale(L, x) = SumFunction(f) /\ ForSale(R, x) = SumFunction(e)
    BY DEF ForSale
  <2> HIDE DEF e, f
  <2> QED BY <1>1, <2>1, <2>2, SumGone DEF R
<1>5. ASSUME NEW a \in Accounts
      PROVE  OfOrders(L, a) \in Int /\ OfOrders(R, a) = OfOrders(L, a) - InOrder(o, a)
  <2> DEFINE f == [y \in L |-> IF y.sells = "core" /\ y.seller = a THEN y.for_sale ELSE 0]
             e == [y \in R |-> IF y.sells = "core" /\ y.seller = a THEN y.for_sale ELSE 0]
  <2>1. f \in [L -> Int] /\ e \in [R -> Int] /\ f[o] = InOrder(o, a) /\ \A y \in R : e[y] = f[y]
    BY <1>2, <1>3 DEF InOrder
  <2>2. OfOrders(L, a) = SumFunction(f) /\ OfOrders(R, a) = SumFunction(e)
    BY DEF OfOrders
  <2> HIDE DEF e, f
  <2> QED BY <1>1, <2>1, <2>2, SumGone DEF R
<1>6. /\ Total(L, "deferred_fee") \in Int
      /\ Total(R, "deferred_fee") = Total(L, "deferred_fee") - o["deferred_fee"]
  BY <1>1, <1>2, TotalGone DEF R
<1>7. /\ Total(L, "deferred_paid_fee") \in Int
      /\ Total(R, "deferred_paid_fee") = Total(L, "deferred_paid_fee") - o["deferred_paid_fee"]
  BY <1>1, <1>2, TotalGone DEF R
<1> QED BY <1>1, <1>4, <1>5, <1>6, <1>7 DEF R

LEMMA LimitNew ==
  ASSUME NEW L, Table(L, Limits), NEW y \in Limits, \A x \in L : x.id # y.id
  PROVE  LET N == With(L, y) IN
         /\ Table(N, Limits)
         /\ \A x \in Assets : /\ ForSale(L, x) \in Int
                             /\ ForSale(N, x) = ForSale(L, x) + Sold(y, x)
         /\ \A a \in Accounts : /\ OfOrders(L, a) \in Int
                               /\ OfOrders(N, a) = OfOrders(L, a) + InOrder(y, a)
         /\ Total(L, "deferred_fee") \in Int /\ Total(L, "deferred_paid_fee") \in Int
         /\ Total(N, "deferred_fee") = Total(L, "deferred_fee") + y.deferred_fee
         /\ Total(N, "deferred_paid_fee") = Total(L, "deferred_paid_fee") + y.deferred_paid_fee
<1> DEFINE N == With(L, y)
<1>1. Table(N, Limits) /\ y \notin L /\ IsFiniteSet(L) /\ L \subseteq Limits
  BY TableNew
<1>2. \A x \in N : /\ x.for_sale \in Int /\ x.deferred_fee \in Int /\ x.deferred_paid_fee \in Int
                  /\ x["deferred_fee"] \in Int /\ x["deferred_paid_fee"] \in Int
  BY <1>1 DEF Limits, Positive, With
<1>3. L \subseteq N /\ y \in N
  BY DEF With
<1> HIDE DEF N
<1>4. ASSUME NEW x \in Assets
      PROVE  ForSale(L, x) \in Int /\ ForSale(N, x) = ForSale(L, x) + Sold(y, x)
  <2> DEFINE f == [o \in L |-> IF o.sells = x THEN o.for_sale ELSE 0]
             e == [o \in N |-> IF o.sells = x THEN o.for_sale ELSE 0]
  <2>1. f \in [L -> Int] /\ e \in [N -> Int] /\ e[y] = Sold(y, x) /\ \A o \in L : e[o] = f[o]
    BY <1>2, <1>3 DEF Sold
  <2>2. ForSale(L, x) = SumFunction(f) /\ ForSale(N, x) = SumFunction(e)
    BY DEF ForSale
  <2> HIDE DEF e, f
  <2> QED BY <1>1, <2>1, <2>2, SumNew DEF N
<1>5. ASSUME NEW a \in Accounts
      PROVE  OfOrders(L, a) \in Int /\ OfOrders(N, a) = OfOrders(L, a) + InOrder(y, a)
  <2> DEFINE f == [o \in L |-> IF o.sells = "core" /\ o.seller = a THEN o.for_sale ELSE 0]
             e == [o \in N |-> IF o.sells = "core" /\ o.seller = a THEN o.for_sale ELSE 0]
  <2>1. f \in [L -> Int] /\ e \in [N -> Int] /\ e[y] = InOrder(y, a) /\ \A o \in L : e[o] = f[o]
    BY <1>2, <1>3 DEF InOrder
  <2>2. OfOrders(L, a) = SumFunction(f) /\ OfOrders(N, a) = SumFunction(e)
    BY DEF OfOrders
  <2> HIDE DEF e, f
  <2> QED BY <1>1, <2>1, <2>2, SumNew DEF N
<1>6. /\ Total(L, "deferred_fee") \in Int
      /\ Total(N, "deferred_fee") = Total(L, "deferred_fee") + y["deferred_fee"]
  BY <1>1, <1>2, <1>3, TotalNew DEF N
<1>7. /\ Total(L, "deferred_paid_fee") \in Int
      /\ Total(N, "deferred_paid_fee") = Total(L, "deferred_paid_fee") + y["deferred_paid_fee"]
  BY <1>1, <1>2, <1>3, TotalNew DEF N
<1> QED BY <1>1, <1>4, <1>5, <1>6, <1>7 DEF N

LEMMA PositionGone ==
  ASSUME NEW C, Table(C, Positions), NEW o \in C
  PROVE  LET R == Without(C, o) IN
         /\ Table(R, Positions)
         /\ \A a \in Accounts : /\ OfPositions(C, a) \in Int
                               /\ OfPositions(R, a) = OfPositions(C, a) - InPosition(o, a)
         /\ Total(C, "debt") \in Int /\ Total(C, "collateral") \in Int
         /\ Total(R, "debt") = Total(C, "debt") - o.debt
         /\ Total(R, "collateral") = Total(C, "collateral") - o.collateral
<1> DEFINE R == Without(C, o)
<1>1. Table(R, Positions) /\ IsFiniteSet(C) /\ C \subseteq Positions
  BY TableGone
<1>2. \A x \in C : x.collateral \in Int /\ x["collateral"] \in Int /\ x["debt"] \in Int
  BY <1>1 DEF Positions, Positive
<1>3. R \subseteq C
  BY DEF Without
<1> HIDE DEF R
<1>4. ASSUME NEW a \in Accounts
      PROVE  OfPositions(C, a) \in Int /\ OfPositions(R, a) = OfPositions(C, a) - InPosition(o, a)
  <2> DEFINE f == [c \in C |-> IF c.borrower = a THEN c.collateral ELSE 0]
             e == [c \in R |-> IF c.borrower = a THEN c.collateral ELSE 0]
  <2>1. f \in [C -> Int] /\ e \in [R -> Int] /\ f[o] = InPosition(o, a) /\ \A c \in R : e[c] = f[c]
    BY <1>2, <1>3 DEF InPosition
  <2>2. OfPositions(C, a) = SumFunction(f) /\ OfPositions(R, a) = SumFunction(e)
    BY DEF OfPositions
  <2> HIDE DEF e, f
  <2> QED BY <1>1, <2>1, <2>2, SumGone DEF R
<1>5. Total(C, "debt") \in Int /\ Total(R, "debt") = Total(C, "debt") - o["debt"]
  BY <1>1, <1>2, TotalGone DEF R
<1>6. /\ Total(C, "collateral") \in Int
      /\ Total(R, "collateral") = Total(C, "collateral") - o["collateral"]
  BY <1>1, <1>2, TotalGone DEF R
<1> QED BY <1>1, <1>4, <1>5, <1>6 DEF R

LEMMA PositionNew ==
  ASSUME NEW C, Table(C, Positions), NEW y \in Positions, \A x \in C : x.id # y.id
  PROVE  LET N == With(C, y) IN
         /\ Table(N, Positions)
         /\ \A a \in Accounts : /\ OfPositions(C, a) \in Int
                               /\ OfPositions(N, a) = OfPositions(C, a) + InPosition(y, a)
         /\ Total(C, "debt") \in Int /\ Total(C, "collateral") \in Int
         /\ Total(N, "debt") = Total(C, "debt") + y.debt
         /\ Total(N, "collateral") = Total(C, "collateral") + y.collateral
<1> DEFINE N == With(C, y)
<1>1. Table(N, Positions) /\ y \notin C /\ IsFiniteSet(C) /\ C \subseteq Positions
  BY TableNew
<1>2. \A x \in N : x.collateral \in Int /\ x["collateral"] \in Int /\ x["debt"] \in Int
  BY <1>1 DEF Positions, Positive, With
<1>3. C \subseteq N /\ y \in N
  BY DEF With
<1> HIDE DEF N
<1>4. ASSUME NEW a \in Accounts
      PROVE  OfPositions(C, a) \in Int /\ OfPositions(N, a) = OfPositions(C, a) + InPosition(y, a)
  <2> DEFINE f == [c \in C |-> IF c.borrower = a THEN c.collateral ELSE 0]
             e == [c \in N |-> IF c.borrower = a THEN c.collateral ELSE 0]
  <2>1. f \in [C -> Int] /\ e \in [N -> Int] /\ e[y] = InPosition(y, a) /\ \A c \in C : e[c] = f[c]
    BY <1>2, <1>3 DEF InPosition
  <2>2. OfPositions(C, a) = SumFunction(f) /\ OfPositions(N, a) = SumFunction(e)
    BY DEF OfPositions
  <2> HIDE DEF e, f
  <2> QED BY <1>1, <2>1, <2>2, SumNew DEF N
<1>5. Total(C, "debt") \in Int /\ Total(N, "debt") = Total(C, "debt") + y["debt"]
  BY <1>1, <1>2, <1>3, TotalNew DEF N
<1>6. /\ Total(C, "collateral") \in Int
      /\ Total(N, "collateral") = Total(C, "collateral") + y["collateral"]
  BY <1>1, <1>2, <1>3, TotalNew DEF N
<1> QED BY <1>1, <1>4, <1>5, <1>6 DEF N

-----------------------------------------------------------------------------
(* The state of the market between two calls: as IsMarket has it, but that *)
(* the supply is only known to be a number, with total_core_in_orders      *)
(* right.                                                                  *)
Balances == [Accounts -> [Assets -> Nat]]

Sound(s) ==
  /\ DOMAIN s = Fields /\ s.ok
  /\ s.balance \in Balances /\ s.core_in_orders \in [Accounts -> Int]
  /\ Table(s.limits, Limits) /\ Table(s.settles, Settles)
  /\ Table(s.calls, Positions) /\ Unique(s.calls, "borrower")
  /\ Table(s.bids, Offers) /\ Unique(s.bids, "bidder")
  /\ s.supply \in Int
  /\ s.settlement_fund \in Nat /\ s.fee_pool \in Nat /\ s.force_settled_volume \in Nat
  /\ s.paid_fees \in Nat
  /\ s.accumulated_fees \in [Assets -> Nat]
  /\ s.feeds \in [Publishers -> [time : Int, feed : PriceFeeds \cup {none}]]
  /\ s.feed \in PriceFeeds \cup {none} /\ s.published \in Int
  /\ s.settlement_price \in [base : Positive, quote : Nat] \cup {null}
  /\ CoreInOrders(s)

(* t is s but for the fields in F. *)
Only(s, t, F) == DOMAIN t = Fields /\ \A f \in Fields \ F : t[f] = s[f]

LEMMA AssetsAre == "core" \in Assets /\ "mia" \in Assets /\ \A x \in Assets : x = "core" \/ x = "mia"
BY DEF Assets

LEMMA BalancePaid ==
  ASSUME NEW b \in Balances, NEW a \in Accounts, NEW x \in Assets, NEW n \in Int,
         b[a][x] + n >= 0, NEW d, d = [b EXCEPT ![a][x] = @ + n]
  PROVE  /\ d \in Balances
         /\ Held(b, x) \in Int /\ Held(d, x) = Held(b, x) + n
         /\ \A y \in Assets : y # x => Held(d, y) = Held(b, y)
<1>1. d \in Balances
  BY DEF Balances
<1>2. ASSUME NEW y \in Assets
      PROVE  /\ Held(b, y) \in Int
             /\ y = x => Held(d, y) = Held(b, y) + n
             /\ y # x => Held(d, y) = Held(b, y)
  <2> DEFINE f == [c \in Accounts |-> b[c][y]]
             e == [c \in Accounts |-> d[c][y]]
  <2>1. f \in [Accounts -> Int] /\ e \in [Accounts -> Int]
    BY <1>1 DEF Balances
  <2>2. \A c \in Without(Accounts, a) : e[c] = f[c]
    BY DEF Without, Balances
  <2>3. (y = x => e[a] = f[a] + n) /\ (y # x => e[a] = f[a])
    BY DEF Balances
  <2>4. Held(b, y) = SumFunction(f) /\ Held(d, y) = SumFunction(e)
    BY DEF Held
  <2>5. IsFiniteSet(Accounts)
    BY MarketAssumption
  <2> HIDE DEF e, f
  <2>6. SumFunction(e) = SumFunction(f) + e[a] - f[a]
    BY <2>1, <2>2, <2>5, SumWith
  <2>7. SumFunction(f) \in Int /\ f[a] \in Int
    BY <2>1, <2>5, SumIsInt
  <2> QED BY <2>3, <2>4, <2>6, <2>7
<1>3. Held(b, x) \in Int /\ Held(d, x) = Held(b, x) + n
  BY <1>2
<1>4. ASSUME NEW y \in Assets, y # x PROVE Held(d, y) = Held(b, y)
  BY <1>2, <1>4
<1> QED BY <1>1, <1>3, <1>4

LEMMA AdjustFields ==
  ASSUME NEW s, DOMAIN s = Fields, NEW a, NEW x, NEW n, NEW t, t = adjust_balance(s, a, x, n)
  PROVE  /\ Only(s, t, {"balance", "ok"})
         /\ t.balance = [s.balance EXCEPT ![a][x] = @ + n]
         /\ t.ok => s.ok /\ s.balance[a][x] + n >= 0
<1>1. Only(s, t, {"balance", "ok"})
  BY DEF Only, Fields, adjust_balance, Require
<1>2. t.balance = [s.balance EXCEPT ![a][x] = @ + n]
  BY DEF Fields, adjust_balance, Require
<1>3. t.ok => s.ok /\ s.balance[a][x] + n >= 0
  BY DEF Fields, adjust_balance, Require
<1> QED BY <1>1, <1>2, <1>3

-----------------------------------------------------------------------------
(* Fractions, and who is first.                                            *)
LEMMA CrossMultiplied ==
  ASSUME NEW a \in Int, NEW b \in Int, NEW c \in Int,
         NEW p \in Positive, NEW q \in Positive, NEW r \in Positive,
         a * q <= b * p, b * r <= c * q
  PROVE  a * r <= c * p
<1>1. (a * q) * r <= (b * p) * r
  BY DEF Positive
<1>2. (b * r) * p <= (c * q) * p
  BY DEF Positive
<1>3. (a * r) * q <= (c * p) * q
  BY <1>1, <1>2 DEF Positive
<1>4. a * r \in Int /\ c * p \in Int
  BY DEF Positive
<1> QED BY <1>3, <1>4 DEF Positive

Ratios == [base : Int, quote : Positive]

LEMMA BelowOrders ==
  \A x, y, z \in Ratios : /\ ~(Below(x, y) /\ Below(y, x))
                          /\ ~Below(y, x) /\ ~Below(z, y) => ~Below(z, x)
                          /\ Below(x, y) /\ ~Below(z, y) => Below(x, z)
                          /\ ~Below(y, x) /\ Below(y, z) => Below(x, z)
<1> SUFFICES ASSUME NEW x \in Ratios, NEW y \in Ratios, NEW z \in Ratios
             PROVE  /\ ~(Below(x, y) /\ Below(y, x))
                    /\ ~Below(y, x) /\ ~Below(z, y) => ~Below(z, x)
                    /\ Below(x, y) /\ ~Below(z, y) => Below(x, z)
                    /\ ~Below(y, x) /\ Below(y, z) => Below(x, z)
  OBVIOUS
<1>1. \A u \in Ratios : u.base \in Int /\ u.quote \in Positive
  BY DEF Ratios
<1>2. \A u, v \in Ratios : u.base * v.quote \in Int
  BY <1>1 DEF Positive
<1>3. \A u, v, w \in Ratios : ~Below(v, u) /\ ~Below(w, v) => ~Below(w, u)
  <2>1. SUFFICES ASSUME NEW u \in Ratios, NEW v \in Ratios, NEW w \in Ratios,
                        ~Below(v, u), ~Below(w, v)
                 PROVE  ~Below(w, u)
    OBVIOUS
  <2>2. u.base * v.quote <= v.base * u.quote /\ v.base * w.quote <= w.base * v.quote
    BY <1>2, <2>1 DEF Below
  <2>3. u.base * w.quote <= w.base * u.quote
    BY <1>1, <2>2, CrossMultiplied
  <2> QED BY <1>2, <2>3 DEF Below
<1>4. ~(Below(x, y) /\ Below(y, x))
  BY <1>2 DEF Below
<1> QED BY <1>3, <1>4

(* The first by price, and the oldest of several.                          *)
LEMMA FirstByPrice ==
  ASSUME NEW S, IsFiniteSet(S), S # {}, \A o \in S : o.id \in Nat, NEW p \in [S -> Ratios]
  PROVE  \E o \in S : \A x \in S : ~Below(p[x], p[o]) /\ (Below(p[o], p[x]) \/ o.id <= x.id)
<1> DEFINE R == {r \in S \X S : Below(p[r[1]], p[r[2]])
                                \/ (~Below(p[r[2]], p[r[1]]) /\ r[1].id <= r[2].id)}
<1>1. \A x, y \in S : <<x, y>> \in R <=>
          Below(p[x], p[y]) \/ (~Below(p[y], p[x]) /\ x.id <= y.id)
  OBVIOUS
<1>2. \A x, y, z \in S : /\ ~(Below(p[x], p[y]) /\ Below(p[y], p[x]))
                         /\ ~Below(p[y], p[x]) /\ ~Below(p[z], p[y]) => ~Below(p[z], p[x])
                         /\ Below(p[x], p[y]) /\ ~Below(p[z], p[y]) => Below(p[x], p[z])
                         /\ ~Below(p[y], p[x]) /\ Below(p[y], p[z]) => Below(p[x], p[z])
  BY BelowOrders
<1> HIDE DEF R
<1>3. ASSUME NEW x \in S, NEW y \in S PROVE <<x, y>> \in R \/ <<y, x>> \in R
  <2>1. x.id \in Nat /\ y.id \in Nat
    OBVIOUS
  <2>2. x.id <= y.id \/ y.id <= x.id
    BY <2>1
  <2> QED BY <1>1, <2>2
<1>4. ASSUME NEW x \in S, NEW y \in S, NEW z \in S, <<x, y>> \in R, <<y, z>> \in R
      PROVE  <<x, z>> \in R
  <2>1. Below(p[x], p[y]) \/ (~Below(p[y], p[x]) /\ x.id <= y.id)
    BY <1>1, <1>4
  <2>2. Below(p[y], p[z]) \/ (~Below(p[z], p[y]) /\ y.id <= z.id)
    BY <1>1, <1>4
  <2>3. x.id \in Nat /\ y.id \in Nat /\ z.id \in Nat
    OBVIOUS
  <2>4. Below(p[x], p[z]) \/ (~Below(p[z], p[x]) /\ x.id <= z.id)
    BY <1>2, <2>1, <2>2, <2>3
  <2> QED BY <1>1, <2>4
<1>5. Ordered(R, S)
  BY <1>3, <1>4 DEF Ordered
<1>6. PICK o \in S : \A x \in S : <<o, x>> \in R
  BY <1>5, FirstOf
<1> QED BY <1>1, <1>2, <1>6

LEMMA BestIs ==
  ASSUME NEW S, IsFiniteSet(S), S \subseteq Limits, S # {}
  PROVE  Best(S) \in S
<1> DEFINE p == [o \in S |-> [base |-> o.price.quote, quote |-> o.price.base]]
<1>1. \A o \in S : o.id \in Nat /\ o.price \in Rates
  BY DEF Limits
<1>2. p \in [S -> Ratios]
  BY <1>1 DEF Ratios, Rates, Positive
<1>3. PICK o \in S : \A x \in S : ~Below(p[x], p[o]) /\ (Below(p[o], p[x]) \/ o.id <= x.id)
  BY <1>1, <1>2, FirstByPrice
<1>4. \A x \in S : /\ Below(p[x], p[o]) <=> Below(o.price, x.price)
                   /\ Below(p[o], p[x]) <=> Below(x.price, o.price)
  BY <1>1 DEF Below, Rates, Positive
<1> HIDE DEF p
<1>5. \A x \in S : ~Below(o.price, x.price) /\ (Below(x.price, o.price) \/ o.id <= x.id)
  BY <1>3, <1>4
<1> QED BY <1>5 DEF Best, First

LEMMA FirstCallIs ==
  ASSUME NEW s, IsFiniteSet(s.calls), s.calls \subseteq Positions, s.calls # {}
  PROVE  FirstCall(s) \in s.calls
<1> DEFINE p == [c \in s.calls |-> c.call_price]
<1>1. \A c \in s.calls : c.id \in Nat /\ c.call_price \in Ratios
  BY DEF Positions, Ratios, Positive
<1>2. p \in [s.calls -> Ratios]
  BY <1>1
<1>3. PICK c \in s.calls :
        \A x \in s.calls : ~Below(p[x], p[c]) /\ (Below(p[c], p[x]) \/ c.id <= x.id)
  BY <1>1, <1>2, FirstByPrice
<1>4. \A x \in s.calls : /\ ~Below(x.call_price, c.call_price)
                         /\ Below(c.call_price, x.call_price) \/ c.id <= x.id
  BY <1>3
<1> QED BY <1>4 DEF FirstCall, First

LEMMA LeastCollateralIs ==
  ASSUME NEW s, IsFiniteSet(s.calls), s.calls \subseteq Positions, s.calls # {}
  PROVE  LeastCollateral(s) \in s.calls
<1> DEFINE p == [c \in s.calls |-> Price(c.collateral, c.debt)]
<1>1. \A c \in s.calls : c.id \in Nat /\ Price(c.collateral, c.debt) \in Ratios
  BY DEF Positions, Ratios, Positive, Price
<1>2. p \in [s.calls -> Ratios]
  BY <1>1
<1>3. PICK c \in s.calls :
        \A x \in s.calls : ~Below(p[x], p[c]) /\ (Below(p[c], p[x]) \/ c.id <= x.id)
  BY <1>1, <1>2, FirstByPrice
<1>4. \A x \in s.calls : /\ ~Below(Price(x.collateral, x.debt), Price(c.collateral, c.debt))
                         /\ \/ Below(Price(c.collateral, c.debt), Price(x.collateral, x.debt))
                            \/ c.id <= x.id
  BY <1>3
<1> QED BY <1>4 DEF LeastCollateral, First

LEMMA FirstSettleIs ==
  ASSUME NEW S, IsFiniteSet(S), S \subseteq Settles, S # {}
  PROVE  First(S, LAMBDA x, y : x.date < y.date) \in S
<1> DEFINE p == [o \in S |-> [base |-> o.date, quote |-> 1]]
<1>1. \A o \in S : o.id \in Nat /\ o.date \in Int
  BY DEF Settles
<1>2. p \in [S -> Ratios]
  BY <1>1 DEF Ratios, Positive
<1>3. PICK o \in S : \A x \in S : ~Below(p[x], p[o]) /\ (Below(p[o], p[x]) \/ o.id <= x.id)
  BY <1>1, <1>2, FirstByPrice
<1>4. \A x, y \in S : Below(p[x], p[y]) <=> x.date < y.date
  BY <1>1 DEF Below
<1> HIDE DEF p
<1>5. \A x \in S : ~(x.date < o.date) /\ (o.date < x.date \/ o.id <= x.id)
  BY <1>3, <1>4
<1> QED BY <1>5 DEF First

(* Extreme numbers.                                                        *)
LEMMA MinIs ==
  ASSUME NEW S, IsFiniteSet(S), S \subseteq Int, S # {}
  PROVE  Min(S) \in S /\ \A x \in S : Min(S) <= x
<1> DEFINE R == {r \in S \X S : r[1] <= r[2]}
<1>1. \A x, y \in S : <<x, y>> \in R <=> x <= y
  OBVIOUS
<1> HIDE DEF R
<1>2. Ordered(R, S)
  BY <1>1 DEF Ordered
<1>3. PICK m \in S : \A x \in S : <<m, x>> \in R
  BY <1>2, FirstOf
<1>4. \A x \in S : m <= x
  BY <1>1, <1>3
<1> QED BY <1>4 DEF Min

LEMMA MaxIs ==
  ASSUME NEW S, IsFiniteSet(S), S \subseteq Int, S # {}
  PROVE  Max(S) \in S /\ \A x \in S : x <= Max(S)
<1> DEFINE R == {r \in S \X S : r[2] <= r[1]}
<1>1. \A x, y \in S : <<x, y>> \in R <=> y <= x
  OBVIOUS
<1> HIDE DEF R
<1>2. Ordered(R, S)
  BY <1>1 DEF Ordered
<1>3. PICK m \in S : \A x \in S : <<m, x>> \in R
  BY <1>2, FirstOf
<1>4. \A x \in S : m >= x
  BY <1>1, <1>3
<1>5. Max(S) \in S /\ \A x \in S : Max(S) >= x
  BY <1>4 DEF Max
<1> QED BY <1>5

LEMMA MinOfTwo ==
  ASSUME NEW m \in Int, NEW n \in Int
  PROVE  Min({m, n}) \in {m, n} /\ Min({m, n}) <= m /\ Min({m, n}) <= n
<1>1. \E x \in {m, n} : \A y \in {m, n} : x <= y
  OBVIOUS
<1> QED BY <1>1 DEF Min

LEMMA MaxOfTwo ==
  ASSUME NEW m \in Int, NEW n \in Int
  PROVE  Max({m, n}) \in {m, n} /\ m <= Max({m, n}) /\ n <= Max({m, n})
<1>1. \E x \in {m, n} : \A y \in {m, n} : x >= y
  OBVIOUS
<1> QED BY <1>1 DEF Max

LEMMA NextIdIs ==
  ASSUME NEW S, IsFiniteSet(S), \A o \in S : o.id \in Nat
  PROVE  NextId(S) \in Nat /\ \A o \in S : o.id # NextId(S)
<1> DEFINE I == {o.id : o \in S}
           J == {0} \cup I
<1>1. IsFiniteSet(I)
  <2>1. [o \in S |-> o.id] \in Surjection(S, I)
    BY DEF Surjection
  <2> QED BY <2>1, FS_Surjection
<1>2. IsFiniteSet(J)
  BY <1>1, FS_Singleton, FS_Union
<1>3. J \subseteq Nat /\ J \subseteq Int /\ J # {}
  OBVIOUS
<1>4. \A o \in S : o.id \in J
  OBVIOUS
<1>5. NextId(S) = 1 + Max(J)
  BY DEF NextId
<1> HIDE DEF J
<1>6. Max(J) \in J /\ \A x \in J : x <= Max(J)
  BY <1>2, <1>3, MaxIs
<1>7. Max(J) \in Nat /\ \A o \in S : o.id \in Nat /\ o.id <= Max(J)
  BY <1>3, <1>4, <1>6
<1>8. \A o \in S : o.id # 1 + Max(J)
  BY <1>7
<1> QED BY <1>5, <1>7, <1>8

-----------------------------------------------------------------------------
LEMMA LeastByPrice ==
  ASSUME NEW S, IsFiniteSet(S), S # {}, NEW p \in [S -> Ratios]
  PROVE  \E o \in S : \A x \in S : ~Below(p[x], p[o])
<1> DEFINE R == {r \in S \X S : ~Below(p[r[2]], p[r[1]])}
<1>1. \A x, y \in S : <<x, y>> \in R <=> ~Below(p[y], p[x])
  OBVIOUS
<1>2. \A x, y, z \in S : /\ ~(Below(p[x], p[y]) /\ Below(p[y], p[x]))
                         /\ ~Below(p[y], p[x]) /\ ~Below(p[z], p[y]) => ~Below(p[z], p[x])
  BY BelowOrders
<1> HIDE DEF R
<1>3. Ordered(R, S)
  BY <1>1, <1>2 DEF Ordered
<1>4. \E m \in S : \A x \in S : <<m, x>> \in R
  BY <1>3, FirstOf
<1> QED BY <1>1, <1>4

LEMMA GreatestByPrice ==
  ASSUME NEW S, IsFiniteSet(S), S # {}, NEW p \in [S -> Ratios]
  PROVE  \E o \in S : \A x \in S : ~Below(p[o], p[x])
<1> DEFINE R == {r \in S \X S : ~Below(p[r[1]], p[r[2]])}
<1>1. \A x, y \in S : <<x, y>> \in R <=> ~Below(p[x], p[y])
  OBVIOUS
<1>2. \A x, y, z \in S : /\ ~(Below(p[x], p[y]) /\ Below(p[y], p[x]))
                         /\ ~Below(p[y], p[x]) /\ ~Below(p[z], p[y]) => ~Below(p[z], p[x])
  BY BelowOrders
<1> HIDE DEF R
<1>3. Ordered(R, S)
  BY <1>1, <1>2 DEF Ordered
<1>4. \E m \in S : \A x \in S : <<m, x>> \in R
  BY <1>3, FirstOf
<1> QED BY <1>1, <1>4

(* The median of a finite set exists.                                      *)
LEMMA MedianExists ==
  ASSUME NEW P, IsFiniteSet(P), P # {}, NEW p \in [P -> Ratios]
  PROVE  \E m \in P :
           /\ Cardinality({q \in P : Below(p[q], p[m])}) <= Cardinality(P) \div 2
           /\ Cardinality({q \in P : ~Below(p[m], p[q])}) > Cardinality(P) \div 2
<1> DEFINE Lo(m) == {q \in P : Below(p[q], p[m])}
           Up(m) == {q \in P : ~Below(p[m], p[q])}
           h == Cardinality(P) \div 2
           A == {m \in P : Cardinality(Up(m)) > h}
<1>1. Cardinality(P) \in Nat \ {0} /\ h \in Nat /\ Cardinality(P) > h
  <2>1. Cardinality(P) \in Nat /\ Cardinality(P) # 0
    BY FS_CardinalityType, FS_EmptySet
  <2> QED BY <2>1
<1>2. \A x, y, z \in P : /\ ~(Below(p[x], p[y]) /\ Below(p[y], p[x]))
                         /\ ~Below(p[y], p[x]) /\ ~Below(p[z], p[y]) => ~Below(p[z], p[x])
  BY BelowOrders
<1>3. A # {}
  <2>1. PICK g \in P : \A x \in P : ~Below(p[g], p[x])
    BY GreatestByPrice
  <2>2. Up(g) = P
    BY <2>1
  <2> QED BY <1>1, <2>2
<1>4. IsFiniteSet(A) /\ A \subseteq P
  BY FS_Subset
<1>5. PICK a \in A : \A x \in A : ~Below(p[x], p[a])
  <2> DEFINE r == [x \in A |-> p[x]]
  <2>1. r \in [A -> Ratios] /\ \A x \in A : r[x] = p[x]
    BY <1>4
  <2> HIDE DEF r, A
  <2>2. \E o \in A : \A x \in A : ~Below(r[x], r[o])
    BY <1>3, <1>4, <2>1, LeastByPrice
  <2> QED BY <2>1, <2>2
<1>6. Cardinality(Lo(a)) <= h
  <2>1. CASE Lo(a) = {}
    BY <1>1, <2>1, FS_EmptySet
  <2>2. CASE Lo(a) # {}
    <3> DEFINE L == Lo(a)
               r == [x \in L |-> p[x]]
    <3>1. IsFiniteSet(L) /\ L \subseteq P
      BY FS_Subset
    <3>2. r \in [L -> Ratios] /\ \A x \in L : r[x] = p[x]
      BY <3>1
    <3>3. L # {}
      BY <2>2
    <3>4. \A x \in L : Below(p[x], p[a])
      OBVIOUS
    <3> HIDE DEF r, L
    <3>5. PICK m \in L : \A x \in L : ~Below(r[m], r[x])
      BY <3>1, <3>2, <3>3, GreatestByPrice
    <3>6. m \in P /\ m \notin A
      BY <1>5, <3>1, <3>4
    <3>7. IsFiniteSet(Up(m)) /\ Cardinality(Up(m)) \in Nat
      BY FS_Subset, FS_CardinalityType
    <3>8. Cardinality(Up(m)) <= h
      BY <1>1, <3>6, <3>7
    <3>9. L \subseteq Up(m)
      BY <3>1, <3>2, <3>5
    <3>10. Cardinality(L) <= Cardinality(Up(m)) /\ Cardinality(L) \in Nat
      BY <3>1, <3>7, <3>9, FS_Subset, FS_CardinalityType
    <3> QED BY <1>1, <3>7, <3>8, <3>10 DEF L
  <2> QED BY <2>1, <2>2
<1> QED BY <1>5, <1>6

(* The elements of a finite set in a strict order have the ranks 0 .. n-1. *)
Preceding(R, S, b) == {x \in S : <<x, b>> \in R}

LEMMA Ranks ==
  ASSUME NEW S, IsFiniteSet(S), NEW R,
         \A x, y \in S : x # y => <<x, y>> \in R \/ <<y, x>> \in R,
         \A x \in S : <<x, x>> \notin R,
         \A x, y, z \in S : <<x, y>> \in R /\ <<y, z>> \in R => <<x, z>> \in R
  PROVE  \A k \in 1 .. Cardinality(S) : \E b \in S : Cardinality(Preceding(R, S, b)) = k - 1
<1> DEFINE n == Cardinality(S)
           T == 0 .. (n - 1)
           f == [b \in S |-> Cardinality(Preceding(R, S, b))]
<1>1. n \in Nat
  BY FS_CardinalityType
<1>2. ASSUME NEW b \in S
      PROVE  /\ IsFiniteSet(Preceding(R, S, b)) /\ Cardinality(Preceding(R, S, b)) \in Nat
             /\ Cardinality(Preceding(R, S, b)) < n
  <2>1. Preceding(R, S, b) \subseteq S \ {b}
    BY DEF Preceding
  <2>2. IsFiniteSet(S \ {b}) /\ Cardinality(S \ {b}) = n - 1
    BY FS_RemoveElement
  <2>3. IsFiniteSet(Preceding(R, S, b)) /\ Cardinality(Preceding(R, S, b)) <= n - 1
    BY <2>1, <2>2, FS_Subset
  <2> QED BY <1>1, <2>3, FS_CardinalityType
<1>3. f \in [S -> T]
  BY <1>1, <1>2
<1>4. ASSUME NEW b \in S, NEW c \in S, <<b, c>> \in R
      PROVE  f[b] # f[c]
  <2>1. Preceding(R, S, b) \subseteq Preceding(R, S, c) \ {b} /\ b \in Preceding(R, S, c)
    BY <1>4 DEF Preceding
  <2>2. /\ IsFiniteSet(Preceding(R, S, c) \ {b})
        /\ Cardinality(Preceding(R, S, c) \ {b}) = Cardinality(Preceding(R, S, c)) - 1
    BY <1>2, <2>1, FS_RemoveElement
  <2>3. Cardinality(Preceding(R, S, b)) <= Cardinality(Preceding(R, S, c)) - 1
    BY <2>1, <2>2, FS_Subset
  <2> QED BY <1>2, <2>3
<1>5. f \in Injection(S, T)
  BY <1>3, <1>4 DEF Injection, IsInjective
<1>6. IsFiniteSet(T) /\ Cardinality(T) = n
  <2>1. 0 \in Int /\ n - 1 \in Int
    BY <1>1
  <2>2. IsFiniteSet(T) /\ Cardinality(T) = IF 0 > n - 1 THEN 0 ELSE (n - 1) - 0 + 1
    BY <2>1, FS_Interval
  <2> QED BY <1>1, <2>2
<1>7. f \in Surjection(S, T)
  BY <1>5, <1>6, FS_Injection
<1>8. \A k \in T : \E b \in S : f[b] = k
  BY <1>7 DEF Surjection
<1> SUFFICES ASSUME NEW k \in 1 .. n PROVE \E b \in S : f[b] = k - 1
  BY Zenon
<1>9. k - 1 \in T
  BY <1>1
<1> QED BY <1>8, <1>9

(* Rounding.                                                               *)
LEMMA Quotient ==
  ASSUME NEW a \in Int, NEW d \in Positive
  PROVE  a \div d \in Int /\ (a \div d) * d <= a /\ a < (a \div d) * d + d
BY DEF Positive

LEMMA Bounded ==
  ASSUME NEW x \in Int, NEW n \in Int, NEW d \in Positive
  PROVE  /\ x * d < n * d => x < n
         /\ x * d <= n * d => x <= n
BY DEF Positive

LEMMA RoundDown ==
  ASSUME NEW n \in Nat, NEW p, p.base \in Positive, p.quote \in Nat
  PROVE  /\ ToQuote(n, p) \in Nat
         /\ ToQuote(n, p) * p.base <= n * p.quote
         /\ n * p.quote < ToQuote(n, p) * p.base + p.base
<1> DEFINE a == n * p.quote
           q == ToQuote(n, p)
<1>1. a \in Nat
  OBVIOUS
<1>2. q = a \div p.base
  BY DEF ToQuote
<1> HIDE DEF a
<1>3. q \in Int /\ q * p.base <= a /\ a < q * p.base + p.base
  BY <1>1, <1>2, Quotient
<1> HIDE DEF q
<1>4. 0 * p.base < q * p.base + p.base
  BY <1>1, <1>3 DEF Positive
<1>5. 0 * p.base < (q + 1) * p.base
  BY <1>3, <1>4 DEF Positive
<1>6. q >= 0
  BY <1>3, <1>5, Bounded DEF Positive
<1> QED BY <1>3, <1>6 DEF a, q

LEMMA RoundUp ==
  ASSUME NEW n \in Nat, NEW p, p.base \in Positive, p.quote \in Nat
  PROVE  /\ ToQuoteUp(n, p) \in Nat
         /\ n * p.quote <= ToQuoteUp(n, p) * p.base
         /\ ToQuoteUp(n, p) * p.base < n * p.quote + p.base
<1> DEFINE a == n * p.quote
           b == a + p.base - 1
           q == ToQuoteUp(n, p)
<1>1. a \in Nat
  OBVIOUS
<1>2. q = b \div p.base
  BY DEF ToQuoteUp
<1>3. b \in Int /\ b = a + p.base - 1
  BY <1>1 DEF Positive
<1> HIDE DEF a, b
<1>4. q \in Int /\ q * p.base <= b /\ b < q * p.base + p.base
  BY <1>2, <1>3, Quotient
<1> HIDE DEF q
<1>5. a <= q * p.base /\ q * p.base < a + p.base
  BY <1>1, <1>3, <1>4 DEF Positive
<1>6. 0 * p.base <= q * p.base
  BY <1>1, <1>4, <1>5 DEF Positive
<1>7. q >= 0
  BY <1>4, <1>6, Bounded
<1> QED BY <1>4, <1>5, <1>7 DEF a, q

(* A rounded amount times the divisor is no more than m times it.          *)
LEMMA UpAtMost ==
  ASSUME NEW n \in Nat, NEW p, p.base \in Positive, p.quote \in Nat, NEW m \in Nat,
         n * p.quote <= m * p.base
  PROVE  ToQuoteUp(n, p) <= m
<1> DEFINE q == ToQuoteUp(n, p)
<1>1. q \in Nat /\ q * p.base < n * p.quote + p.base
  BY RoundUp
<1> HIDE DEF q
<1>2. q * p.base < (m + 1) * p.base
  BY <1>1 DEF Positive
<1>3. q < m + 1
  BY <1>1, <1>2, Bounded
<1> QED BY <1>1, <1>3 DEF q

LEMMA DownAtMost ==
  ASSUME NEW n \in Nat, NEW p, p.base \in Positive, p.quote \in Nat, NEW m \in Nat,
         n * p.quote <= m * p.base
  PROVE  ToQuote(n, p) <= m
<1> DEFINE q == ToQuote(n, p)
<1>1. q \in Nat /\ q * p.base <= n * p.quote
  BY RoundDown
<1> HIDE DEF q
<1>2. q * p.base <= m * p.base
  BY <1>1 DEF Positive
<1> QED BY <1>1, <1>2, Bounded DEF q

(* What a rounded amount is worth is no more than the amount.              *)
LEMMA ThereAndBack ==
  ASSUME NEW n \in Nat, NEW p \in Rates
  PROVE  ToBaseUp(ToQuote(n, p), p) \in Nat /\ ToBaseUp(ToQuote(n, p), p) <= n
<1> DEFINE q == ToQuote(n, p)
           i == Inverted(p)
<1>1. p.base \in Positive /\ p.quote \in Positive /\ p.quote \in Nat /\ p.base \in Nat
  BY DEF Rates, Positive
<1>2. i.base = p.quote /\ i.quote = p.base
  BY DEF Inverted, Price
<1>3. q \in Nat /\ q * p.base <= n * p.quote
  BY <1>1, RoundDown
<1> HIDE DEF q, i
<1>4. ToQuoteUp(q, i) <= n /\ ToQuoteUp(q, i) \in Nat
  BY <1>1, <1>2, <1>3, UpAtMost, RoundUp
<1> QED BY <1>4 DEF ToBaseUp, q, i

-----------------------------------------------------------------------------
(* What a sound state has of an asset, in all.                             *)
Tot(s, x) == IF x = "core" THEN TotalCore(s) ELSE TotalMia(s)
Debt(s) == Total(s.calls, "debt")

(* t is s but for F, and if nothing was refused it is sound, with n more   *)
(* of x and m more of the other asset.                                     *)
Moves(s, t, F, x, n, m) ==
  /\ Only(s, t, F)
  /\ t.ok => /\ Sound(t)
             /\ Tot(t, x) = Tot(s, x) + n
             /\ Tot(t, Other(x)) = Tot(s, Other(x)) + m

(* What is refused stays refused.                                          *)
Stops(s, t) == DOMAIN t = Fields /\ (t.ok => s.ok)

LEMMA SoundParts ==
  ASSUME NEW s, Sound(s)
  PROVE  /\ \A x \in Assets : /\ Held(s.balance, x) \in Nat /\ ForSale(s.limits, x) \in Nat
                              /\ s.accumulated_fees[x] \in Nat /\ Tot(s, x) \in Nat
         /\ Total(s.limits, "deferred_fee") \in Nat /\ Total(s.limits, "deferred_paid_fee") \in Nat
         /\ Total(s.calls, "debt") \in Nat /\ Total(s.calls, "collateral") \in Nat
         /\ Total(s.settles, "balance") \in Nat /\ Total(s.bids, "collateral") \in Nat
         /\ s.settlement_fund \in Nat /\ s.fee_pool \in Nat /\ s.paid_fees \in Nat
         /\ TotalCore(s) \in Nat /\ TotalMia(s) \in Nat
<1>1. ASSUME NEW x \in Assets PROVE Held(s.balance, x) \in Nat
  <2>1. IsFiniteSet(Accounts) /\ [a \in Accounts |-> s.balance[a][x]] \in [Accounts -> Nat]
    BY MarketAssumption DEF Sound, Balances
  <2> QED BY <2>1, SumOfNats DEF Held
<1>2. ASSUME NEW x \in Assets PROVE ForSale(s.limits, x) \in Nat
  <2>1. IsFiniteSet(s.limits) /\ \A o \in s.limits : o.for_sale \in Nat
    BY DEF Sound, Table, Limits, Positive
  <2>2. [o \in s.limits |-> IF o.sells = x THEN o.for_sale ELSE 0] \in [s.limits -> Nat]
    BY <2>1
  <2> QED BY <2>1, <2>2, SumOfNats DEF ForSale
<1>3. Total(s.limits, "deferred_fee") \in Nat /\ Total(s.limits, "deferred_paid_fee") \in Nat
  <2>1. IsFiniteSet(s.limits)
        /\ \A o \in s.limits : o["deferred_fee"] \in Nat /\ o["deferred_paid_fee"] \in Nat
    BY DEF Sound, Table, Limits
  <2> QED BY <2>1, TotalNat
<1>4. Total(s.calls, "debt") \in Nat /\ Total(s.calls, "collateral") \in Nat
  <2>1. IsFiniteSet(s.calls) /\ \A o \in s.calls : o["debt"] \in Nat /\ o["collateral"] \in Nat
    BY DEF Sound, Table, Positions, Positive
  <2> QED BY <2>1, TotalNat
<1>5. Total(s.settles, "balance") \in Nat
  <2>1. IsFiniteSet(s.settles) /\ \A o \in s.settles : o["balance"] \in Nat
    BY DEF Sound, Table, Settles
  <2> QED BY <2>1, TotalNat
<1>6. Total(s.bids, "collateral") \in Nat
  <2>1. IsFiniteSet(s.bids) /\ \A o \in s.bids : o["collateral"] \in Nat
    BY DEF Sound, Table, Offers
  <2> QED BY <2>1, TotalNat
<1>7. /\ s.settlement_fund \in Nat /\ s.fee_pool \in Nat /\ s.paid_fees \in Nat
      /\ \A x \in Assets : s.accumulated_fees[x] \in Nat
  BY DEF Sound
<1>8. TotalCore(s) \in Nat
  <2>1. /\ Held(s.balance, "core") \in Nat /\ ForSale(s.limits, "core") \in Nat
        /\ s.accumulated_fees["core"] \in Nat
    BY <1>1, <1>2, <1>7, AssetsAre
  <2> QED BY <1>3, <1>4, <1>6, <1>7, <2>1 DEF TotalCore
<1>9. TotalMia(s) \in Nat
  <2>1. /\ Held(s.balance, "mia") \in Nat /\ ForSale(s.limits, "mia") \in Nat
        /\ s.accumulated_fees["mia"] \in Nat
    BY <1>1, <1>2, <1>7, AssetsAre
  <2> QED BY <1>3, <1>5, <2>1 DEF TotalMia
<1>10. \A x \in Assets : Tot(s, x) \in Nat
  BY <1>8, <1>9 DEF Tot
<1> QED BY <1>1, <1>2, <1>3, <1>4, <1>5, <1>6, <1>7, <1>8, <1>9, <1>10

LEMMA OtherIs ==
  /\ \A x \in Assets : Other(x) \in Assets /\ Other(x) # x /\ Other(Other(x)) = x
  /\ Other("core") = "mia" /\ Other("mia") = "core"
  /\ \A s : Tot(s, "core") = TotalCore(s) /\ Tot(s, "mia") = TotalMia(s)
BY DEF Assets, Other, Tot

LEMMA Adjust ==
  ASSUME NEW s, Sound(s), NEW a \in Accounts, NEW x \in Assets, NEW n \in Int,
         NEW t, t = adjust_balance(s, a, x, n)
  PROVE  Moves(s, t, {"balance", "ok"}, x, n, 0) /\ Stops(s, t)
<1>0. DOMAIN s = Fields /\ s.ok /\ s.balance \in Balances
  BY DEF Sound
<1>1. /\ Only(s, t, {"balance", "ok"}) /\ t.balance = [s.balance EXCEPT ![a][x] = @ + n]
      /\ t.ok => s.ok /\ s.balance[a][x] + n >= 0
  BY <1>0, AdjustFields
<1>2. Stops(s, t)
  BY <1>1 DEF Stops, Only
<1>3. SUFFICES ASSUME t.ok
               PROVE  /\ Sound(t) /\ Tot(t, x) = Tot(s, x) + n
                      /\ Tot(t, Other(x)) = Tot(s, Other(x)) + 0
  BY <1>1, <1>2 DEF Moves
<1>4. /\ DOMAIN t = Fields /\ t.core_in_orders = s.core_in_orders /\ t.limits = s.limits
      /\ t.calls = s.calls /\ t.settles = s.settles /\ t.bids = s.bids /\ t.supply = s.supply
      /\ t.feeds = s.feeds /\ t.feed = s.feed /\ t.published = s.published
      /\ t.settlement_price = s.settlement_price /\ t.settlement_fund = s.settlement_fund
      /\ t.force_settled_volume = s.force_settled_volume
      /\ t.accumulated_fees = s.accumulated_fees /\ t.fee_pool = s.fee_pool
      /\ t.paid_fees = s.paid_fees
  BY <1>1 DEF Only, Fields
<1>5. /\ t.balance \in Balances
      /\ Held(s.balance, x) \in Int /\ Held(t.balance, x) = Held(s.balance, x) + n
      /\ \A y \in Assets : y # x => Held(t.balance, y) = Held(s.balance, y)
  BY <1>0, <1>1, <1>3, BalancePaid
<1>6. Sound(t)
  BY <1>3, <1>4, <1>5 DEF Sound, CoreInOrders
<1>7. Tot(s, x) \in Int /\ Tot(s, Other(x)) \in Int
  BY SoundParts, OtherIs
<1>8. CASE x = "core"
  <2>1. Held(t.balance, "core") = Held(s.balance, "core") + n
        /\ Held(t.balance, "mia") = Held(s.balance, "mia")
    BY <1>5, <1>8, AssetsAre
  <2>2. TotalMia(t) = TotalMia(s)
    BY <1>4, <2>1 DEF TotalMia
  <2>3. TotalCore(t) = TotalCore(s) + n
    BY <1>4, <2>1, SoundParts, AssetsAre DEF TotalCore
  <2> QED BY <1>6, <1>7, <1>8, <2>2, <2>3, OtherIs
<1>9. CASE x = "mia"
  <2>1. Held(t.balance, "mia") = Held(s.balance, "mia") + n
        /\ Held(t.balance, "core") = Held(s.balance, "core")
    BY <1>5, <1>9, AssetsAre
  <2>2. TotalCore(t) = TotalCore(s)
    BY <1>4, <2>1 DEF TotalCore
  <2>3. TotalMia(t) = TotalMia(s) + n
    BY <1>4, <2>1, SoundParts, AssetsAre DEF TotalMia
  <2> QED BY <1>6, <1>7, <1>9, <2>2, <2>3, OtherIs
<1> QED BY <1>8, <1>9, AssetsAre

-----------------------------------------------------------------------------
LEMMA OnlyTrans ==
  ASSUME NEW s, NEW t, NEW u, NEW F, NEW G, NEW H, Only(s, t, F), Only(t, u, G),
         F \subseteq H, G \subseteq H
  PROVE  Only(s, u, H)
BY DEF Only

(* The fields that make up a sound state. *)
Alike(s, t) ==
  /\ DOMAIN t = Fields /\ (t.ok <=> s.ok)
  /\ t.balance = s.balance /\ t.core_in_orders = s.core_in_orders /\ t.limits = s.limits
  /\ t.calls = s.calls /\ t.settles = s.settles /\ t.bids = s.bids /\ t.supply = s.supply
  /\ t.feeds = s.feeds /\ t.feed = s.feed /\ t.published = s.published
  /\ t.settlement_price = s.settlement_price /\ t.settlement_fund = s.settlement_fund
  /\ t.force_settled_volume = s.force_settled_volume
  /\ t.accumulated_fees = s.accumulated_fees /\ t.fee_pool = s.fee_pool
  /\ t.paid_fees = s.paid_fees

LEMMA AlikeIs ==
  ASSUME NEW s, NEW t, Only(s, t, {"fills", "done", "called", "hung"})
  PROVE  Alike(s, t)
BY DEF Only, Alike, Fields

LEMMA AlikeSound ==
  ASSUME NEW s, NEW t, Alike(s, t)
  PROVE  /\ Sound(s) => Sound(t)
         /\ TotalCore(t) = TotalCore(s) /\ TotalMia(t) = TotalMia(s)
         /\ \A x : Tot(t, x) = Tot(s, x)
         /\ Stops(s, t) /\ Debt(t) = Debt(s)
<1>1. Sound(s) => Sound(t)
  BY DEF Alike, Sound, CoreInOrders
<1>2. TotalCore(t) = TotalCore(s) /\ TotalMia(t) = TotalMia(s)
  BY DEF Alike, TotalCore, TotalMia
<1>3. \A x : Tot(t, x) = Tot(s, x)
  BY <1>2 DEF Tot
<1>4. Stops(s, t) /\ Debt(t) = Debt(s)
  BY DEF Alike, Stops, Debt
<1> QED BY <1>1, <1>2, <1>3, <1>4

LEMMA FilledIs ==
  ASSUME NEW s, DOMAIN s = Fields, NEW p, NEW m, NEW n, NEW t, t = Filled(s, p, m, n)
  PROVE  Only(s, t, {"fills"}) /\ Alike(s, t) /\ Stops(s, t)
<1>1. Only(s, t, {"fills"})
  BY DEF Only, Fields, Filled
<1>2. Alike(s, t)
  BY DEF Alike, Fields, Filled
<1> QED BY <1>1, <1>2, AlikeSound

LEMMA DoneIs ==
  ASSUME NEW s, DOMAIN s = Fields, NEW t, t = Done(s)
  PROVE  Only(s, t, {"done"}) /\ Alike(s, t) /\ Stops(s, t) /\ t.done = TRUE
<1>1. Only(s, t, {"done"}) /\ t.done = TRUE
  BY DEF Only, Fields, Done
<1>2. Alike(s, t)
  BY DEF Alike, Fields, Done
<1> QED BY <1>1, <1>2, AlikeSound

LEMMA RequireIs ==
  ASSUME NEW s, DOMAIN s = Fields, NEW c, NEW t, t = Require(s, c)
  PROVE  Only(s, t, {"ok"}) /\ Stops(s, t)
         /\ (t.ok => c) /\ (t.ok => s.ok) /\ (t.ok => Alike(s, t))
<1>1. Only(s, t, {"ok"}) /\ (t.ok <=> s.ok /\ c)
  BY DEF Only, Fields, Require
<1>2. t.ok => Alike(s, t)
  BY <1>1 DEF Only, Fields, Alike
<1> QED BY <1>1, <1>2 DEF Stops, Only

LEMMA RequireStops ==
  ASSUME NEW s, DOMAIN s = Fields, NEW c
  PROVE  /\ Only(s, Require(s, c), {"ok"}) /\ Stops(s, Require(s, c))
         /\ Require(s, c).ok => Alike(s, Require(s, c))
<1> DEFINE t == Require(s, c)
<1>1. Only(s, t, {"ok"}) /\ Stops(s, t) /\ (t.ok => Alike(s, t))
  BY RequireIs
<1> QED BY <1>1

LEMMA AdjustStops ==
  ASSUME NEW s, DOMAIN s = Fields, NEW a, NEW x, NEW n
  PROVE  /\ Stops(s, adjust_balance(s, a, x, n))
         /\ Only(s, adjust_balance(s, a, x, n), {"balance", "ok"})
<1> DEFINE t == adjust_balance(s, a, x, n)
<1>1. Only(s, t, {"balance", "ok"}) /\ (t.ok => s.ok)
  BY AdjustFields
<1> HIDE DEF t
<1>2. Stops(s, t) /\ Only(s, t, {"balance", "ok"})
  BY <1>1 DEF Stops, Only
<1> QED BY <1>2 DEF t

LEMMA FeeIs ==
  ASSUME NEW x \in Assets, NEW n \in Nat
  PROVE  calculate_market_fee(x, n) \in Nat /\ calculate_market_fee(x, n) <= n
<1> DEFINE share == (n * MarketFeePercent[x]) \div 100
           pct == MarketFeePercent[x]
<1>1. pct \in 0 .. 100 /\ MaxMarketFee[x] \in Nat
  BY OrdersAssumption
<1> HIDE DEF pct
<1>2. n * pct \in Nat /\ n * pct <= n * 100
  BY <1>1
<1>3. share = (n * pct) \div 100
  BY DEF pct
<1> HIDE DEF share
<1>4. share \in Nat /\ share <= n
  BY <1>2, <1>3
<1>5. calculate_market_fee(x, n) = Min({share, MaxMarketFee[x]})
  BY DEF calculate_market_fee, share
<1> HIDE DEF share
<1>6. share \in Int /\ MaxMarketFee[x] \in Int
  BY <1>1, <1>4
<1>7. LET m == Min({share, MaxMarketFee[x]}) IN m \in {share, MaxMarketFee[x]} /\ m <= share
  BY <1>6, MinOfTwo
<1> QED BY <1>1, <1>4, <1>5, <1>7

LEMMA ReceiveIs ==
  ASSUME NEW s, Sound(s), NEW a \in Accounts, NEW x \in Assets, NEW n \in Nat,
         NEW t, t = Receive(s, a, x, n)
  PROVE  Moves(s, t, {"balance", "ok", "accumulated_fees"}, x, n, 0) /\ Stops(s, t)
<1> DEFINE fee == calculate_market_fee(x, n)
           u == adjust_balance(s, a, x, n - fee)
<1>1. fee \in Nat /\ fee <= n /\ n - fee \in Int
  BY FeeIs
<1>2. t = [u EXCEPT !.accumulated_fees[x] = @ + fee]
  BY DEF Receive
<1> HIDE DEF fee
<1>3. Moves(s, u, {"balance", "ok"}, x, n - fee, 0) /\ Stops(s, u)
  BY <1>1, Adjust
<1> HIDE DEF u
<1>4. DOMAIN u = Fields
  BY <1>3 DEF Stops
<1>5. Only(u, t, {"accumulated_fees"}) /\ t.ok = u.ok
      /\ t.accumulated_fees = [u.accumulated_fees EXCEPT ![x] = @ + fee]
  BY <1>2, <1>4 DEF Only, Fields
<1>6. Only(s, t, {"balance", "ok", "accumulated_fees"}) /\ Stops(s, t)
  <2>1. Only(s, u, {"balance", "ok"})
    BY <1>3 DEF Moves
  <2>2. Only(s, t, {"balance", "ok", "accumulated_fees"})
    BY <1>5, <2>1, OnlyTrans
  <2> QED BY <1>3, <1>5, <2>2 DEF Stops, Only
<1>7. SUFFICES ASSUME t.ok
               PROVE  /\ Sound(t) /\ Tot(t, x) = Tot(s, x) + n
                      /\ Tot(t, Other(x)) = Tot(s, Other(x)) + 0
  BY <1>6 DEF Moves
<1>8. Sound(u) /\ Tot(u, x) = Tot(s, x) + (n - fee) /\ Tot(u, Other(x)) = Tot(s, Other(x)) + 0
  BY <1>3, <1>5, <1>7 DEF Moves
<1>9. /\ DOMAIN t = Fields /\ t.core_in_orders = u.core_in_orders /\ t.limits = u.limits
      /\ t.calls = u.calls /\ t.settles = u.settles /\ t.bids = u.bids /\ t.supply = u.supply
      /\ t.feeds = u.feeds /\ t.feed = u.feed /\ t.published = u.published
      /\ t.settlement_price = u.settlement_price /\ t.settlement_fund = u.settlement_fund
      /\ t.force_settled_volume = u.force_settled_volume
      /\ t.balance = u.balance /\ t.fee_pool = u.fee_pool
      /\ t.paid_fees = u.paid_fees
  BY <1>5 DEF Only, Fields
<1>10. /\ t.accumulated_fees \in [Assets -> Nat]
       /\ t.accumulated_fees[x] = u.accumulated_fees[x] + fee
       /\ \A y \in Assets : y # x => t.accumulated_fees[y] = u.accumulated_fees[y]
       /\ u.accumulated_fees[x] \in Nat
  BY <1>1, <1>5, <1>8 DEF Sound
<1>11. Sound(t)
  BY <1>7, <1>8, <1>9, <1>10 DEF Sound, CoreInOrders
<1>12. Tot(t, x) = Tot(u, x) + fee /\ Tot(t, Other(x)) = Tot(u, Other(x))
  <2>1. CASE x = "core"
    <3>1. TotalCore(t) = TotalCore(u) + fee
      BY <1>1, <1>8, <1>9, <1>10, <2>1, SoundParts, AssetsAre DEF TotalCore
    <3>2. TotalMia(t) = TotalMia(u)
      BY <1>9, <1>10, <2>1, AssetsAre DEF TotalMia
    <3> QED BY <2>1, <3>1, <3>2, OtherIs
  <2>2. CASE x = "mia"
    <3>1. TotalMia(t) = TotalMia(u) + fee
      BY <1>1, <1>8, <1>9, <1>10, <2>2, SoundParts, AssetsAre DEF TotalMia
    <3>2. TotalCore(t) = TotalCore(u)
      BY <1>9, <1>10, <2>2, AssetsAre DEF TotalCore
    <3> QED BY <2>2, <3>1, <3>2, OtherIs
  <2> QED BY <2>1, <2>2, AssetsAre
<1>13. Tot(s, x) \in Int /\ Tot(s, Other(x)) \in Int
  BY SoundParts, OtherIs
<1> QED BY <1>1, <1>8, <1>11, <1>12, <1>13

-----------------------------------------------------------------------------
OrderFields ==
  {"balance", "ok", "fee_pool", "accumulated_fees", "limits", "paid_fees", "core_in_orders", "fills"}

LEMMA CancelFeeIs ==
  ASSUME NEW o \in Limits, NEW charged \in Nat, charged <= o.deferred_fee, charged # 0
  PROVE  LET paid == (o.deferred_paid_fee * charged + o.deferred_fee - 1) \div o.deferred_fee
         IN  paid \in Nat /\ paid <= o.deferred_paid_fee
<1> DEFINE p == [base |-> o.deferred_fee, quote |-> charged]
           n == o.deferred_paid_fee
<1>1. n \in Nat /\ o.deferred_fee \in Nat
  BY DEF Limits
<1>2. p.base \in Positive /\ p.quote \in Nat /\ p.base = o.deferred_fee /\ p.quote = charged
  BY <1>1 DEF Positive
<1>3. n * p.quote <= n * p.base
  BY <1>1, <1>2
<1>4. ToQuoteUp(n, p) = (n * p.quote + p.base - 1) \div p.base
  BY DEF ToQuoteUp
<1> HIDE DEF p, n
<1>5. ToQuoteUp(n, p) \in Nat /\ ToQuoteUp(n, p) <= n
  BY <1>1, <1>2, <1>3, RoundUp, UpAtMost
<1> QED BY <1>2, <1>4, <1>5 DEF n

(* The parts of cancel_limit_order.                                        *)
Charge(o, virtual) == IF virtual THEN Min({CancelFee, o.deferred_fee}) ELSE 0
ChargePaid(o, charged) ==
  IF charged = 0 THEN 0
  ELSE (o.deferred_paid_fee * charged + o.deferred_fee - 1) \div o.deferred_fee

LEMMA ChargeIs ==
  ASSUME NEW o \in Limits, NEW virtual
  PROVE  /\ Charge(o, virtual) \in Nat /\ Charge(o, virtual) <= o.deferred_fee
         /\ ChargePaid(o, Charge(o, virtual)) \in Nat
         /\ ChargePaid(o, Charge(o, virtual)) <= o.deferred_paid_fee
<1>1. CancelFee \in Nat /\ o.deferred_fee \in Nat /\ o.deferred_paid_fee \in Nat
  BY OrdersAssumption DEF Limits
<1>a. CancelFee \in Int /\ o.deferred_fee \in Int
  BY <1>1
<1>2. /\ Min({CancelFee, o.deferred_fee}) \in {CancelFee, o.deferred_fee}
      /\ Min({CancelFee, o.deferred_fee}) <= o.deferred_fee
  BY <1>a, MinOfTwo
<1>3. Charge(o, virtual) \in Nat /\ Charge(o, virtual) <= o.deferred_fee
  BY <1>1, <1>2 DEF Charge
<1> DEFINE c == Charge(o, virtual)
<1> HIDE DEF c
<1>4. c \in Nat /\ c <= o.deferred_fee
  BY <1>3 DEF c
<1>5. ChargePaid(o, c) \in Nat /\ ChargePaid(o, c) <= o.deferred_paid_fee
  <2>1. CASE c = 0
    BY <1>1, <2>1 DEF ChargePaid
  <2>2. CASE c # 0
    BY <1>4, <2>2, CancelFeeIs DEF ChargePaid
  <2> QED BY <2>1, <2>2
<1> QED BY <1>3, <1>5 DEF c

LEMMA CallSums ==
  ASSUME NEW C, Table(C, Positions)
  PROVE  \A a \in Accounts : OfPositions(C, a) \in Int
<1> SUFFICES ASSUME NEW a \in Accounts PROVE OfPositions(C, a) \in Int
  OBVIOUS
<1>1. IsFiniteSet(C) /\ \A c \in C : c.collateral \in Int
  BY DEF Table, Positions
<1>2. [c \in C |-> IF c.borrower = a THEN c.collateral ELSE 0] \in [C -> Int]
  BY <1>1
<1> QED BY <1>1, <1>2, SumIsInt DEF OfPositions

(* What is left when an order leaves the book. *)
Unlisted(s, o) ==
  [s.core_in_orders EXCEPT ![o.seller] = @ - IF o.sells = "core" THEN o.for_sale ELSE 0]

LEMMA OrderLeaves ==
  ASSUME NEW s, Sound(s), NEW o \in s.limits, NEW c, c = Unlisted(s, o)
  PROVE  LET R == Without(s.limits, o) IN
         /\ Table(R, Limits) /\ c \in [Accounts -> Int]
         /\ \A a \in Accounts : c[a] = OfOrders(R, a) + OfPositions(s.calls, a)
<1> DEFINE R == Without(s.limits, o)
<1>1. o \in Limits /\ o.seller \in Accounts /\ o.for_sale \in Int
  BY DEF Sound, Table, Limits, Positive
<1>2. /\ Table(R, Limits)
      /\ \A a \in Accounts : /\ OfOrders(s.limits, a) \in Int
                             /\ OfOrders(R, a) = OfOrders(s.limits, a) - InOrder(o, a)
  BY LimitGone DEF Sound
<1> HIDE DEF R
<1>3. c \in [Accounts -> Int]
  BY <1>1 DEF Sound, Unlisted
<1>4. \A a \in Accounts : c[a] = s.core_in_orders[a] - InOrder(o, a)
  BY <1>1 DEF Sound, InOrder, Unlisted
<1>5. \A a \in Accounts : OfPositions(s.calls, a) \in Int
  BY CallSums DEF Sound
<1>6. ASSUME NEW a \in Accounts PROVE c[a] = OfOrders(R, a) + OfPositions(s.calls, a)
  <2>1. InOrder(o, a) \in Int
    BY <1>1 DEF InOrder
  <2>2. s.core_in_orders[a] = OfOrders(s.limits, a) + OfPositions(s.calls, a)
    BY DEF Sound, CoreInOrders
  <2> QED BY <1>2, <1>4, <1>5, <2>1, <2>2
<1> QED BY <1>2, <1>3, <1>6 DEF R

(* An order leaves, and what was deferred for it goes where it may.        *)
OutFields == {"fee_pool", "accumulated_fees", "limits", "paid_fees", "core_in_orders"}

LEMMA OrderOut ==
  ASSUME NEW s, Sound(s), NEW o \in s.limits, NEW charged \in Nat, NEW pool \in Nat, NEW mia \in Nat,
         NEW t, Only(s, t, OutFields),
         t.limits = Without(s.limits, o), t.paid_fees = s.paid_fees + charged,
         t.fee_pool = s.fee_pool + pool,
         t.accumulated_fees = [s.accumulated_fees EXCEPT !["mia"] = @ + mia],
         t.core_in_orders = Unlisted(s, o)
  PROVE  /\ Sound(t)
         /\ TotalCore(t) = TotalCore(s) - Sold(o, "core") - o.deferred_fee + pool + charged
         /\ TotalMia(t) = TotalMia(s) - Sold(o, "mia") - o.deferred_paid_fee + mia
<1>1. /\ Table(t.limits, Limits) /\ t.core_in_orders \in [Accounts -> Int]
      /\ \A a \in Accounts : t.core_in_orders[a] = OfOrders(t.limits, a) + OfPositions(s.calls, a)
  <2>1. LET R == Without(s.limits, o)
            c == Unlisted(s, o)
        IN  /\ Table(R, Limits) /\ c \in [Accounts -> Int]
            /\ \A a \in Accounts : c[a] = OfOrders(R, a) + OfPositions(s.calls, a)
    BY OrderLeaves
  <2> QED BY <2>1
<1>2. /\ DOMAIN t = Fields /\ (t.ok = s.ok) /\ t.balance = s.balance
      /\ t.calls = s.calls /\ t.settles = s.settles /\ t.bids = s.bids /\ t.supply = s.supply
      /\ t.feeds = s.feeds /\ t.feed = s.feed /\ t.published = s.published
      /\ t.settlement_price = s.settlement_price /\ t.settlement_fund = s.settlement_fund
      /\ t.force_settled_volume = s.force_settled_volume
  BY DEF Only, Fields, OutFields
<1>3. /\ s.fee_pool \in Nat /\ s.paid_fees \in Nat /\ s.accumulated_fees \in [Assets -> Nat]
      /\ s.accumulated_fees["core"] \in Nat /\ s.accumulated_fees["mia"] \in Nat
  BY AssetsAre DEF Sound
<1>4. /\ t.fee_pool \in Nat /\ t.paid_fees \in Nat
      /\ t.accumulated_fees \in [Assets -> Nat]
      /\ t.accumulated_fees["core"] = s.accumulated_fees["core"]
      /\ t.accumulated_fees["mia"] = s.accumulated_fees["mia"] + mia
  BY <1>3, AssetsAre
<1>5. Sound(t)
  BY <1>1, <1>2, <1>4 DEF Sound, CoreInOrders
<1>6. /\ ForSale(t.limits, "core") = ForSale(s.limits, "core") - Sold(o, "core")
      /\ ForSale(t.limits, "mia") = ForSale(s.limits, "mia") - Sold(o, "mia")
      /\ Total(t.limits, "deferred_fee") = Total(s.limits, "deferred_fee") - o.deferred_fee
      /\ Total(t.limits, "deferred_paid_fee") = Total(s.limits, "deferred_paid_fee") - o.deferred_paid_fee
  BY LimitGone, AssetsAre DEF Sound
<1>7. /\ Sold(o, "core") \in Int /\ Sold(o, "mia") \in Int
      /\ o.deferred_fee \in Int /\ o.deferred_paid_fee \in Int
  BY DEF Sound, Table, Limits, Sold, Positive
<1>8. /\ Held(s.balance, "core") \in Int /\ Held(s.balance, "mia") \in Int
      /\ ForSale(s.limits, "core") \in Int /\ ForSale(s.limits, "mia") \in Int
      /\ Total(s.limits, "deferred_fee") \in Int /\ Total(s.limits, "deferred_paid_fee") \in Int
      /\ Total(s.calls, "collateral") \in Int /\ Total(s.settles, "balance") \in Int
      /\ Total(s.bids, "collateral") \in Int /\ s.settlement_fund \in Int
  BY SoundParts, AssetsAre
<1>9. TotalCore(t) = TotalCore(s) - Sold(o, "core") - o.deferred_fee + pool + charged
  <2>1. TotalCore(t) =
          Held(s.balance, "core") + (ForSale(s.limits, "core") - Sold(o, "core"))
          + (Total(s.limits, "deferred_fee") - o.deferred_fee) + Total(s.calls, "collateral")
          + Total(s.bids, "collateral") + s.settlement_fund + (s.fee_pool + pool)
          + (s.paid_fees + charged) + s.accumulated_fees["core"]
    BY <1>2, <1>4, <1>6 DEF TotalCore
  <2>2. TotalCore(s) =
          Held(s.balance, "core") + ForSale(s.limits, "core")
          + Total(s.limits, "deferred_fee") + Total(s.calls, "collateral")
          + Total(s.bids, "collateral") + s.settlement_fund + s.fee_pool
          + s.paid_fees + s.accumulated_fees["core"]
    BY DEF TotalCore
  <2> QED BY <1>3, <1>7, <1>8, <2>1, <2>2
<1>10. TotalMia(t) = TotalMia(s) - Sold(o, "mia") - o.deferred_paid_fee + mia
  BY <1>2, <1>3, <1>4, <1>6, <1>7, <1>8 DEF TotalMia
<1> QED BY <1>5, <1>9, <1>10

LEMMA CancelStops ==
  ASSUME NEW s, DOMAIN s = Fields, NEW o, NEW virtual
  PROVE  /\ Only(s, cancel_limit_order(s, o, virtual), OrderFields)
         /\ Stops(s, cancel_limit_order(s, o, virtual))
<1> DEFINE charged == IF virtual THEN Min({CancelFee, o.deferred_fee}) ELSE 0
           paid == IF charged = 0 THEN 0
                   ELSE (o.deferred_paid_fee * charged + o.deferred_fee - 1) \div o.deferred_fee
           r == adjust_balance(s, o.seller, o.sells, o.for_sale)
           g == adjust_balance(r, o.seller, "core", o.deferred_fee - charged)
           h == adjust_balance(r, o.seller, "mia", o.deferred_paid_fee - paid)
           f == IF o.deferred_paid_fee = 0 THEN g
                ELSE [h EXCEPT !.fee_pool = @ + o.deferred_fee - charged,
                               !.accumulated_fees["mia"] = @ + paid]
           t == [f EXCEPT !.limits = @ \ {o}, !.paid_fees = @ + charged,
                   !.core_in_orders[o.seller] = @ - IF o.sells = "core" THEN o.for_sale ELSE 0]
<1>1. cancel_limit_order(s, o, virtual) = t
  BY DEF cancel_limit_order
<1> HIDE DEF charged, paid
<1>2. Stops(s, r) /\ Only(s, r, {"balance", "ok"})
  BY AdjustStops
<1> HIDE DEF r
<1>3. DOMAIN r = Fields
  BY <1>2 DEF Stops
<1>4. Stops(r, g) /\ Only(r, g, {"balance", "ok"}) /\ Stops(r, h) /\ Only(r, h, {"balance", "ok"})
  BY <1>3, AdjustStops
<1> HIDE DEF g, h
<1>5. Stops(r, f) /\ Only(r, f, OrderFields)
  <2>1. CASE o.deferred_paid_fee = 0
    BY <1>4, <2>1 DEF Only, OrderFields
  <2>2. CASE o.deferred_paid_fee # 0
    <3>1. Only(h, f, {"fee_pool", "accumulated_fees"}) /\ Stops(h, f)
      BY <1>4, <2>2 DEF Only, Stops, Fields
    <3> QED BY <1>4, <3>1, OnlyTrans DEF OrderFields, Stops
  <2> QED BY <2>1, <2>2
<1> HIDE DEF f
<1>6. Only(f, t, OrderFields) /\ Stops(f, t)
  BY <1>5 DEF Only, Stops, Fields, OrderFields
<1> HIDE DEF t
<1>7. Only(s, t, OrderFields) /\ Stops(s, t)
  BY <1>2, <1>5, <1>6, OnlyTrans DEF OrderFields, Stops
<1> QED BY <1>1, <1>7

LEMMA CancelOrder ==
  ASSUME NEW s, Sound(s), NEW o \in s.limits, NEW virtual,
         NEW t, t = cancel_limit_order(s, o, virtual)
  PROVE  /\ Moves(s, t, OrderFields, "core", 0, 0) /\ Stops(s, t)
         /\ t.limits = Without(s.limits, o)
<1> DEFINE charged == Charge(o, virtual)
           paid == ChargePaid(o, charged)
           refunded == adjust_balance(s, o.seller, o.sells, o.for_sale)
           free == o.deferred_paid_fee = 0
           x == IF free THEN "core" ELSE "mia"
           back == IF free THEN o.deferred_fee - charged ELSE o.deferred_paid_fee - paid
           pool == IF free THEN 0 ELSE o.deferred_fee - charged
           mia == IF free THEN 0 ELSE paid
           g == adjust_balance(refunded, o.seller, x, back)
           fee == IF free THEN adjust_balance(refunded, o.seller, "core", o.deferred_fee - charged)
                  ELSE [adjust_balance(refunded, o.seller, "mia", o.deferred_paid_fee - paid)
                          EXCEPT !.fee_pool = @ + o.deferred_fee - charged,
                                 !.accumulated_fees["mia"] = @ + paid]
<1>1. o \in Limits
  BY DEF Sound, Table
<1>2. /\ o.seller \in Accounts /\ o.sells \in Assets /\ o.for_sale \in Nat /\ o.for_sale \in Int
      /\ o.deferred_fee \in Nat /\ o.deferred_paid_fee \in Nat
  BY <1>1 DEF Limits, Positive
<1>3. /\ charged \in Nat /\ charged <= o.deferred_fee
      /\ paid \in Nat /\ paid <= o.deferred_paid_fee
  BY <1>1, ChargeIs
<1>4. t = [fee EXCEPT !.limits = @ \ {o}, !.paid_fees = @ + charged,
             !.core_in_orders[o.seller] = @ - IF o.sells = "core" THEN o.for_sale ELSE 0]
  BY DEF cancel_limit_order, Charge, ChargePaid
<1> HIDE DEF charged, paid
<1>5. /\ Moves(s, refunded, {"balance", "ok"}, o.sells, o.for_sale, 0)
      /\ Stops(s, refunded)
  BY <1>2, Adjust
<1> HIDE DEF refunded
<1>6. DOMAIN refunded = Fields /\ Only(s, refunded, {"balance", "ok"}) /\ (refunded.ok => s.ok)
  BY <1>5 DEF Stops, Moves
<1>7. x \in Assets /\ back \in Nat /\ back \in Int /\ pool \in Nat /\ mia \in Nat
  BY <1>2, <1>3, AssetsAre
<1>8. /\ free => fee = g
      /\ ~free => fee = [g EXCEPT !.fee_pool = @ + o.deferred_fee - charged,
                                  !.accumulated_fees["mia"] = @ + paid]
  OBVIOUS
<1> HIDE DEF fee
<1>9. g = adjust_balance(refunded, o.seller, x, back)
  OBVIOUS
<1> HIDE DEF g, x, back
<1>10. /\ Only(refunded, g, {"balance", "ok"}) /\ (g.ok => refunded.ok) /\ DOMAIN g = Fields
  <2>1. Only(refunded, g, {"balance", "ok"}) /\ Stops(refunded, g)
    BY <1>6, <1>9, AdjustStops
  <2> QED BY <2>1 DEF Stops
<1>11. /\ Only(g, fee, {"fee_pool", "accumulated_fees"}) /\ DOMAIN fee = Fields /\ fee.ok = g.ok
       /\ fee.limits = g.limits /\ fee.paid_fees = g.paid_fees
       /\ fee.core_in_orders = g.core_in_orders
  <2>1. CASE free
    BY <1>8, <1>10, <2>1 DEF Only
  <2>2. CASE ~free
    BY <1>8, <1>10, <2>2 DEF Only, Fields
  <2> QED BY <2>1, <2>2
<1>12. /\ Only(fee, t, {"limits", "paid_fees", "core_in_orders"}) /\ t.ok = fee.ok
       /\ t.limits = Without(fee.limits, o) /\ t.paid_fees = fee.paid_fees + charged
       /\ t.core_in_orders = Unlisted(fee, o)
       /\ t.fee_pool = fee.fee_pool /\ t.accumulated_fees = fee.accumulated_fees
  <2>1. DOMAIN fee = Fields
    BY <1>11
  <2>2. Only(fee, t, {"limits", "paid_fees", "core_in_orders"}) /\ t.ok = fee.ok
        /\ t.fee_pool = fee.fee_pool /\ t.accumulated_fees = fee.accumulated_fees
    BY <1>4, <2>1 DEF Only, Fields
  <2>3. /\ t.limits = Without(fee.limits, o) /\ t.paid_fees = fee.paid_fees + charged
        /\ t.core_in_orders = Unlisted(fee, o)
    BY <1>4, <2>1 DEF Fields, Without, Unlisted
  <2> QED BY <2>2, <2>3
<1>13. Only(g, t, OutFields)
  BY <1>11, <1>12, OnlyTrans DEF OutFields
<1>14. Only(s, g, {"balance", "ok"})
  BY <1>6, <1>10, OnlyTrans
<1>15. Only(s, t, OrderFields)
  BY <1>13, <1>14, OnlyTrans DEF OutFields, OrderFields
<1>16. g.limits = s.limits
  BY <1>14 DEF Only, Fields
<1>17. Stops(s, t) /\ t.limits = Without(s.limits, o)
  BY <1>6, <1>10, <1>11, <1>12, <1>16 DEF Stops, Only
<1>18. SUFFICES ASSUME t.ok
                PROVE  Sound(t) /\ TotalCore(t) = TotalCore(s) /\ TotalMia(t) = TotalMia(s)
  <2>1. TotalCore(s) \in Int /\ TotalMia(s) \in Int
    BY SoundParts
  <2>2. TotalCore(t) = TotalCore(s) /\ TotalMia(t) = TotalMia(s)
        => Tot(t, "core") = Tot(s, "core") + 0 /\ Tot(t, Other("core")) = Tot(s, Other("core")) + 0
    BY <2>1, OtherIs
  <2> QED BY <1>15, <1>17, <2>2 DEF Moves
<1>19. Sound(refunded) /\ Tot(refunded, o.sells) = Tot(s, o.sells) + o.for_sale
       /\ Tot(refunded, Other(o.sells)) = Tot(s, Other(o.sells)) + 0
  BY <1>5, <1>10, <1>11, <1>12, <1>18 DEF Moves
<1>20. Sound(g) /\ Tot(g, x) = Tot(refunded, x) + back
       /\ Tot(g, Other(x)) = Tot(refunded, Other(x)) + 0
  <2>1. Moves(refunded, g, {"balance", "ok"}, x, back, 0)
    BY <1>2, <1>7, <1>9, <1>19, Adjust
  <2> QED BY <1>11, <1>12, <1>18, <2>1 DEF Moves
<1>21. /\ t.fee_pool = g.fee_pool + pool
       /\ t.accumulated_fees = [g.accumulated_fees EXCEPT !["mia"] = @ + mia]
  <2>1. DOMAIN g = Fields /\ g.fee_pool \in Nat /\ g.accumulated_fees \in [Assets -> Nat]
    BY <1>20 DEF Sound
  <2>2. CASE free
    <3>1. t.fee_pool = g.fee_pool /\ t.accumulated_fees = g.accumulated_fees
      BY <1>8, <1>12, <2>2
    <3> QED BY <2>1, <2>2, <3>1, AssetsAre
  <2>3. CASE ~free
    <3>1. /\ fee.fee_pool = g.fee_pool + o.deferred_fee - charged
          /\ fee.accumulated_fees = [g.accumulated_fees EXCEPT !["mia"] = @ + paid]
      BY <1>8, <2>1, <2>3 DEF Fields
    <3>2. t.fee_pool = g.fee_pool + o.deferred_fee - charged
          /\ t.accumulated_fees = [g.accumulated_fees EXCEPT !["mia"] = @ + paid]
      BY <1>12, <3>1
    <3> QED BY <1>2, <1>3, <2>1, <2>3, <3>2
  <2> QED BY <2>2, <2>3
<1>22. /\ t.limits = Without(g.limits, o) /\ t.paid_fees = g.paid_fees + charged
       /\ t.core_in_orders = Unlisted(g, o)
       /\ o \in g.limits
  BY <1>11, <1>12, <1>16 DEF Unlisted
<1> HIDE DEF pool, mia
<1>23. /\ Sound(t)
       /\ TotalCore(t) = TotalCore(g) - Sold(o, "core") - o.deferred_fee + pool + charged
       /\ TotalMia(t) = TotalMia(g) - Sold(o, "mia") - o.deferred_paid_fee + mia
  BY <1>3, <1>7, <1>13, <1>20, <1>21, <1>22, OrderOut
<1>24. Sold(o, "core") = (IF o.sells = "core" THEN o.for_sale ELSE 0)
       /\ Sold(o, "mia") = (IF o.sells = "mia" THEN o.for_sale ELSE 0)
  BY DEF Sold
<1>25. TotalCore(s) \in Int /\ TotalMia(s) \in Int
  BY SoundParts
<1>26. /\ TotalCore(refunded) = TotalCore(s) + Sold(o, "core")
       /\ TotalMia(refunded) = TotalMia(s) + Sold(o, "mia")
  <2>1. CASE o.sells = "core"
    BY <1>19, <1>24, <1>25, <2>1, OtherIs
  <2>2. CASE o.sells = "mia"
    BY <1>19, <1>24, <1>25, <2>2, OtherIs
  <2> QED BY <1>2, <2>1, <2>2, AssetsAre
<1>27. Sold(o, "core") \in Int /\ Sold(o, "mia") \in Int
  BY <1>2, <1>24
<1>28. TotalCore(t) = TotalCore(s) /\ TotalMia(t) = TotalMia(s)
  <2>1. CASE free
    <3>1. /\ TotalCore(g) = TotalCore(refunded) + (o.deferred_fee - charged)
          /\ TotalMia(g) = TotalMia(refunded) + 0
      BY <1>20, <2>1, OtherIs DEF x, back
    <3>2. pool = 0 /\ mia = 0 /\ o.deferred_paid_fee = 0
      BY <2>1 DEF pool, mia
    <3> QED BY <1>2, <1>3, <1>23, <1>25, <1>26, <1>27, <3>1, <3>2
  <2>2. CASE ~free
    <3>1. /\ TotalMia(g) = TotalMia(refunded) + (o.deferred_paid_fee - paid)
          /\ TotalCore(g) = TotalCore(refunded) + 0
      BY <1>20, <2>2, OtherIs DEF x, back
    <3>2. pool = o.deferred_fee - charged /\ mia = paid
      BY <2>2 DEF pool, mia
    <3> QED BY <1>2, <1>3, <1>23, <1>25, <1>26, <1>27, <3>1, <3>2
  <2> QED BY <2>1, <2>2
<1> QED BY <1>23, <1>28

-----------------------------------------------------------------------------
LEMMA MovesNothing ==
  ASSUME NEW s, Sound(s), NEW F, NEW t, Only(s, t, F), Alike(s, t)
  PROVE  Moves(s, t, F, "core", 0, 0)
<1>1. Sound(t) /\ \A x : Tot(t, x) = Tot(s, x)
  BY AlikeSound
<1>2. Tot(s, "core") \in Int /\ Tot(s, Other("core")) \in Int
  BY SoundParts, OtherIs, AssetsAre
<1> QED BY <1>1, <1>2 DEF Moves

LEMMA MovesZero ==
  ASSUME NEW s, Sound(s), NEW F, NEW t, Moves(s, t, F, "core", 0, 0), t.ok
  PROVE  Sound(t) /\ \A x \in Assets : Tot(t, x) = Tot(s, x) /\ Tot(s, x) \in Int
<1>1. \A x \in Assets : Tot(s, x) \in Int
  BY SoundParts
<1>2. Tot(t, "core") = Tot(s, "core") /\ Tot(t, "mia") = Tot(s, "mia") /\ Sound(t)
  BY <1>1, OtherIs, AssetsAre DEF Moves
<1> QED BY <1>1, <1>2, AssetsAre

LEMMA SameMoves ==
  ASSUME NEW s, Sound(s), NEW F, NEW t, Only(s, t, F),
         t.ok => Sound(t) /\ \A x \in Assets : Tot(t, x) = Tot(s, x)
  PROVE  Moves(s, t, F, "core", 0, 0)
<1>1. Tot(s, "core") \in Int /\ Tot(s, "mia") \in Int
  BY SoundParts, AssetsAre
<1>2. ASSUME t.ok
      PROVE  /\ Sound(t) /\ Tot(t, "core") = Tot(s, "core") + 0
             /\ Tot(t, "mia") = Tot(s, "mia") + 0
  <2>1. Sound(t) /\ Tot(t, "core") = Tot(s, "core") /\ Tot(t, "mia") = Tot(s, "mia")
    BY <1>2, AssetsAre
  <2> QED BY <1>1, <2>1
<1> QED BY <1>2, OtherIs DEF Moves

LEMMA CullStops ==
  ASSUME NEW s, DOMAIN s = Fields, NEW o
  PROVE  /\ Only(s, maybe_cull_small_order(s, o), OrderFields)
         /\ Stops(s, maybe_cull_small_order(s, o))
<1>1. Only(s, s, OrderFields) /\ Stops(s, s)
  BY DEF Only, Stops
<1> QED BY <1>1, CancelStops DEF maybe_cull_small_order

LEMMA CullOrder ==
  ASSUME NEW s, Sound(s), NEW o \in s.limits, NEW t, t = maybe_cull_small_order(s, o)
  PROVE  /\ Moves(s, t, OrderFields, "core", 0, 0) /\ Stops(s, t)
         /\ t.limits = s.limits \/ t.limits = Without(s.limits, o)
<1>1. CASE amount_to_receive(o) = 0
  <2>1. t = cancel_limit_order(s, o, TRUE)
    BY <1>1 DEF maybe_cull_small_order
  <2> QED BY <2>1, CancelOrder
<1>2. CASE amount_to_receive(o) # 0
  <2>1. t = s
    BY <1>2 DEF maybe_cull_small_order
  <2>2. Only(s, t, OrderFields) /\ Alike(s, t) /\ Stops(s, t)
    BY <2>1 DEF Only, Alike, Sound, Stops
  <2> QED BY <2>1, <2>2, MovesNothing
<1> QED BY <1>1, <1>2

(* What is left of an order of which a part is filled.                     *)
Rest(o, pays) == [o EXCEPT !.for_sale = @ - pays, !.deferred_fee = 0, !.deferred_paid_fee = 0]
Paying(s, o, pays) ==
  [s.core_in_orders EXCEPT ![o.seller] = @ - IF o.sells = "core" THEN pays ELSE 0]

LEMMA RestIs ==
  ASSUME NEW o \in Limits, NEW pays \in Nat, pays < o.for_sale
  PROVE  /\ Rest(o, pays) \in Limits /\ Rest(o, pays).id = o.id
         /\ Rest(o, pays).deferred_fee = 0 /\ Rest(o, pays).deferred_paid_fee = 0
         /\ \A x : Sold(Rest(o, pays), x) = IF o.sells = x THEN o.for_sale - pays ELSE 0
         /\ \A a : InOrder(Rest(o, pays), a) =
                     IF o.sells = "core" /\ o.seller = a THEN o.for_sale - pays ELSE 0
<1>1. Rest(o, pays) \in Limits
  <2>1. o.for_sale - pays \in Positive
    BY DEF Limits, Positive
  <2>2. \A x \in Limits, n \in Positive : [x EXCEPT !.for_sale = n] \in Limits
    BY DEF Limits
  <2>3. \A x \in Limits, n \in Nat : [x EXCEPT !.deferred_fee = n] \in Limits
    BY DEF Limits
  <2>4. \A x \in Limits, n \in Nat : [x EXCEPT !.deferred_paid_fee = n] \in Limits
    BY DEF Limits
  <2>5. Rest(o, pays) =
          [[[o EXCEPT !.for_sale = o.for_sale - pays] EXCEPT !.deferred_fee = 0]
             EXCEPT !.deferred_paid_fee = 0]
    BY DEF Rest
  <2> DEFINE a == [o EXCEPT !.for_sale = o.for_sale - pays]
             b == [a EXCEPT !.deferred_fee = 0]
             c == [b EXCEPT !.deferred_paid_fee = 0]
  <2>6. a \in Limits
    BY <2>1, <2>2
  <2> HIDE DEF a
  <2>7. b \in Limits
    BY <2>3, <2>6
  <2> HIDE DEF b
  <2>8. c \in Limits
    BY <2>4, <2>7
  <2> QED BY <2>5, <2>8 DEF a, b
<1>2. /\ Rest(o, pays).id = o.id /\ Rest(o, pays).seller = o.seller
      /\ Rest(o, pays).sells = o.sells /\ Rest(o, pays).for_sale = o.for_sale - pays
      /\ Rest(o, pays).deferred_fee = 0 /\ Rest(o, pays).deferred_paid_fee = 0
  BY DEF Rest, Limits
<1>3. \A x : Sold(Rest(o, pays), x) = IF o.sells = x THEN o.for_sale - pays ELSE 0
  BY <1>2, Zenon DEF Sold
<1>4. \A a : InOrder(Rest(o, pays), a) =
               IF o.sells = "core" /\ o.seller = a THEN o.for_sale - pays ELSE 0
  BY <1>2, Zenon DEF InOrder
<1> QED BY <1>1, <1>2, <1>3, <1>4

PaidFields == {"accumulated_fees", "limits", "paid_fees", "core_in_orders"}

LEMMA OrderStays ==
  ASSUME NEW s, Sound(s), NEW o \in s.limits, NEW pays \in Nat, pays < o.for_sale,
         NEW t, Only(s, t, PaidFields),
         t.limits = With(Without(s.limits, o), Rest(o, pays)),
         t.paid_fees = s.paid_fees + o.deferred_fee,
         t.accumulated_fees = [s.accumulated_fees EXCEPT !["mia"] = @ + o.deferred_paid_fee],
         t.core_in_orders = Paying(s, o, pays)
  PROVE  /\ Sound(t)
         /\ TotalCore(t) = TotalCore(s) - IF o.sells = "core" THEN pays ELSE 0
         /\ TotalMia(t) = TotalMia(s) - IF o.sells = "mia" THEN pays ELSE 0
<1> DEFINE R == Without(s.limits, o)
           y == Rest(o, pays)
           N == With(R, y)
<1>1. /\ o \in Limits /\ o.seller \in Accounts /\ o.for_sale \in Nat /\ o.sells \in Assets
      /\ o.deferred_fee \in Nat /\ o.deferred_paid_fee \in Nat
  BY DEF Sound, Table, Limits, Positive
<1>2. /\ y \in Limits /\ y.id = o.id /\ y.deferred_fee = 0 /\ y.deferred_paid_fee = 0
      /\ \A x : Sold(y, x) = IF o.sells = x THEN o.for_sale - pays ELSE 0
      /\ \A a : InOrder(y, a) = IF o.sells = "core" /\ o.seller = a THEN o.for_sale - pays ELSE 0
  BY <1>1, RestIs
<1>3. /\ Table(R, Limits)
      /\ \A x \in Assets : /\ ForSale(s.limits, x) \in Int
                          /\ ForSale(R, x) = ForSale(s.limits, x) - Sold(o, x)
      /\ \A a \in Accounts : /\ OfOrders(s.limits, a) \in Int
                            /\ OfOrders(R, a) = OfOrders(s.limits, a) - InOrder(o, a)
      /\ Total(s.limits, "deferred_fee") \in Int /\ Total(s.limits, "deferred_paid_fee") \in Int
      /\ Total(R, "deferred_fee") = Total(s.limits, "deferred_fee") - o.deferred_fee
      /\ Total(R, "deferred_paid_fee") = Total(s.limits, "deferred_paid_fee") - o.deferred_paid_fee
  BY LimitGone DEF Sound
<1>4. \A x \in R : x.id # y.id
  BY <1>2, TableGone DEF Sound
<1> HIDE DEF R, y
<1>5. /\ Table(N, Limits)
      /\ \A x \in Assets : /\ ForSale(R, x) \in Int
                          /\ ForSale(N, x) = ForSale(R, x) + Sold(y, x)
      /\ \A a \in Accounts : /\ OfOrders(R, a) \in Int
                            /\ OfOrders(N, a) = OfOrders(R, a) + InOrder(y, a)
      /\ Total(R, "deferred_fee") \in Int /\ Total(R, "deferred_paid_fee") \in Int
      /\ Total(N, "deferred_fee") = Total(R, "deferred_fee") + y.deferred_fee
      /\ Total(N, "deferred_paid_fee") = Total(R, "deferred_paid_fee") + y.deferred_paid_fee
  BY <1>2, <1>3, <1>4, LimitNew
<1>6. t.limits = N
  BY DEF R, y
<1> HIDE DEF N
<1>7. /\ DOMAIN t = Fields /\ (t.ok = s.ok) /\ t.balance = s.balance
      /\ t.calls = s.calls /\ t.settles = s.settles /\ t.bids = s.bids /\ t.supply = s.supply
      /\ t.feeds = s.feeds /\ t.feed = s.feed /\ t.published = s.published
      /\ t.settlement_price = s.settlement_price /\ t.settlement_fund = s.settlement_fund
      /\ t.force_settled_volume = s.force_settled_volume /\ t.fee_pool = s.fee_pool
  BY DEF Only, Fields, PaidFields
<1>8. /\ s.fee_pool \in Nat /\ s.paid_fees \in Nat /\ s.accumulated_fees \in [Assets -> Nat]
      /\ s.accumulated_fees["core"] \in Nat /\ s.accumulated_fees["mia"] \in Nat
      /\ s.core_in_orders \in [Accounts -> Int]
  BY AssetsAre DEF Sound
<1>9. /\ t.paid_fees \in Nat
      /\ t.accumulated_fees \in [Assets -> Nat]
      /\ t.accumulated_fees["core"] = s.accumulated_fees["core"]
      /\ t.accumulated_fees["mia"] = s.accumulated_fees["mia"] + o.deferred_paid_fee
  BY <1>1, <1>8, AssetsAre
<1>10. t.core_in_orders \in [Accounts -> Int]
  BY <1>1, <1>8 DEF Paying
<1>11. ASSUME NEW a \in Accounts
       PROVE  t.core_in_orders[a] = OfOrders(N, a) + OfPositions(s.calls, a)
  <2>1. s.core_in_orders[a] = OfOrders(s.limits, a) + OfPositions(s.calls, a)
    BY DEF Sound, CoreInOrders
  <2>2. OfPositions(s.calls, a) \in Int
    BY CallSums DEF Sound
  <2>3. OfOrders(N, a) = OfOrders(s.limits, a) - InOrder(o, a) + InOrder(y, a)
        /\ OfOrders(s.limits, a) \in Int
    BY <1>3, <1>5
  <2>4. CASE o.sells = "core" /\ o.seller = a
    <3>1. t.core_in_orders[a] = s.core_in_orders[a] - pays
      BY <1>8, <2>4 DEF Paying
    <3>2. InOrder(o, a) = o.for_sale /\ InOrder(y, a) = o.for_sale - pays
      BY <1>2, <2>4 DEF InOrder
    <3> QED BY <1>1, <2>1, <2>2, <2>3, <3>1, <3>2
  <2>5. CASE ~(o.sells = "core" /\ o.seller = a)
    <3>1. t.core_in_orders[a] = s.core_in_orders[a]
      BY <1>8, <2>5 DEF Paying
    <3>2. InOrder(o, a) = 0 /\ InOrder(y, a) = 0
      BY <1>2, <2>5 DEF InOrder
    <3> QED BY <1>1, <2>1, <2>2, <2>3, <3>1, <3>2
  <2> QED BY <2>4, <2>5
<1>12. Sound(t)
  BY <1>5, <1>6, <1>7, <1>9, <1>10, <1>11 DEF Sound, CoreInOrders
<1>13. /\ Held(s.balance, "core") \in Int /\ Held(s.balance, "mia") \in Int
       /\ ForSale(s.limits, "core") \in Int /\ ForSale(s.limits, "mia") \in Int
       /\ Total(s.limits, "deferred_fee") \in Int /\ Total(s.limits, "deferred_paid_fee") \in Int
       /\ Total(s.calls, "collateral") \in Int /\ Total(s.settles, "balance") \in Int
       /\ Total(s.bids, "collateral") \in Int /\ s.settlement_fund \in Int
  BY SoundParts, AssetsAre
<1>14. /\ ForSale(N, "core") = ForSale(s.limits, "core") - IF o.sells = "core" THEN pays ELSE 0
       /\ ForSale(N, "mia") = ForSale(s.limits, "mia") - IF o.sells = "mia" THEN pays ELSE 0
  <2>1. ASSUME NEW x \in Assets
        PROVE  ForSale(N, x) = ForSale(s.limits, x) - IF o.sells = x THEN pays ELSE 0
    <3>1. ForSale(N, x) = ForSale(s.limits, x) - Sold(o, x) + Sold(y, x)
          /\ ForSale(s.limits, x) \in Int
      BY <1>3, <1>5
    <3>2. CASE o.sells = x
      <4>1. Sold(o, x) = o.for_sale /\ Sold(y, x) = o.for_sale - pays
        BY <1>2, <3>2 DEF Sold
      <4> QED BY <1>1, <3>1, <3>2, <4>1
    <3>3. CASE o.sells # x
      <4>1. Sold(o, x) = 0 /\ Sold(y, x) = 0
        BY <1>2, <3>3 DEF Sold
      <4> QED BY <1>1, <3>1, <3>3, <4>1
    <3> QED BY <3>2, <3>3
  <2> QED BY <2>1, AssetsAre
<1>15. /\ Total(N, "deferred_fee") = Total(s.limits, "deferred_fee") - o.deferred_fee
       /\ Total(N, "deferred_paid_fee") = Total(s.limits, "deferred_paid_fee") - o.deferred_paid_fee
  BY <1>1, <1>2, <1>3, <1>5
<1>16. TotalCore(t) = TotalCore(s) - IF o.sells = "core" THEN pays ELSE 0
  <2> DEFINE d == IF o.sells = "core" THEN pays ELSE 0
  <2>1. TotalCore(t) =
          Held(s.balance, "core") + (ForSale(s.limits, "core") - d)
          + (Total(s.limits, "deferred_fee") - o.deferred_fee) + Total(s.calls, "collateral")
          + Total(s.bids, "collateral") + s.settlement_fund + s.fee_pool
          + (s.paid_fees + o.deferred_fee) + s.accumulated_fees["core"]
    BY <1>6, <1>7, <1>9, <1>14, <1>15 DEF TotalCore
  <2>2. TotalCore(s) =
          Held(s.balance, "core") + ForSale(s.limits, "core")
          + Total(s.limits, "deferred_fee") + Total(s.calls, "collateral")
          + Total(s.bids, "collateral") + s.settlement_fund + s.fee_pool
          + s.paid_fees + s.accumulated_fees["core"]
    BY DEF TotalCore
  <2>3. d \in Int
    OBVIOUS
  <2> HIDE DEF d
  <2>4. TotalCore(t) = TotalCore(s) - d
    BY <1>1, <1>8, <1>13, <2>1, <2>2, <2>3
  <2> QED BY <2>4 DEF d
<1>17. TotalMia(t) = TotalMia(s) - IF o.sells = "mia" THEN pays ELSE 0
  <2> DEFINE d == IF o.sells = "mia" THEN pays ELSE 0
  <2>1. TotalMia(t) =
          Held(s.balance, "mia") + (ForSale(s.limits, "mia") - d)
          + (Total(s.limits, "deferred_paid_fee") - o.deferred_paid_fee)
          + Total(s.settles, "balance") + (s.accumulated_fees["mia"] + o.deferred_paid_fee)
    BY <1>6, <1>7, <1>9, <1>14, <1>15 DEF TotalMia
  <2>2. TotalMia(s) =
          Held(s.balance, "mia") + ForSale(s.limits, "mia")
          + Total(s.limits, "deferred_paid_fee")
          + Total(s.settles, "balance") + s.accumulated_fees["mia"]
    BY DEF TotalMia
  <2>3. d \in Int
    OBVIOUS
  <2> HIDE DEF d
  <2>4. TotalMia(t) = TotalMia(s) - d
    BY <1>1, <1>8, <1>13, <2>1, <2>2, <2>3
  <2> QED BY <2>4 DEF d
<1> QED BY <1>12, <1>16, <1>17

LEMMA ReceiveStops ==
  ASSUME NEW s, DOMAIN s = Fields, NEW a, NEW x, NEW n
  PROVE  /\ Only(s, Receive(s, a, x, n), {"balance", "ok", "accumulated_fees"})
         /\ Stops(s, Receive(s, a, x, n))
<1> DEFINE fee == calculate_market_fee(x, n)
           u == adjust_balance(s, a, x, n - fee)
           t == [u EXCEPT !.accumulated_fees[x] = @ + fee]
<1>1. Receive(s, a, x, n) = t
  BY DEF Receive
<1> HIDE DEF fee
<1>2. Stops(s, u) /\ Only(s, u, {"balance", "ok"})
  BY AdjustStops
<1> HIDE DEF u
<1>3. Stops(u, t) /\ Only(u, t, {"accumulated_fees"})
  BY <1>2 DEF Stops, Only, Fields
<1> HIDE DEF t
<1> QED BY <1>1, <1>2, <1>3, OnlyTrans DEF Stops

(* The parts of fill_limit_order.                                          *)
Paid(s, o, pays, receives) ==
  [Filled(Receive(s, o.seller, Other(o.sells), receives), o.price, pays, receives) EXCEPT
     !.core_in_orders[o.seller] = @ - IF o.sells = "core" THEN pays ELSE 0,
     !.paid_fees = @ + o.deferred_fee,
     !.accumulated_fees["mia"] = @ + o.deferred_paid_fee,
     !.limits = (@ \ {o}) \cup IF pays = o.for_sale THEN {} ELSE {Rest(o, pays)}]

LEMMA FillIs ==
  ASSUME NEW s, NEW o, NEW pays, NEW receives, NEW cull
  PROVE  fill_limit_order(s, o, pays, receives, cull) =
           IF cull /\ pays # o.for_sale
             THEN maybe_cull_small_order(Paid(s, o, pays, receives), Rest(o, pays))
             ELSE Paid(s, o, pays, receives)
BY DEF fill_limit_order, Rest, Paid

LEMMA PaidStops ==
  ASSUME NEW s, DOMAIN s = Fields, NEW o, NEW pays, NEW receives
  PROVE  LET r == Receive(s, o.seller, Other(o.sells), receives)
             f == Filled(r, o.price, pays, receives)
             g == Paid(s, o, pays, receives)
         IN  /\ Stops(s, r) /\ Only(s, r, {"balance", "ok", "accumulated_fees"})
             /\ Stops(r, f) /\ Only(s, f, {"balance", "ok", "accumulated_fees", "fills"})
             /\ Alike(r, f)
             /\ Stops(s, g) /\ Only(s, g, OrderFields) /\ (g.ok <=> f.ok)
             /\ Only(f, g, PaidFields)
             /\ g.limits = (f.limits \ {o}) \cup IF pays = o.for_sale THEN {} ELSE {Rest(o, pays)}
             /\ g.paid_fees = f.paid_fees + o.deferred_fee
             /\ g.accumulated_fees =
                  [f.accumulated_fees EXCEPT !["mia"] = @ + o.deferred_paid_fee]
             /\ g.core_in_orders = Paying(f, o, pays) /\ g.fee_pool = f.fee_pool
<1> DEFINE left == Rest(o, pays)
           r == Receive(s, o.seller, Other(o.sells), receives)
           f == Filled(r, o.price, pays, receives)
           g == [f EXCEPT
                   !.core_in_orders[o.seller] = @ - IF o.sells = "core" THEN pays ELSE 0,
                   !.paid_fees = @ + o.deferred_fee,
                   !.accumulated_fees["mia"] = @ + o.deferred_paid_fee,
                   !.limits = (@ \ {o}) \cup IF pays = o.for_sale THEN {} ELSE {left}]
<1>1. Paid(s, o, pays, receives) = g
  BY DEF Paid
<1>2. Only(s, r, {"balance", "ok", "accumulated_fees"}) /\ Stops(s, r)
  BY ReceiveStops
<1> HIDE DEF r
<1>3. DOMAIN r = Fields
  BY <1>2 DEF Stops
<1>4. Only(r, f, {"fills"}) /\ Alike(r, f) /\ Stops(r, f)
  BY <1>3, FilledIs
<1> HIDE DEF f, left
<1>5. DOMAIN f = Fields
  BY <1>4 DEF Stops
<1>6. /\ Only(f, g, PaidFields) /\ (g.ok <=> f.ok)
      /\ g.limits = (f.limits \ {o}) \cup IF pays = o.for_sale THEN {} ELSE {left}
      /\ g.paid_fees = f.paid_fees + o.deferred_fee
      /\ g.accumulated_fees = [f.accumulated_fees EXCEPT !["mia"] = @ + o.deferred_paid_fee]
      /\ g.core_in_orders = Paying(f, o, pays) /\ g.fee_pool = f.fee_pool
  BY <1>5 DEF Only, Fields, PaidFields, Paying
<1> HIDE DEF g
<1>7. Only(s, f, {"balance", "ok", "accumulated_fees", "fills"})
  BY <1>2, <1>4, OnlyTrans
<1>8. Only(s, g, OrderFields)
  BY <1>6, <1>7, OnlyTrans DEF PaidFields, OrderFields
<1>9. Stops(s, g)
  BY <1>2, <1>4, <1>6 DEF Stops, Only
<1> QED BY <1>1, <1>2, <1>4, <1>6, <1>7, <1>8, <1>9 DEF f, r, left

LEMMA FillStops ==
  ASSUME NEW s, DOMAIN s = Fields, NEW o, NEW pays, NEW receives, NEW cull
  PROVE  /\ Only(s, fill_limit_order(s, o, pays, receives, cull), OrderFields)
         /\ Stops(s, fill_limit_order(s, o, pays, receives, cull))
<1> DEFINE g == Paid(s, o, pays, receives)
           t == maybe_cull_small_order(g, Rest(o, pays))
<1>1. Stops(s, g) /\ Only(s, g, OrderFields)
  BY PaidStops
<1> HIDE DEF g
<1>2. Only(g, t, OrderFields) /\ Stops(g, t)
  BY <1>1, CullStops DEF Stops
<1> HIDE DEF t
<1>3. Only(s, t, OrderFields) /\ Stops(s, t)
  BY <1>1, <1>2, OnlyTrans DEF Stops
<1> QED BY <1>1, <1>3, FillIs DEF g, t

LEMMA FillOrder ==
  ASSUME NEW s, Sound(s), NEW o \in s.limits, NEW pays \in Nat, pays <= o.for_sale,
         NEW receives \in Nat, NEW cull, NEW t, t = fill_limit_order(s, o, pays, receives, cull)
  PROVE  /\ Moves(s, t, OrderFields, o.sells, 0 - pays, receives) /\ Stops(s, t)
         /\ t.ok => \A x \in s.limits : x.id # o.id => x \in t.limits
<1> DEFINE left == Rest(o, pays)
           r == Receive(s, o.seller, Other(o.sells), receives)
           f == Filled(r, o.price, pays, receives)
           g == Paid(s, o, pays, receives)
<1>0. DOMAIN s = Fields
  BY DEF Sound
<1>1. /\ o \in Limits /\ o.seller \in Accounts /\ o.for_sale \in Nat /\ o.sells \in Assets
      /\ o.deferred_fee \in Nat /\ o.deferred_paid_fee \in Nat /\ Other(o.sells) \in Assets
  BY OtherIs DEF Sound, Table, Limits, Positive
<1>2. t = IF cull /\ pays # o.for_sale THEN maybe_cull_small_order(g, left) ELSE g
  BY FillIs
<1>3. Moves(s, r, {"balance", "ok", "accumulated_fees"}, Other(o.sells), receives, 0)
  BY <1>1, ReceiveIs
<1>4. /\ Stops(s, r) /\ Only(s, r, {"balance", "ok", "accumulated_fees"})
      /\ Stops(r, f) /\ Only(s, f, {"balance", "ok", "accumulated_fees", "fills"})
      /\ Alike(r, f)
      /\ Stops(s, g) /\ Only(s, g, OrderFields) /\ (g.ok <=> f.ok)
      /\ Only(f, g, PaidFields)
      /\ g.limits = (f.limits \ {o}) \cup IF pays = o.for_sale THEN {} ELSE {left}
      /\ g.paid_fees = f.paid_fees + o.deferred_fee
      /\ g.accumulated_fees = [f.accumulated_fees EXCEPT !["mia"] = @ + o.deferred_paid_fee]
      /\ g.core_in_orders = Paying(f, o, pays) /\ g.fee_pool = f.fee_pool
  BY <1>0, PaidStops
<1> HIDE DEF r, f, g
<1>11. f.limits = s.limits
  BY <1>4 DEF Only, Fields
<1>12. ASSUME g.ok
       PROVE  /\ Sound(g) /\ Tot(g, o.sells) = Tot(s, o.sells) + (0 - pays)
              /\ Tot(g, Other(o.sells)) = Tot(s, Other(o.sells)) + receives
  <2>1. r.ok
    BY <1>4, <1>12 DEF Stops
  <2>2. /\ Sound(r) /\ Tot(r, Other(o.sells)) = Tot(s, Other(o.sells)) + receives
        /\ Tot(r, o.sells) = Tot(s, o.sells) + 0
    <3>1. Other(Other(o.sells)) = o.sells
      BY <1>1, OtherIs
    <3> QED BY <1>3, <2>1, <3>1 DEF Moves
  <2>3. Sound(f) /\ \A x : Tot(f, x) = Tot(r, x)
    BY <1>4, <2>2, AlikeSound
  <2>4. Tot(s, o.sells) \in Int /\ Tot(s, Other(o.sells)) \in Int
    BY <1>1, SoundParts
  <2>5. o \in f.limits
    BY <1>11
  <2>6. /\ Sound(g)
        /\ TotalCore(g) = TotalCore(f) - (IF o.sells = "core" THEN pays ELSE 0)
        /\ TotalMia(g) = TotalMia(f) - (IF o.sells = "mia" THEN pays ELSE 0)
    <3>1. TotalCore(f) \in Int /\ TotalMia(f) \in Int
      BY <2>3, SoundParts
    <3>2. CASE pays = o.for_sale
      <4>1. g.limits = Without(f.limits, o) /\ Paying(f, o, pays) = Unlisted(f, o)
        BY <1>4, <3>2 DEF Without, Paying, Unlisted
      <4>2. Only(f, g, OutFields)
        BY <1>4 DEF Only, PaidFields, OutFields
      <4>3. f.fee_pool \in Nat /\ g.fee_pool = f.fee_pool + 0
        BY <1>4, <2>3 DEF Sound
      <4>4. /\ Sound(g)
            /\ TotalCore(g) = TotalCore(f) - Sold(o, "core") - o.deferred_fee + 0 + o.deferred_fee
            /\ TotalMia(g) = TotalMia(f) - Sold(o, "mia") - o.deferred_paid_fee + o.deferred_paid_fee
        BY <1>1, <1>4, <2>3, <2>5, <4>1, <4>2, <4>3, OrderOut
      <4>5. /\ Sold(o, "core") = (IF o.sells = "core" THEN pays ELSE 0)
            /\ Sold(o, "mia") = (IF o.sells = "mia" THEN pays ELSE 0)
            /\ Sold(o, "core") \in Int /\ Sold(o, "mia") \in Int
        BY <1>1, <3>2 DEF Sold
      <4> QED BY <1>1, <3>1, <4>4, <4>5
    <3>3. CASE pays # o.for_sale
      <4>1. g.limits = With(Without(f.limits, o), Rest(o, pays)) /\ pays < o.for_sale
        BY <1>1, <1>4, <3>3 DEF Without, With
      <4> QED BY <1>4, <2>3, <2>5, <4>1, OrderStays
    <3> QED BY <3>2, <3>3
  <2>7. CASE o.sells = "core"
    BY <2>2, <2>3, <2>4, <2>6, <2>7, OtherIs
  <2>8. CASE o.sells = "mia"
    BY <2>2, <2>3, <2>4, <2>6, <2>8, OtherIs
  <2> QED BY <1>1, <2>7, <2>8, AssetsAre
<1>13. \A x \in s.limits : x.id # o.id => x \in g.limits
  BY <1>4, <1>11
<1>14. CASE ~(cull /\ pays # o.for_sale)
  <2>1. t = g
    BY <1>2, <1>14
  <2> QED BY <1>4, <1>12, <1>13, <2>1 DEF Moves
<1>15. CASE cull /\ pays # o.for_sale
  <2>1. t = maybe_cull_small_order(g, left)
    BY <1>2, <1>15
  <2>2. left \in g.limits
    BY <1>4, <1>15
  <2>3. left.id = o.id
    BY <1>1, <1>15, RestIs
  <2>4. DOMAIN g = Fields
    BY <1>4 DEF Stops
  <2>5. Only(g, t, OrderFields) /\ Stops(g, t)
    BY <2>1, <2>4, CullStops
  <2>6. Only(s, t, OrderFields) /\ Stops(s, t)
    BY <1>4, <2>5, OnlyTrans DEF Stops
  <2>7. ASSUME t.ok
        PROVE  /\ Sound(t) /\ Tot(t, o.sells) = Tot(s, o.sells) + (0 - pays)
               /\ Tot(t, Other(o.sells)) = Tot(s, Other(o.sells)) + receives
    <3>1. g.ok /\ Sound(g)
      BY <1>12, <2>5, <2>7 DEF Stops
    <3>2. Moves(g, t, OrderFields, "core", 0, 0)
      BY <2>1, <2>2, <3>1, CullOrder
    <3>3. \A x \in Assets : Tot(t, x) = Tot(g, x) /\ Tot(g, x) \in Int
      BY <2>7, <3>1, <3>2, MovesZero
    <3> QED BY <1>1, <1>12, <2>7, <3>1, <3>2, <3>3 DEF Moves
  <2>8. ASSUME t.ok, NEW x \in s.limits, x.id # o.id PROVE x \in t.limits
    <3>1. g.ok /\ Sound(g)
      BY <1>12, <2>5, <2>8 DEF Stops
    <3>2. t.limits = g.limits \/ t.limits = Without(g.limits, left)
      BY <2>1, <2>2, <3>1, CullOrder
    <3>3. x \in g.limits /\ x # left
      BY <1>13, <2>3, <2>8
    <3> QED BY <3>2, <3>3 DEF Without
  <2> QED BY <2>6, <2>7, <2>8 DEF Moves
<1> QED BY <1>14, <1>15

-----------------------------------------------------------------------------
(* match.                                                                  *)
LEMMA UnlessGoneIs ==
  ASSUME NEW s, DOMAIN s = Fields, NEW id, NEW t, t = UnlessGone(s, id)
  PROVE  /\ Only(s, t, {"done"}) /\ Alike(s, t) /\ Stops(s, t)
         /\ t.done <=> Find(t, id) = {}
<1>1. Only(s, t, {"done"}) /\ (t.done <=> Find(s, id) = {})
  BY DEF Only, Fields, UnlessGone
<1>2. Alike(s, t)
  BY DEF Alike, Fields, UnlessGone
<1>3. t.limits = s.limits
  BY <1>2 DEF Alike
<1> QED BY <1>1, <1>2, <1>3, AlikeSound DEF Find

LEMMA TakerIs ==
  ASSUME NEW s, NEW id, Find(s, id) # {}
  PROVE  Taker(s, id) \in s.limits /\ Taker(s, id).id = id
BY DEF Find, Taker

StepFields == OrderFields \cup {"done"}

LEMMA MatchAmounts ==
  ASSUME NEW p \in Rates, NEW sold \in Nat, NEW offered \in Nat, NEW smaller,
         smaller = (sold <= ToQuote(offered, p)),
         NEW receives, receives = IF smaller THEN ToBase(sold, p) ELSE ToBaseUp(ToQuote(offered, p), p),
         NEW pays, pays = IF smaller THEN ToQuoteUp(receives, p) ELSE ToQuote(offered, p)
  PROVE  pays \in Nat /\ receives \in Nat /\ pays <= sold /\ receives <= offered
<1> DEFINE q == ToQuote(offered, p)
           i == Inverted(p)
<1>1. p.base \in Positive /\ p.quote \in Positive /\ p.quote \in Nat /\ p.base \in Nat
  BY DEF Rates, Positive
<1>2. i.base = p.quote /\ i.quote = p.base
  BY DEF Inverted, Price
<1>3. q \in Nat /\ q * p.base <= offered * p.quote
  BY <1>1, RoundDown
<1>4. ToBaseUp(q, p) \in Nat /\ ToBaseUp(q, p) <= offered
  BY ThereAndBack
<1>5. CASE smaller
  <2>1. sold * p.base <= offered * p.quote
    <3>1. sold <= q
      BY <1>5
    <3> HIDE DEF q
    <3>2. sold * p.base <= q * p.base
      BY <1>1, <1>3, <3>1
    <3> QED BY <1>1, <1>3, <3>2
  <2>2. receives = ToQuote(sold, i)
    BY <1>5 DEF ToBase
  <2> HIDE DEF i, q
  <2>3. receives \in Nat /\ receives * p.quote <= sold * p.base
    BY <1>1, <1>2, <2>2, RoundDown
  <2>4. receives <= offered
    BY <1>1, <1>2, <2>1, <2>2, DownAtMost
  <2>5. ToQuoteUp(receives, p) \in Nat /\ ToQuoteUp(receives, p) <= sold
    BY <1>1, <2>3, RoundUp, UpAtMost
  <2> QED BY <1>5, <2>3, <2>4, <2>5
<1>6. CASE ~smaller
  <2>1. receives = ToBaseUp(q, p) /\ pays = q
    BY <1>6
  <2>2. q <= sold
    <3>1. ~(sold <= q)
      BY <1>6
    <3> HIDE DEF q
    <3> QED BY <1>3, <3>1
  <2> QED BY <1>3, <1>4, <2>1, <2>2
<1> QED BY <1>5, <1>6

LEMMA MatchStops ==
  ASSUME NEW s, DOMAIN s = Fields, NEW id, NEW o
  PROVE  Only(s, match(s, id, o), StepFields) /\ Stops(s, match(s, id, o))
<1> DEFINE taker == Taker(s, id)
           smaller == taker.for_sale <= ToQuote(o.for_sale, o.price)
           receives == IF smaller THEN ToBase(taker.for_sale, o.price)
                       ELSE ToBaseUp(ToQuote(o.for_sale, o.price), o.price)
           pays == IF smaller THEN ToQuoteUp(receives, o.price) ELSE ToQuote(o.for_sale, o.price)
           filled == fill_limit_order(s, taker, pays, receives, smaller)
           both == fill_limit_order(filled, o, receives, pays, TRUE)
           gone == Find(both, id) = {} \/ Find(both, o.id) = {}
           checked == Require(both, gone)
           u == UnlessGone(checked, id)
<1>1. match(s, id, o) = IF ForNothing(smaller, receives) THEN Done(s) ELSE u
  BY DEF match
<1> HIDE DEF taker, smaller, receives, pays
<1>2. Only(s, filled, OrderFields) /\ Stops(s, filled)
  BY FillStops
<1> HIDE DEF filled
<1>3. Only(filled, both, OrderFields) /\ Stops(filled, both)
  BY <1>2, FillStops DEF Stops
<1> HIDE DEF both
<1>4. Only(both, checked, {"ok"}) /\ Stops(both, checked)
  BY <1>3, RequireIs DEF Stops
<1> HIDE DEF checked
<1>5. Only(checked, u, {"done"}) /\ Stops(checked, u)
  BY <1>4, UnlessGoneIs DEF Stops
<1> HIDE DEF u
<1>6. Only(s, both, OrderFields)
  BY <1>2, <1>3, OnlyTrans
<1>7. Only(s, checked, OrderFields)
  BY <1>4, <1>6, OnlyTrans DEF OrderFields
<1>8. Only(s, u, StepFields)
  BY <1>5, <1>7, OnlyTrans DEF StepFields
<1>9. Stops(s, u)
  BY <1>2, <1>3, <1>4, <1>5 DEF Stops
<1>10. Only(s, Done(s), StepFields) /\ Stops(s, Done(s))
  <2>1. Only(s, Done(s), {"done"}) /\ Stops(s, Done(s))
    BY DoneIs
  <2> QED BY <2>1 DEF Only, StepFields
<1> QED BY <1>1, <1>8, <1>9, <1>10

LEMMA MatchOrders ==
  ASSUME NEW s, Sound(s), NEW id, Find(s, id) # {}, NEW o \in s.limits,
         o.sells = Other(Taker(s, id).sells), NEW t, t = match(s, id, o)
  PROVE  /\ Moves(s, t, StepFields, "core", 0, 0) /\ Stops(s, t)
         /\ t.ok => t.done \/ Find(t, id) # {}
<1> DEFINE taker == Taker(s, id)
           smaller == taker.for_sale <= ToQuote(o.for_sale, o.price)
           receives == IF smaller THEN ToBase(taker.for_sale, o.price)
                       ELSE ToBaseUp(ToQuote(o.for_sale, o.price), o.price)
           pays == IF smaller THEN ToQuoteUp(receives, o.price) ELSE ToQuote(o.for_sale, o.price)
           filled == fill_limit_order(s, taker, pays, receives, smaller)
           both == fill_limit_order(filled, o, receives, pays, TRUE)
           gone == Find(both, id) = {} \/ Find(both, o.id) = {}
           checked == Require(both, gone)
           u == UnlessGone(checked, id)
<1>0. DOMAIN s = Fields
  BY DEF Sound
<1>1. t = IF ForNothing(smaller, receives) THEN Done(s) ELSE u
  BY DEF match
<1>2. Only(s, t, StepFields) /\ Stops(s, t)
  BY <1>0, MatchStops
<1>3. taker \in s.limits
  BY TakerIs
<1>4. /\ taker \in Limits /\ o \in Limits /\ o.price \in Rates /\ o.for_sale \in Nat
      /\ taker.for_sale \in Nat /\ taker.sells \in Assets /\ o.sells \in Assets
  BY <1>3 DEF Sound, Table, Limits, Positive
<1>5. o.id # taker.id
  <2>1. o # taker
    BY <1>4, OtherIs
  <2> QED BY <1>3, <2>1 DEF Sound, Table, Unique
<1>6. pays \in Nat /\ receives \in Nat /\ pays <= taker.for_sale /\ receives <= o.for_sale
  <2>1. /\ smaller = (taker.for_sale <= ToQuote(o.for_sale, o.price))
        /\ receives = IF smaller THEN ToBase(taker.for_sale, o.price)
                      ELSE ToBaseUp(ToQuote(o.for_sale, o.price), o.price)
        /\ pays = IF smaller THEN ToQuoteUp(receives, o.price) ELSE ToQuote(o.for_sale, o.price)
    OBVIOUS
  <2> HIDE DEF taker, smaller, receives, pays
  <2> QED BY <1>4, <2>1, MatchAmounts
<1>7. CASE ForNothing(smaller, receives)
  <2>1. Alike(s, t) /\ t.done
    BY <1>0, <1>1, <1>7, DoneIs
  <2> QED BY <1>2, <2>1, MovesNothing
<1>8. CASE ~ForNothing(smaller, receives)
  <2>1. t = u
    BY <1>1, <1>8
  <2>2. taker.sells = Other(o.sells) /\ Other(taker.sells) = o.sells
    BY <1>4, OtherIs
  <2> HIDE DEF taker, smaller, receives, pays
  <2>3. /\ Moves(s, filled, OrderFields, taker.sells, 0 - pays, receives) /\ Stops(s, filled)
        /\ filled.ok => \A x \in s.limits : x.id # taker.id => x \in filled.limits
    BY <1>3, <1>6, FillOrder
  <2>a. DOMAIN filled = Fields
    BY <2>3 DEF Stops
  <2>4. Stops(filled, both)
    BY <2>a, FillStops
  <2>5. ASSUME both.ok
        PROVE  /\ Sound(both) /\ Tot(both, o.sells) = Tot(s, o.sells)
               /\ Tot(both, Other(o.sells)) = Tot(s, Other(o.sells))
    <3>1. filled.ok
      BY <2>4, <2>5 DEF Stops
    <3>2. /\ Sound(filled) /\ Tot(filled, taker.sells) = Tot(s, taker.sells) + (0 - pays)
          /\ Tot(filled, Other(taker.sells)) = Tot(s, Other(taker.sells)) + receives
      BY <2>3, <3>1 DEF Moves
    <3>3. o \in filled.limits
      BY <1>5, <2>3, <3>1
    <3> HIDE DEF filled
    <3>4. Moves(filled, both, OrderFields, o.sells, 0 - receives, pays)
      BY <1>6, <3>2, <3>3, FillOrder
    <3>5. /\ Sound(both) /\ Tot(both, o.sells) = Tot(filled, o.sells) + (0 - receives)
          /\ Tot(both, Other(o.sells)) = Tot(filled, Other(o.sells)) + pays
      BY <2>5, <3>4 DEF Moves
    <3>6. Tot(s, o.sells) \in Int /\ Tot(s, Other(o.sells)) \in Int
      BY <1>4, OtherIs, SoundParts
    <3> HIDE DEF both
    <3> QED BY <1>6, <2>2, <3>2, <3>5, <3>6
  <2>b. DOMAIN both = Fields
    BY <2>4 DEF Stops
  <2> HIDE DEF filled, gone
  <2>6. Stops(both, checked) /\ (checked.ok => Alike(both, checked))
    BY <2>b, RequireStops
  <2> HIDE DEF both
  <2>7. Stops(checked, u) /\ Alike(checked, u) /\ (u.done <=> Find(u, id) = {})
    BY <2>6, UnlessGoneIs DEF Stops
  <2> HIDE DEF checked, u
  <2>8. ASSUME t.ok PROVE Sound(t) /\ \A x \in Assets : Tot(t, x) = Tot(s, x)
    <3>1. both.ok /\ checked.ok
      BY <2>1, <2>6, <2>7, <2>8 DEF Stops
    <3>2. Sound(t) /\ \A x : Tot(t, x) = Tot(both, x)
      BY <2>1, <2>5, <2>6, <2>7, <3>1, AlikeSound
    <3>3. \A x \in Assets : x = o.sells \/ x = Other(o.sells)
      BY <1>4, OtherIs, AssetsAre
    <3> QED BY <2>5, <3>1, <3>2, <3>3
  <2>9. Moves(s, t, StepFields, "core", 0, 0)
    BY <1>2, <2>8, SameMoves
  <2> QED BY <1>2, <2>1, <2>7, <2>9
<1> QED BY <1>7, <1>8

-----------------------------------------------------------------------------
(* Call orders.                                                            *)
CallFields == {"balance", "ok", "calls", "supply", "core_in_orders", "fills"}

(* What is left of a position of which a part is filled, and what is free. *)
Remains(c, pays, receives) == [c EXCEPT !.debt = @ - receives, !.collateral = @ - pays]
Freed(c, pays, receives) ==
  IF Remains(c, pays, receives).debt = 0 THEN Remains(c, pays, receives).collateral ELSE 0
Leftover(s, c, pays, receives) ==
  LET left == Remains(c, pays, receives)
  IN  IF left.debt = 0 THEN {}
      ELSE {[left EXCEPT !.call_price = call_price(left.debt, left.collateral, s.feed.mcr)]}
Calmed(s, c, freed, pays) == [s.core_in_orders EXCEPT ![c.borrower] = @ - freed - pays]
Priced(s, c, pays, receives) ==
  [Remains(c, pays, receives) EXCEPT
     !.call_price = call_price(c.debt - receives, c.collateral - pays, s.feed.mcr)]

LEMMA PricedIs ==
  ASSUME NEW s, s.feed \in PriceFeeds, NEW c \in Positions, NEW pays \in Nat, pays <= c.collateral,
         NEW receives \in Nat, receives < c.debt
  PROVE  LET y == Priced(s, c, pays, receives) IN
         /\ y \in Positions /\ y.id = c.id /\ y.borrower = c.borrower
         /\ y.debt = c.debt - receives /\ y.collateral = c.collateral - pays
<1> DEFINE d == c.debt - receives
           k == c.collateral - pays
           p == call_price(d, k, s.feed.mcr)
           r == [c EXCEPT !.debt = d, !.collateral = k]
           y == [r EXCEPT !.call_price = p]
<1>1. d \in Positive /\ k \in Nat /\ s.feed.mcr \in Positive
  BY DEF Positions, Positive, PriceFeeds
<1>2. y = Priced(s, c, pays, receives)
  BY DEF Priced, Remains
<1> HIDE DEF d, k
<1>3. p \in [base : Nat, quote : Positive]
  BY <1>1, RatioDenomAssumption DEF call_price, Price, Positive
<1> HIDE DEF p
<1>4. r \in Positions /\ r.id = c.id /\ r.borrower = c.borrower /\ r.debt = d /\ r.collateral = k
  BY <1>1 DEF Positions
<1> HIDE DEF r
<1>5. /\ y \in Positions /\ y.id = r.id /\ y.borrower = r.borrower
      /\ y.debt = r.debt /\ y.collateral = r.collateral
  BY <1>3, <1>4 DEF Positions
<1> QED BY <1>2, <1>4, <1>5 DEF d, k

(* The parts of fill_call_order.                                           *)
LEMMA FillCallIs ==
  ASSUME NEW s, DOMAIN s = Fields, NEW c, NEW pays, NEW receives
  PROVE  LET q == Require(s, c.collateral >= pays)
             freed == Freed(c, pays, receives)
             p == adjust_balance(q, c.borrower, "core", freed)
             f == Filled(p, null, pays, receives)
             t == fill_call_order(s, c, pays, receives)
         IN  /\ Stops(s, q) /\ Only(s, q, {"ok"}) /\ (q.ok => Alike(s, q))
             /\ Stops(q, p) /\ Only(s, p, {"balance", "ok"})
             /\ Stops(p, f) /\ Only(s, f, {"balance", "ok", "fills"}) /\ Alike(p, f)
             /\ Stops(s, t) /\ Only(s, t, CallFields) /\ (t.ok <=> f.ok)
             /\ Only(f, t, {"calls", "supply", "core_in_orders"})
             /\ t.calls = (f.calls \ {c}) \cup Leftover(s, c, pays, receives)
             /\ t.supply = f.supply - receives
             /\ t.core_in_orders = Calmed(f, c, freed, pays)
<1> DEFINE left == Remains(c, pays, receives)
           q == Require(s, c.collateral >= pays)
           freed == Freed(c, pays, receives)
           p == adjust_balance(q, c.borrower, "core", freed)
           f == Filled(p, null, pays, receives)
           rest == Leftover(s, c, pays, receives)
           t == [f EXCEPT !.calls = (@ \ {c}) \cup rest, !.supply = @ - receives,
                          !.core_in_orders[c.borrower] = @ - freed - pays]
<1>1. fill_call_order(s, c, pays, receives) = t
  BY DEF fill_call_order, Remains, Freed, Leftover
<1>2. Stops(s, q) /\ Only(s, q, {"ok"}) /\ (q.ok => Alike(s, q))
  BY RequireStops
<1> HIDE DEF q, freed
<1>3. DOMAIN q = Fields
  BY <1>2 DEF Stops
<1>4. Stops(q, p) /\ Only(q, p, {"balance", "ok"})
  BY <1>3, AdjustStops
<1> HIDE DEF p
<1>5. DOMAIN p = Fields
  BY <1>4 DEF Stops
<1>6. Stops(p, f) /\ Only(p, f, {"fills"}) /\ Alike(p, f)
  BY <1>5, FilledIs
<1> HIDE DEF f
<1>7. DOMAIN f = Fields
  BY <1>6 DEF Stops
<1> HIDE DEF rest
<1>8. /\ Only(f, t, {"calls", "supply", "core_in_orders"}) /\ (t.ok <=> f.ok)
      /\ t.calls = (f.calls \ {c}) \cup rest /\ t.supply = f.supply - receives
      /\ t.core_in_orders = Calmed(f, c, freed, pays)
  BY <1>7 DEF Only, Fields, Calmed
<1> HIDE DEF t
<1>9. Only(s, p, {"balance", "ok"})
  BY <1>2, <1>4, OnlyTrans
<1>10. Only(s, f, {"balance", "ok", "fills"})
  BY <1>6, <1>9, OnlyTrans
<1>11. Only(s, t, CallFields)
  BY <1>8, <1>10, OnlyTrans DEF CallFields
<1>12. Stops(s, t)
  BY <1>2, <1>4, <1>6, <1>8 DEF Stops, Only
<1> QED BY <1>1, <1>2, <1>4, <1>6, <1>8, <1>9, <1>10, <1>11, <1>12 DEF q, p, f, freed, rest, left

LEMMA OrderSums ==
  ASSUME NEW L, Table(L, Limits)
  PROVE  \A a \in Accounts : OfOrders(L, a) \in Int
<1> SUFFICES ASSUME NEW a \in Accounts PROVE OfOrders(L, a) \in Int
  OBVIOUS
<1>1. IsFiniteSet(L) /\ \A o \in L : o.for_sale \in Int
  BY DEF Table, Limits, Positive
<1>2. [o \in L |-> IF o.sells = "core" /\ o.seller = a THEN o.for_sale ELSE 0] \in [L -> Int]
  BY <1>1
<1> QED BY <1>1, <1>2, SumIsInt DEF OfOrders

LEMMA UniqueGone ==
  ASSUME NEW S, NEW field, Unique(S, field), NEW o
  PROVE  Unique(Without(S, o), field)
BY DEF Unique, Without

LEMMA UniqueNew ==
  ASSUME NEW S, NEW field, Unique(S, field), NEW y, \A x \in S : x[field] # y[field]
  PROVE  Unique(With(S, y), field)
BY DEF Unique, With

LEMMA CallFilled ==
  ASSUME NEW s, Sound(s), NEW c \in s.calls, NEW pays \in Nat, NEW receives \in Nat,
         receives <= c.debt, s.feed # none \/ receives = c.debt,
         NEW t, t = fill_call_order(s, c, pays, receives)
  PROVE  /\ Only(s, t, CallFields) /\ Stops(s, t)
         /\ t.ok => /\ Sound(t) /\ pays <= c.collateral
                    /\ TotalCore(t) = TotalCore(s) - pays /\ TotalMia(t) = TotalMia(s)
                    /\ t.supply = s.supply - receives /\ Debt(t) = Debt(s) - receives
                    /\ receives = c.debt => t.calls = Without(s.calls, c)
<1> DEFINE left == Remains(c, pays, receives)
           q == Require(s, c.collateral >= pays)
           freed == Freed(c, pays, receives)
           p == adjust_balance(q, c.borrower, "core", freed)
           f == Filled(p, null, pays, receives)
           rest == Leftover(s, c, pays, receives)
<1>0. DOMAIN s = Fields /\ s.ok
  BY DEF Sound
<1>1. /\ Stops(s, q) /\ Only(s, q, {"ok"}) /\ (q.ok => Alike(s, q))
      /\ Stops(q, p) /\ Only(s, p, {"balance", "ok"})
      /\ Stops(p, f) /\ Only(s, f, {"balance", "ok", "fills"}) /\ Alike(p, f)
      /\ Stops(s, t) /\ Only(s, t, CallFields) /\ (t.ok <=> f.ok)
      /\ Only(f, t, {"calls", "supply", "core_in_orders"})
      /\ t.calls = (f.calls \ {c}) \cup rest
      /\ t.supply = f.supply - receives
      /\ t.core_in_orders = Calmed(f, c, freed, pays)
  BY <1>0, FillCallIs
<1>2. SUFFICES ASSUME t.ok
               PROVE  /\ Sound(t) /\ pays <= c.collateral
                      /\ TotalCore(t) = TotalCore(s) - pays /\ TotalMia(t) = TotalMia(s)
                      /\ t.supply = s.supply - receives /\ Debt(t) = Debt(s) - receives
                      /\ receives = c.debt => t.calls = Without(s.calls, c)
  BY <1>1
<1>3. q.ok /\ p.ok /\ f.ok
  BY <1>1, <1>2 DEF Stops
<1>4. /\ c \in Positions /\ c.borrower \in Accounts /\ c.debt \in Nat /\ c.collateral \in Nat
  BY DEF Sound, Table, Positions, Positive
<1>5. pays <= c.collateral
  <2>1. q.ok <=> s.ok /\ c.collateral >= pays
    BY <1>0 DEF Require, Fields
  <2> QED BY <1>3, <1>4, <2>1
<1>6. left.debt = c.debt - receives /\ left.collateral = c.collateral - pays
  BY <1>4 DEF Remains, Positions
<1>7. /\ freed \in Nat /\ freed \in Int
      /\ c.debt = receives => freed = c.collateral - pays
      /\ c.debt # receives => freed = 0
  BY <1>4, <1>5, <1>6 DEF Freed
<1>8. Sound(q) /\ TotalCore(q) = TotalCore(s) /\ TotalMia(q) = TotalMia(s)
  BY <1>1, <1>3, AlikeSound
<1>9. "core" \in Assets
  BY AssetsAre
<1> HIDE DEF q, freed
<1>10. Moves(q, p, {"balance", "ok"}, "core", freed, 0)
  BY <1>4, <1>7, <1>8, <1>9, Adjust
<1> HIDE DEF p
<1>11. /\ Sound(p) /\ TotalCore(p) = TotalCore(q) + freed /\ TotalMia(p) = TotalMia(q) + 0
  BY <1>3, <1>10, OtherIs DEF Moves
<1>12. TotalCore(s) \in Int /\ TotalMia(s) \in Int
  BY SoundParts
<1>13. Sound(f) /\ TotalCore(f) = TotalCore(s) + freed /\ TotalMia(f) = TotalMia(s)
  <2>1. Sound(f) /\ TotalCore(f) = TotalCore(p) /\ TotalMia(f) = TotalMia(p)
    BY <1>1, <1>11, AlikeSound
  <2> QED BY <1>7, <1>8, <1>11, <1>12, <2>1
<1> HIDE DEF f
<1>14. f.calls = s.calls /\ f.supply = s.supply /\ f.core_in_orders = s.core_in_orders /\ f.limits = s.limits
       /\ f.feed = s.feed
  BY <1>1 DEF Only, Fields
<1>15. /\ DOMAIN t = Fields /\ t.ok /\ t.balance = f.balance /\ t.limits = f.limits
       /\ t.settles = f.settles /\ t.bids = f.bids
       /\ t.feeds = f.feeds /\ t.feed = f.feed /\ t.published = f.published
       /\ t.settlement_price = f.settlement_price /\ t.settlement_fund = f.settlement_fund
       /\ t.force_settled_volume = f.force_settled_volume
       /\ t.accumulated_fees = f.accumulated_fees /\ t.fee_pool = f.fee_pool
       /\ t.paid_fees = f.paid_fees
  BY <1>1, <1>2 DEF Only, Fields
<1> DEFINE R == Without(s.calls, c)
<1>16. /\ Table(R, Positions) /\ Unique(R, "borrower")
       /\ \A a \in Accounts : /\ OfPositions(s.calls, a) \in Int
                             /\ OfPositions(R, a) = OfPositions(s.calls, a) - InPosition(c, a)
       /\ Total(s.calls, "debt") \in Int /\ Total(s.calls, "collateral") \in Int
       /\ Total(R, "debt") = Total(s.calls, "debt") - c.debt
       /\ Total(R, "collateral") = Total(s.calls, "collateral") - c.collateral
  BY PositionGone, UniqueGone DEF Sound
<1>17. /\ Table(t.calls, Positions) /\ Unique(t.calls, "borrower")
       /\ \A a \in Accounts : OfPositions(t.calls, a) =
             OfPositions(s.calls, a) - IF c.borrower = a THEN freed + pays ELSE 0
       /\ Total(t.calls, "debt") = Total(s.calls, "debt") - receives
       /\ Total(t.calls, "collateral") = Total(s.calls, "collateral") - (freed + pays)
       /\ receives = c.debt => t.calls = R
  <2>1. CASE receives = c.debt
    <3>1. left.debt = 0
      BY <1>4, <1>6, <2>1
    <3>2. t.calls = R
      BY <1>1, <1>14, <3>1 DEF Without, Leftover
    <3>3. freed + pays = c.collateral
      <4>1. freed = c.collateral - pays
        BY <1>7, <2>1
      <4> QED BY <1>4, <4>1
    <3>4. \A a \in Accounts : InPosition(c, a) = IF c.borrower = a THEN freed + pays ELSE 0
      BY <3>3 DEF InPosition
    <3> QED BY <1>16, <2>1, <3>2, <3>3, <3>4
  <2>2. CASE receives # c.debt
    <3> DEFINE y == Priced(s, c, pays, receives)
               N == With(R, y)
    <3>1. s.feed \in PriceFeeds /\ receives < c.debt
      BY <1>4, <2>2 DEF Sound
    <3>2. /\ y \in Positions /\ y.id = c.id /\ y.borrower = c.borrower
          /\ y.debt = c.debt - receives /\ y.collateral = c.collateral - pays
      BY <1>4, <1>5, <3>1, PricedIs
    <3>3. t.calls = N
      <4>1. left.debt # 0
        BY <1>4, <1>6, <2>2
      <4>2. rest = {y}
        BY <1>6, <4>1 DEF Priced, Leftover
      <4> HIDE DEF rest, y
      <4> QED BY <1>1, <1>14, <4>2 DEF Without, With
    <3>4. \A x \in R : x.id # y.id /\ x["borrower"] # y["borrower"]
      <4>1. \A x \in R : x \in s.calls /\ x.id # c.id
        BY TableGone DEF Sound
      <4>2. \A x, z \in s.calls : x["borrower"] = z["borrower"] => x = z
        BY DEF Sound, Unique
      <4>3. \A x \in R : x["borrower"] # c["borrower"]
        BY <4>1, <4>2
      <4> QED BY <3>2, <4>1, <4>3
    <3> HIDE DEF R, y
    <3>5. /\ Table(N, Positions)
          /\ \A a \in Accounts : /\ OfPositions(R, a) \in Int
                                /\ OfPositions(N, a) = OfPositions(R, a) + InPosition(y, a)
          /\ Total(R, "debt") \in Int /\ Total(R, "collateral") \in Int
          /\ Total(N, "debt") = Total(R, "debt") + y.debt
          /\ Total(N, "collateral") = Total(R, "collateral") + y.collateral
      BY <1>16, <3>2, <3>4, PositionNew
    <3>6. Unique(N, "borrower")
      BY <1>16, <3>4, UniqueNew
    <3>7. freed = 0
      BY <1>7, <2>2
    <3>8. ASSUME NEW a \in Accounts
          PROVE  OfPositions(N, a) =
                   OfPositions(s.calls, a) - IF c.borrower = a THEN freed + pays ELSE 0
      <4>1. OfPositions(N, a) = OfPositions(s.calls, a) - InPosition(c, a) + InPosition(y, a)
            /\ OfPositions(s.calls, a) \in Int
        BY <1>16, <3>5
      <4>2. CASE c.borrower = a
        <5>1. InPosition(c, a) = c.collateral /\ InPosition(y, a) = c.collateral - pays
          BY <3>2, <4>2 DEF InPosition
        <5> QED BY <1>4, <3>7, <4>1, <4>2, <5>1
      <4>3. CASE c.borrower # a
        <5>1. InPosition(c, a) = 0 /\ InPosition(y, a) = 0
          BY <3>2, <4>3 DEF InPosition
        <5> QED BY <4>1, <4>3, <5>1
      <4> QED BY <4>2, <4>3
    <3>9. /\ Total(N, "debt") = Total(s.calls, "debt") - receives
          /\ Total(N, "collateral") = Total(s.calls, "collateral") - (freed + pays)
      BY <1>4, <1>16, <3>2, <3>5, <3>7
    <3> QED BY <2>2, <3>3, <3>5, <3>6, <3>8, <3>9
  <2> QED BY <2>1, <2>2
<1>18. t.core_in_orders \in [Accounts -> Int]
       /\ \A a \in Accounts : t.core_in_orders[a] =
            s.core_in_orders[a] - IF c.borrower = a THEN freed + pays ELSE 0
  <2>1. s.core_in_orders \in [Accounts -> Int]
    BY DEF Sound
  <2>2. t.core_in_orders = [s.core_in_orders EXCEPT ![c.borrower] = @ - freed - pays]
    BY <1>1, <1>14 DEF Calmed
  <2> QED BY <1>4, <1>7, <2>1, <2>2
<1>19. ASSUME NEW a \in Accounts
       PROVE  t.core_in_orders[a] = OfOrders(t.limits, a) + OfPositions(t.calls, a)
  <2> DEFINE d == IF c.borrower = a THEN freed + pays ELSE 0
  <2>1. t.core_in_orders[a] = s.core_in_orders[a] - d
    BY <1>18
  <2>2. OfPositions(t.calls, a) = OfPositions(s.calls, a) - d /\ OfPositions(s.calls, a) \in Int
    BY <1>16, <1>17
  <2>3. s.core_in_orders[a] = OfOrders(s.limits, a) + OfPositions(s.calls, a)
        /\ s.core_in_orders[a] \in Int
    BY DEF Sound, CoreInOrders
  <2>4. OfOrders(s.limits, a) \in Int
    BY OrderSums DEF Sound
  <2>5. d \in Int
    BY <1>7
  <2> HIDE DEF d
  <2> QED BY <1>14, <1>15, <2>1, <2>2, <2>3, <2>4, <2>5
<1>20. t.supply \in Int /\ t.supply = s.supply - receives
  BY <1>1, <1>14 DEF Sound
<1>21. Sound(t)
  BY <1>13, <1>15, <1>17, <1>18, <1>19, <1>20 DEF Sound, CoreInOrders
<1>22. TotalMia(t) = TotalMia(s)
  BY <1>13, <1>15 DEF TotalMia
<1>23. TotalCore(t) = TotalCore(s) - pays
  <2>1. TotalCore(t) =
          Held(f.balance, "core") + ForSale(f.limits, "core")
          + Total(f.limits, "deferred_fee") + (Total(f.calls, "collateral") - (freed + pays))
          + Total(f.bids, "collateral") + f.settlement_fund + f.fee_pool
          + f.paid_fees + f.accumulated_fees["core"]
    BY <1>14, <1>15, <1>17 DEF TotalCore
  <2>2. TotalCore(f) =
          Held(f.balance, "core") + ForSale(f.limits, "core")
          + Total(f.limits, "deferred_fee") + Total(f.calls, "collateral")
          + Total(f.bids, "collateral") + f.settlement_fund + f.fee_pool
          + f.paid_fees + f.accumulated_fees["core"]
    BY DEF TotalCore
  <2>3. /\ Held(f.balance, "core") \in Int /\ ForSale(f.limits, "core") \in Int
        /\ Total(f.limits, "deferred_fee") \in Int /\ Total(f.calls, "collateral") \in Int
        /\ Total(f.bids, "collateral") \in Int /\ f.settlement_fund \in Int
        /\ f.fee_pool \in Int /\ f.paid_fees \in Int /\ f.accumulated_fees["core"] \in Int
    BY <1>13, SoundParts, AssetsAre
  <2> QED BY <1>7, <1>12, <1>13, <2>1, <2>2, <2>3
<1>24. Debt(t) = Debt(s) - receives
  BY <1>17 DEF Debt
<1> QED BY <1>5, <1>17, <1>20, <1>21, <1>22, <1>23, <1>24

-----------------------------------------------------------------------------
(* The books: core and mia as they are, debt and fund in order.            *)
Books(s, k, m) ==
  /\ Sound(s) /\ s.supply \in Nat /\ TotalCore(s) = k /\ TotalMia(s) = s.supply + m
  /\ DebtIsSupply(s) /\ FundCovers(s)

(* A step that is not refused keeps the books.                             *)
Keeps(s, t) == Stops(s, t) /\ \A k, m \in Int : Books(s, k, m) /\ t.ok => Books(t, k, m)

LEMMA KeepsTrans ==
  ASSUME NEW s, NEW t, NEW u, Keeps(s, t), Keeps(t, u)
  PROVE  Keeps(s, u)
BY DEF Keeps, Stops

LEMMA KeepsAlike ==
  ASSUME NEW s, DOMAIN s = Fields, NEW t, Alike(s, t)
  PROVE  Keeps(s, t)
<1>1. /\ Sound(s) => Sound(t)
      /\ TotalCore(t) = TotalCore(s) /\ TotalMia(t) = TotalMia(s)
      /\ Stops(s, t) /\ Debt(t) = Debt(s)
  BY AlikeSound
<1>2. /\ t.calls = s.calls /\ t.supply = s.supply /\ t.settlement_price = s.settlement_price
      /\ t.settlement_fund = s.settlement_fund
  BY DEF Alike
<1>3. (DebtIsSupply(s) => DebtIsSupply(t)) /\ (FundCovers(s) => FundCovers(t))
  BY <1>2 DEF DebtIsSupply, FundCovers, has_settlement
<1> QED BY <1>1, <1>2, <1>3 DEF Keeps, Books

(* Where only orders move nothing but the totals is to be looked at.       *)
OrderSteps == OrderFields \cup {"done", "called", "hung"}
LEMMA KeepsOrders ==
  ASSUME NEW s, NEW t, Stops(s, t),
         Sound(s) => \E F \in SUBSET OrderSteps : Moves(s, t, F, "core", 0, 0)
  PROVE  Keeps(s, t)
<1> SUFFICES ASSUME NEW k \in Int, NEW m \in Int, Books(s, k, m), t.ok
             PROVE  Books(t, k, m)
  BY DEF Keeps
<1>1. Sound(s)
  BY DEF Books
<1>2. PICK F \in SUBSET OrderSteps : Moves(s, t, F, "core", 0, 0)
  BY <1>1
<1>3. Sound(t) /\ Tot(t, "core") = Tot(s, "core") /\ Tot(t, "mia") = Tot(s, "mia")
  BY <1>1, <1>2, MovesZero, AssetsAre
<1>4. Only(s, t, OrderSteps)
  BY <1>2 DEF Moves, Only
<1>5. /\ t.calls = s.calls /\ t.supply = s.supply /\ t.settlement_price = s.settlement_price
      /\ t.settlement_fund = s.settlement_fund
  BY <1>4 DEF Only, Fields, OrderSteps, OrderFields
<1>6. DebtIsSupply(t) /\ FundCovers(t)
  BY <1>5 DEF Books, DebtIsSupply, FundCovers, has_settlement
<1>7. s.supply \in Nat
  BY DEF Books
<1> QED BY <1>3, <1>5, <1>6, <1>7, OtherIs DEF Books

LEMMA KeepsCancel ==
  ASSUME NEW s, DOMAIN s = Fields, NEW o, Sound(s) => o \in s.limits, NEW virtual
  PROVE  Keeps(s, cancel_limit_order(s, o, virtual))
<1>1. Stops(s, cancel_limit_order(s, o, virtual))
  BY CancelStops
<1>2. OrderFields \in SUBSET OrderSteps
  BY DEF OrderSteps
<1>3. Sound(s) => Moves(s, cancel_limit_order(s, o, virtual), OrderFields, "core", 0, 0)
  BY CancelOrder
<1> QED BY <1>1, <1>2, <1>3, KeepsOrders

LEMMA KeepsCull ==
  ASSUME NEW s, DOMAIN s = Fields, NEW o, Sound(s) => o \in s.limits
  PROVE  Keeps(s, maybe_cull_small_order(s, o))
<1>1. Stops(s, maybe_cull_small_order(s, o))
  BY CullStops
<1>2. OrderFields \in SUBSET OrderSteps
  BY DEF OrderSteps
<1>3. Sound(s) => Moves(s, maybe_cull_small_order(s, o), OrderFields, "core", 0, 0)
  BY CullOrder
<1> QED BY <1>1, <1>2, <1>3, KeepsOrders

-----------------------------------------------------------------------------
(* What a limit order and a call order exchange.                           *)
LEMMA ExchangeIs ==
  ASSUME NEW c, c.debt \in Positive, NEW n \in Nat, NEW p \in Rates
  PROVE  LET x == Exchange(c, n, p) IN
         x.core \in Nat /\ x.mia \in Nat /\ x.mia <= c.debt /\ x.mia <= n
<1>1. p.base \in Positive /\ p.quote \in Nat /\ c.debt \in Nat
  BY DEF Rates, Positive
<1>2. ToQuote(n, p) \in Nat
  BY <1>1, RoundDown
<1>3. ToQuoteUp(c.debt, p) \in Nat
  BY <1>1, RoundUp
<1>4. ToBaseUp(ToQuote(n, p), p) \in Nat /\ ToBaseUp(ToQuote(n, p), p) <= n
  BY ThereAndBack
<1>5. CASE c.debt > n
  BY <1>1, <1>2, <1>4, <1>5 DEF Exchange
<1>6. CASE ~(c.debt > n)
  BY <1>1, <1>3, <1>6 DEF Exchange
<1> QED BY <1>5, <1>6

LEMMA SqueezeIs ==
  ASSUME NEW feed \in PriceFeeds
  PROVE  max_short_squeeze_price(feed) \in Rates
<1> DEFINE b == feed.price.base
           q == feed.price.quote
<1>1. b \in Nat /\ b > 0 /\ q \in Nat /\ q > 0 /\ feed.mssr \in Nat /\ feed.mssr > 0
  BY DEF PriceFeeds, Rates, Positive
<1>2. RatioDenom \in Nat /\ RatioDenom > 0
  BY RatioDenomAssumption
<1> HIDE DEF b, q
<1>3. b * RatioDenom \in Nat /\ b * RatioDenom > 0
  BY <1>1, <1>2
<1>4. q * feed.mssr \in Nat /\ q * feed.mssr > 0
  BY <1>1
<1>5. max_short_squeeze_price(feed) = [base |-> b * RatioDenom, quote |-> q * feed.mssr]
  BY DEF max_short_squeeze_price, Price, b, q
<1> QED BY <1>3, <1>4, <1>5 DEF Rates, Positive

(* The order sells n of the mia to the position for r, in either order.    *)
LEMMA LimitThenCall ==
  ASSUME NEW s, Sound(s), ~has_settlement(s), s.feed # none,
         NEW o \in s.limits, o.sells = "mia", NEW c \in s.calls,
         NEW n \in Nat, n <= o.for_sale, n <= c.debt, NEW r \in Nat, NEW cull,
         NEW f, f = fill_limit_order(s, o, n, r, cull),
         NEW t, t = fill_call_order(f, c, r, n), t.ok
  PROVE  \A k, m \in Int : Books(s, k, m) => Books(t, k, m)
<1>1. /\ Moves(s, f, OrderFields, "mia", 0 - n, r) /\ Stops(s, f)
  BY FillOrder
<1>2. DOMAIN f = Fields
  BY <1>1 DEF Stops
<1>3. Stops(f, t)
  BY <1>2, FillCallIs
<1>4. f.ok
  BY <1>3 DEF Stops
<1>5. /\ Sound(f) /\ TotalMia(f) = TotalMia(s) + (0 - n) /\ TotalCore(f) = TotalCore(s) + r
  BY <1>1, <1>4, OtherIs DEF Moves
<1>6. /\ f.calls = s.calls /\ f.supply = s.supply /\ f.settlement_price = s.settlement_price
      /\ f.settlement_fund = s.settlement_fund /\ f.feed = s.feed
  BY <1>1 DEF Moves, Only, Fields, OrderFields
<1>7. /\ Only(f, t, CallFields)
      /\ Sound(t) /\ TotalCore(t) = TotalCore(f) - r /\ TotalMia(t) = TotalMia(f)
      /\ t.supply = f.supply - n /\ Debt(t) = Debt(f) - n
  BY <1>4, <1>5, <1>6, CallFilled
<1>8. t.settlement_price = s.settlement_price /\ t.settlement_fund = s.settlement_fund
  BY <1>6, <1>7 DEF Only, Fields, CallFields
<1>9. Debt(f) = Debt(s)
  BY <1>6 DEF Debt
<1>10. TotalCore(s) \in Int /\ TotalMia(s) \in Int /\ s.supply \in Int /\ Debt(s) \in Int
  BY SoundParts DEF Sound, Debt
<1>11. ~has_settlement(t)
  BY <1>8 DEF has_settlement
<1> SUFFICES ASSUME NEW k \in Int, NEW m \in Int, Books(s, k, m)
             PROVE  Books(t, k, m)
  OBVIOUS
<1>12. TotalCore(s) = k /\ TotalMia(s) = s.supply + m /\ Debt(s) = s.supply /\ s.settlement_fund = 0
  BY DEF Books, DebtIsSupply, Debt, FundCovers
<1>13. TotalCore(t) = k /\ TotalMia(t) = t.supply + m /\ Debt(t) = t.supply
  BY <1>5, <1>6, <1>7, <1>9, <1>10, <1>12
<1>14. DebtIsSupply(t) /\ FundCovers(t)
  BY <1>8, <1>11, <1>12, <1>13 DEF DebtIsSupply, Debt, FundCovers
<1>15. t.supply \in Nat
  BY <1>7, <1>13, SoundParts DEF Debt
<1> QED BY <1>7, <1>13, <1>14, <1>15 DEF Books

LEMMA CallThenLimit ==
  ASSUME NEW s, Sound(s), ~has_settlement(s), s.feed # none,
         NEW o \in s.limits, o.sells = "mia", NEW c \in s.calls,
         NEW n \in Nat, n <= o.for_sale, n <= c.debt, NEW r \in Nat, NEW cull,
         NEW f, f = fill_call_order(s, c, r, n),
         NEW t, t = fill_limit_order(f, o, n, r, cull), t.ok
  PROVE  \A k, m \in Int : Books(s, k, m) => Books(t, k, m)
<1>0. DOMAIN s = Fields
  BY DEF Sound
<1>1. Stops(s, f)
  BY <1>0, FillCallIs
<1>2. DOMAIN f = Fields
  BY <1>1 DEF Stops
<1>3. Stops(f, t)
  BY <1>2, FillStops
<1>4. f.ok
  BY <1>3 DEF Stops
<1>5. /\ Only(s, f, CallFields)
      /\ Sound(f) /\ TotalCore(f) = TotalCore(s) - r /\ TotalMia(f) = TotalMia(s)
      /\ f.supply = s.supply - n /\ Debt(f) = Debt(s) - n
  BY <1>4, CallFilled
<1>6. /\ f.limits = s.limits /\ f.settlement_price = s.settlement_price
      /\ f.settlement_fund = s.settlement_fund
  BY <1>5 DEF Only, Fields, CallFields
<1>7. Moves(f, t, OrderFields, "mia", 0 - n, r)
  BY <1>5, <1>6, FillOrder
<1>8. Sound(t) /\ TotalMia(t) = TotalMia(f) + (0 - n) /\ TotalCore(t) = TotalCore(f) + r
  BY <1>7, OtherIs DEF Moves
<1>9. /\ t.calls = f.calls /\ t.supply = f.supply /\ t.settlement_price = s.settlement_price
      /\ t.settlement_fund = s.settlement_fund
  BY <1>6, <1>7 DEF Moves, Only, Fields, OrderFields
<1>10. TotalCore(s) \in Int /\ TotalMia(s) \in Int /\ s.supply \in Int /\ Debt(s) \in Int
  BY SoundParts DEF Sound, Debt
<1>11. ~has_settlement(t)
  BY <1>9 DEF has_settlement
<1> SUFFICES ASSUME NEW k \in Int, NEW m \in Int, Books(s, k, m)
             PROVE  Books(t, k, m)
  OBVIOUS
<1>12. TotalCore(s) = k /\ TotalMia(s) = s.supply + m /\ Debt(s) = s.supply /\ s.settlement_fund = 0
  BY DEF Books, DebtIsSupply, Debt, FundCovers
<1>13. TotalCore(t) = k /\ TotalMia(t) = t.supply + m /\ Debt(f) = t.supply
  BY <1>5, <1>8, <1>9, <1>10, <1>12
<1>14. DebtIsSupply(t) /\ FundCovers(t)
  BY <1>9, <1>11, <1>12, <1>13 DEF DebtIsSupply, Debt, FundCovers
<1>15. t.supply \in Nat
  BY <1>5, <1>13, SoundParts DEF Debt
<1> QED BY <1>8, <1>13, <1>14, <1>15 DEF Books

-----------------------------------------------------------------------------
(* Loops: the steps of all of them, each with what it is given.            *)
AnyStep(k, t) ==
  IF k.loop = "close" THEN CloseStep(t, k.pays)
  ELSE IF k.loop = "check" THEN CheckStep(t, k.enable)
  ELSE IF k.loop = "match" THEN MatchStep(t, k.id)
  ELSE IF k.loop = "bids" THEN CancelBidStep(t)
  ELSE IF k.loop = "cancel" THEN CancelStep(t, k.now)
  ELSE SettleStep(t, k.now, k.most)

Begun(s) == [s EXCEPT !.done = FALSE]
Ended(s) == [s EXCEPT !.hung = @ \/ (s.ok /\ ~s.done)]
Stepped(k, t) == IF t.done \/ ~t.ok THEN t ELSE AnyStep(k, t)
Follows(g, k, s, n) ==
  g[0] = Begun(s) /\ \A i \in 1 .. n : g[i] = Stepped(k, g[i - 1])
Runs(u, k, s, n) == \E g : Follows(g, k, s, n) /\ u = Ended(g[n])

Solves(g, k, s, n) == Follows(g, k, s, n) /\ g = [i \in 0 .. n |-> g[i]]

LEMMA FollowsExists ==
  ASSUME NEW k, NEW s
  PROVE  \A n \in Nat : \E g : Solves(g, k, s, n)
<1> DEFINE S == {n \in Nat : \E g : Follows(g, k, s, n) /\ g = [i \in 0 .. n |-> g[i]]}
<1>1. 0 \in S
  <2> DEFINE g == [i \in 0 .. 0 |-> Begun(s)]
  <2>1. Follows(g, k, s, 0)
    BY DEF Follows
  <2>2. g = [i \in 0 .. 0 |-> g[i]]
    OBVIOUS
  <2> HIDE DEF g
  <2> QED BY <2>1, <2>2
<1>2. ASSUME NEW n \in Nat, n \in S PROVE n + 1 \in S
  <2>1. PICK g : Follows(g, k, s, n) /\ g = [i \in 0 .. n |-> g[i]]
    BY <1>2
  <2> DEFINE h == [i \in 0 .. n + 1 |-> IF i = n + 1 THEN Stepped(k, g[n]) ELSE g[i]]
  <2>2. h[0] = g[0] /\ h[n + 1] = Stepped(k, g[n]) /\ \A i \in 0 .. n : h[i] = g[i]
    OBVIOUS
  <2>3. h = [i \in 0 .. n + 1 |-> h[i]]
    OBVIOUS
  <2> HIDE DEF h
  <2>4. ASSUME NEW i \in 1 .. n + 1 PROVE h[i] = Stepped(k, h[i - 1])
    <3>1. CASE i = n + 1
      <4>1. h[i - 1] = g[n]
        BY <2>2, <3>1
      <4> QED BY <2>2, <3>1, <4>1
    <3>2. CASE i \in 1 .. n
      <4>1. h[i] = g[i] /\ h[i - 1] = g[i - 1]
        BY <2>2, <3>2
      <4>2. g[i] = Stepped(k, g[i - 1])
        BY <2>1, <3>2 DEF Follows
      <4> QED BY <4>1, <4>2
    <3> QED BY <3>1, <3>2
  <2>5. Follows(h, k, s, n + 1)
    BY <2>1, <2>2, <2>4 DEF Follows
  <2> QED BY <2>3, <2>5
<1> HIDE DEF S
<1>3. Nat \subseteq S
  BY <1>1, <1>2, NatSetInduction
<1> QED BY <1>3 DEF S, Solves

CloseAll(s, n, pays) == Loop(LAMBDA t : CloseStep(t, pays), s, n)

LEMMA CloseRuns ==
  ASSUME NEW s, s.ok, NEW n \in Nat, NEW pays, NEW k, k.loop = "close", k.pays = pays
  PROVE  Runs(CloseAll(s, n, pays), k, s, n)
<1> DEFINE Op(t) == IF t.done \/ ~t.ok THEN t ELSE CloseStep(t, pays)
           Eqn(a) == a = [i \in 0 .. n |-> IF i = 0 THEN Begun(s) ELSE Op(a[i - 1])]
           c == CHOOSE a : Eqn(a)
<1>1. CloseAll(s, n, pays) = [c[n] EXCEPT !.hung = @ \/ (c[n].ok /\ ~c[n].done)]
  BY DEF CloseAll, Loop, Begun
<1>2. \A t : Stepped(k, t) = Op(t)
  BY DEF AnyStep, Stepped
<1> HIDE DEF c, Op
<1>3. PICK g : Solves(g, k, s, n)
  BY FollowsExists
<1>4. Eqn(g)
  <2>1. g = [i \in 0 .. n |-> g[i]]
    BY <1>3 DEF Solves
  <2>2. ASSUME NEW i \in 0 .. n PROVE g[i] = IF i = 0 THEN Begun(s) ELSE Op(g[i - 1])
    <3>1. i = 0 \/ i \in 1 .. n
      OBVIOUS
    <3>2. ASSUME i \in 1 .. n PROVE g[i] = Op(g[i - 1]) /\ i # 0
      <4>1. g[i] = Stepped(k, g[i - 1])
        BY <1>3, <3>2 DEF Solves, Follows
      <4> QED BY <1>2, <3>2, <4>1
    <3> QED BY <1>3, <3>1, <3>2 DEF Solves, Follows
  <2> QED BY <2>1, <2>2
<1>5. Eqn(c)
  <2> HIDE DEF Eqn
  <2> QED BY <1>4 DEF c
<1>6. Follows(c, k, s, n)
  <2>1. c[0] = Begun(s)
    BY <1>5
  <2>2. ASSUME NEW i \in 1 .. n PROVE c[i] = Stepped(k, c[i - 1])
    <3>1. i \in 0 .. n /\ i # 0
      OBVIOUS
    <3>2. c[i] = Op(c[i - 1])
      BY <1>5, <3>1
    <3> HIDE DEF Eqn
    <3> QED BY <1>2, <3>2
  <2> HIDE DEF Eqn
  <2> QED BY <2>1, <2>2 DEF Follows
<1> QED BY <1>1, <1>6 DEF Runs, Ended

CheckAll(s, n, enable) == Loop(LAMBDA t : CheckStep(t, enable), s, n)

LEMMA CheckRuns ==
  ASSUME NEW s, s.ok, NEW n \in Nat, NEW enable, NEW k, k.loop = "check", k.enable = enable
  PROVE  Runs(CheckAll(s, n, enable), k, s, n)
<1> DEFINE Op(t) == IF t.done \/ ~t.ok THEN t ELSE CheckStep(t, enable)
           Eqn(a) == a = [i \in 0 .. n |-> IF i = 0 THEN Begun(s) ELSE Op(a[i - 1])]
           c == CHOOSE a : Eqn(a)
<1>1. CheckAll(s, n, enable) = [c[n] EXCEPT !.hung = @ \/ (c[n].ok /\ ~c[n].done)]
  BY DEF CheckAll, Loop, Begun
<1>2. \A t : Stepped(k, t) = Op(t)
  BY DEF AnyStep, Stepped
<1> HIDE DEF c, Op
<1>3. PICK g : Solves(g, k, s, n)
  BY FollowsExists
<1>4. Eqn(g)
  <2>1. g = [i \in 0 .. n |-> g[i]]
    BY <1>3 DEF Solves
  <2>2. ASSUME NEW i \in 0 .. n PROVE g[i] = IF i = 0 THEN Begun(s) ELSE Op(g[i - 1])
    <3>1. i = 0 \/ i \in 1 .. n
      OBVIOUS
    <3>2. ASSUME i \in 1 .. n PROVE g[i] = Op(g[i - 1]) /\ i # 0
      <4>1. g[i] = Stepped(k, g[i - 1])
        BY <1>3, <3>2 DEF Solves, Follows
      <4> QED BY <1>2, <3>2, <4>1
    <3> QED BY <1>3, <3>1, <3>2 DEF Solves, Follows
  <2> QED BY <2>1, <2>2
<1>5. Eqn(c)
  <2> HIDE DEF Eqn
  <2> QED BY <1>4 DEF c
<1>6. Follows(c, k, s, n)
  <2>1. c[0] = Begun(s)
    BY <1>5
  <2>2. ASSUME NEW i \in 1 .. n PROVE c[i] = Stepped(k, c[i - 1])
    <3>1. i \in 0 .. n /\ i # 0
      OBVIOUS
    <3>2. c[i] = Op(c[i - 1])
      BY <1>5, <3>1
    <3> HIDE DEF Eqn
    <3> QED BY <1>2, <3>2
  <2> HIDE DEF Eqn
  <2> QED BY <2>1, <2>2 DEF Follows
<1> QED BY <1>1, <1>6 DEF Runs, Ended

MatchAll(s, n, id) == Loop(LAMBDA t : MatchStep(t, id), s, n)

LEMMA MatchRuns ==
  ASSUME NEW s, s.ok, NEW n \in Nat, NEW id, NEW k, k.loop = "match", k.id = id
  PROVE  Runs(MatchAll(s, n, id), k, s, n)
<1> DEFINE Op(t) == IF t.done \/ ~t.ok THEN t ELSE MatchStep(t, id)
           Eqn(a) == a = [i \in 0 .. n |-> IF i = 0 THEN Begun(s) ELSE Op(a[i - 1])]
           c == CHOOSE a : Eqn(a)
<1>1. MatchAll(s, n, id) = [c[n] EXCEPT !.hung = @ \/ (c[n].ok /\ ~c[n].done)]
  BY DEF MatchAll, Loop, Begun
<1>2. \A t : Stepped(k, t) = Op(t)
  BY DEF AnyStep, Stepped
<1> HIDE DEF c, Op
<1>3. PICK g : Solves(g, k, s, n)
  BY FollowsExists
<1>4. Eqn(g)
  <2>1. g = [i \in 0 .. n |-> g[i]]
    BY <1>3 DEF Solves
  <2>2. ASSUME NEW i \in 0 .. n PROVE g[i] = IF i = 0 THEN Begun(s) ELSE Op(g[i - 1])
    <3>1. i = 0 \/ i \in 1 .. n
      OBVIOUS
    <3>2. ASSUME i \in 1 .. n PROVE g[i] = Op(g[i - 1]) /\ i # 0
      <4>1. g[i] = Stepped(k, g[i - 1])
        BY <1>3, <3>2 DEF Solves, Follows
      <4> QED BY <1>2, <3>2, <4>1
    <3> QED BY <1>3, <3>1, <3>2 DEF Solves, Follows
  <2> QED BY <2>1, <2>2
<1>5. Eqn(c)
  <2> HIDE DEF Eqn
  <2> QED BY <1>4 DEF c
<1>6. Follows(c, k, s, n)
  <2>1. c[0] = Begun(s)
    BY <1>5
  <2>2. ASSUME NEW i \in 1 .. n PROVE c[i] = Stepped(k, c[i - 1])
    <3>1. i \in 0 .. n /\ i # 0
      OBVIOUS
    <3>2. c[i] = Op(c[i - 1])
      BY <1>5, <3>1
    <3> HIDE DEF Eqn
    <3> QED BY <1>2, <3>2
  <2> HIDE DEF Eqn
  <2> QED BY <2>1, <2>2 DEF Follows
<1> QED BY <1>1, <1>6 DEF Runs, Ended

CancelBids(s, n) == Loop(CancelBidStep, s, n)

LEMMA CancelBidRuns ==
  ASSUME NEW s, s.ok, NEW n \in Nat, NEW k, k.loop = "bids"
  PROVE  Runs(CancelBids(s, n), k, s, n)
<1> DEFINE Op(t) == IF t.done \/ ~t.ok THEN t ELSE CancelBidStep(t)
           Eqn(a) == a = [i \in 0 .. n |-> IF i = 0 THEN Begun(s) ELSE Op(a[i - 1])]
           c == CHOOSE a : Eqn(a)
<1>1. CancelBids(s, n) = [c[n] EXCEPT !.hung = @ \/ (c[n].ok /\ ~c[n].done)]
  BY DEF CancelBids, Loop, Begun
<1>2. \A t : Stepped(k, t) = Op(t)
  BY DEF AnyStep, Stepped
<1> HIDE DEF c, Op
<1>3. PICK g : Solves(g, k, s, n)
  BY FollowsExists
<1>4. Eqn(g)
  <2>1. g = [i \in 0 .. n |-> g[i]]
    BY <1>3 DEF Solves
  <2>2. ASSUME NEW i \in 0 .. n PROVE g[i] = IF i = 0 THEN Begun(s) ELSE Op(g[i - 1])
    <3>1. i = 0 \/ i \in 1 .. n
      OBVIOUS
    <3>2. ASSUME i \in 1 .. n PROVE g[i] = Op(g[i - 1]) /\ i # 0
      <4>1. g[i] = Stepped(k, g[i - 1])
        BY <1>3, <3>2 DEF Solves, Follows
      <4> QED BY <1>2, <3>2, <4>1
    <3> QED BY <1>3, <3>1, <3>2 DEF Solves, Follows
  <2> QED BY <2>1, <2>2
<1>5. Eqn(c)
  <2> HIDE DEF Eqn
  <2> QED BY <1>4 DEF c
<1>6. Follows(c, k, s, n)
  <2>1. c[0] = Begun(s)
    BY <1>5
  <2>2. ASSUME NEW i \in 1 .. n PROVE c[i] = Stepped(k, c[i - 1])
    <3>1. i \in 0 .. n /\ i # 0
      OBVIOUS
    <3>2. c[i] = Op(c[i - 1])
      BY <1>5, <3>1
    <3> HIDE DEF Eqn
    <3> QED BY <1>2, <3>2
  <2> HIDE DEF Eqn
  <2> QED BY <2>1, <2>2 DEF Follows
<1> QED BY <1>1, <1>6 DEF Runs, Ended

CancelAll(s, n, now) == Loop(LAMBDA t : CancelStep(t, now), s, n)

LEMMA CancelRuns ==
  ASSUME NEW s, s.ok, NEW n \in Nat, NEW now, NEW k, k.loop = "cancel", k.now = now
  PROVE  Runs(CancelAll(s, n, now), k, s, n)
<1> DEFINE Op(t) == IF t.done \/ ~t.ok THEN t ELSE CancelStep(t, now)
           Eqn(a) == a = [i \in 0 .. n |-> IF i = 0 THEN Begun(s) ELSE Op(a[i - 1])]
           c == CHOOSE a : Eqn(a)
<1>1. CancelAll(s, n, now) = [c[n] EXCEPT !.hung = @ \/ (c[n].ok /\ ~c[n].done)]
  BY DEF CancelAll, Loop, Begun
<1>2. \A t : Stepped(k, t) = Op(t)
  BY DEF AnyStep, Stepped
<1> HIDE DEF c, Op
<1>3. PICK g : Solves(g, k, s, n)
  BY FollowsExists
<1>4. Eqn(g)
  <2>1. g = [i \in 0 .. n |-> g[i]]
    BY <1>3 DEF Solves
  <2>2. ASSUME NEW i \in 0 .. n PROVE g[i] = IF i = 0 THEN Begun(s) ELSE Op(g[i - 1])
    <3>1. i = 0 \/ i \in 1 .. n
      OBVIOUS
    <3>2. ASSUME i \in 1 .. n PROVE g[i] = Op(g[i - 1]) /\ i # 0
      <4>1. g[i] = Stepped(k, g[i - 1])
        BY <1>3, <3>2 DEF Solves, Follows
      <4> QED BY <1>2, <3>2, <4>1
    <3> QED BY <1>3, <3>1, <3>2 DEF Solves, Follows
  <2> QED BY <2>1, <2>2
<1>5. Eqn(c)
  <2> HIDE DEF Eqn
  <2> QED BY <1>4 DEF c
<1>6. Follows(c, k, s, n)
  <2>1. c[0] = Begun(s)
    BY <1>5
  <2>2. ASSUME NEW i \in 1 .. n PROVE c[i] = Stepped(k, c[i - 1])
    <3>1. i \in 0 .. n /\ i # 0
      OBVIOUS
    <3>2. c[i] = Op(c[i - 1])
      BY <1>5, <3>1
    <3> HIDE DEF Eqn
    <3> QED BY <1>2, <3>2
  <2> HIDE DEF Eqn
  <2> QED BY <2>1, <2>2 DEF Follows
<1> QED BY <1>1, <1>6 DEF Runs, Ended

SettleAll(s, n, now, most) == Loop(LAMBDA t : SettleStep(t, now, most), s, n)

LEMMA SettleRuns ==
  ASSUME NEW s, s.ok, NEW n \in Nat, NEW now, NEW most, NEW k, k.loop = "settle", k.now = now, k.most = most
  PROVE  Runs(SettleAll(s, n, now, most), k, s, n)
<1> DEFINE Op(t) == IF t.done \/ ~t.ok THEN t ELSE SettleStep(t, now, most)
           Eqn(a) == a = [i \in 0 .. n |-> IF i = 0 THEN Begun(s) ELSE Op(a[i - 1])]
           c == CHOOSE a : Eqn(a)
<1>1. SettleAll(s, n, now, most) = [c[n] EXCEPT !.hung = @ \/ (c[n].ok /\ ~c[n].done)]
  BY DEF SettleAll, Loop, Begun
<1>2. \A t : Stepped(k, t) = Op(t)
  BY DEF AnyStep, Stepped
<1> HIDE DEF c, Op
<1>3. PICK g : Solves(g, k, s, n)
  BY FollowsExists
<1>4. Eqn(g)
  <2>1. g = [i \in 0 .. n |-> g[i]]
    BY <1>3 DEF Solves
  <2>2. ASSUME NEW i \in 0 .. n PROVE g[i] = IF i = 0 THEN Begun(s) ELSE Op(g[i - 1])
    <3>1. i = 0 \/ i \in 1 .. n
      OBVIOUS
    <3>2. ASSUME i \in 1 .. n PROVE g[i] = Op(g[i - 1]) /\ i # 0
      <4>1. g[i] = Stepped(k, g[i - 1])
        BY <1>3, <3>2 DEF Solves, Follows
      <4> QED BY <1>2, <3>2, <4>1
    <3> QED BY <1>3, <3>1, <3>2 DEF Solves, Follows
  <2> QED BY <2>1, <2>2
<1>5. Eqn(c)
  <2> HIDE DEF Eqn
  <2> QED BY <1>4 DEF c
<1>6. Follows(c, k, s, n)
  <2>1. c[0] = Begun(s)
    BY <1>5
  <2>2. ASSUME NEW i \in 1 .. n PROVE c[i] = Stepped(k, c[i - 1])
    <3>1. i \in 0 .. n /\ i # 0
      OBVIOUS
    <3>2. c[i] = Op(c[i - 1])
      BY <1>5, <3>1
    <3> HIDE DEF Eqn
    <3> QED BY <1>2, <3>2
  <2> HIDE DEF Eqn
  <2> QED BY <2>1, <2>2 DEF Follows
<1> QED BY <1>1, <1>6 DEF Runs, Ended

-----------------------------------------------------------------------------
LEMMA KeepsStops ==
  ASSUME NEW s, NEW t, Stops(s, t), ASSUME Sound(s), t.ok PROVE \A k, m \in Int : Books(s, k, m) => Books(t, k, m)
  PROVE  Keeps(s, t)
BY DEF Keeps, Books

LEMMA KeepsRefl ==
  ASSUME NEW s, DOMAIN s = Fields
  PROVE  Keeps(s, s)
BY DEF Keeps, Stops

LEMMA KeepsDomain ==
  ASSUME NEW s, NEW t, Keeps(s, t)
  PROVE  DOMAIN t = Fields
BY DEF Keeps, Stops

LEMMA KeepsDone ==
  ASSUME NEW s, DOMAIN s = Fields
  PROVE  Keeps(s, Done(s)) /\ Done(s).done
BY DoneIs, KeepsAlike

LEMMA KeepsRequire ==
  ASSUME NEW s, DOMAIN s = Fields, NEW c
  PROVE  Keeps(s, Require(s, c))
<1>1. Stops(s, Require(s, c)) /\ (Require(s, c).ok => Alike(s, Require(s, c)))
  BY RequireStops
<1>2. CASE Require(s, c).ok
  BY <1>1, <1>2, KeepsAlike
<1>3. CASE ~Require(s, c).ok
  BY <1>1, <1>3 DEF Keeps
<1> QED BY <1>2, <1>3

LEMMA SoundTables ==
  ASSUME NEW s, Sound(s)
  PROVE  /\ DOMAIN s = Fields /\ s.ok
         /\ IsFiniteSet(s.limits) /\ s.limits \subseteq Limits
         /\ IsFiniteSet(s.calls) /\ s.calls \subseteq Positions
         /\ IsFiniteSet(s.settles) /\ s.settles \subseteq Settles
         /\ IsFiniteSet(s.bids) /\ s.bids \subseteq Offers
BY DEF Sound, Table

LEMMA SoundFeed ==
  ASSUME NEW s, Sound(s), s.feed # none
  PROVE  s.feed \in PriceFeeds /\ max_short_squeeze_price(s.feed) \in Rates
BY SqueezeIs DEF Sound

LEMMA MatchCallKeeps ==
  ASSUME NEW s, DOMAIN s = Fields, NEW id, NEW c,
         Sound(s) => /\ Find(s, id) # {} /\ Taker(s, id).sells = "mia" /\ c \in s.calls
                     /\ ~has_settlement(s) /\ s.feed # none
  PROVE  LET t == match_call(s, id, c) IN
         Keeps(s, t) /\ (t.done \/ Find(t, id) # {})
<1> DEFINE taker == Taker(s, id)
           p == max_short_squeeze_price(s.feed)
           x == Exchange(c, taker.for_sale, p)
           r == x.core
           n == x.mia
           cull == c.debt > taker.for_sale
           f == fill_limit_order(s, taker, n, r, cull)
           u == fill_call_order(f, c, r, n)
           v == UnlessGone(u, id)
           t == match_call(s, id, c)
<1>1. t = IF r = 0 THEN Done(s) ELSE v
  BY DEF match_call
<1>2. CASE r = 0
  BY <1>1, <1>2, KeepsDone
<1>3. CASE r # 0
  <2>1. t = v
    BY <1>1, <1>3
  <2> HIDE DEF t, cull, r, n, taker
  <2>2. Stops(s, f)
    BY FillStops
  <2>3. DOMAIN f = Fields
    BY <2>2 DEF Stops
  <2>4. Stops(f, u)
    BY <2>3, FillCallIs
  <2>5. DOMAIN u = Fields
    BY <2>4 DEF Stops
  <2>6. Alike(u, v) /\ (v.done <=> Find(v, id) = {})
    BY <2>5, UnlessGoneIs
  <2>7. Keeps(u, v)
    BY <2>5, <2>6, KeepsAlike
  <2>8. Stops(s, u)
    BY <2>2, <2>4 DEF Stops
  <2>9. ASSUME Sound(s), u.ok PROVE \A k, m \in Int : Books(s, k, m) => Books(u, k, m)
    <3>1. /\ taker \in s.limits /\ taker.sells = "mia" /\ c \in s.calls
          /\ ~has_settlement(s) /\ s.feed # none
      BY <2>9, TakerIs DEF taker
    <3>2. taker \in Limits /\ c \in Positions
      BY <2>9, <3>1, SoundTables
    <3>3. taker.for_sale \in Nat /\ c.debt \in Positive
      BY <3>2 DEF Limits, Positions, Positive
    <3>4. p \in Rates
      BY <2>9, <3>1, SoundFeed
    <3> HIDE DEF p
    <3>5. r \in Nat /\ n \in Nat /\ n <= c.debt /\ n <= taker.for_sale
      BY <3>3, <3>4, ExchangeIs DEF r, n
    <3> HIDE DEF f, u
    <3> QED BY <2>9, <3>1, <3>5, LimitThenCall DEF f, u
  <2> HIDE DEF f, u, v
  <2>10. Keeps(s, u)
    BY <2>8, <2>9, KeepsStops
  <2>11. Keeps(s, v)
    BY <2>7, <2>10, KeepsTrans
  <2> QED BY <2>1, <2>6, <2>11 DEF t
<1> QED BY <1>2, <1>3

LEMMA MatchKeeps ==
  ASSUME NEW s, DOMAIN s = Fields, NEW id, NEW o,
         Sound(s) => /\ Find(s, id) # {} /\ o \in s.limits
                     /\ o.sells = Other(Taker(s, id).sells)
  PROVE  LET t == match(s, id, o) IN
         Keeps(s, t) /\ (Sound(s) /\ t.ok => t.done \/ Find(t, id) # {})
<1> DEFINE t == match(s, id, o)
<1>1. Stops(s, t)
  BY MatchStops
<1>2. Sound(s) => Moves(s, t, StepFields, "core", 0, 0) /\ (t.ok => t.done \/ Find(t, id) # {})
  BY MatchOrders
<1>3. StepFields \in SUBSET OrderSteps
  BY DEF StepFields, OrderSteps
<1> HIDE DEF t
<1>4. Keeps(s, t)
  BY <1>1, <1>2, <1>3, KeepsOrders
<1> QED BY <1>2, <1>4 DEF t

(* One step of the loop in which a new order takes others.                 *)
LEMMA MatchStepKeeps ==
  ASSUME NEW s, DOMAIN s = Fields, NEW id, Sound(s) => Find(s, id) # {}
  PROVE  LET t == MatchStep(s, id) IN
         Keeps(s, t) /\ (Sound(s) /\ t.ok => t.done \/ Find(t, id) # {})
<1> DEFINE o == Taker(s, id)
           calls == Calls(s, o)
           makers == Makers(s, o)
           best == makers # {} /\ (calls = {} \/ BetterThanCalls(s, Best(makers)))
           t == MatchStep(s, id)
<1>1. t = IF best THEN match(s, id, Best(makers))
          ELSE IF calls # {} THEN match_call(s, id, FirstCall(s)) ELSE Done(s)
  BY DEF MatchStep
<1>2. CASE best
  <2>1. t = match(s, id, Best(makers))
    BY <1>1, <1>2
  <2>2. ASSUME Sound(s) PROVE Best(makers) \in s.limits /\ Best(makers).sells = Other(o.sells)
    <3>1. makers \subseteq s.limits /\ \A x \in makers : x.sells = Other(o.sells)
      BY DEF Makers, Selling
    <3>2. IsFiniteSet(makers) /\ makers \subseteq Limits /\ makers # {}
      BY <1>2, <2>2, <3>1, SoundTables, FS_Subset
    <3> HIDE DEF makers
    <3>3. Best(makers) \in makers
      BY <3>2, BestIs
    <3> QED BY <3>1, <3>3
  <2> QED BY <2>1, <2>2, MatchKeeps
<1>3. CASE ~best /\ calls # {}
  <2>1. t = match_call(s, id, FirstCall(s))
    BY <1>1, <1>3
  <2>2. ASSUME Sound(s)
        PROVE /\ o.sells = "mia" /\ FirstCall(s) \in s.calls
              /\ ~has_settlement(s) /\ s.feed # none
    <3>1. o.sells # "core" /\ ~has_settlement(s) /\ s.feed # none /\ s.calls # {}
      BY <1>3 DEF Calls
    <3>2. o \in Limits
      BY <2>2, TakerIs, SoundTables
    <3>3. o.sells = "mia"
      BY <3>1, <3>2 DEF Limits, Assets
    <3>4. FirstCall(s) \in s.calls
      BY <2>2, <3>1, SoundTables, FirstCallIs
    <3> QED BY <3>1, <3>3, <3>4
  <2> QED BY <2>1, <2>2, MatchCallKeeps
<1>4. CASE ~best /\ calls = {}
  <2>1. t = Done(s)
    BY <1>1, <1>4
  <2> QED BY <2>1, KeepsDone
<1> QED BY <1>2, <1>3, <1>4

-----------------------------------------------------------------------------
(* A global settlement.                                                    *)
LEMMA CallsSize ==
  ASSUME NEW s, Sound(s)
  PROVE  /\ IsFiniteSet(s.calls) /\ Cardinality(s.calls) \in Nat
         /\ Cardinality(s.limits) \in Nat /\ Cardinality(s.settles) \in Nat
         /\ Iterations(s) \in Nat /\ Iterations(s) > Cardinality(s.calls)
<1>1. /\ Cardinality(s.calls) \in Nat /\ Cardinality(s.limits) \in Nat
      /\ Cardinality(s.settles) \in Nat
  BY SoundTables, FS_CardinalityType
<1> QED BY <1>1, SoundTables DEF Iterations

(* What the positions C are to pay. *)
Due(pays, C) == SumFunction([c \in C |-> pays[c]])

LEMMA DueGone ==
  ASSUME NEW C, IsFiniteSet(C), NEW pays, \A c \in C : pays[c] \in Nat, NEW c \in C
  PROVE  /\ Due(pays, C) \in Nat
         /\ Due(pays, Without(C, c)) = Due(pays, C) - pays[c]
<1> DEFINE f == [x \in C |-> pays[x]]
           e == [x \in Without(C, c) |-> pays[x]]
<1>1. f \in [C -> Nat] /\ f \in [C -> Int]
  OBVIOUS
<1>2. e \in [Without(C, c) -> Int] /\ \A x \in Without(C, c) : e[x] = f[x]
  BY DEF Without
<1>3. f[c] = pays[c] /\ Due(pays, C) = SumFunction(f) /\ Due(pays, Without(C, c)) = SumFunction(e)
  BY DEF Due
<1> HIDE DEF f, e
<1>4. SumFunction(f) \in Nat
  BY <1>1, SumOfNats
<1>5. SumFunction(e) = SumFunction(f) - f[c]
  BY <1>1, <1>2, SumGone
<1> QED BY <1>3, <1>4, <1>5

LEMMA DueNone == \A pays : Due(pays, {}) = 0
<1> SUFFICES ASSUME NEW pays PROVE Due(pays, {}) = 0
  OBVIOUS
<1>1. [c \in {} |-> pays[c]] \in [{} -> Int]
  OBVIOUS
<1> QED BY <1>1, SumOfNothing DEF Due

CloseFields == CallFields \cup {"done"}

(* After i steps that close positions of q, with the state x.              *)
Closing(q, x, pays, i) ==
  /\ Stops(q, x)
  /\ x.ok => /\ Sound(x) /\ Only(q, x, CloseFields)
             /\ \A c \in x.calls : pays[c] \in Nat
             /\ TotalMia(x) = TotalMia(q)
             /\ TotalCore(x) = TotalCore(q) - Due(pays, q.calls) + Due(pays, x.calls)
             /\ x.done => x.calls = {}
             /\ ~x.done => Cardinality(x.calls) + i <= Cardinality(q.calls)

LEMMA CloseStepIs ==
  ASSUME NEW q, NEW pays, NEW i \in Nat, NEW x, Closing(q, x, pays, i), ~x.done, x.ok,
         TotalCore(q) \in Int, Due(pays, q.calls) \in Int, Cardinality(q.calls) \in Nat
  PROVE  Closing(q, CloseStep(x, pays), pays, i + 1)
<1> DEFINE c == FirstCall(x)
           t == CloseStep(x, pays)
<1>1. /\ Stops(q, x) /\ Sound(x) /\ Only(q, x, CloseFields)
      /\ \A y \in x.calls : pays[y] \in Nat
      /\ TotalMia(x) = TotalMia(q)
      /\ TotalCore(x) = TotalCore(q) - Due(pays, q.calls) + Due(pays, x.calls)
      /\ Cardinality(x.calls) + i <= Cardinality(q.calls)
  BY DEF Closing
<1>2. CASE x.calls = {}
  <2>1. t = Done(x)
    BY <1>2 DEF CloseStep
  <2>2. DOMAIN x = Fields
    BY <1>1 DEF Stops
  <2>3. Only(x, t, {"done"}) /\ Alike(x, t) /\ Stops(x, t) /\ t.done = TRUE
    BY <2>1, <2>2, DoneIs
  <2> HIDE DEF t
  <2>4. /\ Sound(t) /\ TotalCore(t) = TotalCore(x) /\ TotalMia(t) = TotalMia(x) /\ t.calls = x.calls
    BY <1>1, <2>3, AlikeSound DEF Alike
  <2>5. Only(q, t, CloseFields)
    BY <1>1, <2>3, OnlyTrans DEF CloseFields
  <2>6. Stops(q, t)
    BY <1>1, <2>3 DEF Stops
  <2> QED BY <1>1, <1>2, <2>3, <2>4, <2>5, <2>6 DEF Closing, t
<1>3. CASE x.calls # {}
  <2>1. t = fill_call_order(x, c, pays[c], c.debt)
    BY <1>3 DEF CloseStep
  <2>2. c \in x.calls
    BY <1>1, <1>3, SoundTables, FirstCallIs
  <2>3. c.debt \in Nat /\ pays[c] \in Nat
    BY <1>1, <2>2, SoundTables DEF Positions, Positive
  <2> HIDE DEF t, c
  <2>4. /\ Only(x, t, CallFields) /\ Stops(x, t)
        /\ t.ok => /\ Sound(t) /\ TotalCore(t) = TotalCore(x) - pays[c] /\ TotalMia(t) = TotalMia(x)
                   /\ t.calls = Without(x.calls, c)
    BY <1>1, <2>1, <2>2, <2>3, CallFilled
  <2>5. Only(q, t, CloseFields) /\ Stops(q, t)
    BY <1>1, <2>4, OnlyTrans DEF CloseFields, Stops
  <2>6. SUFFICES ASSUME t.ok
        PROVE  /\ \A y \in t.calls : pays[y] \in Nat
               /\ TotalMia(t) = TotalMia(q)
               /\ TotalCore(t) = TotalCore(q) - Due(pays, q.calls) + Due(pays, t.calls)
               /\ t.done => t.calls = {}
               /\ ~t.done => Cardinality(t.calls) + (i + 1) <= Cardinality(q.calls)
    BY <2>4, <2>5 DEF Closing, t
  <2>7. t.calls = Without(x.calls, c) /\ TotalCore(t) = TotalCore(x) - pays[c] /\ TotalMia(t) = TotalMia(x)
    BY <2>4, <2>6
  <2>8. t.done = x.done
    BY <2>4 DEF Only, Fields, CallFields
  <2>9. IsFiniteSet(x.calls) /\ Cardinality(x.calls) \in Nat
    BY <1>1, CallsSize
  <2>10. Cardinality(t.calls) = Cardinality(x.calls) - 1
    BY <2>2, <2>7, <2>9, FS_RemoveElement DEF Without
  <2>11. Due(pays, x.calls) \in Nat /\ Due(pays, t.calls) = Due(pays, x.calls) - pays[c]
    BY <1>1, <2>2, <2>7, <2>9, DueGone
  <2>12. \A y \in t.calls : pays[y] \in Nat
    BY <1>1, <2>7 DEF Without
  <2>13. TotalCore(t) = TotalCore(q) - Due(pays, q.calls) + Due(pays, t.calls)
    BY <1>1, <2>3, <2>7, <2>11
  <2>14. Cardinality(t.calls) + (i + 1) <= Cardinality(q.calls)
    BY <1>1, <2>9, <2>10
  <2> QED BY <1>1, <2>7, <2>8, <2>12, <2>13, <2>14
<1> QED BY <1>2, <1>3

LEMMA BegunIs ==
  ASSUME NEW s, DOMAIN s = Fields
  PROVE  Only(s, Begun(s), {"done"}) /\ Alike(s, Begun(s)) /\ Begun(s).done = FALSE
<1>1. Only(s, Begun(s), {"done"}) /\ Begun(s).done = FALSE
  BY DEF Begun, Only, Fields
<1>2. Only(s, Begun(s), {"fills", "done", "called", "hung"})
  BY <1>1 DEF Only
<1> QED BY <1>1, <1>2, AlikeIs

LEMMA EndedIs ==
  ASSUME NEW s, DOMAIN s = Fields
  PROVE  Only(s, Ended(s), {"hung"}) /\ Alike(s, Ended(s))
<1>1. Only(s, Ended(s), {"hung"})
  BY DEF Ended, Only, Fields
<1>2. Only(s, Ended(s), {"fills", "done", "called", "hung"})
  BY <1>1 DEF Only
<1> QED BY <1>1, <1>2, AlikeIs

(* The loop closes all positions.                                          *)
LEMMA AllClosed ==
  ASSUME NEW q, Sound(q), NEW pays, \A c \in q.calls : pays[c] \in Nat,
         NEW n \in Nat, n > Cardinality(q.calls),
         NEW u, u = CloseAll(q, n, pays)
  PROVE  /\ Stops(q, u)
         /\ u.ok => /\ Sound(u) /\ Only(q, u, CloseFields \cup {"hung"}) /\ u.calls = {}
                    /\ TotalMia(u) = TotalMia(q)
                    /\ TotalCore(u) = TotalCore(q) - Due(pays, q.calls)
<1> DEFINE k == [loop |-> "close", pays |-> pays]
<1>0. k.loop = "close" /\ k.pays = pays /\ DOMAIN q = Fields /\ q.ok
  BY SoundTables
<1> HIDE DEF k
<1>1. PICK g : Follows(g, k, q, n) /\ u = Ended(g[n])
  <2>1. Runs(u, k, q, n)
    BY <1>0, CloseRuns
  <2> QED BY <2>1 DEF Runs
<1>2. TotalCore(q) \in Int /\ Cardinality(q.calls) \in Nat /\ IsFiniteSet(q.calls)
  BY SoundParts, CallsSize
<1>3. Due(pays, q.calls) \in Int
  <2>1. CASE q.calls = {}
    BY <2>1, DueNone
  <2>2. CASE q.calls # {}
    BY <1>2, <2>2, DueGone
  <2> QED BY <2>1, <2>2
<1> DEFINE S == {i \in Nat : i <= n => Closing(q, g[i], pays, i)}
<1>4. 0 \in S
  <2>1. g[0] = Begun(q)
    BY <1>1 DEF Follows
  <2>2. Only(q, g[0], {"done"}) /\ Alike(q, g[0]) /\ g[0].done = FALSE
    BY <1>0, <2>1, BegunIs
  <2>3. Sound(g[0]) /\ TotalCore(g[0]) = TotalCore(q) /\ TotalMia(g[0]) = TotalMia(q) /\ Stops(q, g[0])
    BY <2>2, AlikeSound
  <2>4. Only(q, g[0], CloseFields)
    BY <2>2 DEF Only, CloseFields
  <2>5. g[0].calls = q.calls
    BY <2>2 DEF Alike
  <2>6. TotalCore(g[0]) = TotalCore(q) - Due(pays, q.calls) + Due(pays, g[0].calls)
    BY <1>2, <1>3, <2>3, <2>5
  <2>7. Cardinality(g[0].calls) + 0 <= Cardinality(q.calls)
    BY <1>2, <2>5
  <2>8. Closing(q, g[0], pays, 0)
    BY <2>2, <2>3, <2>4, <2>5, <2>6, <2>7 DEF Closing
  <2> QED BY <2>8
<1>5. ASSUME NEW i \in Nat, i \in S PROVE i + 1 \in S
  <2>1. SUFFICES ASSUME i + 1 <= n PROVE Closing(q, g[i + 1], pays, i + 1)
    OBVIOUS
  <2>2. Closing(q, g[i], pays, i)
    BY <1>5, <2>1
  <2>3. g[i + 1] = Stepped(k, g[i])
    <3>1. i + 1 \in 1 .. n /\ (i + 1) - 1 = i
      BY <2>1
    <3> QED BY <1>1, <3>1 DEF Follows
  <2>4. CASE g[i].done \/ ~g[i].ok
    <3>1. g[i + 1] = g[i]
      BY <2>3, <2>4 DEF Stepped
    <3> QED BY <2>2, <2>4, <3>1 DEF Closing
  <2>5. CASE ~g[i].done /\ g[i].ok
    <3>1. g[i + 1] = CloseStep(g[i], pays)
      BY <1>0, <2>3, <2>5 DEF Stepped, AnyStep
    <3> HIDE DEF S
    <3> QED BY <1>2, <1>3, <2>2, <2>5, <3>1, CloseStepIs
  <2> QED BY <2>4, <2>5
<1>6. Closing(q, g[n], pays, n)
  <2> HIDE DEF S
  <2>1. n \in S
    BY <1>4, <1>5, NatSetInduction
  <2> QED BY <2>1 DEF S
<1>7. DOMAIN g[n] = Fields
  BY <1>6 DEF Closing, Stops
<1>8. Only(g[n], u, {"hung"}) /\ Alike(g[n], u)
  BY <1>1, <1>7, EndedIs
<1>9. /\ (Sound(g[n]) => Sound(u)) /\ TotalCore(u) = TotalCore(g[n]) /\ TotalMia(u) = TotalMia(g[n])
      /\ Stops(g[n], u) /\ u.calls = g[n].calls
  BY <1>8, AlikeSound DEF Alike
<1>10. Stops(q, u)
  BY <1>6, <1>9 DEF Closing, Stops
<1>11. ASSUME u.ok
       PROVE  /\ Sound(u) /\ Only(q, u, CloseFields \cup {"hung"}) /\ u.calls = {}
              /\ TotalMia(u) = TotalMia(q)
              /\ TotalCore(u) = TotalCore(q) - Due(pays, q.calls)
  <2>1. g[n].ok
    BY <1>9, <1>11 DEF Stops
  <2>2. /\ Sound(g[n]) /\ Only(q, g[n], CloseFields)
        /\ TotalMia(g[n]) = TotalMia(q)
        /\ TotalCore(g[n]) = TotalCore(q) - Due(pays, q.calls) + Due(pays, g[n].calls)
        /\ g[n].done => g[n].calls = {}
        /\ ~g[n].done => Cardinality(g[n].calls) + n <= Cardinality(q.calls)
    BY <1>6, <2>1 DEF Closing
  <2>3. g[n].calls = {}
    <3>1. Cardinality(g[n].calls) \in Nat
      BY <2>2, CallsSize
    <3> QED BY <1>2, <2>2, <3>1
  <2>4. Only(q, u, CloseFields \cup {"hung"})
    BY <1>8, <2>2, OnlyTrans
  <2>5. Due(pays, g[n].calls) = 0
    BY <2>3, DueNone
  <2>6. TotalCore(u) = TotalCore(q) - Due(pays, q.calls)
    BY <1>2, <1>3, <1>9, <2>2, <2>5
  <2> QED BY <1>9, <2>2, <2>3, <2>4, <2>6
<1> QED BY <1>10, <1>11

-----------------------------------------------------------------------------
LEMMA DebtOfCalls ==
  ASSUME NEW s, Sound(s), s.calls # {}
  PROVE  Debt(s) > 0
<1>1. PICK c \in s.calls : TRUE
  OBVIOUS
<1>2. IsFiniteSet(s.calls) /\ \A x \in s.calls : x["debt"] \in Nat /\ x["debt"] > 0
  BY SoundTables DEF Positions, Positive
<1>3. Total(s.calls, "debt") \in Nat /\ \A x \in s.calls : x["debt"] <= Total(s.calls, "debt")
  BY <1>2, TotalNat
<1>4. c["debt"] \in Nat /\ c["debt"] > 0 /\ c["debt"] <= Total(s.calls, "debt")
  BY <1>2, <1>3
<1> QED BY <1>3, <1>4 DEF Debt

PaysAt(s, p) == [c \in s.calls |-> Min({ToQuoteUp(c.debt, p), c.collateral})]

LEMMA PaysAtIs ==
  ASSUME NEW s, Sound(s), NEW p, p.base \in Positive, p.quote \in Nat
  PROVE  /\ \A c \in s.calls : PaysAt(s, p)[c] \in Nat
         /\ SumFunction(PaysAt(s, p)) = Due(PaysAt(s, p), s.calls)
         /\ SumFunction(PaysAt(s, p)) \in Nat
<1>1. ASSUME NEW c \in s.calls PROVE PaysAt(s, p)[c] \in Nat
  <2>1. c.debt \in Nat /\ c.collateral \in Nat
    BY SoundTables DEF Positions, Positive
  <2>2. ToQuoteUp(c.debt, p) \in Nat
    BY <2>1, RoundUp
  <2> DEFINE up == ToQuoteUp(c.debt, p)
  <2>3. Min({up, c.collateral}) \in {up, c.collateral}
    <3>1. up \in Int /\ c.collateral \in Int
      BY <2>1, <2>2
    <3> HIDE DEF up
    <3> QED BY <3>1, MinOfTwo
  <2> QED BY <2>1, <2>2, <2>3 DEF PaysAt
<1>2. PaysAt(s, p) \in [s.calls -> Nat] /\ PaysAt(s, p) = [c \in s.calls |-> PaysAt(s, p)[c]]
  BY <1>1 DEF PaysAt
<1>3. SumFunction(PaysAt(s, p)) \in Nat
  BY <1>2, SoundTables, SumOfNats
<1> QED BY <1>1, <1>2, <1>3 DEF Due

(* What is done when all positions are closed.                             *)
Settled(s, u, n) ==
  [u EXCEPT !.settlement_price = Price(s.supply, n), !.settlement_fund = n, !.supply = s.supply]

LEMMA GlobalIs ==
  ASSUME NEW s, NEW p
  PROVE  globally_settle_asset(s, p) =
           Settled(s, CloseAll(Require(s, ~has_settlement(s)), Iterations(s), PaysAt(s, p)),
                   SumFunction(PaysAt(s, p)))
BY DEF globally_settle_asset, CloseAll, PaysAt, Settled

LEMMA SettledIs ==
  ASSUME NEW s, NEW u, DOMAIN u = Fields, NEW n
  PROVE  LET t == Settled(s, u, n) IN
         /\ Only(u, t, {"settlement_price", "settlement_fund", "supply"})
         /\ t.settlement_price = Price(s.supply, n) /\ t.settlement_fund = n /\ t.supply = s.supply
BY DEF Settled, Only, Fields

(* The state of a market, or of one where something was refused.           *)
Proper(s) ==
  DOMAIN s = Fields /\ (s.ok => Sound(s) /\ s.supply \in Nat /\ DebtIsSupply(s) /\ FundCovers(s))

LEMMA ProperBooks ==
  ASSUME NEW s, Proper(s), s.ok
  PROVE  \E k, m \in Int : Books(s, k, m)
<1>1. Sound(s) /\ s.supply \in Nat /\ DebtIsSupply(s) /\ FundCovers(s)
  BY DEF Proper
<1>2. TotalCore(s) \in Int /\ TotalMia(s) \in Int /\ s.supply \in Int
  BY <1>1, SoundParts DEF Sound
<1>3. TotalMia(s) - s.supply \in Int /\ TotalMia(s) = s.supply + (TotalMia(s) - s.supply)
  BY <1>2
<1> QED BY <1>1, <1>2, <1>3 DEF Books

LEMMA KeepsProper ==
  ASSUME NEW s, NEW t, Keeps(s, t), Proper(s)
  PROVE  Proper(t)
<1>1. DOMAIN t = Fields /\ (t.ok => s.ok)
  BY DEF Keeps, Stops
<1>2. ASSUME t.ok PROVE Sound(t) /\ t.supply \in Nat /\ DebtIsSupply(t) /\ FundCovers(t)
  <2>1. PICK k, m \in Int : Books(s, k, m)
    BY <1>1, <1>2, ProperBooks
  <2>2. Books(t, k, m)
    BY <1>2, <2>1 DEF Keeps
  <2> QED BY <2>2 DEF Books
<1> QED BY <1>1, <1>2 DEF Proper

LEMMA NoLoop ==
  ASSUME NEW s, ~s.ok
  PROVE  /\ \A n, pays : CloseAll(s, n, pays) = s
         /\ \A n, enable : CheckAll(s, n, enable) = s
         /\ \A n, id : MatchAll(s, n, id) = s
         /\ \A n : CancelBids(s, n) = s
         /\ \A n, now : CancelAll(s, n, now) = s
         /\ \A n, now, most : SettleAll(s, n, now, most) = s
<1>1. /\ \A n, pays : CloseAll(s, n, pays) = s
      /\ \A n, enable : CheckAll(s, n, enable) = s
      /\ \A n, id : MatchAll(s, n, id) = s
  BY DEF CloseAll, CheckAll, MatchAll, Loop
<1>2. /\ \A n : CancelBids(s, n) = s
      /\ \A n, now : CancelAll(s, n, now) = s
      /\ \A n, now, most : SettleAll(s, n, now, most) = s
  BY DEF CancelBids, CancelAll, SettleAll, Loop
<1> QED BY <1>1, <1>2

(* A loop stops where it began, whatever its steps do.                     *)
LEMMA CloseStops ==
  ASSUME NEW q, DOMAIN q = Fields, NEW pays, NEW n, q.ok => n \in Nat
  PROVE  Stops(q, CloseAll(q, n, pays))
<1>a. CASE ~q.ok
  <2>1. CloseAll(q, n, pays) = q
    BY <1>a, NoLoop
  <2> QED BY <2>1 DEF Stops
<1>b. SUFFICES ASSUME q.ok PROVE Stops(q, CloseAll(q, n, pays))
  BY <1>a
<1>c. n \in Nat
  BY <1>b
<1> DEFINE k == [loop |-> "close", pays |-> pays]
           u == CloseAll(q, n, pays)
<1>0. k.loop = "close" /\ k.pays = pays
  OBVIOUS
<1> HIDE DEF k, u
<1>1. PICK g : Follows(g, k, q, n) /\ u = Ended(g[n])
  <2>1. Runs(u, k, q, n)
    BY <1>0, <1>b, <1>c, CloseRuns DEF u
  <2> QED BY <2>1 DEF Runs
<1> DEFINE X == {x \in {g[i] : i \in 0 .. n} : Stops(q, x)}
<1>2. g[0] \in X
  <2>1. g[0] = Begun(q) /\ 0 \in 0 .. n
    BY <1>1, <1>c DEF Follows
  <2>2. Alike(q, g[0])
    BY <2>1, BegunIs
  <2> QED BY <2>1, <2>2, AlikeSound
<1>3. ASSUME NEW i \in 1 .. n, g[i - 1] \in X PROVE g[i] \in X
  <2>1. g[i] = Stepped(k, g[i - 1]) /\ Stops(q, g[i - 1]) /\ i \in 0 .. n
    BY <1>1, <1>3, <1>c DEF Follows
  <2> DEFINE x == g[i - 1]
  <2>2. DOMAIN x = Fields
    BY <2>1 DEF Stops
  <2>3. Stops(x, CloseStep(x, pays))
    <3>1. Stops(x, Done(x))
      BY <2>2, DoneIs
    <3>2. Stops(x, fill_call_order(x, FirstCall(x), pays[FirstCall(x)], FirstCall(x).debt))
      BY <2>2, FillCallIs
    <3> QED BY <3>1, <3>2 DEF CloseStep
  <2>4. Stops(q, CloseStep(x, pays))
    BY <2>1, <2>3 DEF Stops
  <2>5. Stops(q, g[i])
    BY <1>0, <2>1, <2>4 DEF Stepped, AnyStep
  <2> QED BY <2>1, <2>5
<1>4. Stops(q, g[n])
  <2> HIDE DEF X
  <2>1. \A i \in 0 .. n : g[i] \in X
    BY <1>2, <1>3, <1>c, StaysIn
  <2> QED BY <2>1, <1>c DEF X
<1>5. Stops(g[n], u)
  <2>1. DOMAIN g[n] = Fields
    BY <1>4 DEF Stops
  <2>2. Alike(g[n], u)
    BY <1>1, <2>1, EndedIs
  <2> QED BY <2>2, AlikeSound
<1> QED BY <1>4, <1>5 DEF Stops, u

LEMMA GlobalKeeps ==
  ASSUME NEW s, Proper(s), NEW p,
         s.ok => p.base \in Positive /\ p.quote \in Nat /\ (has_settlement(s) \/ s.supply > 0)
  PROVE  Keeps(s, globally_settle_asset(s, p))
<1> DEFINE pays == PaysAt(s, p)
           n == SumFunction(pays)
           q == Require(s, ~has_settlement(s))
           u == CloseAll(q, Iterations(s), pays)
           t == Settled(s, u, n)
<1>0. DOMAIN s = Fields
  BY DEF Proper
<1>1. globally_settle_asset(s, p) = t
  BY GlobalIs
<1>2. Stops(s, q) /\ (q.ok => Alike(s, q)) /\ (q.ok => ~has_settlement(s))
  <2>1. q.ok => ~has_settlement(s)
    BY <1>0, RequireIs
  <2> QED BY <1>0, <2>1, RequireStops
<1>3. DOMAIN q = Fields
  BY <1>2 DEF Stops
<1>a. q.ok => Iterations(s) \in Nat
  BY <1>2, CallsSize DEF Proper, Stops
<1> HIDE DEF q
<1>4. Stops(q, u)
  BY <1>3, <1>a, CloseStops
<1>5. DOMAIN u = Fields
  BY <1>4 DEF Stops
<1>6. /\ Only(u, t, {"settlement_price", "settlement_fund", "supply"})
      /\ t.settlement_price = Price(s.supply, n) /\ t.settlement_fund = n /\ t.supply = s.supply
  BY <1>5, SettledIs
<1> HIDE DEF u, t, n
<1>7. Stops(u, t)
  BY <1>6 DEF Only, Stops, Fields
<1>8. Stops(s, t)
  BY <1>2, <1>4, <1>7 DEF Stops
<1>9. ASSUME NEW k \in Int, NEW m \in Int, Books(s, k, m), t.ok
      PROVE  Books(t, k, m)
  <2>1. u.ok /\ q.ok
    BY <1>4, <1>7, <1>9 DEF Stops
  <2>2. /\ Sound(s) /\ TotalCore(s) = k /\ TotalMia(s) = s.supply + m /\ DebtIsSupply(s)
        /\ ~has_settlement(s) /\ s.settlement_fund = 0
    BY <1>2, <1>9, <2>1 DEF Books, FundCovers
  <2>3. s.supply > 0 /\ s.supply \in Nat /\ p.base \in Positive /\ p.quote \in Nat
    BY <2>2 DEF Sound
  <2>4. (\A c \in s.calls : pays[c] \in Nat) /\ n = Due(pays, s.calls) /\ n \in Nat
    BY <2>2, <2>3, PaysAtIs DEF n
  <2> HIDE DEF pays
  <2>5. Sound(q) /\ TotalCore(q) = k /\ TotalMia(q) = TotalMia(s) /\ q.calls = s.calls
    BY <1>2, <2>1, <2>2, AlikeSound DEF Alike
  <2>6. Iterations(s) \in Nat /\ Iterations(s) > Cardinality(s.calls)
    BY <2>2, CallsSize
  <2>7. /\ Sound(u) /\ Only(q, u, CloseFields \cup {"hung"}) /\ u.calls = {}
        /\ TotalMia(u) = TotalMia(q) /\ TotalCore(u) = TotalCore(q) - Due(pays, q.calls)
    BY <2>1, <2>4, <2>5, <2>6, AllClosed DEF u
  <2>8. u.settlement_fund = 0
    <3>1. u.settlement_fund = q.settlement_fund
      BY <2>7 DEF Only, Fields, CloseFields, CallFields
    <3>2. q.settlement_fund = s.settlement_fund
      BY <1>2, <2>1 DEF Alike
    <3> QED BY <2>2, <3>1, <3>2
  <2>9. /\ DOMAIN t = Fields /\ t.ok /\ t.balance = u.balance /\ t.limits = u.limits
        /\ t.settles = u.settles /\ t.bids = u.bids /\ t.calls = u.calls
        /\ t.core_in_orders = u.core_in_orders
        /\ t.feeds = u.feeds /\ t.feed = u.feed /\ t.published = u.published
        /\ t.force_settled_volume = u.force_settled_volume
        /\ t.accumulated_fees = u.accumulated_fees /\ t.fee_pool = u.fee_pool
        /\ t.paid_fees = u.paid_fees
    BY <1>6, <1>9 DEF Only, Fields
  <2>10. t.settlement_price \in [base : Positive, quote : Nat] /\ t.settlement_price # null
         /\ t.settlement_price.base = s.supply /\ t.settlement_price.quote = n
    <3>1. t.settlement_price = [base |-> s.supply, quote |-> n] /\ null.base = 0
      BY <1>6 DEF Price, null
    <3> QED BY <2>3, <2>4, <3>1 DEF Positive
  <2>11. Sound(t)
    BY <1>6, <2>3, <2>4, <2>7, <2>9, <2>10 DEF Sound, CoreInOrders
  <2>12. TotalMia(t) = s.supply + m
    BY <2>2, <2>5, <2>7, <2>9 DEF TotalMia
  <2>13. TotalCore(t) = k
    <3>1. TotalCore(t) =
          Held(u.balance, "core") + ForSale(u.limits, "core")
          + Total(u.limits, "deferred_fee") + Total(u.calls, "collateral")
          + Total(u.bids, "collateral") + n + u.fee_pool
          + u.paid_fees + u.accumulated_fees["core"]
      BY <1>6, <2>9 DEF TotalCore
    <3>2. TotalCore(u) =
          Held(u.balance, "core") + ForSale(u.limits, "core")
          + Total(u.limits, "deferred_fee") + Total(u.calls, "collateral")
          + Total(u.bids, "collateral") + 0 + u.fee_pool
          + u.paid_fees + u.accumulated_fees["core"]
      BY <2>8 DEF TotalCore
    <3>3. /\ Held(u.balance, "core") \in Int /\ ForSale(u.limits, "core") \in Int
          /\ Total(u.limits, "deferred_fee") \in Int /\ Total(u.calls, "collateral") \in Int
          /\ Total(u.bids, "collateral") \in Int
          /\ u.fee_pool \in Int /\ u.paid_fees \in Int /\ u.accumulated_fees["core"] \in Int
      BY <2>7, SoundParts, AssetsAre
    <3>4. TotalCore(u) = k - n
      BY <2>4, <2>5, <2>7
    <3> QED BY <2>4, <3>1, <3>2, <3>3, <3>4
  <2>14. has_settlement(t)
    BY <2>10 DEF has_settlement
  <2>15. DebtIsSupply(t)
    BY <2>7, <2>9, <2>14 DEF DebtIsSupply
  <2>16. FundCovers(t)
    <3>1. t.supply * t.settlement_price.quote = t.settlement_fund * t.settlement_price.base
      BY <1>6, <2>3, <2>4, <2>10
    <3>2. t.settlement_fund * t.settlement_price.base \in Int
      BY <1>6, <2>3, <2>4, <2>10
    <3>3. t.supply * t.settlement_price.quote <= t.settlement_fund * t.settlement_price.base
      BY <3>1, <3>2
    <3> QED BY <2>14, <3>3 DEF FundCovers
  <2> QED BY <1>6, <2>3, <2>11, <2>12, <2>13, <2>15, <2>16 DEF Books
<1> QED BY <1>1, <1>8, <1>9 DEF Keeps

-----------------------------------------------------------------------------
LEMMA LoopKeeps ==
  ASSUME NEW s, Proper(s), NEW n \in Nat, NEW k, NEW u, Runs(u, k, s, n),
         \A t : Proper(t) /\ t.ok => Keeps(t, AnyStep(k, t))
  PROVE  Keeps(s, u)
<1>0. DOMAIN s = Fields
  BY DEF Proper
<1>1. PICK g : Follows(g, k, s, n) /\ u = Ended(g[n])
  BY DEF Runs
<1> DEFINE X == {x \in {g[i] : i \in 0 .. n} : Keeps(s, x)}
<1>2. g[0] \in X
  <2>1. g[0] = Begun(s) /\ 0 \in 0 .. n
    BY <1>1 DEF Follows
  <2>2. Alike(s, g[0])
    BY <1>0, <2>1, BegunIs
  <2> QED BY <1>0, <2>1, <2>2, KeepsAlike
<1>3. ASSUME NEW i \in 1 .. n, g[i - 1] \in X PROVE g[i] \in X
  <2>1. g[i] = Stepped(k, g[i - 1]) /\ Keeps(s, g[i - 1]) /\ i \in 0 .. n
    BY <1>1, <1>3 DEF Follows
  <2>2. CASE g[i - 1].done \/ ~g[i - 1].ok
    <3>1. g[i] = g[i - 1]
      BY <2>1, <2>2 DEF Stepped
    <3> QED BY <1>3, <3>1
  <2>3. CASE ~g[i - 1].done /\ g[i - 1].ok
    <3>1. g[i] = AnyStep(k, g[i - 1])
      BY <2>1, <2>3 DEF Stepped
    <3>2. Proper(g[i - 1])
      BY <2>1, KeepsProper
    <3>3. Keeps(g[i - 1], g[i])
      BY <2>3, <3>1, <3>2
    <3>4. Keeps(s, g[i])
      BY <2>1, <3>3, KeepsTrans
    <3> QED BY <2>1, <3>4
  <2> QED BY <2>2, <2>3
<1>4. Keeps(s, g[n])
  <2> HIDE DEF X
  <2>1. \A i \in 0 .. n : g[i] \in X
    BY <1>2, <1>3, StaysIn
  <2> QED BY <2>1 DEF X
<1>5. Keeps(g[n], u)
  <2>1. DOMAIN g[n] = Fields
    BY <1>4, KeepsDomain
  <2>2. Alike(g[n], u)
    BY <1>1, <2>1, EndedIs
  <2> QED BY <2>1, <2>2, KeepsAlike
<1> QED BY <1>4, <1>5, KeepsTrans

LEMMA ProperParts ==
  ASSUME NEW s, Proper(s), s.ok
  PROVE  /\ Sound(s) /\ DOMAIN s = Fields /\ Iterations(s) \in Nat
         /\ s.calls # {} => ~has_settlement(s) /\ s.supply > 0
<1>1. Sound(s) /\ DOMAIN s = Fields /\ DebtIsSupply(s)
  BY DEF Proper
<1>2. Iterations(s) \in Nat
  BY <1>1, CallsSize
<1>3. ASSUME s.calls # {} PROVE ~has_settlement(s) /\ s.supply > 0
  <2>1. ~has_settlement(s) /\ s.supply = Debt(s)
    BY <1>1, <1>3 DEF DebtIsSupply, Debt
  <2> QED BY <1>1, <1>3, <2>1, DebtOfCalls
<1> QED BY <1>1, <1>2, <1>3

(* What is refused when condition does not hold, and then settled at p.    *)
LEMMA RefusedOrSettled ==
  ASSUME NEW s, Proper(s), s.ok, s.calls # {}, NEW c, NEW p, p.base \in Positive, p.quote \in Nat
  PROVE  Keeps(s, globally_settle_asset(Require(s, c), p))
<1> DEFINE r == Require(s, c)
<1>1. DOMAIN s = Fields
  BY DEF Proper
<1>2. Keeps(s, r)
  BY <1>1, KeepsRequire
<1>3. r.ok => r.calls = s.calls
  BY <1>1, RequireStops DEF Alike
<1> HIDE DEF r
<1>4. Proper(r)
  BY <1>2, KeepsProper
<1>5. r.ok => r.supply > 0
  BY <1>3, <1>4, ProperParts
<1>6. Keeps(r, globally_settle_asset(r, p))
  BY <1>4, <1>5, GlobalKeeps
<1>7. Keeps(s, globally_settle_asset(r, p))
  BY <1>2, <1>6, KeepsTrans
<1> QED BY <1>7 DEF r

LEMMA BlackSwanKeeps ==
  ASSUME NEW s, Proper(s), s.ok, s.feed # none, s.calls # {}, NEW enable
  PROVE  Keeps(s, check_for_blackswan(s, enable))
<1> DEFINE c == FirstCall(s)
           swan == Price(c.debt, c.collateral)
           p == IF Below(s.feed.price, swan) THEN swan ELSE s.feed.price
<1>1. check_for_blackswan(s, enable) = globally_settle_asset(Require(s, enable), p)
  BY DEF check_for_blackswan
<1>2. Sound(s)
  BY DEF Proper
<1>3. c \in s.calls
  BY <1>2, SoundTables, FirstCallIs
<1>4. c \in Positions
  BY <1>2, <1>3, SoundTables
<1>5. c.debt \in Positive /\ c.collateral \in Nat
  BY <1>4 DEF Positions
<1> HIDE DEF c
<1>6. swan.base \in Positive /\ swan.quote \in Nat
  BY <1>5 DEF Price
<1>7. s.feed.price.base \in Positive /\ s.feed.price.quote \in Nat
  BY <1>2, SoundFeed DEF PriceFeeds, Rates, Positive
<1> HIDE DEF swan
<1>8. p.base \in Positive /\ p.quote \in Nat
  BY <1>6, <1>7
<1> HIDE DEF p
<1> QED BY <1>1, <1>8, RefusedOrSettled

LEMMA MarginCallKeeps ==
  ASSUME NEW s, Proper(s), s.ok, s.feed # none, s.calls # {}, Callers(s) # {}, NEW enable
  PROVE  Keeps(s, MarginCall(s, enable))
<1> DEFINE c == FirstCall(s)
           o == Best(Callers(s))
           x == Exchange(c, o.for_sale, o.price)
           r == x.core
           n == x.mia
           called == [s EXCEPT !.called = TRUE]
           settled == globally_settle_asset(Require(called, enable), s.feed.price)
           f == fill_call_order(called, c, r, n)
           t == fill_limit_order(f, o, n, r, TRUE)
<1>1. MarginCall(s, enable) = IF ToQuote(c.debt, o.price) > c.collateral THEN Done(settled) ELSE t
  BY DEF MarginCall
<1>2. Sound(s) /\ DOMAIN s = Fields /\ ~has_settlement(s)
  BY ProperParts
<1>3. c \in s.calls
  BY <1>2, SoundTables, FirstCallIs
<1>4. o \in s.limits /\ o.sells = "mia"
  <2>1. Callers(s) \subseteq s.limits /\ \A y \in Callers(s) : y.sells = "mia"
    BY DEF Callers, Selling
  <2>2. IsFiniteSet(Callers(s)) /\ Callers(s) \subseteq Limits
    BY <1>2, <2>1, SoundTables, FS_Subset
  <2>3. Best(Callers(s)) \in Callers(s)
    BY <2>2, BestIs
  <2> QED BY <2>1, <2>3
<1>5. c \in Positions /\ o \in Limits
  BY <1>2, <1>3, <1>4, SoundTables
<1>6. c.debt \in Positive /\ o.for_sale \in Nat /\ o.price \in Rates
  BY <1>5 DEF Positions, Limits, Positive
<1> HIDE DEF c, o
<1>7. r \in Nat /\ n \in Nat /\ n <= c.debt /\ n <= o.for_sale
  BY <1>6, ExchangeIs
<1> HIDE DEF r, n
<1>8. Only(s, called, {"called"}) /\ called.called = TRUE
  BY <1>2 DEF Only, Fields
<1> HIDE DEF called
<1>9. Alike(s, called)
  <2>1. Only(s, called, {"fills", "done", "called", "hung"})
    BY <1>8 DEF Only
  <2> QED BY <2>1, AlikeIs
<1>10. Keeps(s, called)
  BY <1>2, <1>9, KeepsAlike
<1>11. Proper(called) /\ called.ok /\ called.calls # {} /\ DOMAIN called = Fields
  BY <1>9, <1>10, KeepsProper DEF Alike
<1>12. CASE ToQuote(c.debt, o.price) > c.collateral
  <2>1. s.feed.price.base \in Positive /\ s.feed.price.quote \in Nat
    BY <1>2, SoundFeed DEF PriceFeeds, Rates, Positive
  <2>2. Keeps(called, settled)
    BY <1>11, <2>1, RefusedOrSettled
  <2> HIDE DEF settled
  <2>3. Keeps(settled, Done(settled))
    BY <2>2, KeepsDomain, KeepsDone
  <2>4. Keeps(s, Done(settled))
    BY <1>10, <2>2, <2>3, KeepsTrans
  <2> QED BY <1>1, <1>12, <2>4
<1>13. CASE ~(ToQuote(c.debt, o.price) > c.collateral)
  <2>1. Stops(called, f)
    BY <1>11, FillCallIs
  <2>2. DOMAIN f = Fields
    BY <2>1 DEF Stops
  <2>3. Stops(f, t)
    BY <2>2, FillStops
  <2>4. Stops(called, t)
    BY <2>1, <2>3 DEF Stops
  <2>5. ASSUME Sound(called), t.ok
        PROVE  \A k, m \in Int : Books(called, k, m) => Books(t, k, m)
    <3>1. /\ c \in called.calls /\ o \in called.limits /\ ~has_settlement(called)
          /\ called.feed # none
      BY <1>2, <1>3, <1>4, <1>9 DEF Alike, has_settlement
    <3>2. f = fill_call_order(called, c, r, n)
      OBVIOUS
    <3> HIDE DEF f
    <3>3. t = fill_limit_order(f, o, n, r, TRUE)
      OBVIOUS
    <3> HIDE DEF t
    <3>4. \A cull : t = fill_limit_order(f, o, n, r, cull) =>
            \A k, m \in Int : Books(called, k, m) => Books(t, k, m)
      BY <1>4, <1>7, <2>5, <3>1, <3>2, CallThenLimit
    <3> QED BY <3>3, <3>4
  <2> HIDE DEF t
  <2>6. Keeps(called, t)
    BY <2>4, <2>5, KeepsStops
  <2>7. Keeps(s, t)
    BY <1>10, <2>6, KeepsTrans
  <2> QED BY <1>1, <1>13, <2>7
<1> QED BY <1>12, <1>13

LEMMA CheckStepKeeps ==
  ASSUME NEW s, Proper(s), s.ok, NEW enable
  PROVE  Keeps(s, CheckStep(s, enable))
<1> DEFINE b == check_for_blackswan(s, enable)
           t == CheckStep(s, enable)
<1>1. Keeps(s, Done(s))
  BY KeepsDone DEF Proper
<1>2. CASE s.feed = none \/ has_settlement(s)
  <2>1. t = Done(s)
    BY <1>2 DEF CheckStep
  <2> QED BY <1>1, <2>1
<1>3. CASE s.feed # none /\ ~has_settlement(s) /\ Swan(s)
  <2>1. t = Done(b)
    BY <1>3 DEF CheckStep
  <2>2. s.calls # {}
    BY <1>3 DEF Swan
  <2>3. Keeps(s, b)
    BY <1>3, <2>2, BlackSwanKeeps
  <2> HIDE DEF b, t
  <2>4. Keeps(b, Done(b))
    BY <2>3, KeepsDomain, KeepsDone
  <2>5. Keeps(s, t)
    BY <2>1, <2>3, <2>4, KeepsTrans
  <2> QED BY <2>5 DEF t
<1>4. CASE s.feed # none /\ ~has_settlement(s) /\ ~Swan(s)
  <2>1. t = IF s.calls = {} \/ Callers(s) = {} THEN Done(s)
            ELSE IF InMarginCall(s, FirstCall(s)) THEN MarginCall(s, enable)
            ELSE Done(s)
    BY <1>4 DEF CheckStep
  <2>2. CASE s.calls # {} /\ Callers(s) # {}
    <3>1. Keeps(s, MarginCall(s, enable))
      BY <1>4, <2>2, MarginCallKeeps
    <3> QED BY <1>1, <2>1, <3>1
  <2>3. CASE s.calls = {} \/ Callers(s) = {}
    BY <1>1, <2>1, <2>3
  <2> QED BY <2>2, <2>3
<1> QED BY <1>2, <1>3, <1>4

LEMMA CheckCallsKeeps ==
  ASSUME NEW s, Proper(s), NEW enable
  PROVE  Keeps(s, check_call_orders(s, enable))
<1> DEFINE n == Iterations(s)
           u == CheckAll(s, n, enable)
           k == [loop |-> "check", enable |-> enable]
<1>1. check_call_orders(s, enable) = u
  BY DEF check_call_orders, CheckAll
<1>2. CASE ~s.ok
  <2>1. u = s
    BY <1>2, NoLoop
  <2>2. Keeps(s, s)
    BY KeepsRefl DEF Proper
  <2> QED BY <1>1, <2>1, <2>2
<1>3. CASE s.ok
  <2>1. n \in Nat
    BY <1>3, ProperParts
  <2>2. k.loop = "check" /\ k.enable = enable
    OBVIOUS
  <2> HIDE DEF k, n, u
  <2>3. Runs(u, k, s, n)
    BY <1>3, <2>1, <2>2, CheckRuns DEF u
  <2>4. \A t : AnyStep(k, t) = CheckStep(t, enable)
    BY <2>2 DEF AnyStep
  <2>5. \A t : Proper(t) /\ t.ok => Keeps(t, AnyStep(k, t))
    BY <2>4, CheckStepKeeps
  <2>6. Keeps(s, u)
    BY <2>1, <2>3, <2>5, LoopKeeps
  <2> QED BY <1>1, <2>6 DEF u, n
<1> QED BY <1>2, <1>3

-----------------------------------------------------------------------------
(* A new order.                                                            *)
LEMMA MatchAllKeeps ==
  ASSUME NEW s, Proper(s), NEW id, Find(s, id) # {}, NEW n, s.ok => n \in Nat
  PROVE  Keeps(s, MatchAll(s, n, id))
<1> DEFINE u == MatchAll(s, n, id)
           k == [loop |-> "match", id |-> id]
<1>0. DOMAIN s = Fields
  BY DEF Proper
<1>1. CASE ~s.ok
  <2>1. u = s
    BY <1>1, NoLoop
  <2> QED BY <1>0, <2>1, KeepsRefl
<1>2. CASE s.ok
  <2>1. n \in Nat
    BY <1>2
  <2>2. k.loop = "match" /\ k.id = id
    OBVIOUS
  <2> HIDE DEF k, u
  <2>3. PICK g : Follows(g, k, s, n) /\ u = Ended(g[n])
    <3>1. Runs(u, k, s, n)
      BY <1>2, <2>1, <2>2, MatchRuns DEF u
    <3> QED BY <3>1 DEF Runs
  <2> DEFINE Here(x) == x.ok => x.done \/ Find(x, id) # {}
             X == {x \in {g[i] : i \in 0 .. n} : Keeps(s, x) /\ Here(x)}
  <2>4. g[0] \in X
    <3>1. g[0] = Begun(s) /\ 0 \in 0 .. n
      BY <2>1, <2>3 DEF Follows
    <3>2. Alike(s, g[0])
      BY <1>0, <3>1, BegunIs
    <3>3. Find(g[0], id) = Find(s, id)
      BY <3>2 DEF Alike, Find
    <3> QED BY <1>0, <3>1, <3>2, <3>3, KeepsAlike
  <2>5. ASSUME NEW i \in 1 .. n, g[i - 1] \in X PROVE g[i] \in X
    <3>1. g[i] = Stepped(k, g[i - 1]) /\ i \in 0 .. n
      BY <2>3, <2>5 DEF Follows
    <3>a. Keeps(s, g[i - 1]) /\ Here(g[i - 1])
      BY <2>5
    <3>2. CASE g[i - 1].done \/ ~g[i - 1].ok
      <4>1. g[i] = g[i - 1]
        BY <3>1, <3>2 DEF Stepped
      <4> QED BY <2>5, <4>1
    <3>3. CASE ~g[i - 1].done /\ g[i - 1].ok
      <4> DEFINE x == g[i - 1]
                 t == MatchStep(x, id)
      <4>1. g[i] = t
        BY <2>2, <3>1, <3>3 DEF Stepped, AnyStep
      <4>2. Find(x, id) # {}
        BY <3>a, <3>3
      <4> HIDE DEF Here
      <4>3. Proper(x)
        BY <3>a, KeepsProper
      <4>4. Sound(x) /\ DOMAIN x = Fields
        BY <3>3, <4>3, ProperParts
      <4> HIDE DEF x, t
      <4>5. Keeps(x, t) /\ (t.ok => t.done \/ Find(t, id) # {})
        BY <4>2, <4>4, MatchStepKeeps DEF t
      <4>6. Keeps(s, t)
        BY <3>a, <4>5, KeepsTrans DEF x
      <4> QED BY <3>1, <4>1, <4>5, <4>6 DEF Here
    <3> QED BY <3>2, <3>3
  <2>6. Keeps(s, g[n])
    <3> HIDE DEF X
    <3>1. \A i \in 0 .. n : g[i] \in X
      BY <2>1, <2>4, <2>5, StaysIn
    <3> QED BY <2>1, <3>1 DEF X
  <2>7. Keeps(g[n], u)
    <3>1. DOMAIN g[n] = Fields
      BY <2>6, KeepsDomain
    <3>2. Alike(g[n], u)
      BY <2>3, <3>1, EndedIs
    <3> QED BY <3>1, <3>2, KeepsAlike
  <2>8. Keeps(s, u)
    BY <2>6, <2>7, KeepsTrans
  <2> QED BY <2>8 DEF u
<1> QED BY <1>1, <1>2

LEMMA ApplyOrderKeeps ==
  ASSUME NEW s, Proper(s), NEW id, Find(s, id) # {}
  PROVE  Keeps(s, apply_order(s, id))
<1> DEFINE u == MatchAll(s, Iterations(s), id)
           o == Taker(u, id)
           t == IF ~AtFront(s, Taker(s, id)) THEN s
                ELSE IF Find(u, id) = {} THEN u
                ELSE maybe_cull_small_order(u, o)
<1>1. apply_order(s, id) = t
  BY DEF apply_order, MatchAll
<1>2. Keeps(s, s)
  BY KeepsRefl DEF Proper
<1>3. Keeps(s, u)
  <2>1. s.ok => Iterations(s) \in Nat
    BY ProperParts
  <2> QED BY <2>1, MatchAllKeeps
<1> HIDE DEF u
<1>4. ASSUME Find(u, id) # {} PROVE Keeps(s, maybe_cull_small_order(u, o))
  <2>1. o \in u.limits /\ DOMAIN u = Fields
    BY <1>3, <1>4, TakerIs, KeepsDomain
  <2>2. Keeps(u, maybe_cull_small_order(u, o))
    BY <2>1, KeepsCull
  <2> QED BY <1>3, <2>2, KeepsTrans
<1> HIDE DEF o
<1>5. Keeps(s, t)
  BY <1>2, <1>3, <1>4
<1> QED BY <1>1, <1>5
=============================================================================
