-------------------------- MODULE ProductionProofs --------------------------
(***************************************************************************)
(* The schedule of the witnesses and the core asset, for any number of     *)
(* witnesses and accounts and any chain parameters: blocks and slots, the  *)
(* order of the witnesses and its renewal, the next maintenance time and   *)
(* the elections; then, through fees, pay and budgets, that every unit is  *)
(* somewhere and that there are no more than max_supply.                   *)
(***************************************************************************)
EXTENDS Production, SumsProofs, SequenceTheorems

-----------------------------------------------------------------------------
(* Whole division by a positive number. *)
LEMMA Division ==
  ASSUME NEW a \in Int, NEW b \in Nat \ {0}
  PROVE  /\ a \div b \in Int /\ a % b \in 0 .. b - 1
         /\ a = b * (a \div b) + (a % b)
         /\ b * (a \div b) <= a /\ a < b * (a \div b) + b
OBVIOUS

LEMMA Multiples ==
  ASSUME NEW b \in Nat \ {0}, NEW m \in Int, NEW n \in Int
  PROVE  /\ b * m \in Int
         /\ b * (m + n) = b * m + b * n
         /\ m * b = b * m
         /\ m <= n <=> b * m <= b * n
         /\ m < n <=> b * m + b <= b * n
         /\ m < n <=> b * m < b * n
OBVIOUS

LEMMA Quotient ==
  ASSUME NEW a \in Int, NEW b \in Nat \ {0}, NEW q \in Int
  PROVE  /\ q <= a \div b <=> b * q <= a
         /\ a \div b = q <=> b * q <= a /\ a < b * q + b
<1> DEFINE k == a \div b
<1>1. k \in Int /\ b * k <= a /\ a < b * k + b
  BY Division
<1>2. /\ b * k \in Int /\ b * q \in Int
      /\ q <= k <=> b * q <= b * k
      /\ k < q <=> b * k + b <= b * q
      /\ q < k <=> b * q + b <= b * k
  BY <1>1, Multiples
<1> HIDE DEF k
<1>3. q <= k <=> b * q <= a
  BY <1>1, <1>2
<1>4. k = q <=> b * q <= a /\ a < b * q + b
  BY <1>1, <1>2
<1> QED BY <1>3, <1>4 DEF k

-----------------------------------------------------------------------------
(* Ranks.  In a finite set with a strict total order every element has a    *)
(* different number of others before it, from none to all but one.  No      *)
(* induction is needed: ranks are an injection of the set into as many      *)
(* numbers as it has elements.                                              *)
Below(S, R, w) == {v \in S : <<v, w>> \in R}

Orders(R, S) ==
  /\ \A v \in S : <<v, v>> \notin R
  /\ \A v, w \in S : v # w => <<v, w>> \in R \/ <<w, v>> \in R
  /\ \A u, v, w \in S : <<u, v>> \in R /\ <<v, w>> \in R => <<u, w>> \in R

LEMMA RankIncreases ==
  ASSUME NEW S, IsFiniteSet(S), NEW R, Orders(R, S), NEW v \in S, NEW w \in S, <<v, w>> \in R
  PROVE  Cardinality(Below(S, R, v)) < Cardinality(Below(S, R, w))
<1> DEFINE V == Below(S, R, v)
           W == Below(S, R, w)
<1>1. IsFiniteSet(V) /\ IsFiniteSet(W)
  BY FS_Subset DEF Below
<1>2. V \in SUBSET W /\ v \in W /\ v \notin V
  BY DEF Below, Orders
<1>3. Cardinality(V) \in Nat /\ Cardinality(W) \in Nat
  BY <1>1, FS_CardinalityType
<1>4. Cardinality(V) <= Cardinality(W) /\ (Cardinality(W) = Cardinality(V) => W = V)
  BY <1>1, <1>2, FS_Subset
<1> HIDE DEF V, W
<1>5. Cardinality(V) < Cardinality(W)
  BY <1>2, <1>3, <1>4
<1> QED BY <1>5 DEF V, W

LEMMA RankBijection ==
  ASSUME NEW S, IsFiniteSet(S), NEW R, Orders(R, S)
  PROVE  [w \in S |-> Cardinality(Below(S, R, w))] \in Bijection(S, 0 .. Cardinality(S) - 1)
<1> DEFINE n == Cardinality(S)
           T == 0 .. n - 1
           rank == [w \in S |-> Cardinality(Below(S, R, w))]
<1>1. n \in Nat
  BY FS_CardinalityType
<1>2. ASSUME NEW w \in S PROVE rank[w] \in T
  <2>1. IsFiniteSet(Below(S, R, w)) /\ Cardinality(Below(S, R, w)) <= n
        /\ (n = Cardinality(Below(S, R, w)) => S = Below(S, R, w))
    BY FS_Subset DEF Below
  <2>2. w \notin Below(S, R, w)
    BY DEF Below, Orders
  <2>3. Cardinality(Below(S, R, w)) \in Nat
    BY <2>1, FS_CardinalityType
  <2> HIDE DEF n
  <2> QED BY <1>1, <2>1, <2>2, <2>3
<1>3. ASSUME NEW v \in S, NEW w \in S, rank[v] = rank[w] PROVE v = w
  <2>1. rank[v] \in Nat /\ rank[w] \in Nat
    BY <1>1, <1>2
  <2>2. <<v, w>> \notin R /\ <<w, v>> \notin R
    BY <1>3, <2>1, RankIncreases
  <2> QED BY <2>2 DEF Orders
<1>4. rank \in [S -> T]
  BY <1>2
<1> HIDE DEF rank
<1>5. rank \in Injection(S, T)
  BY <1>3, <1>4 DEF Injection, IsInjective
<1>6. IsFiniteSet(T) /\ Cardinality(T) = n
  BY <1>1, FS_Interval
<1>7. rank \in Surjection(S, T)
  <2> HIDE DEF T
  <2> QED BY <1>5, <1>6, FS_Injection
<1> QED BY <1>5, <1>7 DEF Bijection, rank

(* A sequence that holds each element at its rank lists the set once. *)
Lists(q, S) ==
  /\ q \in [1 .. Cardinality(S) -> S]
  /\ \A i, j \in 1 .. Cardinality(S) : q[i] = q[j] => i = j
  /\ \A w \in S : \E i \in 1 .. Cardinality(S) : q[i] = w

LEMMA RankedLists ==
  ASSUME NEW S, IsFiniteSet(S), NEW R, Orders(R, S),
         NEW q, q = [i \in 1 .. Cardinality(S) |-> q[i]],
         \A i \in 1 .. Cardinality(S) :
           (\E w \in S : Cardinality(Below(S, R, w)) = i - 1)
             => q[i] \in S /\ Cardinality(Below(S, R, q[i])) = i - 1
  PROVE  Lists(q, S)
<1> DEFINE n == Cardinality(S)
           rank == [w \in S |-> Cardinality(Below(S, R, w))]
<1>1. n \in Nat
  BY FS_CardinalityType
<1>2. rank \in Bijection(S, 0 .. n - 1)
  BY RankBijection
<1>3. /\ \A w \in S : rank[w] = Cardinality(Below(S, R, w))
      /\ \A i \in 1 .. n : (\E w \in S : Cardinality(Below(S, R, w)) = i - 1)
           => q[i] \in S /\ Cardinality(Below(S, R, q[i])) = i - 1
      /\ q = [i \in 1 .. n |-> q[i]]
  OBVIOUS
<1> HIDE DEF n, rank
<1>4. /\ \A v, w \in S : rank[v] = rank[w] => v = w
      /\ \A t \in 0 .. n - 1 : \E w \in S : rank[w] = t
      /\ \A w \in S : rank[w] \in 0 .. n - 1
  BY <1>2 DEF Bijection, Injection, Surjection, IsInjective
<1>5. ASSUME NEW i \in 1 .. n PROVE q[i] \in S /\ rank[q[i]] = i - 1
  <2>1. i - 1 \in 0 .. n - 1
    BY <1>1
  <2>2. \E w \in S : Cardinality(Below(S, R, w)) = i - 1
    BY <1>3, <1>4, <2>1
  <2>3. q[i] \in S /\ Cardinality(Below(S, R, q[i])) = i - 1
    BY <1>3, <2>2
  <2> QED BY <1>3, <2>3
<1>6. q \in [1 .. n -> S]
  BY <1>3, <1>5
<1>7. ASSUME NEW i \in 1 .. n, NEW j \in 1 .. n, q[i] = q[j] PROVE i = j
  <2>1. i - 1 = j - 1
    BY <1>5, <1>7
  <2> QED BY <1>1, <2>1
<1>8. ASSUME NEW w \in S PROVE \E i \in 1 .. n : q[i] = w
  <2>1. rank[w] + 1 \in 1 .. n /\ (rank[w] + 1) - 1 = rank[w]
    BY <1>1, <1>4
  <2>2. rank[q[rank[w] + 1]] = rank[w] /\ q[rank[w] + 1] \in S
    BY <1>5, <2>1
  <2> QED BY <1>4, <2>1, <2>2
<1> QED BY <1>6, <1>7, <1>8 DEF Lists, n

(* What the sorted witness ids are (update_witness_schedule). *)
LEMMA ByIdLists ==
  ASSUME NEW S, IsFiniteSet(S), S \subseteq Nat
  PROVE  Lists(ById(S), S)
<1> DEFINE R == {r \in S \X S : r[1] < r[2]}
<1>1. Orders(R, S)
  BY DEF Orders
<1>2. ASSUME NEW w \in S PROVE Below(S, R, w) = {v \in S : v < w}
  BY DEF Below
<1> DEFINE q == ById(S)
<1>3. /\ q = [i \in 1 .. Cardinality(S) |-> q[i]]
      /\ \A i \in 1 .. Cardinality(S) :
           q[i] = CHOOSE w \in S : Cardinality({v \in S : v < w}) = i - 1
  <2> DEFINE At(i) == CHOOSE w \in S : Cardinality({v \in S : v < w}) = i - 1
  <2>1. q = [i \in 1 .. Cardinality(S) |-> At(i)]
    BY DEF ById, Ranked
  <2>2. \A i \in 1 .. Cardinality(S) : At(i) = CHOOSE w \in S : Cardinality({v \in S : v < w}) = i - 1
    OBVIOUS
  <2> DEFINE D == 1 .. Cardinality(S)
  <2>3. q = [i \in D |-> At(i)]
    BY <2>1
  <2> HIDE DEF At, q, D
  <2>4. \A i \in D : q[i] = At(i)
    BY <2>3
  <2>5. q = [i \in D |-> q[i]]
    BY <2>3, <2>4
  <2> QED BY <2>2, <2>4, <2>5 DEF D
<1> HIDE DEF R, q
<1>4. ASSUME NEW i \in 1 .. Cardinality(S), \E w \in S : Cardinality(Below(S, R, w)) = i - 1
      PROVE  q[i] \in S /\ Cardinality(Below(S, R, q[i])) = i - 1
  <2>1. \E w \in S : Cardinality({v \in S : v < w}) = i - 1
    BY <1>2, <1>4
  <2>2. q[i] \in S /\ Cardinality({v \in S : v < q[i]}) = i - 1
    BY <1>3, <2>1
  <2> QED BY <1>2, <2>2
<1>5. Lists(q, S)
  BY <1>1, <1>3, <1>4, RankedLists
<1> QED BY <1>5 DEF q

-----------------------------------------------------------------------------
(* Elections. *)
LEMMA AccountsTyped ==
  /\ Cardinality(Accounts) \in Nat /\ Accounts = 1 .. Cardinality(Accounts)
  /\ Stake \in [Accounts -> Nat]
  /\ IsFiniteSet(Accounts)
<1>1. /\ Cardinality(Accounts) \in Nat /\ Accounts = 1 .. Cardinality(Accounts)
      /\ Stake \in [Accounts -> Nat]
  BY ConstantsAssumption
<1>2. IsFiniteSet(1 .. Cardinality(Accounts))
  BY <1>1, FS_Interval
<1> QED BY <1>1, <1>2

LEMMA WitnessesTyped ==
  /\ Cardinality(Witnesses) \in Nat \ {0} /\ Witnesses = 1 .. Cardinality(Witnesses)
  /\ Witnesses \subseteq Nat /\ IsFiniteSet(Witnesses) /\ Witnesses # {}
<1>1. Cardinality(Witnesses) \in Nat \ {0} /\ Witnesses = 1 .. Cardinality(Witnesses)
  BY ConstantsAssumption
<1> DEFINE n == Cardinality(Witnesses)
<1> HIDE DEF n
<1>2. n \in Nat \ {0} /\ Witnesses = 1 .. n
  BY <1>1 DEF n
<1>3. IsFiniteSet(Witnesses) /\ Witnesses \subseteq Nat /\ 1 \in Witnesses
  BY <1>2, FS_Interval
<1> QED BY <1>1, <1>3

LEMMA StakeTyped ==
  ASSUME NEW S
  PROVE  StakeOf(S) \in Nat
<1> DEFINE f == [a \in Accounts |-> IF a \in S THEN Stake[a] ELSE 0]
<1>1. \A i \in 1 .. Cardinality(Accounts) : f[i] \in Nat
  BY AccountsTyped
<1> HIDE DEF f
<1>2. Sum(f, Cardinality(Accounts)) \in Nat
  BY <1>1, AccountsTyped, SumOfNaturals
<1> QED BY <1>2 DEF StakeOf, f

(* The votable objects are in a strict total order, by votes and then by   *)
(* vote id.                                                                *)
Preference(op, S) == {r \in S \X S : Preferred(op, r[1], r[2])}

LEMMA PreferenceOrders ==
  ASSUME NEW op, NEW S, S \subseteq Nat
  PROVE  Orders(Preference(op, S), S)
<1> DEFINE P(v, w) == Preferred(op, v, w)
<1>1. \A v : vote_tally(op, v) \in Nat
  BY StakeTyped DEF vote_tally
<1>2. \A v, w \in S : P(v, w) <=> \/ vote_tally(op, v) > vote_tally(op, w)
                                  \/ vote_tally(op, v) = vote_tally(op, w) /\ v < w
  BY DEF Preferred
<1> HIDE DEF P
<1>3. \A v \in S : ~P(v, v)
  BY <1>1, <1>2
<1>4. \A v, w \in S : v # w => P(v, w) \/ P(w, v)
  BY <1>1, <1>2
<1>5. \A u, v, w \in S : P(u, v) /\ P(v, w) => P(u, w)
  BY <1>1, <1>2
<1>6. \A v, w \in S : <<v, w>> \in Preference(op, S) <=> P(v, w)
  BY DEF Preference, P
<1> QED BY <1>3, <1>4, <1>5, <1>6 DEF Orders

LEMMA BelowPreferred ==
  ASSUME NEW op, NEW S, NEW w \in S
  PROVE  Below(S, Preference(op, S), w) = {v \in S : Preferred(op, v, w)}
BY DEF Below, Preference

(* As many are elected as are asked for, if there are that many. *)
LEMMA ElectedCount ==
  ASSUME NEW op, NEW S, IsFiniteSet(S), S \subseteq Nat, NEW count \in Nat
  PROVE  /\ sort_votable_objects(op, S, count) \subseteq S
         /\ IsFiniteSet(sort_votable_objects(op, S, count))
         /\ Cardinality(sort_votable_objects(op, S, count)) = AtMost(count, Cardinality(S))
<1> DEFINE R == Preference(op, S)
           n == Cardinality(S)
           m == AtMost(count, n)
           T == sort_votable_objects(op, S, count)
           rank == [w \in S |-> Cardinality(Below(S, R, w))]
           g == [w \in T |-> rank[w] + 1]
<1>1. n \in Nat /\ m \in Nat /\ m <= n /\ m <= count /\ (m = n \/ m = count)
  BY FS_CardinalityType DEF AtMost
<1>2. rank \in Bijection(S, 0 .. n - 1)
  BY PreferenceOrders, RankBijection
<1>3. T = {w \in S : rank[w] < count}
  BY BelowPreferred DEF sort_votable_objects
<1> HIDE DEF rank, T, m, n
<1>4. /\ \A v, w \in S : rank[v] = rank[w] => v = w
      /\ \A t \in 0 .. n - 1 : \E w \in S : rank[w] = t
      /\ \A w \in S : rank[w] \in 0 .. n - 1
  BY <1>2 DEF Bijection, Injection, Surjection, IsInjective
<1>5. g \in [T -> 1 .. m]
  BY <1>1, <1>3, <1>4
<1>6. \A v, w \in T : g[v] = g[w] => v = w
  BY <1>1, <1>3, <1>4
<1>7. ASSUME NEW t \in 1 .. m PROVE \E w \in T : g[w] = t
  <2>1. t - 1 \in 0 .. n - 1 /\ t - 1 < count
    BY <1>1
  <2>2. PICK w \in S : rank[w] = t - 1
    BY <1>4, <2>1
  <2>3. w \in T /\ g[w] = t
    BY <1>1, <1>3, <2>1, <2>2
  <2> QED BY <2>3
<1>8. T \subseteq S /\ IsFiniteSet(T)
  BY <1>3, FS_Subset
<1> HIDE DEF g
<1>9. g \in Bijection(T, 1 .. m)
  BY <1>5, <1>6, <1>7 DEF Bijection, Injection, Surjection, IsInjective
<1>10. Cardinality(1 .. m) = m
  BY <1>1, FS_Interval
<1>11. Cardinality(T) = m
  BY <1>8, <1>9, <1>10, FS_Bijection DEF ExistsBijection
<1> QED BY <1>8, <1>11 DEF T, m, n

LEMMA LeastOf ==
  ASSUME NEW S, S \subseteq Nat, S # {}
  PROVE  \E k \in S : \A j \in S : k <= j
<1>1. PICK k \in S : \A j \in S : ~ (<<j, k>> \in OpToRel(<, Nat))
  BY NatLessThanWellFounded, WFMin
<1>2. \A j \in S : k <= j
  <2> SUFFICES ASSUME NEW j \in S PROVE k <= j
    OBVIOUS
  <2>1. ~(j < k)
    BY <1>1 DEF OpToRel
  <2> QED BY <2>1
<1> QED BY <1>2

(* The loop of update_active_witnesses over the histogram ends in the      *)
(* first class at which more than the target is reached, or in the last.   *)
LEMMA CountStops ==
  ASSUME NEW op, NEW field, NEW max \in Nat
  PROVE  LET k == member_count(op, field, max)
             target == stake_target(op, field, max)
         IN /\ target \in Int
            /\ k \in 0 .. max \div 2
            /\ target <= 0 => k = 0
            /\ target > 0 => /\ k = max \div 2 \/ stake_upto(op, field, max, k) > target
                             /\ \A j \in 0 .. k - 1 : stake_upto(op, field, max, j) <= target
<1> DEFINE k == member_count(op, field, max)
           target == stake_target(op, field, max)
           half == max \div 2
           stops == {i \in 0 .. half : i = half \/ stake_upto(op, field, max, i) > target}
<1>1. half \in Nat
  <2>1. 2 * half <= max /\ max < 2 * half + 2 /\ half \in Int
    BY Division
  <2> QED BY <2>1
<1>2. \A i : stake_upto(op, field, max, i) \in Nat
  BY StakeTyped DEF stake_upto
<1>3. target \in Int
  <2>1. total_voting_stake \in Nat /\ histogram(op, field, max, 0) \in Nat
    BY StakeTyped DEF total_voting_stake, histogram
  <2> QED BY <2>1 DEF stake_target
<1>4. k = IF target > 0 THEN CHOOSE i \in stops : \A j \in stops : i <= j ELSE 0
  BY DEF member_count
<1> HIDE DEF k, target, half
<1>5. half \in stops
  BY <1>1
<1>6. \E i \in stops : \A j \in stops : i <= j
  <2> HIDE DEF stops
  <2>1. stops \subseteq Nat
    BY <1>1 DEF stops
  <2> QED BY <1>5, <2>1, LeastOf
<1>7. CASE target > 0
  <2>1. k \in stops /\ \A j \in stops : k <= j
    BY <1>4, <1>6, <1>7
  <2>2. ASSUME NEW j \in 0 .. k - 1 PROVE stake_upto(op, field, max, j) <= target
    <3>1. j \in 0 .. half /\ ~(k <= j)
      BY <1>1, <2>1
    <3>2. j \notin stops
      BY <2>1, <3>1
    <3>3. ~(stake_upto(op, field, max, j) > target)
      BY <3>1, <3>2
    <3> QED BY <1>2, <1>3, <3>3
  <2> QED BY <1>3, <1>7, <2>1, <2>2 DEF k, target, half
<1>8. CASE ~(target > 0)
  BY <1>1, <1>3, <1>4, <1>8 DEF k, target, half
<1> QED BY <1>7, <1>8

LEMMA WitnessesElected ==
  ASSUME NEW op, NEW p \in Parameters
  PROVE  /\ update_active_witnesses(op, p) \subseteq Witnesses
         /\ IsFiniteSet(update_active_witnesses(op, p))
         /\ update_active_witnesses(op, p) # {}
         /\ Cardinality(update_active_witnesses(op, p)) =
              AtMost(AtLeast(2 * member_count(op, "num_witness", p.maximum_witness_count) + 1,
                             MinWitnessCount), Cardinality(Witnesses))
<1> DEFINE k == member_count(op, "num_witness", p.maximum_witness_count)
           count == AtLeast(2 * k + 1, MinWitnessCount)
           A == update_active_witnesses(op, p)
<1>1. p.maximum_witness_count \in Nat
  BY ProductionAssumption
<1>2. k \in Nat
  <2>1. k \in 0 .. (p.maximum_witness_count \div 2) /\ p.maximum_witness_count \div 2 \in Int
    BY <1>1, CountStops, Division
  <2> QED BY <2>1
<1> HIDE DEF k
<1>3. count \in Nat \ {0}
  BY <1>2, ConstantsAssumption DEF AtLeast
<1>4. A \subseteq Witnesses /\ IsFiniteSet(A) /\ Cardinality(A) = AtMost(count, Cardinality(Witnesses))
  <2>1. A = sort_votable_objects(op, Witnesses, count)
    BY DEF update_active_witnesses, k
  <2> HIDE DEF A, count
  <2> QED BY <1>3, <2>1, WitnessesTyped, ElectedCount
<1>5. A # {}
  <2>1. Cardinality(A) # 0
    BY <1>3, <1>4, WitnessesTyped DEF AtMost
  <2> QED BY <2>1, FS_EmptySet
<1> QED BY <1>4, <1>5 DEF k

-----------------------------------------------------------------------------
(* The order of the witnesses. *)
LEMMA SwapLists ==
  ASSUME NEW S, Cardinality(S) \in Nat, NEW q, Lists(q, S),
         NEW i \in 1 .. Cardinality(S), NEW j \in 1 .. Cardinality(S)
  PROVE  Lists([q EXCEPT ![i] = q[j], ![j] = q[i]], S)
<1> DEFINE n == Cardinality(S)
           p == [q EXCEPT ![i] = q[j], ![j] = q[i]]
<1>1. q \in [1 .. n -> S]
  BY DEF Lists
<1>2. p \in [1 .. n -> S]
  BY <1>1
<1>3. \A k \in 1 .. n : p[k] = IF k = j THEN q[i] ELSE IF k = i THEN q[j] ELSE q[k]
  BY <1>1
<1>4. /\ \A k, l \in 1 .. n : q[k] = q[l] => k = l
      /\ \A w \in S : \E k \in 1 .. n : q[k] = w
  BY DEF Lists
<1> HIDE DEF n, p
<1>5. i \in 1 .. n /\ j \in 1 .. n
  BY DEF n
<1>6. \A k, l \in 1 .. n : p[k] = p[l] => k = l
  BY <1>3, <1>4, <1>5
<1>7. ASSUME NEW w \in S PROVE \E k \in 1 .. n : p[k] = w
  <2>1. PICK k \in 1 .. n : q[k] = w
    BY <1>4
  <2>2. CASE k = i
    BY <1>3, <1>5, <2>1, <2>2
  <2>3. CASE k = j /\ k # i
    BY <1>3, <1>5, <2>1, <2>3
  <2>4. CASE k # j /\ k # i
    BY <1>3, <2>1, <2>4
  <2> QED BY <2>2, <2>3, <2>4
<1>8. Lists(p, S)
  BY <1>2, <1>6, <1>7 DEF Lists, n
<1> QED BY <1>8 DEF p

LEMMA ListsLength ==
  ASSUME NEW S, IsFiniteSet(S), NEW q, Lists(q, S)
  PROVE  /\ Len(q) = Cardinality(S) /\ Cardinality(S) \in Nat
         /\ DOMAIN q = 1 .. Cardinality(S)
         /\ IsInjective(q) /\ Range(q) = S
         /\ S # {} => Len(q) > 0
<1>1. Cardinality(S) \in Nat
  BY FS_CardinalityType
<1>2. S # {} => Cardinality(S) > 0
  BY <1>1, FS_EmptySet
<1> DEFINE n == Cardinality(S)
<1>3. n \in Nat /\ q \in [1 .. n -> S] /\ DOMAIN q = 1 .. n
  BY <1>1 DEF Lists
<1>4. /\ \A i, j \in 1 .. n : q[i] = q[j] => i = j
      /\ \A w \in S : \E i \in 1 .. n : q[i] = w
  BY DEF Lists
<1> HIDE DEF n
<1>5. Len(q) = n
  BY <1>3
<1>6. IsInjective(q) /\ Range(q) = S
  BY <1>3, <1>4 DEF IsInjective, Range
<1> QED BY <1>1, <1>2, <1>3, <1>5, <1>6 DEF n

(* Whatever the random numbers, the shuffle loses no witness and repeats   *)
(* none.                                                                   *)
LEMMA ShuffledLists ==
  ASSUME NEW S, S \subseteq Witnesses, NEW ws, Lists(ws, S), NEW time \in 0 .. MaxTime + 1
  PROVE  Lists(Shuffled(ws, time), S)
<1> DEFINE n == Cardinality(S)
           Other(i) == i + (xorshift(time, i - 1) % (n - i + 1))
           Swapped(q, i) == [q EXCEPT ![i] = q[Other(i)], ![Other(i)] = q[i]]
           Eqn(s) == s = [i \in 0 .. n |-> IF i = 0 THEN ws ELSE Swapped(s[i - 1], i)]
           c == CHOOSE s : Eqn(s)
           X == {q \in [1 .. n -> S] : Lists(q, S)}
           step == [i \in 1 .. n |-> [q \in X |-> Swapped(q, i)]]
<1>1. IsFiniteSet(S) /\ n \in Nat /\ n <= Cardinality(Witnesses) /\ Len(ws) = n
  BY WitnessesTyped, FS_Subset, FS_CardinalityType, ListsLength
<1>2. Shuffled(ws, time) = c[n]
  BY <1>1 DEF Shuffled
<1> HIDE DEF n
<1>3. ASSUME NEW i \in 1 .. n PROVE Other(i) \in 1 .. n
  <2>1. i - 1 \in 0 .. Cardinality(Witnesses) /\ n - i + 1 \in Nat \ {0}
    BY <1>1, WitnessesTyped
  <2>2. xorshift(time, i - 1) \in Nat
    BY <2>1, ProductionAssumption
  <2> DEFINE m == n - i + 1
             x == xorshift(time, i - 1)
  <2>3. \A a \in Nat, b \in Nat \ {0} : (a % b) \in 0 .. b - 1
    BY Division
  <2>4. x \in Nat /\ m \in Nat \ {0} /\ i \in Int /\ n \in Int /\ m = n - i + 1 /\ i >= 1
    BY <1>1, <2>1, <2>2
  <2> HIDE DEF m, x
  <2>5. (x % m) \in 0 .. m - 1
    BY <2>3, <2>4
  <2>6. i + (x % m) \in 1 .. n
    BY <2>4, <2>5
  <2> QED BY <2>6 DEF x, m
<1> HIDE DEF Other
<1>4. ASSUME NEW i \in 1 .. n, NEW q \in X PROVE Swapped(q, i) \in X
  <2>1. Lists(Swapped(q, i), S)
    BY <1>1, <1>3, SwapLists DEF n
  <2> HIDE DEF Swapped
  <2> QED BY <2>1 DEF Lists, n
<1>5. ws \in X
  BY DEF Lists, n
<1> HIDE DEF X
<1>6. step \in [1 .. n -> [X -> X]]
  BY <1>4
<1>7. PICK f \in [0 .. n -> X] : f[0] = ws /\ \A i \in 1 .. n : f[i] = step[i][f[i - 1]]
  <2>1. n \in Nat
    BY <1>1
  <2> HIDE DEF step, c, Eqn
  <2>2. Iterates(n, X, ws, step)
    BY <2>1, <1>5, <1>6, Iteration
  <2> QED BY <2>2 DEF Iterates
<1>8. Eqn(f)
  <2>1. ASSUME NEW i \in 1 .. n PROVE f[i] = Swapped(f[i - 1], i)
    <3>1. i - 1 \in 0 .. n /\ f[i - 1] \in X
      BY <1>1, <1>7
    <3> HIDE DEF Swapped
    <3> QED BY <1>7, <3>1
  <2> HIDE DEF Swapped
  <2> QED BY <1>1, <1>7, <2>1
<1>9. Eqn(c)
  <2> HIDE DEF Eqn
  <2> QED BY <1>8
<1> HIDE DEF c, Swapped
<1>10. c[0] = ws /\ \A i \in 1 .. n : c[i] = Swapped(c[i - 1], i)
  BY <1>1, <1>9
<1>11. \A i \in 1 .. n : c[i - 1] \in X => c[i] \in X
  BY <1>4, <1>10
<1>12. c[n] \in X
  <2>1. n \in Nat /\ c[0] \in X
    BY <1>1, <1>5, <1>10
  <2>2. \A i \in 0 .. n : c[i] \in X
    BY <2>1, <1>11, StaysIn
  <2> QED BY <2>1, <2>2
<1> QED BY <1>2, <1>12 DEF X

-----------------------------------------------------------------------------
(* The calendar: the part of the state that slots and maintenance times    *)
(* depend on.  The other fields of the two objects are only said to be     *)
(* there.                                                                  *)
ClockOf(d) ==
  d \in [num : Nat, time : Nat, current_aslot : Nat, maintenance_flag : BOOLEAN,
         recent_slots_filled : {d.recent_slots_filled}, next_maintenance_time : Nat,
         last_budget_time : {d.last_budget_time}, witness_budget : {d.witness_budget}]

RulesOf(g) ==
  g \in [parameters : Parameters, pending : Parameters \cup {none},
         active : {g.active}, committee : {g.committee}]

Calendar ==
  /\ ClockOf(dgp) /\ RulesOf(gpo)
  /\ clock \in GenesisTime .. MaxTime
  /\ dgp.num = 0 => ~dgp.maintenance_flag /\ dgp.next_maintenance_time = 0
  /\ MaintenanceAhead

(* A stage of _apply_block: the objects it hands on. *)
StageOf(s) ==
  s \in [dgp : {s.dgp}, gpo : {s.gpo}, core : {s.core}, record : {s.record}]

LEMMA AfterBlockIs ==
  ASSUME ClockOf(dgp), NEW t
  PROVE  LET s == AfterBlock(t)
             d == update_global_dynamic_data(dgp, gpo.parameters, t)
             pay == AtMost(gpo.parameters.witness_pay_per_block, dgp.witness_budget)
         IN /\ StageOf(s)
            /\ s.dgp = [d EXCEPT !.witness_budget = @ - pay]
            /\ s.gpo = gpo
            /\ s.core = [core EXCEPT !.held = @ + pay]
            /\ s.record = record
<1>1. update_global_dynamic_data(dgp, gpo.parameters, t).witness_budget = dgp.witness_budget
  BY DEF update_global_dynamic_data, ClockOf
<1> QED BY <1>1 DEF AfterBlock, update_signing_witness, StageOf

(* The parameters maintenance continues with. *)
ParametersFrom(g) == IF g.pending = none THEN g.parameters ELSE g.pending

(* perform_chain_maintenance from its first object to its last: the        *)
(* members, the parameters, the next maintenance time, the budget.         *)
LEMMA MaintenanceIs ==
  ASSUME NEW s, StageOf(s), ClockOf(s.dgp), RulesOf(s.gpo)
  PROVE  LET r == perform_chain_maintenance(s)
             p == ParametersFrom(s.gpo)
             d == [s.dgp EXCEPT !.next_maintenance_time =
                     next_maintenance_time(@, p, s.dgp.num, s.dgp.time)]
             c == process_fees(s.core)
             g == Grants(opinion, d, p, total_budget(c, d))
             b == process_budget(c, d, g)
         IN /\ StageOf(r)
            /\ r.dgp = b.dgp
            /\ r.gpo = [parameters |-> p, pending |-> none,
                        active |-> update_active_witnesses(opinion, s.gpo.parameters),
                        committee |-> update_active_committee_members(opinion, s.gpo.parameters)]
            /\ r.core = b.core
            /\ r.record = [requested |-> p.witness_pay_per_block * blocks_to_maint(d, p),
                           granted |-> g.witness]
<1> DEFINE s1 == ChangeMembers(s)
           s2 == ChangeParameters(s1)
           s3 == SetNextMaintenance(s2)
           g3 == Grants(opinion, s3.dgp, s3.gpo.parameters, total_budget(s3.core, s3.dgp))
           s4 == SpendBudget(s3, g3)
           p == ParametersFrom(s.gpo)
           active == update_active_witnesses(opinion, s.gpo.parameters)
           committee == update_active_committee_members(opinion, s.gpo.parameters)
           d == [s.dgp EXCEPT !.next_maintenance_time =
                   next_maintenance_time(@, p, s.dgp.num, s.dgp.time)]
<1>1. /\ StageOf(s1) /\ s1.dgp = s.dgp /\ s1.core = process_fees(s.core) /\ s1.record = s.record
      /\ s1.gpo = [parameters |-> s.gpo.parameters, pending |-> s.gpo.pending,
                   active |-> active, committee |-> committee]
  BY DEF ChangeMembers, StageOf, RulesOf
<1>2. perform_chain_maintenance(s) = s4
  BY DEF perform_chain_maintenance, ProcessBudget
<1> HIDE DEF s1, active, committee
<1>3. /\ StageOf(s2) /\ s2.dgp = s.dgp /\ s2.core = process_fees(s.core) /\ s2.record = s.record
      /\ s2.gpo = [parameters |-> p, pending |-> none,
                   active |-> active, committee |-> committee]
  <2>1. CASE s.gpo.pending = none
    BY <1>1, <2>1 DEF ChangeParameters, StageOf, ParametersFrom
  <2>2. CASE s.gpo.pending # none
    <3>1. s2 = [s1 EXCEPT !.gpo.parameters = s1.gpo.pending, !.gpo.pending = none]
      BY <1>1, <2>2 DEF ChangeParameters
    <3>2. s2.gpo = [s1.gpo EXCEPT !.parameters = s1.gpo.pending, !.pending = none]
      BY <1>1, <3>1 DEF StageOf
    <3>3. StageOf(s2) /\ s2.dgp = s1.dgp /\ s2.core = s1.core /\ s2.record = s1.record
      BY <1>1, <3>1 DEF StageOf
    <3>4. p = s.gpo.pending
      BY <2>2 DEF ParametersFrom
    <3>5. s2.gpo = [parameters |-> p, pending |-> none,
                    active |-> active, committee |-> committee]
      <4> DEFINE g == [parameters |-> s.gpo.parameters, pending |-> s.gpo.pending,
                       active |-> active, committee |-> committee]
      <4>1. g.pending = s.gpo.pending /\ s2.gpo = [g EXCEPT !.parameters = g.pending, !.pending = none]
        BY <1>1, <3>2
      <4> DEFINE h == [parameters |-> p, pending |-> s.gpo.pending,
                       active |-> active, committee |-> committee]
      <4>2. [g EXCEPT !.parameters = p] = h
        OBVIOUS
      <4>3. [h EXCEPT !.pending = none]
              = [parameters |-> p, pending |-> none, active |-> active, committee |-> committee]
        OBVIOUS
      <4>4. s2.gpo = [[g EXCEPT !.parameters = p] EXCEPT !.pending = none]
        BY <3>4, <4>1
      <4> HIDE DEF g, h
      <4> QED BY <4>2, <4>3, <4>4
    <3> QED BY <1>1, <3>3, <3>5
  <2> QED BY <2>1, <2>2
<1> HIDE DEF s2, p
<1>4. /\ StageOf(s3) /\ s3.dgp = d /\ s3.core = process_fees(s.core) /\ s3.record = s.record
      /\ s3.gpo = [parameters |-> p, pending |-> none,
                   active |-> active, committee |-> committee]
  BY <1>3 DEF SetNextMaintenance, StageOf, ClockOf
<1> HIDE DEF s3, d
<1>6. g3 = Grants(opinion, d, p, total_budget(process_fees(s.core), d))
  BY <1>4
<1> HIDE DEF g3
<1>5. /\ StageOf(s4) /\ s4.dgp = process_budget(s3.core, d, g3).dgp
      /\ s4.core = process_budget(s3.core, d, g3).core
      /\ s4.gpo = s3.gpo
      /\ s4.record = [requested |-> p.witness_pay_per_block * blocks_to_maint(d, p),
                      granted |-> g3.witness]
  <2> DEFINE b == process_budget(s3.core, s3.dgp, g3)
             e == [requested |-> s3.gpo.parameters.witness_pay_per_block
                                   * blocks_to_maint(s3.dgp, s3.gpo.parameters),
                   granted |-> g3.witness]
  <2>1. s4 = [s3 EXCEPT !.core = b.core, !.dgp = b.dgp, !.record = e]
    BY DEF SpendBudget, WithBudget
  <2> HIDE DEF b, e, s4
  <2>2. StageOf(s4) /\ s4.dgp = b.dgp /\ s4.core = b.core /\ s4.gpo = s3.gpo /\ s4.record = e
    BY <1>4, <2>1 DEF StageOf
  <2>3. e = [requested |-> p.witness_pay_per_block * blocks_to_maint(d, p), granted |-> g3.witness]
    BY <1>4 DEF e
  <2> QED BY <1>4, <2>2, <2>3 DEF b
<1> HIDE DEF s4
<1> QED BY <1>2, <1>4, <1>5, <1>6 DEF p, d, active, committee

-----------------------------------------------------------------------------
(* Slots. *)
LEMMA IntervalsTyped ==
  ASSUME NEW p \in Parameters
  PROVE  /\ p.block_interval \in Nat \ {0} /\ p.maintenance_interval \in Nat \ {0}
         /\ p.maintenance_skip_slots \in Nat
BY ProductionAssumption

LEMMA SlotTimes ==
  ASSUME NEW d, ClockOf(d), NEW p \in Parameters
  PROVE  /\ Skipped(d, p) \in Nat
         /\ head_slot_time(d, p) \in Nat
         /\ head_slot_time(d, p) <= d.time /\ d.time < head_slot_time(d, p) + p.block_interval
         /\ \A n \in Nat : get_slot_time(d, p, n) \in Nat
         /\ \A n \in Nat \ {0} : get_slot_time(d, p, n) =
              get_slot_time(d, p, 1) + p.block_interval * (n - 1)
         /\ d.time < get_slot_time(d, p, 1)
<1> DEFINE b == p.block_interval
           q == d.time \div b
           h == head_slot_time(d, p)
           k == Skipped(d, p)
<1>1. b \in Nat \ {0} /\ d.time \in Nat /\ d.num \in Nat
  BY IntervalsTyped DEF ClockOf
<1>2. k \in Nat
  BY IntervalsTyped DEF Skipped
<1> HIDE DEF b
<1>3. q \in Int /\ b * q <= d.time /\ d.time < b * q + b
  <2> DEFINE x == d.time
  <2>1. x \in Int
    BY <1>1
  <2> HIDE DEF x
  <2>2. x \div b \in Int /\ b * (x \div b) <= x /\ x < b * (x \div b) + b
    BY <1>1, <2>1, Division
  <2> QED BY <2>2 DEF x
<1>4. h = b * q
  BY <1>1, <1>3, Multiples DEF head_slot_time, b
<1>5. q >= 0
  BY <1>1, Quotient
<1>6. h \in Nat
  BY <1>1, <1>3, <1>4, <1>5
<1>7. ASSUME NEW n \in Nat, n # 0
      PROVE  get_slot_time(d, p, n) = IF d.num = 0 THEN d.time + b * n ELSE h + b * n + b * k
  <2>1. n * b = b * n /\ (n + k) * b = b * (n + k) /\ b * (n + k) = b * n + b * k
    BY <1>1, <1>2, Multiples
  <2> HIDE DEF h, k
  <2> QED BY <1>1, <1>2, <1>6, <1>7, <2>1 DEF get_slot_time, b, h, k
<1>8. get_slot_time(d, p, 0) = 0
  BY DEF get_slot_time
<1> HIDE DEF b, q, h, k
<1>9. b * k \in Nat
  BY <1>1, <1>2
<1>10. ASSUME NEW n \in Nat PROVE get_slot_time(d, p, n) \in Nat
  <2>1. b * n \in Nat
    BY <1>1
  <2>2. CASE n = 0
    BY <1>8, <2>2
  <2>3. CASE n # 0
    BY <1>1, <1>6, <1>7, <1>9, <2>1, <2>3
  <2> QED BY <2>2, <2>3
<1>11. get_slot_time(d, p, 1) = IF d.num = 0 THEN d.time + b ELSE h + b + b * k
  <2>1. b * 1 = b
    BY <1>1
  <2> QED BY <1>7, <2>1
<1>12. ASSUME NEW n \in Nat \ {0}
       PROVE  get_slot_time(d, p, n) = get_slot_time(d, p, 1) + b * (n - 1)
  <2>1. b * n = b + b * (n - 1) /\ b * n \in Int /\ b * (n - 1) \in Int
    BY <1>1
  <2> QED BY <1>1, <1>6, <1>7, <1>9, <1>11, <2>1
<1>13. d.time < get_slot_time(d, p, 1)
  BY <1>1, <1>3, <1>4, <1>6, <1>9, <1>11
<1>14. h <= d.time /\ d.time < h + b
  BY <1>3, <1>4
<1> QED BY <1>2, <1>6, <1>10, <1>12, <1>13, <1>14 DEF b, h, k

LEMMA SlotAtTime ==
  ASSUME NEW d, ClockOf(d), NEW p \in Parameters, NEW t \in Nat
  PROVE  /\ get_slot_at_time(d, p, t) \in Nat
         /\ get_slot_at_time(d, p, t) > 0 <=> get_slot_time(d, p, 1) <= t
<1> DEFINE b == p.block_interval
           f == get_slot_time(d, p, 1)
<1>1. b \in Nat \ {0} /\ f \in Nat
  BY IntervalsTyped, SlotTimes
<1>2. CASE t < f
  BY <1>1, <1>2 DEF get_slot_at_time
<1>3. CASE f <= t
  <2>1. t - f \in Nat /\ (t - f) \div b \in Int /\ 0 <= (t - f) \div b
    <3> DEFINE x == t - f
    <3>1. x \in Nat
      BY <1>1, <1>3
    <3> HIDE DEF b, x
    <3>2. x \div b \in Int
      BY <1>1, <3>1, Division
    <3>3. b * 0 = 0 /\ b * 0 <= x
      BY <1>1, <3>1
    <3>4. 0 <= x \div b
      BY <1>1, <3>1, <3>3, Quotient
    <3> QED BY <3>1, <3>2, <3>4 DEF x
  <2>2. get_slot_at_time(d, p, t) = (t - f) \div b + 1
    BY <1>1, <1>3 DEF get_slot_at_time
  <2> QED BY <1>3, <2>1, <2>2
<1> QED BY <1>1, <1>2, <1>3

(* get_slot_at_time and get_slot_time are inverse around genesis, across   *)
(* skipped slots, and when the head is not at the start of a slot of an    *)
(* interval that maintenance has just changed; every slot lies ahead of    *)
(* the head.                                                               *)
THEOREM SlotsInverse ==
  ASSUME NEW d, ClockOf(d), NEW p \in Parameters, NEW n \in Nat \ {0}
  PROVE  /\ get_slot_at_time(d, p, get_slot_time(d, p, n)) = n
         /\ d.time < get_slot_time(d, p, n)
<1> DEFINE b == p.block_interval
           f == get_slot_time(d, p, 1)
           t == get_slot_time(d, p, n)
<1>1. b \in Nat \ {0} /\ f \in Nat /\ t \in Nat /\ t = f + b * (n - 1) /\ d.time < f /\ d.time \in Nat
  BY IntervalsTyped, SlotTimes DEF ClockOf
<1> HIDE DEF b, f, t
<1>2. b * (n - 1) \in Nat
  BY <1>1
<1>3. f <= t /\ t - f = b * (n - 1)
  BY <1>1, <1>2
<1>4. (t - f) \div b = n - 1
  BY <1>1, <1>2, <1>3, Quotient
<1>5. get_slot_at_time(d, p, t) = n
  BY <1>1, <1>3, <1>4 DEF get_slot_at_time, b, f
<1>6. d.time < t
  BY <1>1, <1>3
<1> QED BY <1>5, <1>6 DEF t

-----------------------------------------------------------------------------
(* The next maintenance is ahead by at most an interval, also when several *)
(* intervals passed without a block or the interval is a new one.          *)
LEMMA NextMaintenance ==
  ASSUME NEW p \in Parameters, NEW next \in Nat, NEW num \in Nat, NEW t \in Nat,
         num # 1 => next <= t
  PROVE  /\ next_maintenance_time(next, p, num, t) \in Nat
         /\ t < next_maintenance_time(next, p, num, t)
         /\ next_maintenance_time(next, p, num, t) <= t + p.maintenance_interval
<1> DEFINE m == p.maintenance_interval
           r == next_maintenance_time(next, p, num, t)
<1>1. m \in Nat \ {0}
  BY IntervalsTyped
<1>2. r = IF num = 1 THEN (t \div m + 1) * m ELSE next + ((t - next) \div m + 1) * m
  BY DEF next_maintenance_time
<1> HIDE DEF m, r
<1>3. ASSUME NEW x \in Nat PROVE /\ (x \div m + 1) * m \in Nat
                                 /\ x < (x \div m + 1) * m /\ (x \div m + 1) * m <= x + m
  <2> DEFINE q == x \div m
  <2>1. q \in Int /\ m * q <= x /\ x < m * q + m
    BY <1>1, Division
  <2> HIDE DEF q
  <2>2. (q + 1) * m = m * q + m /\ m * q \in Int
    BY <1>1, <2>1
  <2>3. /\ (q + 1) * m \in Nat
        /\ x < (q + 1) * m /\ (q + 1) * m <= x + m
    BY <1>1, <2>1, <2>2
  <2> QED BY <2>3 DEF q
<1>4. CASE num = 1
  BY <1>1, <1>2, <1>3, <1>4 DEF r, m
<1>5. CASE num # 1
  <2> DEFINE x == t - next
             y == (x \div m + 1) * m
  <2>1. x \in Nat /\ t = next + x
    BY <1>5
  <2>2. y \in Nat /\ x < y /\ y <= x + m /\ r = next + y
    BY <1>2, <1>3, <1>5, <2>1
  <2> HIDE DEF x, y
  <2> QED BY <1>1, <2>1, <2>2 DEF r, m
<1> QED BY <1>4, <1>5

(* What a block does to the head, the slots and the rules. *)
BlockEffect(t, w) ==
  LET maint == dgp.next_maintenance_time <= t
      p == IF maint THEN ParametersFrom(gpo) ELSE gpo.parameters
  IN /\ dgp'.num = dgp.num + 1 /\ dgp'.time = t
     /\ dgp'.current_aslot = dgp.current_aslot + MissedSlots(dgp, gpo.parameters, t) + 1
     /\ dgp'.maintenance_flag = maint
     /\ dgp'.recent_slots_filled =
          Shifted(dgp.recent_slots_filled,
                  <<1>> \o [i \in 1 .. MissedSlots(dgp, gpo.parameters, t) |-> 0])
     /\ dgp'.next_maintenance_time =
          IF maint THEN next_maintenance_time(dgp.next_maintenance_time, p, dgp.num + 1, t)
                   ELSE dgp.next_maintenance_time
     /\ dgp' = [num |-> dgp'.num, time |-> dgp'.time, current_aslot |-> dgp'.current_aslot,
                maintenance_flag |-> dgp'.maintenance_flag,
                recent_slots_filled |-> dgp'.recent_slots_filled,
                next_maintenance_time |-> dgp'.next_maintenance_time,
                last_budget_time |-> dgp'.last_budget_time,
                witness_budget |-> dgp'.witness_budget]
     /\ gpo' = IF maint
          THEN [parameters |-> p, pending |-> none,
                active |-> update_active_witnesses(opinion, gpo.parameters),
                committee |-> update_active_committee_members(opinion, gpo.parameters)]
          ELSE gpo
     /\ shuffled' = IF (dgp.num + 1) % Cardinality(gpo'.active) = 0
                      THEN Shuffled(ById(gpo'.active), t) ELSE shuffled
     /\ Remember(t, w, maint, (dgp.num + 1) % Cardinality(gpo'.active) = 0)
     /\ opinion' = opinion /\ clock' = clock

LEMMA BlockIs ==
  ASSUME ClockOf(dgp), RulesOf(gpo), NEW t \in Nat, NEW w, ApplyBlock(t, w),
         get_slot_at_time(dgp, gpo.parameters, t) > 0
  PROVE  BlockEffect(t, w)
<1> DEFINE s == AfterBlock(t)
           r == perform_chain_maintenance(s)
           missed == MissedSlots(dgp, gpo.parameters, t)
           bits == Shifted(dgp.recent_slots_filled, <<1>> \o [i \in 1 .. missed |-> 0])
           Shape(d) == d = [num |-> dgp.num + 1, time |-> t,
                            current_aslot |-> dgp.current_aslot + missed + 1,
                            maintenance_flag |-> d.maintenance_flag,
                            recent_slots_filled |-> bits,
                            next_maintenance_time |-> d.next_maintenance_time,
                            last_budget_time |-> d.last_budget_time,
                            witness_budget |-> d.witness_budget]
<1>1. StageOf(s) /\ s.gpo = gpo
  BY AfterBlockIs
<1>2. Shape(s.dgp) /\ s.dgp.next_maintenance_time = dgp.next_maintenance_time
  <2> DEFINE d == update_global_dynamic_data(dgp, gpo.parameters, t)
             pay == AtMost(gpo.parameters.witness_pay_per_block, dgp.witness_budget)
  <2>1. s.dgp = [d EXCEPT !.witness_budget = @ - pay]
    BY AfterBlockIs
  <2>2. Shape(d) /\ d.next_maintenance_time = dgp.next_maintenance_time
    <3> HIDE DEF missed
    <3>1. d = [dgp EXCEPT !.num = @ + 1, !.time = t, !.recent_slots_filled = bits,
                          !.current_aslot = @ + missed + 1]
      BY DEF update_global_dynamic_data, missed
    <3> HIDE DEF bits, d
    <3> QED BY <3>1 DEF ClockOf
  <2> HIDE DEF d, pay, missed, bits, s
  <2> QED BY <2>1, <2>2
<1>3. missed \in Nat /\ dgp.num \in Nat /\ dgp.current_aslot \in Nat
      /\ dgp.next_maintenance_time \in Nat /\ dgp.maintenance_flag \in BOOLEAN
  <2>1. gpo.parameters \in Parameters
    BY DEF RulesOf
  <2>2. get_slot_at_time(dgp, gpo.parameters, t) \in Nat
    BY <2>1, SlotAtTime
  <2> QED BY <2>2 DEF MissedSlots, ClockOf
<1>4. s.dgp.maintenance_flag = dgp.maintenance_flag
  <2> HIDE DEF s
  <2>1. s.dgp = [update_global_dynamic_data(dgp, gpo.parameters, t) EXCEPT !.witness_budget =
                   @ - AtMost(gpo.parameters.witness_pay_per_block, dgp.witness_budget)]
    BY AfterBlockIs DEF s
  <2> QED BY <2>1 DEF update_global_dynamic_data, ClockOf
<1> DEFINE maint == dgp.next_maintenance_time <= t
           p == IF maint THEN ParametersFrom(gpo) ELSE gpo.parameters
           e == IF maint THEN r ELSE s
<1>5. CommitBlock(e, maint, t, w) /\ opinion' = opinion /\ clock' = clock
  <2>1. CASE maint
    <3>1. CommitBlock(r, TRUE, t, w) /\ opinion' = opinion /\ clock' = clock
      BY <2>1 DEF ApplyBlock
    <3>2. e = r /\ maint = TRUE
      BY <2>1
    <3> QED BY <3>1, <3>2
  <2>2. CASE ~maint
    <3>1. CommitBlock(s, FALSE, t, w) /\ opinion' = opinion /\ clock' = clock
      BY <2>2 DEF ApplyBlock
    <3>2. e = s /\ maint = FALSE
      BY <2>2
    <3> QED BY <3>1, <3>2
  <2> QED BY <2>1, <2>2
<1> HIDE DEF s, missed, bits
<1>6. ClockOf(s.dgp) /\ RulesOf(s.gpo)
  BY <1>1, <1>2, <1>3, <1>4 DEF ClockOf
<1> DEFINE next == next_maintenance_time(dgp.next_maintenance_time, p, dgp.num + 1, t)
<1>7. /\ Shape(e.dgp)
      /\ e.dgp.next_maintenance_time = IF maint THEN next ELSE dgp.next_maintenance_time
      /\ e.gpo = IF maint
                 THEN [parameters |-> p, pending |-> none,
                       active |-> update_active_witnesses(opinion, gpo.parameters),
                       committee |-> update_active_committee_members(opinion, gpo.parameters)]
                 ELSE gpo
  <2>1. CASE ~maint
    BY <1>1, <1>2, <2>1
  <2>2. CASE maint
    <3> DEFINE d == [s.dgp EXCEPT !.next_maintenance_time =
                       next_maintenance_time(@, p, s.dgp.num, s.dgp.time)]
               g == Grants(opinion, d, p, total_budget(process_fees(s.core), d))
    <3>1. p = ParametersFrom(s.gpo)
      BY <1>1, <2>2
    <3>2. /\ r.dgp = process_budget(process_fees(s.core), d, g).dgp
          /\ r.gpo = [parameters |-> p, pending |-> none,
                      active |-> update_active_witnesses(opinion, gpo.parameters),
                      committee |-> update_active_committee_members(opinion, gpo.parameters)]
      <4> HIDE DEF r, p
      <4> QED BY <1>1, <1>6, <3>1, MaintenanceIs DEF r
    <3> HIDE DEF g, r, p
    <3>3. Shape(d) /\ d.next_maintenance_time = next
      <4>1. s.dgp.num = dgp.num + 1 /\ s.dgp.time = t
        BY <1>2
      <4>2. d = [s.dgp EXCEPT !.next_maintenance_time = next]
        BY <1>2, <4>1
      <4> HIDE DEF d, next
      <4> QED BY <1>2, <4>2
    <3>4. r.dgp = [d EXCEPT !.witness_budget = g.witness, !.last_budget_time = d.time]
      BY <3>2 DEF process_budget
    <3> DEFINE d1 == [d EXCEPT !.witness_budget = g.witness]
    <3> HIDE DEF d
    <3>6. Shape(d1) /\ d1.next_maintenance_time = next
      BY <3>3
    <3>7. r.dgp = [d1 EXCEPT !.last_budget_time = d.time]
      BY <3>4
    <3> HIDE DEF d1
    <3>5. Shape(r.dgp) /\ r.dgp.next_maintenance_time = next
      BY <3>6, <3>7
    <3> QED BY <2>2, <3>2, <3>5
  <2> QED BY <2>1, <2>2
<1> HIDE DEF e, p, next, maint
<1>8. /\ dgp' = [e.dgp EXCEPT !.maintenance_flag = maint] /\ gpo' = e.gpo
      /\ shuffled' = update_witness_schedule(e.dgp, e.gpo.active, shuffled)
      /\ Remember(t, w, maint, e.dgp.num % Cardinality(e.gpo.active) = 0)
  BY <1>5 DEF CommitBlock, Commit
<1>9. Shape(dgp') /\ dgp'.maintenance_flag = maint
      /\ dgp'.next_maintenance_time = e.dgp.next_maintenance_time
  BY <1>7, <1>8
<1>10. e.dgp.num = dgp.num + 1 /\ e.dgp.time = t
  BY <1>7
<1>11. shuffled' = IF (dgp.num + 1) % Cardinality(gpo'.active) = 0
                    THEN Shuffled(ById(gpo'.active), t) ELSE shuffled
  BY <1>8, <1>10 DEF update_witness_schedule
<1>12. Remember(t, w, maint, (dgp.num + 1) % Cardinality(gpo'.active) = 0)
  BY <1>8, <1>10
<1> HIDE DEF Shape
<1>13. gpo' = IF maint
                 THEN [parameters |-> p, pending |-> none,
                       active |-> update_active_witnesses(opinion, gpo.parameters),
                       committee |-> update_active_committee_members(opinion, gpo.parameters)]
                 ELSE gpo
  BY <1>7, <1>8
<1>14. /\ dgp'.num = dgp.num + 1 /\ dgp'.time = t
       /\ dgp'.current_aslot = dgp.current_aslot + missed + 1
       /\ dgp'.recent_slots_filled = bits
       /\ dgp' = [num |-> dgp'.num, time |-> dgp'.time, current_aslot |-> dgp'.current_aslot,
                   maintenance_flag |-> dgp'.maintenance_flag,
                   recent_slots_filled |-> dgp'.recent_slots_filled,
                   next_maintenance_time |-> dgp'.next_maintenance_time,
                   last_budget_time |-> dgp'.last_budget_time,
                   witness_budget |-> dgp'.witness_budget]
  BY <1>9 DEF Shape
<1>15. dgp'.next_maintenance_time = IF maint THEN next ELSE dgp.next_maintenance_time
  BY <1>7, <1>9
<1> QED BY <1>5, <1>9, <1>11, <1>12, <1>13, <1>14, <1>15 DEF BlockEffect, missed, bits, maint, p, next

-----------------------------------------------------------------------------
(* Every step applies one block that passed validate_block_header, or      *)
(* leaves the head, the order of the witnesses and their counters alone.   *)
BlockStep ==
  \E t \in 0 .. MaxTime + 1 : \E w :
    validate_block_header(dgp, gpo.parameters, shuffled, t, w) /\ ApplyBlock(t, w)

QuietStep ==
  /\ UNCHANGED <<dgp, shuffled, total_missed, record>>
  /\ gpo' = gpo \/ \E p \in Parameters : gpo' = [gpo EXCEPT !.pending = p]
  /\ clock' \in {clock, clock + 1} /\ clock' \in clock .. MaxTime
  /\ core' = core \/ \E f \in Fees : f <= core.held
                       /\ core' = [core EXCEPT !.held = @ - f, !.pending_fees = @ + f]
  /\ \/ past' = past
     \/ past' = [past EXCEPT !.opinions = @ + 1]
     \/ past' = [past EXCEPT !.fees = @ + 1]
  /\ opinion' = opinion \/ \E a \in Accounts : \E o \in Opinions[a] :
                             opinion' = [opinion EXCEPT ![a] = o]

LEMMA Steps ==
  ASSUME Calendar, [Next]_vars
  PROVE  BlockStep \/ QuietStep
<1>1. /\ clock \in Nat /\ MaxTime \in Nat /\ clock <= MaxTime /\ GenesisTime \in Nat
      /\ clock \in clock .. MaxTime
  BY ProductionAssumption DEF Calendar
<1>2. CASE UNCHANGED vars
  BY <1>1, <1>2 DEF vars, QuietStep
<1>3. ASSUME NEW t \in GenesisTime .. clock, NEW w \in Witnesses, push_block(t, w)
      PROVE  BlockStep
  <2>1. t \in 0 .. MaxTime + 1
    BY <1>1
  <2> QED BY <1>3, <2>1 DEF push_block, BlockStep
<1>4. ASSUME NEW now \in {clock, clock + 1}, maybe_produce_block(now)
      PROVE  BlockStep \/ QuietStep
  <2>1. now \in 0 .. MaxTime + 1
    BY <1>1
  <2>2. CASE Ready(now) /\ validate_block_header(dgp, gpo.parameters, shuffled, now, scheduled_witness(now))
    BY <1>4, <2>1, <2>2 DEF maybe_produce_block, BlockStep
  <2>3. CASE ~(Ready(now) /\ validate_block_header(dgp, gpo.parameters, shuffled, now, scheduled_witness(now)))
    <3>1. UNCHANGED <<dgp, gpo, shuffled, total_missed, opinion, core, record, clock, past>>
      BY <1>4, <2>3 DEF maybe_produce_block
    <3> QED BY <1>1, <3>1 DEF QuietStep
  <2> QED BY <2>2, <2>3
<1>5. ASSUME NEW a \in Accounts, NEW o \in Opinions[a], account_update(a, o) PROVE QuietStep
  BY <1>1, <1>5 DEF account_update, QuietStep
<1>6. ASSUME NEW p \in Parameters, committee_member_update_global_parameters(p) PROVE QuietStep
  BY <1>1, <1>6 DEF committee_member_update_global_parameters, QuietStep
<1>7. ASSUME NEW f \in Fees, pay_fee(f) PROVE QuietStep
  BY <1>1, <1>7 DEF pay_fee, QuietStep
<1>8. CASE Tick
  <2>1. clock' = clock + 1 /\ clock' \in clock .. MaxTime
    BY <1>1, <1>8 DEF Tick
  <2> QED BY <1>8, <2>1 DEF Tick, QuietStep
<1> QED BY <1>2, <1>3, <1>4, <1>5, <1>6, <1>7, <1>8 DEF Next

LEMMA BlockCalendar ==
  ASSUME Calendar, NEW t \in 0 .. MaxTime + 1, NEW w,
         validate_block_header(dgp, gpo.parameters, shuffled, t, w), ApplyBlock(t, w)
  PROVE  Calendar' /\ dgp.time < t /\ get_slot_at_time(dgp, gpo.parameters, t) \in Nat \ {0}
<1> DEFINE slot == get_slot_at_time(dgp, gpo.parameters, t)
           maint == dgp.next_maintenance_time <= t
           p == IF maint THEN ParametersFrom(gpo) ELSE gpo.parameters
<1>1. /\ t \in Nat /\ ClockOf(dgp) /\ RulesOf(gpo) /\ gpo.parameters \in Parameters
      /\ dgp.num \in Nat /\ dgp.time \in Nat /\ dgp.current_aslot \in Nat
      /\ dgp.next_maintenance_time \in Nat
  BY ProductionAssumption DEF Calendar, ClockOf, RulesOf
<1>2. slot \in Nat \ {0} /\ dgp.time < t
  BY <1>1, SlotAtTime DEF validate_block_header
<1>3. p \in Parameters
  BY <1>1 DEF RulesOf, ParametersFrom
<1> BlockEffect(t, w)
  <2>1. get_slot_at_time(dgp, gpo.parameters, t) > 0
    BY <1>2
  <2> QED BY <1>1, <2>1, BlockIs
<1>4. /\ dgp'.num = dgp.num + 1 /\ dgp'.time = t
      /\ dgp'.current_aslot = dgp.current_aslot + slot
      /\ dgp'.maintenance_flag = maint
      /\ dgp'.next_maintenance_time =
           IF maint THEN next_maintenance_time(dgp.next_maintenance_time, p, dgp.num + 1, t)
                    ELSE dgp.next_maintenance_time
      /\ dgp' = [num |-> dgp'.num, time |-> dgp'.time, current_aslot |-> dgp'.current_aslot,
                 maintenance_flag |-> dgp'.maintenance_flag,
                 recent_slots_filled |-> dgp'.recent_slots_filled,
                 next_maintenance_time |-> dgp'.next_maintenance_time,
                 last_budget_time |-> dgp'.last_budget_time,
                 witness_budget |-> dgp'.witness_budget]
      /\ clock' = clock
  <2>1. dgp.current_aslot + MissedSlots(dgp, gpo.parameters, t) + 1 = dgp.current_aslot + slot
    BY <1>1, <1>2 DEF MissedSlots
  <2> HIDE DEF slot
  <2> QED BY <2>1 DEF BlockEffect
<1>5. RulesOf(gpo') /\ gpo'.parameters = p
  <2>1. gpo' = IF maint
                 THEN [parameters |-> p, pending |-> none,
                       active |-> update_active_witnesses(opinion, gpo.parameters),
                       committee |-> update_active_committee_members(opinion, gpo.parameters)]
                 ELSE gpo
    BY DEF BlockEffect
  <2>2. CASE maint
    <3> HIDE DEF p, maint
    <3> QED BY <1>3, <2>1, <2>2 DEF RulesOf
  <2>3. CASE ~maint
    BY <1>1, <2>1, <2>3
  <2> QED BY <2>2, <2>3
<1>6. /\ dgp'.next_maintenance_time \in Nat /\ t < dgp'.next_maintenance_time
      /\ dgp'.next_maintenance_time <= t + p.maintenance_interval
  <2>1. CASE maint
    <3> DEFINE next == next_maintenance_time(dgp.next_maintenance_time, p, dgp.num + 1, t)
    <3>1. dgp'.next_maintenance_time = next
      BY <1>4, <2>1
    <3>2. dgp.num + 1 \in Nat /\ dgp.next_maintenance_time <= t
      BY <1>1, <2>1
    <3> HIDE DEF p
    <3>3. next \in Nat /\ t < next /\ next <= t + p.maintenance_interval
      BY <1>1, <1>3, <3>2, NextMaintenance
    <3> QED BY <3>1, <3>3
  <2>2. CASE ~maint
    <3>1. t < dgp.next_maintenance_time
      BY <1>1, <2>2
    <3>2. dgp.num > 0
      BY <1>1, <3>1 DEF Calendar
    <3>3. dgp.next_maintenance_time <= dgp.time + gpo.parameters.maintenance_interval
      BY <3>2 DEF Calendar, MaintenanceAhead
    <3>4. gpo.parameters.maintenance_interval \in Nat
      BY <1>1, IntervalsTyped
    <3> QED BY <1>1, <1>2, <1>4, <2>2, <3>1, <3>3, <3>4
  <2> QED BY <2>1, <2>2
<1> HIDE DEF maint, p, slot
<1>7. dgp'.num \in Nat /\ dgp'.num # 0 /\ dgp'.time \in Nat /\ dgp'.current_aslot \in Nat
      /\ dgp'.maintenance_flag \in BOOLEAN
  <2>1. maint \in BOOLEAN
    BY DEF maint
  <2> QED BY <1>1, <1>2, <1>4, <2>1
<1>8. ClockOf(dgp')
  BY <1>4, <1>6, <1>7 DEF ClockOf
<1>9. MaintenanceAhead'
  BY <1>4, <1>5, <1>6 DEF MaintenanceAhead
<1>10. clock' \in GenesisTime .. MaxTime
  BY <1>4 DEF Calendar
<1> QED BY <1>2, <1>5, <1>7, <1>8, <1>9, <1>10 DEF Calendar, slot

LEMMA CalendarInit == Init => Calendar
<1> SUFFICES ASSUME Init PROVE Calendar
  OBVIOUS
<1>1. ClockOf(dgp)
  BY ProductionAssumption DEF Init, ClockOf
<1>2. RulesOf(gpo)
  BY ProductionAssumption DEF Init, RulesOf
<1>3. clock \in GenesisTime .. MaxTime
  BY ProductionAssumption DEF Init
<1>4. dgp.num = 0 /\ ~dgp.maintenance_flag /\ dgp.next_maintenance_time = 0
  BY DEF Init
<1> QED BY <1>1, <1>2, <1>3, <1>4 DEF Calendar, MaintenanceAhead

LEMMA CalendarStep ==
  ASSUME Calendar, [Next]_vars
  PROVE  Calendar'
<1>1. CASE BlockStep
  BY <1>1, BlockCalendar DEF BlockStep
<1>2. CASE QuietStep
  <2>1. dgp' = dgp /\ gpo'.parameters = gpo.parameters /\ RulesOf(gpo')
    <3>1. CASE gpo' = gpo
      BY <1>2, <3>1 DEF QuietStep, Calendar
    <3>2. ASSUME NEW p \in Parameters, gpo' = [gpo EXCEPT !.pending = p]
          PROVE  gpo'.parameters = gpo.parameters /\ RulesOf(gpo')
      BY <3>2 DEF Calendar, RulesOf
    <3> QED BY <1>2, <3>1, <3>2 DEF QuietStep, Calendar
  <2>2. clock' \in GenesisTime .. MaxTime
    <3>1. clock' \in clock .. MaxTime
      BY <1>2 DEF QuietStep
    <3>2. clock \in GenesisTime .. MaxTime
      BY DEF Calendar
    <3> QED BY <3>1, <3>2, ProductionAssumption
  <2> QED BY <2>1, <2>2 DEF Calendar, MaintenanceAhead
<1> QED BY <1>1, <1>2, Steps

(* Head, slots and rules agree in every reachable state; in particular the *)
(* next maintenance is ahead of the head by at most one interval, which    *)
(* process_budget asserts and divides by.                                  *)
THEOREM CalendarKept == Spec => [](Calendar /\ MaintenanceAhead)
<1>1. Calendar => MaintenanceAhead
  BY DEF Calendar
<1>2. Calendar /\ [Next]_vars => Calendar'
  BY CalendarStep
<1> QED BY <1>1, <1>2, CalendarInit, PTL DEF Spec

(* maybe_produce_block never signs a block that validate_block_header      *)
(* refuses, for any parameters, order of witnesses and participation.      *)
THEOREM OwnBlocksValidHolds == Spec => []OwnBlocksValid
<1>1. Calendar => OwnBlocksValid
  <2> SUFFICES ASSUME Calendar, NEW now \in {clock, clock + 1}, Ready(now)
               PROVE  validate_block_header(dgp, gpo.parameters, shuffled, now, scheduled_witness(now))
    BY DEF OwnBlocksValid
  <2> DEFINE slot == get_slot_at_time(dgp, gpo.parameters, now)
  <2>1. now \in Nat /\ ClockOf(dgp) /\ gpo.parameters \in Parameters
    BY ProductionAssumption DEF Calendar, RulesOf
  <2>2. slot \in Nat /\ slot > 0 /\ get_slot_time(dgp, gpo.parameters, slot) = now
    BY <2>1, SlotAtTime DEF Ready
  <2>3. dgp.time < now
    BY <2>1, <2>2, SlotsInverse
  <2> QED BY <2>2, <2>3 DEF validate_block_header, scheduled_witness
<1> QED BY <1>1, CalendarKept, PTL

LEMMA NextSlot ==
  ASSUME Calendar, NEW t \in 0 .. MaxTime + 1, NEW w,
         validate_block_header(dgp, gpo.parameters, shuffled, t, w)
  PROVE  /\ t \div Interval \in Int /\ dgp.time \div Interval \in Int
         /\ t \div Interval >= dgp.time \div Interval + 1 + Skipped(dgp, gpo.parameters)
<1> DEFINE b == Interval
           k == Skipped(dgp, gpo.parameters)
           q == dgp.time \div b
<1>1. /\ t \in Nat /\ ClockOf(dgp) /\ RulesOf(gpo) /\ gpo.parameters \in Parameters
      /\ dgp.time \in Nat /\ dgp.num \in Nat /\ b \in Nat \ {0} /\ k \in Nat
  BY ProductionAssumption, IntervalsTyped, SlotTimes DEF Calendar, ClockOf, RulesOf, Interval
<1>2. dgp.time < t /\ get_slot_at_time(dgp, gpo.parameters, t) > 0
  BY DEF validate_block_header
<1>3. get_slot_time(dgp, gpo.parameters, 1) <= t
  BY <1>1, <1>2, SlotAtTime
<1>4. /\ dgp.num = 0 => k = 0
      /\ get_slot_time(dgp, gpo.parameters, 1) =
           IF dgp.num = 0 THEN dgp.time + 1 * b ELSE q * b + (1 + k) * b
  BY DEF Calendar, Skipped, get_slot_time, head_slot_time, Interval
<1> HIDE DEF b, k
<1>5. q \in Int /\ b * q <= dgp.time
  <2> DEFINE x == dgp.time
  <2>1. x \in Int
    BY <1>1
  <2> HIDE DEF x
  <2>2. x \div b \in Int /\ b * (x \div b) <= x
    BY <1>1, <2>1, Division
  <2> QED BY <2>2 DEF x
<1> HIDE DEF q
<1>6. /\ 1 * b = b /\ q * b = b * q /\ (1 + k) * b = b + b * k
      /\ b * (q + 1 + k) = b * q + b + b * k /\ b * k \in Nat /\ b * q \in Int
  BY <1>1, <1>5
<1>7. b * (q + 1 + k) <= t
  <2>1. CASE dgp.num = 0
    <3>1. k = 0 /\ b * k = 0
      BY <1>1, <1>4, <2>1
    <3> QED BY <1>1, <1>3, <1>4, <1>5, <1>6, <2>1, <3>1
  <2>2. CASE dgp.num # 0
    BY <1>1, <1>3, <1>4, <1>6, <2>2
  <2> QED BY <2>1, <2>2
<1>8. q + 1 + k <= t \div b /\ t \div b \in Int
  <2> DEFINE n == q + 1 + k
  <2>1. n \in Int /\ t \in Int /\ b * n <= t
    BY <1>1, <1>5, <1>7
  <2> HIDE DEF n
  <2>2. t \div b \in Int
    BY <1>1, <2>1, Division
  <2>3. n <= t \div b
    BY <1>1, <2>1, Quotient
  <2> QED BY <2>2, <2>3 DEF n
<1>9. t \div b >= q + 1 + k
  BY <1>1, <1>5, <1>8
<1> QED BY <1>5, <1>8, <1>9 DEF b, q, k

(* Two blocks are never in one slot and the slots skipped after            *)
(* maintenance stay empty, whoever made the blocks and wherever in its     *)
(* slot each of them is.                                                   *)
THEOREM OneBlockPerSlotHolds == Spec => OneBlockPerSlot
<1>1. ASSUME Calendar, [Next]_vars, dgp'.num # dgp.num
      PROVE  dgp'.time \div Interval >= dgp.time \div Interval + 1 + Skipped(dgp, gpo.parameters)
  <2>1. BlockStep
    BY <1>1, Steps DEF QuietStep
  <2>2. PICK t \in 0 .. MaxTime + 1 : \E w :
          validate_block_header(dgp, gpo.parameters, shuffled, t, w) /\ ApplyBlock(t, w)
    BY <2>1 DEF BlockStep
  <2>3. PICK w : validate_block_header(dgp, gpo.parameters, shuffled, t, w) /\ ApplyBlock(t, w)
    BY <2>2
  <2>4. t \div Interval >= dgp.time \div Interval + 1 + Skipped(dgp, gpo.parameters)
    BY <1>1, <2>3, NextSlot
  <2>5. dgp'.time = t
    <3>1. t \in Nat /\ ClockOf(dgp) /\ RulesOf(gpo) /\ get_slot_at_time(dgp, gpo.parameters, t) > 0
      BY <1>1, <2>3, ProductionAssumption DEF Calendar, validate_block_header
    <3> QED BY <2>3, <3>1, BlockIs DEF BlockEffect
  <2> QED BY <2>4, <2>5
<1>2. Calendar /\ [Next]_vars => [dgp'.num # dgp.num =>
        dgp'.time \div Interval >= dgp.time \div Interval + 1 + Skipped(dgp, gpo.parameters)]_vars
  BY <1>1
<1> QED BY <1>2, CalendarKept, PTL DEF Spec, OneBlockPerSlot

-----------------------------------------------------------------------------
(* Turns.  In the order of L witnesses the one at place x + 1 is scheduled *)
(* for the slots that leave x when divided by L; up to slot a it has had   *)
(* (a - x) \div L of them, but for a constant.                             *)
LEMMA FloorShift ==
  ASSUME NEW a \in Int, NEW L \in Nat \ {0}, NEW x \in 0 .. L - 1
  PROVE  (a - x) \div L = IF x <= a % L THEN a \div L ELSE (a \div L) - 1
<1> DEFINE q == a \div L
           r == a % L
<1>1. q \in Int /\ r \in 0 .. L - 1 /\ a = L * q + r
  BY Division
<1> HIDE DEF q, r
<1>2. L * q \in Int /\ L * (q - 1) = L * q - L
  BY <1>1
<1> DEFINE y == a - x
<1>3. y \in Int /\ y = L * q + r - x
  BY <1>1, <1>2
<1> HIDE DEF y
<1>4. CASE x <= r
  <2>1. L * q <= y /\ y < L * q + L
    BY <1>1, <1>2, <1>3, <1>4
  <2>2. y \div L = q
    BY <1>1, <1>3, <2>1, Quotient
  <2> QED BY <1>4, <2>2 DEF y, q, r
<1>5. CASE ~(x <= r)
  <2>1. L * (q - 1) <= y /\ y < L * (q - 1) + L /\ q - 1 \in Int
    BY <1>1, <1>2, <1>3, <1>5
  <2>2. y \div L = q - 1
    BY <1>3, <2>1, Quotient
  <2> QED BY <1>5, <2>2 DEF y, q, r
<1> QED BY <1>4, <1>5

Turns(a, b, L, x) == (b - x) \div L - (a - x) \div L

LEMMA TurnsDiffer ==
  ASSUME NEW a \in Int, NEW b \in Int, NEW L \in Nat \ {0},
         NEW x \in 0 .. L - 1, NEW y \in 0 .. L - 1
  PROVE  Turns(a, b, L, x) \in Int /\ Turns(a, b, L, x) <= Turns(a, b, L, y) + 1
<1> DEFINE Q == b \div L
           R == b % L
           q == a \div L
           r == a % L
<1>1. Q \in Int /\ q \in Int /\ R \in 0 .. L - 1 /\ r \in 0 .. L - 1
  BY Division
<1>2. ASSUME NEW z \in 0 .. L - 1
      PROVE  Turns(a, b, L, z) = (IF z <= R THEN Q ELSE Q - 1) - (IF z <= r THEN q ELSE q - 1)
  BY FloorShift DEF Turns
<1> HIDE DEF Q, R, q, r
<1> QED BY <1>1, <1>2

LEMMA TurnsNext ==
  ASSUME NEW a \in Int, NEW b \in Int, NEW L \in Nat \ {0}, NEW x \in 0 .. L - 1
  PROVE  Turns(a, b + 1, L, x) = Turns(a, b, L, x) + IF x = (b + 1) % L THEN 1 ELSE 0
<1> DEFINE c == b + 1
           Q == c \div L
           R == c % L
           u == (a - x) \div L
<1>1. c \in Int /\ a - x \in Int
  OBVIOUS
<1>2. Q \in Int /\ R \in 0 .. L - 1 /\ c = L * Q + R /\ u \in Int
  BY <1>1, Division
<1>3. (c - x) \div L = IF x <= R THEN Q ELSE Q - 1
  BY <1>1, FloorShift
<1> HIDE DEF c, Q, R, u
<1>4. L * Q \in Int /\ L * (Q - 1) = L * Q - L
  BY <1>2
<1> DEFINE y == b - x
<1>5. y \in Int /\ y = L * Q + R - 1 - x
  BY <1>1, <1>2, <1>4 DEF c
<1> HIDE DEF y
<1>6. y \div L = IF x < R THEN Q ELSE Q - 1
  <2>1. CASE x < R
    <3>1. L * Q <= y /\ y < L * Q + L
      BY <1>2, <1>4, <1>5, <2>1
    <3> QED BY <1>2, <1>5, <2>1, <3>1, Quotient
  <2>2. CASE ~(x < R)
    <3>1. L * (Q - 1) <= y /\ y < L * (Q - 1) + L /\ Q - 1 \in Int
      BY <1>2, <1>4, <1>5, <2>2
    <3> QED BY <1>5, <2>2, <3>1, Quotient
  <2> QED BY <2>1, <2>2
<1>7. Turns(a, c, L, x) = (c - x) \div L - u /\ Turns(a, b, L, x) = y \div L - u
  BY DEF Turns, u, y
<1>8. Turns(a, c, L, x) = Turns(a, b, L, x) + IF x = R THEN 1 ELSE 0
  BY <1>2, <1>3, <1>6, <1>7
<1> QED BY <1>8 DEF c, R

(* However the missed slots are shared out, no more are charged than were  *)
(* missed.                                                                 *)
Charges(f, n, sched, m, signer) ==
  \A v \in 1 .. n :
    f[v] = IF v = signer THEN 0 ELSE Cardinality({i \in 1 .. m : sched[i] = v})

LEMMA ChargedAtMost ==
  ASSUME NEW m \in Nat, NEW sched, NEW signer, NEW n \in Nat, NEW f,
         Charges(f, n, sched, m, signer)
  PROVE  /\ \A v \in 1 .. n : f[v] \in Nat
         /\ Sum(f, n) \in Nat /\ Sum(f, n) <= m
<1> DEFINE Own(v) == {i \in 1 .. m : sched[i] = v}
           Upto(k) == {i \in 1 .. m : sched[i] \in 1 .. k}
           S == {k \in Nat : k <= n => Sum(f, k) <= Cardinality(Upto(k))}
<1>1. IsFiniteSet(1 .. m) /\ Cardinality(1 .. m) = m
  BY FS_Interval
<1>2. ASSUME NEW T, T \subseteq 1 .. m
      PROVE  IsFiniteSet(T) /\ Cardinality(T) \in Nat /\ Cardinality(T) <= m
  <2>1. T \in SUBSET (1 .. m)
    BY <1>2
  <2>2. IsFiniteSet(T) /\ Cardinality(T) <= Cardinality(1 .. m)
    BY <1>1, <2>1, FS_Subset
  <2>3. Cardinality(T) \in Nat
    BY <2>2, FS_CardinalityType
  <2> QED BY <1>1, <2>2, <2>3
<1>3. ASSUME NEW v \in 1 .. n PROVE f[v] \in Nat /\ f[v] <= Cardinality(Own(v))
  <2>1. Cardinality(Own(v)) \in Nat
    <3>1. Own(v) \subseteq 1 .. m
      OBVIOUS
    <3> HIDE DEF Own
    <3> QED BY <1>2, <3>1
  <2>2. f[v] = IF v = signer THEN 0 ELSE Cardinality(Own(v))
    BY DEF Charges
  <2> HIDE DEF Own
  <2> QED BY <2>1, <2>2
<1>4. ASSUME NEW k \in Nat, k <= n PROVE Sum(f, k) \in Nat
  <2>1. ASSUME NEW i \in 1 .. k PROVE f[i] \in Nat
    <3>1. i \in 1 .. n
      BY <1>4
    <3> QED BY <1>3, <3>1
  <2> QED BY <2>1, SumOfNaturals
<1>5. 0 \in S
  <2>1. Cardinality(Upto(0)) \in Nat
    <3>1. Upto(0) \subseteq 1 .. m
      OBVIOUS
    <3> HIDE DEF Upto
    <3> QED BY <1>2, <3>1
  <2>2. Sum(f, 0) = 0
    BY SumRecurrence DEF IntOn
  <2> QED BY <2>1, <2>2
<1>6. ASSUME NEW k \in Nat, k \in S PROVE k + 1 \in S
  <2> SUFFICES ASSUME k + 1 <= n PROVE Sum(f, k + 1) <= Cardinality(Upto(k + 1))
    OBVIOUS
  <2>1. Sum(f, k) <= Cardinality(Upto(k)) /\ Sum(f, k) \in Nat
    BY <1>4, <1>6
  <2>2. Sum(f, k + 1) = Sum(f, k) + f[k + 1]
    <3>1. ASSUME NEW i \in 1 .. k + 1 PROVE f[i] \in Int
      <4>1. i \in 1 .. n
        OBVIOUS
      <4> HIDE DEF Own
      <4>2. f[i] \in Nat
        BY <1>3, <4>1
      <4> QED BY <4>2
    <3>2. IntOn(f, k + 1) /\ k + 1 \in Nat /\ k + 1 # 0 /\ (k + 1) - 1 = k
      BY <3>1 DEF IntOn
    <3> QED BY <3>2, SumRecurrence
  <2>3. f[k + 1] \in Nat /\ f[k + 1] <= Cardinality(Own(k + 1))
    <3>1. k + 1 \in 1 .. n
      OBVIOUS
    <3> HIDE DEF Own
    <3> QED BY <1>3, <3>1
  <2>4. Upto(k + 1) = Upto(k) \cup Own(k + 1) /\ Upto(k) \cap Own(k + 1) = {}
    OBVIOUS
  <2>5. /\ IsFiniteSet(Upto(k)) /\ Cardinality(Upto(k)) \in Nat
        /\ IsFiniteSet(Own(k + 1)) /\ Cardinality(Own(k + 1)) \in Nat
    <3>1. Upto(k) \subseteq 1 .. m /\ Own(k + 1) \subseteq 1 .. m
      OBVIOUS
    <3> HIDE DEF Upto, Own
    <3> QED BY <1>2, <3>1
  <2> HIDE DEF Upto, Own
  <2>6. Cardinality(Upto(k + 1)) = Cardinality(Upto(k)) + Cardinality(Own(k + 1))
    <3>1. Cardinality(Upto(k) \cup Own(k + 1)) = Cardinality(Upto(k)) + Cardinality(Own(k + 1))
                                                  - Cardinality(Upto(k) \cap Own(k + 1))
      BY <2>5, FS_Union
    <3>2. Cardinality({}) = 0
      BY FS_EmptySet
    <3>3. Cardinality(Upto(k) \cap Own(k + 1)) = 0
      BY <2>4, <3>2
    <3>4. Cardinality(Upto(k + 1)) = Cardinality(Upto(k) \cup Own(k + 1))
      BY <2>4
    <3> QED BY <2>5, <3>1, <3>3, <3>4
  <2> QED BY <2>1, <2>2, <2>3, <2>5, <2>6
<1>7. n \in S
  <2> HIDE DEF S
  <2> QED BY <1>5, <1>6, NatSetInduction
<1>8. Cardinality(Upto(n)) \in Nat /\ Cardinality(Upto(n)) <= m
  <2>1. Upto(n) \subseteq 1 .. m
    OBVIOUS
  <2> HIDE DEF Upto
  <2> QED BY <1>2, <2>1
<1>9. Sum(f, n) \in Nat
  BY <1>4
<1>10. Sum(f, n) <= Cardinality(Upto(n))
  BY <1>7
<1> HIDE DEF Upto
<1>11. Sum(f, n) <= m
  BY <1>8, <1>9, <1>10
<1> QED BY <1>3, <1>9, <1>11

-----------------------------------------------------------------------------
(* The order of the witnesses lists a set of them, and since it was last   *)
(* renewed the slots went round in it, as long as none was missed; when it *)
(* is not the order of the active ones, no block since the last            *)
(* maintenance had a number at which it is renewed.                        *)
Memory ==
  past \in [turns : [Witnesses -> Nat], gap : BOOLEAN, maintained : Nat,
            opinions : {past.opinions}, fees : {past.fees}]

Members ==
  /\ gpo.active \subseteq Witnesses /\ gpo.active # {}
  /\ gpo.committee \subseteq CommitteeMembers

InTurn ==
  \E S \in SUBSET Witnesses :
    /\ S # {} /\ Lists(shuffled, S)
    /\ ~past.gap => \E a \in Int : \A j \in 1 .. Cardinality(S) :
         past.turns[shuffled[j]] = Turns(a, dgp.current_aslot, Cardinality(S), j - 1)

CatchingUp ==
  /\ past.maintained <= dgp.num
  /\ Range(shuffled) # gpo.active =>
       \A k \in past.maintained .. dgp.num : k % Cardinality(gpo.active) # 0

Charged ==
  /\ total_missed \in [Witnesses -> Nat]
  /\ SlotsAccounted

InOrder == Memory /\ Members /\ InTurn /\ CatchingUp /\ Charged

LEMMA MembersCount ==
  ASSUME NEW S \in SUBSET Witnesses, S # {}
  PROVE  IsFiniteSet(S) /\ Cardinality(S) \in Nat \ {0}
<1>1. IsFiniteSet(S)
  BY WitnessesTyped, FS_Subset
<1> QED BY <1>1, FS_CardinalityType, FS_EmptySet

LEMMA InOrderInit == Init => InOrder
<1> SUFFICES ASSUME Init PROVE InOrder
  OBVIOUS
<1>1. Memory
  BY DEF Init, Memory
<1>2. Members
  BY ProductionAssumption DEF Init, Members
<1> DEFINE S == Start.active
<1>3. S \in SUBSET Witnesses /\ S # {} /\ IsFiniteSet(S) /\ S \subseteq Nat
  BY ProductionAssumption, MembersCount, WitnessesTyped
<1>4. Lists(shuffled, S)
  BY <1>3, ByIdLists DEF Init
<1>5. InTurn
  <2>1. ASSUME NEW j \in 1 .. Cardinality(S)
        PROVE  past.turns[shuffled[j]] = Turns(0, dgp.current_aslot, Cardinality(S), j - 1)
    <3>1. shuffled[j] \in Witnesses
      BY <1>3, <1>4 DEF Lists
    <3>2. past.turns[shuffled[j]] = 0 /\ dgp.current_aslot = 0
      BY <3>1 DEF Init
    <3>3. Turns(0, 0, Cardinality(S), j - 1) = 0
      <4> DEFINE n == Cardinality(S)
      <4>1. n \in Nat \ {0}
        BY <1>3, MembersCount
      <4> HIDE DEF n
      <4>2. (0 - (j - 1)) \div n \in Int
        BY <4>1, Division DEF n
      <4> QED BY <4>2 DEF Turns, n
    <3> QED BY <3>2, <3>3
  <2> QED BY <1>3, <1>4, <2>1 DEF InTurn
<1>6. CatchingUp
  <2>1. Range(shuffled) = gpo.active
    BY <1>3, <1>4, ListsLength DEF Init
  <2> QED BY <2>1 DEF Init, CatchingUp
<1>7. Charged
  <2>1. total_missed \in [Witnesses -> Nat] /\ dgp.num = 0 /\ dgp.current_aslot = 0
    BY DEF Init
  <2>2. \A i \in 1 .. Cardinality(Witnesses) : total_missed[i] = 0
    BY WitnessesTyped DEF Init
  <2>3. Sum(total_missed, Cardinality(Witnesses)) = 0
    BY <2>2, WitnessesTyped, SumOfNone
  <2> QED BY <2>1, <2>3 DEF Charged, SlotsAccounted
<1> QED BY <1>1, <1>2, <1>5, <1>6, <1>7 DEF InOrder

LEMMA QuietInOrder ==
  ASSUME InOrder, QuietStep
  PROVE  InOrder'
<1>1. dgp' = dgp /\ shuffled' = shuffled /\ total_missed' = total_missed
  BY DEF QuietStep
<1>2. gpo'.active = gpo.active /\ gpo'.committee = gpo.committee
  <2>1. CASE gpo' = gpo
    BY <2>1
  <2>2. ASSUME NEW p \in Parameters, gpo' = [gpo EXCEPT !.pending = p]
        PROVE  gpo'.active = gpo.active /\ gpo'.committee = gpo.committee
    BY <2>2
  <2> QED BY <2>1, <2>2 DEF QuietStep
<1>3. Memory' /\ past'.turns = past.turns /\ past'.gap = past.gap
      /\ past'.maintained = past.maintained
  <2>1. Memory
    BY DEF InOrder
  <2>2. CASE past' = past
    BY <2>1, <2>2 DEF Memory
  <2>3. CASE past' = [past EXCEPT !.opinions = @ + 1]
    BY <2>1, <2>3 DEF Memory
  <2>4. CASE past' = [past EXCEPT !.fees = @ + 1]
    BY <2>1, <2>4 DEF Memory
  <2> QED BY <2>2, <2>3, <2>4 DEF QuietStep
<1>4. Members'
  BY <1>2 DEF InOrder, Members
<1>5. InTurn'
  BY <1>1, <1>3 DEF InOrder, InTurn
<1>6. CatchingUp'
  BY <1>1, <1>2, <1>3 DEF InOrder, CatchingUp
<1>7. Charged'
  BY <1>1 DEF InOrder, Charged, SlotsAccounted
<1> QED BY <1>3, <1>4, <1>5, <1>6, <1>7 DEF InOrder

(* What a block leaves for the properties to remember. *)
LEMMA BlockMemory ==
  ASSUME Memory, NEW t, NEW w \in Witnesses, BlockEffect(t, w), dgp.num \in Nat
  PROVE  LET maint == dgp.next_maintenance_time <= t
             renewed == (dgp.num + 1) % Cardinality(gpo'.active) = 0
         IN /\ Memory'
            /\ past'.turns = IF renewed THEN [v \in Witnesses |-> 0]
                                        ELSE [past.turns EXCEPT ![w] = past.turns[w] + 1]
            /\ past'.gap = (~renewed /\ (past.gap \/ MissedSlots(dgp, gpo.parameters, t) > 0))
            /\ past'.maintained = IF maint THEN dgp.num + 1 ELSE past.maintained
<1> DEFINE maint == dgp.next_maintenance_time <= t
           renewed == (dgp.num + 1) % Cardinality(gpo'.active) = 0
           T == IF renewed THEN [v \in Witnesses |-> 0]
                           ELSE [past.turns EXCEPT ![w] = past.turns[w] + 1]
           G == ~renewed /\ (past.gap \/ MissedSlots(dgp, gpo.parameters, t) > 0)
           M == IF maint THEN dgp.num + 1 ELSE past.maintained
<1>1. past' = [past EXCEPT !.turns = T, !.gap = G, !.maintained = M]
  BY DEF BlockEffect, Remember
<1>2. T \in [Witnesses -> Nat]
  <2>1. past.turns \in [Witnesses -> Nat]
    BY DEF Memory
  <2> QED BY <2>1
<1>3. G \in BOOLEAN /\ M \in Nat
  BY DEF Memory
<1> HIDE DEF T, G, M
<1> DEFINE q == [past EXCEPT !.turns = T]
           r == [q EXCEPT !.gap = G]
<1>4. past' = [r EXCEPT !.maintained = M]
  BY <1>1 DEF Memory
<1>5. /\ q = [turns |-> T, gap |-> past.gap, maintained |-> past.maintained,
              opinions |-> past.opinions, fees |-> past.fees]
  BY DEF Memory
<1> HIDE DEF q
<1>6. r = [turns |-> T, gap |-> G, maintained |-> past.maintained,
           opinions |-> past.opinions, fees |-> past.fees]
  BY <1>5
<1> HIDE DEF r
<1>7. past' = [turns |-> T, gap |-> G, maintained |-> M,
               opinions |-> past.opinions, fees |-> past.fees]
  BY <1>4, <1>6
<1>8. Memory'
  BY <1>2, <1>3, <1>7 DEF Memory
<1> QED BY <1>7, <1>8 DEF T, G, M

(* The witness scheduled for a slot is one of the order. *)
LEMMA ScheduledIn ==
  ASSUME NEW S \in SUBSET Witnesses, S # {}, Lists(shuffled, S), NEW n \in Nat,
         dgp.current_aslot \in Nat
  PROVE  LET i == ((dgp.current_aslot + n) % Cardinality(S)) + 1
         IN /\ i \in 1 .. Cardinality(S)
            /\ get_scheduled_witness(dgp, shuffled, n) = shuffled[i]
            /\ shuffled[i] \in S
<1> DEFINE L == Cardinality(S)
           a == dgp.current_aslot + n
           i == (a % L) + 1
<1>1. L \in Nat \ {0} /\ Len(shuffled) = L /\ a \in Int
  BY MembersCount, ListsLength
<1>2. get_scheduled_witness(dgp, shuffled, n) = shuffled[i]
  BY <1>1 DEF get_scheduled_witness
<1> HIDE DEF L, a
<1>3. (a % L) \in 0 .. L - 1
  BY <1>1, Division
<1>4. i \in 1 .. L
  BY <1>1, <1>3
<1>5. shuffled[i] \in S
  <2>1. shuffled \in [1 .. L -> S]
    BY DEF Lists, L
  <2> QED BY <1>4, <2>1
<1> QED BY <1>2, <1>4, <1>5 DEF L, a

LEMMA BlockInOrder ==
  ASSUME Calendar, InOrder, NEW t \in 0 .. MaxTime + 1, NEW w,
         validate_block_header(dgp, gpo.parameters, shuffled, t, w), ApplyBlock(t, w)
  PROVE  InOrder'
<1> DEFINE slot == get_slot_at_time(dgp, gpo.parameters, t)
           missed == MissedSlots(dgp, gpo.parameters, t)
           maint == dgp.next_maintenance_time <= t
           A == gpo'.active
           L == Cardinality(A)
           num == dgp.num + 1
           renewed == num % L = 0
           aslot == dgp.current_aslot
<1>1. /\ t \in Nat /\ dgp.time < t /\ slot \in Nat \ {0}
      /\ ClockOf(dgp) /\ RulesOf(gpo) /\ gpo.parameters \in Parameters
      /\ dgp.num \in Nat /\ aslot \in Nat /\ maint \in BOOLEAN
      /\ dgp.next_maintenance_time \in Nat
  BY BlockCalendar, ProductionAssumption DEF Calendar, ClockOf, RulesOf
<1>2. BlockEffect(t, w)
  <2>1. slot > 0
    BY <1>1
  <2> QED BY <1>1, <2>1, BlockIs
<1>3. missed \in Nat /\ slot = missed + 1
  BY <1>1 DEF MissedSlots
<1>4. PICK S \in SUBSET Witnesses :
        /\ S # {} /\ Lists(shuffled, S)
        /\ ~past.gap => \E a \in Int : \A j \in 1 .. Cardinality(S) :
             past.turns[shuffled[j]] = Turns(a, dgp.current_aslot, Cardinality(S), j - 1)
  BY DEF InOrder, InTurn
<1> DEFINE k == Cardinality(S)
           i == ((aslot + slot) % k) + 1
<1>5. i \in 1 .. k /\ w = shuffled[i] /\ w \in S /\ w \in Witnesses
  <2>1. w = get_scheduled_witness(dgp, shuffled, slot)
    BY DEF validate_block_header
  <2>2. slot \in Nat
    BY <1>1
  <2> HIDE DEF slot
  <2> QED BY <1>1, <1>4, <2>1, <2>2, ScheduledIn
<1> HIDE DEF slot, missed, maint, i, k
<1>6. Members' /\ A \in SUBSET Witnesses /\ A # {} /\ L \in Nat \ {0} /\ IsFiniteSet(A)
  <2>1. /\ gpo'.active = IF maint THEN update_active_witnesses(opinion, gpo.parameters) ELSE gpo.active
        /\ gpo'.committee = IF maint THEN update_active_committee_members(opinion, gpo.parameters)
                                     ELSE gpo.committee
    BY <1>2 DEF BlockEffect, maint
  <2>2. gpo.active \subseteq Witnesses /\ gpo.active # {} /\ gpo.committee \subseteq CommitteeMembers
    BY DEF InOrder, Members
  <2>3. /\ update_active_witnesses(opinion, gpo.parameters) \subseteq Witnesses
        /\ update_active_witnesses(opinion, gpo.parameters) # {}
    BY <1>1, WitnessesElected
  <2>4. update_active_committee_members(opinion, gpo.parameters) \subseteq CommitteeMembers
    BY DEF update_active_committee_members, sort_votable_objects
  <2>5. A \subseteq Witnesses /\ A # {} /\ gpo'.committee \subseteq CommitteeMembers
    BY <2>1, <2>2, <2>3, <2>4
  <2> QED BY <2>5, MembersCount DEF Members
<1> HIDE DEF A
<1>7. renewed \in BOOLEAN
  OBVIOUS
<1>8. /\ dgp'.num = num /\ dgp'.current_aslot = aslot + missed + 1
      /\ shuffled' = IF renewed THEN Shuffled(ById(A), t) ELSE shuffled
      /\ Remember(t, w, maint, renewed)
  BY <1>2 DEF BlockEffect, missed, maint, A
<1> HIDE DEF renewed
<1>9. /\ Memory'
      /\ past'.turns = IF renewed THEN [v \in Witnesses |-> 0]
                                  ELSE [past.turns EXCEPT ![w] = past.turns[w] + 1]
      /\ past'.gap = (~renewed /\ (past.gap \/ missed > 0))
      /\ past'.maintained = IF maint THEN num ELSE past.maintained
  <2>1. Memory /\ dgp.num \in Nat /\ w \in Witnesses /\ maint \in BOOLEAN
    BY <1>1, <1>5 DEF InOrder
  <2> QED BY <1>2, <2>1, BlockMemory DEF missed, maint, renewed, A
<1>10. renewed => Lists(shuffled', A)
  <2>1. Lists(ById(A), A)
    BY <1>6, WitnessesTyped, ByIdLists
  <2> QED BY <1>6, <1>8, <2>1, ShuffledLists
<1>11. InTurn'
  <2>1. CASE renewed
    <3>1. ASSUME NEW j \in 1 .. L
          PROVE  past'.turns[shuffled'[j]] = Turns(aslot + missed + 1, dgp'.current_aslot, L, j - 1)
      <4>1. shuffled'[j] \in Witnesses
        BY <1>6, <1>10, <2>1 DEF Lists
      <4>2. past'.turns[shuffled'[j]] = 0
        BY <1>9, <2>1, <4>1
      <4> DEFINE b == aslot + missed + 1
                 x == b - (j - 1)
      <4>3. b \in Int /\ x \in Int /\ dgp'.current_aslot = b
        BY <1>1, <1>3, <1>8
      <4> HIDE DEF x
      <4>4. x \div L \in Int
        BY <1>6, <4>3, Division
      <4>5. Turns(b, b, L, j - 1) = x \div L - x \div L
        BY DEF Turns, x
      <4> QED BY <4>2, <4>3, <4>4, <4>5
    <3>2. aslot + missed + 1 \in Int
      BY <1>1, <1>3
    <3>3. \E a \in Int : \A j \in 1 .. Cardinality(A) :
            past'.turns[shuffled'[j]] = Turns(a, dgp'.current_aslot, Cardinality(A), j - 1)
      BY <3>1, <3>2
    <3> QED BY <1>6, <1>10, <2>1, <3>3 DEF InTurn
  <2>2. CASE ~renewed
    <3>1. shuffled' = shuffled
      BY <1>8, <2>2
    <3>2. ASSUME ~past'.gap
          PROVE  \E a \in Int : \A j \in 1 .. Cardinality(S) :
                   past'.turns[shuffled'[j]] = Turns(a, dgp'.current_aslot, Cardinality(S), j - 1)
      <4>1. ~past.gap /\ missed = 0 /\ slot = 1 /\ dgp'.current_aslot = aslot + 1
        <5>1. ~past.gap /\ ~(missed > 0)
          BY <1>9, <2>2, <3>2
        <5> QED BY <1>1, <1>3, <1>8, <5>1
      <4>2. PICK a \in Int : \A j \in 1 .. k : past.turns[shuffled[j]] = Turns(a, aslot, k, j - 1)
        BY <1>4, <4>1 DEF k
      <4>3. ASSUME NEW j \in 1 .. k
            PROVE  past'.turns[shuffled[j]] = Turns(a, aslot + 1, k, j - 1)
        <5>1. k \in Nat \ {0} /\ j - 1 \in 0 .. k - 1
          BY <1>4, MembersCount DEF k
        <5>2. Turns(a, aslot + 1, k, j - 1) =
                Turns(a, aslot, k, j - 1) + IF j - 1 = (aslot + 1) % k THEN 1 ELSE 0
          <6>1. aslot \in Int
            BY <1>1
          <6> HIDE DEF aslot
          <6> DEFINE x == j - 1
          <6>2. k \in Nat \ {0} /\ x \in 0 .. k - 1
            BY <5>1
          <6> HIDE DEF x, k
          <6>3. Turns(a, aslot + 1, k, x) =
                  Turns(a, aslot, k, x) + IF x = (aslot + 1) % k THEN 1 ELSE 0
            BY <6>1, <6>2, TurnsNext
          <6> QED BY <6>3 DEF x
        <5>3. shuffled[j] = w <=> j = i
          BY <1>4, <1>5 DEF Lists, k
        <5>4. j = i <=> j - 1 = (aslot + 1) % k
          <6> DEFINE r == (aslot + 1) % k
          <6>1. r \in Int
            BY <1>1, <5>1, Division
          <6>2. i = r + 1
            BY <4>1 DEF i
          <6> HIDE DEF r
          <6>3. j = i <=> j - 1 = r
            BY <5>1, <6>1, <6>2
          <6> QED BY <6>3 DEF r
        <5>5. shuffled[j] \in Witnesses
          BY <1>4 DEF Lists, k
        <5>6. past.turns \in [Witnesses -> Nat]
          BY DEF InOrder, Memory
        <5>7. past'.turns[shuffled[j]] = past.turns[shuffled[j]] + IF j = i THEN 1 ELSE 0
          BY <1>9, <2>2, <5>3, <5>5, <5>6
        <5> QED BY <4>2, <5>2, <5>4, <5>7
      <4> QED BY <3>1, <4>1, <4>3 DEF k
    <3> QED BY <1>4, <3>1, <3>2 DEF InTurn
  <2> QED BY <2>1, <2>2
<1>12. CatchingUp'
  <2>1. past.maintained \in Nat /\ past.maintained <= dgp.num /\ num \in Nat
    BY <1>1 DEF InOrder, CatchingUp, Memory
  <2>2. past'.maintained <= dgp'.num
    BY <1>1, <1>8, <1>9, <2>1
  <2>3. ASSUME Range(shuffled') # A, NEW n \in past'.maintained .. dgp'.num
        PROVE  n % L # 0
    <3>1. ~renewed
      BY <1>6, <1>10, <2>3, ListsLength
    <3>2. CASE n = num
      BY <3>1, <3>2 DEF renewed
    <3>3. CASE n # num
      <4>1. ~maint /\ n \in past.maintained .. dgp.num
        BY <1>1, <1>8, <1>9, <2>1, <2>3, <3>3
      <4>2. A = gpo.active /\ shuffled' = shuffled
        BY <1>2, <1>8, <3>1, <4>1 DEF BlockEffect, maint, A
      <4>3. \A m \in past.maintained .. dgp.num : m % Cardinality(gpo.active) # 0
        BY <2>3, <4>2 DEF InOrder, CatchingUp
      <4> QED BY <4>1, <4>2, <4>3
    <3> QED BY <3>2, <3>3
  <2> QED BY <2>2, <2>3 DEF CatchingUp, A
<1>13. Charged'
  <2> DEFINE n == Cardinality(Witnesses)
             f == [v \in Witnesses |-> TimesMissed(dgp, gpo.parameters, shuffled, t, v, w)]
             sched == [j \in 1 .. missed |-> get_scheduled_witness(dgp, shuffled, j)]
  <2>1. n \in Nat /\ Witnesses = 1 .. n
    BY WitnessesTyped
  <2>2. total_missed \in [Witnesses -> Nat] /\ dgp.num + Sum(total_missed, n) <= aslot
    BY DEF InOrder, Charged, SlotsAccounted
  <2>3. total_missed' = [v \in Witnesses |-> total_missed[v] + f[v]]
    BY DEF ApplyBlock
  <2>4. ASSUME NEW v \in 1 .. n
        PROVE  f[v] = IF v = w THEN 0 ELSE Cardinality({j \in 1 .. missed : sched[j] = v})
    <3>1. {j \in 1 .. missed : get_scheduled_witness(dgp, shuffled, j) = v}
            = {j \in 1 .. missed : sched[j] = v}
      OBVIOUS
    <3> QED BY <2>1, <3>1 DEF TimesMissed, missed
  <2>10. Charges(f, n, sched, missed, w)
    <3> HIDE DEF f, sched, n
    <3> QED BY <2>4 DEF Charges
  <2> HIDE DEF n, f, sched
  <2>5. (\A v \in 1 .. n : f[v] \in Nat) /\ Sum(f, n) \in Nat /\ Sum(f, n) <= missed
    BY <1>3, <2>1, <2>10, ChargedAtMost
  <2>6. total_missed' \in [Witnesses -> Nat]
    BY <2>1, <2>2, <2>3, <2>5
  <2>7. Sum(total_missed', n) = Sum(total_missed, n) + Sum(f, n)
    <3>1. IntOn(total_missed, n) /\ IntOn(f, n)
      BY <2>1, <2>2, <2>5 DEF IntOn
    <3>2. \A v \in 1 .. n : total_missed'[v] = total_missed[v] + f[v]
      BY <2>1, <2>3
    <3> QED BY <2>1, <3>1, <3>2, SumAdd
  <2>8. Sum(total_missed, n) \in Nat
    BY <2>1, <2>2, SumOfNaturals
  <2>9. dgp'.num + Sum(total_missed', n) <= dgp'.current_aslot
    BY <1>1, <1>3, <1>8, <2>2, <2>5, <2>7, <2>8
  <2> QED BY <2>6, <2>9 DEF Charged, SlotsAccounted, n
<1> QED BY <1>6, <1>9, <1>11, <1>12, <1>13 DEF InOrder

LEMMA InOrderStep ==
  ASSUME Calendar, InOrder, [Next]_vars
  PROVE  InOrder'
<1>1. CASE BlockStep
  BY <1>1, BlockInOrder DEF BlockStep
<1>2. CASE QuietStep
  BY <1>2, QuietInOrder
<1> QED BY <1>1, <1>2, Steps

LEMMA InTurnFair == InOrder /\ Calendar => FairTurns
<1> SUFFICES ASSUME InOrder, Calendar, ~past.gap,
                    NEW v \in Range(shuffled), NEW w \in Range(shuffled)
             PROVE  past.turns[v] <= past.turns[w] + 1
  BY DEF FairTurns
<1>1. PICK S \in SUBSET Witnesses :
        /\ S # {} /\ Lists(shuffled, S)
        /\ ~past.gap => \E a \in Int : \A j \in 1 .. Cardinality(S) :
             past.turns[shuffled[j]] = Turns(a, dgp.current_aslot, Cardinality(S), j - 1)
  BY DEF InOrder, InTurn
<1> DEFINE L == Cardinality(S)
           b == dgp.current_aslot
<1>2. L \in Nat \ {0} /\ b \in Int /\ DOMAIN shuffled = 1 .. L
  BY <1>1, MembersCount, ListsLength DEF Calendar, ClockOf
<1>3. PICK a \in Int : \A j \in 1 .. L : past.turns[shuffled[j]] = Turns(a, b, L, j - 1)
  BY <1>1
<1> HIDE DEF L, b
<1>4. PICK i \in 1 .. L, j \in 1 .. L : v = shuffled[i] /\ w = shuffled[j]
  BY <1>2 DEF Range
<1>5. i - 1 \in 0 .. L - 1 /\ j - 1 \in 0 .. L - 1
  BY <1>2
<1>6. Turns(a, b, L, i - 1) <= Turns(a, b, L, j - 1) + 1
  BY <1>2, <1>5, TurnsDiffer
<1> QED BY <1>3, <1>4, <1>6

(* Among as many numbers in a row as there are active witnesses one is a   *)
(* multiple of their number.                                               *)
LEMMA CaughtUp == InOrder /\ Calendar => ScheduleCatchesUp
<1> SUFFICES ASSUME InOrder, Calendar, Range(shuffled) # gpo.active,
                    ~(dgp.num - past.maintained < Cardinality(gpo.active))
             PROVE  FALSE
  BY DEF ScheduleCatchesUp
<1> DEFINE c == Cardinality(gpo.active)
           n == dgp.num
           m == past.maintained
           q == n \div c
           r == n % c
<1>1. c \in Nat \ {0} /\ n \in Nat /\ m \in Nat /\ n - m >= c
  <2>1. c \in Nat \ {0}
    BY MembersCount DEF InOrder, Members
  <2>2. n \in Nat /\ m \in Nat
    BY DEF InOrder, Memory, Calendar, ClockOf
  <2> HIDE DEF c, n, m
  <2> QED BY <2>1, <2>2 DEF c, n, m
<1>2. \A k \in m .. n : k % c # 0
  BY DEF InOrder, CatchingUp
<1> HIDE DEF c, n, m
<1>3. q \in Int /\ r \in 0 .. c - 1 /\ n = c * q + r
  BY <1>1, Division
<1> HIDE DEF q, r
<1>4. c * q \in Int
  BY <1>1, <1>3
<1> DEFINE k == c * q
<1>5. k \in Int /\ k \in m .. n
  BY <1>1, <1>3, <1>4
<1>6. k % c = 0
  <2>1. k \div c = q
    <3>1. c * q <= k /\ k < c * q + c
      BY <1>1, <1>4
    <3> HIDE DEF k
    <3> QED BY <1>1, <1>3, <1>5, <3>1, Quotient
  <2>2. k = c * (k \div c) + (k % c) /\ (k % c) \in 0 .. c - 1
    <3> HIDE DEF k
    <3> QED BY <1>1, <1>5, Division
  <2> QED BY <1>4, <2>1, <2>2
<1> HIDE DEF k
<1> QED BY <1>2, <1>5, <1>6

(* Order and turns, for every number of witnesses and whatever they voted: *)
(* the turns are fair, a change of the active witnesses reaches the order, *)
(* no slot is charged twice, and the next maintenance is ahead.            *)
THEOREM OrderKept ==
  Spec => [](Calendar /\ InOrder /\ FairTurns /\ ScheduleCatchesUp /\ SlotsAccounted)
<1>1. Init => Calendar /\ InOrder
  BY CalendarInit, InOrderInit
<1>2. (Calendar /\ InOrder) /\ [Next]_vars => (Calendar /\ InOrder)'
  BY CalendarStep, InOrderStep
<1>3. Calendar /\ InOrder => FairTurns /\ ScheduleCatchesUp /\ SlotsAccounted
  BY InTurnFair, CaughtUp DEF InOrder, Charged
<1> QED BY <1>1, <1>2, <1>3, PTL DEF Spec

-----------------------------------------------------------------------------
(* The core asset, with w left in the witness budget. *)
CoreOf(c) ==
  c \in [current_supply : Nat, accumulated_fees : Nat, pending_fees : Nat, held : Nat]

Owned(c, w) ==
  /\ c.current_supply = c.held + c.pending_fees + c.accumulated_fees + w
  /\ c.current_supply <= MaxSupply

LEMMA Product ==
  ASSUME NEW a \in Nat, NEW b \in Nat
  PROVE  a * b \in Nat
OBVIOUS

LEMMA QuotientNat ==
  ASSUME NEW a \in Nat, NEW b \in Nat \ {0}
  PROVE  a \div b \in Nat
<1>1. a \div b \in Int
  BY Division
<1>2. b * 0 = 0 /\ b * 0 <= a
  OBVIOUS
<1>3. 0 <= a \div b
  BY <1>2, Quotient
<1> QED BY <1>1, <1>3

LEMMA CutFees ==
  ASSUME NEW a \in Nat, NEW x \in 0 .. 100, NEW y \in 0 .. 100, x + y <= 100
  PROVE  /\ cut_fee(a, x) \in 0 .. a /\ cut_fee(a, y) \in Nat
         /\ cut_fee(a, x) + cut_fee(a, y) <= a
<1> DEFINE ax == a * x
           ay == a * y
           i == ax \div 100
           j == ay \div 100
<1>1. ax \in Nat /\ ay \in Nat /\ ax + ay <= a * 100
  <2>1. a * (x + y) = ax + ay /\ a * (x + y) <= a * 100
    OBVIOUS
  <2>2. ax \in Nat /\ ay \in Nat
    BY Product
  <2> QED BY <2>1, <2>2
<1>2. cut_fee(a, x) = i /\ cut_fee(a, y) = j
  BY DEF cut_fee
<1> HIDE DEF ax, ay
<1>3. i \in Nat /\ j \in Nat /\ 100 * i <= ax /\ 100 * j <= ay
  BY <1>1, Division, QuotientNat
<1> HIDE DEF i, j
<1>4. i + j <= a
  BY <1>1, <1>3
<1> QED BY <1>2, <1>3, <1>4

(* process_fees shares out all of the pending fees; what accounts of the   *)
(* chain would get leaves the supply.                                      *)
LEMMA FeesShared ==
  ASSUME NEW c, CoreOf(c), NEW w \in Nat, Owned(c, w)
  PROVE  CoreOf(process_fees(c)) /\ Owned(process_fees(c), w)
<1> DEFINE f == c.pending_fees
           network == cut_fee(f, FeePercent.network)
           lifetime == cut_fee(f, FeePercent.lifetime_referrer)
           referral == f - network - lifetime
           referrer == cut_fee(referral, FeePercent.referrer)
           Burned(r, share) == IF r \in Burners THEN share ELSE 0
           burned == Burned("lifetime_referrer", lifetime) + Burned("referrer", referrer)
                       + Burned("registrar", referral - referrer)
           r == process_fees(c)
<1>1. f \in Nat /\ c.held \in Nat /\ c.accumulated_fees \in Nat /\ c.current_supply \in Nat
  BY DEF CoreOf
<1>2. /\ FeePercent.network \in 0 .. 100 /\ FeePercent.lifetime_referrer \in 0 .. 100
      /\ FeePercent.referrer \in 0 .. 100
      /\ FeePercent.network + FeePercent.lifetime_referrer <= 100
  BY ConstantsAssumption
<1>3. r = [c EXCEPT !.pending_fees = 0, !.accumulated_fees = @ + network,
                    !.held = @ + lifetime + referral - burned, !.current_supply = @ - burned]
  BY DEF process_fees
<1> HIDE DEF f
<1>4. network \in Nat /\ lifetime \in Nat /\ network + lifetime <= f
  <2> DEFINE x == FeePercent.network
             y == FeePercent.lifetime_referrer
  <2>1. x \in 0 .. 100 /\ y \in 0 .. 100 /\ x + y <= 100
    BY <1>2
  <2>2. network = cut_fee(f, x) /\ lifetime = cut_fee(f, y)
    OBVIOUS
  <2> HIDE DEF network, lifetime, x, y
  <2>3. cut_fee(f, x) \in 0 .. f /\ cut_fee(f, y) \in Nat /\ cut_fee(f, x) + cut_fee(f, y) <= f
    BY <1>1, <2>1, CutFees
  <2> QED BY <1>1, <2>2, <2>3
<1> HIDE DEF network, lifetime
<1>5. referral \in Nat
  BY <1>1, <1>4
<1> HIDE DEF referral
<1>6. referrer \in Nat /\ referrer <= referral
  <2>1. FeePercent.referrer + 0 <= 100 /\ 0 \in 0 .. 100
    BY <1>2
  <2>2. referrer \in 0 .. referral
    BY <1>2, <1>5, <2>1, CutFees
  <2> QED BY <1>5, <2>2
<1> HIDE DEF referrer
<1>7. burned \in Nat /\ burned <= lifetime + referral
  BY <1>4, <1>5, <1>6
<1> HIDE DEF burned, r
<1>8. /\ r = [current_supply |-> r.current_supply, accumulated_fees |-> r.accumulated_fees,
              pending_fees |-> r.pending_fees, held |-> r.held]
      /\ r.current_supply = c.current_supply - burned
      /\ r.accumulated_fees = c.accumulated_fees + network
      /\ r.pending_fees = 0
      /\ r.held = c.held + lifetime + referral - burned
  BY <1>3 DEF CoreOf
<1>9. c.current_supply = c.held + f + c.accumulated_fees + w /\ c.current_supply <= MaxSupply
  BY DEF Owned, f
<1>10. MaxSupply \in Nat
  BY ConstantsAssumption
<1>11. f = network + lifetime + referral
  BY <1>1, <1>4 DEF referral
<1>12. /\ r.current_supply \in Nat /\ r.accumulated_fees \in Nat /\ r.pending_fees \in Nat
       /\ r.held \in Nat
  BY <1>1, <1>4, <1>5, <1>7, <1>8, <1>9, <1>11
<1>13. CoreOf(r)
  BY <1>8, <1>12 DEF CoreOf
<1>14. Owned(r, w)
  BY <1>1, <1>4, <1>5, <1>7, <1>8, <1>9, <1>10, <1>11 DEF Owned
<1> QED BY <1>13, <1>14 DEF r

(* What may be spent is at most what was not issued, the fees and the rest *)
(* of the witness budget, so that the supply stays below its maximum.      *)
LEMMA Spendable ==
  ASSUME NEW c, CoreOf(c), NEW d, d.witness_budget \in Nat, Owned(c, d.witness_budget),
         d.time \in Nat, d.last_budget_time \in Nat
  PROVE  /\ total_budget(c, d) \in Nat
         /\ total_budget(c, d) <= MaxSupply - c.current_supply + c.accumulated_fees
                                    + d.witness_budget
<1> DEFINE reserve == MaxSupply - c.current_supply + c.accumulated_fees + d.witness_budget
           dt == d.time - d.last_budget_time
           spent == reserve * dt * CycleRate
           rated == (spent + CycleUnit - 1) \div CycleUnit
<1>1. reserve \in Nat /\ dt \in Int
  <2>1. MaxSupply \in Nat
    BY ConstantsAssumption
  <2>2. c.current_supply \in Nat /\ c.accumulated_fees \in Nat /\ c.current_supply <= MaxSupply
    BY DEF CoreOf, Owned
  <2> QED BY <2>1, <2>2
<1>2. CycleRate \in Nat /\ CycleUnit \in Nat \ {0}
  BY ConstantsAssumption
<1>3. total_budget(c, d) = IF d.last_budget_time = 0 \/ dt <= 0 THEN 0 ELSE AtMost(rated, reserve)
  BY DEF total_budget
<1> HIDE DEF reserve, dt
<1>4. dt > 0 => rated \in Nat
  <2> SUFFICES ASSUME dt > 0 PROVE rated \in Nat
    OBVIOUS
  <2>1. reserve * dt \in Nat
    BY <1>1, Product
  <2>2. spent \in Nat
    BY <1>2, <2>1, Product
  <2> HIDE DEF spent
  <2>3. spent + CycleUnit - 1 \in Nat
    BY <1>2, <2>2
  <2> QED BY <1>2, <2>3, QuotientNat
<1> HIDE DEF rated
<1>5. total_budget(c, d) \in Nat /\ total_budget(c, d) <= reserve
  BY <1>1, <1>3, <1>4 DEF AtMost
<1> QED BY <1>5 DEF reserve

-----------------------------------------------------------------------------
(* pay_workers goes through the workers in the order of their votes; what  *)
(* it pays and what of that is refunded never exceed the budget.           *)
LEMMA RankedByVotes ==
  ASSUME NEW op, NEW S, IsFiniteSet(S), S \subseteq Nat
  PROVE  Lists(ByVotes(op, S), S)
<1> DEFINE R == Preference(op, S)
           q == ByVotes(op, S)
<1>1. Orders(R, S)
  BY PreferenceOrders
<1>2. \A w \in S : Below(S, R, w) = {v \in S : Preferred(op, v, w)}
  BY BelowPreferred
<1>3. /\ q = [i \in 1 .. Cardinality(S) |-> q[i]]
      /\ \A i \in 1 .. Cardinality(S) :
           q[i] = CHOOSE w \in S : Cardinality({v \in S : Preferred(op, v, w)}) = i - 1
  <2> DEFINE At(i) == CHOOSE w \in S : Cardinality({v \in S : Preferred(op, v, w)}) = i - 1
  <2>1. q = [i \in 1 .. Cardinality(S) |-> At(i)]
    BY DEF ByVotes, Ranked
  <2>2. \A i \in 1 .. Cardinality(S) : At(i) = CHOOSE w \in S : Cardinality({v \in S : Preferred(op, v, w)}) = i - 1
    OBVIOUS
  <2> DEFINE D == 1 .. Cardinality(S)
  <2>3. q = [i \in D |-> At(i)]
    BY <2>1
  <2> HIDE DEF At, q, D
  <2>4. \A i \in D : q[i] = At(i)
    BY <2>3
  <2>5. q = [i \in D |-> q[i]]
    BY <2>3, <2>4
  <2> QED BY <2>2, <2>4, <2>5 DEF D
<1> HIDE DEF R, q
<1>4. ASSUME NEW i \in 1 .. Cardinality(S), \E w \in S : Cardinality(Below(S, R, w)) = i - 1
      PROVE  q[i] \in S /\ Cardinality(Below(S, R, q[i])) = i - 1
  <2>1. \E w \in S : Cardinality({v \in S : Preferred(op, v, w)}) = i - 1
    BY <1>2, <1>4
  <2>2. q[i] \in S /\ Cardinality({v \in S : Preferred(op, v, q[i])}) = i - 1
    BY <1>3, <2>1
  <2> QED BY <1>2, <2>2
<1>5. Lists(q, S)
  BY <1>1, <1>3, <1>4, RankedLists
<1> QED BY <1>5 DEF q

Within(r, budget) ==
  /\ r \in [left : Nat, refunded : Nat]
  /\ r.left <= budget /\ r.refunded <= budget - r.left

LEMMA WorkersPaid ==
  ASSUME NEW op, NEW d, d.time \in Nat, d.last_budget_time \in Nat, d.last_budget_time <= d.time,
         NEW budget \in Nat
  PROVE  Within(pay_workers(op, d, budget), budget)
<1> DEFINE due(w) == (Workers[w].daily_pay * (d.time - d.last_budget_time)) \div Day
           active == {w \in DOMAIN Workers :
                        /\ Workers[w].begin <= d.time /\ d.time <= Workers[w].end
                        /\ vote_tally(op, w) > 0}
           order == ByVotes(op, active)
           n == Len(order)
           Paid(r, i) ==
             LET pay == AtMost(r.left, due(order[i]))
             IN [left |-> r.left - pay,
                 refunded |-> r.refunded + IF Workers[order[i]].kind = "refund" THEN pay ELSE 0]
           x0 == [left |-> budget, refunded |-> 0]
           Eqn(s) == s = [i \in 0 .. n |-> IF i = 0 THEN x0 ELSE Paid(s[i - 1], i)]
           c == CHOOSE s : Eqn(s)
           X == {r \in [left : Nat, refunded : Nat] : Within(r, budget)}
           step == [i \in 1 .. n |-> [r \in X |-> Paid(r, i)]]
<1>1. pay_workers(op, d, budget) = c[n]
  BY DEF pay_workers
<1>2. IsFiniteSet(active) /\ active \subseteq Nat /\ active \subseteq DOMAIN Workers
  <2>1. IsFiniteSet(DOMAIN Workers) /\ DOMAIN Workers \subseteq Nat
    BY ConstantsAssumption
  <2>2. active \in SUBSET DOMAIN Workers
    OBVIOUS
  <2> HIDE DEF active
  <2> QED BY <2>1, <2>2, FS_Subset
<1> HIDE DEF active
<1>3. Lists(order, active)
  BY <1>2, RankedByVotes
<1> HIDE DEF order
<1>4. n \in Nat /\ \A i \in 1 .. n : order[i] \in DOMAIN Workers
  <2>1. n = Cardinality(active) /\ n \in Nat
    BY <1>2, <1>3, ListsLength
  <2> QED BY <1>2, <1>3, <2>1 DEF Lists
<1>5. ASSUME NEW w \in DOMAIN Workers PROVE due(w) \in Nat
  <2>1. Workers[w].daily_pay \in Nat /\ Day \in Nat \ {0}
    BY ConstantsAssumption
  <2>2. d.time - d.last_budget_time \in Nat
    OBVIOUS
  <2>3. Workers[w].daily_pay * (d.time - d.last_budget_time) \in Nat
    BY <2>1, <2>2, Product
  <2> QED BY <2>1, <2>3, QuotientNat
<1> HIDE DEF n, due
<1>6. ASSUME NEW i \in 1 .. n, NEW r \in X PROVE Paid(r, i) \in X
  <2> DEFINE pay == AtMost(r.left, due(order[i]))
             back == IF Workers[order[i]].kind = "refund" THEN pay ELSE 0
  <2>1. r.left \in Nat /\ r.refunded \in Nat /\ r.left <= budget /\ r.refunded <= budget - r.left
    BY DEF Within
  <2>2. due(order[i]) \in Nat
    BY <1>4, <1>5
  <2>3. pay \in Nat /\ pay <= r.left
    BY <2>1, <2>2 DEF AtMost
  <2> HIDE DEF pay
  <2>4. back \in Nat /\ back <= pay
    BY <2>3
  <2> HIDE DEF back
  <2>5. Paid(r, i) = [left |-> r.left - pay, refunded |-> r.refunded + back]
    BY DEF pay, back
  <2>6. /\ r.left - pay \in Nat /\ r.refunded + back \in Nat /\ r.left - pay <= budget
        /\ r.refunded + back <= budget - (r.left - pay)
    BY <2>1, <2>3, <2>4
  <2> HIDE DEF Paid
  <2> QED BY <2>5, <2>6 DEF Within
<1>7. x0 \in X
  BY DEF Within
<1> HIDE DEF X, x0, Paid
<1>8. step \in [1 .. n -> [X -> X]]
  BY <1>6
<1>9. PICK f \in [0 .. n -> X] : f[0] = x0 /\ \A i \in 1 .. n : f[i] = step[i][f[i - 1]]
  <2> HIDE DEF step, c, Eqn
  <2>1. Iterates(n, X, x0, step)
    BY <1>4, <1>7, <1>8, Iteration
  <2> QED BY <2>1 DEF Iterates
<1>10. Eqn(f)
  <2>1. ASSUME NEW i \in 1 .. n PROVE f[i] = Paid(f[i - 1], i)
    <3>1. i - 1 \in 0 .. n /\ f[i - 1] \in X
      BY <1>4, <1>9
    <3> QED BY <1>9, <3>1
  <2> QED BY <1>4, <1>9, <2>1
<1>11. Eqn(c)
  <2> HIDE DEF Eqn
  <2> QED BY <1>10
<1> HIDE DEF c
<1>12. c[0] = x0 /\ \A i \in 1 .. n : c[i] = Paid(c[i - 1], i)
  BY <1>4, <1>11
<1>13. c[0] \in X /\ \A i \in 1 .. n : c[i - 1] \in X => c[i] \in X
  BY <1>6, <1>7, <1>12
<1>14. c[n] \in X
  <2>1. \A i \in 0 .. n : c[i] \in X
    BY <1>4, <1>13, StaysIn
  <2> QED BY <1>4, <2>1
<1> QED BY <1>1, <1>14 DEF X

Granted(g, funds) ==
  /\ {g.witness, g.workers, g.refunded} \subseteq Nat
  /\ g.witness + g.workers <= funds /\ g.refunded <= g.workers

LEMMA GrantsWithin ==
  ASSUME NEW op, NEW d, d.time \in Nat, d.last_budget_time \in Nat, d.last_budget_time <= d.time,
         d.next_maintenance_time \in Nat, d.time < d.next_maintenance_time,
         NEW p \in Parameters, NEW funds \in Nat
  PROVE  /\ Granted(Grants(op, d, p, funds), funds)
         /\ p.witness_pay_per_block * blocks_to_maint(d, p) \in Nat
<1> DEFINE asked == p.witness_pay_per_block * blocks_to_maint(d, p)
           witness == AtMost(asked, funds)
           dt == d.next_maintenance_time - d.time
           rate == p.worker_budget_per_day * dt
           worker == AtMost(rate \div Day, funds - witness)
           paid == pay_workers(op, d, worker)
           g == Grants(op, d, p, funds)
<1>1. g = [witness |-> witness, workers |-> worker - paid.left, refunded |-> paid.refunded]
  BY DEF Grants
<1>2. /\ dt \in Nat /\ p.witness_pay_per_block \in Nat /\ p.worker_budget_per_day \in Nat
      /\ Day \in Nat \ {0} /\ p.block_interval \in Nat \ {0}
  <2>1. dt \in Nat
    OBVIOUS
  <2>2. p.witness_pay_per_block \in Nat /\ p.worker_budget_per_day \in Nat
    BY MoneyAssumption
  <2>3. Day \in Nat \ {0}
    BY ConstantsAssumption
  <2>4. p.block_interval \in Nat \ {0}
    BY IntervalsTyped
  <2> QED BY <2>1, <2>2, <2>3, <2>4
<1>3. asked \in Nat
  <2> DEFINE b == p.block_interval
  <2>1. dt + b - 1 \in Nat /\ b \in Nat \ {0}
    BY <1>2
  <2>2. blocks_to_maint(d, p) = (dt + b - 1) \div b
    BY DEF blocks_to_maint
  <2> HIDE DEF b, dt
  <2>3. blocks_to_maint(d, p) \in Nat
    BY <2>1, <2>2, QuotientNat
  <2> QED BY <1>2, <2>3, Product
<1>4. rate \in Nat
  BY <1>2, Product
<1> HIDE DEF asked, dt, rate
<1>5. rate \div Day \in Nat
  BY <1>2, <1>4, QuotientNat
<1>6. witness \in Nat /\ witness <= funds
  BY <1>3 DEF AtMost
<1> HIDE DEF witness
<1>7. worker \in Nat /\ worker <= funds - witness
  BY <1>5, <1>6 DEF AtMost
<1> HIDE DEF worker
<1>8. Within(paid, worker)
  BY <1>7, WorkersPaid
<1> HIDE DEF paid, g
<1>9. paid.left \in Nat /\ paid.refunded \in Nat /\ paid.left <= worker
      /\ paid.refunded <= worker - paid.left
  BY <1>8 DEF Within
<1>10. g.witness = witness /\ g.workers = worker - paid.left /\ g.refunded = paid.refunded
  BY <1>1
<1>11. Granted(g, funds)
  BY <1>6, <1>7, <1>9, <1>10 DEF Granted
<1> QED BY <1>3, <1>11 DEF g, asked

(* process_budget takes the fees and the rest of the old witness budget    *)
(* out of the supply and issues what it grants.                            *)
LEMMA BudgetSpent ==
  ASSUME NEW c, CoreOf(c), NEW d, d.witness_budget \in Nat, Owned(c, d.witness_budget),
         NEW g, Granted(g, MaxSupply - c.current_supply + c.accumulated_fees + d.witness_budget)
  PROVE  CoreOf(process_budget(c, d, g).core) /\ Owned(process_budget(c, d, g).core, g.witness)
<1> DEFINE r == process_budget(c, d, g).core
<1>1. r = [c EXCEPT !.current_supply = @ - g.refunded + g.witness + g.workers
                                         - c.accumulated_fees - d.witness_budget,
                    !.accumulated_fees = 0, !.held = @ + g.workers - g.refunded]
  BY DEF process_budget
<1> HIDE DEF r
<1>2. /\ r = [current_supply |-> r.current_supply, accumulated_fees |-> r.accumulated_fees,
              pending_fees |-> r.pending_fees, held |-> r.held]
      /\ r.current_supply = c.current_supply - g.refunded + g.witness + g.workers
                              - c.accumulated_fees - d.witness_budget
      /\ r.accumulated_fees = 0 /\ r.pending_fees = c.pending_fees
      /\ r.held = c.held + g.workers - g.refunded
  BY <1>1 DEF CoreOf
<1>3. /\ c.current_supply \in Nat /\ c.accumulated_fees \in Nat /\ c.pending_fees \in Nat
      /\ c.held \in Nat /\ MaxSupply \in Nat
      /\ g.witness \in Nat /\ g.workers \in Nat /\ g.refunded \in Nat
  BY ConstantsAssumption DEF CoreOf, Granted
<1>4. /\ g.witness + g.workers <= MaxSupply - c.current_supply + c.accumulated_fees
                                    + d.witness_budget
      /\ g.refunded <= g.workers
  BY DEF Granted
<1>5. c.current_supply = c.held + c.pending_fees + c.accumulated_fees + d.witness_budget
  BY DEF Owned
<1>6. /\ r.current_supply \in Nat /\ r.accumulated_fees \in Nat /\ r.pending_fees \in Nat
      /\ r.held \in Nat
  BY <1>2, <1>3, <1>4, <1>5
<1>7. CoreOf(r)
  BY <1>2, <1>6 DEF CoreOf
<1>8. Owned(r, g.witness)
  BY <1>2, <1>3, <1>4, <1>5 DEF Owned
<1> QED BY <1>7, <1>8 DEF r

-----------------------------------------------------------------------------
(* Money through the steps of the chain. *)
Money ==
  /\ CoreOf(core)
  /\ record \in [requested : Nat, granted : Nat]
  /\ dgp.witness_budget \in Nat
  /\ dgp.last_budget_time \in Nat /\ dgp.last_budget_time <= dgp.time
  /\ Owned(core, dgp.witness_budget)

LEMMA MoneyInit == Init => Money
<1> SUFFICES ASSUME Init PROVE Money
  OBVIOUS
<1>1. Start.supply \in Nat /\ Start.supply <= MaxSupply
  BY MoneyAssumption, ConstantsAssumption
<1>2. core = [current_supply |-> Start.supply, accumulated_fees |-> 0, pending_fees |-> 0,
              held |-> Start.supply]
  BY DEF Init
<1>3. /\ core.current_supply = Start.supply /\ core.accumulated_fees = 0
      /\ core.pending_fees = 0 /\ core.held = Start.supply
  BY <1>2
<1>4. CoreOf(core)
  BY <1>1, <1>2 DEF CoreOf
<1>5. Owned(core, 0)
  BY <1>1, <1>3 DEF Owned
<1>6. dgp.witness_budget = 0 /\ dgp.last_budget_time = 0 /\ dgp.time = GenesisTime
  BY DEF Init
<1>7. record \in [requested : Nat, granted : Nat]
  BY DEF Init
<1> QED BY <1>4, <1>5, <1>6, <1>7, ProductionAssumption DEF Money

LEMMA QuietMoney ==
  ASSUME Money, QuietStep
  PROVE  Money'
<1>1. dgp' = dgp /\ record' = record
  BY DEF QuietStep
<1>2. CASE core' = core
  BY <1>1, <1>2 DEF Money
<1>3. ASSUME NEW f \in Fees, f <= core.held,
             core' = [core EXCEPT !.held = @ - f, !.pending_fees = @ + f]
      PROVE  Money'
  <2>1. f \in Nat
    BY MoneyAssumption
  <2>2. CoreOf(core) /\ Owned(core, dgp.witness_budget) /\ dgp.witness_budget \in Nat
    BY DEF Money
  <2>3. /\ core.current_supply \in Nat /\ core.held \in Nat /\ core.pending_fees \in Nat
        /\ core.accumulated_fees \in Nat
    BY <2>2 DEF CoreOf
  <2>4. core' = [current_supply |-> core.current_supply, accumulated_fees |-> core.accumulated_fees,
                 pending_fees |-> core.pending_fees + f, held |-> core.held - f]
    BY <1>3, <2>2 DEF CoreOf
  <2>5. core.held - f \in Nat /\ core.pending_fees + f \in Nat
    BY <1>3, <2>1, <2>3
  <2>6. CoreOf(core')
    BY <2>3, <2>4, <2>5 DEF CoreOf
  <2>7. /\ core'.current_supply = core.current_supply
        /\ core'.accumulated_fees = core.accumulated_fees
        /\ core'.pending_fees = core.pending_fees + f /\ core'.held = core.held - f
    BY <2>4
  <2>8. Owned(core', dgp.witness_budget)
    BY <2>1, <2>2, <2>3, <2>7 DEF Owned
  <2> QED BY <1>1, <2>6, <2>8 DEF Money
<1> QED BY <1>2, <1>3 DEF QuietStep

(* The signer is paid from the witness budget, as far as that lasts. *)
LEMMA SignerPaid ==
  ASSUME Calendar, Money, NEW t \in Nat, dgp.time < t,
         get_slot_at_time(dgp, gpo.parameters, t) > 0
  PROVE  LET s == AfterBlock(t)
         IN /\ StageOf(s) /\ s.gpo = gpo /\ s.record = record
            /\ ClockOf(s.dgp) /\ s.dgp.num = dgp.num + 1 /\ s.dgp.time = t
            /\ s.dgp.next_maintenance_time = dgp.next_maintenance_time
            /\ s.dgp.last_budget_time = dgp.last_budget_time
            /\ s.dgp.witness_budget \in Nat
            /\ s.dgp.witness_budget = dgp.witness_budget
                 - AtMost(gpo.parameters.witness_pay_per_block, dgp.witness_budget)
            /\ CoreOf(s.core) /\ Owned(s.core, s.dgp.witness_budget)
<1> DEFINE s == AfterBlock(t)
           d == update_global_dynamic_data(dgp, gpo.parameters, t)
           pay == AtMost(gpo.parameters.witness_pay_per_block, dgp.witness_budget)
           missed == MissedSlots(dgp, gpo.parameters, t)
           bits == Shifted(dgp.recent_slots_filled, <<1>> \o [i \in 1 .. missed |-> 0])
<1>1. ClockOf(dgp) /\ gpo.parameters \in Parameters /\ dgp.current_aslot \in Nat /\ dgp.num \in Nat
  BY DEF Calendar, RulesOf, ClockOf
<1>2. /\ StageOf(s) /\ s.gpo = gpo /\ s.record = record
      /\ s.dgp = [d EXCEPT !.witness_budget = @ - pay]
      /\ s.core = [core EXCEPT !.held = @ + pay]
  BY <1>1, AfterBlockIs
<1>3. d = [dgp EXCEPT !.num = @ + 1, !.time = t, !.recent_slots_filled = bits,
                      !.current_aslot = @ + missed + 1]
  BY DEF update_global_dynamic_data
<1>4. missed \in Nat
  BY <1>1, SlotAtTime DEF MissedSlots
<1>5. pay \in Nat /\ pay <= dgp.witness_budget /\ dgp.witness_budget \in Nat
  <2>1. gpo.parameters.witness_pay_per_block \in Nat /\ dgp.witness_budget \in Nat
    BY <1>1, MoneyAssumption DEF Money
  <2> QED BY <2>1 DEF AtMost
<1> HIDE DEF s, d, pay, missed, bits
<1>6. /\ d = [num |-> dgp.num + 1, time |-> t, current_aslot |-> dgp.current_aslot + missed + 1,
              maintenance_flag |-> dgp.maintenance_flag, recent_slots_filled |-> bits,
              next_maintenance_time |-> dgp.next_maintenance_time,
              last_budget_time |-> dgp.last_budget_time, witness_budget |-> dgp.witness_budget]
  BY <1>1, <1>3 DEF ClockOf
<1>7. s.dgp = [num |-> dgp.num + 1, time |-> t, current_aslot |-> dgp.current_aslot + missed + 1,
               maintenance_flag |-> dgp.maintenance_flag, recent_slots_filled |-> bits,
               next_maintenance_time |-> dgp.next_maintenance_time,
               last_budget_time |-> dgp.last_budget_time,
               witness_budget |-> dgp.witness_budget - pay]
  BY <1>2, <1>6
<1>8. ClockOf(s.dgp)
  <2>1. dgp.num + 1 \in Nat /\ dgp.current_aslot + missed + 1 \in Nat
        /\ dgp.maintenance_flag \in BOOLEAN /\ dgp.next_maintenance_time \in Nat
    BY <1>1, <1>4 DEF ClockOf
  <2> QED BY <1>7, <2>1 DEF ClockOf
<1>9. s.dgp.witness_budget = dgp.witness_budget - pay
  BY <1>7
<1>10. CoreOf(core) /\ Owned(core, dgp.witness_budget)
  BY DEF Money
<1>11. /\ core.current_supply \in Nat /\ core.held \in Nat /\ core.pending_fees \in Nat
       /\ core.accumulated_fees \in Nat
  BY <1>10 DEF CoreOf
<1>12. s.core = [current_supply |-> core.current_supply,
                 accumulated_fees |-> core.accumulated_fees,
                 pending_fees |-> core.pending_fees, held |-> core.held + pay]
  BY <1>2, <1>10 DEF CoreOf
<1>13. CoreOf(s.core)
  BY <1>5, <1>11, <1>12 DEF CoreOf
<1>14. /\ s.core.current_supply = core.current_supply
       /\ s.core.accumulated_fees = core.accumulated_fees
       /\ s.core.pending_fees = core.pending_fees /\ s.core.held = core.held + pay
  BY <1>12
<1>15. Owned(s.core, s.dgp.witness_budget)
  BY <1>5, <1>9, <1>10, <1>11, <1>14 DEF Owned
<1>16. s.dgp.witness_budget \in Nat
  BY <1>5, <1>9
<1> QED BY <1>2, <1>7, <1>8, <1>9, <1>13, <1>15, <1>16 DEF s, pay

(* What a block leaves of the witness budget: a new one, as recorded, or   *)
(* the rest of the old one.                                                *)
PayOf(t) ==
  IF dgp.next_maintenance_time <= t
    THEN /\ record'.granted = dgp'.witness_budget
         /\ record'.requested = gpo'.parameters.witness_pay_per_block
                                  * blocks_to_maint(dgp', gpo'.parameters)
    ELSE /\ record' = record /\ dgp'.last_budget_time = dgp.last_budget_time
         /\ dgp'.witness_budget = dgp.witness_budget
              - AtMost(gpo.parameters.witness_pay_per_block, dgp.witness_budget)

LEMMA BlockMoney ==
  ASSUME Calendar, Money, NEW t \in 0 .. MaxTime + 1, NEW w,
         validate_block_header(dgp, gpo.parameters, shuffled, t, w), ApplyBlock(t, w)
  PROVE  Money' /\ PayOf(t)
<1> DEFINE s == AfterBlock(t)
           maint == dgp.next_maintenance_time <= t
<1>1. /\ t \in Nat /\ dgp.time < t /\ get_slot_at_time(dgp, gpo.parameters, t) > 0
      /\ ClockOf(dgp) /\ RulesOf(gpo) /\ dgp.num \in Nat /\ dgp.time \in Nat
      /\ dgp.next_maintenance_time \in Nat
  BY BlockCalendar, ProductionAssumption DEF Calendar, ClockOf, validate_block_header
<1>2. /\ StageOf(s) /\ s.gpo = gpo /\ s.record = record
      /\ ClockOf(s.dgp) /\ s.dgp.num = dgp.num + 1 /\ s.dgp.time = t
      /\ s.dgp.next_maintenance_time = dgp.next_maintenance_time
      /\ s.dgp.last_budget_time = dgp.last_budget_time
      /\ s.dgp.witness_budget \in Nat
      /\ s.dgp.witness_budget = dgp.witness_budget
           - AtMost(gpo.parameters.witness_pay_per_block, dgp.witness_budget)
      /\ CoreOf(s.core) /\ Owned(s.core, s.dgp.witness_budget)
  BY <1>1, SignerPaid
<1>3. dgp.last_budget_time \in Nat /\ dgp.last_budget_time <= t
      /\ record \in [requested : Nat, granted : Nat]
  BY <1>1 DEF Money
<1> HIDE DEF s
<1>4. CASE ~maint
  <2>1. CommitBlock(s, FALSE, t, w)
    BY <1>4 DEF ApplyBlock, s
  <2>2. dgp' = [s.dgp EXCEPT !.maintenance_flag = FALSE] /\ core' = s.core /\ record' = s.record
    BY <2>1 DEF CommitBlock, Commit
  <2>3. dgp'.witness_budget = s.dgp.witness_budget /\ dgp'.last_budget_time = s.dgp.last_budget_time
        /\ dgp'.time = t
    BY <1>2, <2>2 DEF ClockOf
  <2>4. Money'
    BY <1>2, <1>3, <2>2, <2>3 DEF Money
  <2> QED BY <1>2, <1>4, <2>2, <2>3, <2>4 DEF PayOf
<1>5. CASE maint
  <2> DEFINE r == perform_chain_maintenance(s)
             p == ParametersFrom(s.gpo)
             d == [s.dgp EXCEPT !.next_maintenance_time =
                     next_maintenance_time(@, p, s.dgp.num, s.dgp.time)]
             c == process_fees(s.core)
             funds == total_budget(c, d)
             g == Grants(opinion, d, p, funds)
             b == process_budget(c, d, g)
  <2>1. CommitBlock(r, TRUE, t, w)
    BY <1>5 DEF ApplyBlock, s
  <2>2. /\ r.dgp = b.dgp /\ r.core = b.core
        /\ r.record = [requested |-> p.witness_pay_per_block * blocks_to_maint(d, p),
                       granted |-> g.witness]
        /\ r.gpo.parameters = p
    <3>1. RulesOf(s.gpo)
      BY <1>1, <1>2
    <3> HIDE DEF r
    <3>2. /\ r.dgp = b.dgp /\ r.core = b.core
          /\ r.record = [requested |-> p.witness_pay_per_block * blocks_to_maint(d, p),
                         granted |-> g.witness]
      BY <1>2, <3>1, MaintenanceIs DEF r
    <3>3. r.gpo = [parameters |-> p, pending |-> none,
                   active |-> update_active_witnesses(opinion, s.gpo.parameters),
                   committee |-> update_active_committee_members(opinion, s.gpo.parameters)]
      BY <1>2, <3>1, MaintenanceIs DEF r
    <3>4. r.gpo.parameters = p
      <4> HIDE DEF p
      <4> QED BY <3>3
    <3> QED BY <3>2, <3>4
  <2>3. p \in Parameters
    BY <1>1, <1>2 DEF ParametersFrom, RulesOf
  <2> HIDE DEF r, p
  <2>4. /\ d.time = t /\ d.witness_budget = s.dgp.witness_budget
        /\ d.last_budget_time = dgp.last_budget_time
        /\ d.next_maintenance_time =
             next_maintenance_time(dgp.next_maintenance_time, p, dgp.num + 1, t)
        /\ ClockOf(s.dgp) /\ d = [num |-> dgp.num + 1, time |-> t,
                                   current_aslot |-> s.dgp.current_aslot,
                                   maintenance_flag |-> s.dgp.maintenance_flag,
                                   recent_slots_filled |-> s.dgp.recent_slots_filled,
                                   next_maintenance_time |-> d.next_maintenance_time,
                                   last_budget_time |-> d.last_budget_time,
                                   witness_budget |-> d.witness_budget]
    <3> DEFINE next == next_maintenance_time(dgp.next_maintenance_time, p, dgp.num + 1, t)
    <3>1. d = [s.dgp EXCEPT !.next_maintenance_time = next]
      BY <1>2
    <3> HIDE DEF d, next
    <3>2. /\ d.time = t /\ d.witness_budget = s.dgp.witness_budget
          /\ d.last_budget_time = dgp.last_budget_time /\ d.next_maintenance_time = next
          /\ d = [num |-> dgp.num + 1, time |-> t, current_aslot |-> s.dgp.current_aslot,
                  maintenance_flag |-> s.dgp.maintenance_flag,
                  recent_slots_filled |-> s.dgp.recent_slots_filled,
                  next_maintenance_time |-> d.next_maintenance_time,
                  last_budget_time |-> d.last_budget_time,
                  witness_budget |-> d.witness_budget]
      BY <1>2, <3>1 DEF ClockOf
    <3> QED BY <1>2, <3>2 DEF next
  <2>5. d.next_maintenance_time \in Nat /\ t < d.next_maintenance_time
    <3>1. dgp.num + 1 \in Nat /\ (dgp.num + 1 # 1 => dgp.next_maintenance_time <= t)
      BY <1>1, <1>5
    <3> HIDE DEF d
    <3> QED BY <1>1, <2>3, <2>4, <3>1, NextMaintenance
  <2> HIDE DEF d
  <2>6. CoreOf(c) /\ Owned(c, d.witness_budget) /\ d.witness_budget \in Nat
    BY <1>2, <2>4, FeesShared
  <2> HIDE DEF c
  <2>7. /\ funds \in Nat
        /\ funds <= MaxSupply - c.current_supply + c.accumulated_fees + d.witness_budget
    BY <1>1, <1>3, <2>4, <2>6, Spendable
  <2> HIDE DEF funds
  <2>8. Granted(g, funds) /\ p.witness_pay_per_block * blocks_to_maint(d, p) \in Nat
    BY <1>1, <1>3, <2>3, <2>4, <2>5, <2>7, GrantsWithin
  <2> HIDE DEF g
  <2>9. Granted(g, MaxSupply - c.current_supply + c.accumulated_fees + d.witness_budget)
    <3>1. c.current_supply \in Nat /\ c.accumulated_fees \in Nat /\ MaxSupply \in Nat
      BY <2>6, ConstantsAssumption DEF CoreOf
    <3> QED BY <2>6, <2>7, <2>8, <3>1 DEF Granted
  <2>10. CoreOf(b.core) /\ Owned(b.core, g.witness)
    BY <2>6, <2>9, BudgetSpent
  <2>11. b.dgp = [d EXCEPT !.witness_budget = g.witness, !.last_budget_time = d.time]
    BY DEF process_budget
  <2> HIDE DEF b
  <2>12. dgp' = [b.dgp EXCEPT !.maintenance_flag = TRUE] /\ core' = b.core /\ record' = r.record
         /\ gpo' = r.gpo
    BY <2>1, <2>2 DEF CommitBlock, Commit
  <2>13. dgp'.witness_budget = g.witness /\ dgp'.last_budget_time = t /\ dgp'.time = t
         /\ dgp'.next_maintenance_time = d.next_maintenance_time
    <3> DEFINE d1 == [d EXCEPT !.witness_budget = g.witness]
               d2 == [d1 EXCEPT !.last_budget_time = t]
    <3>1. b.dgp = d2
      BY <2>4, <2>11
    <3>2. d1 = [num |-> dgp.num + 1, time |-> t, current_aslot |-> s.dgp.current_aslot,
                maintenance_flag |-> s.dgp.maintenance_flag,
                recent_slots_filled |-> s.dgp.recent_slots_filled,
                next_maintenance_time |-> d.next_maintenance_time,
                last_budget_time |-> d.last_budget_time,
                witness_budget |-> g.witness]
      BY <2>4
    <3> HIDE DEF d1
    <3>3. d2.witness_budget = g.witness /\ d2.last_budget_time = t /\ d2.time = t
      BY <3>2
    <3>4. dgp' = [d2 EXCEPT !.maintenance_flag = TRUE]
      BY <2>12, <3>1
    <3> HIDE DEF d2
    <3>5. d2 = [num |-> dgp.num + 1, time |-> t, current_aslot |-> s.dgp.current_aslot,
                maintenance_flag |-> s.dgp.maintenance_flag,
                recent_slots_filled |-> s.dgp.recent_slots_filled,
                next_maintenance_time |-> d.next_maintenance_time,
                last_budget_time |-> t, witness_budget |-> g.witness]
      BY <3>2 DEF d2
    <3> QED BY <3>4, <3>5
  <2>14. record' \in [requested : Nat, granted : Nat] /\ g.witness \in Nat
    <3>1. g.witness \in Nat
      BY <2>8 DEF Granted
    <3> QED BY <2>2, <2>8, <2>12, <3>1
  <2>15. Money'
    BY <1>1, <2>10, <2>12, <2>13, <2>14 DEF Money
  <2>16. blocks_to_maint(dgp', gpo'.parameters) = blocks_to_maint(d, p)
    BY <2>2, <2>4, <2>12, <2>13 DEF blocks_to_maint
  <2>17. PayOf(t)
    BY <1>5, <2>2, <2>12, <2>13, <2>16 DEF PayOf
  <2> QED BY <2>15, <2>17
<1> QED BY <1>4, <1>5

LEMMA MoneyStep ==
  ASSUME Calendar, Money, [Next]_vars
  PROVE  Money'
<1>1. CASE BlockStep
  BY <1>1, BlockMoney DEF BlockStep
<1>2. CASE QuietStep
  BY <1>2, QuietMoney
<1> QED BY <1>1, <1>2, Steps

(* Every unit of the core asset is held by someone, waits in a fee or is   *)
(* left in the witness budget, and no more than max_supply exists, for any *)
(* fees, shares, parameters, votes and workers; no amount is ever          *)
(* negative.                                                               *)
THEOREM CoreConservedHolds == Spec => [](Money /\ CoreConserved)
<1>1. Init => Calendar /\ Money
  BY CalendarInit, MoneyInit
<1>2. (Calendar /\ Money) /\ [Next]_vars => (Calendar /\ Money)'
  BY CalendarStep, MoneyStep
<1>3. Money => CoreConserved
  BY DEF Money, Owned, CoreConserved
<1> QED BY <1>1, <1>2, <1>3, PTL DEF Spec

-----------------------------------------------------------------------------
(* The rest of the state: the bits of the latest slots, the opinions of    *)
(* the accounts and the plugin's switch.                                   *)
Rest ==
  /\ dgp.recent_slots_filled \in [1 .. FilledSlots -> {0, 1}]
  /\ DOMAIN opinion = Accounts
  /\ \A a \in Accounts : opinion[a] \in Opinions[a] \cup {Start.opinion}
  /\ production_enabled \in BOOLEAN

(* Shifting keeps as many bits as there are, whatever was missed. *)
LEMMA ShiftedTyped ==
  ASSUME NEW bits \in [1 .. FilledSlots -> {0, 1}], NEW m \in Nat
  PROVE  Shifted(bits, <<1>> \o [i \in 1 .. m |-> 0]) \in [1 .. FilledSlots -> {0, 1}]
<1> DEFINE n == FilledSlots
           zeros == [i \in 1 .. m |-> 0]
           more == <<1>> \o zeros
           all == bits \o more
           r == SubSeq(all, Len(all) - n + 1, Len(all))
<1>1. n \in Nat \ {0}
  BY ConstantsAssumption
<1>2. bits \in Seq({0, 1}) /\ Len(bits) = n
  BY <1>1
<1>3. zeros \in Seq({0, 1}) /\ Len(zeros) = m
  OBVIOUS
<1> HIDE DEF zeros
<1>4. <<1>> \in Seq({0, 1}) /\ Len(<<1>>) = 1
  OBVIOUS
<1>5. more \in Seq({0, 1}) /\ Len(more) = m + 1
  BY <1>3, <1>4, ConcatProperties
<1> HIDE DEF more, n
<1>6. all \in Seq({0, 1}) /\ Len(all) = n + (m + 1)
  <2>1. bits \o more \in Seq({0, 1}) /\ Len(bits \o more) = Len(bits) + Len(more)
    BY <1>2, <1>5, ConcatProperties
  <2> QED BY <1>2, <1>5, <2>1
<1> HIDE DEF all
<1>7. Len(all) - n + 1 \in 1 .. Len(all) + 1 /\ Len(all) \in 0 .. Len(all) /\ Len(all) \in Nat
  BY <1>1, <1>6
<1>8. ASSUME NEW i \in 1 .. n PROVE all[Len(all) - n + i] \in {0, 1}
  <2>1. Len(all) - n + i \in 1 .. Len(all)
    BY <1>1, <1>6
  <2> QED BY <1>6, <2>1, ElementOfSeq
<1>9. r = [i \in 1 .. n |-> all[i + (Len(all) - n + 1) - 1]]
  BY <1>1, <1>6, <1>7
<1>10. ASSUME NEW i \in 1 .. n PROVE i + (Len(all) - n + 1) - 1 = Len(all) - n + i
  BY <1>1, <1>6
<1>11. r \in [1 .. n -> {0, 1}]
  BY <1>8, <1>9, <1>10
<1> QED BY <1>11 DEF Shifted, n, all, more, zeros

LEMMA RestInit == Init => Rest
BY DEF Init, Rest

LEMMA RestStep ==
  ASSUME Calendar, Rest, [Next]_vars
  PROVE  Rest'
<1>1. production_enabled' \in BOOLEAN
  <2>1. ASSUME NEW now, maybe_produce_block(now) PROVE production_enabled' \in BOOLEAN
    BY <2>1 DEF maybe_produce_block, Synced
  <2>2. production_enabled \in BOOLEAN
    BY DEF Rest
  <2>3. CASE UNCHANGED vars
    BY <2>2, <2>3 DEF vars
  <2>4. ASSUME NEW t, NEW w, push_block(t, w) PROVE production_enabled' = production_enabled
    BY <2>4 DEF push_block
  <2>5. ASSUME NEW a, NEW o, account_update(a, o) PROVE production_enabled' = production_enabled
    BY <2>5 DEF account_update
  <2>6. ASSUME NEW p, committee_member_update_global_parameters(p)
        PROVE  production_enabled' = production_enabled
    BY <2>6 DEF committee_member_update_global_parameters
  <2>7. ASSUME NEW f, pay_fee(f) PROVE production_enabled' = production_enabled
    BY <2>7 DEF pay_fee
  <2>8. Tick => production_enabled' = production_enabled
    BY DEF Tick
  <2> QED BY <2>1, <2>2, <2>3, <2>4, <2>5, <2>6, <2>7, <2>8 DEF Next
<1>2. CASE BlockStep
  <2>1. PICK t \in 0 .. MaxTime + 1 : \E w :
          validate_block_header(dgp, gpo.parameters, shuffled, t, w) /\ ApplyBlock(t, w)
    BY <1>2 DEF BlockStep
  <2>2. PICK w : validate_block_header(dgp, gpo.parameters, shuffled, t, w) /\ ApplyBlock(t, w)
    BY <2>1
  <2>3. /\ t \in Nat /\ get_slot_at_time(dgp, gpo.parameters, t) \in Nat \ {0}
        /\ ClockOf(dgp) /\ RulesOf(gpo)
    BY <2>2, BlockCalendar, ProductionAssumption DEF Calendar
  <2>4. BlockEffect(t, w)
    <3>1. get_slot_at_time(dgp, gpo.parameters, t) > 0
      BY <2>3
    <3> QED BY <2>2, <2>3, <3>1, BlockIs
  <2> DEFINE m == MissedSlots(dgp, gpo.parameters, t)
  <2>5. m \in Nat
    BY <2>3 DEF MissedSlots
  <2>6. /\ dgp'.recent_slots_filled =
             Shifted(dgp.recent_slots_filled, <<1>> \o [i \in 1 .. m |-> 0])
        /\ opinion' = opinion
    BY <2>4 DEF BlockEffect
  <2> HIDE DEF m
  <2>7. dgp'.recent_slots_filled \in [1 .. FilledSlots -> {0, 1}]
    BY <2>5, <2>6, ShiftedTyped DEF Rest
  <2> QED BY <1>1, <2>6, <2>7 DEF Rest
<1>3. CASE QuietStep
  <2>1. dgp' = dgp
    BY <1>3 DEF QuietStep
  <2>2. /\ DOMAIN opinion' = Accounts
        /\ \A a \in Accounts : opinion'[a] \in Opinions[a] \cup {Start.opinion}
    <3>1. CASE opinion' = opinion
      BY <3>1 DEF Rest
    <3>2. ASSUME NEW a \in Accounts, NEW o \in Opinions[a], opinion' = [opinion EXCEPT ![a] = o]
          PROVE  /\ DOMAIN opinion' = Accounts
                 /\ \A b \in Accounts : opinion'[b] \in Opinions[b] \cup {Start.opinion}
      BY <3>2 DEF Rest
    <3> QED BY <1>3, <3>1, <3>2 DEF QuietStep
  <2> QED BY <1>1, <2>1, <2>2 DEF Rest
<1> QED BY <1>2, <1>3, Steps

LEMMA ChainTyped == Calendar /\ InOrder /\ Money /\ Rest => TypeOK
<1> SUFFICES ASSUME Calendar, InOrder, Money, Rest PROVE TypeOK
  OBVIOUS
<1>1. dgp \in [num : Nat, time : Nat, current_aslot : Nat, maintenance_flag : BOOLEAN,
               recent_slots_filled : [1 .. FilledSlots -> {0, 1}],
               next_maintenance_time : Nat, last_budget_time : Nat, witness_budget : Nat]
  <2>1. ClockOf(dgp) /\ dgp.recent_slots_filled \in [1 .. FilledSlots -> {0, 1}]
        /\ dgp.last_budget_time \in Nat /\ dgp.witness_budget \in Nat
    BY DEF Calendar, Money, Rest
  <2> HIDE DEF Calendar
  <2> QED BY <2>1 DEF ClockOf
<1>2. gpo.parameters \in Parameters /\ gpo.pending \in Parameters \cup {none}
  BY DEF Calendar, RulesOf
<1>3. gpo.active \subseteq Witnesses /\ gpo.active # {} /\ gpo.committee \subseteq CommitteeMembers
  BY DEF InOrder, Members
<1>4. total_missed \in [Witnesses -> Nat]
  BY DEF InOrder, Charged
<1>5. IsInjective(shuffled) /\ Range(shuffled) \subseteq Witnesses
  <2>1. PICK S \in SUBSET Witnesses : S # {} /\ Lists(shuffled, S)
    BY DEF InOrder, InTurn
  <2> QED BY <2>1, MembersCount, ListsLength
<1>6. clock \in Nat
  BY ProductionAssumption DEF Calendar
<1>7. /\ core \in [current_supply : Nat, accumulated_fees : Nat, pending_fees : Nat, held : Nat]
      /\ record \in [requested : Nat, granted : Nat]
  BY DEF Money, CoreOf
<1> QED BY <1>1, <1>2, <1>3, <1>4, <1>5, <1>6, <1>7 DEF TypeOK, Rest

(* What the production run checks of the schedule on five witnesses holds  *)
(* for any number of them and any parameters: fair turns, elections that   *)
(* reach the order, slots accounted for, a next maintenance ahead, and a   *)
(* well-formed state.                                                      *)
THEOREM ScheduleKeptHolds == Spec => []ScheduleKept
<1> DEFINE Inv == Calendar /\ InOrder /\ Money /\ Rest
<1>1. Init => Inv
  BY CalendarInit, InOrderInit, MoneyInit, RestInit
<1>2. Inv /\ [Next]_vars => Inv'
  BY CalendarStep, InOrderStep, MoneyStep, RestStep
<1>3. Inv => ScheduleKept
  <2>1. Inv => SlotsAccounted /\ MaintenanceAhead
    BY DEF InOrder, Charged, Calendar
  <2> QED BY <2>1, ChainTyped, InTurnFair, CaughtUp DEF ScheduleKept
<1> QED BY <1>1, <1>2, <1>3, PTL DEF Spec

-----------------------------------------------------------------------------
(* Stakes. *)
LEMMA StakeAdds ==
  ASSUME NEW A, NEW B, NEW C, \A a \in Accounts : (a \in C <=> a \in A \/ a \in B),
         \A a \in Accounts : ~(a \in A /\ a \in B)
  PROVE  StakeOf(C) = StakeOf(A) + StakeOf(B)
<1> DEFINE n == Cardinality(Accounts)
           Of(S) == [a \in Accounts |-> IF a \in S THEN Stake[a] ELSE 0]
<1>1. n \in Nat /\ Accounts = 1 .. n /\ Stake \in [Accounts -> Nat]
  BY AccountsTyped
<1>2. ASSUME NEW S PROVE IntOn(Of(S), n)
  BY <1>1 DEF IntOn
<1>3. \A a \in 1 .. n : Of(C)[a] = Of(A)[a] + Of(B)[a]
  <2> SUFFICES ASSUME NEW a \in 1 .. n PROVE Of(C)[a] = Of(A)[a] + Of(B)[a]
    OBVIOUS
  <2>1. a \in Accounts /\ Stake[a] \in Nat
    BY <1>1
  <2> QED BY <2>1
<1>4. StakeOf(C) = Sum(Of(C), n) /\ StakeOf(A) = Sum(Of(A), n) /\ StakeOf(B) = Sum(Of(B), n)
  BY DEF StakeOf
<1> HIDE DEF Of, n
<1> QED BY <1>1, <1>2, <1>3, <1>4, SumAdd

LEMMA OwnDouble == \A x \in Nat : x = x + x => x = 0
OBVIOUS

LEMMA StakeOfNone ==
  ASSUME NEW A, \A a \in Accounts : a \notin A
  PROVE  StakeOf(A) = 0
<1>1. StakeOf(A) = StakeOf(A) + StakeOf(A)
  BY StakeAdds
<1>2. StakeOf(A) \in Nat
  BY StakeTyped
<1> QED BY <1>1, <1>2, OwnDouble, Zenon

LEMMA StakeSame ==
  ASSUME NEW A, NEW B, \A a \in Accounts : (a \in A <=> a \in B)
  PROVE  StakeOf(A) = StakeOf(B)
<1>1. StakeOf({}) = 0
  BY StakeOfNone
<1>2. StakeOf(A) = StakeOf(B) + StakeOf({})
  BY StakeAdds
<1> QED BY <1>1, <1>2, StakeTyped

(* The loop over the histogram finds a median of the wishes: n[a] is the   *)
(* number account a asks for, W[a] the class that number counts in.        *)
MedianOf(k, voters, W) ==
  /\ 2 * StakeOf({a \in voters : W[a] < k}) <= StakeOf(voters)
  /\ 2 * StakeOf({a \in voters : W[a] > k}) <= StakeOf(voters)

LEMMA Half ==
  ASSUME NEW x \in Int
  PROVE  x \div 2 \in Int /\ 2 * (x \div 2) <= x /\ x < 2 * (x \div 2) + 2
BY Division

Counted(n, max, W, voters, hist0, upto, k, target) ==
  /\ n \in [Accounts -> Nat] /\ max \in Nat /\ k \in 0 .. max \div 2
  /\ \A a \in Accounts : W[a] = AtMost(n[a], max) \div 2
  /\ voters = {a \in Accounts : W[a] > 0}
  /\ hist0 = StakeOf({a \in Accounts : n[a] <= max /\ n[a] \div 2 = 0})
  /\ \A j \in 0 .. max \div 2 :
       upto[j] = StakeOf({a \in Accounts : n[a] <= max /\ n[a] \div 2 \in 1 .. j})
  /\ target = (StakeOf(Accounts) - hist0) \div 2
  /\ target <= 0 => k = 0
  /\ target > 0 => /\ k = max \div 2 \/ upto[k] > target
                   /\ \A j \in 0 .. k - 1 : upto[j] <= target

LEMMA Medians ==
  ASSUME NEW n, NEW max, NEW W, NEW voters, NEW hist0, NEW upto, NEW k, NEW target,
         Counted(n, max, W, voters, hist0, upto, k, target)
  PROVE  MedianOf(k, voters, W) \/ (k = 0 /\ StakeOf(voters) <= 1)
<1> USE DEF Counted
<1> DEFINE half == max \div 2
           V == StakeOf(voters)
           Low(j) == {a \in Accounts : n[a] <= max /\ n[a] \div 2 \in 1 .. j}
           Zero == {a \in Accounts : n[a] <= max /\ n[a] \div 2 = 0}
<1>1. half \in Nat /\ 2 * half <= max /\ max < 2 * half + 2
  <2>1. half \in Int /\ 2 * half <= max /\ max < 2 * half + 2
    BY Division
  <2> QED BY <2>1
<1> HIDE DEF half
<1>2. ASSUME NEW a \in Accounts
      PROVE  /\ n[a] \in Nat /\ n[a] \div 2 \in Nat /\ W[a] \in Nat
             /\ n[a] <= max => W[a] = n[a] \div 2 /\ W[a] <= half
             /\ n[a] > max => W[a] = half
  <2> DEFINE x == n[a]
             h == x \div 2
  <2>1. x \in Nat
    OBVIOUS
  <2>2. W[a] = AtMost(x, max) \div 2
    OBVIOUS
  <2> HIDE DEF x
  <2>3. h \in Int /\ 2 * h <= x /\ x < 2 * h + 2
    BY <2>1, Half
  <2>4. W[a] = IF x < max THEN h ELSE half
    BY <2>2 DEF AtMost, half
  <2>5. x = max => h = half
    BY DEF half
  <2> HIDE DEF h
  <2>6. x <= max => h <= half
    BY <1>1, <2>1, <2>3
  <2>7. h \in Nat
    BY <2>1, <2>3
  <2>8. /\ x \in Nat /\ h \in Nat /\ W[a] \in Nat
        /\ x <= max => W[a] = h /\ W[a] <= half
        /\ x > max => W[a] = half
    BY <1>1, <2>1, <2>4, <2>5, <2>6, <2>7
  <2> QED BY <2>8 DEF x, h
<1>3. V \in Nat
  BY StakeTyped
<1>4. CASE half = 0
  <2>1. \A a \in Accounts : a \notin voters
    BY <1>1, <1>2, <1>4
  <2>2. V = 0
    BY <2>1, StakeOfNone
  <2>3. k = 0
    BY <1>4 DEF half
  <2> QED BY <2>2, <2>3
<1>5. CASE half # 0
  <2>1. StakeOf(Accounts) - hist0 = V
    <3>1. \A a \in Accounts : a \in voters <=> a \notin Zero
      BY <1>1, <1>2, <1>5
    <3>2. StakeOf(Accounts) = V + StakeOf(Zero)
      BY <3>1, StakeAdds
    <3>3. StakeOf(Zero) \in Nat /\ hist0 = StakeOf(Zero)
      BY StakeTyped
    <3> QED BY <1>3, <3>2, <3>3
  <2>2. target \in Int /\ 2 * target <= V /\ V < 2 * target + 2
    <3>1. target = V \div 2
      BY <2>1
    <3> HIDE DEF V
    <3> QED BY <1>3, <3>1, Division
  <2>3. CASE target <= 0
    BY <1>3, <2>2, <2>3
  <2>4. CASE target > 0
    <3>1. k \in Nat /\ k <= half
      BY <1>1 DEF half
    <3>2. ASSUME NEW j \in 0 .. half PROVE upto[j] = StakeOf(Low(j)) /\ upto[j] \in Nat
      BY <3>2, StakeTyped DEF half
    <3>3. 2 * StakeOf({a \in voters : W[a] < k}) <= V
      <4> DEFINE A == {a \in voters : W[a] < k}
      <4>1. CASE k = 0
        <5>1. \A a \in Accounts : a \notin A
          BY <1>2, <4>1
        <5>2. StakeOf(A) = 0
          BY <5>1, StakeOfNone
        <5> QED BY <1>3, <5>2
      <4>2. CASE k # 0
        <5>1. k - 1 \in 0 .. k - 1 /\ k - 1 \in 0 .. half
          BY <1>1, <3>1, <4>2
        <5>2. \A a \in Accounts : a \in A <=> a \in Low(k - 1)
          BY <1>1, <1>2, <3>1, <4>2
        <5>3. StakeOf(A) = StakeOf(Low(k - 1))
          <6> HIDE DEF A, Low
          <6> QED BY <5>2, StakeSame
        <5>4. upto[k - 1] = StakeOf(A) /\ upto[k - 1] \in Nat
          BY <3>2, <5>1, <5>3
        <5>5. upto[k - 1] <= target
          BY <2>4, <5>1
        <5> HIDE DEF A, V
        <5>6. 2 * StakeOf(A) <= V
          BY <1>3, <2>2, <5>4, <5>5
        <5> QED BY <5>6 DEF A
      <4> QED BY <4>1, <4>2
    <3>4. 2 * StakeOf({a \in voters : W[a] > k}) <= V
      <4> DEFINE A == {a \in voters : W[a] > k}
      <4>1. CASE k = half
        <5>1. \A a \in Accounts : a \notin A
          BY <1>1, <1>2, <4>1
        <5>2. StakeOf(A) = 0
          BY <5>1, StakeOfNone
        <5> QED BY <1>3, <5>2
      <4>2. CASE k # half
        <5>1. k \in 0 .. half /\ k < half
          BY <1>1, <3>1, <4>2
        <5>2. upto[k] > target
          BY <2>4, <4>2 DEF half
        <5>3. /\ \A a \in Accounts : a \in voters <=> a \in A \/ a \in Low(k)
              /\ \A a \in Accounts : ~(a \in A /\ a \in Low(k))
          BY <1>1, <1>2, <3>1, <5>1
        <5>4. V = StakeOf(A) + StakeOf(Low(k))
          <6> HIDE DEF A, Low
          <6> QED BY <5>3, StakeAdds
        <5>5. upto[k] = StakeOf(Low(k)) /\ upto[k] \in Nat
          BY <3>2, <5>1
        <5>6. StakeOf(A) \in Nat
          BY StakeTyped
        <5> HIDE DEF A, V, Low
        <5>7. 2 * StakeOf(A) <= V
          BY <1>3, <2>2, <5>2, <5>4, <5>5, <5>6
        <5> QED BY <5>7 DEF A
      <4> QED BY <4>1, <4>2
    <3> QED BY <3>3, <3>4 DEF MedianOf
  <2> QED BY <2>2, <2>3, <2>4
<1> QED BY <1>4, <1>5

(* The loop of update_active_witnesses on the opinions of the accounts. *)
LEMMA CountMedian ==
  ASSUME Rest, NEW p \in Parameters, gpo.parameters = p
  PROVE  LET k == member_count(opinion, "num_witness", p.maximum_witness_count)
             voters == {a \in Accounts : Wish(a) > 0}
         IN /\ k \in 0 .. p.maximum_witness_count
            /\ MedianOf(k, voters, [a \in Accounts |-> Wish(a)])
                 \/ (k = 0 /\ StakeOf(voters) <= 1)
<1> DEFINE max == p.maximum_witness_count
           n == [a \in Accounts |-> Opinion(opinion, a).num_witness]
           W == [a \in Accounts |-> Wish(a)]
           voters == {a \in Accounts : Wish(a) > 0}
           hist0 == histogram(opinion, "num_witness", max, 0)
           upto == [j \in 0 .. max \div 2 |-> stake_upto(opinion, "num_witness", max, j)]
           k == member_count(opinion, "num_witness", max)
           target == stake_target(opinion, "num_witness", max)
<1>1. max \in Nat
  BY ProductionAssumption
<1>2. n \in [Accounts -> Nat]
  <2> SUFFICES ASSUME NEW a \in Accounts PROVE Opinion(opinion, a).num_witness \in Nat
    OBVIOUS
  <2>1. \A b \in Accounts : /\ opinion[b].num_witness \in Nat
                            /\ opinion[b].voting_account \in Accounts \cup {self}
    BY OptionsAssumption DEF Rest
  <2>2. OpinionAccount(opinion, a) \in Accounts
    BY <2>1 DEF OpinionAccount
  <2> QED BY <2>1, <2>2 DEF Opinion
<1>3. \A a \in Accounts : W[a] = AtMost(n[a], max) \div 2
  BY DEF Wish
<1>4. voters = {a \in Accounts : W[a] > 0}
  OBVIOUS
<1>5. hist0 = StakeOf({a \in Accounts : n[a] <= max /\ n[a] \div 2 = 0})
  <2>1. {a \in Accounts : n[a] <= max /\ n[a] \div 2 = 0}
          = {a \in Accounts : /\ Opinion(opinion, a)["num_witness"] <= max
                              /\ Opinion(opinion, a)["num_witness"] \div 2 = 0}
    OBVIOUS
  <2> QED BY <2>1 DEF histogram
<1>6. ASSUME NEW j \in 0 .. max \div 2
      PROVE  upto[j] = StakeOf({a \in Accounts : n[a] <= max /\ n[a] \div 2 \in 1 .. j})
  <2>1. {a \in Accounts : n[a] <= max /\ n[a] \div 2 \in 1 .. j}
          = {a \in Accounts : /\ Opinion(opinion, a)["num_witness"] <= max
                              /\ Opinion(opinion, a)["num_witness"] \div 2 \in 1 .. j}
    OBVIOUS
  <2> QED BY <2>1 DEF stake_upto
<1>7. target = (StakeOf(Accounts) - hist0) \div 2
  BY DEF stake_target, total_voting_stake
<1>8. /\ target \in Int /\ k \in 0 .. max \div 2
      /\ target <= 0 => k = 0
      /\ target > 0 => /\ k = max \div 2 \/ stake_upto(opinion, "num_witness", max, k) > target
                       /\ \A j \in 0 .. k - 1 : stake_upto(opinion, "num_witness", max, j) <= target
  BY <1>1, CountStops
<1> HIDE DEF max, n, W, voters, hist0, k, target
<1>9. target > 0 => /\ k = max \div 2 \/ upto[k] > target
                    /\ \A j \in 0 .. k - 1 : upto[j] <= target
  <2>1. max \div 2 \in Int
    BY <1>1, Half
  <2>2. k \in Int /\ \A j \in 0 .. k - 1 : j \in 0 .. max \div 2
    BY <1>8, <2>1
  <2> QED BY <1>8, <2>2
<1> HIDE DEF upto
<1>10. MedianOf(k, voters, W) \/ (k = 0 /\ StakeOf(voters) <= 1)
  <2>1. Counted(n, max, W, voters, hist0, upto, k, target)
    BY <1>1, <1>2, <1>3, <1>4, <1>5, <1>6, <1>7, <1>8, <1>9 DEF Counted
  <2> QED BY <2>1, Medians
<1>11. k \in 0 .. max
  <2>1. max \div 2 \in Int /\ 2 * (max \div 2) <= max
    BY <1>1, Half
  <2> QED BY <1>1, <1>8, <2>1
<1> QED BY <1>10, <1>11 DEF k, voters, W, max

(* The number of witnesses maintenance elects is the one the median of the *)
(* voting stake wants, for any stakes, wishes and limits, with ties and    *)
(* with wishes above a maximum that was lowered since.                     *)
THEOREM CountIsMedianHolds == Spec => CountIsMedian
<1> DEFINE Inv == Calendar /\ Rest
<1>1. ASSUME Inv, [Next]_vars, dgp'.num # dgp.num, dgp'.maintenance_flag
      PROVE  LET voters == {a \in Accounts : Wish(a) > 0}
                 Median(k) == /\ 2 * StakeOf({a \in voters : Wish(a) < k}) <= StakeOf(voters)
                              /\ 2 * StakeOf({a \in voters : Wish(a) > k}) <= StakeOf(voters)
             IN \E k \in 0 .. gpo.parameters.maximum_witness_count :
                  /\ Cardinality(gpo'.active) = AtMost(AtLeast(2 * k + 1, MinWitnessCount),
                                                       Cardinality(Witnesses))
                  /\ Median(k) \/ (k = 0 /\ StakeOf(voters) <= 1)
  <2> DEFINE p == gpo.parameters
             k == member_count(opinion, "num_witness", p.maximum_witness_count)
             voters == {a \in Accounts : Wish(a) > 0}
             W == [a \in Accounts |-> Wish(a)]
  <2>1. BlockStep
    BY <1>1, Steps DEF QuietStep
  <2>2. PICK t \in 0 .. MaxTime + 1 : \E w :
          validate_block_header(dgp, gpo.parameters, shuffled, t, w) /\ ApplyBlock(t, w)
    BY <2>1 DEF BlockStep
  <2>3. PICK w : validate_block_header(dgp, gpo.parameters, shuffled, t, w) /\ ApplyBlock(t, w)
    BY <2>2
  <2>4. /\ t \in Nat /\ ClockOf(dgp) /\ RulesOf(gpo) /\ p \in Parameters
        /\ get_slot_at_time(dgp, gpo.parameters, t) > 0
    BY <1>1, <2>3, ProductionAssumption DEF Calendar, RulesOf, validate_block_header
  <2>5. BlockEffect(t, w)
    BY <2>3, <2>4, BlockIs
  <2>6. gpo'.active = update_active_witnesses(opinion, p)
    <3>1. dgp'.maintenance_flag = (dgp.next_maintenance_time <= t)
      BY <2>5 DEF BlockEffect
    <3>2. dgp.next_maintenance_time <= t
      BY <1>1, <3>1
    <3> QED BY <2>5, <3>2 DEF BlockEffect
  <2>7. Cardinality(gpo'.active) = AtMost(AtLeast(2 * k + 1, MinWitnessCount),
                                          Cardinality(Witnesses))
    BY <2>4, <2>6, WitnessesElected
  <2>8. /\ k \in 0 .. p.maximum_witness_count
        /\ MedianOf(k, voters, W) \/ (k = 0 /\ StakeOf(voters) <= 1)
    BY <1>1, <2>4, CountMedian
  <2>9. /\ {a \in voters : W[a] < k} = {a \in voters : Wish(a) < k}
        /\ {a \in voters : W[a] > k} = {a \in voters : Wish(a) > k}
    <3> HIDE DEF k
    <3> QED OBVIOUS
  <2> HIDE DEF k
  <2> QED BY <2>7, <2>8, <2>9 DEF MedianOf
<1>2. Inv /\ [Next]_vars => [dgp'.num # dgp.num /\ dgp'.maintenance_flag =>
        LET voters == {a \in Accounts : Wish(a) > 0}
            Median(k) == /\ 2 * StakeOf({a \in voters : Wish(a) < k}) <= StakeOf(voters)
                         /\ 2 * StakeOf({a \in voters : Wish(a) > k}) <= StakeOf(voters)
        IN \E k \in 0 .. gpo.parameters.maximum_witness_count :
             /\ Cardinality(gpo'.active) = AtMost(AtLeast(2 * k + 1, MinWitnessCount),
                                                  Cardinality(Witnesses))
             /\ Median(k) \/ (k = 0 /\ StakeOf(voters) <= 1)]_vars
  BY <1>1
<1>3. Init => Inv
  BY CalendarInit, RestInit
<1>4. Inv /\ [Next]_vars => Inv'
  BY CalendarStep, RestStep
<1> QED BY <1>2, <1>3, <1>4, PTL DEF Spec, CountIsMedian

-----------------------------------------------------------------------------
(* Pay.  chain_parameters::validate asks that a maintenance interval is a  *)
(* multiple of the block interval it comes with.  Maintenance times keep   *)
(* counting from the old ones when the parameters change, so that they are *)
(* at the start of a slot only if the intervals fit across the changes.    *)
Aligned ==
  \A p, q \in Parameters : q.maintenance_interval % p.block_interval = 0

(* A budget that was granted in full still holds the pay of every slot     *)
(* from the head to the next maintenance, its first slot included.         *)
Provided ==
  LET b == Interval
      next == dgp.next_maintenance_time
  IN /\ \A p \in Parameters : next % p.block_interval = 0
     /\ dgp.last_budget_time > 0 /\ record.granted = record.requested =>
          dgp.witness_budget >=
            gpo.parameters.witness_pay_per_block * (next \div b - dgp.time \div b)

LEMMA MultipleOf ==
  ASSUME NEW x \in Int, NEW b \in Nat \ {0}
  PROVE  /\ x % b = 0 => x = b * (x \div b)
         /\ \A k \in Int : x = b * k => x % b = 0
<1> DEFINE q == x \div b
           r == x % b
<1>1. q \in Int /\ r \in 0 .. b - 1 /\ x = b * q + r
  BY Division
<1>2. r = 0 => x = b * q
  <2> HIDE DEF q, r
  <2>1. b * q \in Int
    BY <1>1
  <2> QED BY <1>1, <2>1
<1>3. ASSUME NEW k \in Int, x = b * k PROVE r = 0
  <2>1. b * k <= x /\ x < b * k + b
    BY <1>3
  <2>2. q = k
    BY <2>1, Quotient
  <2> HIDE DEF q, r
  <2>3. b * q = b * k /\ b * k \in Int
    BY <2>2
  <2> QED BY <1>1, <1>3, <2>3
<1> QED BY <1>2, <1>3

LEMMA NextAligned ==
  ASSUME Aligned, NEW p \in Parameters, NEW q \in Parameters, NEW next \in Nat, NEW num \in Nat,
         NEW t \in Nat, next % p.block_interval = 0
  PROVE  next_maintenance_time(next, q, num, t) % p.block_interval = 0
<1> DEFINE b == p.block_interval
           m == q.maintenance_interval
           j == m \div b
           i == next \div b
           r == next_maintenance_time(next, q, num, t)
<1>1. b \in Nat \ {0} /\ m \in Nat \ {0}
  BY IntervalsTyped
<1>2. m % b = 0 /\ next % b = 0
  BY DEF Aligned
<1>3. r = IF num = 1 THEN (t \div m + 1) * m ELSE next + ((t - next) \div m + 1) * m
  BY DEF next_maintenance_time
<1> HIDE DEF b, m, r
<1>4. j \in Int /\ m = b * j /\ i \in Int /\ next = b * i
  <2>1. m \in Int /\ next \in Int
    BY <1>1
  <2> QED BY <1>1, <1>2, <2>1, Division, MultipleOf
<1> HIDE DEF j, i
<1>5. ASSUME NEW k \in Int PROVE k * m = b * (k * j) /\ next + k * m = b * (i + k * j)
                                 /\ k * j \in Int
  <2>1. k * j \in Int
    BY <1>4
  <2>2. k * (b * j) = b * (k * j)
    BY <1>1, <1>4
  <2> DEFINE x == k * j
  <2> HIDE DEF x
  <2>3. b * i + b * x = b * (i + x) /\ x \in Int
    BY <1>1, <1>4, <2>1 DEF x
  <2> QED BY <1>4, <2>1, <2>2, <2>3 DEF x
<1>6. ASSUME NEW x \in Int PROVE x \div m + 1 \in Int
  BY <1>1, Division
<1>7. \E k \in Int : r = b * k
  <2>1. CASE num = 1
    <3> DEFINE k == t \div m + 1
    <3>1. k \in Int
      BY <1>6
    <3> HIDE DEF k
    <3>2. r = k * m
      BY <1>3, <2>1 DEF k
    <3> QED BY <1>5, <3>1, <3>2
  <2>2. CASE num # 1
    <3> DEFINE k == (t - next) \div m + 1
    <3>1. k \in Int
      <4>1. t - next \in Int
        OBVIOUS
      <4> QED BY <1>6, <4>1
    <3> HIDE DEF k
    <3>2. r = next + k * m
      BY <1>3, <2>2 DEF k
    <3>3. i + k * j \in Int
      BY <1>4, <1>5, <3>1
    <3> QED BY <1>5, <3>1, <3>2, <3>3
  <2> QED BY <2>1, <2>2
<1>8. r \in Int
  BY <1>1, <1>7
<1> QED BY <1>1, <1>7, <1>8, MultipleOf DEF r, b

(* As many blocks as process_budget counts are the slots up to maintenance. *)
LEMMA BlocksAreSlots ==
  ASSUME NEW b \in Nat \ {0}, NEW next \in Nat, next % b = 0, NEW t \in Nat
  PROVE  (next - t + b - 1) \div b = next \div b - t \div b
<1> DEFINE i == next \div b
           j == t \div b
           x == next - t + b - 1
<1>1. i \in Int /\ next = b * i
  BY Division, MultipleOf
<1>2. j \in Int /\ b * j <= t /\ t < b * j + b
  BY Division
<1> HIDE DEF i, j
<1>3. b * (i - j) = b * i - b * j /\ b * i \in Int /\ b * j \in Int
  BY <1>1, <1>2
<1>4. x \in Int /\ i - j \in Int /\ b * (i - j) <= x /\ x < b * (i - j) + b
  BY <1>1, <1>2, <1>3
<1> HIDE DEF x
<1>5. x \div b = i - j
  BY <1>4, Quotient
<1> QED BY <1>5 DEF x, i, j

LEMMA PayLeft ==
  ASSUME Calendar, Money, Provided, dgp.num > 0,
         dgp.last_budget_time > 0, record.granted = record.requested
  PROVE  LET n == dgp.next_maintenance_time \div Interval - dgp.time \div Interval
         IN /\ n \in Nat \ {0}
            /\ dgp.witness_budget >= gpo.parameters.witness_pay_per_block * n
            /\ dgp.witness_budget >= gpo.parameters.witness_pay_per_block
<1> DEFINE b == Interval
           next == dgp.next_maintenance_time
           i == next \div b
           j == dgp.time \div b
           pay == gpo.parameters.witness_pay_per_block
           n == i - j
<1>1. /\ b \in Nat \ {0} /\ next \in Nat /\ dgp.time \in Nat /\ pay \in Nat
      /\ next % b = 0 /\ dgp.witness_budget \in Nat /\ dgp.time < next
  BY IntervalsTyped, MoneyAssumption DEF Calendar, MaintenanceAhead, ClockOf, RulesOf, Money,
     Provided, Interval
<1>2. dgp.witness_budget >= pay * n
  BY DEF Provided
<1> HIDE DEF b, next, pay
<1>3. i \in Int /\ next = b * i
  <2>1. next \in Int
    BY <1>1
  <2> QED BY <1>1, <2>1, Division, MultipleOf
<1>4. j \in Int /\ b * j <= dgp.time
  <2> DEFINE x == dgp.time
  <2>1. x \in Int
    BY <1>1
  <2> HIDE DEF x
  <2>2. x \div b \in Int /\ b * (x \div b) <= x
    BY <1>1, <2>1, Division
  <2> QED BY <2>2 DEF x
<1> HIDE DEF i, j
<1>5. j < i
  <2>1. b * j < b * i
    <3>1. b * j \in Int /\ b * i \in Int
      BY <1>1, <1>3, <1>4
    <3> QED BY <1>1, <1>3, <1>4, <3>1
  <2> QED BY <1>1, <1>3, <1>4, <2>1, Multiples
<1>6. n \in Nat \ {0}
  BY <1>3, <1>4, <1>5
<1> HIDE DEF n
<1>7. pay * n >= pay /\ pay * n \in Nat
  BY <1>1, <1>6
<1>8. dgp.witness_budget >= pay
  BY <1>1, <1>2, <1>7
<1> QED BY <1>2, <1>6, <1>8 DEF n, i, j, b, next, pay

LEMMA BlockProvided ==
  ASSUME Aligned, Calendar, Money, Provided, NEW t \in 0 .. MaxTime + 1, NEW w,
         validate_block_header(dgp, gpo.parameters, shuffled, t, w), ApplyBlock(t, w)
  PROVE  Provided'
<1> DEFINE maint == dgp.next_maintenance_time <= t
           p == IF maint THEN ParametersFrom(gpo) ELSE gpo.parameters
           b == Interval'
           next == dgp'.next_maintenance_time
           pay == gpo'.parameters.witness_pay_per_block
<1>1. /\ t \in Nat /\ dgp.time < t /\ get_slot_at_time(dgp, gpo.parameters, t) > 0
      /\ ClockOf(dgp) /\ RulesOf(gpo) /\ dgp.num \in Nat /\ dgp.time \in Nat
      /\ dgp.next_maintenance_time \in Nat /\ gpo.parameters \in Parameters
      /\ Calendar' /\ Money' /\ PayOf(t)
  BY BlockCalendar, BlockMoney, ProductionAssumption
  DEF Calendar, ClockOf, RulesOf, validate_block_header
<1>2. BlockEffect(t, w)
  BY <1>1, BlockIs
<1>3. p \in Parameters
  BY <1>1 DEF RulesOf, ParametersFrom
<1>4. /\ dgp'.time = t /\ dgp'.num = dgp.num + 1
      /\ next = IF maint THEN next_maintenance_time(dgp.next_maintenance_time, p, dgp.num + 1, t)
                         ELSE dgp.next_maintenance_time
      /\ ~maint => gpo' = gpo
  BY <1>2 DEF BlockEffect
<1>5. ASSUME NEW q \in Parameters PROVE next % q.block_interval = 0
  <2>1. dgp.next_maintenance_time % q.block_interval = 0 /\ dgp.num + 1 \in Nat
    BY <1>1 DEF Provided
  <2> HIDE DEF p, maint
  <2>2. next_maintenance_time(dgp.next_maintenance_time, p, dgp.num + 1, t) % q.block_interval = 0
    BY <1>1, <1>3, <2>1, NextAligned
  <2> HIDE DEF next
  <2> QED BY <1>4, <2>1, <2>2
<1>6. ASSUME dgp'.last_budget_time > 0, record'.granted = record'.requested
      PROVE  dgp'.witness_budget >= pay * (next \div b - dgp'.time \div b)
  <2>1. CASE maint
    <3>1. /\ record'.granted = dgp'.witness_budget
          /\ record'.requested = pay * blocks_to_maint(dgp', gpo'.parameters)
      BY <1>1, <2>1 DEF PayOf
    <3>2. /\ gpo'.parameters \in Parameters /\ b \in Nat \ {0} /\ next \in Nat /\ next % b = 0
          /\ dgp'.witness_budget \in Nat
      BY <1>1, <1>5, IntervalsTyped DEF Calendar, ClockOf, RulesOf, Interval, Money
    <3>3. blocks_to_maint(dgp', gpo'.parameters) = (next - t + b - 1) \div b
      BY <1>4 DEF blocks_to_maint, Interval
    <3> HIDE DEF b, next
    <3>4. (next - t + b - 1) \div b = next \div b - t \div b
      BY <1>1, <3>2, BlocksAreSlots
    <3>5. dgp'.witness_budget = pay * (next \div b - t \div b)
      BY <1>6, <3>1, <3>3, <3>4
    <3> QED BY <1>4, <3>2, <3>5
  <2>2. CASE ~maint
    <3>1. /\ record' = record /\ dgp'.last_budget_time = dgp.last_budget_time
          /\ dgp'.witness_budget = dgp.witness_budget
               - AtMost(gpo.parameters.witness_pay_per_block, dgp.witness_budget)
      BY <1>1, <2>2 DEF PayOf
    <3>2. gpo' = gpo /\ next = dgp.next_maintenance_time /\ b = Interval
      BY <1>4, <2>2 DEF Interval
    <3>3. dgp.num > 0
      BY <1>1, <2>2 DEF Calendar
    <3> DEFINE i == dgp.next_maintenance_time \div Interval
               j == dgp.time \div Interval
               k == t \div Interval
               c == gpo.parameters.witness_pay_per_block
    <3>4. i - j \in Nat \ {0} /\ dgp.witness_budget >= c * (i - j) /\ dgp.witness_budget >= c
      BY <1>6, <3>1, <3>3, PayLeft
    <3>5. k \in Int /\ j \in Int /\ k >= j + 1
      <4>1. Skipped(dgp, gpo.parameters) \in Nat
        BY <1>1, SlotTimes
      <4>2. k \in Int /\ j \in Int /\ k >= j + 1 + Skipped(dgp, gpo.parameters)
        BY NextSlot
      <4> HIDE DEF k, j
      <4> QED BY <4>1, <4>2
    <3>6. i \in Int /\ c \in Nat /\ dgp.witness_budget \in Nat
      <4>1. dgp.next_maintenance_time \in Int /\ Interval \in Nat \ {0}
        BY <1>1, IntervalsTyped DEF Interval
      <4> QED BY <1>1, <4>1, Division, MoneyAssumption DEF Money
    <3> HIDE DEF i, j, k, c
    <3>7. dgp'.witness_budget = dgp.witness_budget - c
      BY <3>1, <3>4, <3>6 DEF AtMost, c
    <3>8. c * (i - j) - c >= c * (i - k) /\ c * (i - j) \in Int /\ c * (i - k) \in Int
      <4>1. c * (i - j - 1) = c * (i - j) - c /\ c * (i - j) \in Int /\ c * (i - k) \in Int
        BY <3>5, <3>6
      <4> DEFINE x == i - j - 1
                 y == i - k
      <4>2. x \in Int /\ y \in Int /\ y <= x
        BY <3>5, <3>6
      <4> HIDE DEF x, y
      <4>3. c * y <= c * x
        BY <3>6, <4>2
      <4> QED BY <4>1, <4>3 DEF x, y
    <3>9. dgp'.witness_budget >= c * (i - k)
      BY <3>4, <3>6, <3>7, <3>8
    <3> HIDE DEF b, next
    <3>10. pay = c /\ next \div b = i /\ dgp'.time \div b = k
      BY <1>4, <3>2 DEF c, i, k
    <3> QED BY <3>9, <3>10
  <2> QED BY <2>1, <2>2
<1> QED BY <1>5, <1>6 DEF Provided

LEMMA QuietProvided ==
  ASSUME Calendar, Provided, QuietStep
  PROVE  Provided'
<1>1. dgp' = dgp /\ record' = record
  BY DEF QuietStep
<1>2. gpo'.parameters = gpo.parameters
  <2>1. CASE gpo' = gpo
    BY <2>1
  <2>2. ASSUME NEW p \in Parameters, gpo' = [gpo EXCEPT !.pending = p]
        PROVE  gpo'.parameters = gpo.parameters
    BY <2>2 DEF Calendar, RulesOf
  <2> QED BY <2>1, <2>2 DEF QuietStep
<1> QED BY <1>1, <1>2 DEF Provided, Interval

(* A budget granted in full pays every signer in full up to and including  *)
(* the maintenance block, provided that the maintenance times stay at the  *)
(* start of a slot.  Where they do not, blocks_to_maint is one short of    *)
(* the blocks there can be.                                                *)
THEOREM PaidInFullHolds ==
  ASSUME Aligned
  PROVE  Spec => PaidInFull
<1> DEFINE Inv == Calendar /\ Money /\ Provided
                    /\ (dgp.num = 0 => dgp.last_budget_time = 0)
<1>1. Init => Inv
  <2> SUFFICES ASSUME Init PROVE Inv
    OBVIOUS
  <2>1. dgp.next_maintenance_time = 0 /\ dgp.last_budget_time = 0
    BY DEF Init
  <2>2. ASSUME NEW p \in Parameters PROVE 0 % p.block_interval = 0
    <3> DEFINE b == p.block_interval
    <3>1. b \in Nat \ {0}
      BY IntervalsTyped
    <3> HIDE DEF b
    <3>2. 0 = b * 0
      BY <3>1
    <3>3. 0 % b = 0
      BY <3>1, <3>2, MultipleOf
    <3> QED BY <3>3 DEF b
  <2>3. Provided
    BY <2>1, <2>2 DEF Provided
  <2> QED BY <2>1, <2>3, CalendarInit, MoneyInit
<1>2. Inv /\ [Next]_vars => Inv'
  <2> SUFFICES ASSUME Inv, [Next]_vars PROVE Inv'
    OBVIOUS
  <2>1. Calendar' /\ Money'
    BY CalendarStep, MoneyStep
  <2>2. CASE BlockStep
    <3>1. PICK t \in 0 .. MaxTime + 1 : \E w :
            validate_block_header(dgp, gpo.parameters, shuffled, t, w) /\ ApplyBlock(t, w)
      BY <2>2 DEF BlockStep
    <3>2. PICK w : validate_block_header(dgp, gpo.parameters, shuffled, t, w) /\ ApplyBlock(t, w)
      BY <3>1
    <3>3. Provided'
      BY Aligned, <3>2, BlockProvided
    <3>4. dgp'.num # 0
      <4>1. t \in Nat /\ ClockOf(dgp) /\ RulesOf(gpo) /\ dgp.num \in Nat
            /\ get_slot_at_time(dgp, gpo.parameters, t) > 0
        BY <3>2, ProductionAssumption DEF Calendar, ClockOf, validate_block_header
      <4>2. dgp'.num = dgp.num + 1
        BY <3>2, <4>1, BlockIs DEF BlockEffect
      <4> QED BY <4>1, <4>2
    <3> QED BY <2>1, <3>3, <3>4
  <2>3. CASE QuietStep
    <3>1. Provided' /\ dgp' = dgp
      BY <2>3, QuietProvided DEF QuietStep
    <3> QED BY <2>1, <3>1
  <2> QED BY <2>2, <2>3, Steps
<1>3. Inv /\ [Next]_vars =>
        [dgp'.num # dgp.num /\ dgp.last_budget_time > 0 /\ record.granted = record.requested
           => dgp.witness_budget >= gpo.parameters.witness_pay_per_block]_vars
  <2> SUFFICES ASSUME Inv, dgp.last_budget_time > 0, record.granted = record.requested
               PROVE  dgp.witness_budget >= gpo.parameters.witness_pay_per_block
    OBVIOUS
  <2>1. dgp.num > 0
    BY DEF Calendar, ClockOf
  <2> QED BY <2>1, PayLeft
<1> QED BY <1>1, <1>2, <1>3, PTL DEF Spec, PaidInFull
=============================================================================
