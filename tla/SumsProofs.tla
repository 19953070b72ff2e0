----------------------------- MODULE SumsProofs -----------------------------
(***************************************************************************)
(* What module Sums computes, for every length: the recurrence that Sum    *)
(* satisfies and its consequences.  The library's induction theorems take  *)
(* an operator as a parameter, so induction is done here on the set of the *)
(* numbers for which a statement holds, by the least-element principle     *)
(* WFMin.  Then what loops keep, sums over finite sets, and the first      *)
(* element of an order.                                                    *)
(***************************************************************************)
EXTENDS Sums, TLAPS, FiniteSetTheorems

(* A set that holds 0 and is closed under successor holds every natural. *)
LEMMA NatSetInduction ==
  ASSUME NEW S, 0 \in S, \A k \in Nat : k \in S => k + 1 \in S
  PROVE  Nat \subseteq S
<1> DEFINE R == OpToRel(<, Nat)
           T == Nat \ S
<1>1. SUFFICES ASSUME T # {} PROVE FALSE
  OBVIOUS
<1>2. IsWellFoundedOn(R, Nat)
  BY NatLessThanWellFounded
<1>3. PICK x \in T : \A y \in T : ~ (<<y, x>> \in R)
  <2> HIDE DEF R
  <2> QED BY <1>1, <1>2, WFMin, T \subseteq Nat
<1>4. x # 0 /\ x - 1 \in Nat /\ x - 1 \notin S
  OBVIOUS
<1>5. <<x - 1, x>> \in R
  BY <1>4 DEF OpToRel
<1> QED BY <1>3, <1>4, <1>5

(* s lists the partial sums of f up to n. *)
Partial(s, f, n) == s[0] = 0 /\ \A i \in 1 .. n : s[i] = s[i - 1] + f[i]

IntOn(f, n) == \A i \in 1 .. n : f[i] \in Int

(* The recursive definition inside Sum has a solution. *)
LEMMA PartialExists ==
  ASSUME NEW f, NEW n \in Nat, IntOn(f, n)
  PROVE  \E s \in [0 .. n -> Int] : Partial(s, f, n)
<1> DEFINE S == {k \in Nat : k <= n => \E s \in [0 .. k -> Int] : Partial(s, f, k)}
<1>1. 0 \in S
  <2>1. [i \in 0 .. 0 |-> 0] \in [0 .. 0 -> Int]
    OBVIOUS
  <2>2. Partial([i \in 0 .. 0 |-> 0], f, 0)
    BY DEF Partial
  <2> QED BY <2>1, <2>2
<1>2. ASSUME NEW k \in Nat, k \in S PROVE k + 1 \in S
  <2>1. SUFFICES ASSUME k + 1 <= n
                 PROVE  \E s \in [0 .. k + 1 -> Int] : Partial(s, f, k + 1)
    OBVIOUS
  <2>2. PICK s \in [0 .. k -> Int] : Partial(s, f, k)
    BY <1>2, <2>1
  <2> DEFINE t == [i \in 0 .. k + 1 |-> IF i = k + 1 THEN s[k] + f[k + 1] ELSE s[i]]
  <2>3. f[k + 1] \in Int
    BY <2>1 DEF IntOn
  <2>4. t \in [0 .. k + 1 -> Int]
    BY <2>3
  <2>5. Partial(t, f, k + 1)
    BY <2>2 DEF Partial
  <2> QED BY <2>4, <2>5
<1>3. n \in S
  <2> HIDE DEF S
  <2> QED BY <1>1, <1>2, NatSetInduction
<1> QED BY <1>3

(* Two solutions agree. *)
LEMMA PartialUnique ==
  ASSUME NEW f, NEW s, NEW t, NEW m \in Nat, NEW n \in Nat, m <= n,
         Partial(s, f, m), Partial(t, f, n)
  PROVE  s[m] = t[m]
<1> DEFINE S == {k \in Nat : k <= m => s[k] = t[k]}
<1>1. 0 \in S
  BY DEF Partial
<1>2. ASSUME NEW k \in Nat, k \in S PROVE k + 1 \in S
  <2>1. SUFFICES ASSUME k + 1 <= m PROVE s[k + 1] = t[k + 1]
    OBVIOUS
  <2>2. s[k + 1] = s[k] + f[k + 1] /\ t[k + 1] = t[k] + f[k + 1]
    BY <2>1 DEF Partial
  <2> QED BY <1>2, <2>1, <2>2
<1>3. m \in S
  <2> HIDE DEF S
  <2> QED BY <1>1, <1>2, NatSetInduction
<1> QED BY <1>3

(* Sum is the last partial sum. *)
LEMMA SumIsPartial ==
  ASSUME NEW f, NEW n \in Nat, IntOn(f, n)
  PROVE  \E s \in [0 .. n -> Int] : Partial(s, f, n) /\ Sum(f, n) = s[n]
<1> DEFINE Eqn(s) == s = [i \in 0 .. n |-> IF i = 0 THEN 0 ELSE s[i - 1] + f[i]]
           c == CHOOSE s : Eqn(s)
<1>1. PICK s \in [0 .. n -> Int] : Partial(s, f, n)
  BY PartialExists
<1>2. Eqn(s)
  BY <1>1 DEF Partial
<1>3. Eqn(c)
  BY <1>2
<1>4. Sum(f, n) = c[n]
  BY DEF Sum
<1> HIDE DEF c
<1>5. Partial(c, f, n)
  BY <1>3 DEF Partial
<1>6. s[n] = c[n]
  BY <1>1, <1>5, PartialUnique
<1> QED BY <1>1, <1>4, <1>6

(* The recurrence for Sum: the only fact about its definition that the     *)
(* lemmas below use.                                                       *)
THEOREM SumRecurrence ==
  ASSUME NEW f, NEW n \in Nat, IntOn(f, n)
  PROVE  /\ Sum(f, n) \in Int
         /\ Sum(f, 0) = 0
         /\ n # 0 => Sum(f, n) = Sum(f, n - 1) + f[n]
<1>1. PICK s \in [0 .. n -> Int] : Partial(s, f, n) /\ Sum(f, n) = s[n]
  BY SumIsPartial
<1>2. Sum(f, 0) = 0
  <2>1. IntOn(f, 0)
    BY DEF IntOn
  <2> QED BY <2>1, SumIsPartial DEF Partial
<1>3. ASSUME n # 0 PROVE Sum(f, n) = Sum(f, n - 1) + f[n]
  <2>1. n - 1 \in Nat /\ IntOn(f, n - 1)
    BY <1>3 DEF IntOn
  <2>2. PICK t \in [0 .. n - 1 -> Int] : Partial(t, f, n - 1) /\ Sum(f, n - 1) = t[n - 1]
    BY <2>1, SumIsPartial
  <2>3. t[n - 1] = s[n - 1]
    BY <1>1, <2>1, <2>2, PartialUnique
  <2>4. s[n] = s[n - 1] + f[n]
    BY <1>1, <1>3 DEF Partial
  <2> QED BY <1>1, <2>2, <2>3, <2>4
<1> QED BY <1>1, <1>2, <1>3

(* A sum of naturals is a natural, and no term exceeds it. *)
THEOREM SumOfNaturals ==
  ASSUME NEW f, NEW n \in Nat, \A i \in 1 .. n : f[i] \in Nat
  PROVE  Sum(f, n) \in Nat /\ \A j \in 1 .. n : f[j] <= Sum(f, n)
<1> DEFINE S == {k \in Nat : k <= n => /\ Sum(f, k) \in Nat
                                       /\ \A j \in 1 .. k : f[j] <= Sum(f, k)}
<1>1. 0 \in S
  BY SumRecurrence DEF IntOn
<1>2. ASSUME NEW k \in Nat, k \in S PROVE k + 1 \in S
  <2>1. SUFFICES ASSUME k + 1 <= n
                 PROVE  /\ Sum(f, k + 1) \in Nat
                        /\ \A j \in 1 .. k + 1 : f[j] <= Sum(f, k + 1)
    OBVIOUS
  <2>2. Sum(f, k + 1) = Sum(f, k) + f[k + 1]
    <3>1. IntOn(f, k + 1) /\ k + 1 \in Nat /\ k + 1 # 0 /\ (k + 1) - 1 = k
      BY <2>1 DEF IntOn
    <3> QED BY <3>1, SumRecurrence
  <2>3. Sum(f, k) \in Nat /\ f[k + 1] \in Nat /\ \A j \in 1 .. k : f[j] <= Sum(f, k)
    BY <1>2, <2>1
  <2>4. ASSUME NEW j \in 1 .. k + 1 PROVE f[j] <= Sum(f, k) + f[k + 1]
    <3>1. CASE j = k + 1
      BY <2>3, <3>1
    <3>2. CASE j # k + 1
      <4>1. j \in 1 .. k /\ f[j] \in Nat
        BY <2>1, <3>2
      <4> QED BY <2>3, <4>1
    <3> QED BY <3>1, <3>2
  <2> QED BY <2>2, <2>3, <2>4
<1>3. n \in S
  <2> HIDE DEF S
  <2> QED BY <1>1, <1>2, NatSetInduction
<1> QED BY <1>3

(* Sums are linear: a function that is the sum of two others adds up to    *)
(* the two sums together.                                                  *)
THEOREM SumAdd ==
  ASSUME NEW f, NEW g, NEW h, NEW n \in Nat, IntOn(f, n), IntOn(g, n),
         \A i \in 1 .. n : h[i] = f[i] + g[i]
  PROVE  Sum(h, n) = Sum(f, n) + Sum(g, n)
<1> DEFINE S == {k \in Nat : k <= n => Sum(h, k) = Sum(f, k) + Sum(g, k)}
<1>1. 0 \in S
  BY SumRecurrence DEF IntOn
<1>2. ASSUME NEW k \in Nat, k \in S PROVE k + 1 \in S
  <2>1. SUFFICES ASSUME k + 1 <= n
                 PROVE  Sum(h, k + 1) = Sum(f, k + 1) + Sum(g, k + 1)
    OBVIOUS
  <2>2. /\ k + 1 \in Nat /\ k + 1 # 0 /\ (k + 1) - 1 = k
        /\ IntOn(f, k + 1) /\ IntOn(g, k + 1) /\ IntOn(h, k + 1)
        /\ IntOn(f, k) /\ IntOn(g, k)
    BY <2>1 DEF IntOn
  <2>3. /\ Sum(f, k + 1) = Sum(f, k) + f[k + 1] /\ Sum(f, k) \in Int
        /\ Sum(g, k + 1) = Sum(g, k) + g[k + 1] /\ Sum(g, k) \in Int
        /\ Sum(h, k + 1) = Sum(h, k) + h[k + 1]
    BY <2>2, SumRecurrence
  <2>4. h[k + 1] = f[k + 1] + g[k + 1] /\ f[k + 1] \in Int /\ g[k + 1] \in Int
    BY <2>1, <2>2 DEF IntOn
  <2> QED BY <1>2, <2>1, <2>3, <2>4
<1>3. n \in S
  <2> HIDE DEF S
  <2> QED BY <1>1, <1>2, NatSetInduction
<1> QED BY <1>3

(* The sum of a function that is 0 everywhere but at j is its value there. *)
LEMMA SumOfOne ==
  ASSUME NEW f, NEW n \in Nat, NEW j \in 1 .. n, f[j] \in Int,
         \A i \in 1 .. n : i # j => f[i] = 0
  PROVE  Sum(f, n) = f[j]
<1> DEFINE S == {k \in Nat : k <= n => Sum(f, k) = IF k < j THEN 0 ELSE f[j]}
<1>0. IntOn(f, n)
  BY DEF IntOn
<1>1. 0 \in S
  BY <1>0, SumRecurrence
<1>2. ASSUME NEW k \in Nat, k \in S PROVE k + 1 \in S
  <2>1. SUFFICES ASSUME k + 1 <= n
                 PROVE  Sum(f, k + 1) = IF k + 1 < j THEN 0 ELSE f[j]
    OBVIOUS
  <2>2. IntOn(f, k + 1) /\ k + 1 \in Nat /\ k + 1 # 0 /\ (k + 1) - 1 = k
    BY <1>0, <2>1 DEF IntOn
  <2>3. Sum(f, k + 1) = Sum(f, k) + f[k + 1]
    BY <2>2, SumRecurrence
  <2>4. Sum(f, k) = IF k < j THEN 0 ELSE f[j]
    BY <1>2, <2>1
  <2>5. k + 1 # j => f[k + 1] = 0
    BY <2>1
  <2> QED BY <2>3, <2>4, <2>5
<1>3. n \in S
  <2> HIDE DEF S
  <2> QED BY <1>1, <1>2, NatSetInduction
<1> QED BY <1>3

(* The sum of a function that is 0 everywhere *)
LEMMA SumOfNone ==
  ASSUME NEW z, NEW n \in Nat, \A i \in 1 .. n : z[i] = 0
  PROVE  Sum(z, n) = 0
<1> DEFINE S == {k \in Nat : k <= n => Sum(z, k) = 0}
<1>1. IntOn(z, n)
  BY DEF IntOn
<1>2. 0 \in S
  BY <1>1, SumRecurrence
<1>3. ASSUME NEW k \in Nat, k \in S PROVE k + 1 \in S
  <2>1. SUFFICES ASSUME k + 1 <= n PROVE Sum(z, k + 1) = 0
    OBVIOUS
  <2>2. IntOn(z, k + 1) /\ k + 1 \in Nat /\ k + 1 # 0 /\ (k + 1) - 1 = k /\ z[k + 1] = 0
    BY <1>1, <2>1 DEF IntOn
  <2>3. Sum(z, k + 1) = Sum(z, k) + z[k + 1]
    BY <2>2, SumRecurrence
  <2> QED BY <1>3, <2>1, <2>2, <2>3
<1>4. n \in S
  <2> HIDE DEF S
  <2> QED BY <1>2, <1>3, NatSetInduction
<1> QED BY <1>4

(* Functions that agree on 1 .. n have the same sum. *)
LEMMA SumEqual ==
  ASSUME NEW f, NEW g, NEW n \in Nat, IntOn(f, n), \A i \in 1 .. n : g[i] = f[i]
  PROVE  Sum(g, n) = Sum(f, n)
<1> DEFINE z == [i \in 1 .. n |-> 0]
<1>1. IntOn(z, n) /\ \A i \in 1 .. n : z[i] = 0
  BY DEF IntOn
<1>2. \A i \in 1 .. n : g[i] = f[i] + z[i]
  BY DEF IntOn
<1> HIDE DEF z
<1>3. Sum(g, n) = Sum(f, n) + Sum(z, n)
  BY <1>1, <1>2, SumAdd
<1>4. Sum(z, n) = 0 /\ Sum(f, n) \in Int
  BY <1>1, SumOfNone, SumRecurrence
<1> QED BY <1>3, <1>4

(* Changing one term changes the sum by as much. *)
THEOREM SumUpdate ==
  ASSUME NEW f, NEW g, NEW n \in Nat, NEW j \in 1 .. n, IntOn(f, n), g[j] \in Int,
         \A i \in 1 .. n : i # j => g[i] = f[i]
  PROVE  Sum(g, n) = Sum(f, n) + g[j] - f[j]
<1> DEFINE e == [i \in 1 .. n |-> IF i = j THEN g[j] - f[j] ELSE 0]
<1>1. IntOn(e, n) /\ e[j] = g[j] - f[j] /\ e[j] \in Int
  BY DEF IntOn
<1>2. \A i \in 1 .. n : i # j => e[i] = 0
  OBVIOUS
<1>3. \A i \in 1 .. n : g[i] = f[i] + e[i]
  BY DEF IntOn
<1> HIDE DEF e
<1>4. Sum(e, n) = e[j]
  BY <1>1, <1>2, SumOfOne
<1>5. Sum(g, n) = Sum(f, n) + Sum(e, n)
  BY <1>1, <1>3, SumAdd
<1>6. Sum(f, n) \in Int /\ f[j] \in Int
  BY SumRecurrence DEF IntOn
<1> QED BY <1>1, <1>4, <1>5, <1>6

(* One more term adds its value. *)
LEMMA SumExtend ==
  ASSUME NEW f, NEW g, NEW n \in Nat, IntOn(f, n), g[n + 1] \in Int,
         \A i \in 1 .. n : g[i] = f[i]
  PROVE  Sum(g, n + 1) = Sum(f, n) + g[n + 1]
<1>1. IntOn(g, n + 1) /\ n + 1 \in Nat /\ n + 1 # 0 /\ (n + 1) - 1 = n
  BY DEF IntOn
<1>2. Sum(g, n + 1) = Sum(g, n) + g[n + 1]
  BY <1>1, SumRecurrence
<1>3. Sum(g, n) = Sum(f, n)
  BY SumEqual
<1> QED BY <1>2, <1>3

(* A set of numbers up to n that is not empty has a last one. *)
LEMMA LastOf ==
  ASSUME NEW n \in Nat, NEW S \in SUBSET (1 .. n), S # {}
  PROVE  \E m \in S : \A i \in S : i <= m
<1> DEFINE R == OpToRel(<, Nat)
           T == {k \in Nat : n - k \in S}
<1>1. T # {} /\ T \subseteq Nat
  <2>1. PICK i \in S : TRUE
    OBVIOUS
  <2>2. n - i \in Nat /\ n - (n - i) = i
    BY <2>1
  <2> QED BY <2>1, <2>2
<1>2. IsWellFoundedOn(R, Nat)
  BY NatLessThanWellFounded
<1>3. PICK x \in T : \A y \in T : ~ (<<y, x>> \in R)
  <2> HIDE DEF R, T
  <2> QED BY <1>1, <1>2, WFMin
<1>4. ASSUME NEW i \in S PROVE i <= n - x
  <2>1. n - i \in T
    OBVIOUS
  <2>2. ~(n - i < x)
    BY <1>3, <2>1 DEF OpToRel
  <2> QED BY <2>2
<1>5. n - x \in S
  OBVIOUS
<1> QED BY <1>4, <1>5

-----------------------------------------------------------------------------
(* Loops.  A recursive function on 0 .. n is known only by CHOOSE: these    *)
(* lemmas say that its equation has a solution, and what holds of all its   *)
(* values when every step keeps it.                                         *)
Iterates(n, X, x0, step) ==
  \E f \in [0 .. n -> X] : f[0] = x0 /\ \A i \in 1 .. n : f[i] = step[i][f[i - 1]]

LEMMA Iteration ==
  ASSUME NEW n \in Nat, NEW X, NEW x0 \in X, NEW step \in [1 .. n -> [X -> X]]
  PROVE  Iterates(n, X, x0, step)
<1> DEFINE Runs(f, k) == f[0] = x0 /\ \A i \in 1 .. k : f[i] = step[i][f[i - 1]]
           S == {k \in Nat : k <= n => \E f \in [0 .. k -> X] : Runs(f, k)}
<1>1. 0 \in S
  <2>1. [i \in 0 .. 0 |-> x0] \in [0 .. 0 -> X] /\ Runs([i \in 0 .. 0 |-> x0], 0)
    OBVIOUS
  <2> QED BY <2>1
<1>2. ASSUME NEW k \in Nat, k \in S PROVE k + 1 \in S
  <2>1. SUFFICES ASSUME k + 1 <= n PROVE \E f \in [0 .. k + 1 -> X] : Runs(f, k + 1)
    OBVIOUS
  <2>2. PICK f \in [0 .. k -> X] : Runs(f, k)
    BY <1>2, <2>1
  <2> DEFINE g == [i \in 0 .. k + 1 |-> IF i = k + 1 THEN step[k + 1][f[k]] ELSE f[i]]
  <2>3. step[k + 1][f[k]] \in X
    BY <2>1
  <2>4. g \in [0 .. k + 1 -> X]
    BY <2>3
  <2>5. g[0] = x0
    BY <2>2
  <2>6. ASSUME NEW i \in 1 .. k + 1 PROVE g[i] = step[i][g[i - 1]]
    <3>1. CASE i = k + 1
      BY <3>1
    <3>2. CASE i \in 1 .. k
      BY <2>2, <3>2
    <3> QED BY <3>1, <3>2
  <2> QED BY <2>4, <2>5, <2>6
<1>3. n \in S
  <2> HIDE DEF S
  <2> QED BY <1>1, <1>2, NatSetInduction
<1> QED BY <1>3 DEF Iterates

LEMMA StaysIn ==
  ASSUME NEW n \in Nat, NEW g, NEW X, g[0] \in X,
         \A i \in 1 .. n : g[i - 1] \in X => g[i] \in X
  PROVE  \A i \in 0 .. n : g[i] \in X
<1> DEFINE S == {k \in Nat : k <= n => g[k] \in X}
<1>1. 0 \in S
  OBVIOUS
<1>2. ASSUME NEW k \in Nat, k \in S PROVE k + 1 \in S
  <2>1. SUFFICES ASSUME k + 1 <= n PROVE g[k + 1] \in X
    OBVIOUS
  <2>2. k + 1 \in 1 .. n /\ (k + 1) - 1 = k /\ g[k] \in X
    BY <1>2, <2>1
  <2> QED BY <2>2
<1>3. Nat \subseteq S
  <2> HIDE DEF S
  <2> QED BY <1>1, <1>2, NatSetInduction
<1> QED BY <1>3

-----------------------------------------------------------------------------
(* Sums over finite sets.  SumFunction adds the values up in an order that  *)
(* CHOOSE picks; what it returns does not depend on it.                     *)
Picked(T) == CHOOSE x \in T : TRUE

Adds(g, f, n) ==
  \A T \in SUBSET (DOMAIN f) :
    Cardinality(T) <= n =>
      /\ T = {} => g[T] = 0
      /\ T # {} => g[T] = f[Picked(T)] + g[T \ {Picked(T)}]

Without(S, x) == S \ {x}
Splits(g, f, T, x) == g[T] = g[Without(T, x)] + f[x]

LEMMA PickedIn == \A T : T # {} => Picked(T) \in T
BY DEF Picked

LEMMA PartSize ==
  ASSUME NEW D, IsFiniteSet(D), NEW T \in SUBSET D
  PROVE  /\ IsFiniteSet(T) /\ Cardinality(T) \in Nat /\ (Cardinality(T) = 0 <=> T = {})
         /\ \A x \in T : /\ T \ {x} \in SUBSET D /\ IsFiniteSet(T \ {x})
                         /\ Cardinality(T \ {x}) = Cardinality(T) - 1
<1>1. IsFiniteSet(T)
  BY FS_Subset
<1> QED BY <1>1, FS_CardinalityType, FS_EmptySet, FS_RemoveElement

LEMMA AddsExists ==
  ASSUME NEW D, IsFiniteSet(D), NEW f \in [D -> Int]
  PROVE  \E g \in [SUBSET D -> Int] : Adds(g, f, Cardinality(D))
<1> DEFINE S == {n \in Nat : \E g \in [SUBSET D -> Int] : Adds(g, f, n)}
<1>1. 0 \in S
  <2> DEFINE z == [T \in SUBSET D |-> 0]
  <2>1. \A T \in SUBSET D : Cardinality(T) <= 0 => T = {}
    BY PartSize
  <2>2. Adds(z, f, 0)
    BY <2>1 DEF Adds
  <2>3. z \in [SUBSET D -> Int]
    OBVIOUS
  <2> HIDE DEF z
  <2> QED BY <2>2, <2>3
<1>2. ASSUME NEW n \in Nat, n \in S PROVE n + 1 \in S
  <2>1. PICK g \in [SUBSET D -> Int] : Adds(g, f, n)
    BY <1>2
  <2> DEFINE h == [T \in SUBSET D |-> IF Cardinality(T) = n + 1 THEN f[Picked(T)] + g[T \ {Picked(T)}]
                                      ELSE g[T]]
  <2>2. \A T \in SUBSET D : T # {} => Picked(T) \in T
    BY PickedIn
  <2>3. ASSUME NEW T \in SUBSET D, T # {} PROVE T \ {Picked(T)} \in SUBSET D /\ f[Picked(T)] \in Int
    BY <2>2, <2>3
  <2>4. h \in [SUBSET D -> Int]
    <3>1. SUFFICES ASSUME NEW T \in SUBSET D
                   PROVE (IF Cardinality(T) = n + 1 THEN f[Picked(T)] + g[T \ {Picked(T)}] ELSE g[T]) \in Int
      BY Zenon
    <3>2. CASE Cardinality(T) = n + 1
      <4>1. T # {}
        BY <3>2, PartSize
      <4>2. T \ {Picked(T)} \in SUBSET D /\ f[Picked(T)] \in Int
        BY <2>3, <4>1
      <4>3. f[Picked(T)] + g[T \ {Picked(T)}] \in Int
        BY <2>1, <4>2
      <4> QED BY <3>2, <4>3
    <3>3. CASE Cardinality(T) # n + 1
      BY <2>1, <3>3
    <3> QED BY <3>2, <3>3
  <2>5. ASSUME NEW T \in SUBSET D, Cardinality(T) <= n + 1, T # {}
        PROVE  h[T] = f[Picked(T)] + h[T \ {Picked(T)}]
    <3>1. /\ Cardinality(T) \in Nat /\ T \ {Picked(T)} \in SUBSET D
          /\ Cardinality(T \ {Picked(T)}) = Cardinality(T) - 1
      <4>1. Picked(T) \in T
        BY <2>2, <2>5
      <4>2. /\ Cardinality(T) \in Nat
            /\ \A x \in T : T \ {x} \in SUBSET D /\ Cardinality(T \ {x}) = Cardinality(T) - 1
        BY PartSize
      <4> QED BY <4>1, <4>2
    <3>2. h[T \ {Picked(T)}] = g[T \ {Picked(T)}]
      <4>1. ASSUME NEW U \in SUBSET D, Cardinality(U) # n + 1 PROVE h[U] = g[U]
        BY <4>1
      <4>2. Cardinality(T \ {Picked(T)}) # n + 1
        BY <2>5, <3>1
      <4> QED BY <3>1, <4>1, <4>2
    <3>3. CASE Cardinality(T) = n + 1
      BY <3>2, <3>3
    <3>4. CASE Cardinality(T) <= n
      <4>1. h[T] = g[T]
        BY <3>4
      <4>2. g[T] = f[Picked(T)] + g[T \ {Picked(T)}]
        BY <2>1, <2>5, <3>4 DEF Adds
      <4> QED BY <3>2, <4>1, <4>2
    <3> QED BY <2>5, <3>1, <3>3, <3>4
  <2>6. h[{}] = 0
    <3>1. Cardinality({}) = 0 /\ {} \in SUBSET D
      BY FS_EmptySet
    <3>2. g[{}] = 0
      BY <2>1, <3>1 DEF Adds
    <3> QED BY <3>1, <3>2
  <2> HIDE DEF h
  <2>7. Adds(h, f, n + 1)
    BY <2>5, <2>6 DEF Adds
  <2> QED BY <2>4, <2>7
<1>3. Cardinality(D) \in S
  <2> HIDE DEF S
  <2> QED BY <1>1, <1>2, NatSetInduction, FS_CardinalityType
<1> QED BY <1>3

LEMMA AddsAgree ==
  ASSUME NEW f, NEW e, NEW E, IsFiniteSet(E), E \subseteq DOMAIN f, E \subseteq DOMAIN e,
         \A x \in E : f[x] = e[x], NEW n \in Nat, Cardinality(E) <= n, NEW m \in Nat, Cardinality(E) <= m,
         NEW g, NEW h, Adds(g, f, n), Adds(h, e, m)
  PROVE  g[E] = h[E]
<1> DEFINE S == {k \in Nat : \A T \in SUBSET E : Cardinality(T) = k => g[T] = h[T]}
<1>0. \A T \in SUBSET E : /\ Cardinality(T) \in Nat
                          /\ Cardinality(T) <= n /\ Cardinality(T) <= m
  BY FS_Subset, FS_CardinalityType
<1>1. 0 \in S
  <2>1. SUFFICES ASSUME NEW T \in SUBSET E, Cardinality(T) = 0 PROVE g[T] = h[T]
    OBVIOUS
  <2>2. T = {} /\ Cardinality(T) <= n /\ Cardinality(T) <= m
    BY <1>0, <2>1, PartSize
  <2>3. T \in SUBSET (DOMAIN f) /\ T \in SUBSET (DOMAIN e)
    OBVIOUS
  <2>4. g[T] = 0
    BY <2>2, <2>3 DEF Adds
  <2>5. h[T] = 0
    BY <2>2, <2>3 DEF Adds
  <2> QED BY <2>4, <2>5
<1>2. ASSUME NEW k \in Nat, k \in S PROVE k + 1 \in S
  <2>1. SUFFICES ASSUME NEW T \in SUBSET E, Cardinality(T) = k + 1 PROVE g[T] = h[T]
    OBVIOUS
  <2>2. T # {} /\ Cardinality(T) <= n /\ Cardinality(T) <= m
    BY <1>0, <2>1, PartSize
  <2>3. T \in SUBSET (DOMAIN f) /\ T \in SUBSET (DOMAIN e)
    OBVIOUS
  <2>4. g[T] = f[Picked(T)] + g[T \ {Picked(T)}]
    BY <2>2, <2>3 DEF Adds
  <2>5. h[T] = e[Picked(T)] + h[T \ {Picked(T)}]
    BY <2>2, <2>3 DEF Adds
  <2>6. Picked(T) \in T
    BY <2>2, PickedIn
  <2>7. T \ {Picked(T)} \in SUBSET E /\ Cardinality(T \ {Picked(T)}) = k
    <3>1. \A x \in T : T \ {x} \in SUBSET E /\ Cardinality(T \ {x}) = Cardinality(T) - 1
      BY PartSize
    <3> QED BY <2>1, <2>6, <3>1
  <2>8. g[T \ {Picked(T)}] = h[T \ {Picked(T)}]
    BY <1>2, <2>7
  <2>9. f[Picked(T)] = e[Picked(T)]
    BY <2>6
  <2> QED BY <2>4, <2>5, <2>8, <2>9
<1>3. Cardinality(E) \in S
  <2> HIDE DEF S
  <2> QED BY <1>0, <1>1, <1>2, NatSetInduction
<1> QED BY <1>3

(* What the fold computes. *)
LEMMA SumIsAdds ==
  ASSUME NEW D, IsFiniteSet(D), NEW f \in [D -> Int]
  PROVE  \E g \in [SUBSET D -> Int] :
            Adds(g, f, Cardinality(D)) /\ SumFunction(f) = g[D]
<1> DEFINE Eqn(g) == g = [T \in SUBSET D |->
                            IF T = {} THEN 0 ELSE f[Picked(T)] + g[T \ {Picked(T)}]]
           c == CHOOSE g : Eqn(g)
<1>1. PICK g \in [SUBSET D -> Int] : Adds(g, f, Cardinality(D))
  BY AddsExists
<1>2. Eqn(g)
  <2>1. \A T \in SUBSET D : Cardinality(T) <= Cardinality(D)
    BY FS_Subset
  <2>2. \A T \in SUBSET D : g[T] = IF T = {} THEN 0 ELSE f[Picked(T)] + g[T \ {Picked(T)}]
    BY <1>1, <2>1 DEF Adds
  <2> QED BY <2>2
<1>3. Eqn(c)
  BY <1>2
<1>4. SumFunction(f) = c[D]
  BY DEF SumFunction, SumFunctionOnSet, FoldFunctionOnSet, MapThenFoldSet, Picked
<1> HIDE DEF c
<1>5. \A T \in SUBSET D : c[T] = IF T = {} THEN 0 ELSE f[Picked(T)] + c[T \ {Picked(T)}]
  BY <1>3
<1>6. Adds(c, f, Cardinality(D))
  BY <1>5 DEF Adds
<1>7. c[D] = g[D]
  <2>1. Cardinality(D) \in Nat
    BY FS_CardinalityType
  <2> QED BY <1>1, <1>6, <2>1, AddsAgree
<1> QED BY <1>1, <1>4, <1>7

LEMMA SumIsInt ==
  ASSUME NEW D, IsFiniteSet(D), NEW f \in [D -> Int]
  PROVE  SumFunction(f) \in Int
<1>1. PICK g \in [SUBSET D -> Int] : SumFunction(f) = g[D]
  BY SumIsAdds
<1>2. D \in SUBSET D
  OBVIOUS
<1> QED BY <1>1, <1>2

(* The order does not matter. *)
LEMMA AddsAny ==
  ASSUME NEW D, IsFiniteSet(D), NEW f \in [D -> Int],
         NEW g \in [SUBSET D -> Int], Adds(g, f, Cardinality(D))
  PROVE  \A T \in SUBSET D : \A x \in T : Splits(g, f, T, x)
<1> DEFINE S == {k \in Nat : \A T \in SUBSET D : Cardinality(T) = k =>
                    \A x \in T : g[T] = g[Without(T, x)] + f[x]}
<1>0. \A T \in SUBSET D : Cardinality(T) \in Nat /\ Cardinality(T) <= Cardinality(D)
  BY FS_Subset, FS_CardinalityType
<1>1. 0 \in S
  BY PartSize
<1>2. ASSUME NEW k \in Nat, k \in S PROVE k + 1 \in S
  <2>1. SUFFICES ASSUME NEW T \in SUBSET D, Cardinality(T) = k + 1, NEW x \in T
                 PROVE  g[T] = g[Without(T, x)] + f[x]
    OBVIOUS
  <2>2. PICK a \in T : a = Picked(T)
    BY PickedIn
  <2> DEFINE U == Without(T, a)
             V == Without(T, x)
             W == Without(U, x)
  <2>3. U \in SUBSET D /\ V \in SUBSET D /\ W \in SUBSET D
    BY DEF Without
  <2>4. W = Without(V, a)
    BY DEF Without
  <2>5. Cardinality(U) = k /\ Cardinality(V) = k
    <3>1. \A y \in T : Cardinality(T \ {y}) = Cardinality(T) - 1
      BY PartSize
    <3> QED BY <2>1, <3>1 DEF Without
  <2>6. g[T] = f[a] + g[U]
    BY <1>0, <2>2 DEF Adds, Without
  <2>7. g[U] \in Int /\ g[V] \in Int /\ g[W] \in Int /\ f[a] \in Int /\ f[x] \in Int
    BY <2>3
  <2>8. CASE x = a
    BY <2>6, <2>7, <2>8
  <2>9. CASE x # a
    <3>1. x \in U /\ a \in V
      BY <2>9 DEF Without
    <3> HIDE DEF U, V
    <3>2. g[U] = g[W] + f[x]
      BY <1>2, <2>3, <2>5, <3>1
    <3>3. g[V] = g[Without(V, a)] + f[a]
      BY <1>2, <2>3, <2>5, <3>1
    <3> HIDE DEF W
    <3>4. g[T] = g[V] + f[x]
      BY <2>4, <2>6, <2>7, <3>2, <3>3
    <3> QED BY <3>4 DEF V
  <2> QED BY <2>8, <2>9
<1>3. Nat \subseteq S
  <2> HIDE DEF S
  <2> QED BY <1>1, <1>2, NatSetInduction
<1> QED BY <1>0, <1>3 DEF Splits

(* The sum without one of the terms is less by it. *)
LEMMA SumWithout ==
  ASSUME NEW D, IsFiniteSet(D), NEW f \in [D -> Int], NEW x \in D,
         NEW e \in [Without(D, x) -> Int], \A y \in Without(D, x) : e[y] = f[y]
  PROVE  SumFunction(f) \in Int /\ SumFunction(e) = SumFunction(f) - f[x]
<1> DEFINE R == Without(D, x)
<1>1. PICK g \in [SUBSET D -> Int] : Adds(g, f, Cardinality(D)) /\ SumFunction(f) = g[D]
  BY SumIsAdds
<1>2. R \in SUBSET D
  BY DEF Without
<1>3. IsFiniteSet(R) /\ Cardinality(R) \in Nat /\ Cardinality(D) \in Nat
      /\ Cardinality(R) <= Cardinality(D)
  BY <1>2, FS_Subset, FS_CardinalityType
<1>4. PICK h \in [SUBSET R -> Int] : Adds(h, e, Cardinality(R)) /\ SumFunction(e) = h[R]
  BY <1>3, SumIsAdds
<1>5. g[D] = g[R] + f[x]
  <2>1. D \in SUBSET D
    OBVIOUS
  <2>2. Splits(g, f, D, x)
    BY <1>1, <2>1, AddsAny
  <2> QED BY <2>2 DEF Splits
<1>6. g[R] = h[R]
  <2>1. R \subseteq DOMAIN f /\ R \subseteq DOMAIN e /\ \A y \in R : f[y] = e[y]
    BY <1>2
  <2> QED BY <1>1, <1>3, <1>4, <2>1, AddsAgree
<1>7. g[D] \in Int /\ g[R] \in Int /\ f[x] \in Int
  BY <1>2
<1> QED BY <1>1, <1>4, <1>5, <1>6, <1>7

LEMMA SumOfNothing ==
  ASSUME NEW f \in [{} -> Int]
  PROVE  SumFunction(f) = 0
<1>1. IsFiniteSet({}) /\ Cardinality({}) = 0
  BY FS_EmptySet
<1>2. PICK g \in [SUBSET {} -> Int] : Adds(g, f, 0) /\ SumFunction(f) = g[{}]
  BY <1>1, SumIsAdds
<1>3. {} \in SUBSET (DOMAIN f)
  OBVIOUS
<1>4. \A T \in SUBSET (DOMAIN f) : Cardinality(T) <= 0 => (T = {} => g[T] = 0)
  BY <1>2 DEF Adds
<1>5. 0 <= 0
  OBVIOUS
<1> QED BY <1>1, <1>2, <1>3, <1>4, <1>5

(* Changing one term changes the sum by as much. *)
LEMMA SumWith ==
  ASSUME NEW D, IsFiniteSet(D), NEW f \in [D -> Int], NEW e \in [D -> Int], NEW x \in D,
         \A y \in Without(D, x) : e[y] = f[y]
  PROVE  SumFunction(e) = SumFunction(f) + e[x] - f[x]
<1> DEFINE R == Without(D, x)
           r == [y \in R |-> f[y]]
<1>1. r \in [R -> Int] /\ (\A y \in R : r[y] = f[y]) /\ (\A y \in R : r[y] = e[y])
  BY DEF Without
<1> HIDE DEF r
<1>2. SumFunction(f) \in Int /\ SumFunction(r) = SumFunction(f) - f[x]
  BY <1>1, SumWithout
<1>3. SumFunction(e) \in Int /\ SumFunction(r) = SumFunction(e) - e[x]
  BY <1>1, SumWithout
<1> QED BY <1>2, <1>3

(* What holds of sums by induction over the size of the domain: a sum of   *)
(* naturals is one, and no term exceeds it.                                *)
LEMMA SumOfNats ==
  ASSUME NEW D, IsFiniteSet(D), NEW f \in [D -> Nat]
  PROVE  SumFunction(f) \in Nat /\ \A x \in D : f[x] <= SumFunction(f)
<1> DEFINE Nats(E) == \A e \in [E -> Nat] :
                        SumFunction(e) \in Nat /\ \A x \in E : e[x] <= SumFunction(e)
           S == {k \in Nat : \A E : IsFiniteSet(E) /\ Cardinality(E) = k => Nats(E)}
<1>1. 0 \in S
  <2>1. SUFFICES ASSUME NEW E, IsFiniteSet(E), Cardinality(E) = 0 PROVE Nats(E)
    BY Zenon
  <2>2. E = {}
    BY <2>1, FS_EmptySet
  <2>3. ASSUME NEW e \in [E -> Nat] PROVE SumFunction(e) = 0
    <3>1. e \in [{} -> Int]
      BY <2>2
    <3> QED BY <3>1, SumOfNothing
  <2>4. \A x \in E : FALSE
    BY <2>2
  <2> QED BY <2>3, <2>4
<1>2. ASSUME NEW k \in Nat, k \in S PROVE k + 1 \in S
  <2>1. SUFFICES ASSUME NEW E, IsFiniteSet(E), Cardinality(E) = k + 1, NEW e \in [E -> Nat]
                 PROVE  SumFunction(e) \in Nat /\ \A x \in E : e[x] <= SumFunction(e)
    OBVIOUS
  <2>2. ASSUME NEW x \in E PROVE SumFunction(e) \in Nat /\ e[x] <= SumFunction(e)
    <3> DEFINE R == Without(E, x)
               r == [y \in R |-> e[y]]
    <3>1. IsFiniteSet(R) /\ Cardinality(R) = k
      <4>1. E \in SUBSET E
        OBVIOUS
      <4>2. \A y \in E : IsFiniteSet(E \ {y}) /\ Cardinality(E \ {y}) = Cardinality(E) - 1
        BY <2>1, <4>1, PartSize
      <4> QED BY <2>1, <4>2 DEF Without
    <3>2. r \in [R -> Nat] /\ \A y \in R : r[y] = e[y]
      BY DEF Without
    <3>3. r \in [R -> Int] /\ e \in [E -> Int]
      BY DEF Without
    <3>4. Nats(R)
      BY <1>2, <3>1
    <3> HIDE DEF r
    <3>5. SumFunction(e) \in Int /\ SumFunction(r) = SumFunction(e) - e[x]
      BY <2>1, <3>2, <3>3, SumWithout
    <3>6. SumFunction(r) \in Nat
      BY <3>2, <3>4
    <3> QED BY <3>5, <3>6
  <2>3. E # {}
    BY <2>1, FS_EmptySet
  <2> QED BY <2>2, <2>3
<1>3. Nat \subseteq S
  <2> HIDE DEF S
  <2> QED BY <1>1, <1>2, NatSetInduction
<1> QED BY <1>3, FS_CardinalityType

-----------------------------------------------------------------------------
(* A finite set that a relation orders has a first element.                *)
Ordered(R, S) ==
  /\ \A x, y \in S : <<x, y>> \in R \/ <<y, x>> \in R
  /\ \A x, y, z \in S : <<x, y>> \in R /\ <<y, z>> \in R => <<x, z>> \in R

LEMMA FirstOf ==
  ASSUME NEW D, IsFiniteSet(D), D # {}, NEW R, Ordered(R, D)
  PROVE  \E m \in D : \A x \in D : <<m, x>> \in R
<1> DEFINE Least(E) == \E m \in E : \A x \in E : <<m, x>> \in R
           S == {k \in Nat : \A E \in SUBSET D : Cardinality(E) = k /\ E # {} => Least(E)}
<1>1. 0 \in S
  BY PartSize
<1>2. ASSUME NEW k \in Nat, k \in S PROVE k + 1 \in S
  <2>1. SUFFICES ASSUME NEW E \in SUBSET D, Cardinality(E) = k + 1, E # {} PROVE Least(E)
    OBVIOUS
  <2>2. PICK e \in E : TRUE
    BY <2>1
  <2>3. E \ {e} \in SUBSET D /\ Cardinality(E \ {e}) = k
    <3>1. \A x \in E : E \ {x} \in SUBSET D /\ Cardinality(E \ {x}) = Cardinality(E) - 1
      BY PartSize
    <3> QED BY <2>1, <3>1
  <2>4. <<e, e>> \in R
    BY DEF Ordered
  <2>5. CASE E \ {e} = {}
    BY <2>2, <2>4, <2>5
  <2>6. CASE E \ {e} # {}
    <3>1. PICK m \in E \ {e} : \A x \in E \ {e} : <<m, x>> \in R
      BY <1>2, <2>3, <2>6
    <3>2. CASE <<m, e>> \in R
      BY <3>1, <3>2
    <3>3. CASE <<e, m>> \in R
      <4>1. \A x \in E : <<e, x>> \in R
        BY <2>4, <3>1, <3>3 DEF Ordered
      <4> QED BY <4>1
    <3> QED BY <3>1, <3>2, <3>3 DEF Ordered
  <2> QED BY <2>5, <2>6
<1>3. Nat \subseteq S
  <2> HIDE DEF S
  <2> QED BY <1>1, <1>2, NatSetInduction
<1>4. D \in SUBSET D /\ Cardinality(D) \in Nat
  BY FS_CardinalityType
<1> QED BY <1>3, <1>4
=============================================================================
