--------------------------- MODULE BlockchainProofs ---------------------------
(***************************************************************************)
(* What holds of the chain and of the pending transactions for any tree of *)
(* blocks, in whatever order they arrive, and any transactions, as long as *)
(* the node was not restarted: after a restart the transaction_objects of  *)
(* replayed blocks are missing.                                            *)
(***************************************************************************)
EXTENDS Blockchain, SumsProofs, SequenceTheorems

Chains == Seq(Entries)
LongChains == Chains \ {<<>>}

(* Sequences and their beginnings. *)
LEMMA UptoIs ==
  ASSUME NEW S, NEW s \in Seq(S), NEW i \in 0 .. Len(s)
  PROVE  /\ Upto(s, i) \in Seq(S) /\ Len(Upto(s, i)) = i /\ DOMAIN Upto(s, i) = 1 .. i
         /\ \A j \in 1 .. i : Upto(s, i)[j] = s[j]
<1>1. Len(s) \in Nat /\ \A j \in 1 .. i : s[j] \in S
  BY LenProperties, ElementOfSeq
<1>2. SubSeq(s, 1, i) \in Seq(S) /\ Len(SubSeq(s, 1, i)) = IF 1 <= i THEN i - 1 + 1 ELSE 0
  BY <1>1, SubSeqProperties
<1>3. \A j \in 1 .. i - 1 + 1 : SubSeq(s, 1, i)[j] = s[1 + j - 1]
  BY <1>1, SubSeqProperties
<1>4. Len(SubSeq(s, 1, i)) = i
  BY <1>1, <1>2
<1>5. DOMAIN SubSeq(s, 1, i) = 1 .. i
  BY <1>2, <1>4, LenProperties
<1> QED BY <1>1, <1>2, <1>3, <1>4, <1>5 DEF Upto

LEMMA UptoUpto ==
  ASSUME NEW S, NEW s \in Seq(S), NEW j \in 0 .. Len(s), NEW i \in 0 .. j
  PROVE  Upto(Upto(s, j), i) = Upto(s, i)
<1>1. Len(s) \in Nat /\ i \in 0 .. Len(s)
  BY LenProperties
<1> DEFINE u == Upto(s, j)
<1>2. u \in Seq(S) /\ Len(u) = j /\ \A k \in 1 .. j : u[k] = s[k]
  BY UptoIs
<1> HIDE DEF u
<1>3. Upto(u, i) \in Seq(S) /\ Len(Upto(u, i)) = i /\ \A k \in 1 .. i : Upto(u, i)[k] = u[k]
  BY <1>2, UptoIs
<1>4. Upto(s, i) \in Seq(S) /\ Len(Upto(s, i)) = i /\ \A k \in 1 .. i : Upto(s, i)[k] = s[k]
  BY <1>1, UptoIs
<1>5. \A k \in 1 .. i : Upto(u, i)[k] = Upto(s, i)[k]
  BY <1>2, <1>3, <1>4
<1>6. Upto(u, i) = Upto(s, i)
  BY <1>3, <1>4, <1>5, SeqEqual
<1> QED BY <1>6 DEF u

LEMMA UptoAll ==
  ASSUME NEW S, NEW s \in Seq(S)
  PROVE  Upto(s, Len(s)) = s
BY SubSeqFull DEF Upto

(* A block is its previous block and one more entry. *)
LEMMA BlockParts ==
  ASSUME NEW b \in LongChains
  PROVE  /\ Len(b) \in Nat \ {0}
         /\ previous(b) = Upto(b, Len(b) - 1) /\ previous(b) \in Chains
         /\ Len(previous(b)) = Len(b) - 1
         /\ Last(b) = b[Len(b)] /\ Last(b) \in Entries
<1>1. b \in Seq(Entries) /\ b # <<>>
  BY DEF LongChains, Chains
<1>2. Len(b) \in Nat \ {0}
  BY <1>1, EmptySeq
<1>3. previous(b) = Upto(b, Len(b) - 1)
  BY DEF previous, Front, Upto
<1>4. Len(b) - 1 \in 0 .. Len(b) /\ Len(b) \in 1 .. Len(b)
  BY <1>2
<1> QED BY <1>1, <1>2, <1>3, <1>4, UptoIs, ElementOfSeq DEF Last, Chains

LEMMA PreviousTyped ==
  ASSUME NEW b \in Chains
  PROVE  previous(b) \in Chains
<1>1. CASE b = <<>>
  <2>1. previous(b) = SubSeq(b, 1, Len(b) - 1) /\ Len(b) = 0
    BY <1>1 DEF previous, Front
  <2>2. previous(b) = <<>>
    BY <2>1, SubSeqEmpty
  <2> QED BY <2>2, EmptySeq DEF Chains
<1>2. CASE b # <<>>
  BY <1>2, BlockParts DEF LongChains
<1> QED BY <1>1, <1>2

LEMMA EntryTyped ==
  ASSUME NEW e \in Entries
  PROVE  e.txs \in Seq(Txs) /\ Len(e.txs) \in Nat /\ DOMAIN e.txs = 1 .. Len(e.txs)
<1>1. e.txs \in Seq(Txs)
  BY DEF Entries
<1> QED BY <1>1, LenProperties
-----------------------------------------------------------------------------
(* Extremes. *)
LEMMA LargestOf ==
  ASSUME NEW n \in Nat, NEW S \in SUBSET (0 .. n), S # {}
  PROVE  Max(S) \in S /\ \A i \in S : i <= Max(S)
<1>1. \E m \in S : \A i \in S : i <= m
  <2>1. CASE S = {0}
    BY <2>1
  <2>2. CASE S # {0}
    <3> DEFINE T == S \ {0}
    <3>1. T \in SUBSET (1 .. n) /\ T # {}
      BY <2>2
    <3>2. \E m \in T : \A i \in T : i <= m
      <4> HIDE DEF T
      <4> QED BY <3>1, LastOf
    <3> QED BY <3>2
  <2> QED BY <2>1, <2>2
<1>2. \E m \in S : \A i \in S : m >= i
  BY <1>1
<1>3. Max(S) \in S /\ \A i \in S : Max(S) >= i
  BY <1>2 DEF Max
<1> QED BY <1>3

LEMMA SmallerOf ==
  ASSUME NEW a \in Int, NEW b \in Int
  PROVE  Min({a, b}) \in {a, b} /\ Min({a, b}) <= a /\ Min({a, b}) <= b
<1>1. \E x \in {a, b} : \A y \in {a, b} : x =< y
  OBVIOUS
<1>2. Min({a, b}) \in {a, b} /\ \A y \in {a, b} : Min({a, b}) =< y
  BY <1>1 DEF Min
<1> QED BY <1>2

LEMMA LargerOf ==
  ASSUME NEW a \in Int, NEW b \in Int
  PROVE  Max({a, b}) \in {a, b} /\ a <= Max({a, b}) /\ b <= Max({a, b})
<1>1. \E x \in {a, b} : \A y \in {a, b} : x >= y
  OBVIOUS
<1>2. Max({a, b}) \in {a, b} /\ \A y \in {a, b} : Max({a, b}) >= y
  BY <1>1 DEF Max
<1> QED BY <1>2

-----------------------------------------------------------------------------
(* Numbers of blocks and of undo entries. *)
LEMMA LastConfirmedTyped ==
  ASSUME NEW b \in Chains, NEW w
  PROVE  last_confirmed_block_num(b, w) \in 0 .. Len(b)
<1> DEFINE S == {0} \cup {i \in DOMAIN b : Schedule[b[i].time] = w}
<1>1. Len(b) \in Nat /\ DOMAIN b = 1 .. Len(b)
  BY LenProperties DEF Chains
<1>2. S \in SUBSET (0 .. Len(b)) /\ S # {}
  BY <1>1
<1>3. last_confirmed_block_num(b, w) = Max(S)
  BY DEF last_confirmed_block_num
<1> HIDE DEF S
<1> QED BY <1>1, <1>2, <1>3, LargestOf

(* There is a last irreversible block: at least the least confirmed one    *)
(* has few enough below it.                                                *)
LEMMA LastIrreversibleTyped ==
  ASSUME NEW b \in Chains
  PROVE  last_irreversible_block_num(b) \in 0 .. Len(b)
<1> DEFINE L(w) == last_confirmed_block_num(b, w)
           confirmed == {L(w) : w \in Witnesses}
           offset == (30 * Cardinality(Witnesses)) \div 100
           Below(n) == {w \in Witnesses : L(w) < n}
           T == {n \in confirmed : Cardinality(Below(n)) <= offset}
<1>1. Len(b) \in Nat
  BY LenProperties DEF Chains
<1>2. \A w \in Witnesses : L(w) \in 0 .. Len(b)
  BY LastConfirmedTyped
<1>3. IsFiniteSet(Witnesses) /\ Witnesses # {}
  BY BlockchainAssumption
<1>4. offset \in Nat
  <2> DEFINE c == Cardinality(Witnesses)
  <2>1. c \in Nat
    BY <1>3, FS_CardinalityType
  <2> HIDE DEF c
  <2>2. (30 * c) \div 100 \in Nat
    BY <2>1
  <2> QED BY <2>2 DEF c
<1>5. last_irreversible_block_num(b) = Max(T)
  BY DEF last_irreversible_block_num
<1> HIDE DEF L, offset
<1>6. PICK m \in confirmed : \A n \in confirmed : m <= n
  <2> DEFINE R == OpToRel(<, Nat)
  <2>1. confirmed \subseteq Nat /\ confirmed # {}
    BY <1>1, <1>2, <1>3
  <2>2. IsWellFoundedOn(R, Nat)
    BY NatLessThanWellFounded
  <2>3. PICK x \in confirmed : \A y \in confirmed : ~(<<y, x>> \in R)
    <3> HIDE DEF R, confirmed
    <3> QED BY <2>1, <2>2, WFMin
  <2>4. \A y \in confirmed : ~(y < x)
    BY <2>1, <2>3 DEF OpToRel
  <2> QED BY <2>1, <2>4
<1>7. Below(m) = {}
  <2> SUFFICES ASSUME NEW w \in Witnesses, L(w) < m PROVE FALSE
    OBVIOUS
  <2> QED BY <1>2, <1>6
<1>8. m \in T
  <2>1. Cardinality(Below(m)) = 0
    BY <1>7, FS_EmptySet
  <2> QED BY <1>4, <1>6, <2>1
<1>9. T \in SUBSET (0 .. Len(b)) /\ T # {}
  BY <1>2, <1>8
<1> HIDE DEF T
<1> QED BY <1>1, <1>5, <1>9, LargestOf

LEMMA SizesTyped ==
  ASSUME NEW b \in LongChains
  PROVE  SizeWith(b) \in Nat \ {0}
<1>1. Len(b) \in Nat \ {0} /\ previous(b) \in Chains /\ Len(previous(b)) = Len(b) - 1
  BY BlockParts
<1>2. last_irreversible_block_num(previous(b)) \in 0 .. Len(b) - 1
  BY <1>1, LastIrreversibleTyped
<1> QED BY <1>1, <1>2 DEF SizeWith

LEMMA UndoTyped ==
  ASSUME NEW u \in Int, NEW size \in Int, NEW txs
  PROVE  /\ start_undo_session(u, size) \in Int
         /\ Depth(txs) \in {0, 1}
         /\ \A d \in {0, 1, 2} : Nested(u, size, d) \in Int
         /\ Nested(u, size, Depth(txs)) \in Int /\ Nested(u, size, 1 + Depth(txs)) \in Int
<1>1. start_undo_session(u, size) \in Int
  <2>1. Min({u, size}) \in Int
    BY SmallerOf
  <2> QED BY <2>1 DEF start_undo_session
<1>2. Depth(txs) \in {0, 1}
  BY DEF Depth
<1>3. ASSUME NEW d \in {0, 1, 2} PROVE Nested(u, size, d) \in Int
  <2>1. size + 1 - d \in Int
    OBVIOUS
  <2>2. Min({u, size + 1 - d}) \in Int
    BY <2>1, SmallerOf
  <2> QED BY <2>2 DEF Nested
<1> QED BY <1>1, <1>2, <1>3
-----------------------------------------------------------------------------
(* t may follow the chain c and the transactions done on top of it. *)
Follows(c, done, t) ==
  /\ t \notin {u \in Included(c) : ~Expired(c, u)} \cup ToSet(done)
  /\ IsPrefix(TaPoS[t], c)
  /\ head_block_time(c) <= Expiration[t]
  /\ Needs[t] \subseteq Included(c) \cup ToSet(done)

AllFollow(c, txs) == \A k \in DOMAIN txs : Follows(c, Upto(txs, k - 1), txs[k])

(* Each transaction of the chain could follow what was before it. *)
Sound(b) == \A i \in DOMAIN b : AllFollow(Upto(b, i - 1), b[i].txs)

(* The nodes that the functions of the chain map to each other. *)
Nodes ==
  [head : Chains, fork_head : Chains, index : SUBSET Chains, max_size : Int, undo : Int,
   session : BOOLEAN, pending : Seq(Txs), replayed : SUBSET Chains, log : Seq(Chains),
   synced : Seq(Chains), held : SUBSET Chains, popped : Seq(Txs), replaying : BOOLEAN,
   thrown : BOOLEAN]

(* With a sound chain whose transaction_objects are all there, and pending *)
(* transactions that follow it; or with none pending.                      *)
Waiting ==
  {n \in Nodes : /\ n.replayed = {} /\ ~n.replaying /\ Sound(n.head)
                 /\ AllFollow(n.head, n.pending)
                 /\ n.pending # <<>> => n.session}

Quiet == {n \in Waiting : n.pending = <<>> /\ ~n.session}

LEMMA NothingFollows ==
  ASSUME NEW c
  PROVE  AllFollow(c, <<>>)
BY DEF AllFollow

LEMMA ApplyIs ==
  ASSUME NEW n \in Nodes, n.replayed = {}, ~n.replaying, NEW done, NEW t
  PROVE  _apply_transaction(n, done, t) = Follows(n.head, done, t)
<1>1. {j \in DOMAIN n.head : Upto(n.head, j) \notin n.replayed} = DOMAIN n.head
  OBVIOUS
<1>2. transactions(n) = {u \in Included(n.head) : ~Expired(n.head, u)}
  BY <1>1 DEF transactions, Included
<1> QED BY <1>2 DEF _apply_transaction, Follows

(* One more that follows, and the first of some that follow. *)
LEMMA FollowAppend ==
  ASSUME NEW c, NEW txs \in Seq(Txs), NEW t \in Txs, AllFollow(c, txs), Follows(c, txs, t)
  PROVE  AllFollow(c, Append(txs, t)) /\ Append(txs, t) \in Seq(Txs)
<1> DEFINE new == Append(txs, t)
<1>1. /\ Len(txs) \in Nat /\ new \in Seq(Txs) /\ Len(new) = Len(txs) + 1
      /\ DOMAIN new = 1 .. Len(txs) + 1 /\ DOMAIN txs = 1 .. Len(txs)
      /\ \A k \in 1 .. Len(txs) : new[k] = txs[k]
      /\ new[Len(txs) + 1] = t
  BY LenProperties
<1> HIDE DEF new
<1>2. ASSUME NEW k \in 0 .. Len(txs) PROVE Upto(new, k) = Upto(txs, k)
  <2>1. k \in 0 .. Len(new)
    BY <1>1
  <2>2. /\ Upto(new, k) \in Seq(Txs) /\ Len(Upto(new, k)) = k
        /\ \A j \in 1 .. k : Upto(new, k)[j] = new[j]
    BY <1>1, <2>1, UptoIs
  <2>3. /\ Upto(txs, k) \in Seq(Txs) /\ Len(Upto(txs, k)) = k
        /\ \A j \in 1 .. k : Upto(txs, k)[j] = txs[j]
    BY UptoIs
  <2>4. \A j \in 1 .. k : Upto(new, k)[j] = Upto(txs, k)[j]
    BY <1>1, <2>2, <2>3
  <2> QED BY <2>2, <2>3, <2>4, SeqEqual
<1>3. ASSUME NEW k \in DOMAIN new PROVE Follows(c, Upto(new, k - 1), new[k])
  <2>0. k - 1 \in 0 .. Len(txs)
    BY <1>1
  <2>1. CASE k \in DOMAIN txs
    BY <1>1, <1>2, <2>0, <2>1 DEF AllFollow
  <2>2. CASE k = Len(txs) + 1
    <3>1. Upto(new, k - 1) = txs
      BY <1>1, <1>2, <2>0, <2>2, UptoAll
    <3> QED BY <1>1, <2>2, <3>1
  <2> QED BY <1>1, <2>1, <2>2
<1> QED BY <1>1, <1>3 DEF AllFollow, new

(* Blocks that are popped leave a sound chain. *)
LEMMA SoundUpto ==
  ASSUME NEW b \in Chains, Sound(b), NEW j \in 0 .. Len(b)
  PROVE  Sound(Upto(b, j))
<1>1. Len(b) \in Nat /\ DOMAIN b = 1 .. Len(b)
  BY LenProperties DEF Chains
<1>2. DOMAIN Upto(b, j) = 1 .. j /\ \A i \in 1 .. j : Upto(b, j)[i] = b[i]
  BY UptoIs DEF Chains
<1>3. ASSUME NEW i \in 1 .. j PROVE AllFollow(Upto(Upto(b, j), i - 1), Upto(b, j)[i].txs)
  <2>1. i - 1 \in 0 .. j /\ i \in DOMAIN b
    BY <1>1
  <2>2. Upto(Upto(b, j), i - 1) = Upto(b, i - 1)
    BY <2>1, UptoUpto DEF Chains
  <2> QED BY <1>2, <2>1, <2>2 DEF Sound
<1> QED BY <1>2, <1>3 DEF Sound

LEMMA SoundPrevious ==
  ASSUME NEW b \in Chains, Sound(b)
  PROVE  Sound(previous(b))
<1>1. CASE b = <<>>
  <2>1. previous(b) = SubSeq(b, 1, Len(b) - 1) /\ Len(b) = 0
    BY <1>1 DEF previous, Front
  <2>2. previous(b) = <<>>
    BY <2>1, SubSeqEmpty
  <2> QED BY <2>2 DEF Sound
<1>2. CASE b # <<>>
  <2>1. previous(b) = Upto(b, Len(b) - 1) /\ Len(b) - 1 \in 0 .. Len(b)
    BY <1>2, BlockParts DEF LongChains
  <2> QED BY <2>1, SoundUpto
<1> QED BY <1>1, <1>2

LEMMA SoundBlock ==
  ASSUME NEW b \in LongChains, Sound(previous(b)), AllFollow(previous(b), Last(b).txs)
  PROVE  Sound(b)
<1>1. /\ Len(b) \in Nat \ {0} /\ previous(b) = Upto(b, Len(b) - 1) /\ Last(b) = b[Len(b)]
      /\ b \in Chains
  BY BlockParts DEF LongChains
<1> DEFINE p == Upto(b, Len(b) - 1)
<1>2. /\ DOMAIN b = 1 .. Len(b) /\ Len(b) - 1 \in 0 .. Len(b)
      /\ DOMAIN p = 1 .. Len(b) - 1 /\ \A i \in 1 .. Len(b) - 1 : p[i] = b[i]
  BY <1>1, UptoIs, LenProperties DEF Chains
<1>3. ASSUME NEW i \in DOMAIN b PROVE AllFollow(Upto(b, i - 1), b[i].txs)
  <2>1. CASE i = Len(b)
    BY <1>1, <2>1
  <2>2. CASE i \in 1 .. Len(b) - 1
    <3>1. i - 1 \in 0 .. Len(b) - 1
      BY <2>2
    <3>2. Upto(p, i - 1) = Upto(b, i - 1)
      BY <1>1, <1>2, <3>1, UptoUpto DEF Chains
    <3>3. AllFollow(Upto(p, i - 1), p[i].txs)
      BY <1>1, <1>2, <2>2 DEF Sound
    <3> QED BY <1>2, <2>2, <3>2, <3>3
  <2> QED BY <1>1, <1>2, <2>1, <2>2
<1> QED BY <1>3 DEF Sound

(* A block that applies has no transaction that fails. *)
LEMMA AllApplied ==
  ASSUME NEW n \in Nodes, n.replayed = {}, ~n.replaying, NEW e \in Entries,
         AppliedTxs(n, e) = e.txs
  PROVE  AllFollow(n.head, e.txs)
<1> DEFINE Applied(k) == _apply_transaction(n, Upto(e.txs, k - 1), e.txs[k])
           S == {0} \cup {i \in DOMAIN e.txs : \A k \in 1 .. i : Applied(k)}
<1>1. e.txs \in Seq(Txs) /\ Len(e.txs) \in Nat /\ DOMAIN e.txs = 1 .. Len(e.txs)
  BY EntryTyped
<1>2. AppliedTxs(n, e) = Upto(e.txs, Max(S))
  BY DEF AppliedTxs
<1>3. S \in SUBSET (0 .. Len(e.txs)) /\ S # {}
  <2> HIDE DEF Applied
  <2> QED BY <1>1
<1>4. Max(S) \in S
  <2> HIDE DEF S
  <2> QED BY <1>1, <1>3, LargestOf
<1>5. Max(S) \in 0 .. Len(e.txs)
  <2> HIDE DEF S
  <2> QED BY <1>3, <1>4
<1>6. Max(S) = Len(e.txs)
  <2> HIDE DEF S
  <2>1. Len(Upto(e.txs, Max(S))) = Max(S)
    BY <1>1, <1>5, UptoIs
  <2> QED BY <1>2, <2>1
<1>7. \A k \in 1 .. Len(e.txs) : Applied(k)
  <2>1. Len(e.txs) \in S
    BY <1>4, <1>6
  <2> HIDE DEF Applied
  <2> QED BY <1>1, <2>1
<1>8. \A k \in 1 .. Len(e.txs) : Follows(n.head, Upto(e.txs, k - 1), e.txs[k])
  BY <1>7, ApplyIs
<1> QED BY <1>1, <1>8 DEF AllFollow

LEMMA StoredTyped ==
  ASSUME NEW l \in Seq(Chains), NEW b \in Chains
  PROVE  Stored(l, b) \in Seq(Chains)
<1>1. Len(l) \in Nat /\ Len(b) \in Nat /\ DOMAIN l = 1 .. Len(l)
  BY LenProperties DEF Chains
<1> DEFINE m == Max({Len(l), Len(b)})
           r == [i \in 1 .. m |->
                   IF i = Len(b) THEN b ELSE IF i \in DOMAIN l THEN l[i] ELSE <<>>]
<1>2. m \in Nat
  <2> DEFINE x == Len(l)
             y == Len(b)
  <2>1. x \in Nat /\ y \in Nat
    BY <1>1
  <2> HIDE DEF x, y
  <2>2. x \in Int /\ y \in Int
    BY <2>1
  <2>3. Max({x, y}) \in {x, y}
    BY <2>2, LargerOf, Zenon
  <2>4. Max({x, y}) \in Nat
    BY <2>1, <2>3
  <2> QED BY <2>4 DEF x, y
<1> HIDE DEF m
<1>3. \A i \in DOMAIN l : l[i] \in Chains
  BY <1>1, ElementOfSeq
<1>4. <<>> \in Chains
  BY EmptySeq DEF Chains
<1>5. r \in [1 .. m -> Chains]
  BY <1>2, <1>3, <1>4
<1>6. r \in Seq(Chains)
  BY <1>2, <1>5, SeqDef
<1> QED BY <1>6 DEF Stored, m

LEMMA QuietIs ==
  ASSUME NEW n
  PROVE  n \in Quiet <=> /\ n \in Nodes /\ n.replayed = {} /\ ~n.replaying /\ Sound(n.head)
                         /\ n.pending = <<>> /\ ~n.session
BY NothingFollows DEF Quiet, Waiting

LEMMA QuietKept ==
  ASSUME NEW n \in Quiet, NEW m \in Nodes, m.replayed = n.replayed, m.replaying = n.replaying,
         m.head = n.head, m.pending = n.pending, m.session = n.session
  PROVE  m \in Quiet
BY QuietIs

LEMMA ApplyBlockQuiet ==
  ASSUME NEW n \in Quiet, NEW b \in LongChains
  PROVE  _apply_block(n, b) \in Quiet
<1> DEFINE e == Last(b)
           size == SizeWith(b)
           linked == n.head = previous(b)
           deepest == IF linked /\ validate_block_header(n, e)
                        THEN Depth(ToSet(AppliedTxs(n, e))) ELSE 0
           started == start_undo_session(n.undo, n.max_size)
           with == Nested(started, n.max_size, deepest)
           kept == ForkTrimmed(n.index, Len(n.fork_head), size)
           done == [n EXCEPT !.head = b, !.undo = with, !.max_size = size, !.index = kept,
                             !.log = Stored(@, b), !.synced = n.log]
           failed == [n EXCEPT !.undo = with - 1, !.thrown = TRUE]
<1>0. n \in Nodes /\ n.replayed = {} /\ ~n.replaying /\ Sound(n.head) /\ n.pending = <<>> /\ ~n.session
  BY QuietIs
<1>1. n.undo \in Int /\ n.max_size \in Int /\ n.head \in Chains /\ n.log \in Seq(Chains)
  BY <1>0 DEF Nodes
<1>2. b \in Chains /\ e \in Entries /\ size \in Int
  BY BlockParts, SizesTyped DEF LongChains
<1>3. with \in Int
  <2>1. started \in Int
    BY <1>1, UndoTyped
  <2>2. deepest \in {0, 1, 2}
    BY <1>1, UndoTyped
  <2> HIDE DEF started, deepest
  <2> QED BY <1>1, <2>1, <2>2, UndoTyped
<1>4. kept \in SUBSET Chains
  BY <1>0 DEF ForkTrimmed, Nodes
<1>5. _apply_block(n, b) = IF linked /\ Applicable(n, e) THEN done ELSE failed
  BY <1>0 DEF _apply_block, Nodes
<1>6. Stored(n.log, b) \in Seq(Chains)
  BY <1>1, <1>2, StoredTyped
<1> HIDE DEF with, kept, size, e
<1>7. failed \in Quiet
  <2>0. with - 1 \in Int
    BY <1>3
  <2>1. failed \in Nodes
    BY <1>0, <2>0 DEF Nodes
  <2>2. /\ failed.replayed = n.replayed /\ failed.replaying = n.replaying
        /\ failed.head = n.head /\ failed.pending = n.pending /\ failed.session = n.session
    BY <1>0 DEF Nodes
  <2> HIDE DEF failed
  <2> QED BY <2>1, <2>2, QuietKept
<1>8. ASSUME linked, Applicable(n, e) PROVE done \in Quiet
  <2>1. done \in Nodes
    BY <1>0, <1>1, <1>2, <1>3, <1>4, <1>6 DEF Nodes
  <2>2. /\ done.replayed = n.replayed /\ done.replaying = n.replaying
        /\ done.head = b /\ done.pending = n.pending /\ done.session = n.session
    BY <1>0 DEF Nodes
  <2>3. Sound(b)
    <3>1. AllFollow(n.head, e.txs)
      BY <1>0, <1>2, <1>8, AllApplied DEF Applicable
    <3> QED BY <1>0, <1>8, <3>1, SoundBlock DEF e
  <2> HIDE DEF done
  <2> QED BY <1>0, <2>1, <2>2, <2>3, QuietIs
<1> HIDE DEF done, failed, linked
<1> QED BY <1>5, <1>7, <1>8

LEMMA PopBlockQuiet ==
  ASSUME NEW n \in Quiet, n.head # <<>>
  PROVE  pop_block(n) \in Quiet
<1>0. n \in Nodes /\ n.replayed = {} /\ ~n.replaying /\ Sound(n.head) /\ n.pending = <<>> /\ ~n.session
  BY QuietIs
<1> DEFINE stepped == [n EXCEPT !.fork_head = previous(@)]
           none == [n EXCEPT !.thrown = TRUE]
           stopped == [stepped EXCEPT !.thrown = TRUE]
           txs == Popped(Last(n.head).txs, n.popped)
           done == [stepped EXCEPT !.head = previous(@), !.undo = @ - 1, !.replayed = @ \ {n.head},
                                   !.popped = Popped(Last(n.head).txs, @)]
<1>1. previous(n.fork_head) \in Chains /\ previous(n.head) \in Chains /\ n.undo - 1 \in Int
  BY <1>0, PreviousTyped DEF Nodes
<1>2. none \in Quiet
  <2>1. none \in Nodes
    BY <1>0 DEF Nodes
  <2>2. /\ none.replayed = n.replayed /\ none.replaying = n.replaying
        /\ none.head = n.head /\ none.pending = n.pending /\ none.session = n.session
    BY <1>0 DEF Nodes
  <2> HIDE DEF none
  <2> QED BY <2>1, <2>2, QuietKept
<1>3. stopped \in Quiet
  <2>1. stopped = [n EXCEPT !.fork_head = previous(@), !.thrown = TRUE]
    BY <1>0 DEF Nodes
  <2>2. stopped \in Nodes
    BY <1>0, <1>1, <2>1 DEF Nodes
  <2>3. /\ stopped.replayed = n.replayed /\ stopped.replaying = n.replaying
        /\ stopped.head = n.head /\ stopped.pending = n.pending /\ stopped.session = n.session
    BY <1>0, <2>1 DEF Nodes
  <2> HIDE DEF stopped
  <2> QED BY <2>2, <2>3, QuietKept
<1>4. done \in Quiet
  <2>1. Last(n.head) \in Entries
    BY <1>0, BlockParts DEF Nodes, LongChains
  <2>2. txs \in Seq(Txs)
    BY <1>0, <2>1, EntryTyped, ConcatProperties DEF Popped, Nodes
  <2>3. done = [n EXCEPT !.fork_head = previous(@), !.head = previous(@), !.undo = @ - 1,
                         !.replayed = @ \ {n.head}, !.popped = txs]
    BY <1>0 DEF Nodes
  <2> HIDE DEF txs
  <2>4. /\ done = [n EXCEPT !.fork_head = previous(n.fork_head), !.head = previous(n.head),
                            !.undo = n.undo - 1, !.replayed = {}, !.popped = txs]
        /\ {} \in SUBSET Chains
    BY <1>0, <2>3 DEF Nodes
  <2>5. done \in Nodes
    BY <1>0, <1>1, <2>2, <2>4 DEF Nodes
  <2>6. /\ done.head = previous(n.head) /\ done.replayed = {} /\ done.replaying = n.replaying
        /\ done.pending = n.pending /\ done.session = n.session
    BY <1>0, <2>4 DEF Nodes
  <2>7. Sound(previous(n.head))
    BY <1>0, SoundPrevious DEF Nodes
  <2> HIDE DEF done
  <2> QED BY <1>0, <2>5, <2>6, <2>7, QuietIs
<1>5. pop_block(n) \in {none, stopped, done}
  BY DEF pop_block
<1> HIDE DEF none, stopped, done
<1> QED BY <1>2, <1>3, <1>4, <1>5

-----------------------------------------------------------------------------
(* The loops of a switch of forks. *)
LEMMA ApplyAllQuiet ==
  ASSUME NEW n \in Quiet, NEW blocks \in Seq(LongChains)
  PROVE  ApplyAll(n, blocks) \in Quiet
<1> DEFINE k == Len(blocks)
           X == Quiet
           x0 == n
           Op(x, i) == ApplyNext(x, blocks[i])
           Eqn(s) == s = [i \in 0 .. k |-> IF i = 0 THEN x0 ELSE Op(s[i - 1], i)]
           c == CHOOSE s : Eqn(s)
           step == [i \in 1 .. k |-> [x \in X |-> Op(x, i)]]
<1>1. k \in Nat /\ x0 \in X
  BY LenProperties
<1>2. ASSUME NEW i \in 1 .. k, NEW x \in X PROVE Op(x, i) \in X
  BY ElementOfSeq, ApplyBlockQuiet DEF ApplyNext
<1>3. ApplyAll(n, blocks) = c[k]
  BY DEF ApplyAll
<1> HIDE DEF Op, k
<1>4. step \in [1 .. k -> [X -> X]]
  BY <1>2
<1>5. PICK f \in [0 .. k -> X] : f[0] = x0 /\ \A i \in 1 .. k : f[i] = step[i][f[i - 1]]
  <2> HIDE DEF step, c, Eqn, x0, X
  <2>1. Iterates(k, X, x0, step)
    BY <1>1, <1>4, Iteration
  <2> QED BY <2>1 DEF Iterates
<1> HIDE DEF x0, X
<1>6. Eqn(f)
  <2>1. ASSUME NEW i \in 1 .. k PROVE f[i] = Op(f[i - 1], i)
    <3>1. i - 1 \in 0 .. k /\ f[i - 1] \in X
      BY <1>1, <1>5
    <3> QED BY <1>5, <3>1
  <2> QED BY <1>1, <1>5, <2>1
<1>7. Eqn(c)
  <2> HIDE DEF Eqn
  <2> QED BY <1>6
<1> HIDE DEF c
<1>8. c[0] = x0 /\ \A i \in 1 .. k : c[i] = Op(c[i - 1], i)
  BY <1>1, <1>7
<1>9. \A i \in 1 .. k : c[i - 1] \in X => c[i] \in X
  BY <1>2, <1>8
<1>10. \A i \in 0 .. k : c[i] \in X
  BY <1>1, <1>8, <1>9, StaysIn
<1>11. c[k] \in X
  BY <1>1, <1>10
<1> QED BY <1>3, <1>11 DEF X

LEMMA PopToQuiet ==
  ASSUME NEW n \in Quiet, NEW num \in Nat
  PROVE  PopTo(n, num) \in Quiet
<1> DEFINE k == Len(n.head)
           X == Quiet
           x0 == n
           Op(x, i) == PopNext(x, num)
           Eqn(s) == s = [i \in 0 .. k |-> IF i = 0 THEN x0 ELSE Op(s[i - 1], i)]
           c == CHOOSE s : Eqn(s)
           step == [i \in 1 .. k |-> [x \in X |-> Op(x, i)]]
<1>1. k \in Nat /\ x0 \in X
  BY QuietIs, LenProperties DEF Nodes, Chains
<1>2. ASSUME NEW i \in 1 .. k, NEW x \in X PROVE Op(x, i) \in X
  <2>1. CASE x.thrown \/ Len(x.head) <= num
    BY <2>1 DEF PopNext
  <2>2. CASE ~(x.thrown \/ Len(x.head) <= num)
    <3>1. x.head \in Chains
      BY QuietIs DEF Nodes
    <3>2. x.head # <<>>
      BY <2>2, <3>1, EmptySeq
    <3> QED BY <2>2, <3>2, PopBlockQuiet DEF PopNext
  <2> QED BY <2>1, <2>2
<1>3. PopTo(n, num) = c[k]
  BY DEF PopTo
<1> HIDE DEF Op, k
<1>4. step \in [1 .. k -> [X -> X]]
  BY <1>2
<1>5. PICK f \in [0 .. k -> X] : f[0] = x0 /\ \A i \in 1 .. k : f[i] = step[i][f[i - 1]]
  <2> HIDE DEF step, c, Eqn, x0, X
  <2>1. Iterates(k, X, x0, step)
    BY <1>1, <1>4, Iteration
  <2> QED BY <2>1 DEF Iterates
<1> HIDE DEF x0, X
<1>6. Eqn(f)
  <2>1. ASSUME NEW i \in 1 .. k PROVE f[i] = Op(f[i - 1], i)
    <3>1. i - 1 \in 0 .. k /\ f[i - 1] \in X
      BY <1>1, <1>5
    <3> QED BY <1>5, <3>1
  <2> QED BY <1>1, <1>5, <2>1
<1>7. Eqn(c)
  <2> HIDE DEF Eqn
  <2> QED BY <1>6
<1> HIDE DEF c
<1>8. c[0] = x0 /\ \A i \in 1 .. k : c[i] = Op(c[i - 1], i)
  BY <1>1, <1>7
<1>9. \A i \in 1 .. k : c[i - 1] \in X => c[i] \in X
  BY <1>2, <1>8
<1>10. \A i \in 0 .. k : c[i] \in X
  BY <1>1, <1>8, <1>9, StaysIn
<1>11. c[k] \in X
  BY <1>1, <1>10
<1> QED BY <1>3, <1>11 DEF X

(* The place where two chains part, and the blocks from there on. *)
LEMMA ForkPointTyped ==
  ASSUME NEW a \in LongChains, NEW b \in LongChains
  PROVE  ForkPoint(a, b) \in Nat /\ ForkPoint(a, b) < Len(a) /\ ForkPoint(a, b) < Len(b)
<1> DEFINE x == Len(a)
           y == Len(b)
           m == Min({x, y})
           S == {0} \cup {i \in 1 .. m - 1 : Upto(a, i) = Upto(b, i)}
<1>1. x \in Nat \ {0} /\ y \in Nat \ {0}
  BY BlockParts
<1>2. ForkPoint(a, b) = Max(S)
  BY DEF ForkPoint
<1> HIDE DEF x, y
<1>3. x \in Int /\ y \in Int
  BY <1>1
<1>4. m \in {x, y} /\ m <= x /\ m <= y
  BY <1>3, SmallerOf, Zenon
<1> HIDE DEF m
<1>5. m - 1 \in Nat /\ S \in SUBSET (0 .. m - 1) /\ S # {}
  BY <1>1, <1>4
<1> HIDE DEF S
<1>6. Max(S) \in 0 .. m - 1
  BY <1>5, LargestOf
<1> QED BY <1>1, <1>2, <1>4, <1>6 DEF x, y

LEMMA BranchTyped ==
  ASSUME NEW b \in Chains, NEW from \in Nat, from <= Len(b)
  PROVE  Branch(b, from) \in Seq(LongChains)
<1>1. Len(b) \in Nat
  BY LenProperties DEF Chains
<1> DEFINE k == Len(b) - from
<1>2. k \in Nat
  BY <1>1
<1>3. ASSUME NEW i \in 1 .. k PROVE Upto(b, from + i) \in LongChains
  <2>1. from + i \in 1 .. Len(b) /\ from + i \in 0 .. Len(b)
    BY <1>1
  <2>2. Upto(b, from + i) \in Chains /\ Len(Upto(b, from + i)) = from + i
    BY <2>1, UptoIs DEF Chains
  <2>3. Upto(b, from + i) # <<>>
    BY <2>1, <2>2
  <2> QED BY <2>2, <2>3 DEF LongChains
<1>4. [i \in 1 .. k |-> Upto(b, from + i)] \in [1 .. k -> LongChains]
  BY <1>3
<1>5. [i \in 1 .. k |-> Upto(b, from + i)] \in Seq(LongChains)
  <2> HIDE DEF k
  <2> QED BY <1>2, <1>4, SeqDef
<1> QED BY <1>5 DEF Branch

(* Fields that the invariant does not read. *)
LEMMA QuietFields ==
  ASSUME NEW n \in Quiet, NEW f \in Chains, NEW S \in SUBSET Chains, NEW H \in SUBSET Chains,
         NEW x \in BOOLEAN
  PROVE  /\ [n EXCEPT !.thrown = x] \in Quiet
         /\ [n EXCEPT !.index = S] \in Quiet
         /\ [n EXCEPT !.held = H] \in Quiet
         /\ [n EXCEPT !.index = S, !.fork_head = f] \in Quiet
         /\ [n EXCEPT !.index = S, !.fork_head = f, !.thrown = x] \in Quiet
<1>0. n \in Nodes
  BY QuietIs
<1> DEFINE Alike(m) == /\ m \in Nodes
                       /\ m.replayed = n.replayed /\ m.replaying = n.replaying
                       /\ m.head = n.head /\ m.pending = n.pending /\ m.session = n.session
<1>1. Alike([n EXCEPT !.thrown = x])
  BY <1>0 DEF Nodes
<1>2. Alike([n EXCEPT !.index = S])
  BY <1>0 DEF Nodes
<1>3. Alike([n EXCEPT !.held = H])
  BY <1>0 DEF Nodes
<1>4. Alike([n EXCEPT !.index = S, !.fork_head = f])
  BY <1>0 DEF Nodes
<1>5. Alike([n EXCEPT !.index = S, !.fork_head = f, !.thrown = x])
  BY <1>0 DEF Nodes
<1>6. \A m : Alike(m) => m \in Quiet
  BY QuietKept
<1> HIDE DEF Alike
<1> QED BY <1>1, <1>2, <1>3, <1>4, <1>5, <1>6

(* The switch of forks, whether it succeeds or is taken back. *)
LEMMA SwitchQuiet ==
  ASSUME NEW n \in Quiet, NEW new \in Chains
  PROVE  SwitchTo(n, new) \in Quiet
<1> DEFINE old == n.head
           from == ForkPoint(new, old)
           branches == ToSet(Branch(new, from)) \cup ToSet(Branch(old, from))
           held == [n EXCEPT !.held = branches]
           popped == PopTo(held, from)
           applied == ApplyAll(popped, Branch(new, from))
<1>0. n \in Nodes /\ old \in Chains
  BY QuietIs DEF Nodes
<1>1. CASE ~Fetchable(n, new, old)
  BY <1>1, QuietFields DEF SwitchTo
<1>2. CASE Fetchable(n, new, old)
  <2>1. new \in LongChains /\ old \in LongChains
    BY <1>0, <1>2 DEF Fetchable, LongChains
  <2>2. from \in Nat /\ from < Len(new) /\ from < Len(old) /\ Len(new) \in Nat /\ Len(old) \in Nat
    BY <2>1, ForkPointTyped, BlockParts
  <2>3. Branch(new, from) \in Seq(LongChains) /\ Branch(old, from) \in Seq(LongChains)
    BY <1>0, <2>2, BranchTyped
  <2>4. branches \in SUBSET Chains
    <3>1. ASSUME NEW s \in Seq(LongChains) PROVE ToSet(s) \subseteq Chains
      BY LenProperties, ElementOfSeq DEF ToSet, LongChains
    <3> QED BY <2>3, <3>1
  <2> HIDE DEF from
  <2>5. popped \in Quiet
    <3>1. held \in Quiet
      <4> HIDE DEF branches
      <4> QED BY <2>4, QuietFields
    <3> HIDE DEF held
    <3> QED BY <2>2, <3>1, PopToQuiet
  <2>6. applied \in Quiet
    <3> HIDE DEF popped
    <3> QED BY <2>3, <2>5, ApplyAllQuiet
  <2>7. SwitchTo(n, new) = AfterPop(popped, new, old, from)
    BY <1>2 DEF SwitchTo, from
  <2> HIDE DEF popped
  <2>8. CASE popped.thrown
    BY <2>5, <2>7, <2>8 DEF AfterPop
  <2>9. CASE ~popped.thrown
    <3> DEFINE bad == {b \in ToSet(Branch(new, from)) : Len(b) > Len(applied.head)}
               reset == [applied EXCEPT !.index = @ \ bad, !.fork_head = old, !.thrown = FALSE]
               back == PopTo(reset, from)
    <3>1. SwitchTo(n, new) = AfterApply(applied, new, old, from)
      BY <2>7, <2>9 DEF AfterPop
    <3> HIDE DEF applied
    <3>2. CASE ~applied.thrown
      BY <2>6, <3>1, <3>2 DEF AfterApply
    <3>3. CASE applied.thrown
      <4>1. SwitchTo(n, new) = SwitchBack(applied, back, Branch(old, from))
        BY <3>1, <3>3 DEF AfterApply
      <4>2. applied.index \ bad \in SUBSET Chains
        BY <2>6, QuietIs DEF Nodes
      <4>3. reset \in Quiet
        <5> HIDE DEF bad
        <5> QED BY <1>0, <2>6, <4>2, QuietFields
      <4> HIDE DEF reset
      <4>4. back \in Quiet
        BY <2>2, <4>3, PopToQuiet
      <4> HIDE DEF back
      <4>5. ApplyAll(back, Branch(old, from)) \in Quiet
        BY <2>3, <4>4, ApplyAllQuiet
      <4>6. [ApplyAll(back, Branch(old, from)) EXCEPT !.thrown = TRUE] \in Quiet
        BY <1>0, <4>5, QuietFields
      <4> QED BY <4>1, <4>4, <4>6 DEF SwitchBack
    <3> QED BY <3>2, <3>3
  <2> QED BY <2>8, <2>9
<1> QED BY <1>1, <1>2

LEMMA PushQuiet ==
  ASSUME NEW n \in Quiet, NEW b \in LongChains
  PROVE  _push_block(n, b) \in Quiet
<1>0. n \in Nodes /\ b \in Chains
  BY QuietIs DEF LongChains
<1> DEFINE m == fork_push(n, b)
           applied == _apply_block(m, b)
<1>1. m \in Quiet
  <2>1. n.index \cup {b} \in SUBSET Chains
    BY <1>0 DEF Nodes
  <2>2. ForkTrimmed(n.index \cup {b}, Len(b), n.max_size) \in SUBSET Chains
    BY <2>1 DEF ForkTrimmed
  <2>3. \/ m = [n EXCEPT !.index = ForkTrimmed(n.index \cup {b}, Len(b), n.max_size), !.fork_head = b]
        \/ m = [n EXCEPT !.index = n.index \cup {b}]
    BY <1>0 DEF fork_push, Nodes
  <2> DEFINE one == n.index \cup {b}
             two == ForkTrimmed(one, Len(b), n.max_size)
  <2> HIDE DEF m, one, two
  <2>4. one \in SUBSET Chains /\ two \in SUBSET Chains /\ TRUE \in BOOLEAN
    BY <2>1, <2>2 DEF one, two
  <2>5. [n EXCEPT !.index = one] \in Quiet /\ [n EXCEPT !.index = two, !.fork_head = b] \in Quiet
    BY <1>0, <2>4, QuietFields
  <2> QED BY <2>3, <2>5 DEF one, two
<1> HIDE DEF m
<1>2. Advance(m, b) \in Quiet
  <2>1. applied \in Quiet /\ applied.index \in SUBSET Chains
    <3>1. applied \in Quiet
      BY <1>1, ApplyBlockQuiet
    <3> HIDE DEF applied
    <3> QED BY <3>1, QuietIs DEF Nodes
  <2>2. [applied EXCEPT !.index = IF applied.thrown THEN @ \ {b} ELSE @] \in Quiet
    <3> DEFINE S == IF applied.thrown THEN applied.index \ {b} ELSE applied.index
    <3>1. S \in SUBSET Chains
      BY <2>1
    <3> HIDE DEF applied, S
    <3>2. [applied EXCEPT !.index = S] \in Quiet
      BY <1>0, <2>1, <3>1, QuietFields
    <3> QED BY <3>2 DEF S
  <2>3. SwitchTo(m, m.fork_head) \in Quiet
    BY <1>1, SwitchQuiet, QuietIs DEF Nodes
  <2> QED BY <1>1, <2>2, <2>3 DEF Advance
<1>3. [n EXCEPT !.thrown = TRUE] \in Quiet
  BY <1>0, QuietFields
<1> QED BY <1>2, <1>3 DEF _push_block, m
-----------------------------------------------------------------------------
(* Pending transactions. *)
LEMMA WaitingIs ==
  ASSUME NEW n
  PROVE  n \in Waiting <=> /\ n \in Nodes /\ n.replayed = {} /\ ~n.replaying /\ Sound(n.head)
                           /\ AllFollow(n.head, n.pending)
                           /\ n.pending # <<>> => n.session
BY DEF Waiting

LEMMA WaitingKept ==
  ASSUME NEW n \in Waiting, NEW m \in Nodes, m.replayed = n.replayed, m.replaying = n.replaying,
         m.head = n.head, m.pending = n.pending, m.session = n.session
  PROVE  m \in Waiting
BY WaitingIs

LEMMA PushTransactionWaiting ==
  ASSUME NEW n \in Waiting, NEW t \in Txs
  PROVE  _push_transaction(n, t) \in Waiting
<1> DEFINE u == IF n.session THEN n.undo ELSE start_undo_session(n.undo, n.max_size)
           applied == _apply_transaction(n, n.pending, t)
           left == Nested(u, n.max_size, 1 + Depth(IF applied THEN {t} ELSE {}))
           txs == IF applied THEN Append(n.pending, t) ELSE n.pending
           m == [n EXCEPT !.session = TRUE, !.undo = left, !.pending = txs, !.thrown = ~applied]
<1>0. /\ n \in Nodes /\ n.replayed = {} /\ ~n.replaying /\ Sound(n.head)
      /\ AllFollow(n.head, n.pending) /\ n.pending \in Seq(Txs)
      /\ n.undo \in Int /\ n.max_size \in Int
  BY WaitingIs DEF Nodes
<1>1. u \in Int
  BY <1>0, UndoTyped
<1>2. left \in Int
  <2> HIDE DEF u
  <2> QED BY <1>0, <1>1, UndoTyped
<1>3. AllFollow(n.head, txs) /\ txs \in Seq(Txs)
  <2>1. applied => Follows(n.head, n.pending, t)
    BY <1>0, ApplyIs
  <2> HIDE DEF applied
  <2> QED BY <1>0, <2>1, FollowAppend
<1>4. _push_transaction(n, t) = m
  BY <1>0 DEF _push_transaction, Nodes
<1>5. applied \in BOOLEAN
  BY DEF _apply_transaction
<1> HIDE DEF left, txs, applied
<1>6. m \in Nodes
  BY <1>0, <1>2, <1>3, <1>5 DEF Nodes
<1>7. /\ m.replayed = n.replayed /\ m.replaying = n.replaying /\ m.head = n.head
      /\ m.pending = txs /\ m.session = TRUE
  BY <1>0 DEF Nodes
<1> HIDE DEF m
<1>8. m \in Waiting
  BY <1>0, <1>3, <1>6, <1>7, WaitingIs
<1> QED BY <1>4, <1>8

LEMMA ClearPendingQuiet ==
  ASSUME NEW n \in Waiting
  PROVE  clear_pending(n) \in Quiet
<1> DEFINE left == IF n.session THEN n.undo - 1 ELSE n.undo
           m == [n EXCEPT !.pending = <<>>, !.session = FALSE, !.undo = left]
<1>0. n \in Nodes /\ n.replayed = {} /\ ~n.replaying /\ Sound(n.head) /\ n.undo \in Int
  BY WaitingIs DEF Nodes
<1>1. left \in Int /\ <<>> \in Seq(Txs)
  BY <1>0, EmptySeq
<1>2. clear_pending(n) = m
  BY <1>0 DEF clear_pending, Nodes
<1> HIDE DEF left
<1>3. m \in Nodes
  BY <1>0, <1>1 DEF Nodes
<1>4. /\ m.replayed = n.replayed /\ m.replaying = n.replaying /\ m.head = n.head
      /\ m.pending = <<>> /\ m.session = FALSE
  BY <1>0 DEF Nodes
<1> HIDE DEF m
<1> QED BY <1>0, <1>2, <1>3, <1>4, QuietIs

LEMMA RestoredWaiting ==
  ASSUME NEW n \in Quiet, NEW txs \in Seq(Txs)
  PROVE  Restored(n, txs) \in Waiting
<1> DEFINE all == n.popped \o txs
           k == Len(all)
           X == Waiting
           x0 == [n EXCEPT !.popped = <<>>, !.held = {}]
           Op(x, i) == PushAgain(x, all[i])
           Eqn(s) == s = [i \in 0 .. k |-> IF i = 0 THEN x0 ELSE Op(s[i - 1], i)]
           c == CHOOSE s : Eqn(s)
           step == [i \in 1 .. k |-> [x \in X |-> Op(x, i)]]
<1>0. n \in Nodes /\ n \in Waiting
  BY DEF Quiet, Waiting
<1>1. k \in Nat /\ x0 \in X
  <2>1. all \in Seq(Txs)
    BY <1>0, ConcatProperties DEF Nodes
  <2>2. x0 \in Nodes
    BY <1>0, EmptySeq DEF Nodes
  <2>3. /\ x0.replayed = n.replayed /\ x0.replaying = n.replaying /\ x0.head = n.head
        /\ x0.pending = n.pending /\ x0.session = n.session
    BY <1>0 DEF Nodes
  <2> HIDE DEF x0, all
  <2> QED BY <1>0, <2>1, <2>2, <2>3, WaitingKept, LenProperties
<1>2. ASSUME NEW i \in 1 .. k, NEW x \in X PROVE Op(x, i) \in X
  <2>1. all \in Seq(Txs)
    BY <1>0, ConcatProperties DEF Nodes
  <2> HIDE DEF all
  <2>2. all[i] \in Txs
    BY <2>1, ElementOfSeq
  <2> QED BY <2>2, PushTransactionWaiting DEF PushAgain
<1> DEFINE r == c[k]
<1>3. Restored(n, txs) = [c[k] EXCEPT !.thrown = n.thrown]
  BY DEF Restored
<1> HIDE DEF Op, k, all
<1>4. step \in [1 .. k -> [X -> X]]
  BY <1>2
<1>5. PICK f \in [0 .. k -> X] : f[0] = x0 /\ \A i \in 1 .. k : f[i] = step[i][f[i - 1]]
  <2> HIDE DEF step, c, Eqn, x0, X
  <2>1. Iterates(k, X, x0, step)
    BY <1>1, <1>4, Iteration
  <2> QED BY <2>1 DEF Iterates
<1> HIDE DEF x0, X
<1>6. Eqn(f)
  <2>1. ASSUME NEW i \in 1 .. k PROVE f[i] = Op(f[i - 1], i)
    <3>1. i - 1 \in 0 .. k /\ f[i - 1] \in X
      BY <1>1, <1>5
    <3> QED BY <1>5, <3>1
  <2> QED BY <1>1, <1>5, <2>1
<1>7. Eqn(c)
  <2> HIDE DEF Eqn
  <2> QED BY <1>6
<1> HIDE DEF c
<1>8. c[0] = x0 /\ \A i \in 1 .. k : c[i] = Op(c[i - 1], i)
  BY <1>1, <1>7
<1>9. \A i \in 1 .. k : c[i - 1] \in X => c[i] \in X
  BY <1>2, <1>8
<1>10. \A i \in 0 .. k : c[i] \in X
  BY <1>1, <1>8, <1>9, StaysIn
<1>11. c[k] \in X
  BY <1>1, <1>10
<1>12. [r EXCEPT !.thrown = n.thrown] \in Waiting
  <2>1. r \in Waiting
    BY <1>11 DEF X
  <2> HIDE DEF r
  <2> DEFINE m == [r EXCEPT !.thrown = n.thrown]
  <2>2. r \in Nodes /\ n.thrown \in BOOLEAN
    BY <1>0, <2>1, WaitingIs DEF Nodes
  <2>3. m \in Nodes
    BY <2>2 DEF Nodes
  <2>4. /\ m.replayed = r.replayed /\ m.replaying = r.replaying /\ m.head = r.head
        /\ m.pending = r.pending /\ m.session = r.session
    BY <2>2 DEF Nodes
  <2> HIDE DEF m
  <2>5. m \in Waiting
    BY <2>1, <2>3, <2>4, WaitingKept
  <2> QED BY <2>5 DEF m
<1> QED BY <1>3, <1>12

LEMMA PushBlockWaiting ==
  ASSUME NEW n \in Waiting, NEW b \in LongChains
  PROVE  PushBlock(n, b) \in Waiting
<1>1. clear_pending(n) \in Quiet
  BY ClearPendingQuiet
<1>2. _push_block(clear_pending(n), b) \in Quiet
  BY <1>1, PushQuiet
<1>3. n.pending \in Seq(Txs)
  BY WaitingIs DEF Nodes
<1> QED BY <1>2, <1>3, RestoredWaiting DEF PushBlock

LEMMA PackedTyped ==
  ASSUME NEW n \in Waiting
  PROVE  Packed(n) \in Seq(Txs)
<1> DEFINE k == Len(n.pending)
           X == Seq(Txs)
           x0 == <<>>
           Op(x, i) == PackNext(n, x, n.pending[i])
           Eqn(s) == s = [i \in 0 .. k |-> IF i = 0 THEN x0 ELSE Op(s[i - 1], i)]
           c == CHOOSE s : Eqn(s)
           step == [i \in 1 .. k |-> [x \in X |-> Op(x, i)]]
<1>0. n.pending \in Seq(Txs)
  BY WaitingIs DEF Nodes
<1>1. k \in Nat /\ x0 \in X
  BY <1>0, LenProperties, EmptySeq
<1>2. ASSUME NEW i \in 1 .. k, NEW x \in X PROVE Op(x, i) \in X
  <2>1. n.pending[i] \in Txs
    BY <1>0, ElementOfSeq
  <2>2. Append(x, n.pending[i]) \in Seq(Txs)
    BY <2>1
  <2> QED BY <2>2 DEF PackNext
<1>3. Packed(n) = c[k]
  BY DEF Packed
<1> HIDE DEF Op, k
<1>4. step \in [1 .. k -> [X -> X]]
  BY <1>2
<1>5. PICK f \in [0 .. k -> X] : f[0] = x0 /\ \A i \in 1 .. k : f[i] = step[i][f[i - 1]]
  <2> HIDE DEF step, c, Eqn, x0, X
  <2>1. Iterates(k, X, x0, step)
    BY <1>1, <1>4, Iteration
  <2> QED BY <2>1 DEF Iterates
<1> HIDE DEF x0, X
<1>6. Eqn(f)
  <2>1. ASSUME NEW i \in 1 .. k PROVE f[i] = Op(f[i - 1], i)
    <3>1. i - 1 \in 0 .. k /\ f[i - 1] \in X
      BY <1>1, <1>5
    <3> QED BY <1>5, <3>1
  <2> QED BY <1>1, <1>5, <2>1
<1>7. Eqn(c)
  <2> HIDE DEF Eqn
  <2> QED BY <1>6
<1> HIDE DEF c
<1>8. c[0] = x0 /\ \A i \in 1 .. k : c[i] = Op(c[i - 1], i)
  BY <1>1, <1>7
<1>9. \A i \in 1 .. k : c[i - 1] \in X => c[i] \in X
  BY <1>2, <1>8
<1>10. \A i \in 0 .. k : c[i] \in X
  BY <1>1, <1>8, <1>9, StaysIn
<1>11. c[k] \in X
  BY <1>1, <1>10
<1> QED BY <1>3, <1>11 DEF X

LEMMA GenerateWaiting ==
  ASSUME NEW n \in Waiting, NEW when \in 1 .. MaxTime
  PROVE  GenerateBlock(n, when) \in Waiting
<1> DEFINE deepest == IF n.pending = <<>> THEN 0 ELSE 1 + Depth(ToSet(Packed(n)))
           reset == IF n.session THEN n.undo - 1 ELSE n.undo
           started == start_undo_session(reset, n.max_size)
           rebuilt == Nested(started, n.max_size, deepest)
           m == [n EXCEPT !.session = FALSE, !.undo = rebuilt - 1]
           e == [time |-> when, txs |-> Packed(n), ok |-> TRUE]
           b == Append(n.head, e)
<1>0. /\ n \in Nodes /\ n.replayed = {} /\ ~n.replaying /\ Sound(n.head) /\ n.undo \in Int
      /\ n.max_size \in Int /\ n.head \in Chains
  BY WaitingIs DEF Nodes
<1>1. b \in LongChains
  <2>1. e \in Entries
    BY PackedTyped DEF Entries
  <2> HIDE DEF e
  <2>2. b \in Seq(Entries) /\ Len(b) = Len(n.head) + 1 /\ Len(n.head) \in Nat
    BY <1>0, <2>1, LenProperties DEF Chains
  <2> HIDE DEF b
  <2>3. b # <<>>
    BY <2>2
  <2> QED BY <2>2, <2>3 DEF LongChains, Chains
<1>2. rebuilt - 1 \in Int
  <2>1. reset \in Int
    BY <1>0
  <2> HIDE DEF reset
  <2>2. started \in Int
    BY <1>0, <2>1, UndoTyped
  <2>3. deepest \in {0, 1, 2}
    <3>1. Depth(ToSet(Packed(n))) \in {0, 1}
      BY DEF Depth
    <3> QED BY <3>1
  <2> HIDE DEF started, deepest
  <2>4. rebuilt \in Int
    BY <1>0, <2>2, <2>3, UndoTyped
  <2> QED BY <2>4
<1>3. GenerateBlock(n, when) = PushBlock(m, b)
  BY DEF GenerateBlock
<1> HIDE DEF rebuilt, b
<1>4. /\ m \in Nodes /\ m.replayed = n.replayed /\ m.replaying = n.replaying
      /\ m.head = n.head /\ m.pending = n.pending /\ m.session = FALSE
  BY <1>0, <1>2 DEF Nodes
<1>5. clear_pending(m) \in Quiet
  <2> DEFINE q == [m EXCEPT !.pending = <<>>, !.session = FALSE, !.undo = m.undo]
  <2>1. clear_pending(m) = q
    BY <1>4 DEF clear_pending, Nodes
  <2> HIDE DEF m
  <2>2. q \in Nodes
    BY <1>4, EmptySeq DEF Nodes
  <2>3. /\ q.replayed = m.replayed /\ q.replaying = m.replaying /\ q.head = m.head
        /\ q.pending = <<>> /\ q.session = FALSE
    BY <1>4 DEF Nodes
  <2> HIDE DEF q
  <2>4. q \in Quiet
    BY <1>0, <1>4, <2>2, <2>3, QuietIs
  <2> QED BY <2>1, <2>4
<1>6. _push_block(clear_pending(m), b) \in Quiet
  BY <1>1, <1>5, PushQuiet
<1>7. m.pending \in Seq(Txs)
  BY <1>4 DEF Nodes
<1> HIDE DEF m
<1>8. PushBlock(m, b) \in Waiting
  BY <1>6, <1>7, RestoredWaiting DEF PushBlock
<1> QED BY <1>3, <1>8

LEMMA GrownWaiting == Grown \in Waiting
<1> DEFINE k == Len(Root)
           X == Waiting
           x0 == Fresh(<<>>, {}, <<>>)
           Op(x, i) == PushBlock(x, Upto(Root, i))
           Eqn(s) == s = [i \in 0 .. k |-> IF i = 0 THEN x0 ELSE Op(s[i - 1], i)]
           c == CHOOSE s : Eqn(s)
           step == [i \in 1 .. k |-> [x \in X |-> Op(x, i)]]
<1>0. Root \in Seq(Entries)
  BY BlockchainAssumption
<1>1. k \in Nat /\ x0 \in X
  <2>1. InitialSize \in Int
    BY BlockchainAssumption
  <2>2. <<>> \in Chains /\ <<>> \in Seq(Txs) /\ <<>> \in Seq(Chains)
    BY EmptySeq DEF Chains
  <2>3. x0 \in Nodes
    BY <2>1, <2>2 DEF Fresh, Nodes
  <2>4. /\ x0.replayed = {} /\ x0.replaying = FALSE /\ x0.head = <<>> /\ x0.pending = <<>>
    BY DEF Fresh
  <2>5. Sound(<<>>) /\ AllFollow(<<>>, <<>>)
    BY DEF Sound, AllFollow
  <2> HIDE DEF x0
  <2> QED BY <1>0, <2>3, <2>4, <2>5, WaitingIs, LenProperties
<1>2. ASSUME NEW i \in 1 .. k, NEW x \in X PROVE Op(x, i) \in X
  <2>1. i \in 0 .. Len(Root)
    BY <1>1
  <2>2. Upto(Root, i) \in Chains /\ Len(Upto(Root, i)) = i
    BY <1>0, <2>1, UptoIs DEF Chains
  <2>3. Upto(Root, i) # <<>>
    BY <2>2
  <2> QED BY <2>2, <2>3, PushBlockWaiting DEF LongChains
<1>3. Grown = c[k]
  BY DEF Grown
<1> HIDE DEF Op, k
<1>4. step \in [1 .. k -> [X -> X]]
  BY <1>2
<1>5. PICK f \in [0 .. k -> X] : f[0] = x0 /\ \A i \in 1 .. k : f[i] = step[i][f[i - 1]]
  <2> HIDE DEF step, c, Eqn, x0, X
  <2>1. Iterates(k, X, x0, step)
    BY <1>1, <1>4, Iteration
  <2> QED BY <2>1 DEF Iterates
<1> HIDE DEF x0, X
<1>6. Eqn(f)
  <2>1. ASSUME NEW i \in 1 .. k PROVE f[i] = Op(f[i - 1], i)
    <3>1. i - 1 \in 0 .. k /\ f[i - 1] \in X
      BY <1>1, <1>5
    <3> QED BY <1>5, <3>1
  <2> QED BY <1>1, <1>5, <2>1
<1>7. Eqn(c)
  <2> HIDE DEF Eqn
  <2> QED BY <1>6
<1> HIDE DEF c
<1>8. c[0] = x0 /\ \A i \in 1 .. k : c[i] = Op(c[i - 1], i)
  BY <1>1, <1>7
<1>9. \A i \in 1 .. k : c[i - 1] \in X => c[i] \in X
  BY <1>2, <1>8
<1>10. \A i \in 0 .. k : c[i] \in X
  BY <1>1, <1>8, <1>9, StaysIn
<1>11. c[k] \in X
  BY <1>1, <1>10
<1> QED BY <1>3, <1>11 DEF X

-----------------------------------------------------------------------------
(* The invariant of a node that was not restarted. *)
FirstRun ==
  /\ restarts \in Nat
  /\ restarts = 0 => up /\ Node \in Waiting

LEMMA NodeFields ==
  /\ Node.head = head /\ Node.pending = pending /\ Node.session = session
  /\ Node.replayed = replayed /\ Node.replaying = FALSE
BY DEF Node

(* What a call leaves behind: the fields of the node that last. *)
Lasting(n) ==
  [head |-> n.head, fork_head |-> n.fork_head, index |-> n.index, max_size |-> n.max_size,
   undo |-> n.undo, session |-> n.session, pending |-> n.pending, replayed |-> n.replayed,
   log |-> n.log, synced |-> n.synced, held |-> {}, popped |-> <<>>, replaying |-> FALSE,
   thrown |-> FALSE]

LEMMA LastingWaiting ==
  ASSUME NEW n \in Waiting
  PROVE  Lasting(n) \in Waiting
<1> DEFINE m == Lasting(n)
<1>0. n \in Nodes /\ n.replaying = FALSE
  BY WaitingIs DEF Nodes
<1>1. m \in Nodes
  BY <1>0, EmptySeq DEF Lasting, Nodes
<1>2. /\ m.replayed = n.replayed /\ m.replaying = n.replaying /\ m.head = n.head
      /\ m.pending = n.pending /\ m.session = n.session
  BY <1>0 DEF Lasting
<1> HIDE DEF m
<1>3. m \in Waiting
  BY <1>1, <1>2, WaitingKept
<1> QED BY <1>3 DEF m

LEMMA Becomes ==
  ASSUME NEW n \in Waiting, Become(n)
  PROVE  Node' \in Waiting
<1>1. Node' = Lasting(n)
  BY DEF Node, Become, Lasting
<1> QED BY <1>1, LastingWaiting

LEMMA FirstRunInit == Init => FirstRun
<1> SUFFICES ASSUME Init PROVE FirstRun
  OBVIOUS
<1> DEFINE n == Grown
<1>0. n \in Waiting
  BY GrownWaiting
<1>1. Start(n) /\ restarts = 0 /\ up
  BY DEF Init
<1> HIDE DEF n
<1>2. Node = Lasting(n)
  BY <1>1 DEF Node, Start, Lasting
<1>3. Node \in Waiting
  BY <1>0, <1>2, LastingWaiting
<1> QED BY <1>1, <1>3 DEF FirstRun

LEMMA ValidateWaiting ==
  ASSUME Node \in Waiting, NEW t \in Txs, validate_transaction(t)
  PROVE  Node' \in Waiting
<1> DEFINE applied == _apply_transaction(Node, pending, t)
           left == Nested(Node.undo, max_size, 1 + Depth(IF applied THEN {t} ELSE {}))
           m == [Node EXCEPT !.undo = left, !.thrown = ~applied]
<1>0. Node \in Nodes /\ Node.undo \in Int /\ max_size \in Int
  <2>1. Node \in Nodes /\ Node.max_size = max_size
    BY WaitingIs DEF Node
  <2> QED BY <2>1 DEF Nodes
<1>1. Become(m)
  BY DEF validate_transaction
<1>2. left \in Int
  <2> HIDE DEF applied
  <2> QED BY <1>0, UndoTyped
<1>3. applied \in BOOLEAN
  BY DEF _apply_transaction
<1> DEFINE n == Node
<1>4. n \in Waiting /\ n \in Nodes
  BY <1>0
<1> HIDE DEF left, applied, n
<1>5. [n EXCEPT !.undo = left, !.thrown = ~applied] \in Waiting
  <2> DEFINE q == [n EXCEPT !.undo = left, !.thrown = ~applied]
  <2>1. q \in Nodes
    BY <1>2, <1>3, <1>4 DEF Nodes
  <2>2. /\ q.replayed = n.replayed /\ q.replaying = n.replaying /\ q.head = n.head
        /\ q.pending = n.pending /\ q.session = n.session
    BY <1>4 DEF Nodes
  <2> HIDE DEF q
  <2>3. q \in Waiting
    BY <1>4, <2>1, <2>2, WaitingKept
  <2> QED BY <2>3 DEF q
<1>6. m \in Waiting
  BY <1>5 DEF n
<1> HIDE DEF m
<1> QED BY <1>1, <1>6, Becomes

LEMMA FirstRunStep == FirstRun /\ [Next]_vars => FirstRun'
<1> SUFFICES ASSUME FirstRun, [Next]_vars PROVE FirstRun'
  OBVIOUS
<1>0. restarts \in Nat
  BY DEF FirstRun
<1> DEFINE Calm == restarts' = restarts /\ (up' <=> up)
<1>1. ASSUME Calm, Node \in Waiting => Node' \in Waiting PROVE FirstRun'
  BY <1>1 DEF FirstRun
<1>2. ASSUME NEW b \in Blocks, push_block(b) PROVE FirstRun'
  <2>1. b \in LongChains
    BY BlockchainAssumption DEF LongChains, Chains
  <2>2. Calm /\ Become(PushBlock(Node, b))
    BY <1>2 DEF push_block
  <2>3. ASSUME Node \in Waiting PROVE Node' \in Waiting
    BY <2>1, <2>2, <2>3, PushBlockWaiting, Becomes
  <2> QED BY <1>1, <2>2, <2>3
<1>3. ASSUME NEW t \in Txs, push_transaction(t) PROVE FirstRun'
  <2>1. Calm /\ Become(_push_transaction(Node, t))
    BY <1>3 DEF push_transaction
  <2>2. ASSUME Node \in Waiting PROVE Node' \in Waiting
    BY <2>1, <2>2, PushTransactionWaiting, Becomes
  <2> QED BY <1>1, <2>1, <2>2
<1>4. ASSUME NEW t \in Txs, validate_transaction(t) PROVE FirstRun'
  <2>1. Calm
    BY <1>4 DEF validate_transaction
  <2> QED BY <1>1, <1>4, <2>1, ValidateWaiting
<1>5. ASSUME NEW when \in 1 .. MaxTime, generate_block(when) PROVE FirstRun'
  <2>1. Calm /\ Become(GenerateBlock(Node, when))
    BY <1>5 DEF generate_block
  <2>2. ASSUME Node \in Waiting PROVE Node' \in Waiting
    BY <2>1, <2>2, GenerateWaiting, Becomes
  <2> QED BY <1>1, <2>1, <2>2
<1>6. ASSUME close \/ crash PROVE FirstRun'
  <2>1. restarts' = restarts + 1
    BY <1>6 DEF close, crash
  <2> QED BY <1>0, <2>1 DEF FirstRun
<1>7. ASSUME open PROVE FirstRun'
  BY <1>0, <1>7 DEF open, FirstRun
<1>8. ASSUME UNCHANGED vars PROVE FirstRun'
  BY <1>8 DEF vars, FirstRun, Node
<1> QED BY <1>2, <1>3, <1>4, <1>5, <1>6, <1>7, <1>8 DEF Next

LEMMA FirstRunHolds == Spec => []FirstRun
BY FirstRunInit, FirstRunStep, PTL DEF Spec

-----------------------------------------------------------------------------
(* The pending transactions of a node that was not restarted are what its  *)
(* pending session applied to the head, one after the other, through every *)
(* push_block, switch of forks, failed switch, pop, push_transaction and   *)
(* generate_block.                                                         *)
THEOREM PendingAppliesHolds == Spec => [](restarts = 0 => PendingApplies)
<1>1. ASSUME FirstRun, restarts = 0 PROVE PendingApplies
  <2>1. Node \in Waiting
    BY <1>1 DEF FirstRun
  <2>2. /\ Node \in Nodes /\ Node.replayed = {} /\ ~Node.replaying
        /\ AllFollow(head, pending) /\ (pending # <<>> => session)
    BY <2>1, WaitingIs, NodeFields
  <2>3. ASSUME NEW i \in DOMAIN pending
        PROVE  _apply_transaction(Node, Upto(pending, i - 1), pending[i])
    <3>1. Follows(head, Upto(pending, i - 1), pending[i])
      BY <2>2 DEF AllFollow
    <3> QED BY <2>2, <3>1, ApplyIs, NodeFields
  <2> QED BY <2>2, <2>3 DEF PendingApplies
<1>2. FirstRun => (restarts = 0 => PendingApplies)
  BY <1>1
<1> QED BY <1>2, FirstRunHolds, PTL

(* A transaction that follows a chain, or the ones done on top of it, is    *)
(* not in that chain: its transaction_object, which would expire, is not   *)
(* yet gone while the transaction itself is still good.                    *)
LEMMA FollowsNew ==
  ASSUME NEW c \in Chains, NEW done, NEW t \in Txs, Follows(c, done, t)
  PROVE  t \notin Included(c) /\ t \notin ToSet(done)
<1>1. head_block_time(c) \in Int /\ Expiration[t] \in Int
  <2>1. Expiration[t] \in Nat
    BY BlockchainAssumption
  <2>2. CASE c = <<>>
    BY <2>1, <2>2 DEF head_block_time
  <2>3. CASE c # <<>>
    <3>1. Last(c) \in Entries
      BY <2>3, BlockParts DEF LongChains
    <3>2. Last(c).time \in Int
      BY <3>1, BlockchainAssumption DEF Entries
    <3> QED BY <2>1, <2>3, <3>2 DEF head_block_time
  <2> QED BY <2>2, <2>3
<1>2. ~Expired(c, t)
  BY <1>1 DEF Follows, Expired
<1> QED BY <1>2 DEF Follows

(* No two places of one list hold the same, when all follow. *)
LEMMA DistinctInList ==
  ASSUME NEW c \in Chains, NEW txs \in Seq(Txs), AllFollow(c, txs),
         NEW k \in DOMAIN txs, NEW l \in DOMAIN txs, k < l
  PROVE  txs[k] # txs[l]
<1>1. Len(txs) \in Nat /\ DOMAIN txs = 1 .. Len(txs)
  BY LenProperties
<1>2. txs[l] \in Txs /\ Follows(c, Upto(txs, l - 1), txs[l])
  BY <1>1, ElementOfSeq DEF AllFollow
<1>3. txs[l] \notin ToSet(Upto(txs, l - 1))
  BY <1>2, FollowsNew
<1>4. /\ l - 1 \in 0 .. Len(txs) /\ k \in 1 .. l - 1
  BY <1>1
<1>5. Upto(txs, l - 1)[k] = txs[k] /\ k \in DOMAIN Upto(txs, l - 1)
  BY <1>4, UptoIs
<1>6. txs[k] \in ToSet(Upto(txs, l - 1))
  BY <1>5 DEF ToSet
<1> QED BY <1>3, <1>6

(* No list that follows a chain holds what a block of that chain holds. *)
LEMMA DistinctFromChain ==
  ASSUME NEW c \in Chains, NEW txs \in Seq(Txs), AllFollow(c, txs),
         NEW i \in DOMAIN c, NEW k \in DOMAIN c[i].txs, NEW l \in DOMAIN txs
  PROVE  c[i].txs[k] # txs[l]
<1>1. txs[l] \in Txs /\ Follows(c, Upto(txs, l - 1), txs[l])
  <2>1. DOMAIN txs = 1 .. Len(txs)
    BY LenProperties
  <2> QED BY <2>1, ElementOfSeq DEF AllFollow
<1>2. txs[l] \notin Included(c)
  BY <1>1, FollowsNew
<1>3. c[i].txs[k] \in Included(c)
  BY DEF Included, ToSet
<1> QED BY <1>2, <1>3

(* No transaction is in two places of the chain and the pending ones of a  *)
(* node that was not restarted, whichever blocks of whichever forks        *)
(* push_block was given, and in whatever order.                            *)
THEOREM AppliedOnceHolds == Spec => [](restarts = 0 => AppliedOnce)
<1>1. ASSUME FirstRun, restarts = 0 PROVE AppliedOnce
  <2> DEFINE lists == Append([i \in DOMAIN head |-> head[i].txs], pending)
  <2>1. /\ head \in Chains /\ pending \in Seq(Txs)
        /\ Sound(head) /\ AllFollow(head, pending)
    <3>1. Node \in Waiting
      BY <1>1 DEF FirstRun
    <3>2. Node \in Nodes /\ Sound(head) /\ AllFollow(head, pending)
      BY <3>1, WaitingIs, NodeFields
    <3>3. Node.head \in Chains /\ Node.pending \in Seq(Txs)
      BY <3>2 DEF Nodes
    <3> QED BY <3>2, <3>3, NodeFields
  <2>2. /\ Len(head) \in Nat /\ DOMAIN head = 1 .. Len(head)
        /\ \A i \in DOMAIN head : head[i] \in Entries /\ head[i].txs \in Seq(Txs)
    BY <2>1, LenProperties, ElementOfSeq, EntryTyped DEF Chains
  <2>3. /\ DOMAIN lists = 1 .. Len(head) + 1
        /\ \A i \in 1 .. Len(head) : lists[i] = head[i].txs
        /\ lists[Len(head) + 1] = pending
    <3> DEFINE f == [i \in DOMAIN head |-> head[i].txs]
    <3>1. f \in Seq(Seq(Txs)) /\ Len(f) = Len(head)
      BY <2>2
    <3>2. \A i \in 1 .. Len(head) : f[i] = head[i].txs
      BY <2>2
    <3> HIDE DEF f
    <3>3. /\ Append(f, pending) \in Seq(Seq(Txs)) /\ Len(Append(f, pending)) = Len(head) + 1
          /\ \A i \in 1 .. Len(head) : Append(f, pending)[i] = f[i]
          /\ Append(f, pending)[Len(head) + 1] = pending
      BY <2>1, <2>2, <3>1, AppendProperties
    <3>4. DOMAIN Append(f, pending) = 1 .. Len(head) + 1
      BY <3>3, LenProperties
    <3> QED BY <3>2, <3>3, <3>4 DEF f
  <2> HIDE DEF lists
  <2>4. \A i \in DOMAIN lists : lists[i] \in Seq(Txs) /\ AllFollow(Upto(head, i - 1), lists[i])
    <3> SUFFICES ASSUME NEW i \in DOMAIN lists
                 PROVE  lists[i] \in Seq(Txs) /\ AllFollow(Upto(head, i - 1), lists[i])
      OBVIOUS
    <3>1. CASE i \in 1 .. Len(head)
      BY <2>1, <2>2, <2>3, <3>1 DEF Sound
    <3>2. CASE i = Len(head) + 1
      <4>1. i - 1 = Len(head) /\ Upto(head, Len(head)) = head
        BY <2>1, <2>2, <3>2, UptoAll DEF Chains
      <4>2. Upto(head, i - 1) = head
        BY <4>1
      <4> QED BY <2>1, <2>3, <3>2, <4>2
    <3> QED BY <2>2, <2>3, <3>1, <3>2
  <2>5. ASSUME NEW i \in DOMAIN lists, NEW j \in DOMAIN lists, i < j,
               NEW k \in DOMAIN lists[i], NEW l \in DOMAIN lists[j]
        PROVE  lists[i][k] # lists[j][l]
    <3> DEFINE c == Upto(head, j - 1)
    <3>1. j - 1 \in 0 .. Len(head) /\ i \in 1 .. j - 1 /\ i \in 1 .. Len(head)
      BY <2>2, <2>3, <2>5
    <3>2. c \in Chains /\ i \in DOMAIN c /\ c[i] = head[i]
      BY <2>1, <3>1, UptoIs DEF Chains
    <3>3. lists[j] \in Seq(Txs) /\ AllFollow(c, lists[j])
      BY <2>4
    <3>4. lists[i] = c[i].txs
      BY <2>3, <3>1, <3>2
    <3> HIDE DEF c
    <3>5. k \in DOMAIN c[i].txs
      BY <3>4
    <3>6. c[i].txs[k] # lists[j][l]
      BY <3>2, <3>3, <3>5, DistinctFromChain
    <3> QED BY <3>4, <3>6
  <2>6. ASSUME NEW i \in DOMAIN lists, NEW k \in DOMAIN lists[i], NEW l \in DOMAIN lists[i], k < l
        PROVE  lists[i][k] # lists[i][l]
    <3>1. Upto(head, i - 1) \in Chains
      <4>1. i - 1 \in 0 .. Len(head)
        BY <2>2, <2>3
      <4> QED BY <2>1, <4>1, UptoIs DEF Chains
    <3> QED BY <2>4, <2>6, <3>1, DistinctInList
  <2>7. ASSUME NEW i \in DOMAIN lists, NEW j \in DOMAIN lists,
               NEW k \in DOMAIN lists[i], NEW l \in DOMAIN lists[j], lists[i][k] = lists[j][l]
        PROVE  i = j /\ k = l
    <3>1. i \in Nat /\ j \in Nat
      BY <2>2, <2>3
    <3>2. ~(i < j)
      BY <2>5, <2>7
    <3>3. ~(j < i)
      BY <2>5, <2>7
    <3>4. i = j
      BY <3>1, <3>2, <3>3
    <3>5. k \in Nat /\ l \in Nat /\ l \in DOMAIN lists[i]
      <4>1. lists[i] \in Seq(Txs) /\ lists[j] \in Seq(Txs)
        BY <2>4
      <4>2. DOMAIN lists[i] = 1 .. Len(lists[i]) /\ DOMAIN lists[j] = 1 .. Len(lists[j])
        BY <4>1, LenProperties
      <4> QED BY <3>4, <4>2
    <3>6. lists[i][k] = lists[i][l]
      BY <2>7, <3>4
    <3>7. ~(k < l) /\ ~(l < k)
      BY <2>6, <3>5, <3>6
    <3> QED BY <3>4, <3>5, <3>7
  <2>8. \A i, j \in DOMAIN lists : \A k \in DOMAIN lists[i], l \in DOMAIN lists[j] :
          lists[i][k] = lists[j][l] => i = j /\ k = l
    BY <2>7
  <2> QED BY <2>8 DEF AppliedOnce, lists
<1>2. FirstRun => (restarts = 0 => AppliedOnce)
  BY <1>1
<1> QED BY <1>2, FirstRunHolds, PTL
=============================================================================
