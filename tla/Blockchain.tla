----------------------------- MODULE Blockchain -----------------------------
(***************************************************************************)
(* graphene::chain::database as a keeper of blocks: fork_database, the     *)
(* chain that is applied to the objects, the undo history behind it, the   *)
(* pending transactions on top of it, and the block log and object         *)
(* database on disk that a restart begins from.                            *)
(*                                                                         *)
(* A block is the sequence of entries that leads to it from genesis, the   *)
(* empty sequence: its number is the length, its previous block the front. *)
(* An entry has the timestamp, the transactions and whether signature,     *)
(* merkle root and scheduled witness are right.  Every object of the store *)
(* is a function of the block that is applied, but for the transaction_    *)
(* objects, which a replay leaves out; `replayed` has the blocks it leaves *)
(* them out for.  The undo stack is the subject of UndoDatabase: here only *)
(* the number of its entries counts.                                       *)
(***************************************************************************)
EXTENDS Naturals, Sequences, FiniteSets, SequencesExt, FiniteSetsExt

CONSTANTS Root,          \* the chain at the start, of at least one block
          Blocks,        \* blocks other nodes send, in any order and more than once
          Txs,           \* signed transactions
          Needs,         \* Needs[t]: transactions whose effects t builds on
          Expiration,    \* Expiration[t]: timestamp after which t is void
          TaPoS,         \* TaPoS[t]: the block t refers to
          Executes,      \* transactions that complete the approval of a proposal
          Witnesses,     \* active_witnesses
          Schedule,      \* Schedule[time]: the witness of the slot
          Size,          \* Size[t]: the packed size of t
          MaxBlockSize,  \* maximum_block_size, without the header
          MaxUndoHistory,\* GRAPHENE_MAX_UNDO_HISTORY
          InitialSize,   \* _max_size of a new fork_database and undo_database
          ReplayWindow,  \* last blocks that reindex pushes with undo history
          MaxTime,       \* bound: timestamps are 1 .. MaxTime
          MaxNum,        \* bound: number of the blocks that are generated
          MaxRestarts    \* bound: times the node stops

VARIABLES head,       \* head_block_id()
          fork_head,  \* _fork_db._head, <<>> when null
          index,      \* _fork_db._index
          max_size,   \* _max_size of _fork_db and _undo_db
          undo,       \* entries of the undo stack
          session,    \* _pending_tx_session.valid()
          pending,    \* _pending_tx
          replayed,   \* blocks of the chain without transaction_objects
          log,        \* _block_id_to_block: log[i] is the block stored under number i
          synced,     \* the log without the last write, which may still be in a buffer
          disk,       \* the object database as it was flushed: head and replayed
          up,         \* the database is open
          thrown,     \* the last call ended with an exception
          restarts

vars == <<head, fork_head, index, max_size, undo, session, pending, replayed, log, synced,
          disk, up, thrown, restarts>>

Entries == [time : 1 .. MaxTime, txs : Seq(Txs), ok : BOOLEAN]

Upto(b, i) == SubSeq(b, 1, i)
previous(b) == Front(b)
Included(b) == UNION {ToSet(b[i].txs) : i \in DOMAIN b}
head_block_time(b) == IF b = <<>> THEN 0 ELSE Last(b).time

ASSUME BlockchainAssumption ==
  /\ Root \in Seq(Entries) /\ Root # <<>>
  /\ \A b \in Blocks : b \in Seq(Entries) /\ b # <<>>
  /\ Needs \in [Txs -> SUBSET Txs] /\ Expiration \in [Txs -> Nat] /\ Executes \subseteq Txs
  /\ Size \in [Txs -> Nat] /\ \A t \in Txs : Size[t] < MaxBlockSize
  /\ Schedule \in [1 .. MaxTime -> Witnesses] /\ IsFiniteSet(Witnesses) /\ Witnesses # {}
  /\ {MaxBlockSize, MaxUndoHistory, InitialSize, ReplayWindow, MaxTime, MaxNum, MaxRestarts} \subseteq Nat
-----------------------------------------------------------------------------
(* What the chain says once b is applied. *)

last_confirmed_block_num(b, w) == Max({0} \cup {i \in DOMAIN b : Schedule[b[i].time] = w})

(* update_last_irreversible_block: nth_element of the last confirmed blocks, *)
(* with GRAPHENE_IRREVERSIBLE_THRESHOLD at 70 per cent                     *)
last_irreversible_block_num(b) ==
  LET confirmed == {last_confirmed_block_num(b, w) : w \in Witnesses}
      offset == (30 * Cardinality(Witnesses)) \div 100
  IN  Max({n \in confirmed :
             Cardinality({w \in Witnesses : last_confirmed_block_num(b, w) < n}) <= offset})

(* clear_expired_transactions *)
Expired_AtLimit(b, t) == head_block_time(b) >= Expiration[t]

Expired(b, t) == head_block_time(b) > Expiration[t]

(* The transaction_index. *)
transactions(n) ==
  {t \in UNION {ToSet(n.head[i].txs) : i \in {j \in DOMAIN n.head : Upto(n.head, j) \notin n.replayed}} :
     ~Expired(n.head, t)}

is_known_transaction(n, t) == t \in transactions(n) \cup ToSet(n.pending)

(* _apply_transaction, after the transactions in done were applied on the   *)
(* head: the skip flags of a replay leave out the check for duplicates and *)
(* the reference to a block.                                               *)
_apply_transaction(n, done, t) ==
  /\ n.replaying \/ t \notin transactions(n) \cup ToSet(done)
  /\ n.replaying \/ IsPrefix(TaPoS[t], n.head)
  /\ head_block_time(n.head) <= Expiration[t]
  /\ Needs[t] \subseteq Included(n.head) \cup ToSet(done)

(* The header, the transactions in order until one fails, and the check on  *)
(* the undo history in update_global_dynamic_data                          *)
validate_block_header(n, e) == e.ok /\ head_block_time(n.head) < e.time

AppliedTxs(n, e) ==
  LET Applied(k) == _apply_transaction(n, Upto(e.txs, k - 1), e.txs[k])
  IN  Upto(e.txs, Max({0} \cup {i \in DOMAIN e.txs : \A k \in 1 .. i : Applied(k)}))

Applicable(n, e) ==
  /\ validate_block_header(n, e)
  /\ AppliedTxs(n, e) = e.txs
  /\ Len(n.head) + 1 - last_irreversible_block_num(n.head) < MaxUndoHistory
-----------------------------------------------------------------------------
(* Entries of the undo stack: one more for a session that starts, after    *)
(* the oldest are dropped; and what is left once d nested sessions on top  *)
(* of u entries have come and gone.                                        *)
start_undo_session(u, size) == Min({u, size}) + 1

Nested(u, size, d) == IF d = 0 THEN u ELSE Min({u, size + 1 - d})

(* The deepest nesting that the transactions ask for. *)
Depth(txs) == IF txs \cap Executes = {} THEN 0 ELSE 1

(* update_global_dynamic_data: the size both databases get with block b *)
SizeWith_NoMargin(b) == Len(b) - last_irreversible_block_num(previous(b))

SizeWith(b) == Len(b) - last_irreversible_block_num(previous(b)) + 1

ForkTrimmed(blocks, top, size) == {b \in blocks : Len(b) + size >= top}

(* The block log keeps one block for each number, and zeros in a gap. *)
Stored(l, b) ==
  [i \in 1 .. Max({Len(l), Len(b)}) |->
     IF i = Len(b) THEN b ELSE IF i \in DOMAIN l THEN l[i] ELSE <<>>]

(* A session around apply_block, store and commit; a block that does not    *)
(* apply leaves the stack shortened by the session's start.                *)
_apply_block(n, b) ==
  LET e == Last(b)
      size == SizeWith(b)
      linked == n.head = previous(b)
      deepest == IF linked /\ validate_block_header(n, e) THEN Depth(ToSet(AppliedTxs(n, e))) ELSE 0
      with == Nested(start_undo_session(n.undo, n.max_size), n.max_size, deepest)
  IN  IF linked /\ Applicable(n, e)
      THEN [n EXCEPT !.head = b,
                     !.undo = with,
                     !.max_size = size,
                     !.index = ForkTrimmed(@, Len(n.fork_head), size),
                     !.log = Stored(@, b), !.synced = n.log,
                     !.replayed = IF n.replaying THEN @ \cup {b} ELSE @]
      ELSE [n EXCEPT !.undo = with - 1, !.thrown = TRUE]

(* One after the other, until one fails.  after[i] is the node after i of   *)
(* them, here and in the other loops that the proofs are about.            *)
ApplyNext(n, b) == IF n.thrown THEN n ELSE _apply_block(n, b)

ApplyAll(n, blocks) ==
  LET after[i \in 0 .. Len(blocks)] == IF i = 0 THEN n ELSE ApplyNext(after[i - 1], blocks[i])
  IN  after[Len(blocks)]

(* pop_block: the fork database steps back from its own head first. *)
Popped_AtEnd(txs, popped) == popped \o txs

Popped(txs, popped) == txs \o popped

pop_block(n) ==
  LET stepped == [n EXCEPT !.fork_head = previous(@)]
  IN  IF n.fork_head = <<>> \/ previous(n.fork_head) \notin n.index \cup n.held THEN [n EXCEPT !.thrown = TRUE]
      ELSE IF n.undo = 0 THEN [stepped EXCEPT !.thrown = TRUE]
      ELSE [stepped EXCEPT !.head = previous(@), !.undo = @ - 1, !.replayed = @ \ {n.head},
                           !.popped = Popped(Last(n.head).txs, @)]

PopNext(n, num) == IF n.thrown \/ Len(n.head) <= num THEN n ELSE pop_block(n)

PopTo(n, num) ==
  LET after[i \in 0 .. Len(n.head)] == IF i = 0 THEN n ELSE PopNext(after[i - 1], num)
  IN  after[Len(n.head)]
-----------------------------------------------------------------------------
(* fork_database::_push_block *)
TooOld(n, b) == n.fork_head # <<>> /\ Len(b) + n.max_size <= Len(n.fork_head)

Unlinkable(n, b) == n.fork_head # <<>> /\ Len(b) > 1 /\ previous(b) \notin n.index

fork_push(n, b) ==
  IF Len(b) > Len(n.fork_head)
  THEN [n EXCEPT !.index = ForkTrimmed(@ \cup {b}, Len(b), n.max_size), !.fork_head = b]
  ELSE [n EXCEPT !.index = @ \cup {b}]

(* fetch_branch_from: the branches start after the last block before which *)
(* both agree.  A link to a previous block is weak: it lasts as long as the *)
(* index has the block, or the branches of a switch hold it.               *)
ForkPoint(a, b) == Max({0} \cup {i \in 1 .. Min({Len(a), Len(b)}) - 1 : Upto(a, i) = Upto(b, i)})

Branch(b, from) == [i \in 1 .. Len(b) - from |-> Upto(b, from + i)]

Fetchable(n, a, b) ==
  \A c \in {a, b} : c # <<>> /\ ToSet(Branch(c, ForkPoint(a, b))) \subseteq n.index

(* The fork switch of _push_block, in its three parts.  After an exception *)
(* on the new branch its blocks from the bad one on are removed, those     *)
(* applied are popped and the old branch is put back.                      *)
SwitchBack_None(n, back, old) == [back EXCEPT !.thrown = TRUE]

SwitchBack(n, back, old) ==
  IF back.thrown THEN back ELSE [ApplyAll(back, old) EXCEPT !.thrown = TRUE]

AfterApply(n, new, old, from) ==
  LET bad == {b \in ToSet(Branch(new, from)) : Len(b) > Len(n.head)}
  IN  IF ~n.thrown THEN n
      ELSE SwitchBack(n, PopTo([n EXCEPT !.index = @ \ bad, !.fork_head = old, !.thrown = FALSE], from),
                      Branch(old, from))

AfterPop(n, new, old, from) ==
  IF n.thrown THEN n ELSE AfterApply(ApplyAll(n, Branch(new, from)), new, old, from)

SwitchTo(n, new) ==
  LET from == ForkPoint(new, n.head)
      branches == ToSet(Branch(new, from)) \cup ToSet(Branch(n.head, from))
  IN  IF ~Fetchable(n, new, n.head) THEN [n EXCEPT !.thrown = TRUE]
      ELSE AfterPop(PopTo([n EXCEPT !.held = branches], from), new, n.head, from)

(* _push_block: when the fork database's head builds off the chain's, it   *)
(* is the new block that is applied.                                       *)
Longer_ByTwo(new, n) == Len(new) > Len(n.head) + 1

Longer(new, n) == Len(new) > Len(n.head)

Advance(n, b) ==
  LET applied == _apply_block(n, b)
  IN  IF previous(n.fork_head) = n.head
      THEN [applied EXCEPT !.index = IF applied.thrown THEN @ \ {b} ELSE @]
      ELSE IF Longer(n.fork_head, n) THEN SwitchTo(n, n.fork_head)
      ELSE n

_push_block(n, b) ==
  IF TooOld(n, b) \/ Unlinkable(n, b) THEN [n EXCEPT !.thrown = TRUE]
  ELSE Advance(fork_push(n, b), b)
-----------------------------------------------------------------------------
(* Pending transactions. *)

_push_transaction_Queued(n, t) ==
  [n EXCEPT !.session = TRUE, !.undo = IF n.session THEN @ ELSE @ + 1, !.pending = Append(@, t)]

_push_transaction(n, t) ==
  LET u == IF n.session THEN n.undo ELSE start_undo_session(n.undo, n.max_size)
      applied == _apply_transaction(n, n.pending, t)
  IN  [n EXCEPT !.session = TRUE,
                !.undo = Nested(u, n.max_size, 1 + Depth(IF applied THEN {t} ELSE {})),
                !.pending = IF applied THEN Append(@, t) ELSE @,
                !.thrown = ~applied]

clear_pending(n) ==
  [n EXCEPT !.pending = <<>>, !.session = FALSE, !.undo = IF n.session THEN @ - 1 ELSE @]

(* pending_transactions_restorer: first the transactions of popped blocks, *)
(* then those that were pending                                            *)
PushAgain(n, t) == IF is_known_transaction(n, t) THEN n ELSE _push_transaction(n, t)

Restored(n, txs) ==
  LET all == n.popped \o txs
      after[i \in 0 .. Len(all)] == IF i = 0 THEN [n EXCEPT !.popped = <<>>, !.held = {}]
                                    ELSE PushAgain(after[i - 1], all[i])
  IN  [after[Len(all)] EXCEPT !.thrown = n.thrown]

PushBlock(n, b) == Restored(_push_block(clear_pending(n), b), n.pending)

(* _generate_block: the pending transactions are applied anew, those that   *)
(* fit and do not fail without the ones left out, in a session that is     *)
(* thrown away.                                                            *)
Fits(done, t) == Size[t] + FoldLeft(LAMBDA sum, u : sum + Size[u], 0, done) < MaxBlockSize

Packed_Unchecked(n) ==
  FoldLeft(LAMBDA done, t : IF Fits(done, t) THEN Append(done, t) ELSE done, <<>>, n.pending)

PackNext(n, done, t) ==
  IF Fits(done, t) /\ _apply_transaction(n, done, t) THEN Append(done, t) ELSE done

Packed(n) ==
  LET after[i \in 0 .. Len(n.pending)] ==
        IF i = 0 THEN <<>> ELSE PackNext(n, after[i - 1], n.pending[i])
  IN  after[Len(n.pending)]

GenerateBlock(n, when) ==
  LET deepest == IF n.pending = <<>> THEN 0 ELSE 1 + Depth(ToSet(Packed(n)))
      reset == IF n.session THEN n.undo - 1 ELSE n.undo
      rebuilt == Nested(start_undo_session(reset, n.max_size), n.max_size, deepest)
  IN  PushBlock([n EXCEPT !.session = FALSE, !.undo = rebuilt - 1],
                Append(n.head, [time |-> when, txs |-> Packed(n), ok |-> TRUE]))
-----------------------------------------------------------------------------
(* Restart: close rewinds to the last irreversible block; open loads what   *)
(* was flushed and replays the rest of the log.                            *)
Node == [head |-> head, fork_head |-> fork_head, index |-> index, max_size |-> max_size,
         undo |-> undo, session |-> session, pending |-> pending, replayed |-> replayed,
         log |-> log, synced |-> synced, held |-> {}, popped |-> <<>>, replaying |-> FALSE, thrown |-> FALSE]

Fresh(h, r, l) ==
  [head |-> h, fork_head |-> <<>>, index |-> {}, max_size |-> InitialSize, undo |-> 0,
   session |-> FALSE, pending |-> <<>>, replayed |-> r, log |-> l, synced |-> l, held |-> {}, popped |-> <<>>,
   replaying |-> FALSE, thrown |-> FALSE]

(* An exception ends the rewinding early. *)
Rewound(n) ==
  LET cutoff == Min({Len(n.head), last_irreversible_block_num(n.head)})
      Step(m, i) == LET p == pop_block(m)
                    IN  IF m.thrown THEN m
                        ELSE IF p.thrown THEN p
                        ELSE [p EXCEPT !.index = @ \ {m.head}]
  IN  FoldLeft(Step, clear_pending(n), [i \in 1 .. Len(n.head) - cutoff |-> i])

ToReplay_SkipsOne(n) == SubSeq(n.log, Len(n.head) + 2, Len(n.log))

ToReplay(n) == SubSeq(n.log, Len(n.head) + 1, Len(n.log))

reindex(n) ==
  LET last == Len(n.log)
      undo_point == IF last < ReplayWindow THEN 0 ELSE last - ReplayWindow
      start == IF Len(n.head) >= undo_point /\ n.head # <<>>
               THEN [n EXCEPT !.index = {n.log[Len(n.head)]}, !.fork_head = n.log[Len(n.head)]]
               ELSE n
      Replay(m, b) == IF m.thrown THEN m
                      ELSE IF Len(b) < undo_point THEN [_apply_block(m, b) EXCEPT !.undo = 0]
                      ELSE PushBlock(m, b)
  IN  IF last <= Len(n.head) THEN n
      ELSE [FoldLeft(Replay, [start EXCEPT !.replaying = TRUE], ToReplay(n))
            EXCEPT !.replaying = FALSE]
-----------------------------------------------------------------------------
Become(n) ==
  /\ head' = n.head /\ fork_head' = n.fork_head /\ index' = n.index /\ max_size' = n.max_size
  /\ undo' = n.undo /\ session' = n.session /\ pending' = n.pending /\ replayed' = n.replayed
  /\ log' = n.log /\ synced' = n.synced /\ thrown' = n.thrown

Start(n) ==
  /\ head = n.head /\ fork_head = n.fork_head /\ index = n.index /\ max_size = n.max_size
  /\ undo = n.undo /\ session = n.session /\ pending = n.pending /\ replayed = n.replayed
  /\ log = n.log /\ synced = n.synced /\ thrown = n.thrown

(* A new node that has pushed the blocks of the root. *)
Grown ==
  LET after[i \in 0 .. Len(Root)] ==
        IF i = 0 THEN Fresh(<<>>, {}, <<>>) ELSE PushBlock(after[i - 1], Upto(Root, i))
  IN  after[Len(Root)]

Init ==
  /\ Start(Grown)
  /\ disk = [head |-> <<>>, replayed |-> {}]
  /\ up = TRUE /\ restarts = 0

push_block(b) ==
  /\ up
  /\ Become(PushBlock(Node, b))
  /\ UNCHANGED <<disk, up, restarts>>

push_transaction(t) ==
  /\ up
  /\ Become(_push_transaction(Node, t))
  /\ UNCHANGED <<disk, up, restarts>>

validate_transaction(t) ==
  /\ up
  /\ LET applied == _apply_transaction(Node, pending, t)
     IN  Become([Node EXCEPT !.undo = Nested(@, max_size, 1 + Depth(IF applied THEN {t} ELSE {})),
                             !.thrown = ~applied])
  /\ UNCHANGED <<disk, up, restarts>>

generate_block(when) ==
  /\ up /\ Len(head) < MaxNum
  /\ head_block_time(head) < when
  /\ Become(GenerateBlock(Node, when))
  /\ UNCHANGED <<disk, up, restarts>>

close ==
  /\ up /\ restarts < MaxRestarts
  /\ LET n == Rewound(Node)
     IN  /\ disk' = [head |-> n.head, replayed |-> n.replayed]
         /\ Become(Fresh(n.head, n.replayed, log))
  /\ up' = FALSE /\ restarts' = restarts + 1

(* The process dies; what was written last may not have reached the log. *)
crash ==
  /\ up /\ restarts < MaxRestarts
  /\ \E l \in {log, synced} : Become(Fresh(disk.head, disk.replayed, l))
  /\ up' = FALSE /\ restarts' = restarts + 1
  /\ UNCHANGED disk

(* When open throws, the process ends again. *)
Opened(n, replay) ==
  IF replay.thrown \/ (n.log # <<>> /\ Len(n.log) < Len(n.head)) THEN [n EXCEPT !.thrown = TRUE] ELSE replay

open ==
  /\ ~up
  /\ LET n == Fresh(disk.head, disk.replayed, log) IN Become(Opened(n, reindex(n)))
  /\ up' = ~thrown'
  /\ UNCHANGED <<disk, restarts>>

Next ==
  \/ \E b \in Blocks : push_block(b)
  \/ \E t \in Txs : push_transaction(t) \/ validate_transaction(t)
  \/ \E when \in 1 .. MaxTime : generate_block(when)
  \/ close \/ crash \/ open

Spec == Init /\ [][Next]_vars
-----------------------------------------------------------------------------
TypeOK ==
  /\ head \in Seq(Entries) /\ fork_head \in Seq(Entries)
  /\ \A b \in index : b \in Seq(Entries)
  /\ max_size \in Nat \ {0} /\ undo \in Nat
  /\ session \in BOOLEAN /\ up \in BOOLEAN /\ thrown \in BOOLEAN
  /\ pending \in Seq(Txs)
  /\ replayed \subseteq Prefixes(head)
  /\ log \in Seq(Seq(Entries)) /\ synced \in Seq(Seq(Entries))
  /\ restarts \in 0 .. MaxRestarts

(* No transaction is applied twice: not in two blocks of the chain, nor    *)
(* pending on top of it, whatever its expiration and however often blocks  *)
(* and transactions arrive, are popped and are applied again.              *)
AppliedOnce ==
  LET lists == Append([i \in DOMAIN head |-> head[i].txs], pending)
  IN  \A i, j \in DOMAIN lists : \A k \in DOMAIN lists[i], l \in DOMAIN lists[j] :
        lists[i][k] = lists[j][l] => i = j /\ k = l

(* _pending_tx_session is the result of applying _pending_tx to the head,  *)
(* and clear_pending finds it when there is something pending.             *)
PendingApplies ==
  /\ \A i \in DOMAIN pending : _apply_transaction(Node, Upto(pending, i - 1), pending[i])
  /\ pending # <<>> => session

(* A block that left the chain gives its transactions back: one that was   *)
(* in the chain or pending still is, unless it has expired, refers to a    *)
(* block that is gone or builds on a transaction that is.                  *)
TransactionsSurvive ==
  [][up /\ up' =>
       \A t \in Included(head) \cup ToSet(pending) :
         \/ t \in Included(head') \cup ToSet(pending')
         \/ Expired(head, t)' \/ ~IsPrefix(TaPoS[t], head')
         \/ \E s \in Needs[t] : s \notin Included(head') \cup ToSet(pending')]_vars

(* The block log has the chain's block under each number up to the head's  *)
(* and no other, also after a switch of forks that failed half way.        *)
LogIsChain == up => log = Branch(head, 0)

(* Every block of b applies after the ones before it. *)
ValidChain(b) == ~ApplyAll(Fresh(<<>>, {}, <<>>), Branch(b, 0)).thrown

(* The chain is the longest of those the fork database has whose blocks    *)
(* are all valid.                                                          *)
HeadIsLongest == up => \A b \in index : ValidChain(b) => Len(b) <= Len(head)

(* The undo history reaches back to the last irreversible block. *)
UndoReaches ==
  up => undo - (IF session THEN 1 ELSE 0) >= Len(head) - last_irreversible_block_num(head)

(* Log and undo history keep step with the chain through every push, pop   *)
(* and switch of forks: what LogIsChain and UndoReaches say.               *)
InStep == TypeOK /\ LogIsChain /\ UndoReaches

(* The log is the chain's, after a restart too, and a node that dies now,  *)
(* the last write to the log lost or not, opens again, with the chain it   *)
(* had or the one without its last block.                                  *)
Recoverable ==
  /\ LogIsChain
  /\ up => \A l \in {log, synced} :
             LET n == reindex(Fresh(disk.head, disk.replayed, l))
             IN  ~n.thrown /\ n.head \in {head, previous(head)}

(* "Push block may fail in which case every partial change is unwound"     *)
(* (push_block): a call that throws leaves the chain as it was.            *)
FailureUnwound == [][up /\ up' /\ thrown' => head' = head]_vars

(* The block that generate_block makes of the pending transactions is      *)
(* accepted by push_block.                                                 *)
OwnBlocksApply == [][\A when \in 1 .. MaxTime : generate_block(when) => ~thrown']_vars

(* "As long as blocks are pushed in order the fork database will maintain a *)
(* linked tree of all blocks that branch from the start_block"              *)
(* (fork_database.hpp): a block whose chain is valid and whose previous     *)
(* block is the head is accepted.                                           *)
ValidSuccessorAccepted ==
  [][\A b \in Blocks : push_block(b) /\ previous(b) = head /\ ValidChain(b) => ~thrown']_vars
=============================================================================
