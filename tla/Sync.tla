-------------------------------- MODULE Sync --------------------------------
(* How a node gets blocks from its peers (node_impl of libraries/net): the  *)
(* lists of block ids it has yet to get from each peer, the requests it has *)
(* sent, the blocks that wait for their predecessors, the calls that hand   *)
(* them to the chain, and the inventory of peers it is in sync with.        *)
(* Connections are ordered and fail as a whole.  A handler runs to its end  *)
(* in one step; the loops and the chain's own thread run in between.        *)
EXTENDS Integers, FiniteSets, SequencesExt

CONSTANTS
  Peers, Blocks, Genesis,
  Prev,              \* block -> the block before it
  BadBlocks,         \* blocks the chain rejects
  StartBlock,        \* head of the node's chain at the beginning
  StartHead,         \* peer -> head of its chain at the beginning
  Faulty,            \* peers whose connection may be lost, or a block be missing
  MaxIds,            \* ids in a reply
  MinIdsToPrefetch,  \* GRAPHENE_NET_MIN_BLOCK_IDS_TO_PREFETCH
  MaxPerPeer,        \* _maximum_blocks_per_peer_during_syncing
  MaxCalls,          \* _maximum_number_of_blocks_to_handle_at_one_time
  MaxPrefetched,     \* _maximum_number_of_sync_blocks_to_prefetch
  MaxFaults          \* bound of the runs: lost connections and items gone

Ids == Blocks \cup {Genesis}

ASSUME SyncAssumption ==
  /\ Genesis \notin Blocks /\ Prev \in [Blocks -> Ids]
  /\ BadBlocks \subseteq Blocks /\ StartHead \in [Peers -> Ids] /\ StartBlock \in Ids
  /\ MaxIds >= 2 /\ MaxPerPeer > 0 /\ MaxCalls > 0

VARIABLES
  chain,    \* blocks the chain knows, and its head
  node,     \* the state of node_impl
  remote,   \* peer -> its head, and whether it takes us to be out of sync
  faults    \* connections lost, and items of peers gone, so far
vars == <<chain, node, remote, faults>>

(* The blocks from the first to b. *)
Path[b \in Ids] == IF b = Genesis THEN <<>> ELSE Append(Path[Prev[b]], b)
Num(b) == Len(Path[b])
Valid(b) == Range(Path[b]) \cap BadBlocks = {}

(* The chain applies a branch, and finds it bad, when it is the longest. *)
ASSUME BadBlocksAssumption ==
  \A b \in BadBlocks, c \in Blocks \ BadBlocks : Num(c) < Num(b)

(* A connection that was just made. *)
NewPeer == [conn |-> "none", to_get |-> <<>>, unfetched |-> 0, processing |-> {},
            last_seen |-> Genesis, we_need |-> TRUE, peer_needs |-> TRUE, inhibit |-> FALSE,
            ids_requested |-> {}, sync_requested |-> {}, items_requested |-> {},
            inventory |-> {}, advertised |-> {}, out |-> <<>>]

Init ==
  /\ chain = [known |-> Range(Path[StartBlock]), head |-> StartBlock]
  /\ node = [peer |-> [p \in Peers |-> NewPeer], active_sync_requests |-> {},
             new_received |-> <<>>, received |-> <<>>, accepted |-> {}, calls |-> <<>>,
             suspend |-> FALSE, fetch_sync |-> FALSE, backlog |-> FALSE,
             to_fetch |-> {}, fetch_items |-> FALSE]
  /\ remote = [p \in Peers |-> [head |-> StartHead[p], needs |-> TRUE]]
  /\ faults = [drops |-> 0, gone |-> {}]

Active(n) == {p \in Peers : n.peer[p].conn = "active"}
idle(r) == r.ids_requested = {} /\ r.sync_requested = {} /\ r.items_requested = {}
First(s) == IF s = <<>> THEN {} ELSE {s[1]}
have_already_received_sync_item(n, b) == b \in Range(n.received) \cup Range(n.new_received)

----------------------------------------------------------------------------
(* Summaries of a chain and the answers to them.                            *)

(* The block numbers of a summary: the distance to the end is halved.       *)
SynopsisNums(high) ==
  LET from[low \in 1 .. high + 1] ==
        IF low > high THEN <<>> ELSE <<low>> \o from[low + (high - low + 2) \div 2]
  IN from[1]

get_blockchain_synopsis(reference, after) ==
  LET path == Path[IF reference = Genesis THEN chain.head ELSE reference]
      nums == SelectSeq(SynopsisNums(Len(path) + after), LAMBDA i : i <= Len(path))
  IN IF path = <<>> THEN <<>> ELSE [i \in DOMAIN nums |-> path[nums[i]]]

create_blockchain_synopsis_for_peer(r) ==
  LET first == Num(r.to_get[1])
      nums == SelectSeq(SynopsisNums(first + Len(r.to_get) - 1), LAMBDA i : i >= first)
  IN get_blockchain_synopsis(r.last_seen, Len(r.to_get))
       \o (IF r.to_get = <<>> THEN <<>>
             ELSE [i \in DOMAIN nums |-> r.to_get[nums[i] - first + 1]])

(* The blocks of a chain from the last one of the synopsis on. *)
get_block_ids(head, synopsis) ==
  LET path == Path[head]
      common == {i \in DOMAIN synopsis : synopsis[i] \in Range(path)}
      start == IF synopsis = <<>> THEN 1 ELSE Num(synopsis[Max(common)])
      end == Min({start + MaxIds - 1, Len(path)})
  IN IF path = <<>> \/ (synopsis # <<>> /\ common = {})
       THEN [ids |-> <<>>, remaining |-> 0]
       ELSE [ids |-> SubSeq(path, start, end), remaining |-> Len(path) - end]

(* Whether the one who sent the synopsis has yet to get blocks of the       *)
(* answer.                                                                  *)
NeedsItems(synopsis, ids) ==
  ids # <<>> /\ ~(synopsis # <<>> /\ Len(ids) = 1 /\ ids[1] \in Range(synopsis))

----------------------------------------------------------------------------
(* Parts of the handlers: n is the node's state so far.                     *)

fetch_next_batch_of_item_ids_from_peer(n, p) ==
  LET synopsis == create_blockchain_synopsis_for_peer(n.peer[p])
  IN [n EXCEPT !.peer[p].ids_requested = {synopsis},
               !.peer[p].out = Append(@, [type |-> "ids", of |-> synopsis])]

start_synchronizing_with_peer(n, p) ==
  fetch_next_batch_of_item_ids_from_peer(
    [n EXCEPT !.peer[p].to_get = <<>>, !.peer[p].unfetched = 0, !.peer[p].we_need = TRUE,
              !.peer[p].last_seen = Genesis, !.peer[p].inhibit = FALSE], p)

disconnect_from_peer(n, p) == [n EXCEPT !.peer[p].conn = "closing"]

ForEach(Op(_, _), n, ps) == FoldSet(LAMBDA p, m : Op(m, p), n, ps)
NextBatchFrom(n, ps) == ForEach(fetch_next_batch_of_item_ids_from_peer, n, ps)
SynchronizeWith(n, ps) == ForEach(start_synchronizing_with_peer, n, ps)
Disconnect(n, ps) == ForEach(disconnect_from_peer, n, ps)

MoreFaults(p) == p \in Faulty /\ faults.drops + Cardinality(faults.gone) < MaxFaults

(* The oldest request that p has yet to answer. *)
Asked(p, type) == node.peer[p].out # <<>> /\ node.peer[p].out[1].type = type
Answered(n, p) == [n EXCEPT !.peer[p].out = Tail(@)]

----------------------------------------------------------------------------
(* The ids a peer offers in answer to a synopsis.                           *)

(* First of another peer's list: then known blocks stay in the list. *)
is_first_item_for_other_peer(n, p, b) ==
  \E q \in Active(n) \ {p} : b \in First(n.peer[q].to_get)

KnownPrefix(ids) ==
  Max({0} \cup {i \in DOMAIN ids : \A j \in 1 .. i : ids[j] \in chain.known})

(* The new list, and the last block of the peer that the chain has seen.    *)
MergedIds(n, p, ids) ==
  LET r == n.peer[p]
      k == IF is_first_item_for_other_peer(n, p, ids[1]) THEN 0 ELSE KnownPrefix(ids)
      same == {i \in DOMAIN r.to_get : r.to_get[i] = ids[1]}
  IN IF ids = <<>> THEN [to_get |-> r.to_get, last_seen |-> r.last_seen]
     ELSE IF r.to_get = <<>>
       THEN [to_get |-> SubSeq(ids, k + 1, Len(ids)),
             last_seen |-> IF k = 0 THEN r.last_seen ELSE ids[k]]
     ELSE IF same = {}
       THEN [to_get |-> Tail(ids), last_seen |-> ids[1]]
       ELSE [to_get |-> SubSeq(r.to_get, 1, Max(same) - 1) \o ids, last_seen |-> r.last_seen]

(* Then fetch blocks, or the next ids. *)
AfterIds(n, p, remaining) ==
  IF IF remaining # 0 THEN Len(n.peer[p].to_get) > MinIdsToPrefetch ELSE n.peer[p].to_get # <<>>
    THEN [n EXCEPT !.fetch_sync = TRUE]
    ELSE fetch_next_batch_of_item_ids_from_peer(n, p)

MergeIds(n, p, merged, remaining) ==
  AfterIds([n EXCEPT !.peer[p].to_get = merged.to_get, !.peer[p].last_seen = merged.last_seen,
                     !.peer[p].unfetched = remaining], p, remaining)

(* A single id is taken for one the node has. *)
UpToDate_Unchecked(n, p, reply) ==
  /\ reply.remaining = 0 /\ n.peer[p].to_get = <<>> /\ n.peer[p].unfetched = 0
  /\ Len(reply.ids) <= 2

(* A peer that answers after all its ids were seen is in sync with us. *)
UpToDate(n, p, reply) ==
  /\ reply.remaining = 0 /\ n.peer[p].to_get = <<>> /\ n.peer[p].unfetched = 0
  /\ reply.ids = <<>> \/ (Len(reply.ids) = 1 /\ reply.ids[1] \in chain.known)

ReceiveIds(n, p, reply) ==
  IF UpToDate(n, p, reply) THEN [n EXCEPT !.peer[p].we_need = FALSE]
    ELSE MergeIds(n, p, MergedIds(n, p, reply.ids), reply.remaining)

ValidIds(requested, ids) ==
  ids = <<>> \/ IF requested = <<>> THEN Num(ids[1]) = 1 ELSE ids[1] \in Range(requested)

OfferedIds(n, p, reply) ==
  LET requested == n.peer[p].ids_requested
  IN IF requested = {} THEN n
     ELSE IF \E synopsis \in requested : ~ValidIds(synopsis, reply.ids)
       THEN disconnect_from_peer(n, p)
       ELSE ReceiveIds([n EXCEPT !.peer[p].ids_requested = {}], p, reply)

on_blockchain_item_ids_inventory_message(p) ==
  /\ Asked(p, "ids")
  /\ LET synopsis == node.peer[p].out[1].of
         reply == get_block_ids(remote[p].head, synopsis)
     IN /\ node' = OfferedIds(Answered(node, p), p, reply)
        /\ remote' = [remote EXCEPT ![p].needs = NeedsItems(synopsis, reply.ids)]
  /\ UNCHANGED <<chain, faults>>

----------------------------------------------------------------------------
(* Requests for sync blocks.                                                *)

ItemsToRequest(n, r) ==
  LET missing == SelectSeq(r.to_get, LAMBDA b : /\ ~have_already_received_sync_item(n, b)
                                               /\ b \notin n.active_sync_requests)
  IN SubSeq(missing, 1, Min({MaxPerPeer, Len(missing)}))

request_sync_items_from_peer(n, p, items) ==
  [n EXCEPT !.active_sync_requests = @ \cup Range(items),
            !.peer[p].sync_requested = @ \cup Range(items),
            !.peer[p].out = @ \o [i \in DOMAIN items |-> [type |-> "block", of |-> <<items[i]>>]]]

RequestFrom(n, p) ==
  LET r == n.peer[p]
  IN IF r.we_need /\ idle(r) /\ ~r.inhibit
       THEN request_sync_items_from_peer(n, p, ItemsToRequest(n, r)) ELSE n

(* The peers in the order of their addresses in memory: any. *)
fetch_sync_items_loop ==
  /\ node.fetch_sync
  /\ \E order \in SetToSeqs(Active(node)) :
       LET n == [node EXCEPT !.fetch_sync = FALSE]
       IN node' = IF n.suspend THEN n ELSE FoldLeft(RequestFrom, n, order)
  /\ UNCHANGED <<chain, remote, faults>>

----------------------------------------------------------------------------
(* Blocks that wait for their predecessors.                                 *)

(* Peers whose list starts with b, once it is taken off the lists. *)
BeginProcessing(n, b) ==
  [n EXCEPT !.peer = [p \in Peers |->
     IF p \in Active(n) /\ b \in First(@[p].to_get)
       THEN [@[p] EXCEPT !.to_get = Tail(@), !.processing = @ \cup {b}] ELSE @[p]]]

EndProcessing(n, b) ==
  [n EXCEPT !.peer = [p \in Peers |->
     IF p \in Active(n) THEN [@[p] EXCEPT !.processing = @ \ {b}] ELSE @[p]]]

(* Peers that b was the last block of: they are asked whether there is more. *)
NewlyEmpty(n, b) ==
  {p \in Active(n) : /\ n.peer[p].processing = {b}
                     /\ n.peer[p].to_get = <<>> /\ n.peer[p].unfetched = 0}

(* One turn of the loop over the received blocks; go tells whether there is *)
(* another.                                                                 *)
HandOver(n, i) ==
  [go |-> TRUE,
   n |-> [n EXCEPT !.calls = Append(@, [block |-> n.received[i], result |-> "queued"]),
                   !.received = RemoveAt(@, i)]]
AlreadyAccepted(n, b) ==
  [go |-> FALSE, n |-> NextBatchFrom(EndProcessing(n, b), NewlyEmpty(n, b))]
TakeBlock(n, i) ==
  IF n.received[i] \in n.accepted THEN AlreadyAccepted(n, n.received[i]) ELSE HandOver(n, i)

Limit(s) ==
  IF Len(s.n.calls) >= MaxCalls
    THEN [go |-> FALSE, n |-> [s.n EXCEPT !.suspend = @ \/ Len(s.n.received) >= MaxPrefetched]]
    ELSE s

(* Any received block that is on a list is handed over. *)
Turn_Unordered(s, turn) ==
  LET wanted == {i \in DOMAIN s.n.received :
                   \E p \in Active(s.n) : s.n.received[i] \in Range(s.n.peer[p].to_get)}
  IN IF ~s.go THEN s
     ELSE IF wanted = {} THEN Limit([s EXCEPT !.go = FALSE])
     ELSE Limit(TakeBlock(s.n, Min(wanted)))

Turn(s, turn) ==
  LET first == {i \in DOMAIN s.n.received :
                  \E p \in Active(s.n) : s.n.received[i] \in First(s.n.peer[p].to_get)}
  IN IF ~s.go THEN s
     ELSE IF first = {} THEN Limit([s EXCEPT !.go = FALSE])
     ELSE Limit(TakeBlock(BeginProcessing(s.n, s.n.received[Min(first)]), Min(first)))

Backlog(n) ==
  FoldLeft(Turn, [go |-> TRUE, n |-> [n EXCEPT !.received = Reverse(n.new_received) \o @,
                                               !.new_received = <<>>, !.suspend = FALSE]],
           [i \in 1 .. Len(n.received) + Len(n.new_received) + 1 |-> i]).n

process_backlog_of_sync_blocks ==
  /\ node.backlog
  /\ LET n == [node EXCEPT !.backlog = FALSE]
         m == Backlog(n)
     IN node' = IF Len(n.calls) >= MaxCalls THEN n
                ELSE [m EXCEPT !.fetch_sync = @ \/ ~m.suspend]
  /\ UNCHANGED <<chain, remote, faults>>

----------------------------------------------------------------------------
(* The chain's thread and what follows its answer.                          *)

Pushed(b) == [known |-> chain.known \cup {b},
              head |-> IF Num(b) > Num(chain.head) THEN b ELSE chain.head]
Linkable(b) == Prev[b] \in chain.known \cup {Genesis}

Queued == {i \in DOMAIN node.calls : node.calls[i].result = "queued"}

handle_block ==
  /\ Queued # {}
  /\ LET i == Min(Queued)
         b == node.calls[i].block
     IN IF Linkable(b) /\ b \notin BadBlocks
          THEN /\ chain' = Pushed(b)
               /\ node' = [node EXCEPT !.calls[i].result = "accepted"]
          ELSE /\ node' = [node EXCEPT !.calls[i].result = "rejected"]
               /\ UNCHANGED chain
  /\ UNCHANGED <<remote, faults>>

InSync(n) ==
  {p \in Active(n) : /\ n.peer[p].to_get = <<>> /\ n.peer[p].processing = {}
                     /\ ~n.peer[p].peer_needs /\ ~n.peer[p].we_need}
Seen(n, b) ==
  [n EXCEPT !.peer = [p \in Peers |->
     IF p \in Active(n) /\ b \in @[p].processing THEN [@[p] EXCEPT !.last_seen = b] ELSE @[p]]]

SyncBlockAccepted(n, b) ==
  SynchronizeWith(NextBatchFrom(EndProcessing(Seen([n EXCEPT !.accepted = @ \cup {b}], b), b),
                                NewlyEmpty(n, b)), InSync(n))
SyncBlockRejected(n, b) == Disconnect(n, {p \in Active(n) : b \in n.peer[p].processing})

send_sync_block_to_node_delegate ==
  /\ node.calls # <<>> /\ node.calls[1].result # "queued"
  /\ LET n == [node EXCEPT !.calls = Tail(@), !.backlog = TRUE]
         b == node.calls[1].block
     IN node' = IF node.calls[1].result = "accepted" THEN SyncBlockAccepted(n, b)
                                                     ELSE SyncBlockRejected(n, b)
  /\ UNCHANGED <<chain, remote, faults>>

----------------------------------------------------------------------------
(* A block arrives: requested during normal operation, or for the sync.     *)

TriggerItemsIfIdle(n, p) == IF idle(n.peer[p]) THEN [n EXCEPT !.fetch_items = TRUE] ELSE n

(* The block goes to the peers that are in sync and do not have it. *)
broadcast(n, b) ==
  [n EXCEPT !.accepted = @ \cup {b},
            !.peer = [p \in Peers |->
     IF p \in Active(n) /\ ~@[p].peer_needs /\ b \notin @[p].inventory
       THEN [@[p] EXCEPT !.advertised = @ \cup {b}] ELSE @[p]]]
OfferedBy(n, b) ==
  [n EXCEPT !.peer = [p \in Peers |->
     IF p \in Active(n) /\ b \in @[p].inventory THEN [@[p] EXCEPT !.last_seen = b] ELSE @[p]]]

(* A block that does not link is treated like an invalid one. *)
process_block_during_normal_operation_NoRestart(n, p, b) ==
  IF b \in n.accepted \/ (Linkable(b) /\ b \notin BadBlocks) THEN broadcast(OfferedBy(n, b), b)
  ELSE Disconnect(n, {p} \cup {q \in Active(n) : b \in First(n.peer[q].to_get)})

process_block_during_normal_operation(n, p, b) ==
  IF b \in n.accepted \/ (Linkable(b) /\ b \notin BadBlocks) THEN broadcast(OfferedBy(n, b), b)
  ELSE IF ~Linkable(b) THEN start_synchronizing_with_peer(n, p)
  ELSE Disconnect(n, {p} \cup {q \in Active(n) : b \in First(n.peer[q].to_get)})

NormalBlock(p, b) ==
  /\ Queued = {}          \* its call waits behind those
  /\ chain' = IF b \notin node.accepted /\ Linkable(b) /\ b \notin BadBlocks
                THEN Pushed(b) ELSE chain
  /\ node' = TriggerItemsIfIdle(
       process_block_during_normal_operation(
         [Answered(node, p) EXCEPT !.peer[p].items_requested = @ \ {b}], p, b), p)

process_block_during_sync(n, b) ==
  [n EXCEPT !.new_received = <<b>> \o @, !.backlog = TRUE]

AfterSyncBlock(n, p) ==
  LET r == n.peer[p]
  IN IF ~idle(r) THEN n
     ELSE IF r.unfetched > 0 /\ Len(r.to_get) < MinIdsToPrefetch
       THEN fetch_next_batch_of_item_ids_from_peer(n, p)
       ELSE [n EXCEPT !.fetch_sync = TRUE]

SyncBlock(p, b) ==
  /\ node' = AfterSyncBlock(process_block_during_sync(
       [Answered(node, p) EXCEPT !.peer[p].sync_requested = @ \ {b},
                                 !.active_sync_requests = @ \ {b}], b), p)
  /\ UNCHANGED chain

process_block_message(p) ==
  /\ Asked(p, "block")
  /\ LET b == node.peer[p].out[1].of[1]
     IN IF b \in node.peer[p].items_requested THEN NormalBlock(p, b)
        ELSE IF b \in node.peer[p].sync_requested THEN SyncBlock(p, b)
        ELSE node' = disconnect_from_peer(Answered(node, p), p) /\ UNCHANGED chain
  /\ UNCHANGED <<remote, faults>>

(* The peer does not have the item: it has left the peer's message cache,  *)
(* or a block is missing from its database.                                *)
is_item_in_any_peers_inventory(n, b) == \E p \in Active(n) : b \in n.peer[p].inventory

Requeue(n, bs) ==
  [n EXCEPT !.to_fetch = @ \cup {b \in bs : is_item_in_any_peers_inventory(n, b)},
            !.fetch_items = TRUE]

NotAvailable(n, p, b) ==
  IF n.peer[p].peer_needs
    THEN [n EXCEPT !.peer[p].sync_requested = @ \ {b}, !.fetch_sync = TRUE, !.peer[p].inhibit = TRUE]
    ELSE disconnect_from_peer([n EXCEPT !.peer[p].sync_requested = @ \ {b}, !.fetch_sync = TRUE], p)

on_item_not_available_message(p) ==
  /\ Asked(p, "block")
  /\ MoreFaults(p)
  /\ LET b == node.peer[p].out[1].of[1]
         n == Answered(node, p)
     IN /\ faults' = [faults EXCEPT !.gone = @ \cup {<<p, b>>}]
        /\ IF b \in node.peer[p].items_requested
             THEN node' = Requeue([n EXCEPT !.peer[p].items_requested = @ \ {b},
                                            !.peer[p].inventory = @ \ {b}], {b})
             ELSE /\ b \in node.peer[p].sync_requested
                  /\ node' = NotAvailable(n, p, b)
  /\ UNCHANGED <<chain, remote>>

----------------------------------------------------------------------------
(* Normal operation: items that peers advertise.                            *)

on_item_ids_inventory_message(n, p, b) ==
  LET requested == \E q \in Active(n) : b \in n.peer[q].items_requested
  IN IF \E q \in Active(n) : b \in n.peer[q].advertised THEN n
     ELSE IF requested \/ b \in n.to_fetch THEN [n EXCEPT !.peer[p].inventory = @ \cup {b}]
     ELSE [n EXCEPT !.peer[p].inventory = @ \cup {b},
                    !.to_fetch = @ \cup {b}, !.fetch_items = TRUE]

(* One item from every idle peer that has one we want, as far as they go. *)
Offers(n, b) == {p \in Active(n) : idle(n.peer[p]) /\ b \in n.peer[p].inventory}
Assignments(n) ==
  {f \in UNION {[bs -> Active(n)] : bs \in SUBSET n.to_fetch} :
     /\ IsInjective(f)
     /\ \A b \in DOMAIN f : f[b] \in Offers(n, b)
     /\ \A b \in n.to_fetch \ DOMAIN f : Offers(n, b) \subseteq Range(f)}
RequestItems(n, f) ==
  [n EXCEPT !.fetch_items = FALSE, !.to_fetch = @ \ DOMAIN f,
            !.peer = [p \in Peers |-> LET bs == {b \in DOMAIN f : f[b] = p} IN
     [@[p] EXCEPT !.items_requested = @ \cup bs,
                  !.out = @ \o SetToSeq({[type |-> "block", of |-> <<b>>] : b \in bs})]]]

fetch_items_loop ==
  /\ node.fetch_items
  /\ \E f \in Assignments(node) : node' = RequestItems(node, f)
  /\ UNCHANGED <<chain, remote, faults>>

----------------------------------------------------------------------------
(* The peers.                                                               *)

(* A peer asks us for ids: after connecting, and until it has our blocks. *)
ConsiderPeer(n, p, synopsis, needs) ==
  LET m == [n EXCEPT !.peer[p].peer_needs = needs]
      unknown == synopsis # <<>> /\ Last(synopsis) \notin chain.known
      started == IF ~m.peer[p].we_need /\ unknown THEN start_synchronizing_with_peer(m, p) ELSE m
  IN IF ~needs /\ n.peer[p].inhibit /\ get_block_ids(chain.head, synopsis).ids # <<>>
       THEN disconnect_from_peer(started, p) ELSE started

on_fetch_blockchain_item_ids_message(n, p, head) ==
  LET path == Path[head]
      nums == SynopsisNums(Len(path))
      synopsis == [i \in DOMAIN nums |-> path[nums[i]]]
  IN ConsiderPeer(n, p, synopsis, NeedsItems(synopsis, get_block_ids(chain.head, synopsis).ids))

(* It may have fetched our blocks before it asks again. *)
PeerAsks(p) ==
  /\ p \in Active(node) /\ node.peer[p].peer_needs
  /\ \E h \in {remote[p].head} \cup {b \in {chain.head} : Num(b) > Num(remote[p].head)} :
       /\ remote' = [remote EXCEPT ![p].head = h]
       /\ node' = on_fetch_blockchain_item_ids_message(node, p, h)
  /\ UNCHANGED <<chain, faults>>

(* A peer's chain grows or switches to a longer one.  When it takes us to  *)
(* be in sync it advertises the block, or asks us for ids when it got the  *)
(* block by a sync of its own; it does neither when it has the block from  *)
(* us.                                                                     *)
PeerBlock(p, b) ==
  /\ Num(b) = Num(remote[p].head) + 1
  /\ remote' = [remote EXCEPT ![p].head = b]
  /\ IF p \in Active(node) /\ ~remote[p].needs /\ b \notin node.peer[p].advertised
       THEN \/ node' = on_item_ids_inventory_message(node, p, b)
            \/ node' = on_fetch_blockchain_item_ids_message(node, p, b)
       ELSE UNCHANGED node
  /\ UNCHANGED <<chain, faults>>

----------------------------------------------------------------------------
(* Connections.                                                             *)

new_peer_just_added(p) ==
  /\ node.peer[p].conn = "none"
  /\ node' = start_synchronizing_with_peer([node EXCEPT !.peer[p].conn = "active"], p)
  /\ remote' = [remote EXCEPT ![p].needs = TRUE]
  /\ UNCHANGED <<chain, faults>>

(* The requests of a peer that is gone stay. *)
Closed_Forgets(n, p, r) ==
  LET m == [n EXCEPT !.peer[p] = NewPeer, !.fetch_sync = @ \/ r.sync_requested # {}]
  IN IF r.items_requested = {} THEN m ELSE Requeue(m, r.items_requested)

(* What was requested of the peer and has not come is to be fetched from   *)
(* another one.                                                            *)
Closed(n, p, r) ==
  LET m == [n EXCEPT !.peer[p] = NewPeer, !.active_sync_requests = @ \ r.sync_requested,
                     !.fetch_sync = @ \/ r.sync_requested # {}]
  IN IF r.items_requested = {} THEN m ELSE Requeue(m, r.items_requested)

on_connection_closed(p) ==
  /\ \/ node.peer[p].conn = "closing" /\ UNCHANGED faults
     \/ /\ node.peer[p].conn = "active" /\ MoreFaults(p)
        /\ faults' = [faults EXCEPT !.drops = @ + 1]
  /\ node' = Closed(node, p, node.peer[p])
  /\ UNCHANGED <<chain, remote>>

(* A peer that leaves requests unanswered, or whose sync has stalled.      *)
Inactive(r) == r.sync_requested # {} \/ r.ids_requested # {} \/ r.items_requested # {}
SyncStalled(r) == r.we_need /\ r.ids_requested = {} /\ r.to_get = <<>>

terminate_inactive_connections_loop(p) ==
  /\ p \in Active(node) /\ MoreFaults(p)
  /\ Inactive(node.peer[p]) \/ SyncStalled(node.peer[p])
  /\ node' = [node EXCEPT !.peer[p].conn = "closing"]
  /\ faults' = [faults EXCEPT !.drops = @ + 1]
  /\ UNCHANGED <<chain, remote>>

Next ==
  \/ \E p \in Peers : \/ on_blockchain_item_ids_inventory_message(p)
                      \/ process_block_message(p)
                      \/ on_item_not_available_message(p)
                      \/ PeerAsks(p)
                      \/ \E b \in Blocks : PeerBlock(p, b)
                      \/ new_peer_just_added(p)
                      \/ on_connection_closed(p)
                      \/ terminate_inactive_connections_loop(p)
  \/ fetch_sync_items_loop
  \/ process_backlog_of_sync_blocks
  \/ handle_block
  \/ send_sync_block_to_node_delegate
  \/ fetch_items_loop

Spec == Init /\ [][Next]_vars

Arrives(p) ==
  Asked(p, "block") /\ (node.peer[p].out[1].of[1] \in node.peer[p].items_requested => Queued = {})

(* The loops and calls of the node run when they were triggered, and peers *)
(* that stay connected answer.  It is the weak fairness of the actions:    *)
(* each is enabled when the state formula beside it holds, always changes  *)
(* the state, and TLC evaluates the formula far sooner than ENABLED.  What *)
(* stands before an action is an effect of it that is tested sooner.       *)
Fairness ==
  /\ []<>~node.fetch_sync \/ []<><<~node'.fetch_sync /\ fetch_sync_items_loop>>_vars
  /\ []<>~node.backlog \/ []<><<~node'.backlog /\ process_backlog_of_sync_blocks>>_vars
  /\ []<>(Queued = {}) \/ []<><<node'.calls # node.calls /\ handle_block>>_vars
  /\ \/ []<>(node.calls = <<>> \/ 1 \in Queued)
     \/ []<><<node'.calls # node.calls /\ send_sync_block_to_node_delegate>>_vars
  /\ []<>~node.fetch_items \/ []<><<~node'.fetch_items /\ fetch_items_loop>>_vars
  /\ \A p \in Peers :
       LET peer == node.peer[p]
       IN /\ []<>~Asked(p, "ids") \/ []<><<on_blockchain_item_ids_inventory_message(p)>>_vars
          /\ []<>~Arrives(p) \/ []<><<peer'.out # peer.out /\ process_block_message(p)>>_vars
          /\ []<>(peer.conn # "none") \/ []<><<peer'.conn = "active" /\ new_peer_just_added(p)>>_vars
          /\ []<>(peer.conn # "closing") \/ []<><<peer'.conn = "none" /\ on_connection_closed(p)>>_vars
FairSpec == Spec /\ Fairness

----------------------------------------------------------------------------
PeerType ==
  [conn : {"none", "active", "closing"}, to_get : Seq(Blocks), unfetched : Nat,
   processing : SUBSET Blocks, last_seen : Ids, we_need : BOOLEAN, peer_needs : BOOLEAN,
   inhibit : BOOLEAN, ids_requested : SUBSET Seq(Blocks), sync_requested : SUBSET Blocks,
   items_requested : SUBSET Blocks, inventory : SUBSET Blocks, advertised : SUBSET Blocks,
   out : Seq([type : {"ids", "block"}, of : Seq(Blocks)])]

(* Types, and the limit of calls in progress: process_backlog_of_sync_blocks *)
(* gives the chain no more blocks at a time than it may.                     *)
TypeOK ==
  /\ chain.known \subseteq Blocks /\ chain.head \in chain.known \cup {Genesis}
  /\ node.peer \in [Peers -> PeerType]
  /\ node.active_sync_requests \subseteq Blocks
  /\ node.received \in Seq(Blocks) /\ node.new_received \in Seq(Blocks)
  /\ node.accepted \subseteq chain.known
  /\ node.calls \in Seq([block : Blocks, result : {"queued", "accepted", "rejected"}])
  /\ Len(node.calls) <= MaxCalls
  /\ \A p \in Peers : Cardinality(node.peer[p].sync_requested) <= MaxPerPeer

(* process_backlog_of_sync_blocks gives the chain a block after the block   *)
(* before it, although blocks come in any order, from several peers and     *)
(* through the inventory, and lists are cleared and filled meanwhile: a     *)
(* block out of order would be rejected, and the peers that offer it        *)
(* disconnected.                                                            *)
HandedInOrder ==
  \A i \in Queued : Valid(Prev[node.calls[i].block]) =>
    \/ Linkable(node.calls[i].block)
    \/ \E j \in Queued : j < i /\ node.calls[j].block = Prev[node.calls[i].block]

(* _active_sync_requests is what fetch_sync_items_loop has requested of the *)
(* peers that are still connected, each block of one: a block that stayed   *)
(* in it after its peer is gone would never be requested again.  (It stays  *)
(* when a peer does not have the block: on_item_not_available_message.)     *)
RequestedOnce ==
  /\ UNION {node.peer[p].sync_requested : p \in Peers} \subseteq node.active_sync_requests
  /\ \A b \in node.active_sync_requests :
       \E p \in Peers : b \in node.peer[p].sync_requested \/ <<p, b>> \in faults.gone
  /\ \A p, q \in Peers : p # q => node.peer[p].sync_requested \cap node.peer[q].sync_requested = {}

(* The bookkeeping of fetch_sync_items_loop and                             *)
(* process_backlog_of_sync_blocks: each block requested of one peer at a    *)
(* time and handed over after the one before it, within the limits.         *)
RequestsKept == TypeOK /\ HandedInOrder /\ RequestedOnce

(* When on_blockchain_item_ids_inventory_message has set the peer in sync,  *)
(* the node knows the peer's head or was told of it by the inventory: the   *)
(* two ends agree on who tells whom of new blocks, also when blocks come    *)
(* while the question is under way.  An item that the peer no longer has is *)
(* excepted.                                                                *)
Informed ==
  \A p \in Active(node) : ~node.peer[p].we_need =>
    \/ remote[p].head \in chain.known \cup node.peer[p].inventory \cup {Genesis}
    \/ <<p, remote[p].head>> \in faults.gone

(* The chain can tell that the block is bad, or one before it. *)
FoundBad(b) == \E c \in Range(Path[b]) \cap BadBlocks : Linkable(c)

(* send_sync_block_to_node_delegate and process_block_message disconnect a  *)
(* peer for a block only when the chain found that block or one before it   *)
(* bad, never because blocks came in an unlucky order or were not asked for *)
(* any more.  (Answers to ids are left out: a second request may be sent    *)
(* while one is under way, and then the first answer is checked against the *)
(* second synopsis.)                                                        *)
BlamedForBlock ==
  [][(\E p \in Active(node) : node'.peer[p].conn = "closing") =>
       /\ Len(node'.calls) < Len(node.calls) => FoundBad(node.calls[1].block)
       /\ \A p \in Peers :
            Asked(p, "block") /\ node'.peer[p].out = Tail(node.peer[p].out) /\ faults' = faults
              => FoundBad(node.peer[p].out[1].of[1])]_vars

(* A peer is idle with blocks to fetch from it for the sync, and nothing is *)
(* under way that wakes fetch_sync_items_loop up: a block requested in      *)
(* normal operation came after its peer was put back into sync, and         *)
(* process_block_message woke fetch_items_loop only.                        *)
Forgotten ==
  \E p \in Active(node) :
    LET r == node.peer[p]
    IN /\ r.we_need /\ idle(r) /\ ~r.inhibit /\ ItemsToRequest(node, r) # <<>>
       /\ ~node.fetch_sync /\ ~node.backlog /\ node.calls = <<>>

(* A received block is next on a list and nothing will look at it: after    *)
(* AlreadyAccepted, which ends the loop, or for a peer that offers only     *)
(* blocks that were received before it connected.                           *)
Stuck == /\ ~node.backlog /\ node.calls = <<>>
         /\ \E p \in Active(node) : \E b \in First(node.peer[p].to_get) :
              have_already_received_sync_item(node, b)

(* Under Fairness the node gets to know all valid blocks of its peers again *)
(* and again, with lost connections, answers that do not come and peers     *)
(* that switch forks, unless it rests in one of the two states above.  The  *)
(* chain of a peer that missed a block, and chains with that block, are     *)
(* excepted.                                                                *)
EventuallyInSync ==
  []<>(\/ Stuck \/ Forgotten
       \/ \A p \in Peers :
            (\A x \in faults.gone : x[1] # p /\ x[2] \notin Range(Path[remote[p].head])) =>
            \A b \in Range(Path[remote[p].head]) : Valid(b) => b \in chain.known)
=============================================================================
