----------------------------- MODULE UndoProofs -----------------------------
(***************************************************************************)
(* The undo database keeps differences; these proofs show that they amount *)
(* to copies of the whole store, for any number of objects, any contents   *)
(* and any length of history.                                              *)
(***************************************************************************)
EXTENDS UndoDatabase, SequenceTheorems, TLAPS

StoreRecord == [objects : [Ids -> Contents], next_id : 1 .. MaxId + 1]

(* Every object has an id that was given out. *)
Numbered(st) == \A id \in Ids : st.objects[id] # None => id < st.next_id

(* Nothing is recorded while disabled, and a session that disables on exit *)
(* began with an empty stack.                                              *)
SessionsOK ==
  /\ Len(sessions) <= MaxDepth
  /\ disabled => stack = <<>> /\ sessions = <<>>
  /\ \A i \in 1 .. Len(sessions) : sessions[i] => i = 1 /\ Len(stack) = Len(sessions)

UndoInv ==
  /\ TypeOK
  /\ EntriesRestore
  /\ OpenSessionsKept
  /\ SessionsOK
  /\ Numbered(Store)
  /\ \A i \in 1 .. Len(snapshots) : Numbered(snapshots[i])
-----------------------------------------------------------------------------
LEMMA ConstantsTyped ==
  /\ MaxId \in Nat /\ MaxDepth \in Nat /\ None \notin Values /\ Sizes \subseteq Nat \ {0}
  /\ None \in Contents
  /\ Nothing \in [Ids -> Contents]
  /\ EmptyState \in undo_state
  /\ \A v \in Values : v # None /\ v \in Contents
BY UndoAssumption DEF Nothing, EmptyState, undo_state, Contents, Ids

(* The three ways an entry changes, object by object. *)
LEMMA CreateTyped ==
  ASSUME NEW s \in undo_state, NEW id \in Ids
  PROVE  /\ OnCreate(s, id) \in undo_state
         /\ OnCreate(s, id).old_values = s.old_values
         /\ OnCreate(s, id).removed = s.removed
         /\ OnCreate(s, id).new_ids = s.new_ids \cup {id}
         /\ OnCreate(s, id).old_index_next_id = IF s.old_index_next_id = 0 THEN id ELSE s.old_index_next_id
<1> DEFINE first == IF s.old_index_next_id = 0 THEN id ELSE s.old_index_next_id
           ids == s.new_ids \cup {id}
<1>1. OnCreate(s, id) = [s EXCEPT !.old_index_next_id = first, !.new_ids = ids]
  BY DEF OnCreate
<1>2. first \in 0 .. MaxId /\ ids \subseteq Ids
  BY ConstantsTyped DEF undo_state, Ids
<1>3. first = IF s.old_index_next_id = 0 THEN id ELSE s.old_index_next_id
  OBVIOUS
<1> HIDE DEF first
<1> QED BY <1>1, <1>2, <1>3 DEF undo_state

LEMMA ModifyTyped ==
  ASSUME NEW s \in undo_state, NEW id \in Ids, NEW was \in Contents
  PROVE  /\ OnModify(s, id, was) \in undo_state
         /\ OnModify(s, id, was).removed = s.removed
         /\ OnModify(s, id, was).new_ids = s.new_ids
         /\ OnModify(s, id, was).old_index_next_id = s.old_index_next_id
         /\ \A j \in Ids : OnModify(s, id, was).old_values[j] =
              IF j = id /\ id \notin s.new_ids /\ s.old_values[id] = None THEN was ELSE s.old_values[j]
BY ConstantsTyped DEF OnModify, undo_state

LEMMA RemoveTyped ==
  ASSUME NEW s \in undo_state, NEW id \in Ids, NEW was \in Contents
  PROVE  /\ OnRemove(s, id, was) \in undo_state
         /\ OnRemove(s, id, was).old_index_next_id = s.old_index_next_id
         /\ \A j \in Ids : j # id =>
              /\ OnRemove(s, id, was).old_values[j] = s.old_values[j]
              /\ OnRemove(s, id, was).removed[j] = s.removed[j]
              /\ j \in OnRemove(s, id, was).new_ids <=> j \in s.new_ids
         /\ OnRemove(s, id, was).new_ids = s.new_ids \ {id}
         /\ id \in s.new_ids => /\ OnRemove(s, id, was).old_values = s.old_values
                                /\ OnRemove(s, id, was).removed = s.removed
         /\ id \notin s.new_ids /\ s.old_values[id] # None =>
              /\ OnRemove(s, id, was).old_values[id] = None
              /\ OnRemove(s, id, was).removed[id] = s.old_values[id]
         /\ id \notin s.new_ids /\ s.old_values[id] = None =>
              /\ OnRemove(s, id, was).old_values[id] = None
              /\ OnRemove(s, id, was).removed[id] = IF s.removed[id] # None THEN s.removed[id] ELSE was
<1>1. CASE id \in s.new_ids
  BY <1>1, ConstantsTyped DEF OnRemove, undo_state
<1>2. CASE id \notin s.new_ids /\ s.old_values[id] # None
  BY <1>2, ConstantsTyped DEF OnRemove, undo_state
<1>3. CASE id \notin s.new_ids /\ s.old_values[id] = None
  BY <1>3, ConstantsTyped DEF OnRemove, undo_state
<1> QED BY <1>1, <1>2, <1>3

LEMMA MergeTyped ==
  ASSUME NEW a \in undo_state, NEW b \in undo_state
  PROVE  /\ Merged(a, b) \in undo_state
         /\ Merged(a, b).old_index_next_id =
              IF a.old_index_next_id = 0 THEN b.old_index_next_id ELSE a.old_index_next_id
         /\ \A id \in Ids :
              /\ id \in Merged(a, b).new_ids <=>
                   (id \in a.new_ids \/ id \in b.new_ids) /\ b.removed[id] = None
              /\ Merged(a, b).old_values[id] =
                   IF b.removed[id] # None THEN None
                   ELSE IF id \in a.new_ids \/ a.old_values[id] # None THEN a.old_values[id]
                   ELSE b.old_values[id]
              /\ Merged(a, b).removed[id] =
                   IF b.removed[id] = None \/ id \in a.new_ids THEN a.removed[id]
                   ELSE IF a.old_values[id] # None THEN a.old_values[id] ELSE b.removed[id]
BY ConstantsTyped DEF Merged, WasRemoved, undo_state
-----------------------------------------------------------------------------
LEMMA CreateLeads ==
  ASSUME NEW s \in undo_state, NEW from \in StoreRecord, NEW to \in StoreRecord,
         NEW new \in StoreRecord, NEW v \in Values, Leads(s, from, to), Numbered(from), Numbered(to),
         to.next_id \in Ids,
         new.objects = [to.objects EXCEPT ![to.next_id] = v], new.next_id = to.next_id + 1
  PROVE  Leads(OnCreate(s, to.next_id), from, new)
<1> DEFINE k == to.next_id
           t == OnCreate(s, k)
<1>1. /\ t.old_values = s.old_values /\ t.removed = s.removed /\ t.new_ids = s.new_ids \cup {k}
      /\ t.old_index_next_id = IF s.old_index_next_id = 0 THEN k ELSE s.old_index_next_id
  BY CreateTyped
<1>2. from.next_id <= k /\ from.next_id \in Nat /\ k \in Nat /\ k # 0
  BY ConstantsTyped DEF Leads, StoreRecord, Ids
<1>3. from.objects[k] = None /\ to.objects[k] = None
  BY <1>2 DEF Numbered
<1>4. new.objects[k] = v /\ v # None /\ \A id \in Ids : id # k => new.objects[id] = to.objects[id]
  BY ConstantsTyped DEF StoreRecord
<1> HIDE DEF t
<1>5. ASSUME NEW id \in Ids PROVE Relates(t, id, from.objects[id], new.objects[id])
  <2>1. Relates(s, id, from.objects[id], to.objects[id])
    BY DEF Leads
  <2>2. CASE id = k
    BY <1>1, <1>3, <1>4, <2>1, <2>2 DEF Relates
  <2>3. CASE id # k
    BY <1>1, <1>4, <2>1, <2>3 DEF Relates
  <2> QED BY <2>2, <2>3
<1>6. IF t.old_index_next_id = 0 THEN new.next_id = from.next_id
      ELSE t.old_index_next_id = from.next_id /\ from.next_id <= new.next_id
  BY <1>1, <1>2 DEF Leads
<1>7. \A id \in t.new_ids : from.next_id <= id
  BY <1>1, <1>2 DEF Leads
<1> QED BY <1>5, <1>6, <1>7 DEF Leads, t

LEMMA ModifyLeads ==
  ASSUME NEW s \in undo_state, NEW from \in StoreRecord, NEW to \in StoreRecord,
         NEW new \in StoreRecord, NEW k \in Ids, NEW v \in Values, Leads(s, from, to),
         to.objects[k] # None,
         new.objects = [to.objects EXCEPT ![k] = v], new.next_id = to.next_id
  PROVE  Leads(OnModify(s, k, to.objects[k]), from, new)
<1> DEFINE t == OnModify(s, k, to.objects[k])
<1>0. to.objects[k] \in Contents
  BY DEF StoreRecord
<1>1. /\ t.removed = s.removed /\ t.new_ids = s.new_ids
      /\ t.old_index_next_id = s.old_index_next_id
      /\ \A j \in Ids : t.old_values[j] =
              IF j = k /\ k \notin s.new_ids /\ s.old_values[k] = None THEN to.objects[k]
              ELSE s.old_values[j]
  BY <1>0, ModifyTyped
<1>2. new.objects[k] = v /\ v # None /\ \A id \in Ids : id # k => new.objects[id] = to.objects[id]
  BY ConstantsTyped DEF StoreRecord
<1> HIDE DEF t
<1>3. ASSUME NEW id \in Ids PROVE Relates(t, id, from.objects[id], new.objects[id])
  <2>1. Relates(s, id, from.objects[id], to.objects[id])
    BY DEF Leads
  <2>2. CASE id = k
    BY <1>1, <1>2, <2>1, <2>2 DEF Relates
  <2>3. CASE id # k
    BY <1>1, <1>2, <2>1, <2>3 DEF Relates
  <2> QED BY <2>2, <2>3
<1> QED BY <1>1, <1>3 DEF Leads, t

LEMMA RemoveLeads ==
  ASSUME NEW s \in undo_state, NEW from \in StoreRecord, NEW to \in StoreRecord,
         NEW new \in StoreRecord, NEW k \in Ids, Leads(s, from, to), to.objects[k] # None,
         new.objects = [to.objects EXCEPT ![k] = None], new.next_id = to.next_id
  PROVE  Leads(OnRemove(s, k, to.objects[k]), from, new)
<1> DEFINE t == OnRemove(s, k, to.objects[k])
<1>0. to.objects[k] \in Contents
  BY DEF StoreRecord
<1>1. /\ t.old_index_next_id = s.old_index_next_id
      /\ t.new_ids = s.new_ids \ {k}
      /\ \A j \in Ids : j # k => /\ t.old_values[j] = s.old_values[j]
                                 /\ t.removed[j] = s.removed[j]
                                 /\ j \in t.new_ids <=> j \in s.new_ids
  BY <1>0, RemoveTyped
<1>2. /\ k \in s.new_ids => t.old_values = s.old_values /\ t.removed = s.removed
      /\ k \notin s.new_ids /\ s.old_values[k] # None =>
           t.old_values[k] = None /\ t.removed[k] = s.old_values[k]
      /\ k \notin s.new_ids /\ s.old_values[k] = None =>
           /\ t.old_values[k] = None
           /\ t.removed[k] = IF s.removed[k] # None THEN s.removed[k] ELSE to.objects[k]
  BY <1>0, RemoveTyped
<1>3. new.objects[k] = None /\ \A id \in Ids : id # k => new.objects[id] = to.objects[id]
  BY DEF StoreRecord
<1> HIDE DEF t
<1>4. ASSUME NEW id \in Ids PROVE Relates(t, id, from.objects[id], new.objects[id])
  <2>1. Relates(s, id, from.objects[id], to.objects[id])
    BY DEF Leads
  <2>2. CASE id = k
    BY <1>1, <1>2, <1>3, <2>1, <2>2 DEF Relates
  <2>3. CASE id # k
    BY <1>1, <1>3, <2>1, <2>3 DEF Relates
  <2> QED BY <2>2, <2>3
<1>5. \A id \in t.new_ids : from.next_id <= id
  BY <1>1 DEF Leads
<1> QED BY <1>1, <1>4, <1>5 DEF Leads, t

(* The table in merge. *)
LEMMA MergeLeads ==
  ASSUME NEW a \in undo_state, NEW b \in undo_state, NEW from \in StoreRecord,
         NEW mid \in StoreRecord, NEW to \in StoreRecord, Leads(a, from, mid), Leads(b, mid, to),
         Numbered(from)
  PROVE  Leads(Merged(a, b), from, to)
<1> DEFINE t == Merged(a, b)
<1>1. /\ t.old_index_next_id =
           IF a.old_index_next_id = 0 THEN b.old_index_next_id ELSE a.old_index_next_id
      /\ t.new_ids \subseteq Ids
      /\ \A id \in Ids :
              /\ id \in t.new_ids <=> (id \in a.new_ids \/ id \in b.new_ids) /\ b.removed[id] = None
              /\ t.old_values[id] =
                   IF b.removed[id] # None THEN None
                   ELSE IF id \in a.new_ids \/ a.old_values[id] # None THEN a.old_values[id]
                   ELSE b.old_values[id]
              /\ t.removed[id] =
                   IF b.removed[id] = None \/ id \in a.new_ids THEN a.removed[id]
                   ELSE IF a.old_values[id] # None THEN a.old_values[id] ELSE b.removed[id]
  <2>1. t \in undo_state
    BY MergeTyped
  <2>2. t.new_ids \subseteq Ids
    BY <2>1 DEF undo_state
  <2> QED BY <2>2, MergeTyped
<1>2. from.next_id \in Nat /\ mid.next_id \in Nat /\ to.next_id \in Nat /\ from.next_id <= mid.next_id
  BY ConstantsTyped DEF Leads, StoreRecord
<1> HIDE DEF t
<1>3. ASSUME NEW id \in Ids PROVE Relates(t, id, from.objects[id], to.objects[id])
  <2>1. Relates(a, id, from.objects[id], mid.objects[id]) /\ Relates(b, id, mid.objects[id], to.objects[id])
    BY DEF Leads
  <2>2. id \in b.new_ids => from.objects[id] = None
    <3>1. id \in b.new_ids => mid.next_id <= id
      BY DEF Leads
    <3>2. from.objects[id] # None => id < from.next_id
      BY DEF Numbered
    <3>3. id \in Nat
      BY ConstantsTyped DEF Ids
    <3> QED BY <1>2, <3>1, <3>2, <3>3
  <2>3. /\ id \in t.new_ids <=> (id \in a.new_ids \/ id \in b.new_ids) /\ b.removed[id] = None
        /\ t.old_values[id] =
             IF b.removed[id] # None THEN None
             ELSE IF id \in a.new_ids \/ a.old_values[id] # None THEN a.old_values[id]
             ELSE b.old_values[id]
        /\ t.removed[id] =
             IF b.removed[id] = None \/ id \in a.new_ids THEN a.removed[id]
             ELSE IF a.old_values[id] # None THEN a.old_values[id] ELSE b.removed[id]
    BY <1>1
  <2> QED BY <2>1, <2>2, <2>3 DEF Relates
<1>4. IF t.old_index_next_id = 0 THEN to.next_id = from.next_id
      ELSE t.old_index_next_id = from.next_id /\ from.next_id <= to.next_id
  BY <1>1, <1>2 DEF Leads
<1>5. ASSUME NEW id \in t.new_ids PROVE from.next_id <= id
  <2>1. id \in Ids /\ (id \in a.new_ids \/ id \in b.new_ids)
    BY <1>1
  <2>2. id \in Nat
    BY <2>1, ConstantsTyped DEF Ids
  <2> QED BY <1>2, <2>1, <2>2 DEF Leads
<1> QED BY <1>3, <1>4, <1>5 DEF Leads, t

(* Reversing an entry gives the store it leads from. *)
LEMMA RestoreGives ==
  ASSUME NEW s \in undo_state, NEW from \in StoreRecord, NEW to \in StoreRecord, Leads(s, from, to)
  PROVE  /\ Restorable(to.objects, s)
         /\ Restored(to.objects, s) = from.objects
         /\ from.next_id = IF s.old_index_next_id = 0 THEN to.next_id ELSE s.old_index_next_id
<1>1. \A id \in Ids : Relates(s, id, from.objects[id], to.objects[id])
  BY DEF Leads
<1>2. Restorable(to.objects, s)
  BY <1>1 DEF Relates, Restorable
<1>3. \A id \in Ids : Restored(to.objects, s)[id] = from.objects[id]
  BY <1>1 DEF Relates, Restored
<1>4. Restored(to.objects, s) = [id \in Ids |-> Restored(to.objects, s)[id]]
  BY DEF Restored
<1>5. from.objects = [id \in Ids |-> from.objects[id]]
  BY DEF StoreRecord
<1>6. Restored(to.objects, s) = from.objects
  BY <1>3, <1>4, <1>5
<1> QED BY <1>2, <1>6 DEF Leads
-----------------------------------------------------------------------------
(* Sequences: the last elements of s with e after them, and s cut short. *)
LEMMA SuffixAppend ==
  ASSUME NEW S, NEW s \in Seq(S), NEW k \in 0 .. Len(s), NEW e \in S
  PROVE  LET t == Append(SubSeq(s, k + 1, Len(s)), e)
         IN  /\ t \in Seq(S) /\ Len(t) = Len(s) - k + 1
             /\ \A i \in 1 .. Len(s) - k : t[i] = s[i + k]
             /\ t[Len(s) - k + 1] = e
<1> DEFINE u == SubSeq(s, k + 1, Len(s))
           t == Append(u, e)
<1>1. Len(s) \in Nat
  OBVIOUS
<1>2. u \in Seq(S) /\ Len(u) = Len(s) - k /\ \A i \in 1 .. Len(s) - k : u[i] = s[i + k]
  BY <1>1
<1> HIDE DEF u
<1>3. t \in Seq(S) /\ Len(t) = Len(u) + 1 /\ t[Len(u) + 1] = e /\ \A i \in 1 .. Len(u) : t[i] = u[i]
  BY <1>2
<1> QED BY <1>2, <1>3 DEF u

LEMMA CutShort ==
  ASSUME NEW S, NEW s \in Seq(S), s # <<>>
  PROVE  /\ Len(s) \in Nat \ {0} /\ Butlast(s) \in Seq(S) /\ Len(Butlast(s)) = Len(s) - 1
         /\ \A i \in 1 .. Len(s) - 1 : Butlast(s)[i] = s[i]
         /\ s[Len(s)] \in S
<1>1. Len(s) \in Nat /\ Len(s) # 0
  OBVIOUS
<1>2. s[Len(s)] \in S
  BY <1>1
<1>3. Butlast(s) = SubSeq(s, 1, Len(s) - 1)
  BY DEF Butlast
<1>4. /\ SubSeq(s, 1, Len(s) - 1) \in Seq(S) /\ Len(SubSeq(s, 1, Len(s) - 1)) = Len(s) - 1
      /\ \A i \in 1 .. Len(s) - 1 : SubSeq(s, 1, Len(s) - 1)[i] = s[i]
  <2> DEFINE m == Len(s) - 1
  <2>1. m \in Nat /\ 1 \in Int /\ m \in Int
    BY <1>1
  <2>2. \A i \in 1 .. m : s[i] \in S
    BY <1>1
  <2> HIDE DEF m
  <2>3. /\ SubSeq(s, 1, m) \in Seq(S)
        /\ Len(SubSeq(s, 1, m)) = IF 1 <= m THEN m - 1 + 1 ELSE 0
        /\ \A i \in 1 .. m - 1 + 1 : SubSeq(s, 1, m)[i] = s[1 + i - 1]
    BY <2>1, <2>2, SubSeqProperties
  <2>4. Len(SubSeq(s, 1, m)) = m
    BY <2>1, <2>3
  <2>5. \A i \in 1 .. m : SubSeq(s, 1, m)[i] = s[i]
    BY <2>1, <2>3
  <2> QED BY <2>3, <2>4, <2>5 DEF m
<1> QED BY <1>1, <1>2, <1>3, <1>4

(* The store that the entry receiving the next change leads from. *)
From == IF stack = <<>> THEN Store ELSE snapshots[Len(stack)]

LEMMA StoreTyped ==
  ASSUME TypeOK
  PROVE  Store \in StoreRecord /\ Store.objects = objects /\ Store.next_id = next_id
BY DEF TypeOK, Store, StoreRecord

LEMMA EmptyLeads ==
  ASSUME NEW st \in StoreRecord
  PROVE  Leads(EmptyState, st, st)
<1>1. /\ EmptyState.new_ids = {} /\ EmptyState.old_index_next_id = 0
      /\ \A id \in Ids : EmptyState.old_values[id] = None /\ EmptyState.removed[id] = None
  BY DEF EmptyState, Nothing
<1>2. \A id \in Ids : Relates(EmptyState, id, st.objects[id], st.objects[id])
  BY <1>1 DEF Relates
<1> QED BY <1>1, <1>2 DEF Leads

LEMMA TopLeads ==
  ASSUME UndoInv
  PROVE  /\ Last(Recording) \in undo_state
         /\ From \in StoreRecord /\ Numbered(From)
         /\ Leads(Last(Recording), From, Store)
<1>1. Store \in StoreRecord /\ Numbered(Store)
  BY StoreTyped DEF UndoInv
<1>2. CASE stack = <<>>
  <2>1. Last(Recording) = EmptyState
    BY <1>2 DEF Last, Recording
  <2> QED BY <1>1, <1>2, <2>1, EmptyLeads, ConstantsTyped DEF From
<1>3. CASE stack # <<>>
  <2>1. /\ stack \in Seq(undo_state) /\ snapshots \in Seq(StoreRecord)
        /\ Len(snapshots) = Len(stack) /\ Len(stack) \in Nat \ {0}
    BY <1>3 DEF UndoInv, TypeOK, EntriesRestore, StoreRecord
  <2>2. Last(Recording) = stack[Len(stack)] /\ From = snapshots[Len(stack)]
    BY <1>3 DEF Last, Recording, From
  <2>3. After(Len(stack)) = Store
    BY DEF After
  <2>4. Leads(stack[Len(stack)], snapshots[Len(stack)], After(Len(stack)))
    BY <2>1 DEF UndoInv, EntriesRestore
  <2>5. Numbered(snapshots[Len(stack)])
    BY <2>1 DEF UndoInv
  <2> QED BY <2>1, <2>2, <2>3, <2>4, <2>5
<1> QED BY <1>2, <1>3

(* A change of the store, recorded in the last entry. *)
LEMMA RecordKeeps ==
  ASSUME UndoInv, NEW new \in undo_state, RecordIn(new), UNCHANGED <<sessions, disabled, max_size>>,
         objects' \in [Ids -> Contents], next_id' \in 1 .. MaxId + 1, Numbered(Store'),
         Leads(new, From, Store')
  PROVE  UndoInv'
<1>1. /\ stack \in Seq(undo_state) /\ snapshots \in Seq(StoreRecord)
      /\ Len(snapshots) = Len(stack) /\ Len(stack) \in Nat
  BY DEF UndoInv, TypeOK, EntriesRestore, StoreRecord
<1>2. /\ stack' \in Seq(undo_state) /\ snapshots' \in Seq(StoreRecord)
      /\ Len(snapshots') = Len(stack')
      /\ Len(stack') >= Len(stack)
      /\ stack # <<>> => Len(stack') = Len(stack)
      /\ \A i \in 1 .. Len(stack') : Leads(stack'[i], snapshots'[i], After(i)')
      /\ \A i \in 1 .. Len(snapshots') : Numbered(snapshots'[i])
      /\ disabled => UNCHANGED <<stack, snapshots>>
  <2>1. CASE disabled
    <3>1. stack = <<>> /\ UNCHANGED <<stack, snapshots>>
      BY <2>1 DEF RecordIn, UndoInv, SessionsOK
    <3> QED BY <1>1, <3>1
  <2>2. CASE ~disabled /\ stack = <<>>
    <3>1. stack' = [<<EmptyState>> EXCEPT ![1] = new] /\ snapshots' = <<Store>>
      BY <2>2 DEF RecordIn, Recording
    <3>2. stack' = <<new>>
      BY <3>1
    <3>3. Store \in StoreRecord /\ Numbered(Store) /\ From = Store
      BY <2>2, StoreTyped DEF UndoInv, From
    <3>4. After(1)' = Store'
      BY <3>2 DEF After
    <3>5. /\ stack' \in Seq(undo_state) /\ Len(stack') = 1 /\ stack'[1] = new
          /\ snapshots' \in Seq(StoreRecord) /\ Len(snapshots') = 1 /\ snapshots'[1] = Store
      <4>1. stack' \in Seq(undo_state) /\ Len(stack') = 1 /\ stack'[1] = new
        BY <3>2
      <4> DEFINE st == Store
      <4>2. st \in StoreRecord /\ snapshots' = <<st>>
        BY <3>1, <3>3
      <4> HIDE DEF st
      <4>3. snapshots' \in Seq(StoreRecord) /\ Len(snapshots') = 1 /\ snapshots'[1] = st
        BY <4>2
      <4> QED BY <4>1, <4>3 DEF st
    <3>6. ASSUME NEW i \in 1 .. 1
          PROVE  Leads(stack'[i], snapshots'[i], After(i)') /\ Numbered(snapshots'[i])
      <4>1. i = 1
        OBVIOUS
      <4>2. Leads(stack'[1], snapshots'[1], After(1)') /\ Numbered(snapshots'[1])
        BY <3>3, <3>4, <3>5
      <4> QED BY <4>1, <4>2
    <3> QED BY <1>1, <2>2, <3>5, <3>6
  <2>3. CASE ~disabled /\ stack # <<>>
    <3>1. stack' = [stack EXCEPT ![Len(stack)] = new] /\ snapshots' = snapshots
      BY <2>3 DEF RecordIn, Recording
    <3>2. Len(stack) # 0
      BY <1>1, <2>3
    <3>3. /\ stack' \in Seq(undo_state) /\ Len(stack') = Len(stack) /\ stack'[Len(stack)] = new
          /\ \A i \in 1 .. Len(stack) - 1 : stack'[i] = stack[i]
      BY <1>1, <3>1, <3>2
    <3>4. From = snapshots[Len(stack)]
      BY <2>3 DEF From
    <3>5. ASSUME NEW i \in 1 .. Len(stack) PROVE Leads(stack'[i], snapshots'[i], After(i)')
      <4>1. CASE i = Len(stack)
        BY <3>1, <3>3, <3>4, <4>1 DEF After
      <4>2. CASE i # Len(stack)
        <5>1. After(i)' = snapshots[i + 1] /\ After(i) = snapshots[i + 1]
          BY <3>1, <3>3, <4>2 DEF After
        <5>2. stack'[i] = stack[i]
          BY <1>1, <3>3, <4>2
        <5> QED BY <3>1, <5>1, <5>2 DEF UndoInv, EntriesRestore
      <4> QED BY <4>1, <4>2
    <3> QED BY <1>1, <2>3, <3>1, <3>3, <3>5 DEF UndoInv
  <2> QED BY <2>1, <2>2, <2>3
<1>3. TypeOK'
  BY <1>2 DEF UndoInv, TypeOK, StoreRecord
<1>4. EntriesRestore'
  BY <1>2 DEF EntriesRestore
<1>5. Len(sessions) \in Nat /\ sessions' = sessions
  BY DEF UndoInv, TypeOK
<1>6. OpenSessionsKept'
  BY <1>1, <1>2, <1>5 DEF UndoInv, OpenSessionsKept
<1>7. SessionsOK'
  <2>1. ASSUME NEW i \in 1 .. Len(sessions), sessions[i] PROVE i = 1 /\ Len(stack') = Len(sessions)
    <3>1. i = 1 /\ Len(stack) = Len(sessions)
      BY <2>1 DEF UndoInv, SessionsOK
    <3>2. stack # <<>>
      BY <1>5, <3>1
    <3> QED BY <1>2, <3>1, <3>2
  <2> QED BY <1>2, <1>5, <2>1 DEF UndoInv, SessionsOK
<1> QED BY <1>2, <1>3, <1>4, <1>6, <1>7 DEF UndoInv

LEMMA Typed ==
  ASSUME UndoInv
  PROVE  /\ stack \in Seq(undo_state) /\ snapshots \in Seq(StoreRecord) /\ sessions \in Seq(BOOLEAN)
         /\ Len(snapshots) = Len(stack) /\ Len(stack) \in Nat /\ Len(sessions) \in Nat
         /\ Len(sessions) <= Len(stack) /\ Len(sessions) <= MaxDepth
         /\ Store \in StoreRecord
BY StoreTyped DEF UndoInv, TypeOK, EntriesRestore, OpenSessionsKept, SessionsOK, StoreRecord

(* The end of a session, whatever becomes of its entry. *)
LEMMA SessionEnds ==
  ASSUME UndoInv, EndSession
  PROVE  /\ sessions' \in Seq(BOOLEAN) /\ Len(sessions') = Len(sessions) - 1
         /\ Len(sessions) # 0 /\ Len(stack) # 0 /\ stack # <<>>
         /\ disabled' \in BOOLEAN
         /\ disabled' => Len(sessions) = 1 /\ Len(stack) = 1
         /\ \A i \in 1 .. Len(sessions') : sessions'[i] => i = 1 /\ Len(stack) = Len(sessions)
<1>1. sessions # <<>> /\ sessions' = Butlast(sessions) /\ disabled' = sessions[Len(sessions)]
  BY DEF EndSession, Last
<1>2. /\ Len(sessions) \in Nat \ {0} /\ Butlast(sessions) \in Seq(BOOLEAN)
      /\ Len(Butlast(sessions)) = Len(sessions) - 1
      /\ \A i \in 1 .. Len(sessions) - 1 : Butlast(sessions)[i] = sessions[i]
      /\ sessions[Len(sessions)] \in BOOLEAN
  BY <1>1, Typed, CutShort, Zenon
<1>3. Len(stack) \in Nat /\ Len(sessions) <= Len(stack)
  BY Typed
<1>4. \A i \in 1 .. Len(sessions) : sessions[i] => i = 1 /\ Len(stack) = Len(sessions)
  BY DEF UndoInv, SessionsOK
<1>5. disabled' => Len(sessions) = 1 /\ Len(stack) = 1
  <2>1. Len(sessions) \in 1 .. Len(sessions)
    BY <1>2
  <2>2. disabled' => Len(sessions) = 1 /\ Len(stack) = Len(sessions)
    BY <1>1, <1>4, <2>1, Zenon
  <2> QED BY <2>2, Zenon
<1>6. Len(stack) # 0 /\ stack # <<>>
  BY <1>2, <1>3
<1>7. \A i \in 1 .. Len(sessions) - 1 : sessions'[i] => i = 1 /\ Len(stack) = Len(sessions)
  BY <1>1, <1>2, <1>4
<1>8. Len(sessions') = Len(sessions) - 1
  BY <1>1, <1>2
<1> QED BY <1>1, <1>2, <1>5, <1>6, <1>7, <1>8

(* The last entry is reversed and dropped. *)
LEMMA LastReversed ==
  ASSUME UndoInv, stack # <<>>, RestoreFrom(Last(stack)),
         stack' = Butlast(stack), snapshots' = Butlast(snapshots)
  PROVE  /\ stack' \in Seq(undo_state) /\ snapshots' \in Seq(StoreRecord)
         /\ Len(stack') = Len(stack) - 1
         /\ objects' \in [Ids -> Contents] /\ next_id' \in 1 .. MaxId + 1
         /\ objects' = snapshots[Len(stack)].objects /\ next_id' = snapshots[Len(stack)].next_id
         /\ EntriesRestore' /\ Numbered(Store')
         /\ \A i \in 1 .. Len(snapshots') : Numbered(snapshots'[i])
<1> DEFINE n == Len(stack)
           from == snapshots[n]
<1>1. /\ stack \in Seq(undo_state) /\ snapshots \in Seq(StoreRecord) /\ Len(snapshots) = n
      /\ Store \in StoreRecord
  BY Typed
<1>2. /\ n \in Nat \ {0} /\ stack' \in Seq(undo_state) /\ Len(stack') = n - 1
      /\ \A i \in 1 .. n - 1 : stack'[i] = stack[i]
      /\ stack[n] \in undo_state
  BY <1>1, CutShort, Zenon
<1>3. snapshots # <<>>
  BY <1>1, <1>2
<1>4. /\ snapshots' \in Seq(StoreRecord) /\ Len(snapshots') = Len(snapshots) - 1
      /\ \A i \in 1 .. Len(snapshots) - 1 : snapshots'[i] = snapshots[i]
      /\ snapshots[Len(snapshots)] \in StoreRecord
  BY <1>1, <1>3, CutShort, Zenon
<1>5. Leads(stack[n], from, Store) /\ Numbered(from)
  <2>1. After(n) = Store
    BY DEF After
  <2>2. n \in 1 .. n
    BY <1>2
  <2> QED BY <1>1, <2>1, <2>2 DEF UndoInv, EntriesRestore
<1>6. from \in StoreRecord
  BY <1>1, <1>4
<1>7. /\ Restored(Store.objects, stack[n]) = from.objects
      /\ from.next_id = IF stack[n].old_index_next_id = 0 THEN Store.next_id ELSE stack[n].old_index_next_id
  BY <1>1, <1>2, <1>5, <1>6, RestoreGives, Zenon
<1>8. Store.objects = objects /\ Store.next_id = next_id
  BY StoreTyped DEF UndoInv
<1>9. objects' = from.objects /\ next_id' = from.next_id
  BY <1>7, <1>8 DEF RestoreFrom, NextIdBefore, Last
<1>10. objects' \in [Ids -> Contents] /\ next_id' \in 1 .. MaxId + 1
  BY <1>6, <1>9 DEF StoreRecord
<1>11. Store' = from
  BY <1>6, <1>9 DEF Store, StoreRecord
<1>12. ASSUME NEW i \in 1 .. n - 1
       PROVE  Leads(stack'[i], snapshots'[i], After(i)') /\ Numbered(snapshots'[i])
  <2>0. n \in Nat /\ i \in 1 .. n
    BY <1>2
  <2>1. After(i)' = After(i)
    <3>1. After(i) = snapshots[i + 1]
      BY <2>0 DEF After
    <3>2. CASE i = n - 1
      BY <1>2, <1>11, <3>1, <3>2 DEF After
    <3>3. CASE i # n - 1
      <4>1. i + 1 \in 1 .. n - 1
        BY <2>0, <3>3
      <4>2. snapshots'[i + 1] = snapshots[i + 1]
        BY <1>1, <1>4, <4>1
      <4> QED BY <1>2, <3>1, <3>3, <4>2 DEF After
    <3> QED BY <3>2, <3>3
  <2>2. stack'[i] = stack[i] /\ snapshots'[i] = snapshots[i]
    BY <1>1, <1>2, <1>4
  <2>3. Leads(stack[i], snapshots[i], After(i)) /\ Numbered(snapshots[i])
    BY <1>1, <2>0 DEF UndoInv, EntriesRestore
  <2> QED BY <2>1, <2>2, <2>3
<1>13. Len(snapshots') = n - 1 /\ Len(stack') = n - 1
  BY <1>1, <1>2, <1>4
<1>14. EntriesRestore'
  BY <1>12, <1>13 DEF EntriesRestore
<1>15. \A i \in 1 .. Len(snapshots') : Numbered(snapshots'[i])
  BY <1>12, <1>13
<1> QED BY <1>2, <1>4, <1>5, <1>9, <1>10, <1>11, <1>14, <1>15
-----------------------------------------------------------------------------
LEMMA InitKeeps == Init => UndoInv
<1> SUFFICES ASSUME Init PROVE UndoInv
  OBVIOUS
<1>1. TypeOK
  <2>1. objects \in [Ids -> Contents] /\ disabled \in BOOLEAN /\ max_size \in Sizes
    BY ConstantsTyped DEF Init
  <2>2. next_id \in 1 .. MaxId + 1
    BY ConstantsTyped DEF Init
  <2>3. stack \in Seq(undo_state) /\ snapshots \in Seq(StoreRecord) /\ sessions \in Seq(BOOLEAN)
    BY EmptySeq DEF Init
  <2> QED BY <2>1, <2>2, <2>3 DEF TypeOK, StoreRecord
<1>2. Len(stack) = 0 /\ Len(sessions) = 0 /\ Len(snapshots) = 0
  BY DEF Init
<1>3. EntriesRestore /\ OpenSessionsKept
  BY <1>2 DEF EntriesRestore, OpenSessionsKept
<1>4. SessionsOK
  BY <1>2, ConstantsTyped DEF Init, SessionsOK
<1>5. Numbered(Store)
  BY DEF Init, Numbered, Store, Nothing
<1> QED BY <1>1, <1>2, <1>3, <1>4, <1>5 DEF UndoInv

LEMMA CreateKeeps ==
  ASSUME UndoInv, NEW v \in Values, on_create(v)
  PROVE  UndoInv'
<1> DEFINE s == Last(Recording)
<1>1. /\ s \in undo_state /\ From \in StoreRecord /\ Numbered(From) /\ Leads(s, From, Store)
      /\ Store \in StoreRecord /\ Numbered(Store) /\ Store.objects = objects /\ Store.next_id = next_id
  BY TopLeads, StoreTyped DEF UndoInv
<1>2. /\ next_id \in Ids /\ objects' = [objects EXCEPT ![next_id] = v] /\ next_id' = next_id + 1
      /\ RecordIn(OnCreate(s, next_id)) /\ UNCHANGED <<sessions, disabled, max_size>>
  BY ConstantsTyped DEF on_create, UndoInv, TypeOK, Ids
<1>3. objects' \in [Ids -> Contents] /\ next_id' \in 1 .. MaxId + 1
  BY <1>2, ConstantsTyped DEF UndoInv, TypeOK, Ids
<1>4. Store' \in StoreRecord /\ Store'.objects = objects' /\ Store'.next_id = next_id'
  BY <1>3 DEF Store, StoreRecord
<1>5. Numbered(Store')
  <2> SUFFICES ASSUME NEW id \in Ids, objects'[id] # None PROVE id < next_id'
    BY <1>4 DEF Numbered
  <2>1. id = next_id \/ objects[id] # None
    BY <1>2 DEF UndoInv, TypeOK
  <2>2. objects[id] # None => id < next_id
    BY <1>1 DEF Numbered
  <2>3. id \in Nat /\ next_id \in Nat
    BY <1>2, ConstantsTyped DEF Ids
  <2> QED BY <1>2, <2>1, <2>2, <2>3
<1>6. Leads(OnCreate(s, Store.next_id), From, Store')
  <2> DEFINE new == Store'
  <2>1. new \in StoreRecord /\ Store.next_id \in Ids
    BY <1>1, <1>2, <1>4
  <2>2. new.objects = [Store.objects EXCEPT ![Store.next_id] = v] /\ new.next_id = Store.next_id + 1
    BY <1>1, <1>2, <1>4
  <2> HIDE DEF new, s
  <2>3. Leads(OnCreate(s, Store.next_id), From, new)
    BY <1>1, <2>1, <2>2, CreateLeads
  <2> QED BY <2>3 DEF new, s
<1>7. Leads(OnCreate(s, next_id), From, Store')
  BY <1>1, <1>6
<1>8. OnCreate(s, next_id) \in undo_state
  BY <1>1, <1>2, CreateTyped
<1> QED BY <1>2, <1>3, <1>5, <1>7, <1>8, RecordKeeps

LEMMA ModifyKeeps ==
  ASSUME UndoInv, NEW k \in Ids, NEW v \in Values, on_modify(k, v)
  PROVE  UndoInv'
<1> DEFINE s == Last(Recording)
<1>1. /\ s \in undo_state /\ From \in StoreRecord /\ Leads(s, From, Store)
      /\ Store \in StoreRecord /\ Numbered(Store) /\ Store.objects = objects /\ Store.next_id = next_id
  BY TopLeads, StoreTyped DEF UndoInv
<1>2. /\ objects[k] # None /\ objects' = [objects EXCEPT ![k] = v] /\ next_id' = next_id
      /\ RecordIn(OnModify(s, k, objects[k])) /\ UNCHANGED <<sessions, disabled, max_size>>
  BY DEF on_modify
<1>3. objects' \in [Ids -> Contents] /\ next_id' \in 1 .. MaxId + 1 /\ objects[k] \in Contents
  BY <1>2, ConstantsTyped DEF UndoInv, TypeOK
<1>4. Store' \in StoreRecord /\ Store'.objects = objects' /\ Store'.next_id = next_id'
  BY <1>3 DEF Store, StoreRecord
<1>5. Numbered(Store')
  <2> SUFFICES ASSUME NEW id \in Ids, objects'[id] # None PROVE id < next_id
    BY <1>2, <1>4 DEF Numbered
  <2>1. objects[id] # None
    BY <1>2 DEF UndoInv, TypeOK
  <2> QED BY <1>1, <2>1 DEF Numbered
<1>6. Leads(OnModify(s, k, objects[k]), From, Store')
  <2> DEFINE new == Store'
  <2>1. /\ new \in StoreRecord /\ Store.objects[k] # None
        /\ new.objects = [Store.objects EXCEPT ![k] = v] /\ new.next_id = Store.next_id
    BY <1>1, <1>2, <1>4
  <2> HIDE DEF new, s
  <2>2. Leads(OnModify(s, k, Store.objects[k]), From, new)
    BY <1>1, <2>1, ModifyLeads
  <2> QED BY <1>1, <2>2 DEF new, s
<1>7. OnModify(s, k, objects[k]) \in undo_state
  BY <1>1, <1>3, ModifyTyped
<1> QED BY <1>2, <1>3, <1>5, <1>6, <1>7, RecordKeeps

LEMMA RemoveKeeps ==
  ASSUME UndoInv, NEW k \in Ids, on_remove(k)
  PROVE  UndoInv'
<1> DEFINE s == Last(Recording)
<1>1. /\ s \in undo_state /\ From \in StoreRecord /\ Leads(s, From, Store)
      /\ Store \in StoreRecord /\ Numbered(Store) /\ Store.objects = objects /\ Store.next_id = next_id
  BY TopLeads, StoreTyped DEF UndoInv
<1>2. /\ objects[k] # None /\ objects' = [objects EXCEPT ![k] = None] /\ next_id' = next_id
      /\ RecordIn(OnRemove(s, k, objects[k])) /\ UNCHANGED <<sessions, disabled, max_size>>
  BY DEF on_remove
<1>3. objects' \in [Ids -> Contents] /\ next_id' \in 1 .. MaxId + 1 /\ objects[k] \in Contents
  BY <1>2, ConstantsTyped DEF UndoInv, TypeOK
<1>4. Store' \in StoreRecord /\ Store'.objects = objects' /\ Store'.next_id = next_id'
  BY <1>3 DEF Store, StoreRecord
<1>5. Numbered(Store')
  <2> SUFFICES ASSUME NEW id \in Ids, objects'[id] # None PROVE id < next_id
    BY <1>2, <1>4 DEF Numbered
  <2>1. objects[id] # None
    BY <1>2 DEF UndoInv, TypeOK
  <2> QED BY <1>1, <2>1 DEF Numbered
<1>6. Leads(OnRemove(s, k, objects[k]), From, Store')
  <2> DEFINE new == Store'
  <2>1. /\ new \in StoreRecord /\ Store.objects[k] # None
        /\ new.objects = [Store.objects EXCEPT ![k] = None] /\ new.next_id = Store.next_id
    BY <1>1, <1>2, <1>4
  <2> HIDE DEF new, s
  <2>2. Leads(OnRemove(s, k, Store.objects[k]), From, new)
    BY <1>1, <2>1, RemoveLeads
  <2> QED BY <1>1, <2>2 DEF new, s
<1>7. OnRemove(s, k, objects[k]) \in undo_state
  BY <1>1, <1>3, RemoveTyped
<1> QED BY <1>2, <1>3, <1>5, <1>6, <1>7, RecordKeeps

(* Where start_undo_session cuts the history, which is before the entries  *)
(* of the open sessions.                                                   *)
Dropped == IF Len(stack) > max_size THEN Len(stack) - max_size ELSE 0

LEMMA DroppedSome ==
  ASSUME UndoInv, Len(sessions) < MaxDepth
  PROVE  /\ Dropped \in 0 .. Len(stack)
         /\ Len(sessions) <= Len(stack) - Dropped
         /\ Len(stack) = Len(sessions) => Dropped = 0
<1>1. /\ max_size \in Nat /\ Len(stack) \in Nat /\ Len(sessions) \in Nat /\ MaxDepth \in Nat
      /\ MaxDepth <= max_size + 1 /\ Len(sessions) <= Len(stack)
  BY Typed, ConstantsTyped, DepthAssumption DEF UndoInv, TypeOK
<1> QED BY <1>1 DEF Dropped

LEMMA KeptIs ==
  ASSUME NEW S, NEW s \in Seq(S), UndoInv, Len(s) = Len(stack)
  PROVE  Kept(s) = SubSeq(s, Dropped + 1, Len(s))
<1>1. max_size \in Nat /\ Len(s) \in Nat
  BY ConstantsTyped DEF UndoInv, TypeOK
<1>2. CASE Len(s) > max_size
  BY <1>1, <1>2 DEF Kept, Dropped
<1>3. CASE ~(Len(s) > max_size)
  <2>1. Kept(s) = s /\ Dropped + 1 = 1
    BY <1>1, <1>3 DEF Kept, Dropped
  <2>2. SubSeq(s, 1, Len(s)) = s
    BY SubSeqFull
  <2> QED BY <2>1, <2>2
<1> QED BY <1>2, <1>3

LEMMA SuffixIs ==
  ASSUME NEW S, NEW s \in Seq(S), NEW k \in 0 .. Len(s), NEW e \in S,
         NEW t, t = Append(SubSeq(s, k + 1, Len(s)), e)
  PROVE  /\ t \in Seq(S) /\ Len(t) = Len(s) - k + 1
         /\ \A i \in 1 .. Len(s) - k : t[i] = s[i + k]
         /\ t[Len(s) - k + 1] = e
BY SuffixAppend

LEMMA StartKeeps ==
  ASSUME UndoInv, NEW f \in BOOLEAN, start_undo_session(f)
  PROVE  UndoInv'
<1> DEFINE n == Len(stack)
           k == Dropped
<1>1. /\ stack \in Seq(undo_state) /\ snapshots \in Seq(StoreRecord) /\ sessions \in Seq(BOOLEAN)
      /\ Len(snapshots) = n /\ n \in Nat /\ Len(sessions) \in Nat /\ Len(sessions) <= n
      /\ Store \in StoreRecord
  BY Typed
<1>2. k \in 0 .. n /\ Len(sessions) <= n - k /\ (n = Len(sessions) => k = 0)
  BY DroppedSome DEF start_undo_session
<1>3. /\ stack' = Append(SubSeq(stack, k + 1, n), EmptyState)
      /\ snapshots' = Append(SubSeq(snapshots, k + 1, n), Store)
  BY <1>1, KeptIs DEF start_undo_session
<1> HIDE DEF k
<1>4. /\ stack' \in Seq(undo_state) /\ Len(stack') = n - k + 1
      /\ \A i \in 1 .. n - k : stack'[i] = stack[i + k]
      /\ stack'[n - k + 1] = EmptyState
  <2> DEFINE t == stack'
  <2>1. /\ EmptyState \in undo_state /\ k \in 0 .. Len(stack)
        /\ t = Append(SubSeq(stack, k + 1, Len(stack)), EmptyState)
    BY <1>2, <1>3, ConstantsTyped
  <2> HIDE DEF t
  <2>2. /\ t \in Seq(undo_state) /\ Len(t) = Len(stack) - k + 1
        /\ \A i \in 1 .. Len(stack) - k : t[i] = stack[i + k]
        /\ t[Len(stack) - k + 1] = EmptyState
    <3> HIDE DEF n
    <3> QED BY <1>1, <2>1, SuffixIs
  <2> QED BY <2>2 DEF t
<1>5. /\ snapshots' \in Seq(StoreRecord) /\ Len(snapshots') = n - k + 1
      /\ \A i \in 1 .. n - k : snapshots'[i] = snapshots[i + k]
      /\ snapshots'[n - k + 1] = Store
  <2> DEFINE st == Store
             t == snapshots'
  <2>1. st \in StoreRecord /\ t = Append(SubSeq(snapshots, k + 1, Len(snapshots)), st)
    BY <1>1, <1>3
  <2>2. k \in 0 .. Len(snapshots)
    BY <1>1, <1>2
  <2> HIDE DEF st, t
  <2>3. /\ t \in Seq(StoreRecord) /\ Len(t) = Len(snapshots) - k + 1
        /\ \A i \in 1 .. Len(snapshots) - k : t[i] = snapshots[i + k]
        /\ t[Len(snapshots) - k + 1] = st
    <3> HIDE DEF n
    <3>1. snapshots \in Seq(StoreRecord)
      BY <1>1
    <3> QED BY <2>1, <2>2, <3>1, SuffixIs, SMTT(30)
  <2> QED BY <1>1, <2>3 DEF st, t
<1>6. Store' = Store /\ objects' = objects /\ next_id' = next_id /\ max_size' = max_size
  BY DEF start_undo_session, Store
<1>7. ASSUME NEW i \in 1 .. n - k + 1
      PROVE  Leads(stack'[i], snapshots'[i], After(i)') /\ Numbered(snapshots'[i])
  <2>1. CASE i = n - k + 1
    <3>1. Leads(EmptyState, Store, Store) /\ Numbered(Store)
      BY <1>1, EmptyLeads DEF UndoInv
    <3>2. After(i)' = Store
      BY <1>4, <1>6, <2>1 DEF After
    <3> QED BY <1>4, <1>5, <2>1, <3>1, <3>2
  <2>2. CASE i # n - k + 1
    <3>1. i \in 1 .. n - k /\ i + k \in 1 .. n /\ k \in Nat
      BY <1>1, <1>2, <2>2
    <3>2. stack'[i] = stack[i + k] /\ snapshots'[i] = snapshots[i + k]
      BY <1>4, <1>5, <3>1
    <3>3. Leads(stack[i + k], snapshots[i + k], After(i + k)) /\ Numbered(snapshots[i + k])
      BY <1>1, <3>1 DEF UndoInv, EntriesRestore
    <3>4. After(i)' = After(i + k)
      <4>1. After(i)' = snapshots'[i + 1]
        BY <1>4, <2>2 DEF After
      <4>2. CASE i = n - k
        <5>1. i + 1 = n - k + 1 /\ i + k = n
          BY <1>1, <1>2, <4>2
        <5> QED BY <1>5, <4>1, <5>1 DEF After
      <4>3. CASE i # n - k
        <5>1. i + 1 \in 1 .. n - k /\ i + k # n /\ (i + 1) + k = (i + k) + 1
          BY <1>1, <1>2, <3>1, <4>3
        <5>2. snapshots'[i + 1] = snapshots[(i + 1) + k]
          BY <1>5, <5>1
        <5> QED BY <4>1, <5>1, <5>2 DEF After
      <4> QED BY <4>2, <4>3
    <3> QED BY <3>2, <3>3, <3>4
  <2> QED BY <2>1, <2>2
<1>8. sessions' = Append(sessions, disabled /\ f) /\ disabled' = FALSE
  BY DEF start_undo_session
<1>9. /\ sessions' \in Seq(BOOLEAN) /\ Len(sessions') = Len(sessions) + 1
      /\ \A i \in 1 .. Len(sessions) : sessions'[i] = sessions[i]
      /\ sessions'[Len(sessions) + 1] = (disabled /\ f)
  <2> DEFINE d == disabled /\ f
  <2>1. d \in BOOLEAN
    OBVIOUS
  <2>2. sessions' = Append(sessions, d)
    BY <1>8
  <2> HIDE DEF d
  <2>3. /\ sessions' \in Seq(BOOLEAN) /\ Len(sessions') = Len(sessions) + 1
        /\ \A i \in 1 .. Len(sessions) : sessions'[i] = sessions[i]
        /\ sessions'[Len(sessions) + 1] = d
    BY <1>1, <2>1, <2>2
  <2> QED BY <2>3 DEF d
<1>10. TypeOK'
  BY <1>4, <1>5, <1>6, <1>8, <1>9 DEF UndoInv, TypeOK, StoreRecord
<1>11. EntriesRestore' /\ \A i \in 1 .. Len(snapshots') : Numbered(snapshots'[i])
  BY <1>4, <1>5, <1>7 DEF EntriesRestore
<1>12. OpenSessionsKept'
  BY <1>1, <1>2, <1>4, <1>9 DEF OpenSessionsKept
<1>13. SessionsOK'
  <2>1. Len(sessions') <= MaxDepth
    BY <1>1, <1>9, ConstantsTyped DEF start_undo_session
  <2>2. ASSUME NEW i \in 1 .. Len(sessions'), sessions'[i] PROVE i = 1 /\ Len(stack') = Len(sessions')
    <3>1. CASE i = Len(sessions) + 1
      <4>1. disabled
        BY <1>9, <2>2, <3>1
      <4>2. n = 0 /\ Len(sessions) = 0
        BY <4>1 DEF UndoInv, SessionsOK
      <4> QED BY <1>2, <1>4, <1>9, <3>1, <4>2
    <3>2. CASE i # Len(sessions) + 1
      <4>1. i \in 1 .. Len(sessions)
        BY <1>1, <1>9, <3>2
      <4>2. sessions[i]
        BY <1>9, <2>2, <4>1
      <4>3. i = 1 /\ n = Len(sessions)
        BY <4>1, <4>2 DEF UndoInv, SessionsOK
      <4> QED BY <1>1, <1>2, <1>4, <1>9, <4>3
    <3> QED BY <3>1, <3>2
  <2> QED BY <1>8, <2>1, <2>2 DEF SessionsOK
<1>14. Numbered(Store)'
  BY <1>6 DEF UndoInv, Numbered
<1> QED BY <1>10, <1>11, <1>12, <1>13, <1>14 DEF UndoInv

LEMMA UndoKeeps ==
  ASSUME UndoInv, undo
  PROVE  UndoInv'
<1>1. /\ EndSession /\ RestoreFrom(Last(stack)) /\ stack' = Butlast(stack)
      /\ snapshots' = Butlast(snapshots) /\ max_size' = max_size
  BY DEF undo
<1>2. /\ sessions' \in Seq(BOOLEAN) /\ Len(sessions') = Len(sessions) - 1
      /\ Len(sessions) # 0 /\ Len(stack) # 0 /\ stack # <<>> /\ disabled' \in BOOLEAN
      /\ disabled' => Len(sessions) = 1 /\ Len(stack) = 1
      /\ \A i \in 1 .. Len(sessions') : sessions'[i] => i = 1 /\ Len(stack) = Len(sessions)
  BY <1>1, SessionEnds
<1>3. /\ stack' \in Seq(undo_state) /\ snapshots' \in Seq(StoreRecord) /\ Len(stack') = Len(stack) - 1
      /\ objects' \in [Ids -> Contents] /\ next_id' \in 1 .. MaxId + 1
      /\ EntriesRestore' /\ Numbered(Store')
      /\ \A i \in 1 .. Len(snapshots') : Numbered(snapshots'[i])
  BY <1>1, <1>2, LastReversed
<1>4. /\ Len(stack) \in Nat /\ Len(sessions) \in Nat /\ Len(sessions) <= Len(stack)
      /\ Len(sessions) <= MaxDepth /\ MaxDepth \in Nat
  BY Typed, ConstantsTyped
<1>5. TypeOK'
  BY <1>1, <1>2, <1>3 DEF UndoInv, TypeOK, StoreRecord
<1>6. OpenSessionsKept'
  BY <1>2, <1>3, <1>4 DEF OpenSessionsKept
<1>7. SessionsOK'
  <2>1. Len(sessions') <= MaxDepth
    BY <1>2, <1>4
  <2>2. disabled' => stack' = <<>> /\ sessions' = <<>>
    <3>1. disabled' => Len(stack') = 0 /\ Len(sessions') = 0
      BY <1>2, <1>3
    <3>2. Len(stack') = 0 => stack' = <<>>
      BY <1>3
    <3>3. Len(sessions') = 0 => sessions' = <<>>
      BY <1>2
    <3> QED BY <3>1, <3>2, <3>3, Zenon
  <2>3. \A i \in 1 .. Len(sessions') : sessions'[i] => i = 1 /\ Len(stack') = Len(sessions')
    BY <1>2, <1>3
  <2> QED BY <2>1, <2>2, <2>3 DEF SessionsOK
<1> QED BY <1>3, <1>5, <1>6, <1>7 DEF UndoInv

LEMMA PopCommitKeeps ==
  ASSUME UndoInv, pop_commit
  PROVE  UndoInv'
<1>1. /\ sessions = <<>> /\ stack # <<>> /\ RestoreFrom(Last(stack)) /\ stack' = Butlast(stack)
      /\ snapshots' = Butlast(snapshots) /\ disabled' = FALSE
      /\ sessions' = sessions /\ max_size' = max_size
  BY DEF pop_commit
<1>2. /\ stack' \in Seq(undo_state) /\ snapshots' \in Seq(StoreRecord) /\ Len(stack') = Len(stack) - 1
      /\ objects' \in [Ids -> Contents] /\ next_id' \in 1 .. MaxId + 1
      /\ EntriesRestore' /\ Numbered(Store')
      /\ \A i \in 1 .. Len(snapshots') : Numbered(snapshots'[i])
  BY <1>1, LastReversed
<1>3. Len(sessions') = 0 /\ Len(stack') \in Nat
  BY <1>1, <1>2
<1>4. TypeOK'
  BY <1>1, <1>2 DEF UndoInv, TypeOK, StoreRecord
<1>5. OpenSessionsKept'
  BY <1>3 DEF OpenSessionsKept
<1>6. SessionsOK'
  BY <1>1, <1>3, ConstantsTyped DEF SessionsOK
<1> QED BY <1>2, <1>4, <1>5, <1>6 DEF UndoInv

LEMMA MergeKeeps ==
  ASSUME UndoInv, merge
  PROVE  UndoInv'
<1> DEFINE n == Len(stack)
<1>1. /\ EndSession /\ snapshots' = Butlast(snapshots)
      /\ objects' = objects /\ next_id' = next_id /\ max_size' = max_size
      /\ \/ Len(sessions) = 1 /\ n = 1 /\ stack' = <<>>
         \/ /\ ~(Len(sessions) = 1 /\ n = 1) /\ n >= 2
            /\ stack' = [Butlast(stack) EXCEPT ![n - 1] = Merged(stack[n - 1], stack[n])]
  BY DEF merge
<1>2. /\ sessions' \in Seq(BOOLEAN) /\ Len(sessions') = Len(sessions) - 1
      /\ Len(sessions) # 0 /\ n # 0 /\ stack # <<>> /\ disabled' \in BOOLEAN
      /\ disabled' => Len(sessions) = 1 /\ n = 1
      /\ \A i \in 1 .. Len(sessions') : sessions'[i] => i = 1 /\ n = Len(sessions)
  BY <1>1, SessionEnds
<1>3. /\ stack \in Seq(undo_state) /\ snapshots \in Seq(StoreRecord)
      /\ Len(snapshots) = n /\ n \in Nat /\ Len(sessions) \in Nat /\ Len(sessions) <= n
      /\ Len(sessions) <= MaxDepth /\ MaxDepth \in Nat /\ Store \in StoreRecord
  BY Typed, ConstantsTyped
<1>4. Store' = Store
  BY <1>1 DEF Store
<1>5. /\ snapshots' \in Seq(StoreRecord) /\ Len(snapshots') = n - 1
      /\ \A i \in 1 .. n - 1 : snapshots'[i] = snapshots[i]
  <2>1. snapshots # <<>>
    BY <1>2, <1>3
  <2>2. /\ snapshots' \in Seq(StoreRecord) /\ Len(snapshots') = Len(snapshots) - 1
        /\ \A i \in 1 .. Len(snapshots) - 1 : snapshots'[i] = snapshots[i]
    BY <1>1, <1>3, <2>1, CutShort, Zenon
  <2> QED BY <1>3, <2>2
<1>6. /\ stack' \in Seq(undo_state) /\ Len(stack') = n - 1
      /\ \A i \in 1 .. n - 1 : Leads(stack'[i], snapshots'[i], After(i)')
  <2>1. CASE Len(sessions) = 1 /\ n = 1
    BY <1>1, <2>1, EmptySeq
  <2>2. CASE ~(Len(sessions) = 1 /\ n = 1)
    <3> DEFINE a == stack[n - 1]
               b == stack[n]
               c == Merged(a, b)
    <3>1. /\ n >= 2 /\ n - 1 \in 1 .. n /\ n \in 1 .. n /\ n - 1 \in 1 .. n - 1
          /\ stack' = [Butlast(stack) EXCEPT ![n - 1] = c]
      BY <1>1, <1>3, <2>2
    <3>2. a \in undo_state /\ b \in undo_state
      BY <1>3, <3>1
    <3>3. c \in undo_state
      BY <3>2, MergeTyped
    <3>4. /\ Butlast(stack) \in Seq(undo_state) /\ Len(Butlast(stack)) = n - 1
          /\ \A i \in 1 .. n - 1 : Butlast(stack)[i] = stack[i]
      BY <1>2, <1>3, CutShort, Zenon
    <3>5. After(n - 1) = snapshots[n] /\ After(n) = Store
      BY <3>1, <1>3 DEF After
    <3>6. Leads(a, snapshots[n - 1], snapshots[n]) /\ Leads(b, snapshots[n], Store)
      BY <3>1, <3>5 DEF UndoInv, EntriesRestore
    <3>7. snapshots[n - 1] \in StoreRecord /\ snapshots[n] \in StoreRecord /\ Numbered(snapshots[n - 1])
      BY <1>3, <3>1 DEF UndoInv
    <3> HIDE DEF a, b
    <3>8. Leads(c, snapshots[n - 1], Store)
      BY <1>3, <3>2, <3>6, <3>7, MergeLeads, Zenon
    <3> HIDE DEF c
    <3>9. /\ stack' \in Seq(undo_state) /\ Len(stack') = n - 1 /\ stack'[n - 1] = c
          /\ \A i \in 1 .. n - 1 : i # n - 1 => stack'[i] = stack[i]
      <4> DEFINE bl == Butlast(stack)
                 m == n - 1
      <4>1. bl \in Seq(undo_state) /\ Len(bl) = m /\ m \in 1 .. m /\ stack' = [bl EXCEPT ![m] = c]
        BY <3>1, <3>4
      <4>2. \A i \in 1 .. m : bl[i] = stack[i]
        BY <3>4
      <4> HIDE DEF bl, m
      <4>3. /\ stack' \in Seq(undo_state) /\ Len(stack') = m /\ stack'[m] = c
            /\ \A i \in 1 .. m : i # m => stack'[i] = bl[i]
        BY <3>3, <4>1
      <4>4. \A i \in 1 .. m : i # m => stack'[i] = stack[i]
        BY <4>2, <4>3
      <4> QED BY <4>3, <4>4 DEF m
    <3>10. ASSUME NEW i \in 1 .. n - 1 PROVE Leads(stack'[i], snapshots'[i], After(i)')
      <4>1. CASE i = n - 1
        <5>1. After(i)' = Store
          BY <1>4, <3>9, <4>1 DEF After
        <5> QED BY <1>5, <3>8, <3>9, <4>1, <5>1
      <4>2. CASE i # n - 1
        <5>1. i + 1 \in 1 .. n - 1 /\ i \in 1 .. n /\ i # n
          BY <1>3, <4>2
        <5>2. After(i)' = snapshots[i + 1] /\ After(i) = snapshots[i + 1]
          BY <1>5, <3>9, <4>2, <5>1 DEF After
        <5>3. Leads(stack[i], snapshots[i], After(i))
          BY <5>1 DEF UndoInv, EntriesRestore
        <5> QED BY <1>5, <3>9, <4>2, <5>2, <5>3
      <4> QED BY <4>1, <4>2
    <3> QED BY <3>9, <3>10
  <2> QED BY <2>1, <2>2
<1>7. TypeOK'
  BY <1>1, <1>2, <1>5, <1>6 DEF UndoInv, TypeOK, StoreRecord
<1>8. EntriesRestore'
  BY <1>5, <1>6 DEF EntriesRestore
<1>9. OpenSessionsKept'
  BY <1>2, <1>3, <1>6 DEF OpenSessionsKept
<1>10. SessionsOK'
  <2>1. Len(sessions') <= MaxDepth
    BY <1>2, <1>3
  <2>2. disabled' => stack' = <<>> /\ sessions' = <<>>
    <3>1. disabled' => Len(stack') = 0 /\ Len(sessions') = 0
      BY <1>2, <1>6
    <3>2. Len(stack') = 0 => stack' = <<>>
      BY <1>6
    <3>3. Len(sessions') = 0 => sessions' = <<>>
      BY <1>2
    <3> QED BY <3>1, <3>2, <3>3, Zenon
  <2>3. \A i \in 1 .. Len(sessions') : sessions'[i] => i = 1 /\ Len(stack') = Len(sessions')
    BY <1>2, <1>6
  <2> QED BY <2>1, <2>2, <2>3 DEF SessionsOK
<1>11. Numbered(Store)'
  BY <1>4 DEF UndoInv, Numbered
<1>12. \A i \in 1 .. Len(snapshots') : Numbered(snapshots'[i])
  BY <1>3, <1>5 DEF UndoInv
<1> QED BY <1>7, <1>8, <1>9, <1>10, <1>11, <1>12 DEF UndoInv

LEMMA CommitKeeps ==
  ASSUME UndoInv, commit
  PROVE  UndoInv'
<1>1. /\ sessions = <<FALSE>> /\ EndSession
      /\ UNCHANGED <<objects, next_id, stack, max_size, snapshots>>
  BY DEF commit
<1>2. /\ sessions' \in Seq(BOOLEAN) /\ Len(sessions') = Len(sessions) - 1 /\ disabled' \in BOOLEAN
  BY <1>1, SessionEnds
<1>3. Len(sessions) = 1 /\ disabled' = FALSE
  BY <1>1 DEF EndSession, Last
<1>4. Len(sessions') = 0 /\ Len(stack) \in Nat
  BY <1>2, <1>3, Typed
<1>5. TypeOK' /\ EntriesRestore'
  BY <1>1, <1>2 DEF UndoInv, TypeOK, EntriesRestore, After, Store
<1>6. OpenSessionsKept'
  BY <1>1, <1>4 DEF OpenSessionsKept
<1>7. SessionsOK'
  BY <1>3, <1>4, ConstantsTyped DEF SessionsOK
<1>8. Numbered(Store)' /\ \A i \in 1 .. Len(snapshots') : Numbered(snapshots'[i])
  BY <1>1 DEF UndoInv, Numbered, Store
<1> QED BY <1>5, <1>6, <1>7, <1>8 DEF UndoInv

(* set_max_size, enable and disable, and stuttering leave the store and the *)
(* history alone.                                                          *)
LEMMA SettingKeeps ==
  ASSUME UndoInv, UNCHANGED <<objects, next_id, stack, sessions, snapshots>>,
         max_size' \in Sizes, disabled' \in BOOLEAN, disabled' => stack = <<>> /\ sessions = <<>>
  PROVE  UndoInv'
<1>1. TypeOK' /\ EntriesRestore' /\ OpenSessionsKept'
  BY DEF UndoInv, TypeOK, EntriesRestore, OpenSessionsKept, After, Store
<1>2. SessionsOK'
  BY DEF UndoInv, SessionsOK
<1>3. Numbered(Store)' /\ \A i \in 1 .. Len(snapshots') : Numbered(snapshots'[i])
  BY DEF UndoInv, Numbered, Store
<1> QED BY <1>1, <1>2, <1>3 DEF UndoInv

LEMMA NextKeeps ==
  ASSUME UndoInv, [Next]_vars
  PROVE  UndoInv'
<1>1. ASSUME NEW v \in Values, on_create(v) PROVE UndoInv'
  BY <1>1, CreateKeeps
<1>2. ASSUME NEW id \in Ids, NEW v \in Values, on_modify(id, v) PROVE UndoInv'
  BY <1>2, ModifyKeeps
<1>3. ASSUME NEW id \in Ids, on_remove(id) PROVE UndoInv'
  BY <1>3, RemoveKeeps
<1>4. ASSUME NEW f \in BOOLEAN, start_undo_session(f) PROVE UndoInv'
  BY <1>4, StartKeeps
<1>5. ASSUME NEW f \in BOOLEAN, set_disabled(f) PROVE UndoInv'
  <2>1. /\ UNCHANGED <<objects, next_id, stack, sessions, snapshots>> /\ max_size' \in Sizes
        /\ disabled' \in BOOLEAN /\ (disabled' => stack = <<>> /\ sessions = <<>>)
    BY <1>5 DEF set_disabled, UndoInv, TypeOK
  <2> QED BY <2>1, SettingKeeps
<1>6. ASSUME NEW n \in Sizes, set_max_size(n) PROVE UndoInv'
  <2>1. /\ UNCHANGED <<objects, next_id, stack, sessions, snapshots>> /\ max_size' \in Sizes
        /\ disabled' \in BOOLEAN /\ (disabled' => stack = <<>> /\ sessions = <<>>)
    BY <1>6 DEF set_max_size, UndoInv, TypeOK, SessionsOK
  <2> QED BY <2>1, SettingKeeps
<1>7. CASE UNCHANGED vars
  <2>1. /\ UNCHANGED <<objects, next_id, stack, sessions, snapshots>> /\ max_size' \in Sizes
        /\ disabled' \in BOOLEAN /\ (disabled' => stack = <<>> /\ sessions = <<>>)
    BY <1>7 DEF vars, UndoInv, TypeOK, SessionsOK
  <2> QED BY <2>1, SettingKeeps
<1> QED BY <1>1, <1>2, <1>3, <1>4, <1>5, <1>6, <1>7, UndoKeeps, MergeKeeps, CommitKeeps, PopCommitKeeps
        DEF Next

LEMMA SpecKeeps == Spec => []UndoInv
<1>1. Init => UndoInv
  BY InitKeeps
<1>2. UndoInv /\ [Next]_vars => UndoInv'
  BY NextKeeps
<1> QED BY <1>1, <1>2, PTL DEF Spec

(* Through any sequence of changes, sessions and commits, every entry of   *)
(* the undo stack restores the store as it was when the entry began:       *)
(* undo_database::on_create, on_modify, on_remove and merge lose nothing.  *)
THEOREM HistoryRestores == Spec => []EntriesRestore
<1>1. UndoInv => EntriesRestore
  BY DEF UndoInv
<1> QED BY <1>1, SpecKeeps, PTL

(* undo_database::start_undo_session never drops the entry of a session    *)
(* that is open, as long as sessions nest no deeper than max_size + 1.     *)
THEOREM SessionsSurvive == Spec => []OpenSessionsKept
<1>1. UndoInv => OpenSessionsKept
  BY DEF UndoInv
<1> QED BY <1>1, SpecKeeps, PTL

(* The fields of undo_database and of the index keep their types. *)
THEOREM UndoTypeCorrect == Spec => []TypeOK
<1>1. UndoInv => TypeOK
  BY DEF UndoInv
<1> QED BY <1>1, SpecKeeps, PTL
-----------------------------------------------------------------------------
(* Every step is one of the stack of copies, or none. *)
LEMMA AbstractTyped ==
  ASSUME UndoInv
  PROVE  /\ objects \in [Ids -> Contents] /\ next_id \in Nat /\ Len(sessions) \in Nat
         /\ Abstract!Store = Store
BY ConstantsTyped DEF UndoInv, TypeOK, Abstract!Store, Store

LEMMA ChangeSimulates ==
  ASSUME UndoInv, UndoInv', NEW new, RecordIn(new), sessions' = sessions
  PROVE  Abstract!Change
<1>1. objects' \in [Ids -> Contents] /\ next_id' \in Nat /\ Abstract!Store = Store
  BY AbstractTyped, ConstantsTyped DEF UndoInv, TypeOK
<1>2. snapshots' = snapshots \/ (snapshots = <<>> /\ snapshots' = <<Store>>)
  <2>1. CASE disabled
    BY <2>1 DEF RecordIn
  <2>2. CASE ~disabled /\ stack # <<>>
    BY <2>2 DEF RecordIn
  <2>3. CASE ~disabled /\ stack = <<>>
    <3>1. snapshots \in Seq(StoreRecord) /\ Len(snapshots) = 0
      BY <2>3, Typed
    <3> QED BY <2>3, <3>1 DEF RecordIn
  <2> QED BY <2>1, <2>2, <2>3
<1> QED BY <1>1, <1>2 DEF Abstract!Change

LEMMA StartSimulates ==
  ASSUME UndoInv, NEW f \in BOOLEAN, start_undo_session(f)
  PROVE  Abstract!Start
<1>1. /\ snapshots \in Seq(StoreRecord) /\ sessions \in Seq(BOOLEAN)
      /\ Len(snapshots) = Len(stack) /\ Len(stack) \in Nat /\ Len(sessions) \in Nat
      /\ Abstract!Store = Store
  BY Typed, AbstractTyped
<1>2. Dropped \in 0 .. Len(snapshots) /\ Len(snapshots) - Dropped >= Len(sessions)
  BY <1>1, DroppedSome DEF start_undo_session
<1>3. snapshots' = Append(SubSeq(snapshots, Dropped + 1, Len(snapshots)), Store)
  BY <1>1, KeptIs DEF start_undo_session
<1>4. Len(sessions)' = Len(sessions) + 1
  <2>1. sessions' = Append(sessions, disabled /\ f)
    BY DEF start_undo_session
  <2> DEFINE d == disabled /\ f
  <2>2. d \in BOOLEAN /\ sessions' = Append(sessions, d)
    BY <2>1
  <2> HIDE DEF d
  <2> QED BY <1>1, <2>2
<1>5. UNCHANGED <<objects, next_id>>
  BY DEF start_undo_session
<1> QED BY <1>1, <1>2, <1>3, <1>4, <1>5 DEF Abstract!Start

LEMMA EndSimulates ==
  ASSUME UndoInv, EndSession
  PROVE  Len(sessions) > 0 /\ Len(sessions)' = Len(sessions) - 1 /\ stack # <<>>
BY SessionEnds, Typed

LEMMA UndoSimulates ==
  ASSUME UndoInv, undo
  PROVE  Abstract!Undo
<1>1. /\ EndSession /\ RestoreFrom(Last(stack)) /\ stack' = Butlast(stack)
      /\ snapshots' = Butlast(snapshots)
  BY DEF undo
<1>2. Len(sessions) > 0 /\ Len(sessions)' = Len(sessions) - 1 /\ stack # <<>>
  BY <1>1, EndSimulates
<1>3. objects' = snapshots[Len(stack)].objects /\ next_id' = snapshots[Len(stack)].next_id
  BY <1>1, <1>2, LastReversed
<1>4. Len(stack) = Len(snapshots)
  BY Typed
<1> QED BY <1>1, <1>2, <1>3, <1>4 DEF Abstract!Undo, Abstract!Restore, Abstract!DropLast, Butlast

LEMMA MergeSimulates ==
  ASSUME UndoInv, merge
  PROVE  Abstract!Merge
<1>1. EndSession /\ snapshots' = Butlast(snapshots) /\ UNCHANGED <<objects, next_id>>
  BY DEF merge
<1>2. Len(sessions) > 0 /\ Len(sessions)' = Len(sessions) - 1
  BY <1>1, EndSimulates
<1> QED BY <1>1, <1>2 DEF Abstract!Merge, Abstract!DropLast, Butlast

LEMMA CommitSimulates ==
  ASSUME UndoInv, commit
  PROVE  Abstract!Commit
<1>1. EndSession /\ sessions = <<FALSE>> /\ UNCHANGED <<objects, next_id, snapshots>>
  BY DEF commit
<1>2. Len(sessions) = 1
  BY <1>1
<1>3. Len(sessions)' = Len(sessions) - 1
  BY <1>1, EndSimulates
<1> QED BY <1>1, <1>2, <1>3 DEF Abstract!Commit

LEMMA PopCommitSimulates ==
  ASSUME UndoInv, pop_commit
  PROVE  Abstract!PopCommit
<1>1. /\ sessions = <<>> /\ stack # <<>> /\ RestoreFrom(Last(stack)) /\ stack' = Butlast(stack)
      /\ snapshots' = Butlast(snapshots) /\ sessions' = sessions
  BY DEF pop_commit
<1>2. objects' = snapshots[Len(stack)].objects /\ next_id' = snapshots[Len(stack)].next_id
  BY <1>1, LastReversed
<1>3. Len(stack) = Len(snapshots) /\ snapshots # <<>>
  BY <1>1, Typed
<1>4. Len(sessions) = 0
  BY <1>1
<1> QED BY <1>1, <1>2, <1>3, <1>4
        DEF Abstract!PopCommit, Abstract!Restore, Abstract!DropLast, Butlast

LEMMA NextSimulates ==
  ASSUME UndoInv, UndoInv', [Next]_vars
  PROVE  [Abstract!Next]_(Abstract!svars)
<1>1. ASSUME NEW v \in Values, on_create(v) PROVE Abstract!Next
  BY <1>1, ChangeSimulates DEF on_create, Abstract!Next
<1>2. ASSUME NEW id \in Ids, NEW v \in Values, on_modify(id, v) PROVE Abstract!Next
  BY <1>2, ChangeSimulates DEF on_modify, Abstract!Next
<1>3. ASSUME NEW id \in Ids, on_remove(id) PROVE Abstract!Next
  BY <1>3, ChangeSimulates DEF on_remove, Abstract!Next
<1>4. ASSUME NEW f \in BOOLEAN, start_undo_session(f) PROVE Abstract!Next
  BY <1>4, StartSimulates DEF Abstract!Next
<1>5. ASSUME NEW f \in BOOLEAN, set_disabled(f) PROVE UNCHANGED Abstract!svars
  BY <1>5 DEF set_disabled, Abstract!svars
<1>6. ASSUME NEW n \in Sizes, set_max_size(n) PROVE UNCHANGED Abstract!svars
  BY <1>6 DEF set_max_size, Abstract!svars
<1>7. CASE UNCHANGED vars
  BY <1>7 DEF vars, Abstract!svars
<1>8. undo \/ merge \/ commit \/ pop_commit => Abstract!Next
  BY UndoSimulates, MergeSimulates, CommitSimulates, PopCommitSimulates DEF Abstract!Next
<1> QED BY <1>1, <1>2, <1>3, <1>4, <1>5, <1>6, <1>7, <1>8 DEF Next

(* undo_database, which records differences and folds them together in     *)
(* merge, implements a stack of copies of the whole store.                 *)
THEOREM UndoImplementsSnapshots == Spec => ImplementsSnapshots
<1>1. Init => Abstract!Init
  <2>1. SUFFICES ASSUME Init PROVE Abstract!Init
    OBVIOUS
  <2>2. objects \in [Ids -> Contents] /\ next_id \in Nat
    BY InitKeeps, <2>1, AbstractTyped
  <2>3. snapshots = <<>> /\ Len(sessions) = 0
    BY <2>1 DEF Init
  <2> QED BY <2>2, <2>3 DEF Abstract!Init
<1>2. UndoInv /\ UndoInv' /\ [Next]_vars => [Abstract!Next]_(Abstract!svars)
  BY NextSimulates
<1> QED BY <1>1, <1>2, SpecKeeps, PTL DEF Spec, Abstract!Spec, ImplementsSnapshots
=============================================================================
