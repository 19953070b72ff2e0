---------------------------- MODULE UndoDatabase ----------------------------
(***************************************************************************)
(* graphene::db::undo_database over one index of an object_database.  Each *)
(* undo_state records, relative to the entry before it, which objects are  *)
(* new, what the modified ones were and what the removed ones were.        *)
(*                                                                         *)
(* An id outside a map or an index has the content None.                   *)
(*                                                                         *)
(* Sessions are scoped objects that end in the reverse order of their      *)
(* start, so the open ones form a stack; its length is _active_sessions.   *)
(* snapshots is a history variable: the store at the time each undo_state  *)
(* was put on the stack.  No action reads it.                              *)
(***************************************************************************)
EXTENDS Naturals, Sequences

CONSTANTS MaxId,     \* bound: ids are 1 .. MaxId
          Values,    \* contents of an object
          None,
          Sizes,     \* arguments of set_max_size
          MaxDepth   \* bound: sessions open at a time

VARIABLES objects,    \* the index
          next_id,    \* its get_next_id()
          stack,      \* _stack
          sessions,   \* _disable_on_exit of each open session
          disabled,   \* _disabled
          max_size,   \* _max_size
          snapshots

vars == <<objects, next_id, stack, sessions, disabled, max_size, snapshots>>

Ids == 1 .. MaxId
Contents == Values \cup {None}

(* old_index_next_ids holds at most the id of the one index; 0: no entry. *)
undo_state ==
  [old_values : [Ids -> Contents], old_index_next_id : 0 .. MaxId,
   new_ids : SUBSET Ids, removed : [Ids -> Contents]]

Nothing == [id \in Ids |-> None]

EmptyState == [old_values |-> Nothing, old_index_next_id |-> 0, new_ids |-> {},
               removed |-> Nothing]

ASSUME UndoAssumption ==
  /\ MaxId \in Nat /\ None \notin Values
  /\ Sizes \subseteq Nat \ {0} /\ Sizes # {}
  /\ MaxDepth \in Nat

(* start_undo_session drops the entries of the longest open session once   *)
(* sessions are nested deeper than max_size + 1: the callers must not.     *)
ASSUME DepthAssumption == \A n \in Sizes : MaxDepth <= n + 1

Store == [objects |-> objects, next_id |-> next_id]

Init ==
  /\ objects = Nothing /\ next_id = 1
  /\ stack = <<>> /\ sessions = <<>>
  /\ disabled = FALSE
  /\ max_size \in Sizes
  /\ snapshots = <<>>
-----------------------------------------------------------------------------
(* The first change outside any session puts an entry on an empty stack. *)
Recording == IF stack = <<>> THEN <<EmptyState>> ELSE stack

RecordIn(new) ==
  IF disabled THEN UNCHANGED <<stack, snapshots>>
  ELSE /\ stack' = [Recording EXCEPT ![Len(Recording)] = new]
       /\ snapshots' = IF stack = <<>> THEN <<Store>> ELSE snapshots

Last(s) == s[Len(s)]

OnCreate(s, id) ==
  [s EXCEPT !.old_index_next_id = IF @ = 0 THEN id ELSE @, !.new_ids = @ \cup {id}]

on_create(v) ==
  /\ next_id <= MaxId
  /\ objects' = [objects EXCEPT ![next_id] = v]
  /\ next_id' = next_id + 1
  /\ RecordIn(OnCreate(Last(Recording), next_id))
  /\ UNCHANGED <<sessions, disabled, max_size>>

OnModify_NewToo(s, id, was) ==
  IF s.old_values[id] # None THEN s ELSE [s EXCEPT !.old_values[id] = was]

OnModify(s, id, was) ==
  IF id \in s.new_ids \/ s.old_values[id] # None THEN s
  ELSE [s EXCEPT !.old_values[id] = was]

on_modify(id, v) ==
  /\ objects[id] # None
  /\ objects' = [objects EXCEPT ![id] = v]
  /\ RecordIn(OnModify(Last(Recording), id, objects[id]))
  /\ UNCHANGED <<next_id, sessions, disabled, max_size>>

OnRemove(s, id, was) ==
  IF id \in s.new_ids THEN [s EXCEPT !.new_ids = @ \ {id}]
  ELSE IF s.old_values[id] # None
  THEN [s EXCEPT !.removed[id] = s.old_values[id], !.old_values[id] = None]
  ELSE IF s.removed[id] # None THEN s
  ELSE [s EXCEPT !.removed[id] = was]

on_remove(id) ==
  /\ objects[id] # None
  /\ objects' = [objects EXCEPT ![id] = None]
  /\ RecordIn(OnRemove(Last(Recording), id, objects[id]))
  /\ UNCHANGED <<next_id, sessions, disabled, max_size>>
-----------------------------------------------------------------------------
(* start_undo_session.  Without force_enable a disabled database hands out *)
(* a session that records nothing and cannot end well; nobody asks for one. *)
Kept_OneLess(s) == IF Len(s) >= max_size THEN SubSeq(s, Len(s) - max_size + 2, Len(s)) ELSE s

Kept(s) == IF Len(s) > max_size THEN SubSeq(s, Len(s) - max_size + 1, Len(s)) ELSE s

start_undo_session(force_enable) ==
  /\ Len(sessions) < MaxDepth
  /\ disabled => force_enable
  /\ disabled' = FALSE
  /\ stack' = Append(Kept(stack), EmptyState)
  /\ snapshots' = Append(Kept(snapshots), Store)
  /\ sessions' = Append(sessions, disabled /\ force_enable)
  /\ UNCHANGED <<objects, next_id, max_size>>

(* The store after the changes recorded in s are reversed.  The code gets  *)
(* every object it changes or removes and inserts the removed ones, which  *)
(* throws when one is missing or there already.                            *)
Restored_NewKept(objs, s) ==
  [id \in Ids |-> IF s.removed[id] # None THEN s.removed[id]
                  ELSE IF s.old_values[id] # None THEN s.old_values[id]
                  ELSE objs[id]]

Restored(objs, s) ==
  [id \in Ids |-> IF s.removed[id] # None THEN s.removed[id]
                  ELSE IF id \in s.new_ids THEN None
                  ELSE IF s.old_values[id] # None THEN s.old_values[id]
                  ELSE objs[id]]

Restorable(objs, s) ==
  \A id \in Ids :
    /\ s.old_values[id] # None \/ id \in s.new_ids => objs[id] # None
    /\ s.removed[id] # None => objs[id] = None

NextIdBefore_NoLookup(s) == s.old_index_next_id

NextIdBefore(s) == IF s.old_index_next_id = 0 THEN next_id ELSE s.old_index_next_id

RestoreFrom(s) ==
  /\ Restorable(objects, s)
  /\ objects' = Restored(objects, s)
  /\ next_id' = NextIdBefore(s)

Butlast(s) == SubSeq(s, 1, Len(s) - 1)

(* The end of the innermost session: its destructor may disable again. *)
EndSession ==
  /\ sessions # <<>>
  /\ sessions' = Butlast(sessions)
  /\ disabled' = Last(sessions)

undo ==
  /\ ~disabled
  /\ EndSession
  /\ RestoreFrom(Last(stack))
  /\ stack' = Butlast(stack)
  /\ snapshots' = Butlast(snapshots)
  /\ UNCHANGED max_size

(* merge: the entry b is folded into the entry a before it, object by      *)
(* object; an object that both a and b changed is what it was before a.    *)
WasRemoved_Latest(a, b, id) == b.removed[id]

WasRemoved(a, b, id) == IF a.old_values[id] # None THEN a.old_values[id] ELSE b.removed[id]

Merged(a, b) ==
  [old_values |-> [id \in Ids |->
     IF b.removed[id] # None THEN None
     ELSE IF id \in a.new_ids \/ a.old_values[id] # None THEN a.old_values[id]
     ELSE b.old_values[id]],
   old_index_next_id |-> IF a.old_index_next_id = 0 THEN b.old_index_next_id
                         ELSE a.old_index_next_id,
   new_ids |-> {id \in a.new_ids \cup b.new_ids : b.removed[id] = None},
   removed |-> [id \in Ids |->
     IF b.removed[id] = None \/ id \in a.new_ids THEN a.removed[id]
     ELSE WasRemoved(a, b, id)]]

merge ==
  LET n == Len(stack)
  IN  /\ EndSession
      /\ \/ Len(sessions) = 1 /\ n = 1 /\ stack' = <<>>
         \/ ~(Len(sessions) = 1 /\ n = 1) /\ n >= 2
            /\ stack' = [Butlast(stack) EXCEPT ![n - 1] = Merged(stack[n - 1], stack[n])]
      /\ snapshots' = Butlast(snapshots)
      /\ UNCHANGED <<objects, next_id, max_size>>

(* commit: only the session around a block, inside which no other is open. *)
commit ==
  /\ sessions = <<FALSE>>
  /\ EndSession
  /\ UNCHANGED <<objects, next_id, stack, max_size, snapshots>>

pop_commit ==
  /\ sessions = <<>> /\ stack # <<>>
  /\ RestoreFrom(Last(stack))
  /\ stack' = Butlast(stack)
  /\ snapshots' = Butlast(snapshots)
  /\ disabled' = FALSE
  /\ UNCHANGED <<sessions, max_size>>

set_max_size(n) ==
  /\ max_size' = n
  /\ UNCHANGED <<objects, next_id, stack, sessions, disabled, snapshots>>

(* enable and disable, called by init_genesis and reindex when there is no *)
(* history to keep in step                                                 *)
set_disabled(b) ==
  /\ sessions = <<>>
  /\ b => stack = <<>>
  /\ disabled' = b
  /\ UNCHANGED <<objects, next_id, stack, sessions, max_size, snapshots>>

Next ==
  \/ \E v \in Values : on_create(v)
  \/ \E id \in Ids, v \in Values : on_modify(id, v)
  \/ \E id \in Ids : on_remove(id)
  \/ \E f \in BOOLEAN : start_undo_session(f) \/ set_disabled(f)
  \/ undo \/ merge \/ commit \/ pop_commit
  \/ \E n \in Sizes : set_max_size(n)

Spec == Init /\ [][Next]_vars
-----------------------------------------------------------------------------
TypeOK ==
  /\ objects \in [Ids -> Contents]
  /\ next_id \in 1 .. MaxId + 1
  /\ stack \in Seq(undo_state)
  /\ sessions \in Seq(BOOLEAN)
  /\ disabled \in BOOLEAN
  /\ max_size \in Sizes
  /\ snapshots \in Seq([objects : [Ids -> Contents], next_id : 1 .. MaxId + 1])

(* The store the entry at position i was recorded against: the one the     *)
(* next entry restores, or the present one.                                *)
After(i) == IF i = Len(stack) THEN Store ELSE snapshots[i + 1]

(* The relationship of an object to an undo_state, as the table in merge   *)
(* has it: the entry s leads from the content `was` to the content `is`.   *)
Relates(s, id, was, is) ==
  \/ /\ id \notin s.new_ids /\ s.old_values[id] = None /\ s.removed[id] = None
     /\ is = was
  \/ /\ id \in s.new_ids /\ s.old_values[id] = None /\ s.removed[id] = None
     /\ was = None /\ is # None
  \/ /\ id \notin s.new_ids /\ s.old_values[id] = was /\ s.removed[id] = None
     /\ was # None /\ is # None
  \/ /\ id \notin s.new_ids /\ s.old_values[id] = None /\ s.removed[id] = was
     /\ was # None /\ is = None

(* The entry s leads from the store `from` to the store `to`. *)
Leads(s, from, to) ==
  /\ \A id \in Ids : Relates(s, id, from.objects[id], to.objects[id])
  /\ IF s.old_index_next_id = 0 THEN to.next_id = from.next_id
     ELSE s.old_index_next_id = from.next_id /\ from.next_id <= to.next_id
  /\ \A id \in s.new_ids : from.next_id <= id

(* Every entry of the stack leads from its snapshot to the one after it:   *)
(* undoing entries one after the other restores the store of every open    *)
(* session and of every block, and none of the gets, removes and inserts   *)
(* in undo and pop_commit meets an object that is missing or there already. *)
EntriesRestore ==
  /\ Len(snapshots) = Len(stack)
  /\ \A i \in 1 .. Len(stack) : Leads(stack[i], snapshots[i], After(i))

(* start_undo_session never forgets the entry of a session that is open,   *)
(* so merge finds the entry to fold into and undo the one to reverse.      *)
OpenSessionsKept == Len(stack) >= Len(sessions)

(* The undo database implements the stack of copies. *)
Abstract == INSTANCE Snapshots WITH open <- Len(sessions)
ImplementsSnapshots == Abstract!Spec
=============================================================================
