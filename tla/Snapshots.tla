----------------------------- MODULE Snapshots -----------------------------
(***************************************************************************)
(* What undo_database promises: sessions over a store of objects, each of  *)
(* which can be abandoned, kept as a part of the enclosing one, or kept as *)
(* a committed change that can later be taken back as a whole.  Here every *)
(* entry of the history simply is a copy of the store.                     *)
(***************************************************************************)
EXTENDS Naturals, Sequences

CONSTANTS Ids, Contents   \* ids and contents of objects, the absent one included

VARIABLES objects, next_id,
          snapshots,      \* the store as it was at each entry of the history
          open            \* how many of the last entries belong to open sessions

svars == <<objects, next_id, snapshots, open>>

Store == [objects |-> objects, next_id |-> next_id]

Init ==
  /\ objects \in [Ids -> Contents] /\ next_id \in Nat
  /\ snapshots = <<>> /\ open = 0

Restore(s) == objects' = s.objects /\ next_id' = s.next_id

(* Objects are created, modified or removed; a history that is kept has at *)
(* least one entry from then on.                                           *)
Change ==
  /\ objects' \in [Ids -> Contents] /\ next_id' \in Nat
  /\ \/ snapshots' = snapshots
     \/ snapshots = <<>> /\ snapshots' = <<Store>>
  /\ UNCHANGED open

(* Old entries may be forgotten, but none of an open session. *)
Start ==
  /\ \E k \in 0 .. Len(snapshots) :
       /\ Len(snapshots) - k >= open
       /\ snapshots' = Append(SubSeq(snapshots, k + 1, Len(snapshots)), Store)
  /\ open' = open + 1
  /\ UNCHANGED <<objects, next_id>>

DropLast == SubSeq(snapshots, 1, Len(snapshots) - 1)

Undo ==
  /\ open > 0
  /\ Restore(snapshots[Len(snapshots)])
  /\ snapshots' = DropLast
  /\ open' = open - 1

Merge ==
  /\ open > 0
  /\ snapshots' = DropLast
  /\ open' = open - 1
  /\ UNCHANGED <<objects, next_id>>

Commit ==
  /\ open = 1
  /\ open' = 0
  /\ UNCHANGED <<objects, next_id, snapshots>>

PopCommit ==
  /\ open = 0 /\ snapshots # <<>>
  /\ Restore(snapshots[Len(snapshots)])
  /\ snapshots' = DropLast
  /\ UNCHANGED open

Next == Change \/ Start \/ Undo \/ Merge \/ Commit \/ PopCommit

Spec == Init /\ [][Next]_svars
=============================================================================
