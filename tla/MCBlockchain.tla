---------------------------- MODULE MCBlockchain ----------------------------
EXTENDS Blockchain, TLC

CONSTANTS t1, t2, t3, t4, w1, w2, w3

E(time, txs) == [time |-> time, txs |-> txs, ok |-> TRUE]
Bad(time) == [time |-> time, txs |-> <<>>, ok |-> FALSE]

(* Two branches of the root, A and B.  At the root w3's last block is 3,   *)
(* the last irreversible one.                                              *)
MCRoot == [i \in 1 .. 5 |-> E(i, <<>>)]
A1 == Append(MCRoot, E(6, <<t1, t2>>))
A2 == Append(A1, E(7, <<t3>>))
A2bad == Append(A1, Bad(8))
A3 == Append(A2, E(9, <<>>))
B1 == Append(MCRoot, E(7, <<>>))
B2 == Append(B1, E(8, <<t1>>))
B3 == Append(B2, E(9, <<>>))
B3bad == Append(B2, Bad(9))
MCBlocks == {A1, A2, A2bad, B1, B2, B3, B3bad}
MCValidBlocks == {A1, A2, A3, B1, B2, B3}

(* t1 is in both branches, t3 builds on t2, t4 refers to branch A. *)
MCNeeds == (t1 :> {} @@ t2 :> {} @@ t3 :> {t2} @@ t4 :> {})
MCExpiration == (t1 :> 8 @@ t2 :> 10 @@ t3 :> 10 @@ t4 :> 10)
MCTaPoS == (t1 :> MCRoot @@ t2 :> MCRoot @@ t3 :> MCRoot @@ t4 :> A1)
MCSize == (t1 :> 1 @@ t2 :> 2 @@ t3 :> 1 @@ t4 :> 1)
MCSchedule == <<w1, w2, w3, w1, w2, w3, w1, w2, w3, w1>>
=============================================================================
