------------------------------- MODULE MCSync -------------------------------
EXTENDS Sync, TLC

CONSTANTS p, q

(* The node has a1.  p has two more blocks, the last of which is bad, q is  *)
(* on a branch of its own and may change to p's.                            *)
MCPrev == ("a1" :> "g") @@ ("a2" :> "a1") @@ ("a3" :> "a2") @@ ("b2" :> "a1")
MCStart == (p :> "a3") @@ (q :> "b2")
=============================================================================
