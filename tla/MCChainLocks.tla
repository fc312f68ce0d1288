---------------------------- MODULE MCChainLocks ----------------------------
(***************************************************************************)
(* A tree with two competing branches, g - a1 - a2 and g - b1 - b2, of     *)
(* which the quorums lock the first.                                       *)
(***************************************************************************)
EXTENDS ChainLocks

CONSTANTS g, a1, a2, b1, b2

MCBlocks == {g, a1, a2, b1, b2}
MCParent == [b \in Blocks \ {g} |->
  CASE b = a1 -> g [] b = a2 -> a1 [] b = b1 -> g [] b = b2 -> b1]
MCAncestors[b \in Blocks] == IF b = Genesis THEN {b} ELSE {b} \cup MCAncestors[Parent[b]]
MCClsigs == {[height |-> 1, block |-> a1], [height |-> 2, block |-> a2]}
MCFirstClsig == {[height |-> 1, block |-> a1]}

ASSUME Compatible
=============================================================================
