----------------------- MODULE MCQuorumCommitments -----------------------
(***************************************************************************)
(* A DKG interval of four blocks with a mining phase of two, on two        *)
(* branches.  The first quorum, a4, is mined by a5 or, after the null       *)
(* commitment of n5, by n6; u5 is a5 with an unsound transaction; a6        *)
(* leaves the commitment out, as it must, d6 repeats it.  The second        *)
(* branch starts another quorum, b4.                                       *)
(***************************************************************************)
EXTENDS QuorumCommitments, TLC

CONSTANTS r3, a4, a5, a6, d6, n5, n6, u5, b4, b5

MCParent == [b \in Blocks \ {r3} |->
  CASE b \in {a4, b4} -> r3 [] b \in {a5, n5, u5} -> a4 [] b \in {a6, d6} -> a5
    [] b = n6 -> n5 [] b = b5 -> b4]
MCAncestors[b \in Blocks] == IF b = r3 THEN {b} ELSE {b} \cup MCAncestors[MCParent[b]]
MCHeight == [b \in Blocks |-> 2 + Cardinality(MCAncestors[b])]
c2 == [quorum |-> a4, signers |-> 2]
c3 == [quorum |-> a4, signers |-> 3]
MCCommitments == {c2, c3}
MCContent == [b \in Blocks |->
  CASE b \in {a5, d6, u5} -> c2 [] b = n6 -> c3 [] b \in {n5, b5} -> Null [] OTHER -> None]

=============================================================================
