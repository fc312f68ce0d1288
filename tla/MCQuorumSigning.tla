-------------------------- MODULE MCQuorumSigning --------------------------
(***************************************************************************)
(* Instances of QuorumSigning with one quorum: of n1, which is honest and  *)
(* asks from two threads, and n3, which is not, beside a node n2 that only *)
(* takes signatures; and of all members, which signs when three have.      *)
(***************************************************************************)
EXTENDS QuorumSigning, TLC

CONSTANTS n1, n2, n3, n4, m1, m2, id1, q1, t1, t2

OneQuorum == [q \in Quorums |-> Members]
PairN1N3 == [q \in Quorums |-> {n1, n3}]
Threshold2 == [q \in Quorums |-> 2]
Threshold3 == [q \in Quorums |-> 3]
AnyQuorum == [id \in Ids |-> Quorums]
AnyThread == [n \in Honest |-> [id \in Ids |-> Threads]]
OrderN1N3 == [q \in Quorums |-> (0 :> n1) @@ (1 :> n3)]
OrderN4N1 == [q \in Quorums |-> (0 :> n4) @@ (1 :> n1)]

\* Nothing is promised on an id whose votes do not bind: such a state is
\* checked and not continued.
VotesBind == \A n \in Honest : loose[n] = {}

\* the messages are alike, and the threads
Symmetry == Permutations({m1, m2}) \cup Permutations({t1, t2})
=============================================================================
