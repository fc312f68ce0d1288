------------------------- MODULE MCRecoveredSigsDb -------------------------
(***************************************************************************)
(* One id, for which two quorums recover a signature, on two messages; the *)
(* worker thread of the signing manager and a thread of InstantSend.       *)
(***************************************************************************)
EXTENDS RecoveredSigsDb

CONSTANTS i, m1, m2

MCSigs == {[id |-> i, msg |-> m1, quorum |-> 1], [id |-> i, msg |-> m2, quorum |-> 2]}
MCWork == [t \in Threads |-> IF t = "worker" THEN {"process", "cleanup"}
                                             ELSE {"lookup", "truncate", "vote"}]

\* bound on the keys of which a stale answer may be cached at once
FewOvertaken == Cardinality(overtaken) <= 1
\* Votes and signatures share only the threads: states with both are not continued.
VotesApart ==
  \/ byTime = {} /\ \A k \in Keys : cache[k] = None
  \/ voteTime = {} /\ \A t \in Threads : call[t].pc \notin {"vote", "cleanvotes"}
=============================================================================
