-------------------------- MODULE AbstractSigning --------------------------
(***************************************************************************)
(* What quorum signing promises to its users (ChainLocks, InstantSend):    *)
(* the signatures that nodes accept on one request id are all for the same *)
(* message, and a node unlearns what it accepted only by giving up its     *)
(* records of the id for their age.  The promise on an id ends when a      *)
(* member gives up its records, or asks for two messages at once.          *)
(***************************************************************************)
CONSTANTS Nodes, Ids, Msgs
VARIABLES
  learned,   \* [Nodes -> [Ids -> SUBSET Msgs]]
  released   \* ids for which the promise has ended

vars == <<learned, released>>

Init ==
  /\ learned = [n \in Nodes |-> [id \in Ids |-> {}]]
  /\ released = {}

Learn(n, id, m) ==
  /\ id \notin released => \A k \in Nodes : learned[k][id] \subseteq {m}
  /\ learned' = [learned EXCEPT ![n][id] = @ \cup {m}]
  /\ UNCHANGED released

Release(id) == released' = released \cup {id}

Forget(n, id, m) == Release(id) /\ learned' = [learned EXCEPT ![n][id] = @ \ {m}]

Next ==
  \E id \in Ids :
    \/ \E n \in Nodes, m \in Msgs : Learn(n, id, m) \/ Forget(n, id, m)
    \/ Release(id) /\ UNCHANGED learned

Spec == Init /\ [][Next]_vars
=============================================================================
