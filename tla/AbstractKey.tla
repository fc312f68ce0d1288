---------------------------- MODULE AbstractKey ----------------------------
(***************************************************************************)
(* What a DKG session promises: the commitments that are around make one   *)
(* key at most, once and for good, and a node that takes a key from the    *)
(* session takes that one, not before it is made.                          *)
(***************************************************************************)
CONSTANTS Nodes, Keys
VARIABLES
  made,    \* the keys that enough members have committed to
  taken    \* [Nodes -> SUBSET Keys]

Init == made = {} /\ taken = [n \in Nodes |-> {}]

Make == made = {} /\ made' \in {{k} : k \in Keys} /\ UNCHANGED taken

Take(n) ==
  /\ made # {} /\ taken[n] = {}
  /\ taken' = [taken EXCEPT ![n] = made]
  /\ UNCHANGED made

Next == Make \/ \E n \in Nodes : Take(n)

Spec == Init /\ [][Next]_<<made, taken>>
=============================================================================
