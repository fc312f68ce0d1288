--------------------------- MODULE MCInstantSend ---------------------------
(***************************************************************************)
(* Transactions t1 and t2 spend the same coin, t3 spends an output of t1;  *)
(* t1 and t3 get locks.  Block a1 holds t1, block b1 holds t2.             *)
(***************************************************************************)
EXTENDS InstantSend, TLC

CONSTANTS t1, t2, t3, g, a1, b1, coin

MCInputs == (t1 :> {[hash |-> coin, n |-> 0]})
         @@ (t2 :> {[hash |-> coin, n |-> 0]})
         @@ (t3 :> {[hash |-> t1, n |-> 0]})
MCTxAncestors == (t1 :> {}) @@ (t2 :> {}) @@ (t3 :> {t1})
MCLocks == {[txid |-> t, cycle |-> 0] : t \in {t1, t3}}
MCLock == {[txid |-> t1, cycle |-> 0]}
MCAncestors == (g :> {g}) @@ (a1 :> {g, a1}) @@ (b1 :> {g, b1})
MCTxOf == (g :> None) @@ (a1 :> t1) @@ (b1 :> t2)

\* bound: the mempool evicts a transaction, or the child has a lock; a state
\* with both is checked and not continued
EvictionOrChild == evictions = 0 \/ \A l \in Locks : l.txid = t3 => ~Held(l)
=============================================================================
