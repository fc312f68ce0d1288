---------------------------- MODULE InstantSend ----------------------------
(***************************************************************************)
(* One node's CInstantSendManager (instantsend/instantsend.cpp) and its    *)
(* database CInstantSendDb (instantsend/db.cpp), with the part of the      *)
(* mempool and of chain activation that asks them or that they steer.      *)
(*                                                                         *)
(* An ISLOCK [txid, cycle] carries a valid recovered signature.  Three     *)
(* threads meet here: the worker "isman" that processes ISLOCKs, the       *)
(* validation code under cs_main (mempool, blocks, ChainLock enforcement), *)
(* and the scheduler, which delivers validation's notifications in order,  *)
(* later.  The node is synced, the spork is on, and it is no masternode:   *)
(* no signer is connected.                                                 *)
(***************************************************************************)
EXTENDS Integers, FiniteSets, Sequences

CONSTANTS
  Txs, Inputs,               \* transactions; the outpoints [hash, n] each spends
  TxAncestors,               \* the transactions each builds on
  Locks,                     \* the ISLOCKs [txid, cycle] the quorums create
  Blocks, Genesis, Ancestors, \* the block tree: GetAncestor, with the block itself
  TxOf,                      \* a block's transaction beside the coinbase, if it has one
  MaxQueue,                  \* bound on undelivered notifications
  MaxEvictions,              \* bound on transactions that leave the mempool for age or size
  None

Outpoints == UNION {Inputs[t] : t \in Txs}
Parents(t) == {o.hash : o \in Inputs[t]} \cap Txs
Conflicts(t, u) == t # u /\ Inputs[t] \cap Inputs[u] # {}
Height(b) == Cardinality(Ancestors[b]) - 1

\* Locks of conflicting transactions do not both exist: NoConflictingRecSigs of
\* QuorumSigning, for the request ids of the inputs.
ASSUME LocksAssumption ==
  /\ IsFiniteSet(Txs) /\ IsFiniteSet(Locks)
  /\ Locks \subseteq [txid : Txs, cycle : Nat]
  /\ TxAncestors \in [Txs -> SUBSET Txs]
  /\ \A t \in Txs : Parents(t) \subseteq TxAncestors[t]
  /\ \A l, m \in Locks : ~Conflicts(l.txid, m.txid)

ASSUME BlocksAssumption ==
  /\ Genesis \in Blocks /\ Ancestors \in [Blocks -> SUBSET Blocks]
  /\ Ancestors[Genesis] = {Genesis}
  /\ \A b \in Blocks : b \in Ancestors[b] /\ Height(b) \in Nat
  /\ \A b \in Blocks : \A n \in 0 .. Height(b) : \E a \in Ancestors[b] : Height(a) = n
  /\ \A b \in Blocks : \A a \in Ancestors[b] \ {b} : Height(a) < Height(b)
  /\ TxOf \in [Blocks -> Txs \cup {None}]
  /\ MaxQueue \in Nat /\ MaxEvictions \in Nat
  /\ None \notin Txs \cup Blocks \cup Locks

VARIABLES
  mempool,      \* transactions in it
  tip, failed,  \* active chain; blocks marked BLOCK_FAILED_VALID
  connecting,   \* the block between ConnectBlock and ConnectTip, which hold cs_main and mempool.cs
  chainLock,    \* the best ChainLock's block
  notified,     \* lastNotifyChainLockBlockIndex
  queue,        \* notifications not delivered yet
  txindex,      \* the block -txindex knows a transaction in
  pending,      \* pendingInstantSendLocks
  parked,       \* pendingNoTxInstantSendLocks
  info,         \* nonLockedTxs
  byOutpoint,   \* nonLockedTxsByOutpoints
  batch, work,  \* the worker: locks it has taken, and its step with one of them
  stored,       \* "is_i", "is_tx", "is_in"
  mined,        \* "is_m": <<height, lock>>
  archived,     \* "is_a2"
  remembered,   \* confirmed locks that the caches still answer for
  confirmed,    \* best_confirmed_height
  evictions,
  late          \* history: locks written against the block that is being connected

chain == <<tip, failed, connecting, chainLock, notified>>
nonLocked == <<info, byOutpoint>>
worker == <<batch, work>>
db == <<stored, mined, archived, remembered, confirmed>>
vars == <<mempool, chain, queue, txindex, pending, parked, nonLocked, worker, db, evictions, late>>

Idle == [pc |-> "idle"]
Infos == [tx : BOOLEAN, mined : Blocks \cup {None}, children : SUBSET Txs]
Events ==
  [on : {"added"}, of : Txs]
  \cup [on : {"removed"}, of : SUBSET Txs]
  \cup [on : {"connected", "disconnected", "chainlock"}, of : Blocks]
Works ==
  {Idle}
  \cup [pc : {"write"}, lock : Locks, found : BOOLEAN, mined : Blocks \cup {None}]
  \cup [pc : {"resolve", "mempool"}, lock : Locks, found : BOOLEAN]
  \cup [pc : {"invalidate"}, lock : Locks, found : BOOLEAN, known : BOOLEAN, blocks : SUBSET Blocks]

TypeOK ==
  /\ mempool \subseteq Txs
  /\ tip \in Blocks /\ failed \subseteq Blocks /\ connecting \in Blocks \cup {None}
  /\ chainLock \in Blocks \cup {None} /\ notified \in Blocks \cup {None}
  /\ queue \in Seq(Events)
  /\ txindex \in [Txs -> Blocks \cup {None}]
  /\ pending \subseteq Locks /\ parked \subseteq Locks
  /\ info \in [Txs -> Infos \cup {None}] /\ byOutpoint \in [Outpoints -> Txs \cup {None}]
  /\ batch \subseteq Locks /\ work \in Works
  /\ stored \subseteq Locks /\ archived \subseteq Locks /\ remembered \subseteq Locks
  /\ mined \subseteq Nat \X Locks /\ confirmed \in Nat
  /\ evictions \in 0 .. MaxEvictions /\ late \subseteq Locks

Init ==
  /\ mempool = {} /\ tip = Genesis /\ failed = {} /\ connecting = None /\ chainLock = None /\ notified = None
  /\ queue = << >> /\ txindex = [t \in Txs |-> None]
  /\ pending = {} /\ parked = {}
  /\ info = [t \in Txs |-> None] /\ byOutpoint = [o \in Outpoints |-> None]
  /\ batch = {} /\ work = Idle
  /\ stored = {} /\ mined = {} /\ archived = {} /\ remembered = {} /\ confirmed = 0
  /\ evictions = 0 /\ late = {}

-----------------------------------------------------------------------------
(***************************************************************************)
(* CInstantSendDb: every method holds cs_db.  A stored lock is found by    *)
(* its hash, its transaction and each of its inputs.                       *)
(***************************************************************************)

KnownInstantSendLock(l) == l \in stored \cup archived

\* GetInstantSendLockByTxid, GetInstantSendLockByInput
LocksByTxid(t) == {l \in stored \cup remembered : l.txid = t}
ConflictingLocks(t) == {l \in stored \cup remembered : Conflicts(l.txid, t)}
IsLocked(t) == LocksByTxid(t) # {}

\* the stored locks that build on transaction t through locked transactions
Chained(t) ==
  LET closed(S) == \A m \in stored : Parents(m.txid) \cap ({t} \cup {l.txid : l \in S}) # {} => m \in S
  IN  {m \in stored : \A S \in SUBSET stored : closed(S) => m \in S}

\* mutant: the locks that build on it stay
RemoveOnlyThese(S) ==
  /\ stored' = stored \ S /\ archived' = archived \cup S /\ remembered' = remembered \ S

RemoveChainedInstantSendLocks(S) ==
  LET removed == S \cup UNION {Chained(l.txid) : l \in S}
  IN  /\ stored' = stored \ removed
      /\ archived' = archived \cup removed
      /\ remembered' = remembered \ removed

\* The caches keep what is confirmed.  The archive is cleared 100 blocks later,
\* deeper than the chains modelled here.
RemoveConfirmedInstantSendLocks(height) ==
  LET keys == {k \in mined : k[1] <= height}
      locks == {k[2] : k \in keys}
  IN  IF height <= confirmed
        THEN UNCHANGED db
        ELSE /\ confirmed' = height
             /\ mined' = mined \ keys
             /\ stored' = stored \ locks
             /\ remembered' = remembered \cup (stored \cap locks)
             /\ archived' = archived \cup locks

MinedKeys(b) == {<<Height(b), l>> : l \in {m \in stored \cup remembered : m.txid = TxOf[b]}}

\* an LRU cache makes room
EvictFromCache(l) ==
  /\ l \in remembered
  /\ remembered' = remembered \ {l}
  /\ UNCHANGED <<mempool, chain, queue, txindex, pending, parked, nonLocked, worker,
                 stored, mined, archived, confirmed, evictions, late>>

-----------------------------------------------------------------------------
(***************************************************************************)
(* The transactions that are neither InstantSend- nor ChainLocked.         *)
(***************************************************************************)

\* mutant: the lock leaves the one map and does not reach the other
UnparkDrops(t) ==
  LET waiting == {l \in parked : l.txid = t}
  IN  /\ UNCHANGED pending
      /\ IF waiting = {} THEN UNCHANGED parked ELSE \E l \in waiting : parked' = parked \ {l}

\* "we received an islock earlier, let's put it back into pending"
Unpark(t) ==
  LET waiting == {l \in parked : l.txid = t}
  IN  IF waiting = {}
        THEN UNCHANGED <<parked, pending>>
        ELSE \E l \in waiting : parked' = parked \ {l} /\ pending' = pending \cup {l}

\* An entry that a child made gets neither the transaction nor its outpoints,
\* and an outpoint stays with the transaction that was first.
AddNonLockedTx(t, b) ==
  LET entry(u) == IF info[u] = None THEN [tx |-> FALSE, mined |-> None, children |-> {}] ELSE info[u]
  IN  IF info[t] # None
        THEN info' = [info EXCEPT ![t].mined = b] /\ UNCHANGED byOutpoint
        ELSE /\ info' = [u \in Txs |->
                  IF u = t THEN [tx |-> TRUE, mined |-> b, children |-> {}]
                  ELSE IF u \in Parents(t) THEN [entry(u) EXCEPT !.children = @ \cup {t}]
                  ELSE info[u]]
             /\ byOutpoint' = [o \in Outpoints |->
                  IF o \in Inputs[t] /\ byOutpoint[o] = None THEN t ELSE byOutpoint[o]]

RemoveNonLockedTx(T) ==
  LET gone == {t \in T : info[t] # None}
      full == {t \in gone : info[t].tx}
      left(t) == info[t].children \ full
  IN  /\ info' = [t \in Txs |->
           IF t \in gone THEN None
           ELSE IF info[t] = None \/ info[t].children \cap full = {} THEN info[t]
           ELSE IF ~info[t].tx /\ left(t) = {} THEN None
           ELSE [info[t] EXCEPT !.children = left(t)]]
      /\ byOutpoint' = [o \in Outpoints |->
           IF \E t \in full : o \in Inputs[t] THEN None ELSE byOutpoint[o]]

-----------------------------------------------------------------------------
(***************************************************************************)
(* Validation, under cs_main.                                              *)
(***************************************************************************)

ActiveTxs == {TxOf[b] : b \in Ancestors[tip]} \ {None}
HasChainLock(b) == chainLock # None /\ b \in Ancestors[chainLock]
HasConflictingChainLock(b) ==
  /\ chainLock # None
  /\ Height(b) <= Height(chainLock) /\ b \notin Ancestors[chainLock]

Notify(events) == queue' = queue \o events /\ Len(queue) < MaxQueue
Event(on, of) == [on |-> on, of |-> of]
\* all that one call removes
RemovedEvents(T) == IF T = {} THEN << >> ELSE <<Event("removed", T)>>

\* removeRecursive: with all that build on them
WithDescendants(T) == {u \in mempool : u \in T \/ TxAncestors[u] \cap T # {}}
MempoolConflicts(t) == {u \in mempool : Conflicts(t, u)}
IsWaitingForTx(t) == \E l \in parked : l.txid = t

\* What conflicts with a transaction a lock waits for goes first, whether or
\* not the transaction is then accepted.
AcceptToMemoryPool(t) ==
  LET conflicting == MempoolConflicts(t)
      removed == WithDescendants(conflicting)
      accepted == /\ Parents(t) \subseteq (mempool \ removed) \cup ActiveTxs
                  /\ \A u \in ActiveTxs : ~Conflicts(t, u)
  IN  /\ connecting = None
      /\ t \notin mempool \cup ActiveTxs
      /\ ConflictingLocks(t) = {}
      /\ conflicting # {} => IsWaitingForTx(t)
      /\ accepted \/ conflicting # {}
      /\ mempool' = (mempool \ removed) \cup (IF accepted THEN {t} ELSE {})
      /\ Notify(RemovedEvents(removed) \o (IF accepted THEN <<Event("added", t)>> ELSE << >>))
      /\ UNCHANGED <<chain, txindex, pending, parked, nonLocked, worker, db, evictions, late>>

\* TrimToSize: the memory limit
EvictFromMempool(t) ==
  /\ connecting = None /\ t \in mempool /\ evictions < MaxEvictions
  /\ evictions' = evictions + 1
  /\ mempool' = mempool \ WithDescendants({t})
  /\ Notify(RemovedEvents(WithDescendants({t})))
  /\ UNCHANGED <<chain, txindex, pending, parked, nonLocked, worker, db, late>>

\* m_chainstate_mutex: no block is connected while InvalidateBlock runs
Invalidating == work.pc = "invalidate"

\* mutant: a ChainLocked block leaves the locks it overrides
ConnectBlockKeepsLocks(b) ==
  /\ connecting = None /\ ~Invalidating
  /\ b # Genesis /\ Ancestors[b] \ {b} = Ancestors[tip]
  /\ b \notin failed /\ ~HasConflictingChainLock(b)
  /\ Len(queue) < MaxQueue
  /\ IF (TxOf[b] # None => ConflictingLocks(TxOf[b]) = {}) \/ HasChainLock(b)
       THEN connecting' = b /\ UNCHANGED failed
       ELSE failed' = failed \cup {b} /\ UNCHANGED connecting
  /\ UNCHANGED <<mempool, tip, chainLock, notified, queue, txindex, pending, parked, nonLocked,
                 worker, db, evictions, late>>

\* ActivateBestChain up to the check of one block.  A lock on other transactions
\* invalidates the block, unless a ChainLock overrides the lock.
ConnectBlock(b) ==
  LET conflicting == IF TxOf[b] = None THEN {} ELSE ConflictingLocks(TxOf[b])
  IN  /\ connecting = None /\ ~Invalidating
      /\ b # Genesis /\ Ancestors[b] \ {b} = Ancestors[tip]
      /\ b \notin failed /\ ~HasConflictingChainLock(b)
      /\ Len(queue) < MaxQueue
      /\ IF conflicting = {} \/ HasChainLock(b)
           THEN connecting' = b /\ UNCHANGED failed
           ELSE failed' = failed \cup {b} /\ UNCHANGED connecting
      /\ IF conflicting # {} /\ HasChainLock(b)
           THEN RemoveChainedInstantSendLocks(conflicting) /\ UNCHANGED <<mined, confirmed>>
           ELSE UNCHANGED db
      /\ UNCHANGED <<mempool, tip, chainLock, notified, queue, txindex, pending, parked,
                     nonLocked, worker, evictions, late>>

\* ConnectTip after ConnectBlock, with removeForBlock.  cs_main and mempool.cs
\* are held since the check, cs_db is not.
ConnectTip ==
  LET b == connecting
      removed == IF TxOf[b] = None THEN {} ELSE WithDescendants(MempoolConflicts(TxOf[b]))
  IN  /\ b # None
      /\ tip' = b /\ connecting' = None /\ late' = {}
      /\ mempool' = mempool \ ({TxOf[b]} \cup removed)
      /\ Notify(RemovedEvents(removed) \o <<Event("connected", b)>>)
      /\ UNCHANGED <<failed, chainLock, notified, txindex, pending, parked, nonLocked, worker,
                     db, evictions>>

\* the blocks from b down to the one above a
Branch(a, b) == [n \in 1 .. Height(b) - Height(a) |->
                   CHOOSE c \in Ancestors[b] : Height(c) = Height(b) + 1 - n]

\* DisconnectTip down to block a, then MaybeUpdateMempoolForReorg: what
\* conflicts with no lock returns to the mempool, parents first; the rest goes
\* with all that builds on it
Disconnect(a) ==
  LET blocks == Branch(a, tip)
      txs == {TxOf[b] : b \in Ancestors[tip] \ Ancestors[a]} \ {None}
      refused == {t \in txs : ConflictingLocks(t) # {}}
      returned == {t \in txs \ refused : TxAncestors[t] \cap refused = {}}
      removed == WithDescendants(txs \ returned)
  IN  /\ connecting = None
      /\ a \in Ancestors[tip] \ {tip} /\ tip' = a
      /\ mempool' = (mempool \ removed) \cup returned
      /\ \E back \in [1 .. Cardinality(returned) -> returned] :
           /\ \A m, n \in DOMAIN back : m < n => back[n] \notin TxAncestors[back[m]] \cup {back[m]}
           /\ Notify([n \in DOMAIN blocks |-> Event("disconnected", blocks[n])]
                     \o [n \in DOMAIN back |-> Event("added", back[n])]
                     \o RemovedEvents(removed))

-----------------------------------------------------------------------------
(***************************************************************************)
(* ChainLocks: the best one arrives; EnforceBlock disconnects what         *)
(* conflicts and clears failure marks; NotifyChainLock (module ChainLocks).*)
(***************************************************************************)

NewChainLock(b) ==
  /\ b # Genesis
  /\ chainLock # None => chainLock # b /\ chainLock \in Ancestors[b]
  /\ chainLock' = b
  /\ UNCHANGED <<mempool, tip, failed, connecting, notified, queue, txindex, pending, parked, nonLocked,
                 worker, db, evictions, late>>

OnLine(b, c) == b \in Ancestors[c] \/ c \in Ancestors[b]

\* mutant: what was invalidated on the locked chain stays invalid
NothingReconsidered == failed

\* ResetBlockFailureFlags
Reconsidered == {b \in failed : ~OnLine(b, chainLock)}

EnforceBlock ==
  LET fork == {a \in Ancestors[tip] \cap Ancestors[chainLock] :
                 Ancestors[tip] \cap Ancestors[chainLock] \subseteq Ancestors[a]}
  IN  /\ chainLock # None /\ connecting = None /\ ~Invalidating
      /\ failed' = Reconsidered
      /\ IF tip \in Ancestors[chainLock] \/ chainLock \in Ancestors[tip]
           THEN failed' # failed /\ UNCHANGED <<mempool, tip, queue>>
           ELSE \E a \in fork : Disconnect(a)
      /\ UNCHANGED <<connecting, chainLock, notified, txindex, pending, parked, nonLocked, worker, db,
                     evictions, late>>

NotifyChainLock ==
  /\ connecting = None
  /\ chainLock # None /\ chainLock \in Ancestors[tip] /\ notified # chainLock
  /\ notified' = chainLock
  /\ Notify(<<Event("chainlock", chainLock)>>)
  /\ UNCHANGED <<mempool, tip, failed, connecting, chainLock, txindex, pending, parked, nonLocked,
                 worker, db, evictions, late>>

-----------------------------------------------------------------------------
(***************************************************************************)
(* The scheduler thread delivers the notifications.                        *)
(***************************************************************************)

Delivers(on) == queue # << >> /\ Head(queue).on = on

\* with RemoveConflictedTx; rest is what is still to be delivered
RemoveMempoolConflictsForLock(l, rest) ==
  LET conflicting == MempoolConflicts(l.txid)
      removed == WithDescendants(conflicting)
  IN  /\ connecting = None
      /\ mempool' = mempool \ removed
      /\ queue' = rest \o RemovedEvents(removed)
      /\ RemoveNonLockedTx(conflicting)

TransactionAddedToMempool ==
  LET t == Head(queue).of
  IN  /\ Delivers("added")
      /\ Unpark(t)
      /\ IF IsWaitingForTx(t)
           THEN \E l \in parked \ parked' : RemoveMempoolConflictsForLock(l, Tail(queue))
           ELSE AddNonLockedTx(t, None) /\ queue' = Tail(queue) /\ UNCHANGED mempool
      /\ UNCHANGED <<chain, txindex, worker, db, evictions, late>>

TransactionRemovedFromMempool ==
  /\ Delivers("removed")
  /\ queue' = Tail(queue)
  /\ RemoveChainedInstantSendLocks(UNION {LocksByTxid(t) : t \in Head(queue).of})
  /\ UNCHANGED <<mempool, chain, txindex, pending, parked, nonLocked, worker, mined,
                 confirmed, evictions, late>>

\* With WriteBlockInstantSendLocks; the transaction index follows the same
\* notification.
BlockConnected ==
  LET b == Head(queue).of
      t == TxOf[b]
  IN  /\ Delivers("connected")
      /\ queue' = Tail(queue)
      /\ mined' = mined \cup MinedKeys(b)
      /\ IF t = None THEN UNCHANGED <<txindex, pending, parked, nonLocked>>
         ELSE /\ txindex' = [txindex EXCEPT ![t] = b]
              /\ IF ~IsLocked(t) /\ ~HasChainLock(b)
                   THEN AddNonLockedTx(t, b) /\ Unpark(t)
                   ELSE RemoveNonLockedTx({t}) /\ UNCHANGED <<pending, parked>>
      /\ UNCHANGED <<mempool, chain, worker, stored, archived, remembered, confirmed, evictions, late>>

\* RemoveBlockInstantSendLocks
BlockDisconnected ==
  /\ Delivers("disconnected")
  /\ queue' = Tail(queue)
  /\ mined' = mined \ MinedKeys(Head(queue).of)
  /\ UNCHANGED <<mempool, chain, txindex, pending, parked, nonLocked, worker, stored, archived,
                 remembered, confirmed, evictions, late>>

\* Locked transactions that a block confirms are forgotten, and so are the
\* tracked ones below it.
HandleFullyConfirmedBlock ==
  LET b == Head(queue).of
  IN  /\ Delivers("chainlock")
      /\ queue' = Tail(queue)
      /\ RemoveConfirmedInstantSendLocks(Height(b))
      /\ RemoveNonLockedTx({t \in Txs : info[t] # None /\ info[t].mined \in Ancestors[b]})
      /\ UNCHANGED <<mempool, chain, txindex, pending, parked, worker, evictions, late>>

-----------------------------------------------------------------------------
(***************************************************************************)
(* ISLOCKs: the message thread and the worker "isman".                     *)
(***************************************************************************)

ReceiveLock(l) ==
  /\ l \notin pending \cup parked /\ ~KnownInstantSendLock(l)
  /\ pending' = pending \cup {l}
  /\ UNCHANGED <<mempool, chain, queue, txindex, parked, nonLocked, worker, db, evictions, late>>

\* ProcessPendingInstantSendLocks takes up to 32 and verifies them against the
\* quorums of now, then of one cycle ago.  What fits neither is dropped, and
\* so is the rest when a quorum is not found.
TakePending ==
  /\ work = Idle /\ batch = {} /\ pending # {}
  /\ batch' \in SUBSET pending /\ pending' = {}
  /\ UNCHANGED <<mempool, chain, queue, txindex, parked, nonLocked, work, db, evictions, late>>

\* ProcessInstantSendLock up to the lookup of the transaction
Lookup(l) ==
  LET block == IF l.txid \in mempool THEN None ELSE txindex[l.txid]
      found == l.txid \in mempool \/ block # None
  IN  /\ connecting = None /\ work = Idle /\ l \in batch
      /\ batch' = batch \ {l}
      /\ work' = IF KnownInstantSendLock(l) \/ IsLocked(l.txid) \/ (block # None /\ HasChainLock(block))
                   THEN Idle
                   ELSE [pc |-> "write", lock |-> l, found |-> found, mined |-> block]
      /\ UNCHANGED <<mempool, chain, queue, txindex, pending, parked, nonLocked, db, evictions, late>>

\* WriteNewInstantSendLock and WriteInstantSendLockMined, or the map of the
\* locks without a transaction; then RemoveNonLockedTx
WriteOrPark ==
  LET l == work.lock
  IN  /\ work.pc = "write"
      /\ work' = [pc |-> "resolve", lock |-> l, found |-> work.found]
      /\ IF work.found
           THEN /\ stored' = stored \cup {l}
                /\ mined' = mined \cup (IF work.mined = None THEN {} ELSE {<<Height(work.mined), l>>})
                /\ UNCHANGED parked
           ELSE parked' = parked \cup {l} /\ UNCHANGED <<stored, mined>>
      /\ RemoveNonLockedTx({l.txid})
      /\ late' = IF work.found /\ connecting # None /\ TxOf[connecting] # None /\ Conflicts(l.txid, TxOf[connecting])
                   THEN late \cup {l} ELSE late
      /\ UNCHANGED <<mempool, chain, queue, txindex, pending, batch, archived, remembered,
                     confirmed, evictions>>

\* mutant: the mempool keeps what conflicts with a lock
AfterResolveIdle == Idle

AfterResolve == IF work.found THEN [pc |-> "mempool", lock |-> work.lock, found |-> TRUE] ELSE Idle

\* mutant: also those that are not mined
TrackedConflicts(l) ==
  {u \in Txs \ {l.txid} :
     /\ \E o \in Inputs[l.txid] : byOutpoint[o] = u
     /\ info[u] # None /\ info[u].tx}

\* the mined transactions the node knows to conflict with the lock
MinedConflicts(l) ==
  {u \in Txs \ {l.txid} :
     /\ \E o \in Inputs[l.txid] : byOutpoint[o] = u
     /\ info[u] # None /\ info[u].tx /\ info[u].mined # None}

\* ResolveBlockConflicts, up to InvalidateBlock
ResolveBlockConflicts ==
  LET l == work.lock
      blocks == {info[u].mined : u \in MinedConflicts(l)}
      lockedConflict == \E b \in blocks : HasChainLock(b)
  IN  /\ work.pc = "resolve"
      /\ IF lockedConflict
           THEN RemoveChainedInstantSendLocks({l}) /\ UNCHANGED <<mined, confirmed, nonLocked>>
           ELSE RemoveNonLockedTx(MinedConflicts(l)) /\ UNCHANGED db
      /\ work' = IF lockedConflict \/ blocks = {} THEN AfterResolve
                 ELSE [pc |-> "invalidate", lock |-> l, found |-> work.found,
                       known |-> l \notin parked, blocks |-> blocks]
      /\ UNCHANGED <<mempool, chain, queue, txindex, pending, parked, batch, evictions, late>>

\* InvalidateBlock, one tip at a time, and ResetBlockFailureFlags when the
\* transaction of the lock is not known
InvalidateBlock(b) ==
  /\ connecting = None /\ Invalidating /\ b \in work.blocks
  /\ IF b \in Ancestors[tip]
       THEN /\ \E a \in Ancestors[tip] : Height(a) = Height(tip) - 1 /\ Disconnect(a)
            /\ failed' = failed \cup {tip}
            /\ UNCHANGED work
       ELSE /\ failed' = IF work.known THEN failed \cup {b} ELSE {c \in failed : ~OnLine(b, c)}
            /\ work' = IF work.blocks = {b} THEN AfterResolve
                       ELSE [work EXCEPT !.blocks = @ \ {b}]
            /\ UNCHANGED <<mempool, tip, queue>>
  /\ UNCHANGED <<connecting, chainLock, notified, txindex, pending, parked, nonLocked, batch, db,
                 evictions, late>>

RemoveMempoolConflicts ==
  /\ work.pc = "mempool"
  /\ RemoveMempoolConflictsForLock(work.lock, queue)
  /\ work' = Idle
  /\ UNCHANGED <<chain, txindex, pending, parked, batch, db, evictions, late>>

-----------------------------------------------------------------------------

Validation ==
  \/ \E t \in Txs : AcceptToMemoryPool(t) \/ EvictFromMempool(t)
  \/ \E b \in Blocks : ConnectBlock(b) \/ NewChainLock(b)
  \/ ConnectTip
  \/ EnforceBlock
  \/ NotifyChainLock

Deliver ==
  \/ TransactionAddedToMempool
  \/ TransactionRemovedFromMempool
  \/ BlockConnected
  \/ BlockDisconnected
  \/ HandleFullyConfirmedBlock

Worker ==
  \/ TakePending
  \/ \E l \in Locks : Lookup(l)
  \/ WriteOrPark
  \/ ResolveBlockConflicts
  \/ \E b \in Blocks : InvalidateBlock(b)
  \/ RemoveMempoolConflicts

Next ==
  \/ Validation
  \/ Deliver
  \/ Worker
  \/ \E l \in Locks : ReceiveLock(l) \/ EvictFromCache(l)

Spec == Init /\ [][Next]_vars

\* EnforceBestChainLock, and ActivateBestChain of the blocks a ChainLock is on
Enforce == EnforceBlock \/ \E b \in Blocks : HasChainLock(b) /\ ConnectBlock(b)

\* The scheduler and the worker run, a block that was checked is connected, and
\* EnforceBestChainLock is retried.
FairSpec == Spec /\ WF_vars(Deliver) /\ WF_vars(Worker) /\ WF_vars(ConnectTip) /\ WF_vars(Enforce)

-----------------------------------------------------------------------------

\* Once the worker is done with a lock, no transaction in the mempool conflicts
\* with it, and none comes back: not with a block that is disconnected, not
\* with a transaction that arrives while the lock is processed.
MempoolRespectsLocks ==
  \A l \in stored, t \in mempool :
    Conflicts(l.txid, t) => work.pc \in {"resolve", "invalidate", "mempool"} /\ work.lock = l

\* A lock that was overridden, removed or confirmed is archived and is not
\* stored again: KnownInstantSendLock, asked by the one worker that stores locks
\* (part of the invariant behind NoLockLost).
ArchivedStaysOut == stored \cap archived = {}

\* A block that is connected conflicts with no lock: the lock wins, or a
\* ChainLock does and the lock is gone, with all that builds on it; unless the
\* worker, which needs cs_db only, wrote the lock between the check of
\* ConnectBlock and the new tip.
ConnectedRespectsLocks ==
  [][tip' # tip /\ tip \in Ancestors[tip'] /\ TxOf[tip'] # None =>
       \A l \in stored : Conflicts(l.txid, TxOf[tip']) => l \in late]_vars

\* A lock that is removed, for whatever reason but its confirmation, takes the
\* locks along that build on it.
ChildrenGoToo ==
  [][\A l \in stored \ stored', m \in stored \cap stored' :
       l.txid \in Parents(m.txid) => l \in remembered']_vars

\* where a lock the node was given may be
Held(l) ==
  \/ l \in pending \cup batch \cup parked \cup stored \cup archived
  \/ work # Idle /\ work.lock = l

\* A lock is let go only when it waits for its verification and fails it, or
\* when another lock, or a ChainLock, does its work.
NoLockLost ==
  [][\A l \in Locks \ pending : Held(l) /\ ~Held(l)' =>
       IsLocked(l.txid) \/ \E b \in Blocks : TxOf[b] = l.txid /\ HasChainLock(b)]_vars

\* A ChainLocked block ends in the active chain, although InstantSend may be
\* about to invalidate it for a lock: unless a later ChainLock replaces it.
ChainLockPrevails == chainLock # None ~> chainLock \in Ancestors[tip]

\* "Lets first collect all non-locked TXs which conflict with the given ISLOCK"
CollectsConflicts ==
  [][work.pc = "resolve" /\ work'.pc # "resolve" /\ queue = << >> =>
       \A b \in Ancestors[tip] :
         TxOf[b] # None /\ Conflicts(work.lock.txid, TxOf[b]) /\ ~IsLocked(TxOf[b])
           => work'.pc = "invalidate" \/ HasChainLock(b)]_vars

=============================================================================
