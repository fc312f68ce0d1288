------------------------- MODULE InstantSendProofs -------------------------
(***************************************************************************)
(* For any transactions, locks, block tree and bounds: types; a lock that  *)
(* is archived stays out; the mempool respects the locks, and so does a    *)
(* block that joins the chain, but for those written since its check; a    *)
(* lock goes with its children; no lock is lost.                           *)
(***************************************************************************)
EXTENDS InstantSend, FiniteSetTheorems, TLAPS

-----------------------------------------------------------------------------
(***************************************************************************)
(* Types.                                                                  *)
(***************************************************************************)

LEMMA HeightType ==
  ASSUME NEW b \in Blocks
  PROVE  Height(b) \in Nat
  BY BlocksAssumption DEF Height

LEMMA AncestorType ==
  ASSUME NEW b \in Blocks, NEW a \in Ancestors[b]
  PROVE  a \in Blocks
  BY BlocksAssumption

\* An appended event list leaves the queue a queue.
LEMMA NotifyType ==
  ASSUME queue \in Seq(Events), NEW e \in Seq(Events), Notify(e)
  PROVE  queue' \in Seq(Events)
  BY DEF Notify

LEMMA NotifyBothType ==
  ASSUME queue \in Seq(Events), NEW d \in Seq(Events), NEW e \in Seq(Events), Notify(d \o e)
  PROVE  queue' \in Seq(Events)
  <1>1. d \o e \in Seq(Events)
    OBVIOUS
  <1>. QED  BY <1>1, NotifyType

LEMMA RemovedEventsType ==
  ASSUME NEW T \in SUBSET Txs
  PROVE  RemovedEvents(T) \in Seq(Events)
  <1>1. [on |-> "removed", of |-> T] \in Events
    BY DEF Events
  <1>. QED  BY <1>1 DEF RemovedEvents, Event

LEMMA FunctionSeq ==
  ASSUME NEW S, NEW n \in Nat, NEW f \in [1 .. n -> S]
  PROVE  f \in Seq(S)
  OBVIOUS

LEMMA BranchType ==
  ASSUME NEW a \in Blocks, NEW b \in Blocks
  PROVE  Branch(a, b) \in Seq(Blocks)
  <1>1. Height(b) - Height(a) \in Int /\ Height(a) \in Nat /\ Height(b) \in Nat
    BY HeightType
  <1>2. CASE Height(b) - Height(a) \in Nat
    <2>1. ASSUME NEW n \in 1 .. Height(b) - Height(a)
          PROVE  (CHOOSE c \in Ancestors[b] : Height(c) = Height(b) + 1 - n) \in Blocks
      <3>1. Height(b) + 1 - n \in 0 .. Height(b)
        BY <1>1
      <3>2. \E c \in Ancestors[b] : Height(c) = Height(b) + 1 - n
        BY <3>1, BlocksAssumption
      <3>. QED  BY <3>2, AncestorType
    <2>2. Branch(a, b) \in [1 .. Height(b) - Height(a) -> Blocks]
      BY <2>1 DEF Branch
    <2>. QED  BY <2>2, <1>2, FunctionSeq
  <1>3. CASE Height(b) - Height(a) \notin Nat
    <2>1. 1 .. Height(b) - Height(a) = 1 .. 0
      BY <1>1, <1>3
    <2>2. Branch(a, b) \in [1 .. 0 -> Blocks]
      BY <2>1 DEF Branch
    <2>. QED  BY <2>2, FunctionSeq
  <1>. QED  BY <1>2, <1>3

LEMMA DisconnectType ==
  ASSUME TypeOK, NEW a, Disconnect(a)
  PROVE  tip' \in Blocks /\ mempool' \subseteq Txs /\ queue' \in Seq(Events)
  <1> DEFINE blocks == Branch(a, tip)
             txs == {TxOf[b] : b \in Ancestors[tip] \ Ancestors[a]} \ {None}
             refused == {t \in txs : ConflictingLocks(t) # {}}
             returned == {t \in txs \ refused : TxAncestors[t] \cap refused = {}}
             removed == WithDescendants(txs \ returned)
  <1>1. tip \in Blocks /\ a \in Blocks /\ tip' = a
    BY AncestorType DEF Disconnect, TypeOK
  <1>2. txs \subseteq Txs
    BY <1>1, AncestorType, BlocksAssumption
  <1>3. removed \subseteq Txs /\ mempool \subseteq Txs
    BY DEF TypeOK, WithDescendants
  <1>4. mempool' = (mempool \ removed) \cup returned
    BY DEF Disconnect
  <1>5. PICK back \in [1 .. Cardinality(returned) -> returned] :
          Notify([n \in DOMAIN blocks |-> Event("disconnected", blocks[n])]
                 \o [n \in DOMAIN back |-> Event("added", back[n])] \o RemovedEvents(removed))
    BY DEF Disconnect
  <1>6. [n \in DOMAIN blocks |-> Event("disconnected", blocks[n])] \in Seq(Events)
    <2>1. blocks \in Seq(Blocks)
      BY <1>1, BranchType
    <2>2. ASSUME NEW b \in Blocks
          PROVE  Event("disconnected", b) \in Events
      BY DEF Event, Events
    <2>. QED  BY <2>1, <2>2
  <1>7. [n \in DOMAIN back |-> Event("added", back[n])] \in Seq(Events)
    <2>1. IsFiniteSet(returned)
      BY <1>2, LocksAssumption, FS_Subset
    <2>2. Cardinality(returned) \in Nat
      BY <2>1, FS_CardinalityType
    <2>3. ASSUME NEW t \in Txs
          PROVE  Event("added", t) \in Events
      BY DEF Event, Events
    <2>4. [n \in DOMAIN back |-> Event("added", back[n])] \in [1 .. Cardinality(returned) -> Events]
      BY <1>2, <2>3
    <2>. QED  BY <2>2, <2>4, FunctionSeq
  <1>8. RemovedEvents(removed) \in Seq(Events)
    BY <1>3, RemovedEventsType
  <1>9. queue' \in Seq(Events)
    <2> DEFINE first == [n \in DOMAIN blocks |-> Event("disconnected", blocks[n])]
               second == [n \in DOMAIN back |-> Event("added", back[n])]
               third == RemovedEvents(removed)
    <2>1. first \in Seq(Events) /\ second \in Seq(Events) /\ third \in Seq(Events)
      BY <1>6, <1>7, <1>8
    <2>2. Notify(first \o second \o third)
      BY <1>5
    <2> HIDE DEF first, second, third
    <2>3. first \o second \o third \in Seq(Events)
      BY <2>1
    <2>. QED  BY <2>2, <2>3, NotifyType DEF TypeOK
  <1>. QED  BY <1>1, <1>2, <1>3, <1>4, <1>9

\* what is left once an event is delivered
LEMMA QueueFacts ==
  ASSUME queue \in Seq(Events), queue # << >>
  PROVE  Head(queue) \in Events /\ Tail(queue) \in Seq(Events)
  OBVIOUS

LEMMA ForLockType ==
  ASSUME mempool \subseteq Txs, NEW l, NEW rest \in Seq(Events), RemoveMempoolConflictsForLock(l, rest)
  PROVE  mempool' \subseteq Txs /\ queue' \in Seq(Events) /\ \E T : RemoveNonLockedTx(T)
  <1> DEFINE removed == WithDescendants(MempoolConflicts(l.txid))
  <1>1. RemovedEvents(removed) \in Seq(Events)
    BY RemovedEventsType DEF WithDescendants
  <1>2. queue' = rest \o RemovedEvents(removed)
    BY DEF RemoveMempoolConflictsForLock
  <1>3. queue' \in Seq(Events)
    BY <1>1, <1>2
  <1>. QED  BY <1>3 DEF RemoveMempoolConflictsForLock

LEMMA LockType ==
  ASSUME NEW l \in Locks
  PROVE  l.txid \in Txs
  BY LocksAssumption

LEMMA NonLockedType ==
  ASSUME info \in [Txs -> Infos \cup {None}], byOutpoint \in [Outpoints -> Txs \cup {None}],
         \/ \E t \in Txs, b \in Blocks \cup {None} : AddNonLockedTx(t, b)
         \/ \E T : RemoveNonLockedTx(T)
  PROVE  info' \in [Txs -> Infos \cup {None}] /\ byOutpoint' \in [Outpoints -> Txs \cup {None}]
  <1>1. ASSUME NEW t \in Txs, NEW b \in Blocks \cup {None}, AddNonLockedTx(t, b)
        PROVE  info' \in [Txs -> Infos \cup {None}]
    <2>1. CASE info[t] # None
      <3>1. [info[t] EXCEPT !.mined = b] \in Infos
        BY <2>1 DEF Infos
      <3>. QED  BY <1>1, <2>1, <3>1 DEF AddNonLockedTx
    <2>2. CASE info[t] = None
      <3> DEFINE entry(u) == IF info[u] = None THEN [tx |-> FALSE, mined |-> None, children |-> {}] ELSE info[u]
      <3>1. [tx |-> TRUE, mined |-> b, children |-> {}] \in Infos
        BY DEF Infos
      <3>2. \A u \in Txs : entry(u) \in Infos
        BY DEF Infos
      <3>4. info' = [u \in Txs |->
                  IF u = t THEN [tx |-> TRUE, mined |-> b, children |-> {}]
                  ELSE IF u \in Parents(t) THEN [entry(u) EXCEPT !.children = @ \cup {t}]
                  ELSE info[u]]
        BY <1>1, <2>2 DEF AddNonLockedTx
      <3> HIDE DEF entry
      <3>3. \A u \in Txs : [entry(u) EXCEPT !.children = @ \cup {t}] \in Infos
        BY <3>2 DEF Infos
      <3>. QED  BY <3>1, <3>3, <3>4
    <2>. QED  BY <2>1, <2>2
  <1>2. ASSUME NEW t \in Txs, NEW b \in Blocks \cup {None}, AddNonLockedTx(t, b)
        PROVE  byOutpoint' \in [Outpoints -> Txs \cup {None}]
    BY <1>2 DEF AddNonLockedTx
  <1>3. ASSUME NEW T, RemoveNonLockedTx(T)
        PROVE  info' \in [Txs -> Infos \cup {None}]
    <2>1. \A t \in Txs : \A S : info[t] # None => [info[t] EXCEPT !.children = @ \ S] \in Infos
      BY DEF Infos
    <2>2. \A t \in Txs : \A S : info[t] # None => [info[t] EXCEPT !.children = info[t].children \ S] \in Infos
      BY DEF Infos
    <2>. QED  BY <1>3, <2>2 DEF RemoveNonLockedTx
  <1>4. ASSUME NEW T, RemoveNonLockedTx(T)
        PROVE  byOutpoint' \in [Outpoints -> Txs \cup {None}]
    BY <1>4 DEF RemoveNonLockedTx
  <1>. QED  BY <1>1, <1>2, <1>3, <1>4

\* What RemoveChainedInstantSendLocks does to the database.
LEMMA RemoveChainedFacts ==
  ASSUME NEW S, RemoveChainedInstantSendLocks(S)
  PROVE  /\ stored' \subseteq stored \ S
         /\ archived' = archived \cup S \cup (stored \ stored')
         /\ remembered' \subseteq remembered
  <1>1. \A t : Chained(t) \subseteq stored
    BY DEF Chained
  <1>. QED  BY <1>1 DEF RemoveChainedInstantSendLocks

\* What RemoveConfirmedInstantSendLocks does to it.
LEMMA RemoveConfirmedFacts ==
  ASSUME NEW h \in Nat, RemoveConfirmedInstantSendLocks(h)
  PROVE  /\ stored' \subseteq stored /\ mined' \subseteq mined
         /\ archived \subseteq archived' /\ stored \ stored' \subseteq archived'
         /\ \A l \in archived' \ archived : l \notin stored' /\ \E k \in mined : k[2] = l
         /\ remembered' = remembered \cup (stored \ stored')
         /\ confirmed' \in {confirmed, h}
  BY DEF RemoveConfirmedInstantSendLocks, db

LEMMA UnparkFacts ==
  ASSUME NEW t, Unpark(t)
  PROVE  /\ parked' \subseteq parked /\ pending \subseteq pending'
         /\ pending' = pending \cup (parked \ parked')
  BY DEF Unpark

LEMMA ConnectBlockFacts ==
  ASSUME NEW b, ConnectBlock(b)
  PROVE  /\ connecting' \in {connecting, b} /\ failed' \in {failed, failed \cup {b}}
         /\ mined' = mined /\ confirmed' = confirmed
         /\ UNCHANGED <<mempool, tip, chainLock, notified, queue, txindex, pending, parked, nonLocked,
                        worker, evictions, late>>
         /\ \/ UNCHANGED <<stored, archived, remembered>>
            \/ /\ TxOf[b] # None
               /\ RemoveChainedInstantSendLocks(ConflictingLocks(TxOf[b]))
  BY Zenon DEF ConnectBlock, db

\* Next, one disjunct per action: the case split of the inductive step.
LEMMA NextCases ==
  ASSUME Next
  PROVE  \/ \E t \in Txs : AcceptToMemoryPool(t)
         \/ \E t \in Txs : EvictFromMempool(t)
         \/ \E b \in Blocks : ConnectBlock(b)
         \/ ConnectTip
         \/ \E b \in Blocks : NewChainLock(b)
         \/ EnforceBlock \/ NotifyChainLock
         \/ TransactionAddedToMempool \/ TransactionRemovedFromMempool
         \/ BlockConnected \/ BlockDisconnected \/ HandleFullyConfirmedBlock
         \/ TakePending
         \/ \E l \in Locks : Lookup(l)
         \/ WriteOrPark \/ ResolveBlockConflicts
         \/ \E b \in Blocks : InvalidateBlock(b)
         \/ RemoveMempoolConflicts
         \/ \E l \in Locks : ReceiveLock(l)
         \/ \E l \in Locks : EvictFromCache(l)
  BY DEF Next, Validation, Deliver, Worker

\* Every state variable of the manager, its database and the validation state
\* it steers keeps its type.
THEOREM TypeCorrect == Spec => []TypeOK
<1>1. Init => TypeOK
  <2>. SUFFICES ASSUME Init PROVE TypeOK
    OBVIOUS
  <2>1. Genesis \in Blocks /\ MaxEvictions \in Nat
    BY BlocksAssumption
  <2>. QED  BY <2>1 DEF Init, TypeOK, Works, Idle
<1>2. TypeOK /\ [Next]_vars => TypeOK'
  <2>. SUFFICES ASSUME TypeOK, [Next]_vars PROVE TypeOK'
    OBVIOUS
  <2>1. ASSUME NEW t \in Txs, AcceptToMemoryPool(t)
        PROVE  TypeOK'
    <3>1. mempool' \subseteq Txs
      BY <2>1 DEF AcceptToMemoryPool, TypeOK
    <3>2. queue' \in Seq(Events)
      <4>1. RemovedEvents(WithDescendants(MempoolConflicts(t))) \in Seq(Events)
        BY RemovedEventsType DEF WithDescendants, TypeOK
      <4>2. <<Event("added", t)>> \in Seq(Events) /\ << >> \in Seq(Events)
        BY DEF Event, Events
      <4>3. \/ Notify(RemovedEvents(WithDescendants(MempoolConflicts(t))) \o <<Event("added", t)>>)
            \/ Notify(RemovedEvents(WithDescendants(MempoolConflicts(t))) \o << >>)
        BY <2>1, Zenon DEF AcceptToMemoryPool
      <4>. QED  BY <4>1, <4>2, <4>3, NotifyBothType DEF TypeOK
    <3>. QED  BY <2>1, <3>1, <3>2 DEF AcceptToMemoryPool, TypeOK, chain, nonLocked, worker, db
  <2>2. ASSUME NEW t \in Txs, EvictFromMempool(t)
        PROVE  TypeOK'
    <3>1. queue' \in Seq(Events)
      <4>1. WithDescendants({t}) \subseteq Txs
        BY DEF WithDescendants, TypeOK
      <4>2. <<Event("removed", WithDescendants({t}))>> \in Seq(Events)
        BY <4>1 DEF Event, Events
      <4>3. RemovedEvents(WithDescendants({t})) \in Seq(Events)
        BY <4>1, RemovedEventsType
      <4>. QED  BY <2>2, <4>3, NotifyType DEF EvictFromMempool, TypeOK
    <3>. QED  BY <2>2, <3>1, BlocksAssumption DEF EvictFromMempool, TypeOK, chain, nonLocked, worker, db
  <2>3. ASSUME NEW b \in Blocks, ConnectBlock(b)
        PROVE  TypeOK'
    <3>1. stored' \subseteq Locks /\ archived' \subseteq Locks /\ remembered' \subseteq Locks
      <4>1. ConflictingLocks(TxOf[b]) \subseteq Locks
        BY DEF ConflictingLocks, TypeOK
      <4>. QED  BY <2>3, <4>1, ConnectBlockFacts, RemoveChainedFacts DEF TypeOK
    <3>. QED  BY <2>3, <3>1, ConnectBlockFacts DEF TypeOK, nonLocked, worker
  <2>21. ASSUME ConnectTip
         PROVE  TypeOK'
    <3> DEFINE b == connecting
    <3>1. b \in Blocks /\ tip' = b /\ connecting' = None
      BY <2>21 DEF ConnectTip, TypeOK
    <3>4. mempool' \subseteq Txs
      BY <2>21 DEF ConnectTip, TypeOK
    <3>5. queue' \in Seq(Events)
      <4> DEFINE removed == IF TxOf[b] = None THEN {} ELSE WithDescendants(MempoolConflicts(TxOf[b]))
      <4>1. RemovedEvents(removed) \in Seq(Events)
        BY RemovedEventsType DEF WithDescendants, TypeOK
      <4>2. <<Event("connected", b)>> \in Seq(Events)
        BY <3>1 DEF Event, Events
      <4>3. Notify(RemovedEvents(removed) \o <<Event("connected", b)>>)
        BY <2>21 DEF ConnectTip
      <4> HIDE DEF removed
      <4>. QED  BY <4>1, <4>2, <4>3, NotifyBothType DEF TypeOK
    <3>. QED  BY <2>21, <3>1, <3>4, <3>5 DEF ConnectTip, TypeOK, nonLocked, worker, db
  <2>4. ASSUME NEW b \in Blocks, NewChainLock(b)
        PROVE  TypeOK'
    BY <2>4 DEF NewChainLock, TypeOK, nonLocked, worker, db
  <2>5. ASSUME EnforceBlock
        PROVE  TypeOK'
    <3>1. tip' \in Blocks /\ mempool' \subseteq Txs /\ queue' \in Seq(Events)
      BY <2>5, DisconnectType DEF EnforceBlock, TypeOK
    <3>. QED  BY <2>5, <3>1 DEF EnforceBlock, Reconsidered, TypeOK, nonLocked, worker, db
  <2>6. ASSUME NotifyChainLock
        PROVE  TypeOK'
    <3>1. <<Event("chainlock", chainLock)>> \in Seq(Events)
      BY <2>6 DEF NotifyChainLock, TypeOK, Event, Events
    <3>2. queue' \in Seq(Events)
      BY <2>6, <3>1, NotifyType DEF NotifyChainLock, TypeOK
    <3>. QED  BY <2>6, <3>2 DEF NotifyChainLock, TypeOK, nonLocked, worker, db
  <2>7. ASSUME TransactionAddedToMempool
        PROVE  TypeOK'
    <3> DEFINE t == Head(queue).of
    <3>1. Head(queue) \in Events /\ Head(queue).on = "added" /\ Tail(queue) \in Seq(Events)
      BY <2>7, QueueFacts DEF TransactionAddedToMempool, Delivers, TypeOK
    <3>2. t \in Txs
      BY <3>1 DEF Events
    <3>3. parked' \subseteq Locks /\ pending' \subseteq Locks
      BY <2>7, UnparkFacts DEF TransactionAddedToMempool, TypeOK
    <3>4. CASE \E l \in parked : RemoveMempoolConflictsForLock(l, Tail(queue))
      <4>1. mempool' \subseteq Txs /\ queue' \in Seq(Events) /\ \E T : RemoveNonLockedTx(T)
        BY <3>1, <3>4, ForLockType DEF TypeOK
      <4>2. info' \in [Txs -> Infos \cup {None}] /\ byOutpoint' \in [Outpoints -> Txs \cup {None}]
        BY <4>1, NonLockedType DEF TypeOK
      <4>. QED  BY <2>7, <3>3, <4>1, <4>2 DEF TransactionAddedToMempool, TypeOK, chain, worker, db
    <3>5. CASE AddNonLockedTx(t, None) /\ queue' = Tail(queue) /\ UNCHANGED mempool
      <4>1. info' \in [Txs -> Infos \cup {None}] /\ byOutpoint' \in [Outpoints -> Txs \cup {None}]
        BY <3>2, <3>5, NonLockedType DEF TypeOK
      <4>. QED  BY <2>7, <3>1, <3>3, <3>5, <4>1 DEF TransactionAddedToMempool, TypeOK, chain, worker, db
    <3>. QED  BY <2>7, <3>4, <3>5 DEF TransactionAddedToMempool
  <2>8. ASSUME TransactionRemovedFromMempool
        PROVE  TypeOK'
    <3>1. Tail(queue) \in Seq(Events)
      BY <2>8, QueueFacts DEF TransactionRemovedFromMempool, Delivers, TypeOK
    <3>2. UNION {LocksByTxid(t) : t \in Head(queue).of} \subseteq Locks
      BY DEF LocksByTxid, TypeOK
    <3>3. stored' \subseteq Locks /\ archived' \subseteq Locks /\ remembered' \subseteq Locks
      BY <2>8, <3>2, RemoveChainedFacts DEF TransactionRemovedFromMempool, TypeOK
    <3>. QED  BY <2>8, <3>1, <3>3 DEF TransactionRemovedFromMempool, TypeOK, chain, nonLocked, worker
  <2>9. ASSUME BlockConnected
        PROVE  TypeOK'
    <3> DEFINE b == Head(queue).of
    <3>1. Head(queue) \in Events /\ Head(queue).on = "connected" /\ Tail(queue) \in Seq(Events)
      BY <2>9, QueueFacts DEF BlockConnected, Delivers, TypeOK
    <3>2. b \in Blocks /\ TxOf[b] \in Txs \cup {None} /\ Height(b) \in Nat
      BY <3>1, BlocksAssumption, HeightType DEF Events
    <3>3. mined' \subseteq Nat \X Locks
      BY <2>9, <3>2 DEF BlockConnected, MinedKeys, TypeOK
    <3>4. txindex' \in [Txs -> Blocks \cup {None}]
      BY <2>9, <3>2 DEF BlockConnected, TypeOK
    <3>5. parked' \subseteq Locks /\ pending' \subseteq Locks
      BY <2>9, UnparkFacts DEF BlockConnected, TypeOK
    <3>6. info' \in [Txs -> Infos \cup {None}] /\ byOutpoint' \in [Outpoints -> Txs \cup {None}]
      BY <2>9, <3>2, NonLockedType DEF BlockConnected, TypeOK, nonLocked
    <3>. QED  BY <2>9, <3>1, <3>3, <3>4, <3>5, <3>6 DEF BlockConnected, TypeOK, chain, worker
  <2>10. ASSUME BlockDisconnected
         PROVE  TypeOK'
    <3>1. Tail(queue) \in Seq(Events)
      BY <2>10, QueueFacts DEF BlockDisconnected, Delivers, TypeOK
    <3>. QED  BY <2>10, <3>1 DEF BlockDisconnected, TypeOK, chain, nonLocked, worker
  <2>11. ASSUME HandleFullyConfirmedBlock
         PROVE  TypeOK'
    <3> DEFINE b == Head(queue).of
    <3>1. Head(queue) \in Events /\ Head(queue).on = "chainlock" /\ Tail(queue) \in Seq(Events)
      BY <2>11, QueueFacts DEF HandleFullyConfirmedBlock, Delivers, TypeOK
    <3>2. Height(b) \in Nat
      BY <3>1, HeightType DEF Events
    <3>3. /\ stored' \subseteq Locks /\ mined' \subseteq Nat \X Locks /\ archived' \subseteq Locks
          /\ remembered' \subseteq Locks /\ confirmed' \in Nat
      <4>1. RemoveConfirmedInstantSendLocks(Height(b))
        BY <2>11 DEF HandleFullyConfirmedBlock
      <4>2. \A k \in mined : k[2] \in Locks
        BY DEF TypeOK
      <4>. QED  BY <3>2, <4>1, <4>2, RemoveConfirmedFacts DEF TypeOK
    <3>4. info' \in [Txs -> Infos \cup {None}] /\ byOutpoint' \in [Outpoints -> Txs \cup {None}]
      BY <2>11, NonLockedType DEF HandleFullyConfirmedBlock, TypeOK
    <3>. QED  BY <2>11, <3>1, <3>3, <3>4 DEF HandleFullyConfirmedBlock, TypeOK, chain, worker
  <2>12. ASSUME NEW l \in Locks, ReceiveLock(l)
         PROVE  TypeOK'
    BY <2>12 DEF ReceiveLock, TypeOK, chain, nonLocked, worker, db
  <2>13. ASSUME TakePending
         PROVE  TypeOK'
    BY <2>13 DEF TakePending, TypeOK, chain, nonLocked, db
  <2>14. ASSUME NEW l \in Locks, Lookup(l)
         PROVE  TypeOK'
    <3>1. work' \in Works
      BY <2>14, LockType DEF Lookup, TypeOK, Works
    <3>. QED  BY <2>14, <3>1 DEF Lookup, TypeOK, chain, nonLocked, db
  <2>15. ASSUME WriteOrPark
         PROVE  TypeOK'
    <3>1. work.lock \in Locks /\ work.mined \in Blocks \cup {None} /\ work' \in Works
      BY <2>15 DEF WriteOrPark, TypeOK, Works, Idle
    <3>2. mined' \subseteq Nat \X Locks
      BY <2>15, <3>1, HeightType DEF WriteOrPark, TypeOK
    <3>3. info' \in [Txs -> Infos \cup {None}] /\ byOutpoint' \in [Outpoints -> Txs \cup {None}]
      BY <2>15, NonLockedType DEF WriteOrPark, TypeOK
    <3>. QED  BY <2>15, <3>1, <3>2, <3>3 DEF WriteOrPark, TypeOK, chain
  <2>16. ASSUME ResolveBlockConflicts
         PROVE  TypeOK'
    <3>1. work.lock \in Locks /\ work.found \in BOOLEAN
      BY <2>16 DEF ResolveBlockConflicts, TypeOK, Works, Idle
    <3>2. work' \in Works
      <4>1. AfterResolve \in Works
        BY <3>1 DEF AfterResolve, Works
      <4>2. {info[u].mined : u \in MinedConflicts(work.lock)} \subseteq Blocks
        BY DEF MinedConflicts, TypeOK, Infos
      <4>. QED  BY <2>16, <3>1, <4>1, <4>2 DEF ResolveBlockConflicts, Works
    <3>3. info' \in [Txs -> Infos \cup {None}] /\ byOutpoint' \in [Outpoints -> Txs \cup {None}]
      BY <2>16, NonLockedType DEF ResolveBlockConflicts, TypeOK, nonLocked
    <3>4. /\ stored' \subseteq Locks /\ mined' \subseteq Nat \X Locks /\ archived' \subseteq Locks
          /\ remembered' \subseteq Locks /\ confirmed' \in Nat
      BY <2>16, <3>1, RemoveChainedFacts DEF ResolveBlockConflicts, TypeOK, db
    <3>. QED  BY <2>16, <3>2, <3>3, <3>4 DEF ResolveBlockConflicts, TypeOK, chain
  <2>17. ASSUME NEW b \in Blocks, InvalidateBlock(b)
         PROVE  TypeOK'
    <3>1. work \in Works /\ work.pc = "invalidate"
      BY <2>17 DEF InvalidateBlock, Invalidating, TypeOK
    <3>2. work' \in Works
      <4>1. AfterResolve \in Works
        BY <3>1 DEF AfterResolve, Works, Idle
      <4>2. [work EXCEPT !.blocks = @ \ {b}] \in Works
        BY <3>1 DEF Works, Idle
      <4>. QED  BY <2>17, <3>1, <4>1, <4>2 DEF InvalidateBlock
    <3>3. tip' \in Blocks /\ mempool' \subseteq Txs /\ queue' \in Seq(Events)
      BY <2>17, DisconnectType DEF InvalidateBlock, TypeOK
    <3>4. failed' \subseteq Blocks
      BY <2>17 DEF InvalidateBlock, TypeOK
    <3>. QED  BY <2>17, <3>2, <3>3, <3>4 DEF InvalidateBlock, TypeOK, nonLocked, db
  <2>18. ASSUME RemoveMempoolConflicts
         PROVE  TypeOK'
    <3>1. work.lock \in Locks
      BY <2>18 DEF RemoveMempoolConflicts, TypeOK, Works, Idle
    <3>2. mempool' \subseteq Txs /\ queue' \in Seq(Events) /\ \E T : RemoveNonLockedTx(T)
      BY <2>18, <3>1, ForLockType DEF RemoveMempoolConflicts, TypeOK
    <3>3. info' \in [Txs -> Infos \cup {None}] /\ byOutpoint' \in [Outpoints -> Txs \cup {None}]
      BY <3>2, NonLockedType DEF TypeOK
    <3>. QED  BY <2>18, <3>2, <3>3 DEF RemoveMempoolConflicts, TypeOK, chain, db, Works
  <2>19. ASSUME NEW l \in Locks, EvictFromCache(l)
         PROVE  TypeOK'
    BY <2>19 DEF EvictFromCache, TypeOK, chain, nonLocked, worker
  <2>20. ASSUME UNCHANGED vars
         PROVE  TypeOK'
    BY <2>20 DEF vars, TypeOK, chain, nonLocked, worker, db
  <2>. QED
    BY <2>1, <2>2, <2>3, <2>4, <2>5, <2>6, <2>7, <2>8, <2>9, <2>10, <2>11, <2>12, <2>13, <2>14,
       <2>15, <2>16, <2>17, <2>18, <2>19, <2>20, <2>21, NextCases
<1>. QED  BY <1>1, <1>2, PTL DEF Spec

-----------------------------------------------------------------------------
(***************************************************************************)
(* The database: what is archived stays out.                               *)
(***************************************************************************)

\* The worker writes a lock some time after it asked whether the lock is
\* known.  Meanwhile locks are archived, but only such as were stored: the
\* keys by height and the caches name no other.
ArchiveInv ==
  /\ ArchivedStaysOut
  /\ remembered \subseteq archived
  /\ \A k \in mined : k[2] \in stored \cup archived
  /\ work.pc = "write" => work.lock \notin stored \cup archived

\* The worker's lock is where it was put, or has moved on; it is stored only
\* if its transaction was found.
WorkerInv ==
  work.pc \in {"resolve", "invalidate", "mempool"} =>
    /\ work.lock \in stored \cup archived \cup parked \cup pending
    /\ ~work.found => work.lock \notin stored

IInv == TypeOK /\ ArchiveInv /\ WorkerInv

\* Removing locks with their children, from those the database or a cache knows.
LEMMA RemoveChainedKeeps ==
  ASSUME IInv, NEW S, S \subseteq stored \cup remembered, RemoveChainedInstantSendLocks(S),
         UNCHANGED <<mined, work, pending, parked>>
  PROVE  ArchiveInv' /\ WorkerInv'
  BY RemoveChainedFacts DEF IInv, ArchiveInv, WorkerInv, ArchivedStaysOut

LEMMA KnownLocks ==
  \A t : LocksByTxid(t) \subseteq stored \cup remembered /\ ConflictingLocks(t) \subseteq stored \cup remembered
  BY DEF LocksByTxid, ConflictingLocks

\* Steps that leave the database and the worker alone.
LEMMA OthersKeep ==
  ASSUME IInv, UNCHANGED db, UNCHANGED work, parked \subseteq parked' \cup pending', pending \subseteq pending'
  PROVE  ArchiveInv' /\ WorkerInv'
  BY DEF IInv, ArchiveInv, WorkerInv, ArchivedStaysOut, db

\* The three invariants hold together, whatever the three threads do.
THEOREM Inductive == Spec => []IInv
<1>1. Init => ArchiveInv /\ WorkerInv
  BY DEF Init, ArchiveInv, WorkerInv, ArchivedStaysOut, Idle
<1>2. IInv /\ [Next]_vars => ArchiveInv' /\ WorkerInv'
  <2>. SUFFICES ASSUME IInv, [Next]_vars PROVE ArchiveInv' /\ WorkerInv'
    OBVIOUS
  <2>1. ASSUME NEW t \in Txs, AcceptToMemoryPool(t)
        PROVE  ArchiveInv' /\ WorkerInv'
    BY <2>1, OthersKeep DEF AcceptToMemoryPool, worker
  <2>2. ASSUME NEW t \in Txs, EvictFromMempool(t)
        PROVE  ArchiveInv' /\ WorkerInv'
    BY <2>2, OthersKeep DEF EvictFromMempool, worker
  <2>3. ASSUME NEW b \in Blocks, ConnectBlock(b)
        PROVE  ArchiveInv' /\ WorkerInv'
    BY <2>3, ConnectBlockFacts, KnownLocks, RemoveChainedKeeps, OthersKeep DEF db, worker
  <2>21. ASSUME ConnectTip
         PROVE  ArchiveInv' /\ WorkerInv'
    BY <2>21, OthersKeep DEF ConnectTip, worker
  <2>4. ASSUME NEW b \in Blocks, NewChainLock(b)
        PROVE  ArchiveInv' /\ WorkerInv'
    BY <2>4, OthersKeep DEF NewChainLock, worker
  <2>5. ASSUME EnforceBlock
        PROVE  ArchiveInv' /\ WorkerInv'
    BY <2>5, OthersKeep DEF EnforceBlock, worker
  <2>6. ASSUME NotifyChainLock
        PROVE  ArchiveInv' /\ WorkerInv'
    BY <2>6, OthersKeep DEF NotifyChainLock, worker
  <2>7. ASSUME TransactionAddedToMempool
        PROVE  ArchiveInv' /\ WorkerInv'
    BY <2>7, OthersKeep, UnparkFacts DEF TransactionAddedToMempool, worker
  <2>8. ASSUME TransactionRemovedFromMempool
        PROVE  ArchiveInv' /\ WorkerInv'
    BY <2>8, KnownLocks, RemoveChainedKeeps DEF TransactionRemovedFromMempool, worker
  <2>9. ASSUME BlockConnected
        PROVE  ArchiveInv' /\ WorkerInv'
    <3>1. \A k \in mined' : k[2] \in stored \cup archived
      BY <2>9 DEF BlockConnected, MinedKeys, IInv, ArchiveInv
    <3>2. parked \subseteq parked' \cup pending' /\ pending \subseteq pending'
      BY <2>9, UnparkFacts DEF BlockConnected
    <3>. QED  BY <2>9, <3>1, <3>2 DEF BlockConnected, worker, IInv, ArchiveInv, WorkerInv, ArchivedStaysOut
  <2>10. ASSUME BlockDisconnected
         PROVE  ArchiveInv' /\ WorkerInv'
    BY <2>10 DEF BlockDisconnected, worker, IInv, ArchiveInv, WorkerInv, ArchivedStaysOut
  <2>11. ASSUME HandleFullyConfirmedBlock
         PROVE  ArchiveInv' /\ WorkerInv'
    <3> DEFINE b == Head(queue).of
    <3>1. Height(b) \in Nat
      BY <2>11, QueueFacts, HeightType DEF HandleFullyConfirmedBlock, Delivers, IInv, TypeOK, Events
    <3>2. RemoveConfirmedInstantSendLocks(Height(b)) /\ UNCHANGED <<work, pending, parked>>
      BY <2>11 DEF HandleFullyConfirmedBlock, worker
    <3> HIDE DEF b
    <3>. QED  BY <3>1, <3>2, RemoveConfirmedFacts DEF IInv, ArchiveInv, WorkerInv, ArchivedStaysOut
  <2>12. ASSUME NEW l \in Locks, ReceiveLock(l)
         PROVE  ArchiveInv' /\ WorkerInv'
    BY <2>12, OthersKeep DEF ReceiveLock, worker
  <2>13. ASSUME TakePending
         PROVE  ArchiveInv' /\ WorkerInv'
    BY <2>13 DEF TakePending, db, Idle, IInv, ArchiveInv, WorkerInv, ArchivedStaysOut
  <2>14. ASSUME NEW l \in Locks, Lookup(l)
         PROVE  ArchiveInv' /\ WorkerInv'
    BY <2>14 DEF Lookup, KnownInstantSendLock, db, Idle, IInv, ArchiveInv, WorkerInv, ArchivedStaysOut
  <2>15. ASSUME WriteOrPark
         PROVE  ArchiveInv' /\ WorkerInv'
    <3>1. work.lock \notin stored \cup archived
      BY <2>15 DEF WriteOrPark, IInv, ArchiveInv
    <3>. QED  BY <2>15, <3>1 DEF WriteOrPark, IInv, ArchiveInv, WorkerInv, ArchivedStaysOut
  <2>16. ASSUME ResolveBlockConflicts
         PROVE  ArchiveInv' /\ WorkerInv'
    <3> DEFINE l == work.lock
    <3>1. work'.pc \in {"idle", "mempool", "invalidate"} /\ (work'.pc # "idle" => work'.lock = l /\ work'.found = work.found)
      BY <2>16 DEF ResolveBlockConflicts, AfterResolve, Idle
    <3>2. \/ RemoveChainedInstantSendLocks({l}) /\ UNCHANGED mined
          \/ UNCHANGED db
      BY <2>16 DEF ResolveBlockConflicts
    <3>3. UNCHANGED <<pending, parked>> /\ work.pc = "resolve"
      BY <2>16 DEF ResolveBlockConflicts
    <3>. QED  BY <3>1, <3>2, <3>3, RemoveChainedFacts DEF db, IInv, ArchiveInv, WorkerInv, ArchivedStaysOut
  <2>17. ASSUME NEW b \in Blocks, InvalidateBlock(b)
         PROVE  ArchiveInv' /\ WorkerInv'
    <3>1. work \in Works /\ work.pc = "invalidate"
      BY <2>17 DEF InvalidateBlock, Invalidating, IInv, TypeOK
    <3>2. work'.pc \in {"idle", "mempool", "invalidate"} /\ (work'.pc # "idle" => work'.lock = work.lock /\ work'.found = work.found)
      <4>1. work' \in {work, AfterResolve, [work EXCEPT !.blocks = @ \ {b}]}
        BY <2>17 DEF InvalidateBlock
      <4>2. work \in [pc : {"invalidate"}, lock : Locks, found : BOOLEAN, known : BOOLEAN, blocks : SUBSET Blocks]
        BY <3>1 DEF Works, Idle
      <4>3. CASE work' = work
        BY <4>2, <4>3
      <4>4. CASE work' = AfterResolve
        BY <4>2, <4>4 DEF AfterResolve, Idle
      <4>5. CASE work' = [work EXCEPT !.blocks = @ \ {b}]
        BY <4>2, <4>5
      <4>. QED  BY <4>1, <4>3, <4>4, <4>5
    <3>. QED  BY <2>17, <3>1, <3>2 DEF InvalidateBlock, db, IInv, ArchiveInv, WorkerInv, ArchivedStaysOut
  <2>18. ASSUME RemoveMempoolConflicts
         PROVE  ArchiveInv' /\ WorkerInv'
    BY <2>18 DEF RemoveMempoolConflicts, db, Idle, IInv, ArchiveInv, WorkerInv, ArchivedStaysOut
  <2>19. ASSUME NEW l \in Locks, EvictFromCache(l)
         PROVE  ArchiveInv' /\ WorkerInv'
    BY <2>19 DEF EvictFromCache, worker, IInv, ArchiveInv, WorkerInv, ArchivedStaysOut
  <2>20. ASSUME UNCHANGED vars
         PROVE  ArchiveInv' /\ WorkerInv'
    BY <2>20, OthersKeep DEF vars, worker
  <2>. QED
    BY <2>1, <2>2, <2>3, <2>4, <2>5, <2>6, <2>7, <2>8, <2>9, <2>10, <2>11, <2>12, <2>13, <2>14,
       <2>15, <2>16, <2>17, <2>18, <2>19, <2>20, <2>21, NextCases
<1>3. TypeOK /\ ArchiveInv /\ WorkerInv <=> IInv
  BY DEF IInv
<1>. QED  BY <1>1, <1>2, <1>3, TypeCorrect, PTL DEF Spec

\* A lock that was overridden, removed or confirmed is never stored again.
THEOREM NeverStoredAgain == Spec => []ArchivedStaysOut
<1>1. IInv => ArchivedStaysOut
  BY DEF IInv, ArchiveInv
<1>. QED  BY <1>1, Inductive, PTL

-----------------------------------------------------------------------------
(***************************************************************************)
(* The mempool and the chain respect the locks.                            *)
(***************************************************************************)

\* A step that stores no lock and adds to the mempool only what conflicts with
\* no stored one.
LEMMA PoolKeeps ==
  ASSUME MempoolRespectsLocks, stored' \subseteq stored, UNCHANGED work,
         \A t \in mempool' \ mempool, l \in stored : ~Conflicts(l.txid, t)
  PROVE  MempoolRespectsLocks'
  BY DEF MempoolRespectsLocks, Conflicts

LEMMA ConflictsWithStored ==
  ASSUME NEW t, ConflictingLocks(t) = {}
  PROVE  \A l \in stored : ~Conflicts(l.txid, t)
  BY DEF ConflictingLocks

LEMMA DisconnectKeeps ==
  ASSUME NEW a, Disconnect(a), NEW t \in mempool' \ mempool
  PROVE  \A l \in stored : ~Conflicts(l.txid, t)
  <1>1. ConflictingLocks(t) = {}
    BY DEF Disconnect
  <1>. QED  BY <1>1, ConflictsWithStored

LEMMA ForLockKeeps ==
  ASSUME NEW l, NEW rest, RemoveMempoolConflictsForLock(l, rest)
  PROVE  mempool' \subseteq mempool /\ \A t \in mempool' : ~Conflicts(l.txid, t)
  BY DEF RemoveMempoolConflictsForLock, WithDescendants, MempoolConflicts

\* No transaction in the mempool conflicts with a lock the worker is done with.
THEOREM MempoolClean == Spec => []MempoolRespectsLocks
<1>1. Init => MempoolRespectsLocks
  BY DEF Init, MempoolRespectsLocks
<1>2. IInv /\ MempoolRespectsLocks /\ [Next]_vars => MempoolRespectsLocks'
  <2>. SUFFICES ASSUME IInv, MempoolRespectsLocks, [Next]_vars PROVE MempoolRespectsLocks'
    OBVIOUS
  <2>1. ASSUME NEW t \in Txs, AcceptToMemoryPool(t)
        PROVE  MempoolRespectsLocks'
    <3>1. ConflictingLocks(t) = {} /\ mempool' \subseteq mempool \cup {t} /\ UNCHANGED <<stored, work>>
      BY <2>1 DEF AcceptToMemoryPool, worker, db
    <3>. QED  BY <3>1, ConflictsWithStored, PoolKeeps
  <2>2. ASSUME NEW t \in Txs, EvictFromMempool(t)
        PROVE  MempoolRespectsLocks'
    BY <2>2, PoolKeeps DEF EvictFromMempool, worker, db
  <2>3. ASSUME NEW b \in Blocks, ConnectBlock(b)
        PROVE  MempoolRespectsLocks'
    BY <2>3, ConnectBlockFacts, RemoveChainedFacts, PoolKeeps DEF worker
  <2>21. ASSUME ConnectTip
         PROVE  MempoolRespectsLocks'
    BY <2>21, PoolKeeps DEF ConnectTip, worker, db
  <2>4. ASSUME NEW b \in Blocks, NewChainLock(b)
        PROVE  MempoolRespectsLocks'
    BY <2>4, PoolKeeps DEF NewChainLock, worker, db
  <2>5. ASSUME EnforceBlock
        PROVE  MempoolRespectsLocks'
    BY <2>5, DisconnectKeeps, PoolKeeps DEF EnforceBlock, worker, db
  <2>6. ASSUME NotifyChainLock
        PROVE  MempoolRespectsLocks'
    BY <2>6, PoolKeeps DEF NotifyChainLock, worker, db
  <2>7. ASSUME TransactionAddedToMempool
        PROVE  MempoolRespectsLocks'
    BY <2>7, ForLockKeeps, PoolKeeps DEF TransactionAddedToMempool, worker, db
  <2>8. ASSUME TransactionRemovedFromMempool
        PROVE  MempoolRespectsLocks'
    BY <2>8, RemoveChainedFacts, PoolKeeps DEF TransactionRemovedFromMempool, worker
  <2>9. ASSUME BlockConnected
        PROVE  MempoolRespectsLocks'
    BY <2>9, PoolKeeps DEF BlockConnected, worker
  <2>10. ASSUME BlockDisconnected
         PROVE  MempoolRespectsLocks'
    BY <2>10, PoolKeeps DEF BlockDisconnected, worker
  <2>11. ASSUME HandleFullyConfirmedBlock
         PROVE  MempoolRespectsLocks'
    <3>1. stored' \subseteq stored
      BY <2>11 DEF HandleFullyConfirmedBlock, RemoveConfirmedInstantSendLocks, db
    <3>. QED  BY <2>11, <3>1, PoolKeeps DEF HandleFullyConfirmedBlock, worker
  <2>12. ASSUME NEW l \in Locks, ReceiveLock(l)
         PROVE  MempoolRespectsLocks'
    BY <2>12, PoolKeeps DEF ReceiveLock, worker, db
  <2>13. ASSUME TakePending
         PROVE  MempoolRespectsLocks'
    BY <2>13, PoolKeeps DEF TakePending, db
  <2>14. ASSUME NEW l \in Locks, Lookup(l)
         PROVE  MempoolRespectsLocks'
    BY <2>14 DEF Lookup, db, Idle, MempoolRespectsLocks, Conflicts
  <2>15. ASSUME WriteOrPark
         PROVE  MempoolRespectsLocks'
    BY <2>15 DEF WriteOrPark, MempoolRespectsLocks, Conflicts
  <2>16. ASSUME ResolveBlockConflicts
         PROVE  MempoolRespectsLocks'
    <3>1. stored' \subseteq stored /\ mempool' = mempool /\ work.pc = "resolve"
      BY <2>16, RemoveChainedFacts DEF ResolveBlockConflicts, db
    <3>2. \/ work'.pc \in {"mempool", "invalidate"} /\ work'.lock = work.lock
          \/ ~work.found
      BY <2>16 DEF ResolveBlockConflicts, AfterResolve
    <3>3. ~work.found => work.lock \notin stored
      BY <3>1 DEF IInv, WorkerInv
    <3>. QED  BY <3>1, <3>2, <3>3 DEF MempoolRespectsLocks, Conflicts
  <2>17. ASSUME NEW b \in Blocks, InvalidateBlock(b)
         PROVE  MempoolRespectsLocks'
    <3>1. work \in [pc : {"invalidate"}, lock : Locks, found : BOOLEAN, known : BOOLEAN, blocks : SUBSET Blocks]
      BY <2>17 DEF InvalidateBlock, Invalidating, IInv, TypeOK, Works, Idle
    <3>2. stored' = stored /\ \A t \in mempool' \ mempool, l \in stored : ~Conflicts(l.txid, t)
      BY <2>17, DisconnectKeeps DEF InvalidateBlock, db
    <3>3. \/ work'.pc \in {"mempool", "invalidate"} /\ work'.lock = work.lock
          \/ ~work.found
      <4>1. work' \in {work, AfterResolve, [work EXCEPT !.blocks = @ \ {b}]}
        BY <2>17 DEF InvalidateBlock
      <4>2. CASE work' = work
        BY <3>1, <4>2
      <4>3. CASE work' = AfterResolve
        BY <4>3 DEF AfterResolve
      <4>4. CASE work' = [work EXCEPT !.blocks = @ \ {b}]
        BY <3>1, <4>4
      <4>. QED  BY <4>1, <4>2, <4>3, <4>4
    <3>4. ~work.found => work.lock \notin stored
      BY <3>1 DEF IInv, WorkerInv
    <3>. QED  BY <3>2, <3>3, <3>4 DEF MempoolRespectsLocks, Conflicts
  <2>18. ASSUME RemoveMempoolConflicts
         PROVE  MempoolRespectsLocks'
    <3>1. mempool' \subseteq mempool /\ \A t \in mempool' : ~Conflicts(work.lock.txid, t)
      BY <2>18, ForLockKeeps DEF RemoveMempoolConflicts
    <3>. QED  BY <2>18, <3>1 DEF RemoveMempoolConflicts, db, MempoolRespectsLocks, Conflicts
  <2>19. ASSUME NEW l \in Locks, EvictFromCache(l)
         PROVE  MempoolRespectsLocks'
    BY <2>19, PoolKeeps DEF EvictFromCache, worker
  <2>20. ASSUME UNCHANGED vars
         PROVE  MempoolRespectsLocks'
    BY <2>20, PoolKeeps DEF vars, worker, db
  <2>. QED
    BY <2>1, <2>2, <2>3, <2>4, <2>5, <2>6, <2>7, <2>8, <2>9, <2>10, <2>11, <2>12, <2>13, <2>14,
       <2>15, <2>16, <2>17, <2>18, <2>19, <2>20, <2>21, NextCases
<1>. QED  BY <1>1, <1>2, Inductive, PTL DEF Spec

\* While a block is being connected, the stored locks against it are those that
\* the worker wrote since ConnectBlock looked for them.
ConnectInv ==
  connecting # None /\ TxOf[connecting] # None =>
    \A l \in stored : Conflicts(l.txid, TxOf[connecting]) => l \in late

LEMMA ConnectKeeps ==
  ASSUME ConnectInv, UNCHANGED <<connecting, late>>, stored' \subseteq stored
  PROVE  ConnectInv'
  BY DEF ConnectInv, Conflicts

LEMMA Checked == Spec => []ConnectInv
<1>1. Init => ConnectInv
  BY DEF Init, ConnectInv
<1>2. TypeOK /\ ConnectInv /\ [Next]_vars => ConnectInv'
  <2>. SUFFICES ASSUME TypeOK, ConnectInv, [Next]_vars PROVE ConnectInv'
    OBVIOUS
  <2>1. ASSUME NEW b \in Blocks, ConnectBlock(b)
        PROVE  ConnectInv'
    <3>1. CASE connecting' = connecting
      BY <2>1, <3>1, ConnectBlockFacts, RemoveChainedFacts, ConnectKeeps
    <3>2. CASE connecting' # connecting
      <4> DEFINE conflicting == IF TxOf[b] = None THEN {} ELSE ConflictingLocks(TxOf[b])
      <4>1. connecting' = b /\ (conflicting = {} \/ HasChainLock(b))
        BY <2>1, <3>2 DEF ConnectBlock
      <4>2. \A l \in stored' : TxOf[b] # None => ~Conflicts(l.txid, TxOf[b])
        <5>1. CASE conflicting = {}
          <6>1. stored' = stored
            BY <2>1, <5>1 DEF ConnectBlock, db
          <6>. QED  BY <5>1, <6>1, ConflictsWithStored
        <5>2. CASE conflicting # {}
          <6>1. RemoveChainedInstantSendLocks(conflicting)
            BY <2>1, <4>1, <5>2 DEF ConnectBlock
          <6>. QED  BY <6>1, RemoveChainedFacts DEF ConflictingLocks
        <5>. QED  BY <5>1, <5>2
      <4>. QED  BY <4>1, <4>2 DEF ConnectInv, Conflicts
    <3>. QED  BY <3>1, <3>2
  <2>2. CASE ConnectTip
    BY <2>2 DEF ConnectTip, ConnectInv
  <2>3. CASE WriteOrPark
    BY <2>3 DEF WriteOrPark, ConnectInv, Conflicts, chain
  <2>4. CASE TransactionRemovedFromMempool
    BY <2>4, RemoveChainedFacts, ConnectKeeps DEF TransactionRemovedFromMempool, chain
  <2>5. CASE ResolveBlockConflicts
    BY <2>5, RemoveChainedFacts, ConnectKeeps DEF ResolveBlockConflicts, chain, db
  <2>6. CASE HandleFullyConfirmedBlock
    <3>1. stored' \subseteq stored
      BY <2>6 DEF HandleFullyConfirmedBlock, RemoveConfirmedInstantSendLocks, db
    <3>. QED  BY <2>6, <3>1, ConnectKeeps DEF HandleFullyConfirmedBlock, chain
  <2>7. ASSUME ~ \E b \in Blocks : ConnectBlock(b), ~ConnectTip, ~WriteOrPark,
               ~TransactionRemovedFromMempool, ~ResolveBlockConflicts, ~HandleFullyConfirmedBlock
        PROVE  ConnectInv'
    <3>1. Next => UNCHANGED <<connecting, late, stored>>
      BY <2>7, NextCases
         DEF AcceptToMemoryPool, EvictFromMempool, NewChainLock, EnforceBlock, NotifyChainLock,
             TransactionAddedToMempool, BlockConnected, BlockDisconnected, TakePending, Lookup,
             InvalidateBlock, RemoveMempoolConflicts, ReceiveLock, EvictFromCache, chain, db
    <3>. QED  BY <3>1, ConnectKeeps DEF vars, chain, db
  <2>. QED  BY <2>1, <2>2, <2>3, <2>4, <2>5, <2>6, <2>7
<1>. QED  BY <1>1, <1>2, TypeCorrect, PTL DEF Spec

\* ConnectTip is the only step that lengthens the chain, and only the worker can
\* have stored a lock against the block since it was checked.
THEOREM ChainRespectsLocks == Spec => ConnectedRespectsLocks
<1> DEFINE A == tip' # tip /\ tip \in Ancestors[tip'] /\ TxOf[tip'] # None =>
                  \A l \in stored : Conflicts(l.txid, TxOf[tip']) => l \in late
<1>1. TypeOK /\ ConnectInv /\ [Next]_vars => A
  <2>. SUFFICES ASSUME TypeOK, ConnectInv, [Next]_vars, tip' # tip, tip \in Ancestors[tip'], TxOf[tip'] # None
                PROVE  \A l \in stored : Conflicts(l.txid, TxOf[tip']) => l \in late
    OBVIOUS
  <2>1. ASSUME NEW a, Disconnect(a)
        PROVE  FALSE
    <3>1. tip' \in Ancestors[tip] \ {tip} /\ tip \in Blocks /\ tip' \in Blocks
      BY <2>1, DisconnectType DEF Disconnect, TypeOK
    <3>2. Height(tip') < Height(tip) /\ Height(tip) < Height(tip')
      BY <3>1, BlocksAssumption
    <3>. QED  BY <3>1, <3>2, HeightType
  <2>2. ConnectTip
    <3>1. ASSUME ~ConnectTip, Next
          PROVE  FALSE
      BY <2>1, <3>1, NextCases
         DEF AcceptToMemoryPool, EvictFromMempool, ConnectBlock, NewChainLock, EnforceBlock, NotifyChainLock,
             TransactionAddedToMempool, TransactionRemovedFromMempool, BlockConnected,
             BlockDisconnected, HandleFullyConfirmedBlock, TakePending, Lookup, WriteOrPark,
             ResolveBlockConflicts, InvalidateBlock, RemoveMempoolConflicts, ReceiveLock,
             EvictFromCache, chain
    <3>. QED  BY <3>1 DEF vars, chain
  <2>3. tip' = connecting /\ connecting # None
    BY <2>2 DEF ConnectTip
  <2>. QED  BY <2>3 DEF ConnectInv
<1>2. TypeOK /\ ConnectInv /\ [Next]_vars => [A]_vars
  BY <1>1
<1>. QED  BY <1>2, TypeCorrect, Checked, PTL DEF Spec, ConnectedRespectsLocks

-----------------------------------------------------------------------------
(***************************************************************************)
(* What leaves the database, and what leaves the maps.                     *)
(***************************************************************************)

\* Chained follows the parents through any number of locks.
LEMMA ChainedIsClosed ==
  ASSUME NEW S, RemoveChainedInstantSendLocks(S),
         NEW l \in stored \ stored', NEW m \in stored, l.txid \in Parents(m.txid)
  PROVE  m \notin stored'
  <1> DEFINE closed(t, Q) == \A n \in stored : Parents(n.txid) \cap ({t} \cup {k.txid : k \in Q}) # {} => n \in Q
  <1>1. \A t : Chained(t) = {n \in stored : \A Q \in SUBSET stored : closed(t, Q) => n \in Q}
    BY DEF Chained
  <1>2. \E s \in S : l = s \/ l \in Chained(s.txid)
    BY DEF RemoveChainedInstantSendLocks
  <1>3. PICK s \in S : l = s \/ l \in Chained(s.txid)
    BY <1>2
  <1>4. ASSUME NEW Q \in SUBSET stored, closed(s.txid, Q)
        PROVE  m \in Q
    <2>1. CASE l = s
      BY <1>4, <2>1
    <2>2. CASE l \in Chained(s.txid)
      <3>1. l \in Q
        BY <1>1, <1>4, <2>2
      <3>. QED  BY <1>4, <3>1
    <2>. QED  BY <1>3, <2>1, <2>2
  <1>5. m \in Chained(s.txid)
    BY <1>1, <1>4
  <1>. QED  BY <1>5 DEF RemoveChainedInstantSendLocks

\* Steps that do not touch the stored locks.
LEMMA StoredChanges ==
  ASSUME Next, stored' # stored
  PROVE  \/ \E S : RemoveChainedInstantSendLocks(S)
         \/ \E b \in Blocks : RemoveConfirmedInstantSendLocks(Height(b))
         \/ HandleFullyConfirmedBlock
         \/ stored \subseteq stored'
  BY NextCases, ConnectBlockFacts
     DEF AcceptToMemoryPool, EvictFromMempool, NewChainLock, EnforceBlock, NotifyChainLock,
         TransactionAddedToMempool, TransactionRemovedFromMempool, BlockConnected, ConnectTip,
         BlockDisconnected, TakePending, Lookup, WriteOrPark,
         ResolveBlockConflicts, InvalidateBlock, RemoveMempoolConflicts, ReceiveLock,
         EvictFromCache, db

\* A lock that is not confirmed takes the locks that build on it along.
THEOREM LocksGoWithChildren == Spec => ChildrenGoToo
<1> DEFINE A == \A l \in stored \ stored', m \in stored \cap stored' :
                  l.txid \in Parents(m.txid) => l \in remembered'
<1>1. TypeOK /\ [Next]_vars => A
  <2>. SUFFICES ASSUME TypeOK, [Next]_vars, NEW l \in stored \ stored', NEW m \in stored \cap stored',
                       l.txid \in Parents(m.txid)
                PROVE  l \in remembered'
    OBVIOUS
  <2>1. Next /\ stored' # stored
    BY DEF vars, db
  <2>2. ASSUME NEW S, RemoveChainedInstantSendLocks(S)
        PROVE  FALSE
    BY <2>2, ChainedIsClosed
  <2>3. ASSUME NEW h, RemoveConfirmedInstantSendLocks(h)
        PROVE  l \in remembered'
    BY <2>3 DEF RemoveConfirmedInstantSendLocks, db
  <2>4. ASSUME HandleFullyConfirmedBlock
        PROVE  l \in remembered'
    BY <2>3, <2>4 DEF HandleFullyConfirmedBlock
  <2>. QED  BY <2>1, <2>2, <2>3, <2>4, StoredChanges
<1>2. TypeOK /\ [Next]_vars => [A]_vars
  BY <1>1
<1>. QED  BY <1>2, TypeCorrect, PTL DEF Spec, ChildrenGoToo

\* The transaction index names blocks that hold the transaction.
IndexInv == \A t \in Txs : txindex[t] # None => TxOf[txindex[t]] = t

LEMMA IndexCorrect == Spec => []IndexInv
<1>1. Init => IndexInv
  BY DEF Init, IndexInv
<1>2. TypeOK /\ IndexInv /\ [Next]_vars => IndexInv'
  <2>. SUFFICES ASSUME TypeOK, IndexInv, [Next]_vars PROVE IndexInv'
    OBVIOUS
  <2>1. CASE BlockConnected
    BY <2>1 DEF BlockConnected, IndexInv, TypeOK
  <2>2. CASE txindex' = txindex
    BY <2>2 DEF IndexInv
  <2>3. Next /\ ~BlockConnected => txindex' = txindex
    BY NextCases, ConnectBlockFacts
       DEF AcceptToMemoryPool, EvictFromMempool, NewChainLock, EnforceBlock, NotifyChainLock,
           TransactionAddedToMempool, TransactionRemovedFromMempool, ConnectTip,
           BlockDisconnected, HandleFullyConfirmedBlock, TakePending, Lookup, WriteOrPark,
           ResolveBlockConflicts, InvalidateBlock, RemoveMempoolConflicts, ReceiveLock, EvictFromCache
  <2>. QED  BY <2>1, <2>2, <2>3 DEF vars
<1>. QED  BY <1>1, <1>2, TypeCorrect, PTL DEF Spec

\* Maps and database: a lock leaves one for the other.
LEMMA HeldKeeps ==
  ASSUME NEW l, Held(l),
         stored \cup archived \subseteq stored' \cup archived',
         pending \cup parked \subseteq pending' \cup parked',
         UNCHANGED worker
  PROVE  Held(l)'
  BY DEF Held, worker

\* A lock the node was given stays in a map, with the worker or in the
\* database, unless its verification fails, or another lock or a ChainLock does
\* its work.
THEOREM LocksAreKept == Spec => NoLockLost
<1> DEFINE A == \A l \in Locks \ pending : Held(l) /\ ~Held(l)' =>
                  IsLocked(l.txid) \/ \E b \in Blocks : TxOf[b] = l.txid /\ HasChainLock(b)
<1>1. IInv /\ IndexInv /\ [Next]_vars => A
  <2>. SUFFICES ASSUME IInv, IndexInv, [Next]_vars, NEW l \in Locks \ pending, Held(l), ~Held(l)'
                PROVE  IsLocked(l.txid) \/ \E b \in Blocks : TxOf[b] = l.txid /\ HasChainLock(b)
    OBVIOUS
  <2>1. ASSUME NEW k \in Locks, Lookup(k)
        PROVE  IsLocked(l.txid) \/ \E b \in Blocks : TxOf[b] = l.txid /\ HasChainLock(b)
    <3> DEFINE block == IF k.txid \in mempool THEN None ELSE txindex[k.txid]
    <3>1. l = k /\ work' = Idle /\ ~KnownInstantSendLock(l)
      BY <2>1 DEF Lookup, Held, KnownInstantSendLock, db, Idle
    <3>2. IsLocked(k.txid) \/ (block # None /\ HasChainLock(block))
      BY <2>1, <3>1 DEF Lookup, Idle
    <3>3. k.txid \in Txs
      BY LockType
    <3>4. block # None => block \in Blocks /\ TxOf[block] = k.txid
      BY <3>3 DEF IInv, TypeOK, IndexInv
    <3>. QED  BY <3>1, <3>2, <3>4
  <2>2. ASSUME Next, \A k \in Locks : ~Lookup(k)
        PROVE  FALSE
    <3>1. ASSUME NEW b \in Blocks, ConnectBlock(b)
          PROVE  FALSE
      BY <3>1, ConnectBlockFacts, RemoveChainedFacts, HeldKeeps
    <3>11. CASE ConnectTip
      BY <3>11, HeldKeeps DEF ConnectTip, db
    <3>2. CASE TransactionAddedToMempool
      BY <3>2, UnparkFacts, HeldKeeps DEF TransactionAddedToMempool, db
    <3>3. CASE TransactionRemovedFromMempool
      BY <3>3, RemoveChainedFacts, HeldKeeps DEF TransactionRemovedFromMempool
    <3>4. CASE BlockConnected
      BY <3>4, UnparkFacts, HeldKeeps DEF BlockConnected
    <3>5. CASE HandleFullyConfirmedBlock
      <4>1. stored \cup archived \subseteq stored' \cup archived'
        BY <3>5 DEF HandleFullyConfirmedBlock, RemoveConfirmedInstantSendLocks, db
      <4>. QED  BY <3>5, <4>1, HeldKeeps DEF HandleFullyConfirmedBlock
    <3>6. CASE TakePending
      BY <3>6 DEF TakePending, Held, db
    <3>7. CASE WriteOrPark
      BY <3>7 DEF WriteOrPark, Held
    <3>8. CASE ResolveBlockConflicts
      <4>1. stored \cup archived \subseteq stored' \cup archived'
        BY <3>8, RemoveChainedFacts DEF ResolveBlockConflicts, db
      <4>2. work # Idle /\ work.lock \in stored \cup archived \cup parked \cup pending
        BY <3>8 DEF ResolveBlockConflicts, Idle, IInv, WorkerInv
      <4>. QED  BY <3>8, <4>1, <4>2 DEF ResolveBlockConflicts, Held
    <3>9. ASSUME NEW b \in Blocks, InvalidateBlock(b)
          PROVE  FALSE
      <4>1. work # Idle /\ work.lock \in stored \cup archived \cup parked \cup pending
        BY <3>9 DEF InvalidateBlock, Invalidating, Idle, IInv, WorkerInv
      <4>. QED  BY <3>9, <4>1 DEF InvalidateBlock, Held, db
    <3>10. CASE RemoveMempoolConflicts
      <4>1. work.lock \in stored \cup archived \cup parked \cup pending
        BY <3>10 DEF RemoveMempoolConflicts, IInv, WorkerInv
      <4>. QED  BY <3>10, <4>1 DEF RemoveMempoolConflicts, Held, db
    <3>. QED
      BY <2>2, <3>1, <3>2, <3>3, <3>4, <3>5, <3>6, <3>7, <3>8, <3>9, <3>10, <3>11, NextCases, HeldKeeps
         DEF AcceptToMemoryPool, EvictFromMempool, NewChainLock, EnforceBlock, NotifyChainLock,
             BlockDisconnected, ReceiveLock, EvictFromCache, db
  <2>. QED  BY <2>1, <2>2 DEF vars, worker, db, Held
<1>2. IInv /\ IndexInv /\ [Next]_vars => [A]_vars
  BY <1>1
<1>. QED  BY <1>2, Inductive, IndexCorrect, PTL DEF Spec, NoLockLost

=============================================================================
