----------------------------- MODULE ChainLocks -----------------------------
(***************************************************************************)
(* One node's CChainLocksHandler and ChainLockSigner (chainlock/), with    *)
(* the part of validation.cpp they steer: accepting headers and blocks,    *)
(* EnforceBlock and ActivateBestChain.                                     *)
(*                                                                         *)
(* A CLSIG [height, block] carries a valid recovered signature.  Work is   *)
(* the height of a block.  Three threads meet here: the message handler,   *)
(* a signing worker (HandleNewRecoveredSig) and the "cl-schdlr" scheduler. *)
(***************************************************************************)
EXTENDS Integers, FiniteSets

CONSTANTS
  Blocks, Genesis,          \* the blocks the network may produce
  Parent, Ancestors,        \* the tree they form: pprev and, with the block itself, GetAncestor
  Clsigs,                   \* CLSIGs the quorums create
  Threads,                  \* threads that call ProcessNewChainLock
  OtherSubmitters,          \* blocks also come from RPC or an import thread
  MaxSporkChanges,          \* bound on changes of SPORK_19
  MaxRestarts,              \* bound on restarts
  Null

ASSUME TreeAssumption ==
  /\ Genesis \in Blocks
  /\ Parent \in [Blocks \ {Genesis} -> Blocks]
  /\ Ancestors \in [Blocks -> SUBSET Blocks]
  /\ Ancestors[Genesis] = {Genesis}
  /\ \A b \in Blocks \ {Genesis} : Ancestors[b] = {b} \cup Ancestors[Parent[b]]
  /\ \A b \in Blocks : \A a \in Ancestors[b] : Ancestors[a] \subseteq Ancestors[b]
  /\ Clsigs \subseteq [height : Nat, block : Blocks]
  /\ Threads \subseteq {"net", "recsig"}
  /\ OtherSubmitters \in BOOLEAN
  /\ MaxSporkChanges \in Nat /\ MaxRestarts \in Nat
  /\ Null \notin Blocks \cup Clsigs

Height(b) == Cardinality(Ancestors[b]) - 1

\* GetAncestor: a block has one ancestor at every height up to its own.
ASSUME HeightAssumption ==
  /\ \A b \in Blocks : Height(b) \in Nat
  /\ \A b \in Blocks \ {Genesis} : Height(b) = Height(Parent[b]) + 1
  /\ \A b \in Blocks : \A h \in 0 .. Height(b) : \E a \in Ancestors[b] : Height(a) = h
  /\ \A b \in Blocks : \A a \in Ancestors[b] :
       Height(a) <= Height(b) /\ \A c \in Ancestors[b] : Height(a) = Height(c) => a = c

VARIABLES
  headers, blocks,     \* block index: known headers, and those with data
  failed, conflict,    \* BLOCK_FAILED_VALID and BLOCK_CONFLICT_CHAINLOCK
  tip,                 \* m_chain.Tip()
  spork, enabled,      \* SPORK_19 active; isEnabled as last read from it
  seen,                \* seenChainLocks
  best,                \* bestChainLock
  bestKnown, bestIdx,  \* bestChainLockWithKnownBlock, bestChainLockBlockIndex
  lastNotify,          \* lastNotifyChainLockBlockIndex
  call,                \* ProcessNewChainLock per thread: [pc, cl, idx]
  job,                 \* scheduler job: [pc, idx]
  unlocked,            \* history: locks that a reset erased under the job enforcing them
  lastSigned,          \* lastSignedHeight and lastSignedMsgHash
  sporkChanges, restarts

chain == <<headers, blocks, failed, conflict, tip>>
locks == <<best, bestKnown, bestIdx, lastNotify>>
vars == <<chain, spork, enabled, seen, locks, call, job, unlocked, lastSigned, sporkChanges, restarts>>

-----------------------------------------------------------------------------
(***************************************************************************)
(* The block tree.                                                         *)
(***************************************************************************)

Children(b) == {c \in headers \ {Genesis} : Parent[c] = b}

\* the best ChainLock with a known block, as HasConflictingChainLock sees it
Lock == IF enabled THEN bestIdx ELSE Null
\* mutant: the block at the locked height itself is not checked
HasConflictingBelow(b, lock) == lock # Null /\ Height(b) < Height(lock) /\ b \notin Ancestors[lock]

HasConflictingChainLock(b, lock) ==
  /\ lock # Null
  /\ Height(b) <= Height(lock)
  /\ b \notin Ancestors[lock]

BestChainLockHeight == IF best = Null THEN -1 ELSE best.height

NoCall == [pc |-> "idle", cl |-> Null, idx |-> Null]
NoJob == [pc |-> "idle", idx |-> Null]

TypeOK ==
  /\ headers \subseteq Blocks /\ blocks \subseteq headers
  /\ failed \subseteq headers /\ conflict \subseteq headers
  /\ tip \in blocks
  /\ spork \in BOOLEAN /\ enabled \in BOOLEAN
  /\ seen \subseteq Clsigs
  /\ best \in Clsigs \cup {Null} /\ bestKnown \in Clsigs \cup {Null}
  /\ bestIdx \in headers \cup {Null} /\ lastNotify \in headers \cup {Null}
  /\ call \in [Threads -> [pc : {"idle", "wasOff", "reset", "lookup", "store"},
                           cl : Clsigs \cup {Null}, idx : Blocks \cup {Null}]]
  /\ job \in [pc : {"idle", "wasOff", "reset", "enforce", "activate", "notify", "cleanup", "sign", "ask"},
              idx : Blocks \cup {Null}]
  /\ unlocked \subseteq Blocks
  /\ lastSigned \in Blocks \cup {Null}
  /\ sporkChanges \in 0 .. MaxSporkChanges /\ restarts \in 0 .. MaxRestarts

Init ==
  /\ headers = {Genesis} /\ blocks = {Genesis} /\ failed = {} /\ conflict = {}
  /\ tip = Genesis
  /\ spork = TRUE /\ enabled = FALSE
  /\ seen = {}
  /\ best = Null /\ bestKnown = Null /\ bestIdx = Null /\ lastNotify = Null
  /\ call = [t \in Threads |-> NoCall]
  /\ job = NoJob
  /\ unlocked = {}
  /\ lastSigned = Null
  /\ sporkChanges = 0 /\ restarts = 0

-----------------------------------------------------------------------------
(***************************************************************************)
(* validation.cpp                                                          *)
(***************************************************************************)

\* the path from the highest block of c's branch that is in S up to c
PathAbove(c, S) ==
  {x \in Ancestors[c] : \E a \in S \cap Ancestors[x] : \A y \in S \cap Ancestors[c] : Height(y) <= Height(a)}

\* FindMostWorkChain, ActivateBestChainStep: try the chains with data in the
\* order of their work, walking down from their ends to the active chain.  A
\* chain with a marked block is dropped and its upper part gets the mark; one
\* that ConnectBlock refuses is marked as failed.  A tie does not move the tip.
ActivateBestChain(data, marked, lock) ==
  LET branch(c) == Ancestors[c] \ Ancestors[tip]
      bad(c) == branch(c) \cap (failed \cup marked)
      refused(c) == {x \in branch(c) : \E a \in Ancestors[x] \cap branch(c) : HasConflictingChainLock(a, lock)}
      linked == {c \in data : Ancestors[c] \subseteq data}
      good == {c \in linked : bad(c) \cup refused(c) = {}}
      most == {c \in good : \A d \in good : Height(d) <= Height(c)}
      tried == {c \in linked : Height(c) > Height(tip')}
      dropped(S) == UNION {PathAbove(c, bad(c)) : c \in {d \in tried : PathAbove(d, bad(d)) \cap S # {}}}
  IN  /\ tip' \in IF tip \in most THEN {tip} ELSE most
      /\ failed' = failed \cup dropped(failed) \cup UNION {refused(c) : c \in {d \in tried : bad(d) = {}}}
      /\ conflict' = marked \cup dropped(marked \ failed)

\* mutant: the callback only logs
AcceptedBlockHeaderIgnored(b) == UNCHANGED <<bestKnown, bestIdx>>

\* AcceptedBlockHeader, the callback of AcceptBlockHeader
AcceptedBlockHeader(b) ==
  IF best # Null /\ best.block = b /\ best.height = Height(b)
    THEN bestKnown' = best /\ bestIdx' = b
    ELSE UNCHANGED <<bestKnown, bestIdx>>

\* The message handler is one thread: it takes no header while in a CLSIG.
MaySubmit == OtherSubmitters \/ ("net" \in Threads => call["net"].pc = "idle")

AcceptBlockHeader(b) ==
  /\ MaySubmit
  /\ b \notin headers /\ Parent[b] \in headers
  /\ Ancestors[b] \cap failed = {} /\ Parent[b] \notin conflict
  /\ headers' = headers \cup {b}
  /\ IF HasConflictingChainLock(b, Lock)
       THEN conflict' = conflict \cup {b} /\ UNCHANGED <<bestKnown, bestIdx>>
       ELSE AcceptedBlockHeader(b) /\ UNCHANGED conflict
  /\ UNCHANGED <<blocks, failed, tip, spork, enabled, seen, best, lastNotify, call, job,
                 unlocked, lastSigned, sporkChanges, restarts>>

AcceptBlock(b) ==
  /\ MaySubmit
  /\ b \in headers \ (blocks \cup failed \cup conflict)
  /\ blocks' = blocks \cup {b}
  /\ ActivateBestChain(blocks', conflict, Lock)
  /\ UNCHANGED <<headers, spork, enabled, seen, locks, call, job, unlocked, lastSigned, sporkChanges, restarts>>

-----------------------------------------------------------------------------
(***************************************************************************)
(* ProcessNewChainLock.  The handler's lock is free while the signature is *)
(* verified and while the block index is read.                             *)
(***************************************************************************)

\* CheckActiveState loads isEnabled and then stores the state of the spork in
\* it, both without a lock.  If ChainLocks were off before, what is known of them
\* is stale and is reset later, under cs: another thread may have turned them on
\* and stored a ChainLock meanwhile.  Without a reset it is one step with what
\* the caller does next.
CheckActiveState(pc, next) ==
  \/ /\ pc = "idle" /\ ~enabled /\ next = "wasOff"
     /\ UNCHANGED <<enabled, locks, unlocked>>
  \/ /\ pc = "idle" /\ enabled /\ next = "checked"
     /\ enabled' = spork
     /\ UNCHANGED <<locks, unlocked>>
  \/ /\ pc = "wasOff" /\ next = IF spork THEN "reset" ELSE "checked"
     /\ enabled' = spork
     /\ UNCHANGED <<locks, unlocked>>
  \/ /\ pc = "reset" /\ next = "checked"
     /\ best' = Null /\ bestKnown' = Null /\ bestIdx' = Null /\ lastNotify' = Null
     /\ unlocked' = IF job.pc \in {"enforce", "activate", "notify"} THEN {job.idx} ELSE {}
     /\ UNCHANGED enabled

\* up to the test that drops a CLSIG seen before, or not higher than the best
ProcessNewChainLock(t, c) ==
  /\ \E next \in {"wasOff", "reset", "checked"} :
       /\ CheckActiveState(call[t].pc, next)
       /\ IF next = "checked"
            THEN /\ seen' = seen \cup {c}
                 /\ call' = IF c \notin seen /\ (best' = Null \/ c.height > best'.height)
                              THEN [call EXCEPT ![t] = [pc |-> "lookup", cl |-> c, idx |-> Null]]
                              ELSE [call EXCEPT ![t] = NoCall]
            ELSE /\ call' = [call EXCEPT ![t] = [pc |-> next, cl |-> c, idx |-> Null]]
                 /\ UNCHANGED seen
  /\ UNCHANGED <<chain, spork, job, lastSigned, sporkChanges, restarts>>

ContinueCheck(t) == call[t].pc \in {"wasOff", "reset"} /\ ProcessNewChainLock(t, call[t].cl)

\* a CLSIG message, ignored while the spork is off
ReceiveClsig(c) ==
  "net" \in Threads /\ spork /\ call["net"].pc = "idle" /\ ProcessNewChainLock("net", c)

\* ChainLockSigner::HandleNewRecoveredSig: only for what this node signed last
HandleNewRecoveredSig(c) ==
  /\ "recsig" \in Threads
  /\ enabled
  /\ lastSigned = c.block
  /\ BestChainLockHeight < c.height
  /\ call["recsig"].pc = "idle" /\ ProcessNewChainLock("recsig", c)

\* VerifyChainLock: the quorum may not be known yet
VerifyFails(t) ==
  /\ call[t].pc = "lookup"
  /\ call' = [call EXCEPT ![t] = NoCall]
  /\ UNCHANGED <<chain, spork, enabled, seen, locks, job, unlocked, lastSigned, sporkChanges, restarts>>

\* mutant: an unknown block gets an entry
LookupBlockIndexInserts(t) ==
  /\ call[t].pc = "lookup"
  /\ call' = [call EXCEPT ![t].pc = "store", ![t].idx = call[t].cl.block]
  /\ UNCHANGED <<chain, spork, enabled, seen, locks, job, unlocked, lastSigned, sporkChanges, restarts>>

LookupBlockIndex(t) ==
  /\ call[t].pc = "lookup"
  /\ call' = [call EXCEPT ![t].pc = "store",
                          ![t].idx = IF call[t].cl.block \in headers THEN call[t].cl.block ELSE Null]
  /\ UNCHANGED <<chain, spork, enabled, seen, locks, job, unlocked, lastSigned, sporkChanges, restarts>>

StoreChainLock(t) ==
  LET c == call[t].cl
      idx == call[t].idx
  IN  /\ call[t].pc = "store"
      /\ call' = [call EXCEPT ![t] = NoCall]
      /\ IF best # Null /\ c.height <= best.height
           THEN UNCHANGED <<best, bestKnown, bestIdx>>
           ELSE /\ best' = c
                /\ IF idx # Null /\ Height(idx) = c.height
                     THEN bestKnown' = c /\ bestIdx' = idx
                     ELSE UNCHANGED <<bestKnown, bestIdx>>
      /\ UNCHANGED <<chain, spork, enabled, seen, lastNotify, job, unlocked, lastSigned, sporkChanges, restarts>>

-----------------------------------------------------------------------------
(***************************************************************************)
(* The scheduler's job: CheckActiveState, EnforceBestChainLock, Cleanup,   *)
(* TrySignChainTip.  It runs every five seconds and on every new tip.      *)
(***************************************************************************)

StartJob ==
  /\ \E next \in {"wasOff", "reset", "checked"} :
       /\ CheckActiveState(job.pc, next)
       /\ job' = IF next = "checked"
                   THEN IF enabled' /\ bestIdx' # Null
                          THEN [pc |-> "enforce", idx |-> bestIdx'] ELSE [pc |-> "cleanup", idx |-> Null]
                   ELSE [pc |-> next, idx |-> Null]
  /\ UNCHANGED <<chain, spork, seen, call, lastSigned, sporkChanges, restarts>>

\* the blocks that compete with a block of the walk; mutant: none is found
NoSiblings(walk) == {}
Siblings(walk) == UNION {Children(Parent[w]) \ {w} : w \in walk}

\* EnforceBlock marks, on the way from the locked block down to the active
\* chain, every sibling as conflicting; a sibling that is active is
\* disconnected and the active blocks above it are marked with it.
\* ResetBlockFailureFlags clears failure marks, not conflict marks.
EnforceBlock ==
  LET idx == job.idx
      walk == Ancestors[idx] \ Ancestors[tip]
      siblings == Siblings(walk)
      off == {a \in Ancestors[tip] : Ancestors[a] \cap siblings # {}}
      line == {b \in Blocks : b \in Ancestors[idx] \/ idx \in Ancestors[b]}
  IN  /\ job.pc = "enforce"
      /\ conflict' = conflict \cup siblings \cup off
      /\ \E a \in Ancestors[tip] \ off :
           (\A x \in Ancestors[tip] \ off : Height(x) <= Height(a)) /\ tip' = a
      /\ failed' = IF idx \in failed THEN failed \ line ELSE failed
      /\ job' = [job EXCEPT !.pc = "activate"]
      /\ UNCHANGED <<headers, blocks, spork, enabled, seen, locks, call, unlocked, lastSigned,
                     sporkChanges, restarts>>

\* mutant: no second look after ActivateBestChain
ActivateNeededOnce ==
  /\ job.pc = "activate"
  /\ IF job.idx \in Ancestors[tip]
       THEN UNCHANGED <<tip, failed, conflict>> ELSE ActivateBestChain(blocks, conflict, Lock)
  /\ job' = [job EXCEPT !.pc = "notify"]
  /\ UNCHANGED <<headers, blocks, spork, enabled, seen, locks, call, unlocked, lastSigned, sporkChanges, restarts>>

\* "activateNeeded": the locked block is not active; give up if it still is not
ActivateNeeded ==
  /\ job.pc = "activate"
  /\ IF job.idx \in Ancestors[tip]
       THEN UNCHANGED <<tip, failed, conflict>> ELSE ActivateBestChain(blocks, conflict, Lock)
  /\ job' = IF job.idx \in Ancestors[tip'] THEN [job EXCEPT !.pc = "notify"]
            ELSE [pc |-> "cleanup", idx |-> Null]
  /\ UNCHANGED <<headers, blocks, spork, enabled, seen, locks, call, unlocked, lastSigned, sporkChanges, restarts>>

NotifyChainLock ==
  /\ job.pc = "notify"
  /\ lastNotify' = job.idx
  /\ job' = [pc |-> "cleanup", idx |-> Null]
  /\ UNCHANGED <<chain, spork, enabled, seen, best, bestKnown, bestIdx, call, unlocked, lastSigned,
                 sporkChanges, restarts>>

\* entries of seenChainLocks older than CLEANUP_SEEN_TIMEOUT
Cleanup ==
  /\ job.pc = "cleanup"
  /\ \E old \in SUBSET seen : seen' = seen \ old
  /\ job' = [pc |-> "sign", idx |-> Null]
  /\ unlocked' = unlocked \cap {lastNotify}
  /\ UNCHANGED <<chain, spork, enabled, locks, call, lastSigned, sporkChanges, restarts>>

\* the conditions under which the signer asks for no signature on block b
NotToSign(b) ==
  \/ ~enabled \/ b = Genesis
  \/ lastSigned # Null /\ Height(lastSigned) = Height(b)
  \/ BestChainLockHeight >= Height(b)
  \/ HasConflictingChainLock(b, Lock)

\* TrySignChainTip up to the walk over the transactions, which may find one
\* that is neither locked nor old enough
TrySignChainTip ==
  /\ job.pc = "sign"
  /\ \/ ~NotToSign(tip) /\ job' = [pc |-> "ask", idx |-> tip]
     \/ job' = NoJob
  /\ UNCHANGED <<chain, spork, enabled, seen, locks, call, unlocked, lastSigned, sporkChanges, restarts>>

\* "might have happened while we didn't hold cs"; then AsyncSignIfMember
AskForSignature ==
  /\ job.pc = "ask"
  /\ lastSigned' = IF BestChainLockHeight >= Height(job.idx) THEN lastSigned ELSE job.idx
  /\ job' = NoJob
  /\ UNCHANGED <<chain, spork, enabled, seen, locks, call, unlocked, sporkChanges, restarts>>

-----------------------------------------------------------------------------
ChangeSpork ==
  /\ sporkChanges < MaxSporkChanges
  /\ sporkChanges' = sporkChanges + 1
  /\ spork' = ~spork
  /\ UNCHANGED <<chain, enabled, seen, locks, call, job, unlocked, lastSigned, restarts>>

\* Everything about ChainLocks is in memory.  The block index is on disk, but
\* MarkConflictingBlock does not make an entry dirty: its marks may be lost.
\* The start of the node activates the best chain.
Restart ==
  /\ restarts < MaxRestarts
  /\ restarts' = restarts + 1
  /\ \E marked \in SUBSET conflict : ActivateBestChain(blocks, marked, Null)
  /\ enabled' = FALSE
  /\ seen' = {}
  /\ best' = Null /\ bestKnown' = Null /\ bestIdx' = Null /\ lastNotify' = Null
  /\ call' = [t \in Threads |-> NoCall]
  /\ job' = NoJob
  /\ unlocked' = {}
  /\ lastSigned' = Null
  /\ UNCHANGED <<headers, blocks, spork, sporkChanges>>

Handler(t) == ContinueCheck(t) \/ VerifyFails(t) \/ LookupBlockIndex(t) \/ StoreChainLock(t)
Scheduler ==
  \/ StartJob \/ EnforceBlock \/ ActivateNeeded \/ NotifyChainLock
  \/ Cleanup \/ TrySignChainTip \/ AskForSignature

Next ==
  \/ \E b \in Blocks \ {Genesis} : AcceptBlockHeader(b) \/ AcceptBlock(b)
  \/ \E c \in Clsigs : ReceiveClsig(c) \/ HandleNewRecoveredSig(c)
  \/ \E t \in Threads : Handler(t)
  \/ Scheduler
  \/ ChangeSpork \/ Restart

Spec == Init /\ [][Next]_vars

-----------------------------------------------------------------------------
(***************************************************************************)
(* Properties.                                                             *)
(***************************************************************************)

\* What quorum signing has to provide: CLSIGs of one branch only.
Compatible ==
  \A c, d \in Clsigs : Height(c.block) <= Height(d.block) => c.block \in Ancestors[d.block]

\* ProcessNewChainLock and AcceptedBlockHeader between them never miss the
\* block of the best CLSIG: once its header is known it is the one enforced.
KnownBestIsIndexed ==
  best # Null /\ best.block \in headers /\ Height(best.block) = best.height => bestIdx = best.block

\* The strengthening that makes it inductive: a lookup is not outdated when it
\* is stored.  The message handler takes no header meanwhile, and the signing
\* worker only handles what this node signed, which it knows.
LookedUp ==
  \A t \in Threads :
    /\ call[t].pc # "idle" => call[t].cl \in Clsigs
    /\ call[t].pc = "store" =>
         call[t].idx = IF call[t].cl.block \in headers THEN call[t].cl.block ELSE Null
SignedIsKnown ==
  /\ lastSigned # Null => lastSigned \in headers
  /\ "recsig" \in Threads /\ call["recsig"].pc # "idle" => call["recsig"].cl.block \in headers
JobIsKnown == job.pc \in {"enforce", "activate", "notify", "ask"} => job.idx \in headers
IndexIsLocked == bestIdx # Null => \E d \in Clsigs : bestIdx = d.block
TipIsLinked == Ancestors[tip] \subseteq blocks
JobIsLocked ==
  job.pc \in {"enforce", "activate", "notify"} => \E d \in Clsigs : job.idx = d.block
IndInv ==
  TypeOK /\ LookedUp /\ SignedIsKnown /\ JobIsKnown /\ IndexIsLocked /\ TipIsLinked /\ KnownBestIsIndexed

\* A ChainLock that was announced (NotifyChainLock) stays in the active chain,
\* whatever longer chains arrive, as long as ChainLocks stay enabled.  The one
\* exception: a thread that found them off before another turned them on comes
\* late with its reset and erases the lock that the job is about to announce.
AnnouncedStaysActive ==
  enabled /\ lastNotify # Null /\ lastNotify \notin unlocked => lastNotify \in Ancestors[tip]

\* Its strengthening while the spork is on: what was announced, or is about to
\* be, is on the chain of the best ChainLock, which only grows, and no step
\* disconnects that chain (NoLockedBlockDisconnected).
AnnouncedInv ==
  /\ spork
  /\ ~enabled => /\ best = Null /\ bestIdx = Null /\ lastNotify = Null
                 /\ job.pc \in {"idle", "wasOff"}
                 /\ \A t \in Threads : call[t].pc \in {"idle", "wasOff"}
  /\ bestIdx # Null => best # Null /\ Height(bestIdx) <= best.height
  /\ job.pc \in {"enforce", "activate", "notify"} /\ job.idx \notin unlocked =>
       /\ bestIdx # Null /\ job.idx \in Ancestors[bestIdx]
       /\ job.pc = "notify" => job.idx \in Ancestors[tip]
  /\ lastNotify # Null /\ lastNotify \notin unlocked =>
       bestIdx # Null /\ lastNotify \in Ancestors[bestIdx] \cap Ancestors[tip]

\* No step disconnects an active block that the best ChainLock locks, not even
\* before that ChainLock is enforced: EnforceBlock and ActivateBestChain only
\* move towards it.
NoLockedBlockDisconnected ==
  [][enabled /\ enabled' /\ bestIdx # Null
       => (Ancestors[tip] \ Ancestors[tip']) \cap Ancestors[bestIdx] = {}]_vars

\* Both threads run on; the message handler's and the scheduler's loops never
\* stop while the node is up.
FairSpec ==
  /\ Spec
  /\ \A t \in Threads : WF_vars(Handler(t))
  /\ WF_vars(Scheduler)

\* EnforceBestChainLock: when the chain below the best ChainLock is complete,
\* it becomes active, unless another ChainLock, the spork or the reset of
\* CheckActiveState comes first.
EventuallyEnforced ==
  \A b \in {c.block : c \in Clsigs} :
    (enabled /\ bestIdx = b /\ Ancestors[b] \subseteq blocks) ~> (b \in Ancestors[tip] \/ ~enabled \/ bestIdx # b)
=============================================================================
