-------------------------- MODULE ChainLocksProofs --------------------------
(***************************************************************************)
(* Proofs about ChainLocks, for every block tree, every set of compatible  *)
(* CLSIGs and any number of restarts and spork changes.                    *)
(***************************************************************************)
EXTENDS ChainLocks, TLAPS

\* Next, one disjunct per action: the case split of the inductive step.
LEMMA NextCases ==
  ASSUME Next
  PROVE  \/ \E b \in Blocks \ {Genesis} : AcceptBlockHeader(b)
         \/ \E b \in Blocks \ {Genesis} : AcceptBlock(b)
         \/ \E c \in Clsigs : ReceiveClsig(c)
         \/ \E c \in Clsigs : HandleNewRecoveredSig(c)
         \/ \E t \in Threads : ContinueCheck(t)
         \/ \E t \in Threads : VerifyFails(t)
         \/ \E t \in Threads : LookupBlockIndex(t)
         \/ \E t \in Threads : StoreChainLock(t)
         \/ StartJob \/ EnforceBlock \/ ActivateNeeded \/ NotifyChainLock
         \/ Cleanup \/ TrySignChainTip \/ AskForSignature
         \/ ChangeSpork \/ Restart
  BY DEF Next, Handler, Scheduler

\* A CLSIG names a block.
LEMMA ClsigBlock == \A c \in Clsigs : c.block \in Blocks
  BY TreeAssumption

-----------------------------------------------------------------------------
(***************************************************************************)
(* The chain.                                                              *)
(***************************************************************************)

\* ActivateBestChain ends on a block whose chain has its data, and marks only
\* blocks of the index.
LEMMA ActivateEffect ==
  ASSUME TypeOK, TipIsLinked,
         NEW data, blocks \subseteq data, data \subseteq headers,
         NEW marked, marked \subseteq headers, NEW lock,
         ActivateBestChain(data, marked, lock)
  PROVE  /\ tip' \in data /\ Ancestors[tip'] \subseteq data
         /\ failed' \subseteq headers /\ conflict' \subseteq headers
<1> DEFINE branch(c) == Ancestors[c] \ Ancestors[tip]
           bad(c) == branch(c) \cap (failed \cup marked)
           refused(c) == {x \in branch(c) : \E a \in Ancestors[x] \cap branch(c) : HasConflictingChainLock(a, lock)}
           linked == {c \in data : Ancestors[c] \subseteq data}
           good == {c \in linked : bad(c) \cup refused(c) = {}}
           most == {c \in good : \A d \in good : Height(d) <= Height(c)}
           tried == {c \in linked : Height(c) > Height(tip')}
           dropped(S) == UNION {PathAbove(c, bad(c)) : c \in {d \in tried : PathAbove(d, bad(d)) \cap S # {}}}
<1>1. /\ tip' \in IF tip \in most THEN {tip} ELSE most
      /\ failed' = failed \cup dropped(failed) \cup UNION {refused(c) : c \in {d \in tried : bad(d) = {}}}
      /\ conflict' = marked \cup dropped(marked \ failed)
  BY Zenon DEF ActivateBestChain
<1>2. tip' \in most
  BY <1>1
<1>3. \A c \in tried : Ancestors[c] \subseteq headers
  OBVIOUS
<1>4. \A c \in tried : PathAbove(c, bad(c)) \subseteq headers
  <2>1. \A c, S : PathAbove(c, S) \subseteq Ancestors[c]
    BY DEF PathAbove
  <2> QED BY <2>1, <1>3
<1>5. \A S : dropped(S) \subseteq headers
  BY <1>4
<1>6. UNION {refused(c) : c \in {d \in tried : bad(d) = {}}} \subseteq headers
  BY <1>3
<1>7. failed' \subseteq headers
  <2>1. failed \subseteq headers /\ dropped(failed) \subseteq headers
    BY <1>5 DEF TypeOK
  <2> QED
    BY <2>1, <1>1, <1>6, Zenon
<1>8. conflict' \subseteq headers
  BY <1>1, <1>5
<1> QED
  BY <1>2, <1>7, <1>8

\* EnforceBlock only walks down the active chain.
LEMMA EnforceEffect ==
  ASSUME TypeOK, TipIsLinked, JobIsKnown, EnforceBlock
  PROVE  /\ tip' \in blocks /\ Ancestors[tip'] \subseteq blocks
         /\ failed' \subseteq headers /\ conflict' \subseteq headers
<1> DEFINE walk == Ancestors[job.idx] \ Ancestors[tip]
           siblings == Siblings(walk)
           off == {a \in Ancestors[tip] : Ancestors[a] \cap siblings # {}}
<1>1. tip' \in Ancestors[tip]
  BY DEF EnforceBlock
<1>2. tip \in Blocks
  BY DEF TypeOK
<1>3. tip' \in blocks /\ Ancestors[tip'] \subseteq blocks
  BY <1>1, <1>2, TreeAssumption DEF TipIsLinked
<1>4. siblings \subseteq headers
  BY DEF Siblings, Children
<1>5. conflict' = conflict \cup siblings \cup off
  BY DEF EnforceBlock
<1>6. conflict' \subseteq headers
  <2>1. off \subseteq headers /\ conflict \subseteq headers
    BY DEF TypeOK, TipIsLinked
  <2> QED
    BY <1>4, <1>5, <2>1, Zenon
<1>7. failed' \subseteq headers
  BY DEF EnforceBlock, TypeOK
<1> QED
  BY <1>3, <1>6, <1>7

-----------------------------------------------------------------------------
(***************************************************************************)
(* The inductive invariant.                                                *)
(***************************************************************************)

\* Nothing is locked and nothing runs when the node starts.
LEMMA IndInit == Init => IndInv
<1> SUFFICES ASSUME Init PROVE IndInv
  OBVIOUS
<1> USE TreeAssumption
<1>1. call \in [Threads -> [pc : {"idle", "wasOff", "reset", "lookup", "store"}, cl : Clsigs \cup {Null}, idx : Blocks \cup {Null}]]
  BY DEF Init, NoCall
<1>2. TypeOK
  <2>1. sporkChanges \in 0 .. MaxSporkChanges /\ restarts \in 0 .. MaxRestarts
    BY DEF Init
  <2> QED
    BY <1>1, <2>1 DEF Init, TypeOK, NoJob
<1>3. LookedUp /\ SignedIsKnown /\ JobIsKnown /\ IndexIsLocked /\ TipIsLinked /\ KnownBestIsIndexed
  BY DEF Init, LookedUp, SignedIsKnown, JobIsKnown, IndexIsLocked, TipIsLinked, KnownBestIsIndexed, NoCall, NoJob
<1> QED
  BY <1>2, <1>3 DEF IndInv

\* The block of a CLSIG is not refused as conflicting with an earlier lock.
LEMMA LockedHeaderAccepted ==
  ASSUME Compatible, IndexIsLocked, NEW c \in Clsigs
  PROVE  ~HasConflictingChainLock(c.block, Lock)
<1>1. CASE Lock = Null
  BY <1>1 DEF HasConflictingChainLock
<1>2. CASE Lock # Null
  <2>1. PICK d \in Clsigs : Lock = d.block
    BY <1>2 DEF Lock, IndexIsLocked
  <2> QED
    BY <2>1 DEF Compatible, HasConflictingChainLock
<1> QED
  BY <1>1, <1>2

\* A new header: the callback finds the best CLSIG waiting for it, and no
\* lookup is under way whose result it could change.
LEMMA HeaderStep ==
  ASSUME Compatible, ~OtherSubmitters, IndInv, NEW b \in Blocks \ {Genesis}, AcceptBlockHeader(b)
  PROVE  IndInv'
<1> USE TreeAssumption DEF IndInv
<1>1. /\ headers' = headers \cup {b} /\ b \notin headers
      /\ UNCHANGED <<blocks, failed, tip, spork, enabled, seen, best, lastNotify, call, job,
                     unlocked, lastSigned, sporkChanges, restarts>>
      /\ conflict' \in {conflict, conflict \cup {b}}
  BY DEF AcceptBlockHeader
<1>2. /\ bestKnown' \in {bestKnown, best}
      /\ \/ bestIdx' = bestIdx
         \/ bestIdx' = b /\ best # Null /\ best.block = b
  BY DEF AcceptBlockHeader, AcceptedBlockHeader
<1>3. TypeOK'
  BY <1>1, <1>2 DEF TypeOK
<1>4. LookedUp'
  <2> SUFFICES ASSUME NEW t \in Threads
               PROVE  /\ call[t].pc # "idle" => call[t].cl \in Clsigs
                      /\ call[t].pc = "store" =>
                           call[t].idx = IF call[t].cl.block \in headers' THEN call[t].cl.block ELSE Null
    BY <1>1 DEF LookedUp
  <2>1. CASE t = "net"
    BY <2>1 DEF AcceptBlockHeader, MaySubmit, LookedUp
  <2>2. CASE t = "recsig"
    BY <2>2, <1>1 DEF LookedUp, SignedIsKnown
  <2> QED
    BY <2>1, <2>2
<1>5. SignedIsKnown' /\ JobIsKnown' /\ TipIsLinked'
  BY <1>1 DEF SignedIsKnown, JobIsKnown, TipIsLinked
<1>6. IndexIsLocked'
  BY <1>1, <1>2 DEF IndexIsLocked, TypeOK
<1>7. KnownBestIsIndexed'
  <2> SUFFICES ASSUME best # Null, best.block \in headers', Height(best.block) = best.height
               PROVE  bestIdx' = best.block
    BY <1>1 DEF KnownBestIsIndexed, Height
  <2>1. CASE best.block \in headers
    BY <2>1, <1>1, <1>2 DEF KnownBestIsIndexed
  <2>2. CASE best.block = b
    <3>1. best \in Clsigs
      BY DEF TypeOK
    <3>2. ~HasConflictingChainLock(b, Lock)
      BY <2>2, <3>1, LockedHeaderAccepted
    <3> QED
      BY <2>2, <3>2 DEF AcceptBlockHeader, AcceptedBlockHeader
  <2> QED
    BY <2>1, <2>2, <1>1
<1> QED
  BY <1>3, <1>4, <1>5, <1>6, <1>7

\* Block data, an enforced lock and a chosen chain leave the ChainLocks alone.
LEMMA ChainStep ==
  ASSUME IndInv, TipIsLinked', tip' \in blocks', blocks \subseteq blocks', blocks' \subseteq headers,
         failed' \subseteq headers, conflict' \subseteq headers,
         UNCHANGED <<headers, spork, enabled, seen, locks, call, unlocked, lastSigned, sporkChanges, restarts>>,
         job' \in [pc : {"activate", "notify"}, idx : {job.idx}] \cup {[pc |-> "cleanup", idx |-> Null], job},
         job.pc \in {"enforce", "activate"} \/ job' = job
  PROVE  IndInv'
<1> USE DEF IndInv, locks
<1>1. TypeOK'
  BY DEF TypeOK
<1>2. LookedUp' /\ SignedIsKnown'
  BY DEF LookedUp, SignedIsKnown
<1>3. JobIsKnown'
  BY DEF JobIsKnown
<1>4. IndexIsLocked' /\ KnownBestIsIndexed'
  BY DEF IndexIsLocked, KnownBestIsIndexed, Height
<1> QED
  BY <1>1, <1>2, <1>3, <1>4

\* The reset after the spork has come back, or nothing.
LEMMA CheckActiveStateEffect ==
  ASSUME IndInv, NEW pc, NEW next, CheckActiveState(pc, next), headers' = headers
  PROVE  /\ enabled' \in BOOLEAN
         /\ best' \in {best, Null} /\ bestKnown' \in {bestKnown, Null}
         /\ bestIdx' \in {bestIdx, Null} /\ lastNotify' \in {lastNotify, Null}
         /\ IndexIsLocked' /\ KnownBestIsIndexed'
         /\ unlocked' \subseteq Blocks
<1>1. CASE UNCHANGED <<locks, unlocked>>
  <2>1. enabled' \in BOOLEAN
    BY DEF CheckActiveState, IndInv, TypeOK
  <2> QED
    BY <1>1, <2>1 DEF IndInv, TypeOK, IndexIsLocked, KnownBestIsIndexed, locks, Height
<1>2. CASE ~UNCHANGED <<locks, unlocked>>
  <2>1. /\ best' = Null /\ bestKnown' = Null /\ bestIdx' = Null /\ lastNotify' = Null
        /\ unlocked' = IF job.pc \in {"enforce", "activate", "notify"} THEN {job.idx} ELSE {}
        /\ enabled' = enabled
    BY <1>2 DEF CheckActiveState
  <2>2. unlocked' \subseteq Blocks
    BY <2>1 DEF IndInv, JobIsKnown, TypeOK
  <2> QED
    BY <2>1, <2>2 DEF IndInv, TypeOK, IndexIsLocked, KnownBestIsIndexed
<1> QED
  BY <1>1, <1>2

\* A CLSIG starts to be processed.
LEMMA ProcessStep ==
  ASSUME IndInv, NEW t \in Threads, NEW c \in Clsigs, ProcessNewChainLock(t, c),
         t = "recsig" => c.block \in headers
  PROVE  IndInv'
<1> USE TreeAssumption DEF IndInv
<1>1. PICK next \in {"wasOff", "reset", "checked"} :
        /\ CheckActiveState(call[t].pc, next)
        /\ IF next = "checked"
             THEN /\ seen' = seen \cup {c}
                  /\ call' = IF c \notin seen /\ (best' = Null \/ c.height > best'.height)
                               THEN [call EXCEPT ![t] = [pc |-> "lookup", cl |-> c, idx |-> Null]]
                               ELSE [call EXCEPT ![t] = NoCall]
             ELSE /\ call' = [call EXCEPT ![t] = [pc |-> next, cl |-> c, idx |-> Null]]
                  /\ UNCHANGED seen
  BY DEF ProcessNewChainLock
<1>2. UNCHANGED <<headers, blocks, failed, conflict, tip, spork, job, lastSigned, sporkChanges, restarts>>
  BY DEF ProcessNewChainLock, chain
<1>3. /\ enabled' \in BOOLEAN
      /\ best' \in {best, Null} /\ bestKnown' \in {bestKnown, Null}
      /\ bestIdx' \in {bestIdx, Null} /\ lastNotify' \in {lastNotify, Null}
      /\ IndexIsLocked' /\ KnownBestIsIndexed'
      /\ unlocked' \subseteq Blocks
  BY <1>1, <1>2, CheckActiveStateEffect
<1>4. PICK new \in {NoCall} \cup [pc : {"wasOff", "reset", "lookup"}, cl : {c}, idx : {Null}] :
        call' = [call EXCEPT ![t] = new]
  BY <1>1
<1>5. seen' \subseteq Clsigs
  BY <1>1 DEF TypeOK
<1>6. /\ new \in [pc : {"idle", "wasOff", "reset", "lookup", "store"}, cl : Clsigs \cup {Null}, idx : Blocks \cup {Null}]
      /\ new.pc # "store" /\ (new.pc # "idle" => new.cl = c)
  BY DEF NoCall
<1>7. call' \in [Threads -> [pc : {"idle", "wasOff", "reset", "lookup", "store"}, cl : Clsigs \cup {Null}, idx : Blocks \cup {Null}]]
  BY <1>4, <1>6 DEF TypeOK
<1>8. TypeOK'
  BY <1>2, <1>3, <1>5, <1>7 DEF TypeOK
<1>9. \A u \in Threads : call'[u] = IF u = t THEN new ELSE call[u]
  BY <1>4 DEF TypeOK
<1>10. LookedUp'
  BY <1>2, <1>6, <1>9 DEF LookedUp
<1>11. SignedIsKnown'
  BY <1>2, <1>6, <1>9 DEF SignedIsKnown
<1>12. JobIsKnown' /\ TipIsLinked'
  BY <1>2 DEF JobIsKnown, TipIsLinked
<1> QED
  BY <1>3, <1>8, <1>10, <1>11, <1>12

\* The lookup reads the block index; the signature may also turn out wrong.
LEMMA CallStep ==
  ASSUME IndInv, NEW t \in Threads, VerifyFails(t) \/ LookupBlockIndex(t)
  PROVE  IndInv'
<1> USE DEF IndInv
<1>1. /\ call[t].pc = "lookup"
      /\ UNCHANGED <<chain, spork, enabled, seen, locks, job, unlocked, lastSigned, sporkChanges, restarts>>
  BY DEF VerifyFails, LookupBlockIndex
<1>2. \/ call' = [call EXCEPT ![t] = NoCall]
      \/ call' = [call EXCEPT ![t] = [pc |-> "store", cl |-> call[t].cl,
                     idx |-> IF call[t].cl.block \in headers THEN call[t].cl.block ELSE Null]]
  <2>1. call[t] \in [pc : {"idle", "wasOff", "reset", "lookup", "store"}, cl : Clsigs \cup {Null}, idx : Blocks \cup {Null}]
    BY DEF TypeOK
  <2> QED
    BY <2>1 DEF VerifyFails, LookupBlockIndex, TypeOK
<1>3. call[t].cl \in Clsigs
  BY <1>1 DEF LookedUp
<1>4. call' \in [Threads -> [pc : {"idle", "wasOff", "reset", "lookup", "store"}, cl : Clsigs \cup {Null}, idx : Blocks \cup {Null}]]
  BY <1>2, <1>3, ClsigBlock DEF TypeOK, NoCall
<1>5. TypeOK'
  BY <1>1, <1>4 DEF TypeOK, chain, locks
<1>6. LookedUp'
  BY <1>1, <1>2, <1>3 DEF LookedUp, TypeOK, NoCall, chain
<1>7. SignedIsKnown'
  BY <1>1, <1>2 DEF SignedIsKnown, TypeOK, NoCall, chain
<1>8. JobIsKnown' /\ TipIsLinked' /\ IndexIsLocked' /\ KnownBestIsIndexed'
  BY <1>1 DEF JobIsKnown, TipIsLinked, IndexIsLocked, KnownBestIsIndexed, chain, locks, Height
<1> QED
  BY <1>5, <1>6, <1>7, <1>8

\* The store: the looked up index is still what the block index says.
LEMMA StoreStep ==
  ASSUME IndInv, NEW t \in Threads, StoreChainLock(t)
  PROVE  IndInv'
<1> USE DEF IndInv
<1>1. /\ call[t].pc = "store" /\ call' = [call EXCEPT ![t] = NoCall]
      /\ UNCHANGED <<chain, spork, enabled, seen, lastNotify, job, unlocked, lastSigned, sporkChanges, restarts>>
  BY DEF StoreChainLock
<1>2. /\ call[t].cl \in Clsigs
      /\ call[t].idx = IF call[t].cl.block \in headers THEN call[t].cl.block ELSE Null
  BY <1>1 DEF LookedUp
<1>3. \/ UNCHANGED <<best, bestKnown, bestIdx>>
      \/ /\ best' = call[t].cl
         /\ IF call[t].idx # Null /\ Height(call[t].idx) = call[t].cl.height
              THEN bestKnown' = call[t].cl /\ bestIdx' = call[t].idx
              ELSE UNCHANGED <<bestKnown, bestIdx>>
  BY DEF StoreChainLock
<1>4. call' \in [Threads -> [pc : {"idle", "wasOff", "reset", "lookup", "store"}, cl : Clsigs \cup {Null}, idx : Blocks \cup {Null}]]
  BY <1>1 DEF TypeOK, NoCall
<1>5. bestIdx' \in headers \cup {Null} /\ best' \in Clsigs \cup {Null} /\ bestKnown' \in Clsigs \cup {Null}
  BY <1>2, <1>3 DEF TypeOK
<1>6. TypeOK'
  BY <1>1, <1>4, <1>5 DEF TypeOK, chain
<1>7. LookedUp' /\ SignedIsKnown' /\ JobIsKnown' /\ TipIsLinked'
  BY <1>1 DEF LookedUp, SignedIsKnown, JobIsKnown, TipIsLinked, TypeOK, NoCall, chain
<1>8. IndexIsLocked'
  BY <1>2, <1>3 DEF IndexIsLocked
<1>9. KnownBestIsIndexed'
  <2>1. headers' = headers /\ (\A b \in Blocks : b # Null)
    BY <1>1, TreeAssumption DEF chain
  <2> QED
    BY <2>1, <1>2, <1>3, ClsigBlock DEF KnownBestIsIndexed, Height
<1> QED
  BY <1>6, <1>7, <1>8, <1>9

\* The steps of the scheduler that do not move the chain.
LEMMA JobStep ==
  ASSUME IndInv, StartJob \/ NotifyChainLock \/ Cleanup \/ TrySignChainTip \/ AskForSignature
  PROVE  IndInv'
<1> USE TreeAssumption DEF IndInv
<1>1. UNCHANGED <<headers, blocks, failed, conflict, tip, spork, call, sporkChanges, restarts>>
  BY DEF StartJob, NotifyChainLock, Cleanup, TrySignChainTip, AskForSignature, chain
<1>2. CASE StartJob
  <2>1. /\ enabled' \in BOOLEAN
        /\ best' \in {best, Null} /\ bestKnown' \in {bestKnown, Null}
        /\ bestIdx' \in {bestIdx, Null} /\ lastNotify' \in {lastNotify, Null}
        /\ IndexIsLocked' /\ KnownBestIsIndexed'
        /\ unlocked' \subseteq Blocks
    BY <1>1, <1>2, CheckActiveStateEffect DEF StartJob
  <2>2. /\ job' \in [pc : {"enforce"}, idx : headers] \cup [pc : {"cleanup", "wasOff", "reset"}, idx : {Null}]
        /\ UNCHANGED <<seen, lastSigned>>
    BY <1>2, <2>1 DEF StartJob, TypeOK
  <2>3. TypeOK'
    BY <1>1, <2>1, <2>2 DEF TypeOK
  <2>4. LookedUp' /\ SignedIsKnown' /\ JobIsKnown' /\ TipIsLinked'
    BY <1>1, <2>2 DEF LookedUp, SignedIsKnown, JobIsKnown, TipIsLinked
  <2> QED
    BY <2>1, <2>3, <2>4
<1>3. CASE ~StartJob
  <2>1. /\ UNCHANGED <<enabled, best, bestKnown, bestIdx>> /\ seen' \subseteq Clsigs
        /\ unlocked' \subseteq Blocks
        /\ lastNotify' \in headers \cup {Null} /\ lastSigned' \in headers \cup {Null}
        /\ job' \in {NoJob, [pc |-> "cleanup", idx |-> Null], [pc |-> "sign", idx |-> Null], [pc |-> "ask", idx |-> tip]}
    <3>1. CASE NotifyChainLock
      BY <3>1 DEF NotifyChainLock, TypeOK, SignedIsKnown, JobIsKnown
    <3>2. CASE Cleanup
      BY <3>2 DEF Cleanup, TypeOK, SignedIsKnown, locks
    <3>3. CASE TrySignChainTip
      BY <3>3 DEF TrySignChainTip, TypeOK, SignedIsKnown, locks
    <3>4. CASE AskForSignature
      BY <3>4 DEF AskForSignature, TypeOK, SignedIsKnown, JobIsKnown, locks
    <3> QED
      BY <1>3, <3>1, <3>2, <3>3, <3>4
  <2>2. TypeOK'
    BY <1>1, <2>1 DEF TypeOK, NoJob
  <2>3. LookedUp' /\ SignedIsKnown' /\ JobIsKnown' /\ TipIsLinked'
    BY <1>1, <2>1 DEF LookedUp, SignedIsKnown, JobIsKnown, TipIsLinked, TypeOK, NoJob
  <2>4. IndexIsLocked' /\ KnownBestIsIndexed'
    BY <1>1, <2>1 DEF IndexIsLocked, KnownBestIsIndexed, Height
  <2> QED
    BY <2>2, <2>3, <2>4
<1> QED
  BY <1>2, <1>3

\* A restart forgets every ChainLock.
LEMMA RestartStep ==
  ASSUME IndInv, Restart
  PROVE  IndInv'
<1> USE TreeAssumption DEF IndInv
<1>1. PICK marked \in SUBSET conflict : ActivateBestChain(blocks, marked, Null)
  BY DEF Restart
<1>2. /\ tip' \in blocks /\ Ancestors[tip'] \subseteq blocks
      /\ failed' \subseteq headers /\ conflict' \subseteq headers
  BY <1>1, ActivateEffect DEF TypeOK
<1>3. TypeOK'
  <2>1. call' \in [Threads -> [pc : {"idle", "wasOff", "reset", "lookup", "store"}, cl : Clsigs \cup {Null}, idx : Blocks \cup {Null}]]
    BY DEF Restart, NoCall
  <2>2. restarts' \in 0 .. MaxRestarts
    BY DEF Restart, TypeOK
  <2>3. /\ job' = [pc |-> "idle", idx |-> Null]
        /\ UNCHANGED <<headers, blocks, spork, sporkChanges>>
        /\ enabled' = FALSE /\ seen' = {} /\ best' = Null /\ bestKnown' = Null
        /\ bestIdx' = Null /\ lastNotify' = Null /\ lastSigned' = Null /\ unlocked' = {}
    BY DEF Restart, NoJob
  <2> QED
    BY <1>2, <2>1, <2>2, <2>3 DEF TypeOK
<1>4. LookedUp' /\ SignedIsKnown' /\ JobIsKnown' /\ TipIsLinked' /\ IndexIsLocked' /\ KnownBestIsIndexed'
  BY <1>2 DEF Restart, LookedUp, SignedIsKnown, JobIsKnown, TipIsLinked, IndexIsLocked,
              KnownBestIsIndexed, NoCall, NoJob
<1> QED
  BY <1>3, <1>4

\* Every step keeps the invariant.
LEMMA IndStep ==
  ASSUME Compatible, ~OtherSubmitters, IndInv, [Next]_vars
  PROVE  IndInv'
<1> USE TreeAssumption DEF IndInv
<1>1. CASE UNCHANGED vars
  BY <1>1 DEF vars, chain, locks, TypeOK, LookedUp, SignedIsKnown, JobIsKnown, IndexIsLocked,
              TipIsLinked, KnownBestIsIndexed, Height
<1>2. ASSUME NEW b \in Blocks \ {Genesis}, AcceptBlockHeader(b) PROVE IndInv'
  BY <1>2, HeaderStep
<1>3. ASSUME NEW b \in Blocks \ {Genesis}, AcceptBlock(b) PROVE IndInv'
  <2>1. /\ tip' \in blocks' /\ Ancestors[tip'] \subseteq blocks'
        /\ failed' \subseteq headers /\ conflict' \subseteq headers
        /\ blocks \subseteq blocks' /\ blocks' \subseteq headers
    <3>1. /\ blocks \subseteq blocks' /\ blocks' \subseteq headers /\ conflict \subseteq headers
          /\ ActivateBestChain(blocks', conflict, Lock)
      BY <1>3 DEF AcceptBlock, TypeOK
    <3> HIDE DEF IndInv
    <3>2. TypeOK /\ TipIsLinked
      BY DEF IndInv
    <3> QED
      BY <3>1, <3>2, ActivateEffect
  <2> QED
    BY <1>3, <2>1, ChainStep DEF AcceptBlock, TipIsLinked
<1>4. ASSUME NEW c \in Clsigs, ReceiveClsig(c) PROVE IndInv'
  BY <1>4, ProcessStep DEF ReceiveClsig
<1>5. ASSUME NEW c \in Clsigs, HandleNewRecoveredSig(c) PROVE IndInv'
  <2>1. c.block \in headers
    BY <1>5, ClsigBlock DEF HandleNewRecoveredSig, SignedIsKnown
  <2> QED
    BY <1>5, <2>1, ProcessStep DEF HandleNewRecoveredSig
<1>13. ASSUME NEW t \in Threads, ContinueCheck(t) PROVE IndInv'
  <2>1. call[t].cl \in Clsigs /\ (t = "recsig" => call[t].cl.block \in headers)
    BY <1>13 DEF ContinueCheck, LookedUp, SignedIsKnown
  <2> QED
    BY <1>13, <2>1, ProcessStep DEF ContinueCheck
<1>6. ASSUME NEW t \in Threads, VerifyFails(t) \/ LookupBlockIndex(t) PROVE IndInv'
  BY <1>6, CallStep
<1>7. ASSUME NEW t \in Threads, StoreChainLock(t) PROVE IndInv'
  BY <1>7, StoreStep
<1>8. CASE StartJob \/ NotifyChainLock \/ Cleanup \/ TrySignChainTip \/ AskForSignature
  BY <1>8, JobStep
<1>9. CASE EnforceBlock
  <2>1. /\ tip' \in blocks /\ Ancestors[tip'] \subseteq blocks
        /\ failed' \subseteq headers /\ conflict' \subseteq headers
    BY <1>9, EnforceEffect
  <2>2. job.pc = "enforce" /\ job' \in [pc : {"activate", "notify"}, idx : {job.idx}]
    BY <1>9 DEF EnforceBlock, TypeOK
  <2> QED
    BY <1>9, <2>1, <2>2, ChainStep DEF EnforceBlock, TipIsLinked, TypeOK
<1>10. CASE ActivateNeeded
  <2>1. /\ tip' \in blocks /\ Ancestors[tip'] \subseteq blocks
        /\ failed' \subseteq headers /\ conflict' \subseteq headers
    <3>1. CASE job.idx \in Ancestors[tip]
      BY <1>10, <3>1 DEF ActivateNeeded, TypeOK, TipIsLinked
    <3>2. CASE job.idx \notin Ancestors[tip]
      BY <1>10, <3>2, ActivateEffect DEF ActivateNeeded, TypeOK
    <3> QED
      BY <3>1, <3>2
  <2>2. /\ job.pc = "activate"
        /\ job' \in [pc : {"activate", "notify"}, idx : {job.idx}] \cup {[pc |-> "cleanup", idx |-> Null]}
    BY <1>10 DEF ActivateNeeded, TypeOK
  <2> QED
    BY <1>10, <2>1, <2>2, ChainStep DEF ActivateNeeded, TipIsLinked, TypeOK
<1>11. CASE ChangeSpork
  BY <1>11 DEF ChangeSpork, chain, locks, TypeOK, LookedUp, SignedIsKnown, JobIsKnown, IndexIsLocked,
               TipIsLinked, KnownBestIsIndexed, Height
<1>12. CASE Restart
  BY <1>12, RestartStep
<1> QED
  BY <1>1, <1>2, <1>3, <1>4, <1>5, <1>6, <1>7, <1>8, <1>9, <1>10, <1>11, <1>12, <1>13, NextCases

-----------------------------------------------------------------------------
\* The invariant holds throughout, when the quorums lock one branch and every
\* header comes through the message handler.
THEOREM Inductive == Compatible /\ ~OtherSubmitters => (Spec => []IndInv)
<1>1. SUFFICES ASSUME Compatible, ~OtherSubmitters PROVE Spec => []IndInv
  OBVIOUS
<1>2. Init => IndInv
  BY IndInit
<1>3. IndInv /\ [Next]_vars => IndInv'
  BY <1>1, IndStep
<1> QED
  BY <1>2, <1>3, PTL DEF Spec

\* The handler, the block index and the chain keep their types.
THEOREM TypeCorrect == Compatible /\ ~OtherSubmitters => (Spec => []TypeOK)
<1>1. SUFFICES ASSUME Compatible, ~OtherSubmitters PROVE Spec => []TypeOK
  OBVIOUS
<1>2. IndInv => TypeOK
  BY DEF IndInv
<1> QED
  BY <1>1, <1>2, Inductive, PTL

\* ProcessNewChainLock and AcceptedBlockHeader never miss the block of the
\* best CLSIG between them.
THEOREM BestIsIndexed == Compatible /\ ~OtherSubmitters => (Spec => []KnownBestIsIndexed)
<1>1. SUFFICES ASSUME Compatible, ~OtherSubmitters PROVE Spec => []KnownBestIsIndexed
  OBVIOUS
<1>2. IndInv => KnownBestIsIndexed
  BY DEF IndInv
<1> QED
  BY <1>1, <1>2, Inductive, PTL

-----------------------------------------------------------------------------
(***************************************************************************)
(* No block that the best ChainLock locks is disconnected.                 *)
(***************************************************************************)

\* Of two blocks of one chain the lower is an ancestor of the higher.
LEMMA LowerIsAncestor ==
  ASSUME NEW b \in Blocks, NEW a \in Ancestors[b], NEW c \in Ancestors[b], Height(a) <= Height(c)
  PROVE  a \in Ancestors[c]
<1> USE TreeAssumption, HeightAssumption
<1>1. a \in Blocks /\ c \in Blocks /\ Ancestors[c] \subseteq Ancestors[b]
  OBVIOUS
<1>2. Height(a) \in 0 .. Height(c)
  BY <1>1
<1>3. PICK x \in Ancestors[c] : Height(x) = Height(a)
  BY <1>1, <1>2
<1> QED
  BY <1>1, <1>3

\* ActivateBestChain leaves a locked block for no other branch: the block at its
\* height there is refused, and a chain below that height has less work.
LEMMA ActivateKeepsLocked ==
  ASSUME TypeOK, TipIsLinked,
         NEW data, blocks \subseteq data, data \subseteq headers,
         NEW marked, NEW lock \in Blocks,
         ActivateBestChain(data, marked, lock)
  PROVE  (Ancestors[tip] \ Ancestors[tip']) \cap Ancestors[lock] = {}
<1> USE TreeAssumption, HeightAssumption
<1> DEFINE branch(c) == Ancestors[c] \ Ancestors[tip]
           bad(c) == branch(c) \cap (failed \cup marked)
           refused(c) == {x \in branch(c) : \E a \in Ancestors[x] \cap branch(c) : HasConflictingChainLock(a, lock)}
           linked == {c \in data : Ancestors[c] \subseteq data}
           good == {c \in linked : bad(c) \cup refused(c) = {}}
           most == {c \in good : \A d \in good : Height(d) <= Height(c)}
<1>1. tip' \in IF tip \in most THEN {tip} ELSE most
  BY Zenon DEF ActivateBestChain
<1>2. tip' \in good /\ \A d \in good : Height(d) <= Height(tip')
  BY <1>1
<1>3. tip \in good /\ tip \in Blocks /\ tip' \in Blocks
  BY <1>2 DEF TypeOK, TipIsLinked
<1> SUFFICES ASSUME NEW x \in Ancestors[tip], x \notin Ancestors[tip'], x \in Ancestors[lock] PROVE FALSE
  OBVIOUS
<1>4. x \in Blocks /\ Height(x) \in 0 .. Height(tip')
  BY <1>2, <1>3
<1>5. PICK a \in Ancestors[tip'] : Height(a) = Height(x)
  BY <1>3, <1>4
<1>6. a # x /\ a \in branch(tip')
  BY <1>3, <1>5
<1>7. HasConflictingChainLock(a, lock)
  <2>1. a \notin Ancestors[lock]
    BY <1>5, <1>6
  <2>2. Height(a) <= Height(lock)
    BY <1>5
  <2>3. lock # Null
    OBVIOUS
  <2> QED
    BY <2>1, <2>2, <2>3 DEF HasConflictingChainLock
<1>8. a \in Blocks /\ a \in Ancestors[a]
  <2>1. a \in Blocks
    BY <1>3, <1>5
  <2> QED
    BY <2>1
<1>9. a \in refused(tip')
  BY <1>6, <1>7, <1>8
<1> QED
  BY <1>2, <1>9

\* EnforceBlock disconnects siblings of the locked chain and what is above them,
\* none of which is on the chain of a compatible ChainLock.
LEMMA EnforceKeepsLocked ==
  ASSUME Compatible, TypeOK, TipIsLinked, JobIsLocked, EnforceBlock, NEW d \in Clsigs
  PROVE  (Ancestors[tip] \ Ancestors[tip']) \cap Ancestors[d.block] = {}
<1> USE TreeAssumption, HeightAssumption
<1> DEFINE walk == Ancestors[job.idx] \ Ancestors[tip]
           siblings == Siblings(walk)
           off == {a \in Ancestors[tip] : Ancestors[a] \cap siblings # {}}
<1>1. PICK e \in Clsigs : job.idx = e.block
  BY DEF EnforceBlock, JobIsLocked
<1>2. tip \in Blocks /\ d.block \in Blocks /\ e.block \in Blocks
  BY ClsigBlock DEF TypeOK
<1>3. PICK top \in Blocks : Ancestors[d.block] \subseteq Ancestors[top] /\ Ancestors[e.block] \subseteq Ancestors[top]
  BY <1>2 DEF Compatible
<1>4. tip' \in Ancestors[tip] \ off /\ \A x \in Ancestors[tip] \ off : Height(x) <= Height(tip')
  BY DEF EnforceBlock
<1> SUFFICES ASSUME NEW x \in Ancestors[tip], x \notin Ancestors[tip'], x \in Ancestors[d.block] PROVE FALSE
  OBVIOUS
<1>5. x \in off
  BY <1>2, <1>4, LowerIsAncestor
<1>6. PICK s \in siblings : s \in Ancestors[x]
  BY <1>5
<1>7. PICK w \in walk : s \in Children(Parent[w]) \ {w}
  BY <1>6 DEF Siblings
<1>8. w \in Blocks \ {Genesis} /\ s \in Blocks \ {Genesis} /\ Parent[s] = Parent[w]
  <2>1. Genesis \in Ancestors[tip]
    <3>1. PICK g \in Ancestors[tip] : Height(g) = 0
      BY <1>2
    <3> QED
      BY <1>2, <3>1
  <2> QED
    BY <1>1, <1>2, <1>7, <2>1 DEF Children, TypeOK
<1>9. s \in Ancestors[top] /\ w \in Ancestors[top]
  BY <1>1, <1>2, <1>3, <1>6, <1>7
<1> QED
  BY <1>3, <1>7, <1>8, <1>9

\* The scheduler's job works on a block the best ChainLock had.
LEMMA JobLockedStep ==
  ASSUME IndInv, JobIsLocked, [Next]_vars
  PROVE  JobIsLocked'
<1> USE DEF JobIsLocked
<1>1. CASE UNCHANGED job
  BY <1>1
<1>2. CASE StartJob
  <2>1. bestIdx' \in {bestIdx, Null}
    BY <1>2 DEF StartJob, CheckActiveState, locks
  <2>2. \/ job'.pc = "enforce" /\ job'.idx = bestIdx' /\ bestIdx' # Null
        \/ job'.pc \in {"cleanup", "wasOff", "reset"}
    BY <1>2 DEF StartJob
  <2> QED
    BY <2>1, <2>2 DEF IndInv, IndexIsLocked
<1>3. CASE EnforceBlock \/ ActivateNeeded
  <2>1. /\ job.pc \in {"enforce", "activate"}
        /\ job' \in [pc : {"activate", "notify"}, idx : {job.idx}] \cup {[pc |-> "cleanup", idx |-> Null]}
    BY <1>3 DEF EnforceBlock, ActivateNeeded, IndInv, TypeOK
  <2> QED
    BY <2>1
<1>4. CASE NotifyChainLock \/ Cleanup \/ TrySignChainTip \/ AskForSignature \/ Restart
  BY <1>4 DEF NotifyChainLock, Cleanup, TrySignChainTip, AskForSignature, Restart, NoJob
<1>5. ASSUME \/ \E b \in Blocks \ {Genesis} : AcceptBlockHeader(b) \/ AcceptBlock(b)
             \/ \E c \in Clsigs : ReceiveClsig(c) \/ HandleNewRecoveredSig(c)
             \/ \E t \in Threads : ContinueCheck(t) \/ VerifyFails(t) \/ LookupBlockIndex(t) \/ StoreChainLock(t)
             \/ ChangeSpork
      PROVE  UNCHANGED job
  BY <1>5 DEF AcceptBlockHeader, AcceptBlock, ReceiveClsig, HandleNewRecoveredSig, ProcessNewChainLock, ContinueCheck,
              VerifyFails, LookupBlockIndex, StoreChainLock, ChangeSpork
<1> QED
  BY <1>1, <1>2, <1>3, <1>4, <1>5, NextCases DEF vars

\* A step that moves the tip is one of three, or a restart.
LEMMA LockedStep ==
  ASSUME Compatible, IndInv, JobIsLocked, [Next]_vars, enabled, enabled', bestIdx # Null
  PROVE  (Ancestors[tip] \ Ancestors[tip']) \cap Ancestors[bestIdx] = {}
<1>1. PICK d \in Clsigs : bestIdx = d.block
  BY DEF IndInv, IndexIsLocked
<1>2. Lock = bestIdx /\ bestIdx \in Blocks
  BY <1>1, ClsigBlock DEF Lock
<1>3. TypeOK /\ TipIsLinked
  BY DEF IndInv
<1>4. blocks \subseteq headers
  BY <1>3 DEF TypeOK
<1>5. CASE UNCHANGED tip
  BY <1>5
<1>6. ASSUME NEW b \in Blocks \ {Genesis}, AcceptBlock(b)
      PROVE  (Ancestors[tip] \ Ancestors[tip']) \cap Ancestors[bestIdx] = {}
  <2>1. blocks \subseteq blocks' /\ blocks' \subseteq headers /\ ActivateBestChain(blocks', conflict, bestIdx)
    BY <1>2, <1>4, <1>6 DEF AcceptBlock
  <2> QED
    BY <1>2, <1>3, <2>1, ActivateKeepsLocked
<1>7. CASE EnforceBlock
  BY <1>1, <1>3, <1>7, EnforceKeepsLocked
<1>8. CASE ActivateNeeded
  <2>1. CASE job.idx \in Ancestors[tip]
    BY <1>8, <2>1 DEF ActivateNeeded
  <2>2. CASE job.idx \notin Ancestors[tip]
    <3>1. ActivateBestChain(blocks, conflict, bestIdx)
      BY <1>2, <1>8, <2>2 DEF ActivateNeeded
    <3> QED
      BY <1>2, <1>3, <1>4, <3>1, ActivateKeepsLocked
  <2> QED
    BY <2>1, <2>2
<1>9. ~Restart
  BY DEF Restart
<1>10. ASSUME \/ \E b \in Blocks \ {Genesis} : AcceptBlockHeader(b)
              \/ \E c \in Clsigs : ReceiveClsig(c) \/ HandleNewRecoveredSig(c)
              \/ \E t \in Threads : ContinueCheck(t) \/ VerifyFails(t) \/ LookupBlockIndex(t) \/ StoreChainLock(t)
              \/ StartJob \/ NotifyChainLock \/ Cleanup \/ TrySignChainTip \/ AskForSignature
              \/ ChangeSpork
       PROVE  UNCHANGED tip
  BY <1>10 DEF AcceptBlockHeader, ReceiveClsig, HandleNewRecoveredSig, ProcessNewChainLock, ContinueCheck,
               VerifyFails, LookupBlockIndex, StoreChainLock, StartJob, NotifyChainLock, Cleanup,
               TrySignChainTip, AskForSignature, ChangeSpork, chain
<1>11. UNCHANGED vars => UNCHANGED tip
  BY DEF vars, chain
<1> QED
  BY <1>5, <1>6, <1>7, <1>8, <1>9, <1>10, <1>11, NextCases

\* EnforceBlock and ActivateBestChain disconnect no active block of the chain
\* that the best ChainLock locks, whatever blocks, CLSIGs and spork changes come.
THEOREM LockedStaysConnected == Compatible /\ ~OtherSubmitters => (Spec => NoLockedBlockDisconnected)
<1>1. SUFFICES ASSUME Compatible, ~OtherSubmitters PROVE Spec => NoLockedBlockDisconnected
  OBVIOUS
<1>2. Init => JobIsLocked
  BY DEF Init, NoJob, JobIsLocked
<1>3. IndInv /\ JobIsLocked /\ [Next]_vars => JobIsLocked'
  BY JobLockedStep
<1>4. IndInv /\ JobIsLocked /\ [Next]_vars
      => [enabled /\ enabled' /\ bestIdx # Null
            => (Ancestors[tip] \ Ancestors[tip']) \cap Ancestors[bestIdx] = {}]_vars
  BY <1>1, LockedStep
<1>5. Spec => []IndInv
  BY <1>1, Inductive
<1> QED
  BY <1>2, <1>3, <1>4, <1>5, PTL DEF Spec, NoLockedBlockDisconnected

-----------------------------------------------------------------------------
(***************************************************************************)
(* What was announced stays active, while the spork is on.                 *)
(***************************************************************************)

\* A higher ChainLock continues the chain of a lower one.
LEMMA LockContinues ==
  ASSUME Compatible, IndexIsLocked, IndexIsLocked', bestIdx # Null, bestIdx' # Null,
         Height(bestIdx) <= Height(bestIdx')
  PROVE  Ancestors[bestIdx] \subseteq Ancestors[bestIdx']
<1>1. PICK c \in Clsigs : bestIdx = c.block
  BY DEF IndexIsLocked
<1>2. PICK d \in Clsigs : bestIdx' = d.block
  BY DEF IndexIsLocked
<1>3. bestIdx \in Ancestors[bestIdx']
  BY <1>1, <1>2 DEF Compatible
<1> QED
  BY <1>2, <1>3, ClsigBlock, TreeAssumption

\* The best ChainLock with a known block is replaced by higher ones only.
LEMMA LockGrows ==
  ASSUME Compatible, IndInv, IndInv', AnnouncedInv, enabled,
         UNCHANGED <<best, bestIdx>>
         \/ (\E b \in Blocks \ {Genesis} : AcceptBlockHeader(b))
         \/ (\E t \in Threads : StoreChainLock(t))
  PROVE  /\ bestIdx # Null => bestIdx' # Null /\ Ancestors[bestIdx] \subseteq Ancestors[bestIdx']
         /\ bestIdx' # Null => best' # Null /\ Height(bestIdx') <= best'.height
<1> USE TreeAssumption, HeightAssumption
<1>1. /\ IndexIsLocked /\ IndexIsLocked' /\ TypeOK
      /\ best # Null => best.height \in Nat
      /\ bestIdx # Null => Height(bestIdx) \in Nat
  <2>1. IndexIsLocked /\ IndexIsLocked' /\ TypeOK
    BY DEF IndInv
  <2>2. best # Null => best.height \in Nat
    BY <2>1 DEF TypeOK
  <2>3. bestIdx # Null => Height(bestIdx) \in Nat
    BY <2>1 DEF TypeOK
  <2> QED
    BY <2>1, <2>2, <2>3
<1>2. bestIdx # Null => best # Null /\ Height(bestIdx) <= best.height
  BY DEF AnnouncedInv
<1>3. SUFFICES /\ bestIdx # Null => bestIdx' # Null /\ Height(bestIdx) <= Height(bestIdx')
               /\ bestIdx' # Null => best' # Null /\ Height(bestIdx') <= best'.height
  BY <1>1, LockContinues
<1>4. CASE UNCHANGED <<best, bestIdx>>
  BY <1>1, <1>2, <1>4
<1>5. ASSUME NEW b \in Blocks \ {Genesis}, AcceptBlockHeader(b)
      PROVE  /\ bestIdx # Null => bestIdx' # Null /\ Height(bestIdx) <= Height(bestIdx')
             /\ bestIdx' # Null => best' # Null /\ Height(bestIdx') <= best'.height
  <2>1. best' = best
    BY <1>5 DEF AcceptBlockHeader
  <2>2. bestIdx' = bestIdx \/ (bestIdx' = b /\ best # Null /\ best.height = Height(b))
    BY <1>5 DEF AcceptBlockHeader, AcceptedBlockHeader
  <2> QED
    BY <1>1, <1>2, <2>1, <2>2
<1>6. ASSUME NEW t \in Threads, StoreChainLock(t)
      PROVE  /\ bestIdx # Null => bestIdx' # Null /\ Height(bestIdx) <= Height(bestIdx')
             /\ bestIdx' # Null => best' # Null /\ Height(bestIdx') <= best'.height
  <2> DEFINE c == call[t].cl
             idx == call[t].idx
  <2>1. c \in Clsigs /\ c # Null /\ c.height \in Nat
    BY <1>6 DEF StoreChainLock, IndInv, LookedUp
  <2>2. CASE best # Null /\ c.height <= best.height
    BY <1>1, <1>2, <1>6, <2>2 DEF StoreChainLock
  <2>3. CASE best = Null \/ best.height < c.height
    <3>1. best' = c /\ (bestIdx' = bestIdx \/ (bestIdx' = idx /\ idx # Null /\ Height(idx) = c.height))
      BY <1>1, <1>6, <2>1, <2>3 DEF StoreChainLock
    <3> QED
      BY <1>1, <1>2, <2>1, <2>3, <3>1
  <2> QED
    BY <1>1, <2>1, <2>2, <2>3
<1> QED
  BY <1>4, <1>5, <1>6

\* A step that lets the best ChainLock grow, keeps its chain connected, and takes
\* the job forward keeps the invariant.
LEMMA AnnouncedFrame ==
  ASSUME AnnouncedInv, IndInv, IndInv', enabled, spork', enabled',
         bestIdx # Null => bestIdx' # Null /\ Ancestors[bestIdx] \subseteq Ancestors[bestIdx'],
         bestIdx' # Null => best' # Null /\ Height(bestIdx') <= best'.height,
         bestIdx # Null => (Ancestors[tip] \ Ancestors[tip']) \cap Ancestors[bestIdx] = {},
         job'.pc \in {"enforce", "activate", "notify"} =>
           \/ job.pc \in {"enforce", "activate", "notify"} /\ job'.idx = job.idx
           \/ bestIdx' # Null /\ job'.idx = bestIdx',
         job'.pc = "notify" => job = job' \/ job'.idx \in Ancestors[tip'],
         lastNotify' = lastNotify \/ (job.pc = "notify" /\ lastNotify' = job.idx),
         \/ unlocked' = unlocked
         \/ /\ unlocked' = unlocked \cap {lastNotify} /\ lastNotify' = lastNotify
            /\ job'.pc \notin {"enforce", "activate", "notify"}
  PROVE  AnnouncedInv'
<1> USE TreeAssumption DEF AnnouncedInv
<1>1. bestIdx' # Null => bestIdx' \in Ancestors[bestIdx']
  <2>1. bestIdx' # Null => bestIdx' \in Blocks
    BY ClsigBlock DEF IndInv, IndexIsLocked
  <2> QED
    BY <2>1
<1>2. ASSUME job'.pc \in {"enforce", "activate", "notify"}, job'.idx \notin unlocked'
      PROVE  /\ bestIdx' # Null /\ job'.idx \in Ancestors[bestIdx']
             /\ job'.pc = "notify" => job'.idx \in Ancestors[tip']
  <2>1. bestIdx' # Null /\ job'.idx \in Ancestors[bestIdx']
    BY <1>1, <1>2
  <2>2. job'.pc = "notify" => job'.idx \in Ancestors[tip']
    BY <1>2
  <2> QED
    BY <2>1, <2>2
<1>3. ASSUME lastNotify' # Null, lastNotify' \notin unlocked'
      PROVE  bestIdx' # Null /\ lastNotify' \in Ancestors[bestIdx'] \cap Ancestors[tip']
  <2>1. lastNotify' \notin unlocked
    BY <1>3
  <2>2. bestIdx # Null /\ lastNotify' \in Ancestors[bestIdx] \cap Ancestors[tip]
    BY <1>3, <2>1
  <2> QED
    BY <2>2
<1> QED
  BY <1>2, <1>3

\* Before the handler has read the spork there is nothing to announce.
LEMMA DisabledStep ==
  ASSUME AnnouncedInv, IndInv, ~enabled, [Next]_vars, ~Restart, ~ChangeSpork
  PROVE  AnnouncedInv'
<1> USE DEF AnnouncedInv
<1>1. /\ spork /\ best = Null /\ bestIdx = Null /\ lastNotify = Null /\ job.pc \in {"idle", "wasOff"}
      /\ \A t \in Threads : call[t].pc \in {"idle", "wasOff"}
  OBVIOUS
<1>2. CASE UNCHANGED vars
  BY <1>1, <1>2 DEF vars, chain, locks
<1>3. ASSUME NEW b \in Blocks \ {Genesis}, AcceptBlockHeader(b) \/ AcceptBlock(b) PROVE AnnouncedInv'
  BY <1>1, <1>3 DEF AcceptBlockHeader, AcceptBlock, AcceptedBlockHeader, locks
<1>4. ASSUME NEW t \in Threads, NEW c, ProcessNewChainLock(t, c) PROVE AnnouncedInv'
  <2>1. /\ best' = Null /\ bestIdx' = Null /\ lastNotify' = Null /\ UNCHANGED <<spork, job>>
        /\ \/ enabled'
           \/ enabled' = enabled /\ call' = [call EXCEPT ![t] = [pc |-> "wasOff", cl |-> c, idx |-> Null]]
    BY <1>1, <1>4 DEF ProcessNewChainLock, CheckActiveState, locks
  <2>2. enabled' \/ \A u \in Threads : call'[u].pc \in {"idle", "wasOff"}
    BY <1>1, <2>1 DEF IndInv, TypeOK
  <2> QED
    BY <1>1, <2>1, <2>2
<1>5. CASE StartJob
  <2>1. /\ best' = Null /\ bestIdx' = Null /\ lastNotify' = Null /\ UNCHANGED <<spork, call>>
        /\ \/ enabled' /\ job'.pc \in {"reset", "cleanup"}
           \/ enabled' = enabled /\ job'.pc = "wasOff"
    <3>1. PICK next \in {"wasOff", "reset", "checked"} :
            /\ CheckActiveState(job.pc, next)
            /\ next # "checked" => job' = [pc |-> next, idx |-> Null]
      BY <1>5 DEF StartJob
    <3>2. /\ next \in {"wasOff", "reset"} /\ UNCHANGED locks
          /\ next = "wasOff" => enabled' = enabled
          /\ next = "reset" => enabled' = spork
      BY <1>1, <3>1 DEF CheckActiveState
    <3>3. UNCHANGED <<spork, call>>
      BY <1>5 DEF StartJob
    <3>4. job'.pc = next
      BY <3>1, <3>2
    <3>5. next = "reset" => enabled'
      BY <1>1, <3>2
    <3>6. best' = Null /\ bestIdx' = Null /\ lastNotify' = Null
      BY <1>1, <3>2 DEF locks
    <3> QED
      BY <3>2, <3>3, <3>4, <3>5, <3>6
  <2> QED
    BY <1>1, <2>1
<1>6. ASSUME NEW c \in Clsigs, ReceiveClsig(c) PROVE AnnouncedInv'
  BY <1>4, <1>6 DEF ReceiveClsig
<1>7. ASSUME NEW t \in Threads, ContinueCheck(t) PROVE AnnouncedInv'
  BY <1>4, <1>7 DEF ContinueCheck
<1> QED
  BY <1>1, <1>2, <1>3, <1>5, <1>6, <1>7, NextCases
     DEF HandleNewRecoveredSig, VerifyFails, LookupBlockIndex, StoreChainLock, EnforceBlock, ActivateNeeded,
         NotifyChainLock, Cleanup, TrySignChainTip, AskForSignature

\* A late reset leaves nothing announced, and the job with a lock that is marked.
LEMMA ResetStep ==
  ASSUME AnnouncedInv, IndInv, enabled,
         NEW pc, NEW next, CheckActiveState(pc, next), pc = "reset", spork' = spork,
         job' = job \/ job'.pc \notin {"enforce", "activate", "notify"}
  PROVE  AnnouncedInv'
<1>1. /\ best' = Null /\ bestIdx' = Null /\ lastNotify' = Null /\ enabled' = enabled
      /\ job.pc \in {"enforce", "activate", "notify"} => unlocked' = {job.idx}
  BY DEF CheckActiveState
<1> QED
  BY <1>1 DEF AnnouncedInv

\* A step of a thread's reset: the last step of CheckActiveState.
Resets == (StartJob /\ job.pc = "reset") \/ \E t \in Threads : ContinueCheck(t) /\ call[t].pc = "reset"

\* What the other actions do to job, lastNotify, spork, enabled and unlocked.
LEMMA JobEffect ==
  ASSUME AnnouncedInv, IndInv, enabled, [Next]_vars, ~Restart, ~ChangeSpork, ~Resets
  PROVE  /\ spork' /\ enabled'
         /\ \/ UNCHANGED <<best, bestIdx>>
            \/ \E b \in Blocks \ {Genesis} : AcceptBlockHeader(b)
            \/ \E t \in Threads : StoreChainLock(t)
         /\ job'.pc \in {"enforce", "activate", "notify"} =>
              \/ job.pc \in {"enforce", "activate", "notify"} /\ job'.idx = job.idx
              \/ bestIdx' # Null /\ job'.idx = bestIdx'
         /\ job'.pc = "notify" => job = job' \/ job'.idx \in Ancestors[tip']
         /\ lastNotify' = lastNotify \/ (job.pc = "notify" /\ lastNotify' = job.idx)
         /\ \/ unlocked' = unlocked
            \/ /\ unlocked' = unlocked \cap {lastNotify} /\ lastNotify' = lastNotify
               /\ job'.pc \notin {"enforce", "activate", "notify"}
<1> DEFINE P == /\ spork' /\ enabled'
                /\ \/ UNCHANGED <<best, bestIdx>>
                   \/ \E b \in Blocks \ {Genesis} : AcceptBlockHeader(b)
                   \/ \E t \in Threads : StoreChainLock(t)
                /\ job'.pc \in {"enforce", "activate", "notify"} =>
                     \/ job.pc \in {"enforce", "activate", "notify"} /\ job'.idx = job.idx
                     \/ bestIdx' # Null /\ job'.idx = bestIdx'
                /\ job'.pc = "notify" => job = job' \/ job'.idx \in Ancestors[tip']
                /\ lastNotify' = lastNotify \/ (job.pc = "notify" /\ lastNotify' = job.idx)
                /\ \/ unlocked' = unlocked
                   \/ /\ unlocked' = unlocked \cap {lastNotify} /\ lastNotify' = lastNotify
                      /\ job'.pc \notin {"enforce", "activate", "notify"}
<1>1. spork
  BY DEF AnnouncedInv
<1>2. ASSUME \/ \E b \in Blocks \ {Genesis} : AcceptBlockHeader(b)
             \/ \E t \in Threads : StoreChainLock(t)
      PROVE  P
  BY <1>1, <1>2 DEF AcceptBlockHeader, StoreChainLock
<1>3. ASSUME \/ UNCHANGED vars
             \/ \E b \in Blocks \ {Genesis} : AcceptBlock(b)
             \/ \E t \in Threads : VerifyFails(t) \/ LookupBlockIndex(t)
      PROVE  P
  BY <1>1, <1>3 DEF vars, chain, locks, AcceptBlock, VerifyFails, LookupBlockIndex
<1>9. ASSUME NEW pc, NEW next, CheckActiveState(pc, next), pc # "reset"
      PROVE  UNCHANGED <<best, bestIdx, lastNotify, unlocked>> /\ enabled'
  <2>1. UNCHANGED <<best, bestIdx, lastNotify, unlocked>>
    BY <1>9 DEF CheckActiveState, locks
  <2>2. enabled' = spork
    BY <1>9 DEF CheckActiveState
  <2> QED
    BY <1>1, <2>1, <2>2
<1>4. ASSUME NEW t \in Threads, NEW c, ProcessNewChainLock(t, c), call[t].pc # "reset"
      PROVE  P
  BY <1>1, <1>4, <1>9 DEF ProcessNewChainLock
<1>10. ASSUME \/ \E c \in Clsigs : ReceiveClsig(c) \/ HandleNewRecoveredSig(c)
              \/ \E t \in Threads : ContinueCheck(t)
       PROVE  P
  BY <1>4, <1>10 DEF ReceiveClsig, HandleNewRecoveredSig, ContinueCheck, Resets
<1>5. CASE StartJob
  <2>1. UNCHANGED <<best, bestIdx, lastNotify, unlocked, spork>> /\ enabled'
    BY <1>1, <1>5, <1>9 DEF StartJob, Resets
  <2>2. \/ job'.pc = "enforce" /\ job'.idx = bestIdx' /\ bestIdx' # Null
        \/ job'.pc \in {"cleanup", "wasOff", "reset"}
    BY <1>5 DEF StartJob
  <2> QED
    BY <1>1, <2>1, <2>2
<1>6. CASE EnforceBlock
  <2>1. job.pc = "enforce" /\ job' \in [pc : {"activate"}, idx : {job.idx}]
    BY <1>6 DEF EnforceBlock, IndInv, TypeOK
  <2> QED
    BY <1>1, <1>6, <2>1 DEF EnforceBlock, locks
<1>7. CASE ActivateNeeded
  <2>1. /\ job.pc = "activate" /\ UNCHANGED <<spork, enabled, best, bestIdx, lastNotify, unlocked>>
        /\ \/ job.idx \in Ancestors[tip'] /\ job' \in [pc : {"notify"}, idx : {job.idx}]
           \/ job'.pc = "cleanup"
    BY <1>7 DEF ActivateNeeded, IndInv, TypeOK, locks
  <2> QED
    BY <1>1, <2>1
<1>8. CASE NotifyChainLock \/ Cleanup \/ TrySignChainTip \/ AskForSignature
  <2>1. UNCHANGED <<spork, enabled, best, bestIdx>> /\ job'.pc \in {"cleanup", "sign", "ask", "idle"}
    <3>1. CASE NotifyChainLock
      BY <3>1 DEF NotifyChainLock
    <3>2. CASE Cleanup
      BY <3>2 DEF Cleanup, locks
    <3>3. CASE TrySignChainTip
      BY <3>3 DEF TrySignChainTip, NoJob, locks
    <3>4. CASE AskForSignature
      BY <3>4 DEF AskForSignature, NoJob, locks
    <3> QED
      BY <1>8, <3>1, <3>2, <3>3, <3>4
  <2>2. /\ lastNotify' = lastNotify \/ (job.pc = "notify" /\ lastNotify' = job.idx)
        /\ unlocked' = unlocked \/ (unlocked' = unlocked \cap {lastNotify} /\ lastNotify' = lastNotify)
    BY <1>8 DEF NotifyChainLock, Cleanup, TrySignChainTip, AskForSignature, locks
  <2> QED
    BY <1>1, <2>1, <2>2
<1> QED
  BY <1>2, <1>3, <1>5, <1>6, <1>7, <1>8, <1>10, NextCases

\* After a restart nothing is known and nothing is announced.
LEMMA RestartForgets ==
  ASSUME AnnouncedInv, Restart
  PROVE  AnnouncedInv'
  BY DEF AnnouncedInv, Restart, NoJob, NoCall

\* Every step keeps the invariant.
LEMMA AnnouncedStep ==
  ASSUME Compatible, ~OtherSubmitters, IndInv, JobIsLocked, AnnouncedInv, ~ChangeSpork, [Next]_vars
  PROVE  AnnouncedInv'
<1>1. IndInv'
  BY IndStep
<1>2. CASE Restart
  BY <1>2, RestartForgets
<1>3. CASE ~Restart /\ ~enabled
  BY <1>3, DisabledStep
<1>5. CASE Resets /\ enabled
  <2>1. ASSUME NEW t \in Threads, ContinueCheck(t), call[t].pc = "reset" PROVE AnnouncedInv'
    BY <1>5, <2>1, ResetStep DEF ContinueCheck, ProcessNewChainLock
  <2>2. ASSUME StartJob, job.pc = "reset" PROVE AnnouncedInv'
    <3>1. PICK next \in {"wasOff", "reset", "checked"} : CheckActiveState(job.pc, next)
      BY <2>2 DEF StartJob
    <3>2. bestIdx' = Null /\ spork' = spork
      BY <2>2, <3>1 DEF StartJob, CheckActiveState
    <3>3. job'.pc \in {"cleanup", "wasOff", "reset"}
      BY <2>2, <3>2 DEF StartJob
    <3> QED
      BY <1>5, <2>2, <3>1, <3>2, <3>3, ResetStep
  <2> QED
    BY <1>5, <2>1, <2>2 DEF Resets
<1>4. CASE ~Restart /\ enabled /\ ~Resets
  <2>1. /\ bestIdx # Null => bestIdx' # Null /\ Ancestors[bestIdx] \subseteq Ancestors[bestIdx']
        /\ bestIdx' # Null => best' # Null /\ Height(bestIdx') <= best'.height
    BY <1>1, <1>4, JobEffect, LockGrows
  <2>2. bestIdx # Null => (Ancestors[tip] \ Ancestors[tip']) \cap Ancestors[bestIdx] = {}
    BY <1>4, JobEffect, LockedStep
  <2> QED
    BY <1>1, <1>4, <2>1, <2>2, JobEffect, AnnouncedFrame
<1> QED
  BY <1>2, <1>3, <1>4, <1>5

\* NotifyChainLock announces a block once, and no chain with more work, header,
\* CLSIG or restart makes the node leave it while the spork stays as it is,
\* unless a late reset of CheckActiveState erased its ChainLock meanwhile.
THEOREM AnnouncedForGood ==
  Compatible /\ ~OtherSubmitters /\ MaxSporkChanges = 0 => (Spec => []AnnouncedStaysActive)
<1>1. SUFFICES ASSUME Compatible, ~OtherSubmitters, MaxSporkChanges = 0
               PROVE  Spec => []AnnouncedStaysActive
  OBVIOUS
<1>2. Init => JobIsLocked /\ AnnouncedInv
  BY DEF Init, NoJob, NoCall, JobIsLocked, AnnouncedInv
<1>3. IndInv /\ JobIsLocked /\ AnnouncedInv /\ [Next]_vars => JobIsLocked' /\ AnnouncedInv'
  <2>1. IndInv => ~ChangeSpork
    BY <1>1 DEF ChangeSpork, IndInv, TypeOK
  <2> QED
    BY <1>1, <2>1, JobLockedStep, AnnouncedStep
<1>4. AnnouncedInv => AnnouncedStaysActive
  BY DEF AnnouncedInv, AnnouncedStaysActive
<1>5. Spec => []IndInv
  BY <1>1, Inductive
<1> QED
  BY <1>2, <1>3, <1>4, <1>5, PTL DEF Spec
=============================================================================
