-------------------------- MODULE RecoveredSigsDb --------------------------
(***************************************************************************)
(* CRecoveredSigsDb (llmq/signing.cpp): the recovered signatures and votes *)
(* of one LLMQ type in leveldb, the LRU caches in front of three of its    *)
(* key families, and ProcessRecoveredSig, which fills it.                  *)
(*                                                                         *)
(* A batch is written to leveldb in one step.  cs_cache guards the caches  *)
(* only, so a lookup takes three steps: the cache, the database, the cache *)
(* again; so do the check for a vote and its writing take two.             *)
(***************************************************************************)
EXTENDS Integers, FiniteSets

CONSTANTS
  Ids, Sigs,    \* request ids; recovered signatures [id, msg, quorum]
  Threads,      \* threads that use the database
  Work,         \* what each of them does
  DiffIds,      \* ids requested with allowDiffMsgHashSigning (EHF signals)
  MaxAge,       \* -maxrecsigsage
  MaxTime,      \* bound on the clock
  None

Times == 0 .. MaxTime
Msgs == {s.msg : s \in Sigs}
\* the cached key families: by id, by sign hash and by object hash
Keys == [kind : {"id"}, of : Ids] \cup [kind : {"session", "hash"}, of : Sigs]

ASSUME DbAssumption ==
  /\ \A s \in Sigs : DOMAIN s = {"id", "msg", "quorum"} /\ s.id \in Ids
  /\ Work \in [Threads -> SUBSET {"lookup", "process", "truncate", "vote", "cleanup"}]
  /\ MaxAge \in Nat /\ MaxTime \in Nat
  /\ None \notin Sigs \cup Ids \cup Msgs /\ None \notin Times

VARIABLES
  now,        \* GetTime
  byId,       \* "rs_r", id
  written,    \* "rs_r", id, msgHash: the time of writing
  byHash,     \* "rs_h"
  bySession,  \* "rs_s"
  byTime,     \* "rs_t"
  vote,       \* "rs_v"
  voteTime,   \* "rs_vt"
  cache,      \* hasSigForIdCache, hasSigForSessionCache, hasSigForHashCache
  call,       \* what each thread is doing
  overtaken,  \* history: keys of which a thread used the cache or the database
              \* while another was between its access to one and to the other,
              \* until the entry is evicted
  revoted     \* history: ids whose vote was overwritten, while a key by time
              \* of it is left

recs == <<byId, written, byHash, bySession, byTime>>
votes == <<vote, voteTime, revoted>>
vars == <<now, recs, votes, cache, call, overtaken>>

IdKey(id) == [kind |-> "id", of |-> id]
SessionKey(s) == [kind |-> "session", of |-> s]
HashKey(s) == [kind |-> "hash", of |-> s]

\* the database's answer for a cached key
Present(k) ==
  \/ k.kind = "id" /\ byId[k.of] # None
  \/ k.kind = "session" /\ k.of \in bySession
  \/ k.kind = "hash" /\ k.of \in byHash

Idle == [pc |-> "idle"]
Calls ==
  {Idle}
  \cup [pc : {"read"}, key : Keys, sig : Sigs \cup {None}]
  \cup [pc : {"fill"}, key : Keys, sig : Sigs \cup {None}, found : BOOLEAN]
  \cup [pc : {"hash", "id", "write", "insert", "truncate"}, sig : Sigs]
  \cup [pc : {"clean"}, old : SUBSET (Times \X Ids), sigs : SUBSET Sigs]
  \cup [pc : {"vote"}, id : Ids, msg : Msgs]
  \cup [pc : {"cleanvotes"}, old : SUBSET (Times \X Ids)]

TypeOK ==
  /\ now \in Times
  /\ byId \in [Ids -> Sigs \cup {None}]
  /\ written \in [Ids \X Msgs -> Times \cup {None}]
  /\ byHash \subseteq Sigs /\ bySession \subseteq Sigs
  /\ byTime \subseteq Times \X Ids
  /\ vote \in [Ids -> Msgs \cup {None}] /\ voteTime \subseteq Times \X Ids
  /\ cache \in [Keys -> BOOLEAN \cup {None}]
  /\ call \in [Threads -> Calls]
  /\ overtaken \subseteq Keys /\ revoted \subseteq Ids

Init ==
  /\ now = 0
  /\ byId = [id \in Ids |-> None] /\ written = [k \in Ids \X Msgs |-> None]
  /\ byHash = {} /\ bySession = {} /\ byTime = {}
  /\ vote = [id \in Ids |-> None] /\ voteTime = {}
  /\ cache = [k \in Keys |-> None]
  /\ call = [t \in Threads |-> Idle]
  /\ overtaken = {} /\ revoted = {}

Goto(t, c) == call' = [call EXCEPT ![t] = c]

Free(t, work) == call[t] = Idle /\ work \in Work[t]

KeysOf(s) == {IdKey(s.id), SessionKey(s), HashKey(s)}

\* t is about to put into the cache what it found or wrote for k; t erased k from
\* the cache and is about to erase it from the database
Inserting(t, k) == call[t].pc = "insert" /\ k \in KeysOf(call[t].sig)
Filling(t, k) == \/ call[t].pc = "fill" /\ call[t].key = k
                 \/ Inserting(t, k)
Erasing(t, k) ==
  \/ call[t].pc = "truncate" /\ k \in {IdKey(call[t].sig.id), SessionKey(call[t].sig)}
  \/ call[t].pc = "clean" /\ \E s \in call[t].sigs : k \in KeysOf(s)

\* the database changes its answer while another thread fills the cache
DbOvertakes(t) ==
  overtaken' = overtaken \cup {k \in Keys : Present(k)' # Present(k) /\ \E u \in Threads \ {t} : Filling(u, k)}

\* the cache is filled while another thread is erasing
CacheOvertakes(t) ==
  overtaken' = overtaken \cup {k \in Keys : Filling(t, k) /\ \E u \in Threads \ {t} : Erasing(u, k)}

-----------------------------------------------------------------------------
(***************************************************************************)
(* HasRecoveredSigForId, ...ForSession, ...ForHash.  sig is the signature  *)
(* for which ProcessRecoveredSig asks, None for any other caller.          *)
(***************************************************************************)

\* where the caller goes on with the answer
Answered(t, k, sig, found) ==
  Goto(t, IF sig = None \/ (k.kind = "hash" /\ found) THEN Idle
          ELSE IF k.kind = "hash" THEN [pc |-> "id", sig |-> sig]
          ELSE IF ~found \/ byId[sig.id] = None THEN [pc |-> "write", sig |-> sig]
          ELSE Idle)

Ask(t, k, sig) ==
  /\ IF cache[k] = None
       THEN Goto(t, [pc |-> "read", key |-> k, sig |-> sig])
       ELSE Answered(t, k, sig, cache[k])
  /\ UNCHANGED <<now, recs, votes, cache, overtaken>>

Lookup(t, k) == Free(t, "lookup") /\ Ask(t, k, None)

ReadDb(t) ==
  LET c == call[t]
  IN  /\ c.pc = "read"
      /\ Goto(t, [pc |-> "fill", key |-> c.key, sig |-> c.sig, found |-> Present(c.key)])
      /\ UNCHANGED <<now, recs, votes, cache, overtaken>>

FillCache(t) ==
  LET c == call[t]
  IN  /\ c.pc = "fill"
      /\ cache' = [cache EXCEPT ![c.key] = c.found]
      /\ Answered(t, c.key, c.sig, c.found)
      /\ CacheOvertakes(t)
      /\ UNCHANGED <<now, recs, votes>>

-----------------------------------------------------------------------------
(***************************************************************************)
(* ProcessRecoveredSig and WriteRecoveredSig.                              *)
(***************************************************************************)

ProcessRecoveredSig(t, s) == Free(t, "process") /\ Ask(t, HashKey(s), s)

AskForId(t) == call[t].pc = "id" /\ Ask(t, IdKey(call[t].sig.id), call[t].sig)

WriteBatch(t) ==
  LET s == call[t].sig
  IN  /\ call[t].pc = "write"
      /\ byId' = [byId EXCEPT ![s.id] = s]
      /\ written' = [written EXCEPT ![<<s.id, s.msg>>] = now]
      /\ byHash' = byHash \cup {s} /\ bySession' = bySession \cup {s}
      /\ byTime' = byTime \cup {<<now, s.id>>}
      /\ Goto(t, [pc |-> "insert", sig |-> s])
      /\ UNCHANGED <<now, votes, cache>>
      /\ DbOvertakes(t)

\* mutant: cached under the message hash
InsertIntoCacheByMsg(t) ==
  LET s == call[t].sig
      keys == {IdKey(s.msg), SessionKey(s), HashKey(s)}
  IN  /\ call[t].pc = "insert"
      /\ cache' = [k \in Keys \cup keys |-> IF k \in keys THEN TRUE ELSE cache[k]]
      /\ Goto(t, Idle)
      /\ CacheOvertakes(t)
      /\ UNCHANGED <<now, recs, votes>>

InsertIntoCache(t) ==
  LET s == call[t].sig
  IN  /\ call[t].pc = "insert"
      /\ cache' = [k \in Keys |-> IF k \in KeysOf(s) THEN TRUE ELSE cache[k]]
      /\ Goto(t, Idle)
      /\ CacheOvertakes(t)
      /\ UNCHANGED <<now, recs, votes>>

-----------------------------------------------------------------------------
(***************************************************************************)
(* RemoveRecoveredSig reads the signatures and erases their cache entries; *)
(* its callers write the batch afterwards.                                 *)
(***************************************************************************)

\* mutant: the cache keeps the id
EraseFromCacheNotId(S, hashes) ==
  cache' = [k \in Keys |-> IF k.kind # "id" /\ k.of \in S /\ (k.kind = "hash" => hashes) THEN None ELSE cache[k]]

EraseFromCache(S, hashes) ==
  cache' = [k \in Keys |->
    IF \/ k.kind = "id" /\ k.of \in {s.id : s \in S}
       \/ k.kind # "id" /\ k.of \in S /\ (k.kind = "hash" => hashes)
    THEN None ELSE cache[k]]

\* mutant: the key by id stays
EraseRecsKeepsId(S) ==
  /\ written' = [k \in Ids \X Msgs |-> IF \E s \in S : <<s.id, s.msg>> = k THEN None ELSE written[k]]
  /\ bySession' = bySession \ S
  /\ UNCHANGED byId

EraseRecs(S) ==
  /\ byId' = [id \in Ids |-> IF \E s \in S : s.id = id THEN None ELSE byId[id]]
  /\ written' = [k \in Ids \X Msgs |-> IF \E s \in S : <<s.id, s.msg>> = k THEN None ELSE written[k]]
  /\ bySession' = bySession \ S

Truncate(t, id) ==
  /\ Free(t, "truncate") /\ byId[id] # None
  /\ EraseFromCache({byId[id]}, FALSE)
  /\ Goto(t, [pc |-> "truncate", sig |-> byId[id]])
  /\ UNCHANGED <<now, recs, votes, overtaken>>

TruncateBatch(t) ==
  /\ call[t].pc = "truncate"
  /\ EraseRecs({call[t].sig})
  /\ Goto(t, Idle)
  /\ UNCHANGED <<now, byHash, byTime, votes, cache>>
  /\ DbOvertakes(t)

\* the keys of an index by time that are older than MaxAge; mutant: one second too young
ExpiredEarly(index) == {k \in index : k[1] <= now - MaxAge}
Expired(index) == {k \in index : k[1] < now - MaxAge}

\* CSigningManager::Cleanup runs on one worker thread only.
CleansUp(t) ==
  Free(t, "cleanup") /\ \A u \in Threads : call[u].pc \notin {"clean", "cleanvotes"}

CleanupOldRecoveredSigs(t) ==
  LET old == Expired(byTime)
      S == {byId[k[2]] : k \in old} \ {None}
  IN  /\ CleansUp(t) /\ old # {}
      /\ EraseFromCache(S, TRUE)
      /\ Goto(t, [pc |-> "clean", old |-> old, sigs |-> S])
      /\ UNCHANGED <<now, recs, votes, overtaken>>

CleanupBatch(t) ==
  /\ call[t].pc = "clean"
  /\ EraseRecs(call[t].sigs)
  /\ byHash' = byHash \ call[t].sigs
  /\ byTime' = byTime \ call[t].old
  /\ Goto(t, Idle)
  /\ UNCHANGED <<now, votes, cache>>
  /\ DbOvertakes(t)

-----------------------------------------------------------------------------
(***************************************************************************)
(* Votes.                                                                  *)
(***************************************************************************)

\* AsyncSignIfMember looks for a vote, for another message only if the request
\* allows it; a recovered signature found in between would end the call.
HasVotedOnId(t, id, m) ==
  /\ Free(t, "vote")
  /\ vote[id] = None \/ (vote[id] # m /\ id \in DiffIds)
  /\ Goto(t, [pc |-> "vote", id |-> id, msg |-> m])
  /\ UNCHANGED <<now, recs, votes, cache, overtaken>>

\* The key by time of a vote that it overwrites stays.
WriteVoteForId(t) ==
  LET id == call[t].id
  IN  /\ call[t].pc = "vote"
      /\ vote' = [vote EXCEPT ![id] = call[t].msg]
      /\ voteTime' = voteTime \cup {<<now, id>>}
      /\ revoted' = IF vote[id] # None THEN revoted \cup {id} ELSE revoted
      /\ Goto(t, Idle)
      /\ UNCHANGED <<now, recs, cache, overtaken>>

\* the keys are read at one time and erased later, with the votes of their ids
CleanupOldVotes(t) ==
  /\ CleansUp(t) /\ Expired(voteTime) # {}
  /\ Goto(t, [pc |-> "cleanvotes", old |-> Expired(voteTime)])
  /\ UNCHANGED <<now, recs, votes, cache, overtaken>>

CleanupVotesBatch(t) ==
  LET old == call[t].old
  IN  /\ call[t].pc = "cleanvotes"
      /\ vote' = [id \in Ids |-> IF \E k \in old : k[2] = id THEN None ELSE vote[id]]
      /\ voteTime' = voteTime \ old
      /\ revoted' = {id \in revoted : \E k \in voteTime' : k[2] = id}
      /\ Goto(t, Idle)
      /\ UNCHANGED <<now, recs, cache, overtaken>>

-----------------------------------------------------------------------------
Tick ==
  /\ now < MaxTime /\ now' = now + 1
  /\ UNCHANGED <<recs, votes, cache, call, overtaken>>

\* the LRU cache makes room for other keys
Evict(k) ==
  /\ cache[k] # None
  /\ cache' = [cache EXCEPT ![k] = None]
  /\ overtaken' = IF \E t \in Threads : Filling(t, k) THEN overtaken ELSE overtaken \ {k}
  /\ UNCHANGED <<now, recs, votes, call>>

Restart ==
  /\ cache' = [k \in Keys |-> None]
  /\ call' = [t \in Threads |-> Idle]
  /\ overtaken' = {}
  /\ UNCHANGED <<now, recs, votes>>

Thread(t) ==
  \/ \E k \in Keys : Lookup(t, k)
  \/ ReadDb(t) \/ FillCache(t)
  \/ \E s \in Sigs : ProcessRecoveredSig(t, s)
  \/ AskForId(t) \/ WriteBatch(t) \/ InsertIntoCache(t)
  \/ \E id \in Ids : Truncate(t, id)
  \/ TruncateBatch(t)
  \/ \E id \in Ids, m \in Msgs : HasVotedOnId(t, id, m)
  \/ WriteVoteForId(t)
  \/ CleanupOldRecoveredSigs(t) \/ CleanupBatch(t)
  \/ CleanupOldVotes(t) \/ CleanupVotesBatch(t)

Next ==
  \/ \E t \in Threads : Thread(t)
  \/ Tick
  \/ \E k \in Keys : Evict(k)
  \/ Restart

Spec == Init /\ [][Next]_vars

-----------------------------------------------------------------------------
(***************************************************************************)
(* Properties.                                                             *)
(***************************************************************************)

\* A stored signature is found under every key, and the clean-up will find it:
\* WriteRecoveredSig, TruncateRecoveredSig and CleanupOldRecoveredSigs keep the
\* five key families together.
Indexed ==
  \A id \in Ids : LET s == byId[id] IN
    s # None => /\ written[<<id, s.msg>>] # None
                /\ s \in byHash /\ s \in bySession
                /\ \E x \in Times : <<x, id>> \in byTime

\* The strengthening that makes it inductive: the time key is the one of the
\* stored signature, and a clean-up under way takes that key only together with
\* the signature.
TimeKey(id) == <<written[<<id, byId[id].msg>>], id>>
IndexedByTime ==
  \A id \in Ids : byId[id] # None =>
    byId[id].id = id /\ byId[id] \in byHash /\ byId[id] \in bySession
    /\ written[<<id, byId[id].msg>>] # None /\ TimeKey(id) \in byTime
CleansBoth ==
  \A t \in Threads : call[t].pc = "clean" =>
    /\ \A k \in call[t].old : k[1] < now
    /\ \A id \in Ids : byId[id] # None /\ (\A s \in call[t].sigs : s.id # id) => TimeKey(id) \notin call[t].old
IndInv == TypeOK /\ IndexedByTime /\ CleansBoth

\* What a cache answers is what the database holds, for any number of threads
\* that look up, write, truncate and clean up, unless a thread was overtaken
\* since the entry was evicted last: the database changed its answer while the thread had it in
\* hand to cache it, or the cache was filled while the thread was erasing.
CacheCoherent ==
  \A k \in Keys \ overtaken :
    (\A t \in Threads : ~Inserting(t, k)) => cache[k] \in {None, Present(k)}

\* The strengthening: what threads have in hand is right as well.
InHandRight ==
  \A t \in Threads, k \in Keys \ overtaken :
    /\ call[t].pc = "fill" /\ call[t].key = k => call[t].found = Present(k)
    /\ Inserting(t, k) => Present(k)
    /\ Erasing(t, k) => cache[k] = None

\* An id whose vote was not overwritten has one key by time if it has a vote.
VoteByTime ==
  /\ \A id \in Ids : vote[id] # None => \E x \in Times : <<x, id>> \in voteTime
  /\ \A k, l \in voteTime : k[2] = l[2] /\ k[2] \notin revoted => k = l /\ vote[k[2]] # None
  /\ \A t, u \in Threads :
       /\ call[t].pc = "cleanvotes" =>
            /\ call[t].old \subseteq voteTime
            /\ \A k \in call[t].old : k[1] < now - MaxAge
       /\ call[t].pc = "cleanvotes" /\ call[u].pc = "cleanvotes" => t = u

\* CleanupOldRecoveredSigs: "Keep recovered signatures for a week", that is for
\* MaxAge.  A signature that is still stored goes earlier only when the clean-up
\* found another key by time of its id: one that TruncateRecoveredSig left behind
\* when it removed an earlier signature, or that of a write by another thread.
KeptForMaxAge ==
  [][\A t \in Threads : call[t].pc = "clean" /\ call'[t] = Idle =>
       \A s \in call[t].sigs : byId[s.id] = s /\ byId'[s.id] = None =>
         \/ written[<<s.id, s.msg>>] < now - MaxAge
         \/ \E k \in call[t].old : k[2] = s.id /\ k[1] # written[<<s.id, s.msg>>]]_vars

\* CleanupOldVotes: a member forgets its vote on an id no sooner than MaxAge
\* after it voted, so that it cannot vote again earlier, unless the vote replaced
\* an earlier one, whose key by time stayed: with allowDiffMsgHashSigning, or by
\* two calls that both found no vote.
VoteKeptForMaxAge ==
  [][\A id \in Ids \ revoted : vote[id] # None /\ vote'[id] = None =>
       \A x \in Times : <<x, id>> \in voteTime => x < now - MaxAge]_vars
=============================================================================
