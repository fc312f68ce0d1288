----------------------- MODULE RecoveredSigsDbProofs -----------------------
(***************************************************************************)
(* Proofs about RecoveredSigsDb, for any ids, signatures and threads.      *)
(***************************************************************************)
EXTENDS RecoveredSigsDb, TLAPS

\* The fields of a signature.
LEMMA SigFields == \A s \in Sigs : s.id \in Ids /\ s.msg \in Msgs /\ s # None
  BY DbAssumption DEF Msgs

\* The keys under which a signature is cached.
LEMMA SigKeys == \A s \in Sigs : IdKey(s.id) \in Keys /\ SessionKey(s) \in Keys /\ HashKey(s) \in Keys
  BY SigFields DEF IdKey, SessionKey, HashKey, Keys

\* What a thread's state holds at each place.
LEMMA CallFields ==
  ASSUME TypeOK, NEW t \in Threads
  PROVE  /\ call[t].pc \in {"read", "fill"} => call[t].key \in Keys /\ call[t].sig \in Sigs \cup {None}
         /\ call[t].pc = "fill" => call[t].found \in BOOLEAN
         /\ call[t].pc \in {"hash", "id", "write", "insert", "truncate"} => call[t].sig \in Sigs
         /\ call[t].pc = "clean" => call[t].old \subseteq Times \X Ids /\ call[t].sigs \subseteq Sigs
         /\ call[t].pc = "vote" => call[t].id \in Ids /\ call[t].msg \in Msgs
         /\ call[t].pc = "cleanvotes" => call[t].old \subseteq Times \X Ids
<1>1. call[t] \in Calls
  BY DEF TypeOK
<1> QED
  BY <1>1 DEF Calls, Idle

\* A thread moves on.
LEMMA GotoType ==
  ASSUME TypeOK, NEW t \in Threads, NEW c \in Calls, Goto(t, c)
  PROVE  /\ call' \in [Threads -> Calls]
         /\ call'[t] = c /\ \A u \in Threads \ {t} : call'[u] = call[u]
  BY DEF Goto, TypeOK

\* The places a thread can go to, other than into a clean-up.
LEMMA CallTypes ==
  /\ Idle \in Calls /\ Idle.pc = "idle"
  /\ \A s \in Sigs, p \in {"hash", "id", "write", "insert", "truncate"} : [pc |-> p, sig |-> s] \in Calls
  /\ \A k \in Keys, s \in Sigs \cup {None} : [pc |-> "read", key |-> k, sig |-> s] \in Calls
  /\ \A k \in Keys, s \in Sigs \cup {None}, f \in BOOLEAN :
       [pc |-> "fill", key |-> k, sig |-> s, found |-> f] \in Calls
  /\ \A id \in Ids, m \in Msgs : [pc |-> "vote", id |-> id, msg |-> m] \in Calls
  /\ \A old \in SUBSET (Times \X Ids) : [pc |-> "cleanvotes", old |-> old] \in Calls
  BY DEF Calls, Idle

\* After an answer a thread goes on, and not to a clean-up.
LEMMA AnsweredType ==
  ASSUME TypeOK, NEW t \in Threads, NEW k, NEW sig \in Sigs \cup {None}, NEW found, Answered(t, k, sig, found)
  PROVE  /\ call' \in [Threads -> Calls]
         /\ \A u \in Threads : call'[u].pc = "clean" => call'[u] = call[u]
<1>1. PICK c \in {Idle} \cup [pc : {"id", "write"}, sig : Sigs] : Goto(t, c)
  BY DEF Answered
<1>2. c \in Calls /\ c.pc # "clean"
  BY <1>1, CallTypes DEF Idle, Calls
<1> QED
  BY <1>1, <1>2, GotoType

\* So does a question.
LEMMA AskType ==
  ASSUME TypeOK, NEW t \in Threads, NEW k \in Keys, NEW sig \in Sigs \cup {None}, Ask(t, k, sig)
  PROVE  /\ call' \in [Threads -> Calls]
         /\ \A u \in Threads : call'[u].pc = "clean" => call'[u] = call[u]
<1>1. CASE cache[k] = None
  <2>1. Goto(t, [pc |-> "read", key |-> k, sig |-> sig])
    BY <1>1 DEF Ask
  <2>2. [pc |-> "read", key |-> k, sig |-> sig] \in Calls
    BY CallTypes
  <2> QED
    BY <2>1, <2>2, GotoType
<1>2. CASE cache[k] # None
  BY <1>2, AnsweredType DEF Ask
<1> QED
  BY <1>1, <1>2

-----------------------------------------------------------------------------
(***************************************************************************)
(* Steps that leave the stored signatures alone.                           *)
(***************************************************************************)

\* The invariant's parts about signatures survive a step that changes none.
LEMMA SameRecs ==
  ASSUME IndInv, UNCHANGED recs, now \in Int, now' \in Int, now <= now',
         \A u \in Threads : call'[u].pc = "clean" => call'[u] = call[u]
  PROVE  IndexedByTime' /\ CleansBoth'
<1>1. UNCHANGED <<byId, written, byHash, bySession, byTime>>
  BY DEF recs
<1>2. IndexedByTime'
  BY <1>1 DEF IndInv, IndexedByTime, TimeKey
<1>3. CleansBoth'
  <2> SUFFICES ASSUME NEW t \in Threads, call'[t].pc = "clean"
               PROVE  /\ \A k \in call[t].old : k[1] < now'
                      /\ \A id \in Ids : byId[id] # None /\ (\A s \in call[t].sigs : s.id # id)
                           => TimeKey(id) \notin call[t].old
    BY <1>1 DEF CleansBoth, TimeKey
  <2>1. call[t].pc = "clean"
    OBVIOUS
  <2>2. \A k \in call[t].old : k[1] < now /\ k[1] \in Int
    BY <2>1, CallFields DEF IndInv, CleansBoth, Times
  <2> QED
    BY <2>1, <2>2 DEF IndInv, CleansBoth
<1> QED
  BY <1>2, <1>3

\* The caches answer with a Boolean or not at all.
LEMMA CacheStep ==
  ASSUME IndInv, UNCHANGED <<now, recs, votes>>, cache' \in [Keys -> BOOLEAN \cup {None}],
         overtaken' \subseteq Keys, call' \in [Threads -> Calls],
         \A u \in Threads : call'[u].pc = "clean" => call'[u] = call[u]
  PROVE  IndInv'
<1>1. TypeOK'
  BY DEF IndInv, TypeOK, recs, votes
<1>2. now \in Int /\ now' = now
  BY DEF IndInv, TypeOK, Times
<1>3. IndexedByTime' /\ CleansBoth'
  BY <1>2, SameRecs
<1> QED
  BY <1>1, <1>3 DEF IndInv

\* A lookup, the checks of ProcessRecoveredSig, the cache inserts and the
\* cache erasure before a truncation.
LEMMA LookupSteps ==
  ASSUME IndInv, NEW t \in Threads,
         \/ \E k \in Keys : Lookup(t, k)
         \/ ReadDb(t) \/ FillCache(t)
         \/ \E s \in Sigs : ProcessRecoveredSig(t, s)
         \/ AskForId(t) \/ InsertIntoCache(t)
         \/ \E id \in Ids : Truncate(t, id)
         \/ \E id \in Ids, m \in Msgs : HasVotedOnId(t, id, m)
         \/ CleanupOldVotes(t)
  PROVE  IndInv'
<1> USE DEF IndInv
<1>0. TypeOK /\ cache \in [Keys -> BOOLEAN \cup {None}] /\ overtaken \subseteq Keys
  BY DEF TypeOK
<1>1. CASE \E k \in Keys : Lookup(t, k)
  <2>1. PICK k \in Keys : Ask(t, k, None)
    BY <1>1 DEF Lookup
  <2> QED
    BY <1>0, <2>1, AskType, CacheStep DEF Ask
<1>2. CASE ReadDb(t)
  <2>1. Present(call[t].key) \in BOOLEAN
    BY DEF Present
  <2> DEFINE c == [pc |-> "fill", key |-> call[t].key, sig |-> call[t].sig, found |-> Present(call[t].key)]
  <2>2. c \in Calls
    BY <1>2, <2>1, CallFields, CallTypes DEF ReadDb
  <2>3. c.pc # "clean"
    OBVIOUS
  <2>4. Goto(t, c) /\ UNCHANGED <<now, recs, votes, cache, overtaken>>
    BY <1>2 DEF ReadDb
  <2> HIDE DEF c
  <2>5. call' \in [Threads -> Calls] /\ \A u \in Threads : call'[u].pc = "clean" => call'[u] = call[u]
    BY <2>2, <2>3, <2>4, GotoType
  <2> QED
    BY <1>0, <2>4, <2>5, CacheStep
<1>3. CASE FillCache(t)
  <2>1. call[t].sig \in Sigs \cup {None} /\ call[t].found \in BOOLEAN
    BY <1>3, CallFields DEF FillCache
  <2>2. /\ Answered(t, call[t].key, call[t].sig, call[t].found)
        /\ cache' = [cache EXCEPT ![call[t].key] = call[t].found]
        /\ UNCHANGED <<now, recs, votes>> /\ CacheOvertakes(t)
    BY <1>3 DEF FillCache
  <2>3. cache' \in [Keys -> BOOLEAN \cup {None}]
    BY <1>0, <2>1, <2>2
  <2>4. call' \in [Threads -> Calls] /\ \A u \in Threads : call'[u].pc = "clean" => call'[u] = call[u]
    BY <2>1, <2>2, AnsweredType
  <2>5. overtaken' \subseteq Keys
    BY <1>0, <2>2 DEF CacheOvertakes
  <2> QED
    BY <2>2, <2>3, <2>4, <2>5, CacheStep
<1>4. CASE \E s \in Sigs : ProcessRecoveredSig(t, s)
  <2>1. PICK s \in Sigs : Ask(t, HashKey(s), s)
    BY <1>4 DEF ProcessRecoveredSig
  <2>2. HashKey(s) \in Keys
    BY SigKeys
  <2>3. call' \in [Threads -> Calls] /\ \A u \in Threads : call'[u].pc = "clean" => call'[u] = call[u]
    BY <2>1, <2>2, AskType
  <2> QED
    BY <1>0, <2>1, <2>3, CacheStep DEF Ask
<1>5. CASE AskForId(t)
  <2>1. call[t].sig \in Sigs /\ Ask(t, IdKey(call[t].sig.id), call[t].sig)
    BY <1>5, CallFields DEF AskForId
  <2>2. IdKey(call[t].sig.id) \in Keys
    BY <2>1, SigKeys
  <2>3. call' \in [Threads -> Calls] /\ \A u \in Threads : call'[u].pc = "clean" => call'[u] = call[u]
    BY <2>1, <2>2, AskType
  <2> QED
    BY <1>0, <2>1, <2>3, CacheStep DEF Ask
<1>6. CASE InsertIntoCache(t)
  <2>1. cache' \in [Keys -> BOOLEAN \cup {None}] /\ overtaken' \subseteq Keys
    BY <1>0, <1>6 DEF InsertIntoCache, CacheOvertakes
  <2>2. Goto(t, Idle) /\ UNCHANGED <<now, recs, votes>>
    BY <1>6 DEF InsertIntoCache
  <2>3. call' \in [Threads -> Calls] /\ \A u \in Threads : call'[u].pc = "clean" => call'[u] = call[u]
    BY <2>2, CallTypes, GotoType
  <2> QED
    BY <2>1, <2>2, <2>3, CacheStep
<1>7. CASE \E id \in Ids : Truncate(t, id)
  <2>1. PICK id \in Ids : Truncate(t, id)
    BY <1>7
  <2>2. byId[id] \in Sigs
    BY <2>1 DEF Truncate, TypeOK
  <2>3. cache' \in [Keys -> BOOLEAN \cup {None}]
    BY <1>0, <2>1 DEF Truncate, EraseFromCache
  <2>4. Goto(t, [pc |-> "truncate", sig |-> byId[id]]) /\ UNCHANGED <<now, recs, votes, overtaken>>
    BY <2>1 DEF Truncate
  <2>5. [pc |-> "truncate", sig |-> byId[id]] \in Calls
    BY <2>2, CallTypes
  <2>6. call' \in [Threads -> Calls] /\ \A u \in Threads : call'[u].pc = "clean" => call'[u] = call[u]
    BY <2>4, <2>5, GotoType
  <2> QED
    BY <1>0, <2>3, <2>4, <2>6, CacheStep
<1>8. CASE \E id \in Ids, m \in Msgs : HasVotedOnId(t, id, m)
  <2>1. PICK id \in Ids, m \in Msgs : HasVotedOnId(t, id, m)
    BY <1>8
  <2> DEFINE c == [pc |-> "vote", id |-> id, msg |-> m]
  <2>2. Goto(t, c) /\ UNCHANGED <<now, recs, votes, cache, overtaken>> /\ c \in Calls /\ c.pc # "clean"
    BY <2>1, CallTypes DEF HasVotedOnId
  <2> HIDE DEF c
  <2>3. call' \in [Threads -> Calls] /\ \A u \in Threads : call'[u].pc = "clean" => call'[u] = call[u]
    BY <2>2, GotoType
  <2> QED
    BY <1>0, <2>2, <2>3, CacheStep
<1>9. CASE CleanupOldVotes(t)
  <2> DEFINE c == [pc |-> "cleanvotes", old |-> Expired(voteTime)]
  <2>1. Expired(voteTime) \in SUBSET (Times \X Ids)
    BY DEF Expired, TypeOK
  <2>2. Goto(t, c) /\ UNCHANGED <<now, recs, votes, cache, overtaken>> /\ c \in Calls /\ c.pc # "clean"
    BY <1>9, <2>1, CallTypes DEF CleanupOldVotes
  <2> HIDE DEF c
  <2>3. call' \in [Threads -> Calls] /\ \A u \in Threads : call'[u].pc = "clean" => call'[u] = call[u]
    BY <2>2, GotoType
  <2> QED
    BY <1>0, <2>2, <2>3, CacheStep
<1> QED
  BY <1>1, <1>2, <1>3, <1>4, <1>5, <1>6, <1>7, <1>8, <1>9

-----------------------------------------------------------------------------
(***************************************************************************)
(* Steps that write or erase signatures.                                   *)
(***************************************************************************)

\* A batch writes the signature and the key by time that the clean-up will
\* find; a clean-up under way holds older keys only.
LEMMA WriteStep ==
  ASSUME IndInv, NEW t \in Threads, WriteBatch(t)
  PROVE  IndInv'
<1>s. PICK s \in Sigs : s = call[t].sig
  BY CallFields DEF WriteBatch, IndInv
<1>0. s.id \in Ids /\ s.msg \in Msgs /\ s # None
  BY SigFields
<1>1. /\ byId' = [byId EXCEPT ![s.id] = s]
      /\ written' = [written EXCEPT ![<<s.id, s.msg>>] = now]
      /\ byHash' = byHash \cup {s} /\ bySession' = bySession \cup {s}
      /\ byTime' = byTime \cup {<<now, s.id>>}
      /\ Goto(t, [pc |-> "insert", sig |-> s])
      /\ UNCHANGED <<now, vote, voteTime, revoted, cache>>
      /\ DbOvertakes(t)
  BY <1>s DEF WriteBatch, votes
<1>2. /\ call' \in [Threads -> Calls]
      /\ \A u \in Threads : call'[u].pc = "clean" => call'[u] = call[u]
  <2>1. [pc |-> "insert", sig |-> s] \in Calls
    BY <1>0, CallTypes
  <2> QED
    BY <1>1, <2>1, GotoType DEF IndInv
<1>3. TypeOK'
  <2>1. overtaken' \subseteq Keys
    BY <1>1 DEF DbOvertakes, IndInv, TypeOK
  <2> QED
    BY <1>0, <1>1, <1>2, <2>1 DEF IndInv, TypeOK
<1>4. /\ byId'[s.id] = s /\ written'[<<s.id, s.msg>>] = now
      /\ \A id \in Ids \ {s.id} : byId'[id] = byId[id]
      /\ \A id \in Ids \ {s.id}, m \in Msgs : written'[<<id, m>>] = written[<<id, m>>]
      /\ now \in Int /\ now # None
  <2>1. now \in Int
    BY DEF IndInv, TypeOK, Times
  <2>2. byId \in [Ids -> Sigs \cup {None}] /\ written \in [Ids \X Msgs -> Times \cup {None}]
    BY DEF IndInv, TypeOK
  <2>3. now \in Times
    BY DEF IndInv, TypeOK
  <2>4. now # None
    BY <2>3, DbAssumption
  <2> QED
    BY <1>0, <1>1, <2>1, <2>2, <2>4
<1>5. \A id \in Ids : byId[id] # None => byId[id] \in Sigs /\ byId[id].msg \in Msgs
  BY SigFields DEF IndInv, TypeOK
<1>6. IndexedByTime'
  <2> SUFFICES ASSUME NEW id \in Ids, byId'[id] # None
               PROVE  /\ byId'[id].id = id /\ byId'[id] \in byHash' /\ byId'[id] \in bySession'
                      /\ written'[<<id, byId'[id].msg>>] # None /\ TimeKey(id)' \in byTime'
    BY DEF IndexedByTime
  <2>1. CASE id = s.id
    BY <1>0, <1>1, <1>4, <2>1 DEF TimeKey
  <2>2. CASE id # s.id
    BY <1>1, <1>4, <1>5, <2>2 DEF TimeKey, IndInv, IndexedByTime
  <2> QED
    BY <2>1, <2>2
<1>7. CleansBoth'
  <2> SUFFICES ASSUME NEW u \in Threads, call'[u].pc = "clean"
               PROVE  /\ \A k \in call[u].old : k[1] < now
                      /\ \A id \in Ids : byId'[id] # None /\ (\A r \in call[u].sigs : r.id # id)
                           => TimeKey(id)' \notin call[u].old
    BY <1>1, <1>2 DEF CleansBoth
  <2>1. /\ \A k \in call[u].old : k[1] < now
        /\ \A id \in Ids : byId[id] # None /\ (\A r \in call[u].sigs : r.id # id)
             => TimeKey(id) \notin call[u].old
    BY <1>2 DEF IndInv, CleansBoth
  <2>2. \A id \in Ids : id # s.id /\ byId'[id] # None => byId[id] # None /\ TimeKey(id)' = TimeKey(id)
    <3> SUFFICES ASSUME NEW id \in Ids, id # s.id, byId'[id] # None
                 PROVE  byId[id] # None /\ TimeKey(id)' = TimeKey(id)
      OBVIOUS
    <3>1. byId'[id] = byId[id] /\ byId[id] # None
      BY <1>4
    <3>2. byId[id].msg \in Msgs
      BY <1>5, <3>1
    <3>3. written'[<<id, byId[id].msg>>] = written[<<id, byId[id].msg>>]
      BY <1>4, <3>2
    <3>4. written'[<<id, byId'[id].msg>>] = written[<<id, byId[id].msg>>]
      BY <3>1, <3>3
    <3> QED
      BY <3>1, <3>4 DEF TimeKey
  <2>3. TimeKey(s.id)' \notin call[u].old
    <3>1. TimeKey(s.id)' = <<now, s.id>>
      BY <1>4 DEF TimeKey
    <3>2. ~ <<now, s.id>>[1] < now
      BY <1>4
    <3> QED
      BY <2>1, <3>1, <3>2
  <2> QED
    BY <2>1, <2>2, <2>3
<1> QED
  BY <1>3, <1>6, <1>7 DEF IndInv

\* Erasing signatures leaves the others complete.
LEMMA EraseLeavesOthers ==
  ASSUME IndInv, NEW S \in SUBSET Sigs, EraseRecs(S)
  PROVE  /\ byId' \in [Ids -> Sigs \cup {None}]
         /\ written' \in [Ids \X Msgs -> Times \cup {None}]
         /\ bySession' \subseteq Sigs
         /\ \A id \in Ids : byId'[id] # None =>
              /\ byId[id] # None /\ byId'[id] = byId[id] /\ \A s \in S : s.id # id
              /\ byId'[id].id = id /\ byId[id] \notin S /\ byId'[id] \in bySession'
              /\ written'[<<id, byId'[id].msg>>] # None
              /\ TimeKey(id)' = TimeKey(id) /\ TimeKey(id) \in byTime
<1>1. /\ byId' = [id \in Ids |-> IF \E s \in S : s.id = id THEN None ELSE byId[id]]
      /\ written' = [k \in Ids \X Msgs |-> IF \E s \in S : <<s.id, s.msg>> = k THEN None ELSE written[k]]
      /\ bySession' = bySession \ S
  BY DEF EraseRecs
<1>2. /\ byId \in [Ids -> Sigs \cup {None}] /\ written \in [Ids \X Msgs -> Times \cup {None}]
      /\ bySession \subseteq Sigs
  BY DEF IndInv, TypeOK
<1>3. /\ byId' \in [Ids -> Sigs \cup {None}]
      /\ written' \in [Ids \X Msgs -> Times \cup {None}]
      /\ bySession' \subseteq Sigs
  BY <1>1, <1>2
<1>4. ASSUME NEW id \in Ids, byId'[id] # None
      PROVE  /\ byId[id] # None /\ byId'[id] = byId[id] /\ \A s \in S : s.id # id
             /\ byId'[id].id = id /\ byId[id] \notin S /\ byId'[id] \in bySession'
             /\ written'[<<id, byId'[id].msg>>] # None
             /\ TimeKey(id)' = TimeKey(id) /\ TimeKey(id) \in byTime
  <2>1. byId'[id] = byId[id] /\ byId[id] # None /\ \A s \in S : s.id # id
    BY <1>1, <1>4
  <2>2. /\ byId[id].id = id /\ byId[id] \in bySession /\ written[<<id, byId[id].msg>>] # None
        /\ TimeKey(id) \in byTime /\ byId[id].msg \in Msgs
    BY <1>2, <2>1, SigFields DEF IndInv, IndexedByTime
  <2>3. \A s \in S : <<s.id, s.msg>> # <<id, byId[id].msg>>
    BY <2>1
  <2>4. written'[<<id, byId[id].msg>>] = written[<<id, byId[id].msg>>]
    BY <1>1, <2>2, <2>3
  <2> QED
    BY <1>1, <2>1, <2>2, <2>4 DEF TimeKey
<1> QED
  BY <1>3, <1>4

\* A truncation keeps the keys by hash and by time.
LEMMA TruncateStep ==
  ASSUME IndInv, NEW t \in Threads, TruncateBatch(t)
  PROVE  IndInv'
<1> DEFINE S == {call[t].sig}
<1>1. S \subseteq Sigs
  BY CallFields DEF TruncateBatch, IndInv
<1>2. /\ EraseRecs(S) /\ Goto(t, Idle)
      /\ UNCHANGED <<now, byHash, byTime, vote, voteTime, revoted, cache>>
      /\ overtaken' \subseteq Keys
  BY DEF TruncateBatch, votes, DbOvertakes, IndInv, TypeOK
<1> HIDE DEF S
<1>3. /\ call' \in [Threads -> Calls]
      /\ \A u \in Threads : call'[u].pc = "clean" => call'[u] = call[u]
  BY <1>2, CallTypes, GotoType DEF IndInv
<1>4. TypeOK'
  BY <1>1, <1>2, <1>3, EraseLeavesOthers DEF IndInv, TypeOK
<1>5. IndexedByTime'
  BY <1>1, <1>2, EraseLeavesOthers DEF IndInv, IndexedByTime
<1>6. CleansBoth'
  <2> SUFFICES ASSUME NEW u \in Threads, call'[u].pc = "clean"
               PROVE  /\ \A k \in call[u].old : k[1] < now
                      /\ \A id \in Ids : byId'[id] # None /\ (\A r \in call[u].sigs : r.id # id)
                           => TimeKey(id)' \notin call[u].old
    BY <1>2, <1>3 DEF CleansBoth
  <2>1. /\ \A k \in call[u].old : k[1] < now
        /\ \A id \in Ids : byId[id] # None /\ (\A r \in call[u].sigs : r.id # id)
             => TimeKey(id) \notin call[u].old
    BY <1>3 DEF IndInv, CleansBoth
  <2>2. \A id \in Ids : byId'[id] # None => byId[id] # None /\ TimeKey(id)' = TimeKey(id)
    BY <1>1, <1>2, EraseLeavesOthers
  <2> QED
    BY <2>1, <2>2
<1> QED
  BY <1>4, <1>5, <1>6 DEF IndInv

\* A clean-up starts with the expired keys and the signatures under their ids.
LEMMA CleanupStep ==
  ASSUME IndInv, NEW t \in Threads, CleanupOldRecoveredSigs(t)
  PROVE  IndInv'
<1> DEFINE old == Expired(byTime)
           S == {byId[k[2]] : k \in old} \ {None}
           c == [pc |-> "clean", old |-> old, sigs |-> S]
<1>1. /\ EraseFromCache(S, TRUE) /\ Goto(t, c)
      /\ UNCHANGED <<now, byId, written, byHash, bySession, byTime, vote, voteTime, revoted, overtaken>>
  BY DEF CleanupOldRecoveredSigs, recs, votes
<1>2. old \subseteq Times \X Ids /\ S \subseteq Sigs
  BY DEF Expired, IndInv, TypeOK
<1>3. c \in Calls /\ c.pc = "clean"
  BY <1>2 DEF Calls
<1>4. call' \in [Threads -> Calls] /\ call'[t] = c /\ \A u \in Threads \ {t} : call'[u] = call[u]
  BY <1>1, <1>3, GotoType DEF IndInv
<1>5. TypeOK'
  <2>1. cache' \in [Keys -> BOOLEAN \cup {None}]
    BY <1>1 DEF EraseFromCache, IndInv, TypeOK
  <2> QED
    BY <1>1, <1>4, <2>1 DEF IndInv, TypeOK
<1>6. IndexedByTime'
  BY <1>1 DEF IndInv, IndexedByTime, TimeKey
<1>7. \A k \in old : k[1] < now
  BY <1>2, DbAssumption DEF Expired, IndInv, TypeOK, Times
<1>8. ASSUME NEW id \in Ids, byId[id] # None, \A s \in S : s.id # id
      PROVE  TimeKey(id) \notin old
  <2>1. byId[id].id = id
    BY <1>8 DEF IndInv, IndexedByTime
  <2>2. byId[id] \notin S
    BY <1>8, <2>1
  <2> QED
    BY <1>8, <2>2 DEF TimeKey
<1> HIDE DEF old, S
<1>9. CleansBoth'
  BY <1>1, <1>4, <1>7, <1>8 DEF IndInv, CleansBoth, TimeKey
<1> QED
  BY <1>5, <1>6, <1>9 DEF IndInv

\* It ends by erasing both.
LEMMA CleanupBatchStep ==
  ASSUME IndInv, NEW t \in Threads, CleanupBatch(t)
  PROVE  IndInv'
<1> DEFINE S == call[t].sigs
<1>1. S \subseteq Sigs
  BY CallFields DEF CleanupBatch, IndInv
<1>2. /\ call[t].pc = "clean" /\ EraseRecs(S) /\ Goto(t, Idle)
      /\ byHash' = byHash \ S /\ byTime' = byTime \ call[t].old
      /\ UNCHANGED <<now, vote, voteTime, revoted, cache>>
      /\ overtaken' \subseteq Keys
  BY DEF CleanupBatch, votes, DbOvertakes, IndInv, TypeOK
<1>3. /\ call' \in [Threads -> Calls]
      /\ \A u \in Threads : call'[u].pc = "clean" => call'[u] = call[u]
  BY <1>2, CallTypes, GotoType DEF IndInv
<1>4. TypeOK'
  BY <1>1, <1>2, <1>3, EraseLeavesOthers DEF IndInv, TypeOK
<1>5. \A id \in Ids : byId[id] # None /\ (\A s \in S : s.id # id) => TimeKey(id) \notin call[t].old
  BY <1>2 DEF IndInv, CleansBoth
<1> HIDE DEF S
<1>6. IndexedByTime'
  BY <1>1, <1>2, <1>5, EraseLeavesOthers DEF IndInv, IndexedByTime
<1>7. CleansBoth'
  <2> SUFFICES ASSUME NEW u \in Threads, call'[u].pc = "clean"
               PROVE  /\ \A k \in call[u].old : k[1] < now
                      /\ \A id \in Ids : byId'[id] # None /\ (\A r \in call[u].sigs : r.id # id)
                           => TimeKey(id)' \notin call[u].old
    BY <1>2, <1>3 DEF CleansBoth
  <2>1. /\ \A k \in call[u].old : k[1] < now
        /\ \A id \in Ids : byId[id] # None /\ (\A r \in call[u].sigs : r.id # id)
             => TimeKey(id) \notin call[u].old
    BY <1>3 DEF IndInv, CleansBoth
  <2>2. \A id \in Ids : byId'[id] # None => byId[id] # None /\ TimeKey(id)' = TimeKey(id)
    BY <1>1, <1>2, EraseLeavesOthers
  <2> QED
    BY <2>1, <2>2
<1> QED
  BY <1>4, <1>6, <1>7 DEF IndInv

-----------------------------------------------------------------------------
(***************************************************************************)
(* Steps that no thread of the database takes.                             *)
(***************************************************************************)

\* A vote is written or cleaned up.
LEMMA VoteSteps ==
  ASSUME IndInv, NEW t \in Threads, WriteVoteForId(t) \/ CleanupVotesBatch(t)
  PROVE  IndInv'
<1>0. TypeOK /\ now \in Int
  BY DEF IndInv, TypeOK, Times
<1>1. /\ UNCHANGED <<now, byId, written, byHash, bySession, byTime, cache, overtaken>>
      /\ Goto(t, Idle)
  BY DEF WriteVoteForId, CleanupVotesBatch, recs
<1>2. call' \in [Threads -> Calls] /\ \A u \in Threads : call'[u].pc = "clean" => call'[u] = call[u]
  BY <1>0, <1>1, CallTypes, GotoType
<1>3. vote' \in [Ids -> Msgs \cup {None}] /\ voteTime' \subseteq Times \X Ids /\ revoted' \subseteq Ids
  <2>1. CASE WriteVoteForId(t)
    <3>1. call[t].id \in Ids /\ call[t].msg \in Msgs
      BY <1>0, <2>1, CallFields DEF WriteVoteForId
    <3> QED
      BY <1>0, <2>1, <3>1 DEF WriteVoteForId, TypeOK
  <2>2. CASE CleanupVotesBatch(t)
    BY <1>0, <2>2 DEF CleanupVotesBatch, TypeOK
  <2> QED
    BY <2>1, <2>2
<1>4. TypeOK'
  BY <1>0, <1>1, <1>2, <1>3 DEF TypeOK
<1>5. UNCHANGED recs
  BY <1>1 DEF recs
<1> QED
  BY <1>0, <1>1, <1>2, <1>4, <1>5, SameRecs DEF IndInv

\* The clock, evictions and restarts.
LEMMA OtherSteps ==
  ASSUME IndInv, Tick \/ (\E k \in Keys : Evict(k)) \/ Restart
  PROVE  IndInv'
<1>0. TypeOK /\ now \in Int
  BY DEF IndInv, TypeOK, Times
<1>3. CASE Tick
  <2>1. TypeOK' /\ UNCHANGED <<recs, call>> /\ now' \in Int /\ now <= now'
    BY <1>3, <1>0, DbAssumption DEF Tick, TypeOK, recs, votes, Times
  <2> QED
    BY <1>0, <2>1, SameRecs DEF IndInv
<1>4. CASE \E k \in Keys : Evict(k)
  <2>1. cache' \in [Keys -> BOOLEAN \cup {None}] /\ UNCHANGED <<now, recs, votes, call>>
        /\ overtaken' \subseteq Keys
    BY <1>4, <1>0 DEF Evict, TypeOK
  <2>2. call' \in [Threads -> Calls]
    BY <1>0, <2>1 DEF TypeOK
  <2> QED
    BY <2>1, <2>2, CacheStep
<1>5. CASE Restart
  <2>1. cache' \in [Keys -> BOOLEAN \cup {None}] /\ UNCHANGED <<now, recs, votes>> /\ overtaken' = {}
    BY <1>5 DEF Restart
  <2>2. call' \in [Threads -> Calls] /\ \A u \in Threads : call'[u].pc # "clean"
    BY <1>5, CallTypes DEF Restart
  <2> QED
    BY <2>1, <2>2, CacheStep
<1> QED
  BY <1>3, <1>4, <1>5

-----------------------------------------------------------------------------
(***************************************************************************)
(* The theorems.                                                           *)
(***************************************************************************)

\* The database's invariant holds in every state of any number of threads, with
\* truncation, clean-up, evictions and restarts at any point: this is the
\* batching of WriteRecoveredSig, RemoveRecoveredSig and CleanupOldRecoveredSigs.
THEOREM Inductive == Spec => []IndInv
<1>1. Init => IndInv
  <2> SUFFICES ASSUME Init PROVE IndInv
    OBVIOUS
  <2>1. TypeOK
    BY CallTypes, DbAssumption DEF Init, TypeOK, Times
  <2>2. IndexedByTime
    BY DEF Init, IndexedByTime
  <2>3. CleansBoth
    BY CallTypes DEF Init, CleansBoth
  <2> QED
    BY <2>1, <2>2, <2>3 DEF IndInv
<1>2. IndInv /\ [Next]_vars => IndInv'
  <2> SUFFICES ASSUME IndInv, [Next]_vars PROVE IndInv'
    OBVIOUS
  <2>1. ASSUME NEW t \in Threads, Thread(t) PROVE IndInv'
    <3>1. CASE \/ \E k \in Keys : Lookup(t, k)
               \/ ReadDb(t) \/ FillCache(t)
               \/ \E s \in Sigs : ProcessRecoveredSig(t, s)
               \/ AskForId(t) \/ InsertIntoCache(t)
               \/ \E id \in Ids : Truncate(t, id)
               \/ \E id \in Ids, m \in Msgs : HasVotedOnId(t, id, m)
               \/ CleanupOldVotes(t)
      BY <3>1, LookupSteps
    <3>2. CASE WriteBatch(t)
      BY <3>2, WriteStep
    <3>3. CASE TruncateBatch(t)
      BY <3>3, TruncateStep
    <3>4. CASE CleanupOldRecoveredSigs(t)
      BY <3>4, CleanupStep
    <3>5. CASE CleanupBatch(t)
      BY <3>5, CleanupBatchStep
    <3>6. CASE WriteVoteForId(t) \/ CleanupVotesBatch(t)
      BY <3>6, VoteSteps
    <3> QED
      BY <2>1, <3>1, <3>2, <3>3, <3>4, <3>5, <3>6 DEF Thread
  <2>2. CASE Tick \/ (\E k \in Keys : Evict(k)) \/ Restart
    BY <2>2, OtherSteps
  <2>3. CASE UNCHANGED vars
    <3>1. UNCHANGED <<now, byId, written, byHash, bySession, byTime, vote, voteTime, revoted, cache, call,
                      overtaken>>
      BY <2>3 DEF vars, recs, votes
    <3> QED
      BY <3>1 DEF IndInv, TypeOK, IndexedByTime, TimeKey, CleansBoth
  <2> QED
    BY <2>1, <2>2, <2>3 DEF Next
<1> QED
  BY <1>1, <1>2, PTL DEF Spec

\* Everything the database, the caches and the threads hold keeps its type.
THEOREM TypeCorrect == Spec => []TypeOK
<1>1. IndInv => TypeOK
  BY DEF IndInv
<1> QED
  BY <1>1, Inductive, PTL

\* A stored signature is under all five keys, so that the clean-up finds it.
THEOREM StoredIsIndexed == Spec => []Indexed
<1>1. IndInv => Indexed
  <2> SUFFICES ASSUME IndInv, NEW id \in Ids, byId[id] # None
               PROVE  /\ written[<<id, byId[id].msg>>] # None
                      /\ byId[id] \in byHash /\ byId[id] \in bySession
                      /\ \E x \in Times : <<x, id>> \in byTime
    BY DEF Indexed
  <2>1. /\ written[<<id, byId[id].msg>>] # None /\ TimeKey(id) \in byTime
        /\ byId[id] \in byHash /\ byId[id] \in bySession
    BY DEF IndInv, IndexedByTime
  <2>2. written[<<id, byId[id].msg>>] \in Times
    BY <2>1, SigFields DEF IndInv, TypeOK
  <2> QED
    BY <2>1, <2>2 DEF TimeKey
<1> QED
  BY <1>1, Inductive, PTL

-----------------------------------------------------------------------------
(***************************************************************************)
(* Clean-ups and the clock.                                                *)
(***************************************************************************)

\* Where a thread goes after a step.
LEMMA Moves ==
  ASSUME TypeOK, NEW t \in Threads, NEW c, Goto(t, c)
  PROVE  call'[t] = c /\ \A u \in Threads \ {t} : call'[u] = call[u]
  BY DEF Goto, TypeOK

\* A thread that is in a clean-up was there before, or has just begun one.
LEMMA CleanBegins ==
  ASSUME TypeOK, [Next]_vars, NEW u \in Threads, call'[u].pc \in {"clean", "cleanvotes"}
  PROVE  call'[u] = call[u] \/ CleanupOldRecoveredSigs(u) \/ CleanupOldVotes(u)
<1> DEFINE P == call'[u] = call[u] \/ CleanupOldRecoveredSigs(u) \/ CleanupOldVotes(u)
<1>1. \A t \in Threads : \A c : Goto(t, c) => call'[t] = c /\ \A v \in Threads \ {t} : call'[v] = call[v]
  BY Moves
<1>2. ASSUME NEW t \in Threads, NEW k, NEW sig, NEW found, Answered(t, k, sig, found) PROVE P
  <2>1. PICK c : Goto(t, c) /\ c.pc \in {"idle", "id", "write"}
    BY <1>2 DEF Answered, Idle
  <2> QED
    BY <1>1, <2>1
<1>3. ASSUME NEW t \in Threads, NEW k, NEW sig, Ask(t, k, sig) PROVE P
  <2>1. CASE cache[k] = None
    BY <1>1, <1>3, <2>1 DEF Ask
  <2>2. CASE cache[k] # None
    BY <1>2, <1>3, <2>2 DEF Ask
  <2> QED
    BY <2>1, <2>2
<1>4. ASSUME NEW t \in Threads, Thread(t) PROVE P
  <2>1. CASE \/ \E k \in Keys : Lookup(t, k)
             \/ \E s \in Sigs : ProcessRecoveredSig(t, s)
             \/ AskForId(t)
    BY <1>3, <2>1 DEF Lookup, ProcessRecoveredSig, AskForId
  <2>2. CASE FillCache(t)
    BY <1>2, <2>2 DEF FillCache
  <2>3. CASE ReadDb(t) \/ WriteBatch(t)
    BY <1>1, <2>3 DEF ReadDb, WriteBatch
  <2>4. CASE InsertIntoCache(t) \/ TruncateBatch(t) \/ CleanupBatch(t) \/ WriteVoteForId(t) \/ CleanupVotesBatch(t)
    <3>1. Goto(t, Idle)
      BY <2>4, Zenon DEF InsertIntoCache, TruncateBatch, CleanupBatch, WriteVoteForId, CleanupVotesBatch
    <3>2. Idle.pc = "idle"
      BY DEF Idle
    <3> QED
      BY <1>1, <3>1, <3>2
  <2>5. CASE \E id \in Ids : Truncate(t, id)
    <3>1. PICK id \in Ids : Goto(t, [pc |-> "truncate", sig |-> byId[id]])
      BY <2>5, Zenon DEF Truncate
    <3> DEFINE c == [pc |-> "truncate", sig |-> byId[id]]
    <3>2. c.pc = "truncate" /\ Goto(t, c)
      BY <3>1
    <3> HIDE DEF c
    <3> QED
      BY <1>1, <3>2
  <2>6. CASE CleanupOldRecoveredSigs(t) \/ CleanupOldVotes(t)
    <3>1. PICK c : Goto(t, c)
      BY <2>6, Zenon DEF CleanupOldRecoveredSigs, CleanupOldVotes
    <3>2. CASE u = t
      BY <2>6, <3>2
    <3>3. CASE u # t
      BY <1>1, <3>1, <3>3
    <3> QED
      BY <3>2, <3>3
  <2>7. CASE \E id \in Ids, m \in Msgs : HasVotedOnId(t, id, m)
    BY <1>1, <2>7 DEF HasVotedOnId
  <2> QED
    BY <1>4, <2>1, <2>2, <2>3, <2>4, <2>5, <2>6, <2>7 DEF Thread
<1>5. CASE Tick \/ (\E k \in Keys : Evict(k)) \/ UNCHANGED vars
  BY <1>5 DEF Tick, Evict, vars
<1>6. CASE Restart
  BY <1>6 DEF Restart, Idle
<1> QED
  BY <1>4, <1>5, <1>6 DEF Next

\* The clock does not go back.
LEMMA ClockRuns ==
  ASSUME TypeOK, [Next]_vars
  PROVE  now \in Int /\ now' \in Times /\ now' \in Int /\ now' >= now /\ MaxAge \in Int
<1>1. now \in Int /\ \A x \in Times : x \in Int
  BY DEF TypeOK, Times
<1>2. now' = now \/ Tick
  <2>1. ASSUME NEW t \in Threads, Thread(t) PROVE now' = now
    BY <2>1 DEF Thread, Lookup, ReadDb, FillCache, ProcessRecoveredSig, AskForId, Ask, WriteBatch,
                InsertIntoCache, Truncate, TruncateBatch, CleanupOldRecoveredSigs, CleanupBatch,
                HasVotedOnId, WriteVoteForId, CleanupOldVotes, CleanupVotesBatch
  <2> QED
    BY <2>1 DEF Next, Evict, Restart, vars
<1> QED
  BY <1>1, <1>2, DbAssumption DEF Tick, TypeOK, Times

-----------------------------------------------------------------------------
(***************************************************************************)
(* Votes.                                                                  *)
(***************************************************************************)

\* Only WriteVoteForId and CleanupOldVotes touch the votes.
LEMMA VotesChange ==
  ASSUME [Next]_vars
  PROVE  \/ UNCHANGED votes
         \/ \E t \in Threads : WriteVoteForId(t)
         \/ \E t \in Threads : CleanupVotesBatch(t)
<1>1. ASSUME NEW t \in Threads, Thread(t), ~WriteVoteForId(t), ~CleanupVotesBatch(t) PROVE UNCHANGED votes
  BY <1>1 DEF Thread, Lookup, ReadDb, FillCache, ProcessRecoveredSig, AskForId, Ask, WriteBatch,
              InsertIntoCache, Truncate, TruncateBatch, CleanupOldRecoveredSigs, CleanupBatch,
              HasVotedOnId, CleanupOldVotes
<1>2. Tick \/ (\E k \in Keys : Evict(k)) \/ Restart \/ UNCHANGED vars => UNCHANGED votes
  BY DEF Tick, Evict, Restart, vars
<1> QED
  BY <1>1, <1>2 DEF Next

\* The one clean-up of votes under way holds expired keys that are still there.
VotesInHand(t) == call[t].pc = "cleanvotes" =>
  call[t].old \subseteq voteTime /\ \A k \in call[t].old : k[1] < now - MaxAge
OneVoteCleanup ==
  \A t, u \in Threads : call[t].pc = "cleanvotes" /\ call[u].pc = "cleanvotes" => t = u

\* A clean-up of votes goes on alone, over the keys it began with.
LEMMA VotesInHandStep ==
  ASSUME TypeOK, VoteByTime, [Next]_vars
  PROVE  (\A t \in Threads : VotesInHand(t)') /\ OneVoteCleanup'
<1>a. OneVoteCleanup /\ \A t \in Threads : VotesInHand(t)
  BY DEF VoteByTime, OneVoteCleanup, VotesInHand
<1>b. now \in Int /\ now' \in Int /\ now' >= now /\ MaxAge \in Int
  BY ClockRuns
<1>1. ASSUME NEW u \in Threads, call'[u].pc = "cleanvotes", call'[u] # call[u]
      PROVE  /\ \A v \in Threads : call'[v].pc = "cleanvotes" => v = u
             /\ VotesInHand(u)'
  <2>1. CleanupOldVotes(u)
    <3>1. CleanupOldRecoveredSigs(u) => call'[u].pc = "clean"
      BY Moves DEF CleanupOldRecoveredSigs
    <3> QED
      BY <1>1, <3>1, CleanBegins
  <2>2. /\ call'[u] = [pc |-> "cleanvotes", old |-> Expired(voteTime)]
        /\ \A v \in Threads \ {u} : call'[v] = call[v] /\ call[v].pc # "cleanvotes"
        /\ voteTime' = voteTime /\ now' = now
    BY <2>1, Moves DEF CleanupOldVotes, CleansUp, votes
  <2>3. Expired(voteTime) \subseteq voteTime /\ \A k \in Expired(voteTime) : k[1] < now - MaxAge
    BY DEF Expired
  <2> QED
    BY <2>2, <2>3 DEF VotesInHand
<1>2. OneVoteCleanup'
  BY <1>a, <1>1 DEF OneVoteCleanup
<1>3. ASSUME NEW u \in Threads PROVE VotesInHand(u)'
  <2> SUFFICES ASSUME call'[u].pc = "cleanvotes", call'[u] = call[u]
               PROVE  VotesInHand(u)'
    BY <1>1 DEF VotesInHand
  <2>1. call[u].old \subseteq voteTime /\ \A k \in call[u].old : k[1] < now - MaxAge /\ k[1] \in Int
    BY <1>a, CallFields DEF VotesInHand, Times
  <2>2. voteTime \subseteq voteTime'
    <3>1. CASE \E t \in Threads : WriteVoteForId(t)
      BY <3>1 DEF WriteVoteForId
    <3>2. ASSUME NEW t \in Threads, CleanupVotesBatch(t) PROVE FALSE
      <4>1. call[t].pc = "cleanvotes" /\ Goto(t, Idle)
        BY <3>2 DEF CleanupVotesBatch
      <4>2. t = u /\ call'[t] = Idle
        BY <1>a, <4>1, Moves DEF OneVoteCleanup
      <4> QED
        BY <4>2 DEF Idle
    <3> QED
      BY <3>1, <3>2, VotesChange DEF votes
  <2>3. \A k \in call[u].old : k[1] < now' - MaxAge
    BY <1>b, <2>1
  <2> QED
    BY <2>1, <2>2, <2>3 DEF VotesInHand
<1> QED
  BY <1>2, <1>3

\* WriteVoteForId finds no vote, hence no key, or marks the id as voted on again;
\* CleanupOldVotes removes a vote with its only key.
LEMMA VoteByTimeStep ==
  ASSUME TypeOK, VoteByTime, [Next]_vars
  PROVE  VoteByTime'
<1> DEFINE Keyed == \A id \in Ids : vote[id] # None => \E x \in Times : <<x, id>> \in voteTime
           Once == \A k, l \in voteTime : k[2] = l[2] /\ k[2] \notin revoted => k = l /\ vote[k[2]] # None
<1>a. Keyed /\ Once
  BY DEF VoteByTime
<1>b. /\ vote \in [Ids -> Msgs \cup {None}] /\ voteTime \subseteq Times \X Ids
      /\ now \in Times /\ revoted \subseteq Ids
  BY DEF TypeOK
<1>1. CASE UNCHANGED votes
  BY <1>a, <1>1, VotesInHandStep DEF votes, VoteByTime, VotesInHand, OneVoteCleanup
<1>2. ASSUME NEW t \in Threads, WriteVoteForId(t) PROVE VoteByTime'
  <2>1. PICK id \in Ids, m \in Msgs : id = call[t].id /\ m = call[t].msg /\ m # None
    BY <1>2, CallFields, DbAssumption DEF WriteVoteForId
  <2>2. /\ vote' = [vote EXCEPT ![id] = m] /\ voteTime' = voteTime \cup {<<now, id>>}
        /\ revoted' = IF vote[id] # None THEN revoted \cup {id} ELSE revoted
    BY <1>2, <2>1 DEF WriteVoteForId
  <2>3. Keyed'
    BY <1>a, <1>b, <2>1, <2>2
  <2>4. Once'
    <3> SUFFICES ASSUME NEW k \in voteTime', NEW l \in voteTime', k[2] = l[2], k[2] \notin revoted'
                 PROVE  k = l /\ vote'[k[2]] # None
      OBVIOUS
    <3>1. CASE k[2] = id
      <4>1. vote[id] = None /\ id \notin revoted
        BY <2>2, <3>1
      <4>2. \A j \in voteTime : j[2] # id
        BY <1>a, <4>1
      <4>3. k = <<now, id>> /\ l = <<now, id>>
        BY <2>2, <3>1, <4>2
      <4> QED
        BY <1>b, <2>1, <2>2, <4>3
    <3>2. CASE k[2] # id
      <4>1. k \in voteTime /\ l \in voteTime /\ k[2] \in Ids /\ k[2] \notin revoted
        BY <1>b, <2>2, <3>2
      <4> QED
        BY <1>a, <1>b, <2>2, <3>2, <4>1
    <3> QED
      BY <3>1, <3>2
  <2> QED
    BY <2>3, <2>4, VotesInHandStep DEF VoteByTime, VotesInHand, OneVoteCleanup
<1>3. ASSUME NEW t \in Threads, CleanupVotesBatch(t) PROVE VoteByTime'
  <2> DEFINE old == call[t].old
  <2>1. /\ vote' = [id \in Ids |-> IF \E k \in old : k[2] = id THEN None ELSE vote[id]]
        /\ voteTime' = voteTime \ old
        /\ revoted' = {id \in revoted : \E k \in voteTime' : k[2] = id}
        /\ old \subseteq voteTime
    BY <1>3 DEF CleanupVotesBatch, VoteByTime
  <2> HIDE DEF old
  <2>2. Keyed'
    <3> SUFFICES ASSUME NEW id \in Ids, vote'[id] # None
                 PROVE  \E x \in Times : <<x, id>> \in voteTime'
      OBVIOUS
    <3>1. vote[id] # None /\ ~\E k \in old : k[2] = id
      BY <2>1
    <3>2. PICK x \in Times : <<x, id>> \in voteTime
      BY <1>a, <3>1
    <3> QED
      BY <2>1, <3>1, <3>2
  <2>3. Once'
    <3> SUFFICES ASSUME NEW k \in voteTime', NEW l \in voteTime', k[2] = l[2], k[2] \notin revoted'
                 PROVE  k = l /\ vote'[k[2]] # None
      OBVIOUS
    <3>1. k \in voteTime /\ l \in voteTime /\ k \notin old /\ k[2] \in Ids /\ k[2] \notin revoted
      BY <1>b, <2>1
    <3>2. k = l /\ vote[k[2]] # None
      BY <1>a, <3>1
    <3>3. \A j \in old : j[2] # k[2]
      BY <1>a, <2>1, <3>1
    <3> QED
      BY <2>1, <3>1, <3>2, <3>3
  <2> QED
    BY <2>2, <2>3, VotesInHandStep DEF VoteByTime, VotesInHand, OneVoteCleanup
<1> QED
  BY <1>1, <1>2, <1>3, VotesChange

\* A member forgets a vote that replaced none only when it is past MaxAge.
LEMMA VoteKeptStep ==
  ASSUME TypeOK, VoteByTime, [Next]_vars, NEW id \in Ids \ revoted, vote[id] # None, vote'[id] = None,
         NEW x \in Times, <<x, id>> \in voteTime
  PROVE  x < now - MaxAge
<1>1. ~UNCHANGED votes
  BY DEF votes
<1>2. ~\E t \in Threads : WriteVoteForId(t)
  <2> SUFFICES ASSUME NEW t \in Threads, WriteVoteForId(t) PROVE FALSE
    OBVIOUS
  <2>1. call[t].id \in Ids /\ call[t].msg \in Msgs /\ call[t].msg # None
    BY CallFields, DbAssumption DEF WriteVoteForId
  <2> QED
    BY <2>1 DEF WriteVoteForId, TypeOK
<1>3. PICK t \in Threads : CleanupVotesBatch(t)
  BY <1>1, <1>2, VotesChange
<1>4. PICK k \in call[t].old : k[2] = id
  BY <1>3 DEF CleanupVotesBatch
<1>5. k \in voteTime /\ k[1] < now - MaxAge
  BY <1>3, <1>4 DEF CleanupVotesBatch, VoteByTime
<1>6. k = <<x, id>>
  BY <1>4, <1>5 DEF VoteByTime
<1> QED
  BY <1>5, <1>6

\* CleanupOldVotes, with WriteVoteForId, lets no member vote again on an id
\* before MaxAge is over, unless its vote replaced another, for any ids,
\* messages and threads.
THEOREM VotesLast == Spec => VoteKeptForMaxAge
<1>1. Init => VoteByTime
  BY CallTypes DEF Init, VoteByTime
<1>2. TypeOK /\ VoteByTime /\ [Next]_vars => VoteByTime'
  BY VoteByTimeStep
<1>3. TypeOK /\ VoteByTime /\ [Next]_vars
      => [\A id \in Ids \ revoted : vote[id] # None /\ vote'[id] = None =>
            \A x \in Times : <<x, id>> \in voteTime => x < now - MaxAge]_vars
  BY VoteKeptStep
<1> QED
  BY <1>1, <1>2, <1>3, TypeCorrect, PTL DEF Spec, VoteKeptForMaxAge
-----------------------------------------------------------------------------
(***************************************************************************)
(* How long a signature is kept.                                           *)
(***************************************************************************)

\* A clean-up under way holds keys that are past MaxAge, and each signature it
\* is about to erase has one of them.
CleansOld ==
  \A t \in Threads : call[t].pc = "clean" =>
    /\ \A k \in call[t].old : k[1] < now - MaxAge
    /\ \A s \in call[t].sigs : \E k \in call[t].old : k[2] = s.id

LEMMA CleansOldStep ==
  ASSUME IndInv, CleansOld, [Next]_vars
  PROVE  CleansOld'
<1> SUFFICES ASSUME NEW u \in Threads, call'[u].pc = "clean"
             PROVE  /\ \A k \in call'[u].old : k[1] < now' - MaxAge
                    /\ \A s \in call'[u].sigs : \E k \in call'[u].old : k[2] = s.id
  BY DEF CleansOld
<1>1. TypeOK /\ now \in Int /\ now' \in Int /\ now' >= now /\ MaxAge \in Int
  BY ClockRuns DEF IndInv
<1>2. CASE call'[u] = call[u]
  <2>1. call[u].old \subseteq Times \X Ids
    BY <1>1, <1>2, CallFields
  <2>2. \A k \in call[u].old : k[1] \in Int
    BY <2>1 DEF Times
  <2> QED
    BY <1>1, <1>2, <2>2 DEF CleansOld
<1>3. CASE CleanupOldRecoveredSigs(u)
  <2> DEFINE old == Expired(byTime)
             S == {byId[k[2]] : k \in old} \ {None}
  <2>1. call'[u] = [pc |-> "clean", old |-> old, sigs |-> S] /\ now' = now
    BY <1>1, <1>3 DEF CleanupOldRecoveredSigs, Goto, TypeOK
  <2>2. \A k \in old : k[1] < now - MaxAge /\ k[2] \in Ids
    BY <1>1 DEF Expired, TypeOK
  <2>3. \A s \in S : \E k \in old : k[2] = s.id
    BY <2>2 DEF IndInv, IndexedByTime
  <2> HIDE DEF old, S
  <2> QED
    BY <2>1, <2>2, <2>3
<1>4. CleanupOldVotes(u) => call'[u].pc = "cleanvotes"
  BY <1>1, Moves DEF CleanupOldVotes
<1> QED
  BY <1>1, <1>2, <1>3, <1>4, CleanBegins

\* CleanupOldRecoveredSigs erases a stored signature only after MaxAge, or because
\* of a key by time that is not the signature's, for any ids, signatures and threads.
THEOREM KeptUnlessLeftOver == Spec => KeptForMaxAge
<1>1. Init => CleansOld
  BY CallTypes DEF Init, CleansOld
<1>2. IndInv /\ CleansOld /\ [Next]_vars => CleansOld'
  BY CleansOldStep
<1>3. CleansOld => \A t \in Threads : call[t].pc = "clean" =>
        \A s \in call[t].sigs :
          \/ written[<<s.id, s.msg>>] < now - MaxAge
          \/ \E k \in call[t].old : k[2] = s.id /\ k[1] # written[<<s.id, s.msg>>]
  BY DEF CleansOld
<1>4. IndInv /\ CleansOld /\ [Next]_vars =>
        [\A t \in Threads : call[t].pc = "clean" /\ call'[t] = Idle =>
           \A s \in call[t].sigs : byId[s.id] = s /\ byId'[s.id] = None =>
             \/ written[<<s.id, s.msg>>] < now - MaxAge
             \/ \E k \in call[t].old : k[2] = s.id /\ k[1] # written[<<s.id, s.msg>>]]_vars
  BY <1>3
<1> QED
  BY <1>1, <1>2, <1>4, Inductive, PTL DEF Spec, KeptForMaxAge

-----------------------------------------------------------------------------
(***************************************************************************)
(* The caches, for any number of threads.                                  *)
(***************************************************************************)

\* What is known of a key while nobody is overtaken on it.
Settled(k) ==
  /\ (\A t \in Threads : ~Inserting(t, k)) => cache[k] \in {None, Present(k)}
  /\ \A t \in Threads :
       /\ call[t].pc = "fill" /\ call[t].key = k => call[t].found = Present(k)
       /\ Inserting(t, k) => Present(k)
       /\ Erasing(t, k) => cache[k] = None

CacheInv == \A k \in Keys \ overtaken : Settled(k)

\* The kinds of a key.
LEMMA KeyKinds ==
  \A k \in Keys : \/ k.kind = "id" /\ k.of \in Ids /\ k = IdKey(k.of)
                  \/ k.kind = "session" /\ k.of \in Sigs /\ k = SessionKey(k.of)
                  \/ k.kind = "hash" /\ k.of \in Sigs /\ k = HashKey(k.of)
  BY DEF Keys, IdKey, SessionKey, HashKey

\* What a thread has in hand depends on its place only.
LEMMA SameHand ==
  ASSUME NEW u \in Threads, NEW k, call'[u] = call[u]
  PROVE  /\ Inserting(u, k)' = Inserting(u, k) /\ Filling(u, k)' = Filling(u, k)
         /\ Erasing(u, k)' = Erasing(u, k)
  BY DEF Inserting, Filling, Erasing

\* A step of thread t keeps a key settled if what it takes in hand is right, if
\* the database changes only where t inserts next or has erased, if nobody else
\* fills the key meanwhile, and if t caches only what is there and nobody erases.
LEMMA SettledStep ==
  ASSUME NEW k, Settled(k), NEW t \in Threads, \A u \in Threads \ {t} : call'[u] = call[u],
         call'[t].pc = "fill" /\ call'[t].key = k => call'[t].found = Present(k)',
         Inserting(t, k)' => Present(k)',
         Erasing(t, k)' => cache'[k] = None,
         \/ cache'[k] = cache[k] /\ (Inserting(t, k) => Inserting(t, k)')
         \/ cache'[k] = None
         \/ cache'[k] = Present(k)' /\ \A u \in Threads \ {t} : ~Erasing(u, k),
         \/ Present(k)' = Present(k)
         \/ /\ \A u \in Threads \ {t} : ~Filling(u, k)
            /\ cache'[k] = cache[k] /\ (Inserting(t, k)' \/ Erasing(t, k))
  PROVE  Settled(k)'
<1> USE DEF Settled
<1>1. \A u \in Threads \ {t} : /\ Inserting(u, k)' = Inserting(u, k)
                               /\ Erasing(u, k)' = Erasing(u, k)
                               /\ call'[u] = call[u]
  BY SameHand
<1>2. ASSUME \A u \in Threads : ~Inserting(u, k)'
      PROVE  cache'[k] \in {None, Present(k)'}
  <2>1. CASE Inserting(t, k)
    <3>1. ~(Inserting(t, k) => Inserting(t, k)')
      BY <1>2, <2>1
    <3>2. cache'[k] = None \/ cache'[k] = Present(k)'
      BY <3>1
    <3> QED
      BY <3>2
  <2>2. CASE ~Inserting(t, k)
    <3>1. \A u \in Threads : ~Inserting(u, k)
      BY <1>1, <1>2, <2>2
    <3>2. cache[k] \in {None, Present(k)} /\ ~Inserting(t, k)' /\ (Erasing(t, k) => cache[k] = None)
      BY <1>2, <3>1
    <3> QED
      BY <3>2
  <2> QED
    BY <2>1, <2>2
<1>3. ASSUME NEW u \in Threads \ {t}
      PROVE  /\ call'[u].pc = "fill" /\ call'[u].key = k => call'[u].found = Present(k)'
             /\ Inserting(u, k)' => Present(k)'
             /\ Erasing(u, k)' => cache'[k] = None
  <2>1. /\ call[u].pc = "fill" /\ call[u].key = k => call[u].found = Present(k)
        /\ Inserting(u, k) => Present(k)
        /\ Erasing(u, k) => cache[k] = None
    OBVIOUS
  <2>2. Present(k)' = Present(k) \/ ~Filling(u, k)
    OBVIOUS
  <2>3. ~Filling(u, k) => ~Inserting(u, k) /\ ~(call[u].pc = "fill" /\ call[u].key = k)
    BY DEF Filling
  <2>4. cache'[k] = cache[k] \/ cache'[k] = None \/ ~Erasing(u, k)
    OBVIOUS
  <2>5. call'[u] = call[u] /\ Inserting(u, k)' = Inserting(u, k) /\ Erasing(u, k)' = Erasing(u, k)
    BY <1>1
  <2> QED
    BY <2>1, <2>2, <2>3, <2>4, <2>5
<1> QED
  BY <1>2, <1>3

\* A step that changes neither database nor cache, and after which the thread has
\* nothing in hand, or the database's answer.
LEMMA QuietStep ==
  ASSUME CacheInv, NEW t \in Threads, NEW c, TypeOK, Goto(t, c), UNCHANGED <<recs, cache, overtaken>>,
         call[t].pc # "insert", c.pc \notin {"insert", "truncate", "clean"},
         c.pc = "fill" => c.found = Present(c.key)
  PROVE  CacheInv'
<1> SUFFICES ASSUME NEW k \in Keys \ overtaken PROVE Settled(k)'
  BY DEF CacheInv
<1>1. call'[t] = c /\ \A u \in Threads \ {t} : call'[u] = call[u]
  BY Moves
<1>2. Present(k)' = Present(k) /\ cache'[k] = cache[k] /\ Settled(k)
  BY DEF Present, recs, CacheInv
<1>3. ~Inserting(t, k) /\ ~Inserting(t, k)' /\ ~Erasing(t, k)'
  BY <1>1 DEF Inserting, Erasing
<1>4. call'[t].pc = "fill" /\ call'[t].key = k => call'[t].found = Present(k)'
  BY <1>1, <1>2
<1> QED
  BY <1>1, <1>2, <1>3, <1>4, SettledStep

\* A lookup that the cache answers, or that goes on to the database.
LEMMA AskQuiet ==
  ASSUME TypeOK, CacheInv, NEW t \in Threads, call[t].pc # "insert", NEW k, NEW sig, Ask(t, k, sig)
  PROVE  CacheInv'
<1>1. PICK c : Goto(t, c) /\ c.pc \in {"read", "idle", "id", "write"}
  <2>1. CASE cache[k] = None
    BY <2>1 DEF Ask
  <2>2. CASE cache[k] # None
    BY <2>2 DEF Ask, Answered, Idle
  <2> QED
    BY <2>1, <2>2
<1>2. UNCHANGED <<recs, cache, overtaken>>
  BY DEF Ask
<1> QED
  BY <1>1, <1>2, QuietStep

\* Erasing S changes the answers for the keys it is about to erase only.
LEMMA EraseChanges ==
  ASSUME NEW S, EraseRecs(S), NEW k \in Keys, Present(k)' # Present(k),
         byHash' = byHash \/ byHash' = byHash \ S
  PROVE  \E s \in S : k = IdKey(s.id) \/ k = SessionKey(s) \/ (k = HashKey(s) /\ byHash' = byHash \ S)
<1>1. /\ byId' = [id \in Ids |-> IF \E s \in S : s.id = id THEN None ELSE byId[id]]
      /\ bySession' = bySession \ S
  BY DEF EraseRecs
<1>2. CASE k.kind = "id" /\ k.of \in Ids /\ k = IdKey(k.of)
  BY <1>1, <1>2 DEF Present
<1>3. CASE k.kind = "session" /\ k.of \in Sigs /\ k = SessionKey(k.of)
  BY <1>1, <1>3 DEF Present
<1>4. CASE k.kind = "hash" /\ k.of \in Sigs /\ k = HashKey(k.of)
  BY <1>4 DEF Present
<1> QED
  BY <1>2, <1>3, <1>4, KeyKinds

\* Writing s changes the answers for its keys only, to yes.
LEMMA WriteChanges ==
  ASSUME TypeOK, NEW s \in Sigs, NEW k \in Keys,
         byId' = [byId EXCEPT ![s.id] = s], byHash' = byHash \cup {s}, bySession' = bySession \cup {s}
  PROVE  IF k \in KeysOf(s) THEN Present(k)' ELSE Present(k)' = Present(k)
<1>1. s.id \in Ids /\ s # None /\ byId \in [Ids -> Sigs \cup {None}]
  BY SigFields DEF TypeOK
<1>2. CASE k.kind = "id" /\ k.of \in Ids /\ k = IdKey(k.of)
  <2>1. k \in KeysOf(s) <=> k.of = s.id
    BY <1>2 DEF KeysOf, IdKey, SessionKey, HashKey
  <2>2. (Present(k) <=> byId[k.of] # None) /\ (Present(k)' <=> byId'[k.of] # None)
    BY <1>2 DEF Present
  <2>3. Present(k) \in BOOLEAN /\ Present(k)' \in BOOLEAN
    BY DEF Present
  <2> QED
    BY <1>1, <1>2, <2>1, <2>2, <2>3
<1>3. CASE k.kind = "session" /\ k.of \in Sigs /\ k = SessionKey(k.of)
  <2>1. k \in KeysOf(s) <=> k.of = s
    BY <1>3 DEF KeysOf, IdKey, SessionKey, HashKey
  <2>2. (Present(k) <=> k.of \in bySession) /\ (Present(k)' <=> k.of \in bySession')
    BY <1>3 DEF Present
  <2>3. Present(k) \in BOOLEAN /\ Present(k)' \in BOOLEAN
    BY DEF Present
  <2> QED
    BY <2>1, <2>2, <2>3
<1>4. CASE k.kind = "hash" /\ k.of \in Sigs /\ k = HashKey(k.of)
  <2>1. k \in KeysOf(s) <=> k.of = s
    BY <1>4 DEF KeysOf, IdKey, SessionKey, HashKey
  <2>2. (Present(k) <=> k.of \in byHash) /\ (Present(k)' <=> k.of \in byHash')
    BY <1>4 DEF Present
  <2>3. Present(k) \in BOOLEAN /\ Present(k)' \in BOOLEAN
    BY DEF Present
  <2> QED
    BY <2>1, <2>2, <2>3
<1> QED
  BY <1>2, <1>3, <1>4, KeyKinds

\* FillCache and InsertIntoCache.
LEMMA CacheFilled ==
  ASSUME TypeOK, CacheInv, NEW t \in Threads, FillCache(t) \/ InsertIntoCache(t)
  PROVE  CacheInv'
<1>1. PICK c : Goto(t, c) /\ c.pc \in {"idle", "id", "write"}
  <2>1. CASE FillCache(t)
    <3>1. Answered(t, call[t].key, call[t].sig, call[t].found)
      BY <2>1 DEF FillCache
    <3> QED
      BY <3>1 DEF Answered, Idle
  <2>2. CASE InsertIntoCache(t)
    <3>1. Goto(t, Idle) /\ Idle.pc = "idle"
      BY <2>2, Zenon DEF InsertIntoCache, Idle
    <3> QED
      BY <3>1
  <2> QED
    BY <2>1, <2>2
<1>2. call'[t] = c /\ \A u \in Threads \ {t} : call'[u] = call[u]
  BY <1>1, Moves
<1>3. UNCHANGED recs /\ CacheOvertakes(t)
  BY DEF FillCache, InsertIntoCache
<1> SUFFICES ASSUME NEW k \in Keys \ overtaken' PROVE Settled(k)'
  BY DEF CacheInv
<1>4. k \notin overtaken /\ Settled(k) /\ Present(k)' = Present(k) /\ Present(k) \in BOOLEAN
  BY <1>3 DEF CacheOvertakes, CacheInv, Present, recs
<1>5. Filling(t, k) => \A u \in Threads \ {t} : ~Erasing(u, k)
  BY <1>3 DEF CacheOvertakes
<1>6. ~Inserting(t, k)' /\ ~Erasing(t, k)' /\ call'[t].pc # "fill"
  BY <1>1, <1>2 DEF Inserting, Erasing
<1>7. \/ cache'[k] = cache[k] /\ ~Inserting(t, k)
      \/ cache'[k] = Present(k) /\ Filling(t, k)
  <2>1. CASE FillCache(t)
    <3>1. cache' = [cache EXCEPT ![call[t].key] = call[t].found] /\ call[t].pc = "fill"
      BY <2>1 DEF FillCache
    <3>2. ~Inserting(t, k)
      BY <3>1 DEF Inserting
    <3>3. CASE call[t].key = k
      BY <1>4, <3>1, <3>3 DEF Settled, Filling, TypeOK
    <3>4. CASE call[t].key # k
      BY <3>1, <3>2, <3>4 DEF TypeOK
    <3> QED
      BY <3>3, <3>4
  <2>2. CASE InsertIntoCache(t)
    <3>1. call[t].pc = "insert" /\ cache'[k] = IF k \in KeysOf(call[t].sig) THEN TRUE ELSE cache[k]
      BY <2>2 DEF InsertIntoCache
    <3>2. CASE k \in KeysOf(call[t].sig)
      BY <1>4, <3>1, <3>2 DEF Inserting, Filling, Settled
    <3>3. CASE k \notin KeysOf(call[t].sig)
      BY <3>1, <3>3 DEF Inserting
    <3> QED
      BY <3>2, <3>3
  <2> QED
    BY <2>1, <2>2
<1> QED
  BY <1>2, <1>4, <1>5, <1>6, <1>7, SettledStep

\* The batches: of a write, of a truncation, of a clean-up.
LEMMA CacheBatch ==
  ASSUME TypeOK, CacheInv, NEW t \in Threads, WriteBatch(t) \/ TruncateBatch(t) \/ CleanupBatch(t)
  PROVE  CacheInv'
<1>1. PICK c : Goto(t, c) /\ (c = Idle \/ (WriteBatch(t) /\ c = [pc |-> "insert", sig |-> call[t].sig]))
  BY DEF WriteBatch, TruncateBatch, CleanupBatch
<1>2. call'[t] = c /\ \A u \in Threads \ {t} : call'[u] = call[u]
  BY <1>1, Moves
<1>3. cache' = cache /\ DbOvertakes(t) /\ call[t].pc # "insert"
  BY DEF WriteBatch, TruncateBatch, CleanupBatch
<1> SUFFICES ASSUME NEW k \in Keys \ overtaken' PROVE Settled(k)'
  BY DEF CacheInv
<1>4. k \notin overtaken /\ Settled(k)
  BY <1>3 DEF DbOvertakes, CacheInv
<1>5. Present(k)' = Present(k) \/ \A u \in Threads \ {t} : ~Filling(u, k)
  BY <1>3 DEF DbOvertakes
<1>6. ~Erasing(t, k)' /\ call'[t].pc # "fill" /\ ~Inserting(t, k)
  BY <1>1, <1>2, <1>3 DEF Inserting, Erasing, Idle
<1>7. CASE WriteBatch(t)
  <2>1. call[t].sig \in Sigs
    BY <1>7, CallFields DEF WriteBatch
  <2>2. IF k \in KeysOf(call[t].sig) THEN Present(k)' ELSE Present(k)' = Present(k)
    BY <1>7, <2>1, WriteChanges DEF WriteBatch
  <2>3. Inserting(t, k)' <=> k \in KeysOf(call[t].sig)
    <3>1. Goto(t, [pc |-> "insert", sig |-> call[t].sig])
      BY <1>7 DEF WriteBatch
    <3>2. call'[t] = [pc |-> "insert", sig |-> call[t].sig]
      BY <3>1, Moves
    <3> QED
      BY <3>2 DEF Inserting
  <2> QED
    BY <1>2, <1>3, <1>4, <1>5, <1>6, <2>2, <2>3, SettledStep
<1>8. CASE TruncateBatch(t) \/ CleanupBatch(t)
  <2>1. Present(k)' # Present(k) => Erasing(t, k)
    <3>1. CASE TruncateBatch(t)
      <4>1. call[t].pc = "truncate" /\ EraseRecs({call[t].sig}) /\ byHash' = byHash
        BY <3>1 DEF TruncateBatch
      <4>2. CASE byHash = byHash \ {call[t].sig}
        <5>1. Present(k)' # Present(k) =>
                \E s \in {call[t].sig} : k = IdKey(s.id) \/ k = SessionKey(s) \/ k = HashKey(s)
          BY <4>1, EraseChanges
        <5>2. k.kind = "hash" => Present(k)' = Present(k)
          BY <4>1 DEF Present
        <5>3. k = HashKey(call[t].sig) => k.kind = "hash"
          BY DEF HashKey
        <5> QED
          BY <4>1, <5>1, <5>2, <5>3 DEF Erasing
      <4>3. CASE byHash # byHash \ {call[t].sig}
        BY <4>1, <4>3, EraseChanges DEF Erasing
      <4> QED
        BY <4>2, <4>3
    <3>2. CASE CleanupBatch(t)
      <4>1. /\ call[t].pc = "clean" /\ EraseRecs(call[t].sigs) /\ byHash' = byHash \ call[t].sigs
        BY <3>2 DEF CleanupBatch
      <4> QED
        BY <4>1, EraseChanges DEF Erasing, KeysOf
    <3> QED
      BY <1>8, <3>1, <3>2
  <2>2. ~Inserting(t, k)'
    <3>1. Goto(t, Idle)
      BY <1>8 DEF TruncateBatch, CleanupBatch
    <3> QED
      BY <3>1, Moves DEF Inserting, Idle
  <2> QED
    BY <1>2, <1>3, <1>4, <1>5, <1>6, <2>1, <2>2, SettledStep
<1> QED
  BY <1>7, <1>8

\* RemoveRecoveredSig erases from the cache what it is about to erase.
LEMMA CacheErased ==
  ASSUME TypeOK, CacheInv, NEW t \in Threads,
         (\E id \in Ids : Truncate(t, id)) \/ CleanupOldRecoveredSigs(t)
  PROVE  CacheInv'
<1>1. PICK c, S : \E hashes \in BOOLEAN :
        /\ call[t] = Idle /\ Goto(t, c) /\ UNCHANGED <<recs, overtaken>> /\ EraseFromCache(S, hashes)
        /\ \/ c.pc = "truncate" /\ S = {c.sig}
           \/ c.pc = "clean" /\ hashes /\ S = c.sigs
  <2> DEFINE Step(c, S, hashes) ==
        /\ call[t] = Idle /\ Goto(t, c) /\ UNCHANGED <<recs, overtaken>> /\ EraseFromCache(S, hashes)
        /\ \/ c.pc = "truncate" /\ S = {c.sig}
           \/ c.pc = "clean" /\ hashes /\ S = c.sigs
  <2>1. ASSUME NEW id \in Ids, Truncate(t, id)
        PROVE  \E c, S : \E hashes \in BOOLEAN : Step(c, S, hashes)
    <3> DEFINE c == [pc |-> "truncate", sig |-> byId[id]]
    <3>1. call[t] = Idle /\ Goto(t, c) /\ UNCHANGED <<recs, overtaken>> /\ EraseFromCache({byId[id]}, FALSE)
      BY <2>1, Zenon DEF Truncate, Free
    <3>2. c.pc = "truncate" /\ {byId[id]} = {c.sig}
      OBVIOUS
    <3>3. Step(c, {byId[id]}, FALSE)
      BY <3>1, <3>2, Zenon
    <3> HIDE DEF c, Step
    <3> QED
      BY <3>3, Zenon
  <2>2. ASSUME CleanupOldRecoveredSigs(t)
        PROVE  \E c, S : \E hashes \in BOOLEAN : Step(c, S, hashes)
    <3> DEFINE old == Expired(byTime)
               S == {byId[k[2]] : k \in old} \ {None}
               c == [pc |-> "clean", old |-> old, sigs |-> S]
    <3>1. call[t] = Idle /\ Goto(t, c) /\ UNCHANGED <<recs, overtaken>> /\ EraseFromCache(S, TRUE)
      BY <2>2, Zenon DEF CleanupOldRecoveredSigs, CleansUp, Free
    <3>2. c.pc = "clean" /\ S = c.sigs
      OBVIOUS
    <3>3. Step(c, S, TRUE)
      BY <3>1, <3>2, Zenon
    <3> HIDE DEF c, S, old, Step
    <3> QED
      BY <3>3, Zenon
  <2>3. \E c, S : \E hashes \in BOOLEAN : Step(c, S, hashes)
    <3> HIDE DEF Step
    <3> QED
      BY <2>1, <2>2, Zenon
  <2> QED
    BY <2>3, Zenon
<1>2. call'[t] = c /\ \A u \in Threads \ {t} : call'[u] = call[u]
  BY <1>1, Moves
<1> SUFFICES ASSUME NEW k \in Keys \ overtaken PROVE Settled(k)'
  BY <1>1 DEF CacheInv
<1>3. Present(k)' = Present(k) /\ Settled(k)
  BY <1>1 DEF Present, recs, CacheInv
<1>4. ~Inserting(t, k) /\ ~Inserting(t, k)' /\ call'[t].pc # "fill"
  BY <1>1, <1>2 DEF Inserting, Idle
<1>5. cache'[k] \in {cache[k], None}
  BY <1>1 DEF EraseFromCache
<1>6. Erasing(t, k)' => cache'[k] = None
  BY <1>1, <1>2 DEF Erasing, EraseFromCache, KeysOf, IdKey, SessionKey, HashKey
<1> QED
  BY <1>2, <1>3, <1>4, <1>5, <1>6, SettledStep

\* The steps of a thread.
LEMMA CacheThread ==
  ASSUME TypeOK, CacheInv, NEW t \in Threads, Thread(t)
  PROVE  CacheInv'
<1>1. CASE \/ \E k \in Keys : Lookup(t, k)
           \/ \E s \in Sigs : ProcessRecoveredSig(t, s)
           \/ AskForId(t)
  BY <1>1, AskQuiet DEF Lookup, ProcessRecoveredSig, AskForId, Free, Idle
<1>2. CASE ReadDb(t)
  <2> DEFINE c == [pc |-> "fill", key |-> call[t].key, sig |-> call[t].sig, found |-> Present(call[t].key)]
  <2>1. Goto(t, c) /\ UNCHANGED <<recs, cache, overtaken>> /\ call[t].pc = "read"
    BY <1>2 DEF ReadDb
  <2>2. c.pc = "fill" /\ c.found = Present(c.key)
    OBVIOUS
  <2> HIDE DEF c
  <2> QED
    BY <2>1, <2>2, QuietStep
<1>3. CASE \E id \in Ids, m \in Msgs : HasVotedOnId(t, id, m)
  <2>1. PICK id \in Ids, m \in Msgs : HasVotedOnId(t, id, m)
    BY <1>3
  <2> DEFINE c == [pc |-> "vote", id |-> id, msg |-> m]
  <2>2. Goto(t, c) /\ UNCHANGED <<recs, cache, overtaken>> /\ call[t].pc # "insert" /\ c.pc = "vote"
    BY <2>1 DEF HasVotedOnId, Free, Idle
  <2> HIDE DEF c
  <2> QED
    BY <2>2, QuietStep
<1>4. CASE WriteVoteForId(t) \/ CleanupVotesBatch(t)
  <2>1. Goto(t, Idle) /\ UNCHANGED <<recs, cache, overtaken>> /\ call[t].pc # "insert"
    BY <1>4 DEF WriteVoteForId, CleanupVotesBatch
  <2>2. Idle.pc = "idle"
    BY DEF Idle
  <2> QED
    BY <2>1, <2>2, QuietStep
<1>5. CASE CleanupOldVotes(t)
  <2> DEFINE c == [pc |-> "cleanvotes", old |-> Expired(voteTime)]
  <2>1. Goto(t, c) /\ UNCHANGED <<recs, cache, overtaken>> /\ call[t].pc # "insert" /\ c.pc = "cleanvotes"
    BY <1>5 DEF CleanupOldVotes, CleansUp, Free, Idle
  <2> HIDE DEF c
  <2> QED
    BY <2>1, QuietStep
<1> QED
  BY <1>1, <1>2, <1>3, <1>4, <1>5, CacheFilled, CacheBatch, CacheErased DEF Thread

\* Whatever threads look signatures up, write, truncate and clean up, the caches
\* of CRecoveredSigsDb answer what the database holds, for the keys of which no
\* thread was overtaken between database and cache.
THEOREM CachesAreRight == Spec => []CacheCoherent
<1>1. Init => CacheInv
  BY CallTypes DEF Init, CacheInv, Settled, Inserting, Erasing
<1>2. TypeOK /\ CacheInv /\ [Next]_vars => CacheInv'
  <2> SUFFICES ASSUME TypeOK, CacheInv, [Next]_vars PROVE CacheInv'
    OBVIOUS
  <2>1. CASE \E u \in Threads : Thread(u)
    BY <2>1, CacheThread
  <2>2. CASE Tick \/ UNCHANGED vars
    <3>1. UNCHANGED <<byId, byHash, bySession, cache, call, overtaken>>
      BY <2>2 DEF Tick, vars, recs
    <3>2. \A k : Present(k)' = Present(k)
      BY <3>1 DEF Present
    <3>3. \A k, t : Inserting(t, k)' = Inserting(t, k) /\ Erasing(t, k)' = Erasing(t, k)
      BY <3>1 DEF Inserting, Erasing
    <3> QED
      BY <3>1, <3>2, <3>3 DEF CacheInv, Settled
  <2>3. ASSUME NEW j \in Keys, Evict(j) PROVE CacheInv'
    <3>1. /\ UNCHANGED <<byId, byHash, bySession, call>> /\ cache' = [cache EXCEPT ![j] = None]
          /\ overtaken' = IF \E t \in Threads : Filling(t, j) THEN overtaken ELSE overtaken \ {j}
      BY <2>3 DEF Evict, recs
    <3> SUFFICES ASSUME NEW k \in Keys \ overtaken' PROVE Settled(k)'
      BY DEF CacheInv
    <3>2. /\ Present(k)' = Present(k)
          /\ \A t \in Threads : /\ Inserting(t, k)' = Inserting(t, k) /\ Erasing(t, k)' = Erasing(t, k)
                                /\ call'[t] = call[t]
      BY <3>1 DEF Present, Inserting, Erasing
    <3>3. CASE k \in overtaken
      <4>1. k = j /\ cache'[k] = None /\ \A t \in Threads : ~Filling(t, k)
        BY <3>1, <3>3 DEF TypeOK
      <4> QED
        BY <3>2, <4>1 DEF Settled, Filling
    <3>4. CASE k \notin overtaken
      <4>1. Settled(k) /\ cache'[k] \in {cache[k], None}
        BY <3>1, <3>4 DEF CacheInv, TypeOK
      <4> QED
        BY <3>2, <4>1 DEF Settled
    <3> QED
      BY <3>3, <3>4
  <2>4. CASE Restart
    BY <2>4 DEF Restart, CacheInv, Settled, Inserting, Erasing, Idle
  <2> QED
    BY <2>1, <2>2, <2>3, <2>4 DEF Next
<1>3. CacheInv => CacheCoherent
  BY DEF CacheInv, CacheCoherent, Settled
<1> QED
  BY <1>1, <1>2, <1>3, TypeCorrect, PTL DEF Spec
=============================================================================
