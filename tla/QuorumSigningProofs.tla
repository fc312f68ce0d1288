------------------------ MODULE QuorumSigningProofs ------------------------
(***************************************************************************)
(* Proofs about QuorumSigning, for every set of members, quorums, ids and  *)
(* messages, any number of crashes and any loss of messages.               *)
(***************************************************************************)
EXTENDS QuorumSigning, FiniteSetTheorems, TLAPS

\* Next, one disjunct per action: the case split of every step below.
LEMMA NextCases ==
  ASSUME Next
  PROVE  \/ \E n \in Honest, t \in Threads, s \in Sessions, r \in BOOLEAN : AsyncSignIfMember(n, t, s, r)
         \/ \E n \in Honest, t \in Threads : CheckRecoveredSig(n, t)
         \/ \E n \in Honest, t \in Threads : WriteVoteForId(n, t)
         \/ \E n \in Honest, t \in Threads : AsyncSign(n, t)
         \/ \E n \in Honest, s \in Sessions : SignPendingSigShare(n, s)
         \/ \E n \in Honest, s \in Sessions : SendSigShare(n, s)
         \/ \E n \in Honest, s \in Sessions : CleanupSession(n, s)
         \/ \E n \in Honest, s \in Sessions : ProcessRecoveredSig(n, s)
         \/ \E n \in Honest, x \in Shares : ReceiveSigShare(n, x)
         \/ \E n \in Honest, w \in Writers : WriteRecoveredSig(n, w)
         \/ \E n \in Honest, id \in Ids : TruncateRecoveredSig(n, id)
         \/ \E n \in Honest, id \in Ids : CleanupOldRecoveredSigs(n, id)
         \/ \E n \in Honest, id \in Ids : CleanupOldVotes(n, id)
         \/ \E n \in Honest : Crash(n)
         \/ \E s \in Sessions : FaultyRecover(s)
  BY DEF Next, Sign, Worker

-----------------------------------------------------------------------------
(***************************************************************************)
(* Types.                                                                  *)
(***************************************************************************)

\* The initial databases, queues and maps have their types.
LEMMA TypeInit == Init => TypeOK
  BY ConstantsAssumption DEF Init, TypeOK, Writers

\* ProcessSigShare adds one share and starts at most one write.
LEMMA ProcessSigShareEffect ==
  ASSUME TypeOK, NEW n \in Honest, NEW x \in Shares, NEW w \in Writers, ProcessSigShare(n, x, w)
  PROVE  /\ sigShares' \in [Honest -> SUBSET Shares]
         /\ writing' \in [Honest -> [Writers -> Sessions \cup {None}]]
         /\ \A k \in Honest : sigShares'[k] \subseteq sigShares[k] \cup {x}
         /\ \A k \in Honest : k # n => sigShares'[k] = sigShares[k]
         /\ \/ writing' = writing
            \/ /\ writing' = [writing EXCEPT ![n] = [writing[n] EXCEPT ![w] = x.sess]]
               /\ CanTryRecovery(sigShares[n] \cup {x}, x.sess)
<1>1. x.sess \in Sessions
  BY DEF Shares
<1>2. CASE HasRecoveredSigForId(n, x.sess.id) \/ x \in sigShares[n]
  BY <1>2 DEF ProcessSigShare, TypeOK
<1>3. CASE ~(HasRecoveredSigForId(n, x.sess.id) \/ x \in sigShares[n])
  <2>1. sigShares' = [sigShares EXCEPT ![n] = sigShares[n] \cup {x}]
    BY <1>3 DEF ProcessSigShare
  <2>2. \/ writing' = writing
        \/ /\ writing' = [writing EXCEPT ![n] = [writing[n] EXCEPT ![w] = x.sess]]
           /\ CanTryRecovery(sigShares[n] \cup {x}, x.sess)
    BY <1>3 DEF ProcessSigShare
  <2>3. sigShares' \in [Honest -> SUBSET Shares]
    BY <2>1 DEF TypeOK
  <2>4. writing' \in [Honest -> [Writers -> Sessions \cup {None}]]
    <3>1. writing \in [Honest -> [Writers -> Sessions \cup {None}]]
      BY DEF TypeOK
    <3>2. [writing[n] EXCEPT ![w] = x.sess] \in [Writers -> Sessions \cup {None}]
      BY <1>1, <3>1
    <3> QED
      BY <2>2, <3>1, <3>2
  <2>5. \A k \in Honest : sigShares'[k] \subseteq sigShares[k] \cup {x} /\ (k # n => sigShares'[k] = sigShares[k])
    BY <2>1 DEF TypeOK
  <2> QED
    BY <2>2, <2>3, <2>4, <2>5
<1> QED
  BY <1>2, <1>3

\* Every handler keeps the types of the database entries, queues and maps.
LEMMA TypeStep ==
  ASSUME TypeOK, [Next]_vars
  PROVE  TypeOK'
<1> USE ConstantsAssumption
<1>1. ASSUME NEW n \in Honest, NEW t \in Threads, NEW s \in Sessions, NEW r \in BOOLEAN,
             AsyncSignIfMember(n, t, s, r)
      PROVE  TypeOK'
  <2>1. s.id \in Ids
    BY DEF Sessions
  <2>2. loose' \in [Honest -> SUBSET Ids]
    BY <1>1, <2>1 DEF TypeOK, AsyncSignIfMember
  <2> QED
    BY <1>1, <2>2 DEF TypeOK, AsyncSignIfMember, AfterVoteCheck, disk
<1>2. ASSUME NEW n \in Honest, NEW t \in Threads, CheckRecoveredSig(n, t)
      PROVE  TypeOK'
  <2> DEFINE pcs == {"idle", "new", "again", "write", "enqueue"}
  <2>1. /\ pc[n][t] # "idle"
        /\ UNCHANGED <<vote, recById, recHash, pendingSigns, sigShares, attempt, writing,
                       net, recNet, crashes, loose, forgotten>>
    BY <1>2 DEF CheckRecoveredSig, disk, history
  <2>2. Return(n, t) \/ (req' = req /\ \E v \in pcs : pc' = [pc EXCEPT ![n][t] = v])
    BY <1>2 DEF CheckRecoveredSig
  <2>3. CASE Return(n, t)
    BY <2>1, <2>3 DEF TypeOK, Return
  <2>4. CASE req' = req /\ \E v \in pcs : pc' = [pc EXCEPT ![n][t] = v]
    BY <2>1, <2>4 DEF TypeOK
  <2> QED
    BY <2>2, <2>3, <2>4
<1>3. ASSUME NEW n \in Honest, NEW t \in Threads, WriteVoteForId(n, t)
      PROVE  TypeOK'
  <2>1. req[n][t] \in Sessions
    BY <1>3 DEF TypeOK, WriteVoteForId
  <2>2. req[n][t].id \in Ids /\ req[n][t].msg \in Msgs
    BY <2>1 DEF Sessions
  <2> QED
    BY <1>3, <2>1, <2>2 DEF TypeOK, WriteVoteForId, history
<1>4. ASSUME NEW n \in Honest, NEW t \in Threads, AsyncSign(n, t)
      PROVE  TypeOK'
  BY <1>4 DEF TypeOK, AsyncSign, Return, disk, history
<1>5. ASSUME NEW n \in Honest, NEW s \in Sessions, SignPendingSigShare(n, s)
      PROVE  TypeOK'
  <2>1. [member |-> n, sess |-> s] \in Shares
    BY DEF Shares, Members
  <2>2. "sign" \in Writers
    BY DEF Writers
  <2>3. sigShares' \in [Honest -> SUBSET Shares] /\ writing' \in [Honest -> [Writers -> Sessions \cup {None}]]
    BY <1>5, <2>1, <2>2, ProcessSigShareEffect DEF SignPendingSigShare
  <2>4. attempt' \in [Honest -> [Sessions -> 0 .. RecoveryMembers]]
    BY <1>5 DEF TypeOK, SignPendingSigShare
  <2> QED
    BY <1>5, <2>3, <2>4 DEF TypeOK, SignPendingSigShare, disk, history
<1>6. ASSUME NEW n \in Honest, NEW s \in Sessions, SendSigShare(n, s)
      PROVE  TypeOK'
  <2>1. s.q \in Quorums
    BY DEF Sessions
  <2>2. attempt[n][s] \in 0 .. RecoveryMembers - 1
    BY <1>6 DEF TypeOK, SendSigShare
  <2>3. RecoveryOrder[s.q][attempt[n][s]] \in Members
    BY <2>1, <2>2
  <2>4. [member |-> n, sess |-> s] \in Shares
    BY DEF Shares, Members
  <2>5. net' \subseteq [share : Shares, to : Members]
    BY <1>6, <2>3, <2>4 DEF TypeOK, SendSigShare, SelectMemberForRecovery
  <2>6. attempt' \in [Honest -> [Sessions -> 0 .. RecoveryMembers]]
    BY <1>6, <2>2 DEF TypeOK, SendSigShare
  <2> QED
    BY <1>6, <2>5, <2>6 DEF TypeOK, SendSigShare, disk, history
<1>7. ASSUME NEW n \in Honest, NEW s \in Sessions, CleanupSession(n, s)
      PROVE  TypeOK'
  BY <1>7 DEF TypeOK, CleanupSession, RemoveSigSharesForSession, SharesFor, disk, history
<1>8. ASSUME NEW n \in Honest, NEW s \in Sessions, ProcessRecoveredSig(n, s)
      PROVE  TypeOK'
  BY <1>8 DEF TypeOK, ProcessRecoveredSig, disk, history, Writers
<1>9. ASSUME NEW n \in Honest, NEW x \in Shares, ReceiveSigShare(n, x)
      PROVE  TypeOK'
  <2>1. x.sess \in Sessions
    BY DEF Shares
  <2>2. "shares" \in Writers
    BY DEF Writers
  <2>3. sigShares' \in [Honest -> SUBSET Shares] /\ writing' \in [Honest -> [Writers -> Sessions \cup {None}]]
    BY <1>9, <2>2, ProcessSigShareEffect DEF ReceiveSigShare
  <2> QED
    BY <1>9, <2>3 DEF TypeOK, ReceiveSigShare, disk, history
<1>10. ASSUME NEW n \in Honest, NEW w \in Writers, WriteRecoveredSig(n, w)
       PROVE  TypeOK'
  <2>1. writing[n][w] \in Sessions
    BY <1>10 DEF TypeOK, WriteRecoveredSig
  <2>2. writing[n][w].id \in Ids
    BY <2>1 DEF Sessions
  <2> QED
    BY <1>10, <2>1, <2>2 DEF TypeOK, WriteRecoveredSig, SharesFor, history
<1>11. ASSUME NEW n \in Honest, NEW id \in Ids, TruncateRecoveredSig(n, id)
       PROVE  TypeOK'
  BY <1>11 DEF TypeOK, TruncateRecoveredSig, memory, history
<1>12. ASSUME NEW n \in Honest, Crash(n)
       PROVE  TypeOK'
  BY <1>12 DEF TypeOK, Crash, disk, history
<1>13. ASSUME NEW s \in Sessions, FaultyRecover(s)
       PROVE  TypeOK'
  BY <1>13 DEF TypeOK, FaultyRecover, disk, memory, history
<1>14. ASSUME UNCHANGED vars
       PROVE  TypeOK'
  BY <1>14 DEF TypeOK, vars, disk, memory, history
<1>15. ASSUME NEW n \in Honest, NEW id \in Ids, CleanupOldRecoveredSigs(n, id)
       PROVE  TypeOK'
  BY <1>15 DEF TypeOK, CleanupOldRecoveredSigs, memory
<1>16. ASSUME NEW n \in Honest, NEW id \in Ids, CleanupOldVotes(n, id)
       PROVE  TypeOK'
  BY <1>16 DEF TypeOK, CleanupOldVotes, memory
<1> QED
  BY <1>1, <1>2, <1>3, <1>4, <1>5, <1>6, <1>7, <1>8, <1>9, <1>10, <1>11, <1>12, <1>13, <1>14,
     <1>15, <1>16, NextCases

\* The databases of votes and recovered signatures, the queues and the share
\* maps of signing.cpp and signing_shares.cpp keep their types.
THEOREM TypeCorrect == Spec => []TypeOK
<1>1. Init => TypeOK
  BY TypeInit
<1>2. TypeOK /\ [Next]_vars => TypeOK'
  BY TypeStep
<1> QED
  BY <1>1, <1>2, PTL DEF Spec

-----------------------------------------------------------------------------
(***************************************************************************)
(* Votes that bind are stable.                                             *)
(***************************************************************************)

\* Once loose, the votes on an id stay loose.
LEMMA LooseGrows ==
  ASSUME TypeOK, [Next]_vars, NEW n \in Honest, NEW id, Bound(n, id)'
  PROVE  Bound(n, id)
<1>1. CASE Next
  <2>1. \/ loose' = loose
        \/ \E k \in Honest, t \in Threads, s \in Sessions, r \in BOOLEAN : AsyncSignIfMember(k, t, s, r)
        \/ \E k \in Honest, i \in Ids : CleanupOldVotes(k, i)
    BY <1>1, NextCases
       DEF CheckRecoveredSig, WriteVoteForId, AsyncSign, SignPendingSigShare, SendSigShare,
           CleanupSession, ProcessRecoveredSig, ReceiveSigShare, WriteRecoveredSig,
           TruncateRecoveredSig, CleanupOldRecoveredSigs, Crash, FaultyRecover, history
  <2>2. loose' = loose \/ \E k \in Honest : \E i : loose' = [loose EXCEPT ![k] = loose[k] \cup {i}]
    BY <2>1 DEF AsyncSignIfMember, CleanupOldVotes
  <2>3. loose \in [Honest -> SUBSET Ids]
    BY DEF TypeOK
  <2>4. loose[n] \subseteq loose'[n]
    BY <2>2, <2>3
  <2> QED
    BY <2>4 DEF Bound
<1>2. CASE UNCHANGED vars
  BY <1>2 DEF vars, history, Bound
<1> QED
  BY <1>1, <1>2

\* Only WriteVoteForId changes a vote, its own, and the clean-up erases one.
LEMMA VoteChange ==
  ASSUME TypeOK, [Next]_vars
  PROVE  \/ vote' = vote
         \/ \E n \in Honest, t \in Threads : WriteVoteForId(n, t)
         \/ \E n \in Honest, id \in Ids : CleanupOldVotes(n, id)
<1>1. CASE Next
  BY <1>1, NextCases
     DEF AsyncSignIfMember, CheckRecoveredSig, AsyncSign, SignPendingSigShare, SendSigShare,
         CleanupSession, ProcessRecoveredSig, ReceiveSigShare, WriteRecoveredSig,
         TruncateRecoveredSig, CleanupOldRecoveredSigs, Crash, FaultyRecover, disk
<1>2. CASE UNCHANGED vars
  BY <1>2 DEF vars, disk
<1> QED
  BY <1>1, <1>2

\* A vote AsyncSignIfMember has written on an id that is signed once stays while it
\* binds: a call that writes after it writes the same message.
LEMMA VoteStable ==
  ASSUME TypeOK, CallInv, [Next]_vars,
         NEW n \in Honest, NEW s \in Sessions, VotedFor(n, s)
  PROVE  VotedFor(n, s)'
<1>1. s.id \in Ids /\ s.msg \in Msgs /\ s.msg # None
  BY ConstantsAssumption DEF Sessions
<1> SUFFICES ASSUME Bound(n, s.id)'
             PROVE  vote'[n][s.id] = s.msg
  BY DEF VotedFor
<1>a. Bound(n, s.id) /\ vote[n][s.id] = s.msg
  BY LooseGrows DEF VotedFor
<1>2. CASE vote' = vote
  BY <1>2, <1>a
<1>3. ASSUME NEW k \in Honest, NEW t \in Threads, WriteVoteForId(k, t)
      PROVE  vote'[n][s.id] = s.msg
  <2>1. pc[k][t] = "write" /\ vote' = [vote EXCEPT ![k][req[k][t].id] = req[k][t].msg]
    BY <1>3 DEF WriteVoteForId
  <2>2. Bound(k, req[k][t].id) => vote[k][req[k][t].id] \in {None, req[k][t].msg}
    BY <2>1 DEF CallInv, CallOK, Voting
  <2> QED
    BY <1>1, <1>a, <2>1, <2>2 DEF TypeOK
<1>4. ASSUME NEW k \in Honest, NEW id \in Ids, CleanupOldVotes(k, id)
      PROVE  vote'[n][s.id] = s.msg
  <2>1. vote' = [vote EXCEPT ![k][id] = None] /\ loose' = [loose EXCEPT ![k] = @ \cup {id}]
    BY <1>4 DEF CleanupOldVotes
  <2>2. ~(k = n /\ id = s.id)
    BY <2>1 DEF Bound, TypeOK
  <2> QED
    BY <1>1, <1>a, <2>1, <2>2 DEF TypeOK
<1> QED
  BY <1>2, <1>3, <1>4, VoteChange

\* A signature backed by enough votes stays backed.
LEMMA CertifiedStable ==
  ASSUME TypeOK, CallInv, [Next]_vars, NEW s \in Sessions, Certified(s)
  PROVE  Certified(s)'
<1>1. PICK S \in SUBSET MembersOf[s.q] :
        /\ Cardinality(S) >= Threshold[s.q]
        /\ \A m \in S \cap Honest : VotedFor(m, s)
  BY DEF Certified
<1>2. \A m \in S \cap Honest : VotedFor(m, s)'
  BY <1>1, VoteStable
<1> QED
  BY <1>1, <1>2 DEF Certified

\* A share backed by its signer's vote stays backed.
LEMMA ShareStable ==
  ASSUME TypeOK, CallInv, [Next]_vars, NEW x \in Shares, ShareOK(x)
  PROVE  ShareOK(x)'
  BY VoteStable DEF ShareOK, Shares

\* TryRecoverSig: enough good shares of a session make a certified signature.
LEMMA EnoughShares ==
  ASSUME NEW shares \in SUBSET Shares, NEW s \in Sessions,
         \A x \in shares : ShareOK(x), CanTryRecovery(shares, s)
  PROVE  Certified(s)
<1> DEFINE S == SharesFor(shares, s)
           U == {x.member : x \in S}
           f == [x \in S |-> x.member]
<1>1. U \subseteq MembersOf[s.q] /\ U \subseteq Members
  BY DEF SharesFor, ShareOK, Shares
<1>2. IsFiniteSet(U)
  BY <1>1, FS_Subset, ConstantsAssumption
<1>3. f \in Injection(S, U)
  BY DEF Injection, IsInjective, SharesFor, Shares
<1>4. IsFiniteSet(S) /\ Cardinality(S) <= Cardinality(U)
  BY <1>2, <1>3, FS_Injection
<1>5. Cardinality(S) >= Threshold[s.q]
  BY DEF CanTryRecovery
<1>6. Cardinality(S) \in Nat /\ Cardinality(U) \in Nat /\ Threshold[s.q] \in Nat
  BY <1>2, <1>4, FS_CardinalityType, ConstantsAssumption DEF Sessions
<1>7. Cardinality(U) >= Threshold[s.q]
  BY <1>4, <1>5, <1>6
<1>8. \A m \in U \cap Honest : VotedFor(m, s)
  BY DEF SharesFor, ShareOK
<1> QED
  BY <1>1, <1>7, <1>8 DEF Certified

-----------------------------------------------------------------------------
(***************************************************************************)
(* Each part of the invariant is preserved.                                *)
(***************************************************************************)

\* A call that a step does not touch: its vote is not written yet, was written
\* by a call for the same message, or is there and stays.
LEMMA CallKept ==
  ASSUME IndInv, [Next]_vars, NEW k \in Honest, NEW u \in Threads, pc[k][u] # "idle",
         pc'[k][u] = pc[k][u], req'[k][u] = req[k][u]
  PROVE  CallOK(k, u)'
<1> DEFINE s == req[k][u]
<1>a. TypeOK /\ CallInv /\ OverlapInv /\ CallOK(k, u)
  BY DEF IndInv, CallInv
<1>1. s \in Sessions /\ s.id \in Ids /\ s.msg \in Msgs
  BY <1>a DEF TypeOK, Sessions
<1>2. ASSUME pc[k][u] \in {"again", "enqueue"}
      PROVE  VotedFor(k, req[k][u])'
  <2>1. VotedFor(k, s)
    BY <1>a, <1>2 DEF CallOK
  <2>2. \A z \in Sessions : VotedFor(k, z) => VotedFor(k, z)'
    BY <1>a, VoteStable
  <2>3. s.id = req'[k][u].id /\ s.msg = req'[k][u].msg /\ s.q = req'[k][u].q
    OBVIOUS
  <2>4. k \in MembersOf[s.q] /\ ((s.id \notin DiffIds /\ s.id \notin loose'[k]) => vote'[k][s.id] = s.msg)
    BY <1>1, <2>1, <2>2 DEF VotedFor, Bound
  <2> QED
    BY <2>3, <2>4 DEF VotedFor, Bound
<1>3. ASSUME Voting(k, u)'
      PROVE  vote'[k][s.id] \in {None, s.msg}
  <2>1. pc[k][u] \in {"new", "write"} /\ s.id \notin DiffIds /\ s.id \notin loose'[k]
    BY <1>3 DEF Voting, Bound
  <2>2. Bound(k, s.id)
    <3>1. \A id : Bound(k, id)' => Bound(k, id)
      BY <1>a, LooseGrows
    <3>2. s.id \notin DiffIds /\ s.id \notin loose'[k] => s.id \notin loose[k]
      BY <3>1 DEF Bound
    <3> QED
      BY <2>1, <3>2 DEF Bound
  <2>3. Voting(k, u) /\ vote[k][s.id] \in {None, s.msg}
    BY <1>a, <2>1, <2>2 DEF Voting, CallOK
  <2>4. CASE vote' = vote
    BY <2>3, <2>4
  <2>5. ASSUME NEW n \in Honest, NEW t \in Threads, WriteVoteForId(n, t)
        PROVE  vote'[k][s.id] \in {None, s.msg}
    <3>1. pc[n][t] = "write" /\ vote' = [vote EXCEPT ![n][req[n][t].id] = req[n][t].msg]
      BY <2>5 DEF WriteVoteForId
    <3>2. n = k /\ req[n][t].id = s.id => req[n][t].msg = s.msg
      BY <1>a, <2>2, <2>3, <3>1 DEF OverlapInv, SameVote, Voting
    <3> QED
      BY <1>a, <1>1, <2>3, <3>1, <3>2 DEF TypeOK
  <2>6. ASSUME NEW n \in Honest, NEW id \in Ids, CleanupOldVotes(n, id)
        PROVE  vote'[k][s.id] \in {None, s.msg}
    BY <1>a, <1>1, <2>3, <2>6 DEF TypeOK, CleanupOldVotes
  <2> QED
    BY <1>a, <2>4, <2>5, <2>6, VoteChange
<1> QED
  BY <1>a, <1>2, <1>3 DEF CallOK

\* AsyncSignIfMember, between its steps: the vote is on disk before the request
\* is queued, and nobody votes for another message meanwhile.
LEMMA CallStep ==
  ASSUME IndInv, [Next]_vars
  PROVE  CallInv'
<1> USE ConstantsAssumption
<1>a. TypeOK /\ CallInv
  BY DEF IndInv
<1> SUFFICES ASSUME NEW k \in Honest, NEW u \in Threads, pc'[k][u] # "idle"
             PROVE  CallOK(k, u)'
  BY DEF CallInv
<1>b. CASE pc'[k][u] = pc[k][u] /\ req'[k][u] = req[k][u]
  BY <1>b, CallKept
<1>1. ASSUME NEW s \in Sessions, NEW r \in BOOLEAN, AsyncSignIfMember(k, u, s, r)
      PROVE  CallOK(k, u)'
  <2>1. vote' = vote /\ pc'[k][u] = AfterVoteCheck(k, s, r) /\ req'[k][u] = s /\ k \in MembersOf[s.q]
    BY <1>1, <1>a DEF AsyncSignIfMember, disk, TypeOK
  <2>2. \/ AfterVoteCheck(k, s, r) = "new" /\ (s.id \notin DiffIds => vote[k][s.id] = None)
        \/ AfterVoteCheck(k, s, r) = "again" /\ vote[k][s.id] = s.msg
    BY <1>1 DEF AsyncSignIfMember, AfterVoteCheck
  <2> QED
    BY <2>1, <2>2 DEF CallOK, Voting, VotedFor, Bound
<1>2. ASSUME CheckRecoveredSig(k, u)
      PROVE  CallOK(k, u)'
  <2>1. vote' = vote /\ loose' = loose /\ pc[k][u] \in {"new", "again"}
    BY <1>2 DEF CheckRecoveredSig, disk, history
  <2>2. CASE Return(k, u)
    BY <1>a, <2>2 DEF Return, TypeOK
  <2>3. CASE req' = req /\ pc' = [pc EXCEPT ![k][u] = IF @ = "new" THEN "write" ELSE "enqueue"]
    <3>1. \/ pc[k][u] = "new" /\ pc'[k][u] = "write"
          \/ pc[k][u] = "again" /\ pc'[k][u] = "enqueue"
      BY <1>a, <2>1, <2>3 DEF TypeOK
    <3>2. CallOK(k, u)
      BY <1>a, <2>1 DEF CallInv
    <3> QED
      BY <2>1, <2>3, <3>1, <3>2 DEF CallOK, Voting, VotedFor, Bound
  <2> QED
    BY <1>2, <2>2, <2>3 DEF CheckRecoveredSig
<1>3. ASSUME WriteVoteForId(k, u)
      PROVE  CallOK(k, u)'
  <2>1. /\ pc[k][u] = "write" /\ vote' = [vote EXCEPT ![k][req[k][u].id] = req[k][u].msg]
        /\ req' = req /\ pc'[k][u] = "enqueue"
    BY <1>3, <1>a DEF WriteVoteForId, TypeOK
  <2>2. req[k][u].id \in Ids /\ k \in MembersOf[req[k][u].q]
    BY <1>a, <2>1 DEF TypeOK, Sessions, CallInv, CallOK
  <2>3. vote'[k][req[k][u].id] = req[k][u].msg
    BY <1>a, <2>1, <2>2 DEF TypeOK
  <2> QED
    BY <2>1, <2>2, <2>3 DEF CallOK, Voting, VotedFor
<1>4. ASSUME AsyncSign(k, u)
      PROVE  CallOK(k, u)'
  BY <1>4, <1>a DEF AsyncSign, Return, TypeOK
<1>5. CASE Next
  <2>1. \/ pc'[k][u] = pc[k][u] /\ req'[k][u] = req[k][u]
        \/ \E s \in Sessions, r \in BOOLEAN : AsyncSignIfMember(k, u, s, r)
        \/ CheckRecoveredSig(k, u) \/ WriteVoteForId(k, u) \/ AsyncSign(k, u)
    <3>1. CASE \E n \in Honest, t \in Threads :
                 \/ \E s \in Sessions, r \in BOOLEAN : AsyncSignIfMember(n, t, s, r)
                 \/ CheckRecoveredSig(n, t) \/ WriteVoteForId(n, t) \/ AsyncSign(n, t)
      <4>1. PICK n \in Honest, t \in Threads :
                 \/ \E s \in Sessions, r \in BOOLEAN : AsyncSignIfMember(n, t, s, r)
                 \/ CheckRecoveredSig(n, t) \/ WriteVoteForId(n, t) \/ AsyncSign(n, t)
        BY <3>1
      <4>2. CASE n = k /\ t = u
        BY <4>1, <4>2
      <4>3. CASE ~(n = k /\ t = u)
        <5>1. /\ pc' = pc \/ \E v : pc' = [pc EXCEPT ![n][t] = v]
              /\ req' = req \/ \E v : req' = [req EXCEPT ![n][t] = v]
          BY <4>1 DEF AsyncSignIfMember, CheckRecoveredSig, WriteVoteForId, AsyncSign, Return
        <5>2. DOMAIN pc = Honest /\ DOMAIN pc[n] = Threads /\ DOMAIN req = Honest /\ DOMAIN req[n] = Threads
          BY <1>a DEF TypeOK
        <5>3. pc'[k][u] = pc[k][u]
          BY <4>3, <5>1, <5>2
        <5>4. req'[k][u] = req[k][u]
          BY <4>3, <5>1, <5>2
        <5> QED
          BY <5>3, <5>4
      <4> QED
        BY <4>2, <4>3
    <3>2. CASE \E n \in Honest : Crash(n)
      BY <1>a, <3>2 DEF Crash, TypeOK
    <3> QED
      BY <1>5, <3>1, <3>2, NextCases
         DEF SignPendingSigShare, SendSigShare, CleanupSession, ProcessRecoveredSig, ReceiveSigShare,
             WriteRecoveredSig, TruncateRecoveredSig, CleanupOldRecoveredSigs, CleanupOldVotes,
             FaultyRecover, memory
  <2> QED
    BY <1>b, <1>1, <1>2, <1>3, <1>4, <2>1
<1>6. CASE UNCHANGED vars
  BY <1>b, <1>6 DEF vars, memory
<1> QED
  BY <1>5, <1>6

\* A call that checks for a vote while another is about to write one for another
\* message makes the id loose: those that bind write the same vote.
LEMMA OverlapStep ==
  ASSUME IndInv, [Next]_vars
  PROVE  OverlapInv'
<1>a. TypeOK /\ OverlapInv
  BY DEF IndInv
<1> SUFFICES ASSUME NEW k \in Honest, NEW t \in Threads, NEW u \in Threads
             PROVE  SameVote(k, t, u)'
  BY DEF OverlapInv
<1>b. \A id : Bound(k, id)' => Bound(k, id)
  BY <1>a, LooseGrows
<1> DEFINE Kept(v) == pc'[k][v] \in {"new", "write"} =>
                        pc[k][v] \in {"new", "write"} /\ req'[k][v] = req[k][v]
<1>1. CASE Kept(t) /\ Kept(u)
  <2>1. SameVote(k, t, u)
    BY <1>a DEF OverlapInv
  <2>2. \A id : id \notin DiffIds /\ id \notin loose'[k] => id \notin loose[k]
    BY <1>b DEF Bound
  <2> QED
    BY <1>1, <2>1, <2>2 DEF SameVote, Voting, Bound
<1>2. ASSUME NEW n \in Honest, NEW v \in Threads, NEW s \in Sessions, NEW r \in BOOLEAN,
             AsyncSignIfMember(n, v, s, r)
      PROVE  SameVote(k, t, u)'
  <2>1. /\ pc' = [pc EXCEPT ![n][v] = AfterVoteCheck(n, s, r)]
        /\ req' = [req EXCEPT ![n][v] = s] /\ pc[n][v] = "idle"
    BY <1>2 DEF AsyncSignIfMember
  <2>2. CASE n # k \/ v \notin {t, u}
    BY <1>a, <1>1, <2>1, <2>2 DEF TypeOK
  <2>3. CASE n = k /\ t = u
    BY <2>3 DEF SameVote
  <2>4. CASE n = k /\ v \in {t, u} /\ t # u
    <3> SUFFICES ASSUME Voting(k, t)', Voting(k, u)', req'[k][t].id = req'[k][u].id
                 PROVE  req'[k][t].msg = req'[k][u].msg
      BY DEF SameVote
    <3>1. PICK w \in {t, u} : w # v /\ {t, u} = {v, w}
      BY <2>4
    <3>2. pc'[k][w] = pc[k][w] /\ req'[k][w] = req[k][w] /\ req'[k][v] = s
          /\ pc'[k][v] = AfterVoteCheck(k, s, r)
      BY <1>a, <2>1, <2>4, <3>1 DEF TypeOK
    <3>3. pc'[k][v] \in {"new", "write"} /\ pc'[k][w] \in {"new", "write"}
          /\ s.id \notin loose'[k] /\ req'[k][w].id = s.id
      BY <3>1, <3>2 DEF Voting, Bound
    <3>4. AfterVoteCheck(k, s, r) = "new"
      BY <3>2, <3>3 DEF AfterVoteCheck
    <3>5. ~Overlaps(k, s)
      BY <1>2, <1>a, <2>4, <3>3, <3>4 DEF AsyncSignIfMember, TypeOK, Sessions
    <3>6. req[k][w].msg = s.msg
      BY <3>1, <3>2, <3>3, <3>5 DEF Overlaps
    <3> QED
      BY <3>1, <3>2, <3>6
  <2> QED
    BY <2>2, <2>3, <2>4
<1>3. ASSUME NEW n \in Honest, NEW v \in Threads, CheckRecoveredSig(n, v)
      PROVE  SameVote(k, t, u)'
  <2>1. pc[n][v] \in {"new", "again"}
    BY <1>3 DEF CheckRecoveredSig
  <2>2. \/ pc' = [pc EXCEPT ![n][v] = "idle"] /\ req' = [req EXCEPT ![n][v] = None]
        \/ pc' = [pc EXCEPT ![n][v] = IF pc[n][v] = "new" THEN "write" ELSE "enqueue"] /\ req' = req
    BY <1>3 DEF CheckRecoveredSig, Return
  <2>3. pc \in [Honest -> [Threads -> {"idle", "new", "again", "write", "enqueue"}]] /\ DOMAIN req = Honest
        /\ DOMAIN req[n] = Threads
    BY <1>a DEF TypeOK
  <2>4. \A w \in Threads : Kept(w)
    BY <2>1, <2>2, <2>3
  <2> QED
    BY <1>1, <2>4
<1>4. ASSUME NEW n \in Honest, NEW v \in Threads, WriteVoteForId(n, v) \/ AsyncSign(n, v)
      PROVE  SameVote(k, t, u)'
  <2>1. \/ pc' = [pc EXCEPT ![n][v] = "idle"] /\ req' = [req EXCEPT ![n][v] = None]
        \/ pc' = [pc EXCEPT ![n][v] = "enqueue"] /\ req' = req
    BY <1>4 DEF WriteVoteForId, AsyncSign, Return
  <2>2. pc \in [Honest -> [Threads -> {"idle", "new", "again", "write", "enqueue"}]] /\ DOMAIN req = Honest
        /\ DOMAIN req[n] = Threads
    BY <1>a DEF TypeOK
  <2>3. \A w \in Threads : Kept(w)
    BY <2>1, <2>2
  <2> QED
    BY <1>1, <2>3
<1>5. ASSUME NEW n \in Honest, Crash(n)
      PROVE  SameVote(k, t, u)'
  BY <1>1, <1>5, <1>a DEF Crash, TypeOK
<1>6. ASSUME UNCHANGED <<pc, req>>
      PROVE  SameVote(k, t, u)'
  BY <1>1, <1>6
<1> HIDE DEF Kept
<1>7. CASE Next
  <2>1. \/ \E n \in Honest, v \in Threads, s \in Sessions, r \in BOOLEAN : AsyncSignIfMember(n, v, s, r)
        \/ \E n \in Honest, v \in Threads : CheckRecoveredSig(n, v)
        \/ \E n \in Honest, v \in Threads : WriteVoteForId(n, v) \/ AsyncSign(n, v)
        \/ \E n \in Honest : Crash(n)
        \/ UNCHANGED <<pc, req>>
    BY <1>7, NextCases
       DEF SignPendingSigShare, SendSigShare, CleanupSession, ProcessRecoveredSig, ReceiveSigShare,
           WriteRecoveredSig, TruncateRecoveredSig, CleanupOldRecoveredSigs, CleanupOldVotes,
           FaultyRecover, memory
  <2> QED
    BY <2>1, <1>2, <1>3, <1>4, <1>5, <1>6
<1>8. CASE UNCHANGED vars
  BY <1>6, <1>8 DEF vars, memory
<1> QED
  BY <1>7, <1>8

\* What a node queues, sends or recovers from its own share it has voted for.
LEMMA OwnStep ==
  ASSUME IndInv, [Next]_vars
  PROVE  OwnInv'
<1> USE ConstantsAssumption
<1> DEFINE Own(k, s) == \/ s \in pendingSigns[k]
                        \/ attempt[k][s] < RecoveryMembers
                        \/ writing[k]["sign"] = s
<1>a. TypeOK /\ CallInv /\ OwnInv /\ "sign" \in Writers /\ "shares" \in Writers /\ "signing" \in Writers
  BY DEF IndInv, Writers
<1>b. ASSUME NEW k \in Honest, NEW s \in Sessions, Own(k, s)
      PROVE  VotedFor(k, s)
  BY <1>a, <1>b DEF OwnInv
<1> SUFFICES ASSUME NEW k \in Honest, NEW s \in Sessions, Own(k, s)'
             PROVE  VotedFor(k, s)
  BY <1>a, VoteStable DEF OwnInv
<1>1. ASSUME UNCHANGED <<pendingSigns, attempt, writing>>
      PROVE  VotedFor(k, s)
  BY <1>1, <1>b
<1>2. ASSUME NEW n \in Honest, NEW t \in Threads, AsyncSign(n, t)
      PROVE  VotedFor(k, s)
  <2>1. VotedFor(n, req[n][t])
    BY <1>2, <1>a DEF AsyncSign, CallInv, CallOK
  <2>2. Own(k, s) \/ (k = n /\ s = req[n][t])
    BY <1>2, <1>a DEF AsyncSign, TypeOK
  <2> QED
    BY <2>1, <2>2, <1>b
<1>3. ASSUME NEW n \in Honest, NEW z \in Sessions, SignPendingSigShare(n, z)
      PROVE  VotedFor(k, s)
  <2>1. [member |-> n, sess |-> z] \in Shares
    BY DEF Shares, Members
  <2>2. writing' = writing \/ writing' = [writing EXCEPT ![n] = [writing[n] EXCEPT !["sign"] = z]]
    <3> DEFINE x == [member |-> n, sess |-> z]
    <3>1. x.sess = z /\ x \in Shares
      BY <2>1
    <3>2. ProcessSigShare(n, x, "sign")
      BY <1>3 DEF SignPendingSigShare
    <3> HIDE DEF x
    <3> QED
      BY <1>a, <3>1, <3>2, ProcessSigShareEffect
  <2>3. z \in pendingSigns[n]
    BY <1>3 DEF SignPendingSigShare
  <2>4. writing'[k]["sign"] = s => Own(k, s) \/ (k = n /\ s = z)
    BY <1>a, <2>2 DEF TypeOK
  <2>5. attempt'[k][s] < RecoveryMembers => Own(k, s) \/ (k = n /\ s = z)
    BY <1>3, <1>a DEF TypeOK, SignPendingSigShare
  <2>6. s \in pendingSigns'[k] => Own(k, s)
    BY <1>3, <1>a DEF TypeOK, SignPendingSigShare
  <2> QED
    BY <2>3, <2>4, <2>5, <2>6, <1>b
<1>4. ASSUME NEW n \in Honest, NEW z \in Sessions, SendSigShare(n, z)
      PROVE  VotedFor(k, s)
  <2>1. Own(k, s)
    BY <1>4, <1>a DEF TypeOK, SendSigShare
  <2> QED
    BY <2>1, <1>b
<1>5. ASSUME NEW n \in Honest, NEW z \in Sessions, CleanupSession(n, z)
      PROVE  VotedFor(k, s)
  <2>1. Own(k, s)
    BY <1>5, <1>a DEF TypeOK, CleanupSession, RemoveSigSharesForSession
  <2> QED
    BY <2>1, <1>b
<1>6. ASSUME NEW n \in Honest, NEW z \in Sessions, ProcessRecoveredSig(n, z)
      PROVE  VotedFor(k, s)
  <2>1. Own(k, s)
    BY <1>6, <1>a DEF TypeOK, ProcessRecoveredSig
  <2> QED
    BY <2>1, <1>b
<1>7. ASSUME NEW n \in Honest, NEW x \in Shares, ReceiveSigShare(n, x)
      PROVE  VotedFor(k, s)
  <2>1. writing' = writing \/ writing' = [writing EXCEPT ![n] = [writing[n] EXCEPT !["shares"] = x.sess]]
    BY <1>7, <1>a, ProcessSigShareEffect DEF ReceiveSigShare
  <2>2. writing'[k]["sign"] = writing[k]["sign"]
    <3>1. writing \in [Honest -> [Writers -> Sessions \cup {None}]]
      BY <1>a DEF TypeOK
    <3>2. [writing[n] EXCEPT !["shares"] = x.sess]["sign"] = writing[n]["sign"]
      BY <1>a, <3>1
    <3> QED
      BY <2>1, <3>1, <3>2
  <2>3. pendingSigns' = pendingSigns /\ attempt' = attempt
    BY <1>7 DEF ReceiveSigShare
  <2> QED
    BY <2>2, <2>3, <1>b
<1>8. ASSUME NEW n \in Honest, NEW w \in Writers, WriteRecoveredSig(n, w)
      PROVE  VotedFor(k, s)
  <2>1. Own(k, s)
    BY <1>8, <1>a DEF TypeOK, WriteRecoveredSig
  <2> QED
    BY <2>1, <1>b
<1>9. ASSUME NEW n \in Honest, Crash(n)
      PROVE  VotedFor(k, s)
  <2>1. Own(k, s)
    BY <1>9, <1>a DEF TypeOK, Crash
  <2> QED
    BY <2>1, <1>b
<1>10. CASE Next
  <2>1. \/ UNCHANGED <<pendingSigns, attempt, writing>>
        \/ \E n \in Honest, t \in Threads : AsyncSign(n, t)
        \/ \E n \in Honest, z \in Sessions : SignPendingSigShare(n, z)
        \/ \E n \in Honest, z \in Sessions : SendSigShare(n, z)
        \/ \E n \in Honest, z \in Sessions : CleanupSession(n, z)
        \/ \E n \in Honest, z \in Sessions : ProcessRecoveredSig(n, z)
        \/ \E n \in Honest, x \in Shares : ReceiveSigShare(n, x)
        \/ \E n \in Honest, w \in Writers : WriteRecoveredSig(n, w)
        \/ \E n \in Honest : Crash(n)
    BY <1>10, NextCases
       DEF AsyncSignIfMember, CheckRecoveredSig, WriteVoteForId, TruncateRecoveredSig,
           CleanupOldRecoveredSigs, CleanupOldVotes, FaultyRecover, disk, memory
  <2> QED
    BY <2>1, <1>1, <1>2, <1>3, <1>4, <1>5, <1>6, <1>7, <1>8, <1>9
<1>11. CASE UNCHANGED vars
  BY <1>11, <1>1 DEF vars, memory
<1> QED
  BY <1>10, <1>11

\* Every share collected or sent is backed by the vote of its signer.
LEMMA ShareStep ==
  ASSUME IndInv, [Next]_vars
  PROVE  ShareInv'
<1> USE ConstantsAssumption
<1>a. TypeOK /\ CallInv /\ OwnInv /\ ShareInv /\ "sign" \in Writers /\ "shares" \in Writers /\ TypeOK'
  BY TypeStep DEF IndInv, Writers
<1> SUFFICES /\ \A k \in Honest : \A x \in sigShares'[k] : ShareOK(x)
             /\ \A e \in net' : ShareOK(e.share)
  <2>1. \A k \in Honest : \A x \in sigShares'[k] : x \in Shares
    BY <1>a DEF TypeOK
  <2>2. \A e \in net' : e.share \in Shares
    BY <1>a DEF TypeOK
  <2> QED
    BY <1>a, <2>1, <2>2, ShareStable DEF ShareInv
<1> DEFINE Goal == /\ \A k \in Honest : \A x \in sigShares'[k] : ShareOK(x)
                   /\ \A e \in net' : ShareOK(e.share)
<1>1. ASSUME net' = net, \A k \in Honest : sigShares'[k] \subseteq sigShares[k]
      PROVE  Goal
  BY <1>1, <1>a DEF ShareInv
<1>2. ASSUME NEW n \in Honest, NEW s \in Sessions, SignPendingSigShare(n, s)
      PROVE  Goal
  <2> DEFINE x == [member |-> n, sess |-> s]
  <2>1. x \in Shares /\ x.member = n /\ x.sess = s
    BY DEF Shares, Members
  <2>2. VotedFor(n, s)
    BY <1>2, <1>a DEF SignPendingSigShare, OwnInv
  <2>3. ShareOK(x)
    BY <2>1, <2>2 DEF ShareOK, VotedFor
  <2>4. \A k \in Honest : sigShares'[k] \subseteq sigShares[k] \cup {x}
    BY <1>2, <1>a, <2>1, ProcessSigShareEffect DEF SignPendingSigShare
  <2>5. net' = net
    BY <1>2 DEF SignPendingSigShare
  <2> HIDE DEF x
  <2> QED
    BY <1>a, <2>3, <2>4, <2>5 DEF ShareInv
<1>3. ASSUME NEW n \in Honest, NEW s \in Sessions, SendSigShare(n, s)
      PROVE  Goal
  <2> DEFINE x == [member |-> n, sess |-> s]
  <2>1. x.member = n /\ x.sess = s
    OBVIOUS
  <2>2. VotedFor(n, s)
    BY <1>3, <1>a DEF SendSigShare, OwnInv
  <2>3. ShareOK(x)
    BY <2>1, <2>2 DEF ShareOK, VotedFor
  <2>4. \A e \in net' : e \in net \/ e.share = x
    BY <1>3 DEF SendSigShare
  <2>5. sigShares' = sigShares
    BY <1>3 DEF SendSigShare
  <2> HIDE DEF x
  <2> QED
    BY <1>a, <2>3, <2>4, <2>5 DEF ShareInv
<1>4. ASSUME NEW n \in Honest, NEW x \in Shares, ReceiveSigShare(n, x)
      PROVE  Goal
  <2>1. ShareOK(x)
    <3>1. x.member \in MembersOf[x.sess.q]
      BY <1>4 DEF ReceiveSigShare
    <3>2. CASE [share |-> x, to |-> n] \in net
      BY <3>2, <1>a DEF ShareInv
    <3>3. CASE x.member \in Faulty
      BY <3>1, <3>3 DEF ShareOK
    <3> QED
      BY <1>4, <3>2, <3>3 DEF ReceiveSigShare
  <2>2. \A k \in Honest : sigShares'[k] \subseteq sigShares[k] \cup {x}
    BY <1>4, <1>a, ProcessSigShareEffect DEF ReceiveSigShare
  <2>3. net' = net
    BY <1>4 DEF ReceiveSigShare
  <2> QED
    BY <1>a, <2>1, <2>2, <2>3 DEF ShareInv
<1>5. ASSUME NEW n \in Honest, NEW s \in Sessions, CleanupSession(n, s)
      PROVE  Goal
  BY <1>1, <1>5, <1>a DEF CleanupSession, RemoveSigSharesForSession, TypeOK
<1>6. ASSUME NEW n \in Honest, NEW w \in Writers, WriteRecoveredSig(n, w)
      PROVE  Goal
  BY <1>1, <1>6, <1>a DEF WriteRecoveredSig, TypeOK
<1>7. ASSUME NEW n \in Honest, Crash(n)
      PROVE  Goal
  BY <1>1, <1>7, <1>a DEF Crash, TypeOK
<1>8. CASE Next
  <2>1. \/ net' = net /\ sigShares' = sigShares
        \/ \E n \in Honest, s \in Sessions : SignPendingSigShare(n, s)
        \/ \E n \in Honest, s \in Sessions : SendSigShare(n, s)
        \/ \E n \in Honest, x \in Shares : ReceiveSigShare(n, x)
        \/ \E n \in Honest, s \in Sessions : CleanupSession(n, s)
        \/ \E n \in Honest, w \in Writers : WriteRecoveredSig(n, w)
        \/ \E n \in Honest : Crash(n)
    BY <1>8, NextCases
       DEF AsyncSignIfMember, CheckRecoveredSig, WriteVoteForId, AsyncSign, ProcessRecoveredSig,
           TruncateRecoveredSig, CleanupOldRecoveredSigs, CleanupOldVotes, FaultyRecover,
           disk, memory
  <2> QED
    BY <2>1, <1>1, <1>2, <1>3, <1>4, <1>5, <1>6, <1>7
<1>9. CASE UNCHANGED vars
  BY <1>1, <1>9 DEF vars, memory
<1> QED
  BY <1>8, <1>9

\* Every signature being written, known by hash or relayed is backed by the
\* votes of enough members.
LEMMA RecStep ==
  ASSUME IndInv, [Next]_vars
  PROVE  RecInv'
<1> USE ConstantsAssumption
<1>a. /\ TypeOK /\ CallInv /\ OwnInv /\ ShareInv /\ RecInv /\ TypeOK'
      /\ "sign" \in Writers /\ "shares" \in Writers /\ "signing" \in Writers
  BY TypeStep DEF IndInv, Writers
<1> DEFINE NetGoal == \A s \in recNet' : Certified(s)
           HashGoal == \A k \in Honest : \A s \in recHash'[k] : Certified(s)
           WriteGoal == \A k \in Honest, v \in Writers : writing'[k][v] # None => Certified(writing'[k][v])
<1> SUFFICES NetGoal /\ HashGoal /\ WriteGoal
  <2>1. /\ recNet' \subseteq Sessions
        /\ \A k \in Honest : recHash'[k] \subseteq Sessions
        /\ \A k \in Honest, v \in Writers : writing'[k][v] # None => writing'[k][v] \in Sessions
    BY <1>a DEF TypeOK
  <2>2. \A s \in Sessions : Certified(s) => Certified(s)'
    BY <1>a, CertifiedStable
  <2> QED
    BY <2>1, <2>2 DEF RecInv
<1>b. NetGoal \/ recNet' # recNet
  BY <1>a DEF RecInv
<1>c. HashGoal \/ recHash' # recHash
  BY <1>a DEF RecInv
<1>d. WriteGoal \/ writing' # writing
  BY <1>a DEF RecInv
<1>e. ASSUME NEW n \in Honest, NEW x \in Shares, NEW w \in Writers,
             ShareOK(x), ProcessSigShare(n, x, w)
      PROVE  WriteGoal
  <2>1. x.sess \in Sessions /\ sigShares[n] \cup {x} \in SUBSET Shares
    BY <1>a DEF TypeOK, Shares
  <2>2. \A y \in sigShares[n] \cup {x} : ShareOK(y)
    BY <1>e, <1>a DEF ShareInv
  <2>3. CASE writing' = writing
    BY <2>3, <1>d
  <2>4. CASE /\ writing' = [writing EXCEPT ![n] = [writing[n] EXCEPT ![w] = x.sess]]
             /\ CanTryRecovery(sigShares[n] \cup {x}, x.sess)
    <3>1. Certified(x.sess)
      BY <2>1, <2>2, <2>4, EnoughShares
    <3>2. \A k \in Honest, v \in Writers : writing'[k][v] = writing[k][v] \/ writing'[k][v] = x.sess
      BY <2>4, <1>a DEF TypeOK
    <3> QED
      BY <3>1, <3>2, <1>a DEF RecInv
  <2>5. \/ writing' = writing
        \/ /\ writing' = [writing EXCEPT ![n] = [writing[n] EXCEPT ![w] = x.sess]]
           /\ CanTryRecovery(sigShares[n] \cup {x}, x.sess)
    BY <1>e, <1>a, ProcessSigShareEffect
  <2> QED
    BY <2>3, <2>4, <2>5
<1>1. ASSUME NEW n \in Honest, NEW s \in Sessions, SignPendingSigShare(n, s)
      PROVE  NetGoal /\ HashGoal /\ WriteGoal
  <2> DEFINE x == [member |-> n, sess |-> s]
  <2>1. x \in Shares /\ x.member = n /\ x.sess = s
    BY DEF Shares, Members
  <2>2. VotedFor(n, s)
    BY <1>1, <1>a DEF SignPendingSigShare, OwnInv
  <2>3. ShareOK(x)
    BY <2>1, <2>2 DEF ShareOK, VotedFor
  <2>4. ProcessSigShare(n, x, "sign") /\ recNet' = recNet /\ recHash' = recHash
    BY <1>1 DEF SignPendingSigShare, disk
  <2> HIDE DEF x
  <2>5. WriteGoal
    BY <1>a, <1>e, <2>1, <2>3, <2>4
  <2> QED
    BY <2>4, <2>5, <1>b, <1>c
<1>2. ASSUME NEW n \in Honest, NEW x \in Shares, ReceiveSigShare(n, x)
      PROVE  NetGoal /\ HashGoal /\ WriteGoal
  <2>1. ShareOK(x)
    <3>1. x.member \in MembersOf[x.sess.q]
      BY <1>2 DEF ReceiveSigShare
    <3>2. CASE [share |-> x, to |-> n] \in net
      BY <3>2, <1>a DEF ShareInv
    <3>3. CASE x.member \in Faulty
      BY <3>1, <3>3 DEF ShareOK
    <3> QED
      BY <1>2, <3>2, <3>3 DEF ReceiveSigShare
  <2>2. ProcessSigShare(n, x, "shares") /\ recNet' = recNet /\ recHash' = recHash
    BY <1>2 DEF ReceiveSigShare, disk
  <2>3. WriteGoal
    BY <1>a, <1>e, <2>1, <2>2
  <2> QED
    BY <2>2, <2>3, <1>b, <1>c
<1>3. ASSUME NEW n \in Honest, NEW s \in Sessions, ProcessRecoveredSig(n, s)
      PROVE  NetGoal /\ HashGoal /\ WriteGoal
  <2>1. recNet' = recNet /\ recHash' = recHash /\ s \in recNet
    BY <1>3 DEF ProcessRecoveredSig, disk
  <2>2. \A k \in Honest, v \in Writers : writing'[k][v] = writing[k][v] \/ writing'[k][v] = s
    BY <1>3, <1>a DEF ProcessRecoveredSig, TypeOK
  <2>3. WriteGoal
    BY <2>1, <2>2, <1>a DEF RecInv
  <2> QED
    BY <2>1, <2>3, <1>b, <1>c
<1>4. ASSUME NEW n \in Honest, NEW w \in Writers, WriteRecoveredSig(n, w)
      PROVE  NetGoal /\ HashGoal /\ WriteGoal
  <2>1. Certified(writing[n][w])
    BY <1>4, <1>a DEF WriteRecoveredSig, RecInv
  <2>2. recNet' = recNet \cup {writing[n][w]}
    BY <1>4 DEF WriteRecoveredSig
  <2>3. \A k \in Honest : recHash'[k] \subseteq recHash[k] \cup {writing[n][w]}
    BY <1>4, <1>a DEF WriteRecoveredSig, TypeOK
  <2>4. \A k \in Honest, v \in Writers : writing'[k][v] = writing[k][v] \/ writing'[k][v] = None
    BY <1>4, <1>a DEF WriteRecoveredSig, TypeOK
  <2> QED
    BY <2>1, <2>2, <2>3, <2>4, <1>a DEF RecInv
<1>5. ASSUME NEW n \in Honest, Crash(n)
      PROVE  NetGoal /\ HashGoal /\ WriteGoal
  <2>1. recNet' = recNet /\ recHash' = recHash
    BY <1>5 DEF Crash, disk
  <2>2. \A k \in Honest, v \in Writers : writing'[k][v] = writing[k][v] \/ writing'[k][v] = None
    BY <1>5, <1>a DEF Crash, TypeOK
  <2> QED
    BY <2>1, <2>2, <1>a, <1>b, <1>c DEF RecInv
<1>6. ASSUME NEW s \in Sessions, FaultyRecover(s)
      PROVE  NetGoal /\ HashGoal /\ WriteGoal
  <2>1. /\ recNet' = recNet \cup {s} /\ recHash' = recHash /\ writing' = writing
        /\ Cardinality(KnownToFaulty(s)) >= Threshold[s.q]
    BY <1>6 DEF FaultyRecover, disk, memory
  <2>2. KnownToFaulty(s) \in SUBSET MembersOf[s.q]
    BY DEF KnownToFaulty
  <2>3. ASSUME NEW m \in KnownToFaulty(s) \cap Honest
        PROVE  VotedFor(m, s)
    <3>1. PICK to \in Faulty : [share |-> [member |-> m, sess |-> s], to |-> to] \in net
      BY DEF KnownToFaulty
    <3>2. ShareOK([member |-> m, sess |-> s])
      BY <3>1, <1>a DEF ShareInv
    <3> QED
      BY <3>2 DEF ShareOK
  <2>4. Certified(s)
    BY <2>1, <2>2, <2>3 DEF Certified
  <2> QED
    BY <2>1, <2>4, <1>a, <1>c, <1>d DEF RecInv
<1>9. ASSUME NEW n \in Honest, NEW id \in Ids, CleanupOldRecoveredSigs(n, id)
      PROVE  NetGoal /\ HashGoal /\ WriteGoal
  <2>1. recNet' = recNet /\ writing' = writing /\ \A k \in Honest : recHash'[k] \subseteq recHash[k]
    BY <1>9, <1>a DEF CleanupOldRecoveredSigs, memory, TypeOK
  <2> QED
    BY <2>1, <1>a, <1>b, <1>d DEF RecInv
<1>7. CASE Next
  <2>1. \/ UNCHANGED <<recNet, recHash, writing>>
        \/ \E n \in Honest, id \in Ids : CleanupOldRecoveredSigs(n, id)
        \/ \E n \in Honest, s \in Sessions : SignPendingSigShare(n, s)
        \/ \E n \in Honest, x \in Shares : ReceiveSigShare(n, x)
        \/ \E n \in Honest, s \in Sessions : ProcessRecoveredSig(n, s)
        \/ \E n \in Honest, w \in Writers : WriteRecoveredSig(n, w)
        \/ \E n \in Honest : Crash(n)
        \/ \E s \in Sessions : FaultyRecover(s)
    BY <1>7, NextCases
       DEF AsyncSignIfMember, CheckRecoveredSig, WriteVoteForId, AsyncSign, SendSigShare,
           CleanupSession, TruncateRecoveredSig, CleanupOldVotes, disk, memory
  <2> HIDE DEF NetGoal, HashGoal, WriteGoal
  <2> QED
    BY <2>1, <1>b, <1>c, <1>d, <1>1, <1>2, <1>3, <1>4, <1>5, <1>6, <1>9
<1>8. CASE UNCHANGED vars
  BY <1>8, <1>b, <1>c, <1>d DEF vars, disk, memory
<1> QED
  BY <1>7, <1>8

-----------------------------------------------------------------------------
(***************************************************************************)
(* The theorems.                                                           *)
(***************************************************************************)

\* The invariant holds initially: no vote, no share, no signature.
LEMMA IndInit == Init => IndInv
<1> SUFFICES ASSUME Init PROVE IndInv
  OBVIOUS
<1>1. TypeOK
  BY TypeInit
<1>2. CallInv /\ OverlapInv
  BY DEF Init, CallInv, OverlapInv, SameVote, Voting
<1>3. OwnInv
  BY ConstantsAssumption DEF Init, OwnInv, Writers
<1>4. ShareInv
  BY DEF Init, ShareInv
<1>5. RecInv
  BY DEF Init, RecInv
<1> QED
  BY <1>1, <1>2, <1>3, <1>4, <1>5 DEF IndInv

\* The invariant is inductive, whatever threads ask for signatures on an id.
LEMMA IndStep ==
  ASSUME IndInv, [Next]_vars
  PROVE  IndInv'
  BY TypeStep, CallStep, OverlapStep, OwnStep, ShareStep, RecStep DEF IndInv

\* Every share is backed by its signer's vote and every signature by the votes
\* of enough members, where the votes bind.
THEOREM Inductive == Spec => []IndInv
  BY IndInit, IndStep, PTL DEF Spec

\* The shares an honest member signs on one id are for one message: the claim
\* of ProcessRecoveredSig that each masternode participates in only one vote,
\* for every quorum, thread, fault, crash and loss, as long as no call of the
\* member checks for a vote while another is about to write one for another
\* message, and the vote is not cleaned up.
THEOREM OneVotePerId == Spec => []VoteOnce
<1>1. IndInv => VoteOnce
  <2> SUFFICES ASSUME IndInv, NEW x \in AllShares, NEW y \in AllShares,
                      x.member = y.member, x.member \in Honest,
                      x.sess.id = y.sess.id, x.sess.id \notin DiffIds,
                      x.sess.id \notin loose[x.member]
               PROVE  x.sess.msg = y.sess.msg
    BY DEF VoteOnce
  <2>1. \A z \in AllShares : (\E n \in Honest : z \in sigShares[n]) \/ (\E e \in net : z = e.share)
    BY DEF AllShares
  <2>2. ShareOK(x) /\ ShareOK(y)
    <3>1. /\ \A n \in Honest : \A z \in sigShares[n] : ShareOK(z)
          /\ \A e \in net : ShareOK(e.share)
      BY DEF IndInv, ShareInv
    <3> QED
      BY <2>1, <3>1
  <2> QED
    BY <2>2 DEF ShareOK, VotedFor, Bound
<1> QED
  BY <1>1, Inductive, PTL

\* Two certified signatures on one id have the same message, or an honest
\* member of both quorums is not bound by its vote.
LEMMA CertifiedAgree ==
  ASSUME QuorumIntersection, NEW s \in Sessions, NEW r \in Sessions,
         Certified(s), Certified(r), s.id = r.id, s.id \notin DiffIds
  PROVE  \/ s.msg = r.msg
         \/ \E n \in Honest \cap MembersOf[s.q] \cap MembersOf[r.q] : s.id \in loose[n]
<1>1. s.q \in Quorums /\ r.q \in Quorums
  BY DEF Sessions
<1>2. PICK S \in SUBSET MembersOf[s.q] :
        /\ Cardinality(S) >= Threshold[s.q]
        /\ \A m \in S \cap Honest : VotedFor(m, s)
  BY DEF Certified
<1>3. PICK T \in SUBSET MembersOf[r.q] :
        /\ Cardinality(T) >= Threshold[r.q]
        /\ \A m \in T \cap Honest : VotedFor(m, r)
  BY DEF Certified
<1>4. PICK m : m \in S /\ m \in T /\ m \in Honest
  BY <1>1, <1>2, <1>3 DEF QuorumIntersection
<1> QED
  BY <1>2, <1>3, <1>4 DEF VotedFor, Bound

\* The signatures accepted or relayed on one id agree, whatever the faulty
\* members sign: the claim of AsyncSignIfMember that conflicting recovered
\* signatures are not possible, as long as the votes of the honest members of
\* both quorums bind.
THEOREM RecoveredSigsAgree ==
  ASSUME QuorumIntersection
  PROVE  Spec => []NoConflictingRecSigs
<1>1. IndInv => NoConflictingRecSigs
  <2> SUFFICES ASSUME IndInv, NEW s \in RecSigs, NEW r \in RecSigs, s.id = r.id, s.id \notin DiffIds
               PROVE  \/ s.msg = r.msg
                      \/ \E n \in Honest \cap MembersOf[s.q] \cap MembersOf[r.q] : s.id \in loose[n]
    BY DEF NoConflictingRecSigs
  <2>1. Certified(s) /\ Certified(r)
    BY DEF IndInv, RecInv, RecSigs
  <2>2. s \in Sessions /\ r \in Sessions
    BY DEF IndInv, TypeOK, RecSigs
  <2> QED
    BY <2>1, <2>2, CertifiedAgree
<1> QED
  BY <1>1, Inductive, PTL

\* QuorumIntersection holds for one quorum of N members, F of them faulty,
\* when twice the threshold exceeds N + F.
THEOREM OneQuorumIntersects ==
  ASSUME NEW q, Quorums = {q},
         2 * Threshold[q] > Cardinality(MembersOf[q]) + Cardinality(MembersOf[q] \cap Faulty)
  PROVE  QuorumIntersection
<1> DEFINE N == MembersOf[q]  F == N \cap Faulty
<1>1. N \subseteq Members /\ IsFiniteSet(N) /\ IsFiniteSet(F) /\ Threshold[q] \in Nat
  BY FS_Subset, ConstantsAssumption
<1> SUFFICES ASSUME NEW S \in SUBSET N, NEW T \in SUBSET N,
                    Cardinality(S) >= Threshold[q], Cardinality(T) >= Threshold[q],
                    S \cap T \cap Honest = {}
             PROVE  FALSE
  BY DEF QuorumIntersection
<1>2. IsFiniteSet(S) /\ IsFiniteSet(T) /\ IsFiniteSet(S \cap T) /\ IsFiniteSet(S \cup T)
  BY <1>1, FS_Subset, FS_Union, FS_Intersection
<1>3. S \cap T \subseteq F
  BY <1>1 DEF Members
<1>4. Cardinality(S \cap T) <= Cardinality(F)
  BY <1>1, <1>3, FS_Subset
<1>5. Cardinality(S \cup T) <= Cardinality(N)
  <2>1. S \cup T \in SUBSET N
    OBVIOUS
  <2> QED
    BY <1>1, <2>1, FS_Subset
<1>6. Cardinality(S \cup T) = Cardinality(S) + Cardinality(T) - Cardinality(S \cap T)
  BY <1>2, FS_Union
<1>7. /\ Cardinality(S) \in Nat /\ Cardinality(T) \in Nat /\ Cardinality(S \cap T) \in Nat
      /\ Cardinality(N) \in Nat /\ Cardinality(F) \in Nat
  BY <1>1, <1>2, FS_CardinalityType
<1> QED
  BY <1>1, <1>4, <1>5, <1>6, <1>7

(***************************************************************************)
(* The refinement: only WriteRecoveredSig teaches a node something, and it *)
(* is what every other node has learned unless the id was released; only   *)
(* the clean-up makes it forget, and releases the id.                      *)
(***************************************************************************)

\* What node k learned on an id, from its database of hashes.
Learned(hash, id) == {m \in Msgs : \E r \in hash : r.id = id /\ r.msg = m}

\* An id, once released, stays released, and a step adds at most one.
LEMMA ReleasedStep ==
  ASSUME TypeOK, [Next]_vars
  PROVE  \/ UNCHANGED releasedBar
         \/ \E id \in OnceIds : Abstract!Release(id)
<1>1. \/ UNCHANGED history
      \/ \E n \in Honest, id \in Ids :
           \/ loose' = [loose EXCEPT ![n] = loose[n] \cup {id}] /\ forgotten' = forgotten
           \/ loose' = loose /\ forgotten' = forgotten \cup {id}
  <2>1. CASE Next
    <3>1. \/ UNCHANGED history
          \/ \E n \in Honest, t \in Threads, s \in Sessions, r \in BOOLEAN : AsyncSignIfMember(n, t, s, r)
          \/ \E n \in Honest, id \in Ids : CleanupOldRecoveredSigs(n, id) \/ CleanupOldVotes(n, id)
      BY <2>1, NextCases
         DEF CheckRecoveredSig, WriteVoteForId, AsyncSign, SignPendingSigShare,
             SendSigShare, CleanupSession, ProcessRecoveredSig, ReceiveSigShare, WriteRecoveredSig,
             TruncateRecoveredSig, Crash, FaultyRecover
    <3>2. ASSUME NEW n \in Honest, NEW t \in Threads, NEW s \in Sessions, NEW r \in BOOLEAN,
                 AsyncSignIfMember(n, t, s, r)
          PROVE  UNCHANGED history \/ (loose' = [loose EXCEPT ![n] = loose[n] \cup {s.id}] /\ forgotten' = forgotten)
      BY <3>2 DEF AsyncSignIfMember, history
    <3>3. \A s \in Sessions : s.id \in Ids
      BY DEF Sessions
    <3>4. CASE \E n \in Honest, id \in Ids : CleanupOldRecoveredSigs(n, id) \/ CleanupOldVotes(n, id)
      BY <3>4 DEF CleanupOldRecoveredSigs, CleanupOldVotes
    <3>5. CASE \E n \in Honest, t \in Threads, s \in Sessions, r \in BOOLEAN : AsyncSignIfMember(n, t, s, r)
      BY <3>2, <3>3, <3>5
    <3> QED
      BY <3>1, <3>4, <3>5
  <2>2. CASE UNCHANGED vars
    BY <2>2 DEF vars
  <2> QED
    BY <2>1, <2>2
<1>2. CASE UNCHANGED history
  BY <1>2 DEF history, releasedBar
<1>3. ASSUME NEW n \in Honest, NEW id \in Ids,
             \/ loose' = [loose EXCEPT ![n] = loose[n] \cup {id}] /\ forgotten' = forgotten
             \/ loose' = loose /\ forgotten' = forgotten \cup {id}
      PROVE  \/ UNCHANGED releasedBar
             \/ \E i \in OnceIds : Abstract!Release(i)
  <2> DEFINE Loose == UNION {loose[k] : k \in Honest}
  <2>1. loose \in [Honest -> SUBSET Ids]
    BY DEF TypeOK
  <2>2. forgotten' \cup Loose' = (forgotten \cup Loose) \cup {id}
    <3>1. CASE loose' = [loose EXCEPT ![n] = loose[n] \cup {id}] /\ forgotten' = forgotten
      <4>1. \A k \in Honest : loose'[k] = IF k = n THEN loose[k] \cup {id} ELSE loose[k]
        BY <2>1, <3>1
      <4>2. Loose' = Loose \cup {id}
        BY <4>1
      <4> QED
        BY <3>1, <4>2
    <3>2. CASE loose' = loose /\ forgotten' = forgotten \cup {id}
      BY <3>2
    <3> QED
      BY <1>3, <3>1, <3>2
  <2>3. /\ releasedBar = OnceIds \cap (forgotten \cup Loose)
        /\ releasedBar' = OnceIds \cap (forgotten' \cup Loose')
    BY DEF releasedBar
  <2> HIDE DEF Loose
  <2>4. releasedBar' = releasedBar \cup (OnceIds \cap {id})
    BY <2>2, <2>3
  <2> QED
    BY <2>4 DEF Abstract!Release
<1> QED
  BY <1>1, <1>2, <1>3

\* A signature written to a database is a Learn step of AbstractSigning, or
\* changes nothing it sees.
LEMMA LearnStep ==
  ASSUME QuorumIntersection, IndInv, NEW n \in Honest, NEW w \in Writers, WriteRecoveredSig(n, w)
  PROVE  \/ \E id \in OnceIds, m \in Msgs : Abstract!Learn(n, id, m)
         \/ UNCHANGED Abstract!vars
<1> DEFINE s == writing[n][w]
<1>a. TypeOK /\ RecInv
  BY DEF IndInv
<1>1. s \in Sessions /\ s.id \in Ids /\ s.msg \in Msgs /\ Certified(s)
  BY <1>a DEF WriteRecoveredSig, TypeOK, Sessions, RecInv
<1>2. recHash' = [recHash EXCEPT ![n] = recHash[n] \cup {s}]
  BY DEF WriteRecoveredSig
<1>3. releasedBar' = releasedBar
  BY DEF WriteRecoveredSig, history, releasedBar
<1> HIDE DEF s
<1>4. \A k \in Honest : recHash'[k] = IF k = n THEN recHash[k] \cup {s} ELSE recHash[k]
  BY <1>2, <1>a DEF TypeOK
<1>5. /\ learnedBar = [k \in Honest |-> [id \in OnceIds |-> Learned(recHash[k], id)]]
      /\ learnedBar' = [k \in Honest |-> [id \in OnceIds |-> Learned(recHash'[k], id)]]
  BY DEF learnedBar, Learned
<1>6. \A k \in Honest, id \in OnceIds :
        Learned(recHash'[k], id) = IF k = n /\ id = s.id THEN Learned(recHash[k], id) \cup {s.msg}
                                                         ELSE Learned(recHash[k], id)
  <2> TAKE k \in Honest, id \in OnceIds
  <2>1. CASE k = n /\ id = s.id
    BY <1>1, <1>4, <2>1 DEF Learned
  <2>2. CASE ~(k = n /\ id = s.id)
    <3>1. \A m : (\E r \in recHash'[k] : r.id = id /\ r.msg = m) <=> (\E r \in recHash[k] : r.id = id /\ r.msg = m)
      BY <1>4, <2>2
    <3> QED
      BY <2>2, <3>1 DEF Learned
  <2> QED
    BY <2>1, <2>2
<1>7. CASE s.id \in DiffIds
  <2>1. \A k \in Honest, id \in OnceIds : Learned(recHash'[k], id) = Learned(recHash[k], id)
    BY <1>6, <1>7 DEF OnceIds
  <2>2. learnedBar' = learnedBar
    BY <1>5, <2>1
  <2> QED
    BY <1>3, <2>2 DEF Abstract!vars
<1>8. CASE s.id \notin DiffIds
  <2>1. s.id \in OnceIds
    BY <1>1, <1>8 DEF OnceIds
  <2>2. learnedBar' = [learnedBar EXCEPT ![n][s.id] = @ \cup {s.msg}]
    BY <1>5, <1>6, <2>1
  <2>3. ASSUME s.id \notin releasedBar
        PROVE  \A k \in Honest : learnedBar[k][s.id] \subseteq {s.msg}
    <3>1. \A k \in Honest : s.id \notin loose[k]
      BY <2>1, <2>3 DEF releasedBar
    <3>2. \A k \in Honest : \A r \in recHash[k] : r.id = s.id => r.msg = s.msg
      BY <1>1, <1>8, <1>a, <3>1, CertifiedAgree DEF RecInv, TypeOK
    <3>3. \A k \in Honest : learnedBar[k][s.id] = Learned(recHash[k], s.id)
      BY <1>5, <2>1
    <3> QED
      BY <3>2, <3>3 DEF Learned
  <2>4. Abstract!Learn(n, s.id, s.msg)
    BY <1>3, <2>2, <2>3 DEF Abstract!Learn
  <2> QED
    BY <1>1, <2>1, <2>4
<1> QED
  BY <1>7, <1>8

\* A signature cleaned up for its age is a Forget step, or changes nothing the
\* abstract specification sees.
LEMMA ForgetStep ==
  ASSUME TypeOK, NEW n \in Honest, NEW id \in Ids, CleanupOldRecoveredSigs(n, id)
  PROVE  \/ \E i \in OnceIds, m \in Msgs : Abstract!Forget(n, i, m)
         \/ \E i \in OnceIds : Abstract!Release(i) /\ UNCHANGED learnedBar
         \/ UNCHANGED Abstract!vars
<1> DEFINE s == recById[n][id]
<1>1. s \in Sessions /\ s.id = id /\ s.msg \in Msgs
  BY DEF CleanupOldRecoveredSigs, HasRecoveredSigForId, TypeOK, Sessions
<1>2. /\ recHash' = [recHash EXCEPT ![n] = recHash[n] \ {s}]
      /\ forgotten' = forgotten \cup {id} /\ loose' = loose
  BY DEF CleanupOldRecoveredSigs
<1>3. \A k \in Honest : recHash'[k] = IF k = n THEN recHash[k] \ {s} ELSE recHash[k]
  BY <1>2 DEF TypeOK
<1>4. releasedBar' = releasedBar \cup (OnceIds \cap {id})
  BY <1>2 DEF releasedBar
<1>5. /\ learnedBar = [k \in Honest |-> [i \in OnceIds |-> Learned(recHash[k], i)]]
      /\ learnedBar' = [k \in Honest |-> [i \in OnceIds |-> Learned(recHash'[k], i)]]
  BY DEF learnedBar, Learned
<1> HIDE DEF s
<1>6. \A k \in Honest, i \in OnceIds : k # n \/ i # id => Learned(recHash'[k], i) = Learned(recHash[k], i)
  <2> SUFFICES ASSUME NEW k \in Honest, NEW i \in OnceIds, k # n \/ i # id
               PROVE  Learned(recHash'[k], i) = Learned(recHash[k], i)
    OBVIOUS
  <2>1. \A m : (\E r \in recHash'[k] : r.id = i /\ r.msg = m) <=> (\E r \in recHash[k] : r.id = i /\ r.msg = m)
    BY <1>1, <1>3
  <2> QED
    BY <2>1 DEF Learned
<1>7. \/ Learned(recHash'[n], id) = Learned(recHash[n], id)
      \/ Learned(recHash'[n], id) = Learned(recHash[n], id) \ {s.msg}
  <2>1. \A m \in Msgs : m # s.msg => (m \in Learned(recHash'[n], id) <=> m \in Learned(recHash[n], id))
    BY <1>3 DEF Learned
  <2>2. Learned(recHash'[n], id) \subseteq Learned(recHash[n], id) /\ Learned(recHash[n], id) \subseteq Msgs
    BY <1>3 DEF Learned
  <2> QED
    BY <2>1, <2>2
<1>8. CASE id \in DiffIds
  <2>1. \A k \in Honest, i \in OnceIds : Learned(recHash'[k], i) = Learned(recHash[k], i)
    BY <1>6, <1>8 DEF OnceIds
  <2>2. learnedBar' = learnedBar
    BY <1>5, <2>1
  <2>3. releasedBar' = releasedBar
    BY <1>4, <1>8 DEF OnceIds
  <2> QED
    BY <2>2, <2>3 DEF Abstract!vars
<1>9. CASE id \notin DiffIds
  <2>1. id \in OnceIds
    BY <1>9 DEF OnceIds
  <2>2. Abstract!Release(id)
    BY <1>4, <2>1 DEF Abstract!Release
  <2>3. CASE Learned(recHash'[n], id) = Learned(recHash[n], id)
    <3>1. \A k \in Honest, i \in OnceIds : Learned(recHash'[k], i) = Learned(recHash[k], i)
      BY <1>6, <2>3
    <3>2. learnedBar' = learnedBar
      BY <1>5, <3>1
    <3> QED
      BY <2>1, <2>2, <3>2
  <2>4. CASE Learned(recHash'[n], id) = Learned(recHash[n], id) \ {s.msg}
    <3>1. \A k \in Honest, i \in OnceIds :
            Learned(recHash'[k], i) = IF k = n /\ i = id THEN Learned(recHash[n], id) \ {s.msg}
                                                          ELSE Learned(recHash[k], i)
      BY <1>6, <2>4
    <3>2. learnedBar' = [k \in Honest |-> [i \in OnceIds |->
                          IF k = n /\ i = id THEN Learned(recHash[n], id) \ {s.msg}
                                             ELSE Learned(recHash[k], i)]]
      BY <1>5, <3>1
    <3>3. learnedBar' = [learnedBar EXCEPT ![n][id] = @ \ {s.msg}]
      BY <1>5, <2>1, <3>2
    <3> QED
      BY <1>1, <2>1, <2>2, <3>3 DEF Abstract!Forget
  <2> QED
    BY <1>7, <2>3, <2>4
<1> QED
  BY <1>8, <1>9

\* Quorum signing implements AbstractSigning: nodes that accept a signature on
\* an id accept the same message and keep it (the rs_h entry that Truncate-
\* RecoveredSig leaves in place), until the id's records are cleaned up or two
\* requests for different messages overlap on a member.
THEOREM Refinement ==
  ASSUME QuorumIntersection
  PROVE  Spec => Refines
<1>1. Init => Abstract!Init
  <2> SUFFICES ASSUME Init PROVE Abstract!Init
    OBVIOUS
  <2>1. releasedBar = {}
    BY DEF Init, releasedBar
  <2> QED
    BY <2>1 DEF Init, Abstract!Init, learnedBar
<1>2. IndInv /\ [Next]_vars => [Abstract!Next]_(Abstract!vars)
  <2> SUFFICES ASSUME IndInv, [Next]_vars
               PROVE  Abstract!Next \/ UNCHANGED Abstract!vars
    BY DEF Abstract!vars
  <2>a. TypeOK
    BY DEF IndInv
  <2>1. \/ recHash' = recHash
        \/ \E n \in Honest, w \in Writers : WriteRecoveredSig(n, w)
        \/ \E n \in Honest, id \in Ids : CleanupOldRecoveredSigs(n, id)
    <3>1. CASE Next
      BY <3>1, NextCases
         DEF AsyncSignIfMember, CheckRecoveredSig, WriteVoteForId, AsyncSign, SignPendingSigShare,
             SendSigShare, CleanupSession, ProcessRecoveredSig, ReceiveSigShare,
             TruncateRecoveredSig, CleanupOldVotes, Crash, FaultyRecover, disk
    <3>2. CASE UNCHANGED vars
      BY <3>2 DEF vars, disk
    <3> QED
      BY <3>1, <3>2
  <2>2. CASE recHash' = recHash
    <3>1. learnedBar' = learnedBar
      BY <2>2 DEF learnedBar
    <3> QED
      BY <2>a, <3>1, ReleasedStep DEF Abstract!Next, Abstract!vars
  <2>3. CASE \E n \in Honest, w \in Writers : WriteRecoveredSig(n, w)
    BY <2>3, LearnStep DEF Abstract!Next
  <2>4. CASE \E n \in Honest, id \in Ids : CleanupOldRecoveredSigs(n, id)
    BY <2>a, <2>4, ForgetStep DEF Abstract!Next
  <2> QED
    BY <2>1, <2>2, <2>3, <2>4
<1> QED
  BY <1>1, <1>2, Inductive, PTL DEF Spec, Refines, Abstract!Spec
=============================================================================
