--------------------------- MODULE QuorumSigning ---------------------------
(***************************************************************************)
(* Threshold signing by the members of a long-living masternode quorum:    *)
(* CSigSharesManager (llmq/signing_shares.cpp), which votes, creates,      *)
(* sends and collects signature shares, and CSigningManager                *)
(* (llmq/signing.cpp), which accepts the recovered signatures.             *)
(*                                                                         *)
(* A session [q, id, msg] stands for its SignHash.  A recovered signature  *)
(* is the session it is for: a BLS threshold signature is unique, whoever  *)
(* recovers it.  The quorums are in SPORK_21 "all members connected" mode, *)
(* in which a share goes straight to the members selected for recovery.    *)
(***************************************************************************)
EXTENDS Integers, FiniteSets

CONSTANTS
  Honest,          \* masternodes running this code
  Faulty,          \* masternodes that may sign anything
  Quorums, MembersOf, Threshold,
  Ids, Msgs,       \* request ids and message hashes
  QuorumsFor,      \* quorums a member may select for an id, depending on its tip
  RecoveryMembers, \* how many members a share is sent to, one per attempt
  RecoveryOrder,   \* [quorum -> [0 .. RecoveryMembers - 1 -> member]]
  Threads, CallersOf, \* the threads of a node that ask for signatures on an id
  ReSignIds,       \* ids requested with allowReSign (InstantSend retries)
  DiffIds,         \* ids requested with allowDiffMsgHashSigning (EHF signals)
  TruncIds,        \* ids whose signature is truncated (InstantSend inputs)
  MaxCrashes,      \* bound on process crashes
  Lossy,           \* may a share be sent while the receiver is not connected
  SessionsTimeOut, \* may signing sessions time out
  RecordsAge,      \* may votes and recovered signatures pass -maxrecsigsage
  None

Members == Honest \cup Faulty
Sessions == [q : Quorums, id : Ids, msg : Msgs]
Shares == [member : Members, sess : Sessions]
Writers == {"sign", "shares", "signing"}

ASSUME ConstantsAssumption ==
  /\ IsFiniteSet(Members) /\ Honest \cap Faulty = {}
  /\ MembersOf \in [Quorums -> SUBSET Members]
  /\ Threshold \in [Quorums -> Nat \ {0}]
  /\ QuorumsFor \in [Ids -> SUBSET Quorums]
  /\ RecoveryMembers \in Nat
  /\ RecoveryOrder \in [Quorums -> [0 .. RecoveryMembers - 1 -> Members]]
  /\ CallersOf \in [Honest -> [Ids -> SUBSET Threads]]
  /\ MaxCrashes \in Nat
  /\ {Lossy, SessionsTimeOut, RecordsAge} \subseteq BOOLEAN
  /\ None \notin Msgs \cup Sessions

VARIABLES
  vote,         \* rs_v, on disk: the message the node voted for, per id
  recById,      \* rs_r, on disk: the recovered signature kept, per id
  recHash,      \* rs_h, on disk: signatures known by hash
  pc, req,      \* AsyncSignIfMember, per thread: next step and session asked for
  pendingSigns, \* sessions queued for the worker thread to sign
  sigShares,    \* shares collected
  attempt,      \* signedSessions: attempts made to send our share
  writing,      \* signature a thread is about to write in ProcessRecoveredSig
  net,          \* shares sent: [share, to]; delivered any number of times
  recNet,       \* recovered signatures relayed
  crashes,
  loose,        \* history: ids on which a node's vote may not bind it, because
                \* it was cleaned up or two of its calls overlapped
  forgotten     \* history: ids of which a recovered signature was cleaned up

disk == <<vote, recById, recHash>>
memory == <<pc, req, pendingSigns, sigShares, attempt, writing>>
history == <<loose, forgotten>>
vars == <<disk, memory, net, recNet, crashes, history>>

TypeOK ==
  /\ vote \in [Honest -> [Ids -> Msgs \cup {None}]]
  /\ recById \in [Honest -> [Ids -> Sessions \cup {None}]]
  /\ \A n \in Honest, id \in Ids : recById[n][id] # None => recById[n][id].id = id
  /\ recHash \in [Honest -> SUBSET Sessions]
  /\ pc \in [Honest -> [Threads -> {"idle", "new", "again", "write", "enqueue"}]]
  /\ req \in [Honest -> [Threads -> Sessions \cup {None}]]
  /\ \A n \in Honest, t \in Threads : pc[n][t] # "idle" => req[n][t] # None
  /\ pendingSigns \in [Honest -> SUBSET Sessions]
  /\ sigShares \in [Honest -> SUBSET Shares]
  /\ attempt \in [Honest -> [Sessions -> 0 .. RecoveryMembers]]
  /\ writing \in [Honest -> [Writers -> Sessions \cup {None}]]
  /\ net \subseteq [share : Shares, to : Members]
  /\ recNet \subseteq Sessions
  /\ crashes \in 0 .. MaxCrashes
  /\ loose \in [Honest -> SUBSET Ids]
  /\ forgotten \subseteq Ids

Init ==
  /\ vote = [n \in Honest |-> [i \in Ids |-> None]]
  /\ recById = [n \in Honest |-> [i \in Ids |-> None]]
  /\ recHash = [n \in Honest |-> {}]
  /\ pc = [n \in Honest |-> [t \in Threads |-> "idle"]]
  /\ req = [n \in Honest |-> [t \in Threads |-> None]]
  /\ pendingSigns = [n \in Honest |-> {}]
  /\ sigShares = [n \in Honest |-> {}]
  /\ attempt = [n \in Honest |-> [s \in Sessions |-> RecoveryMembers]]
  /\ writing = [n \in Honest |-> [w \in Writers |-> None]]
  /\ net = {}
  /\ recNet = {}
  /\ crashes = 0
  /\ loose = [n \in Honest |-> {}]
  /\ forgotten = {}

-----------------------------------------------------------------------------
(***************************************************************************)
(* AsyncSignIfMember.  It holds no lock: each database access is a step.   *)
(* Two threads may be in it for one id: InstantSend asks from the          *)
(* validation callbacks and from its worker (ProcessPendingRetryLockTxs).  *)
(***************************************************************************)

HasRecoveredSigForId(n, id) == recById[n][id] # None

\* variant for mutation: a retry signs without comparing with the vote on disk
AfterVoteCheckRetryBlind(n, s, allowReSign) ==
  IF vote[n][s.id] = None THEN "new" ELSE IF allowReSign THEN "again" ELSE "idle"

\* HasVotedOnId and GetVoteForId decide whether a vote is written ("new"),
\* the vote on disk is signed again ("again"), or the call returns false.
AfterVoteCheck(n, s, allowReSign) ==
  LET prev == vote[n][s.id]
  IN  IF prev = None \/ (prev # s.msg /\ s.id \in DiffIds) THEN "new"
      ELSE IF prev = s.msg /\ allowReSign THEN "again" ELSE "idle"

\* another call of the node may write a vote for another message of the id
Overlaps(n, s) ==
  \E u \in Threads : /\ pc[n][u] \in {"new", "write"}
                     /\ req[n][u].id = s.id /\ req[n][u].msg # s.msg

AsyncSignIfMember(n, t, s, allowReSign) ==
  /\ pc[n][t] = "idle"
  /\ t \in CallersOf[n][s.id]
  /\ allowReSign => s.id \in ReSignIds
  /\ s.q \in QuorumsFor[s.id] /\ n \in MembersOf[s.q]
  /\ AfterVoteCheck(n, s, allowReSign) # "idle"
  /\ pc' = [pc EXCEPT ![n][t] = AfterVoteCheck(n, s, allowReSign)]
  /\ req' = [req EXCEPT ![n][t] = s]
  /\ loose' = IF AfterVoteCheck(n, s, allowReSign) = "new" /\ Overlaps(n, s)
                THEN [loose EXCEPT ![n] = @ \cup {s.id}] ELSE loose
  /\ UNCHANGED <<disk, pendingSigns, sigShares, attempt, writing, net, recNet, crashes,
                 forgotten>>

\* variant for mutation: the request is dropped but the call goes on
ReturnWithoutLeaving(n, t) == req' = [req EXCEPT ![n][t] = None] /\ UNCHANGED pc

Return(n, t) ==
  /\ pc' = [pc EXCEPT ![n][t] = "idle"]
  /\ req' = [req EXCEPT ![n][t] = None]

\* "no need to sign it if we already have a recovered sig"
CheckRecoveredSig(n, t) ==
  /\ pc[n][t] \in {"new", "again"}
  /\ IF HasRecoveredSigForId(n, req[n][t].id)
       THEN Return(n, t)
       ELSE /\ pc' = [pc EXCEPT ![n][t] = IF @ = "new" THEN "write" ELSE "enqueue"]
            /\ UNCHANGED req
  /\ UNCHANGED <<disk, pendingSigns, sigShares, attempt, writing, net, recNet, crashes,
                 history>>

WriteVoteForId(n, t) ==
  /\ pc[n][t] = "write"
  /\ vote' = [vote EXCEPT ![n][req[n][t].id] = req[n][t].msg]
  /\ pc' = [pc EXCEPT ![n][t] = "enqueue"]
  /\ UNCHANGED <<recById, recHash, req, pendingSigns, sigShares, attempt, writing,
                 net, recNet, crashes, history>>

AsyncSign(n, t) ==
  /\ pc[n][t] = "enqueue"
  /\ pendingSigns' = [pendingSigns EXCEPT ![n] = @ \cup {req[n][t]}]
  /\ Return(n, t)
  /\ UNCHANGED <<disk, sigShares, attempt, writing, net, recNet, crashes, history>>

-----------------------------------------------------------------------------
(***************************************************************************)
(* The worker thread of CSigSharesManager.  It is inside ProcessRecoveredSig *)
(* while writing[n]["sign"] or writing[n]["shares"] is set.                *)
(***************************************************************************)

WorkerFree(n) == writing[n]["sign"] = None /\ writing[n]["shares"] = None

SharesFor(shares, s) == {x \in shares : x.sess = s}

\* variant for mutation: one share too few
CanTryRecoveryEarly(shares, s) == Cardinality(SharesFor(shares, s)) + 1 >= Threshold[s.q]

\* sigShares.Add; "canTryRecovery" when the session has enough shares
CanTryRecovery(shares, s) == Cardinality(SharesFor(shares, s)) >= Threshold[s.q]

\* ProcessSigShare, TryRecoverSig and the checks of ProcessRecoveredSig, up to
\* the write.  A share already there, or of an id with a recovered signature,
\* changes nothing.
ProcessSigShare(n, share, w) ==
  LET s == share.sess
      shares == sigShares[n] \cup {share}
  IN  IF HasRecoveredSigForId(n, s.id) \/ share \in sigShares[n]
        THEN UNCHANGED <<sigShares, writing>>
        ELSE /\ sigShares' = [sigShares EXCEPT ![n] = shares]
             /\ writing' = IF CanTryRecovery(shares, s) /\ s \notin recHash[n]
                             THEN [writing EXCEPT ![n][w] = s] ELSE writing

\* One element of the queue; the session's attempts start again at 0, after
\* ProcessSigShare returned (WriteRecoveredSig when it recovers).
SignPendingSigShare(n, s) ==
  /\ WorkerFree(n)
  /\ s \in pendingSigns[n]
  /\ pendingSigns' = [pendingSigns EXCEPT ![n] = @ \ {s}]
  /\ ProcessSigShare(n, [member |-> n, sess |-> s], "sign")
  /\ attempt' = IF writing' = writing THEN [attempt EXCEPT ![n][s] = 0] ELSE attempt
  /\ UNCHANGED <<disk, pc, req, net, recNet, crashes, history>>

\* variant for mutation: every attempt goes to the same member
SelectFirstMember(q, k) == RecoveryOrder[q][0]

\* the members ordered by a hash with the id; attempt k goes to the k-th
SelectMemberForRecovery(q, k) == RecoveryOrder[q][k]

\* CollectSigSharesToSendConcentrated: an attempt counts although the member
\* selected for it is not connected.
SendSigShare(n, s) ==
  LET to == SelectMemberForRecovery(s.q, attempt[n][s])
  IN  /\ WorkerFree(n)
      /\ attempt[n][s] < RecoveryMembers
      /\ attempt' = [attempt EXCEPT ![n][s] = @ + 1]
      /\ \/ net' = net \cup {[share |-> [member |-> n, sess |-> s], to |-> to]}
         \/ Lossy /\ UNCHANGED net
      /\ UNCHANGED <<disk, pc, req, pendingSigns, sigShares, writing, recNet, crashes,
                     history>>

\* ProcessMessageSigShare, the queue of pending shares and their verification.
\* A faulty member's valid share for any session may arrive at any time.
ReceiveSigShare(n, share) ==
  /\ WorkerFree(n)
  /\ n \in MembersOf[share.sess.q] /\ share.member \in MembersOf[share.sess.q]
  /\ [share |-> share, to |-> n] \in net \/ share.member \in Faulty
  /\ share \notin sigShares[n] /\ ~HasRecoveredSigForId(n, share.sess.id)
  /\ ProcessSigShare(n, share, "shares")
  /\ UNCHANGED <<disk, pc, req, pendingSigns, attempt, net, recNet, crashes, history>>

RemoveSigSharesForSession(n, s) ==
  /\ sigShares' = [sigShares EXCEPT ![n] = @ \ SharesFor(@, s)]
  /\ attempt' = [attempt EXCEPT ![n][s] = RecoveryMembers]

\* Cleanup: sessions that are recovered, and those that timed out
CleanupSession(n, s) ==
  /\ WorkerFree(n)
  /\ SharesFor(sigShares[n], s) # {}
  /\ recById[n][s.id] = s \/ SessionsTimeOut
  /\ RemoveSigSharesForSession(n, s)
  /\ UNCHANGED <<disk, pc, req, pendingSigns, writing, net, recNet, crashes, history>>

-----------------------------------------------------------------------------
(***************************************************************************)
(* CSigningManager.  ProcessRecoveredSig checks, then writes, without a    *)
(* lock; the share worker and the signing worker may both be between.      *)
(***************************************************************************)

\* a QSIGREC message reaches ProcessRecoveredSig and passes its checks
ProcessRecoveredSig(n, s) ==
  /\ writing[n]["signing"] = None
  /\ s \in recNet /\ s \notin recHash[n]
  /\ ~HasRecoveredSigForId(n, s.id)
  /\ writing' = [writing EXCEPT ![n]["signing"] = s]
  /\ UNCHANGED <<disk, pc, req, pendingSigns, sigShares, attempt, net, recNet, crashes,
                 history>>

\* db.WriteRecoveredSig, the listener that drops the session, the relay
WriteRecoveredSig(n, w) ==
  LET s == writing[n][w]
  IN  /\ s # None
      /\ recById' = [recById EXCEPT ![n][s.id] = s]
      /\ recHash' = [recHash EXCEPT ![n] = @ \cup {s}]
      /\ writing' = [writing EXCEPT ![n][w] = None]
      /\ sigShares' = [sigShares EXCEPT ![n] = @ \ SharesFor(@, s)]
      /\ attempt' = [attempt EXCEPT ![n][s] = IF w = "sign" THEN 0 ELSE RecoveryMembers]
      /\ recNet' = recNet \cup {s}
      /\ UNCHANGED <<vote, pc, req, pendingSigns, net, crashes, history>>

\* variant for mutation: the entry by hash goes as well
TruncateEverything(n, id) ==
  /\ id \in TruncIds
  /\ HasRecoveredSigForId(n, id)
  /\ recById' = [recById EXCEPT ![n][id] = None]
  /\ recHash' = [recHash EXCEPT ![n] = {s \in @ : s.id # id}]
  /\ UNCHANGED <<vote, memory, net, recNet, crashes, history>>

\* the entry by id goes, "leave the byHash key in-place"
TruncateRecoveredSig(n, id) ==
  /\ id \in TruncIds
  /\ HasRecoveredSigForId(n, id)
  /\ recById' = [recById EXCEPT ![n][id] = None]
  /\ UNCHANGED <<vote, recHash, memory, net, recNet, crashes, history>>

\* CSigningManager::Cleanup, first half: the entries of an old signature go.
\* Of a truncated one nothing goes, its hash stays.
CleanupOldRecoveredSigs(n, id) ==
  /\ RecordsAge /\ writing[n]["signing"] = None
  /\ HasRecoveredSigForId(n, id)
  /\ recById' = [recById EXCEPT ![n][id] = None]
  /\ recHash' = [recHash EXCEPT ![n] = @ \ {recById[n][id]}]
  /\ forgotten' = forgotten \cup {id}
  /\ UNCHANGED <<vote, memory, net, recNet, crashes, loose>>

\* CSigningManager::Cleanup, second half
CleanupOldVotes(n, id) ==
  /\ RecordsAge /\ writing[n]["signing"] = None
  /\ vote[n][id] # None
  /\ vote' = [vote EXCEPT ![n][id] = None]
  /\ loose' = [loose EXCEPT ![n] = @ \cup {id}]
  /\ UNCHANGED <<recById, recHash, memory, net, recNet, crashes, forgotten>>

-----------------------------------------------------------------------------
(***************************************************************************)
(* The environment: crashes, and faulty members that recover by themselves *)
(***************************************************************************)

Crash(n) ==
  /\ crashes < MaxCrashes
  /\ crashes' = crashes + 1
  /\ pc' = [pc EXCEPT ![n] = [t \in Threads |-> "idle"]]
  /\ req' = [req EXCEPT ![n] = [t \in Threads |-> None]]
  /\ pendingSigns' = [pendingSigns EXCEPT ![n] = {}]
  /\ sigShares' = [sigShares EXCEPT ![n] = {}]
  /\ attempt' = [attempt EXCEPT ![n] = [s \in Sessions |-> RecoveryMembers]]
  /\ writing' = [writing EXCEPT ![n] = [w \in Writers |-> None]]
  /\ UNCHANGED <<disk, net, recNet, history>>

\* the members whose share for s the faulty ones hold
KnownToFaulty(s) ==
  {m \in MembersOf[s.q] : \/ m \in Faulty
                          \/ \E to \in Faulty :
                               [share |-> [member |-> m, sess |-> s], to |-> to] \in net}

FaultyRecover(s) ==
  /\ s \notin recNet
  /\ Faulty # {}
  /\ Cardinality(KnownToFaulty(s)) >= Threshold[s.q]
  /\ recNet' = recNet \cup {s}
  /\ UNCHANGED <<disk, memory, net, crashes, history>>

Sign(n) ==
  \/ \E t \in Threads, s \in Sessions, r \in BOOLEAN : AsyncSignIfMember(n, t, s, r)
  \/ \E t \in Threads : CheckRecoveredSig(n, t) \/ WriteVoteForId(n, t) \/ AsyncSign(n, t)

Worker(n) ==
  \/ \E s \in Sessions : \/ SignPendingSigShare(n, s)
                         \/ SendSigShare(n, s)
                         \/ CleanupSession(n, s)
                         \/ ProcessRecoveredSig(n, s)
  \/ \E share \in Shares : ReceiveSigShare(n, share)
  \/ \E w \in Writers : WriteRecoveredSig(n, w)
  \/ \E id \in Ids : \/ TruncateRecoveredSig(n, id)
                     \/ CleanupOldRecoveredSigs(n, id)
                     \/ CleanupOldVotes(n, id)

Next ==
  \/ \E n \in Honest : Sign(n) \/ Worker(n) \/ Crash(n)
  \/ \E s \in Sessions : FaultyRecover(s)

Spec == Init /\ [][Next]_vars

-----------------------------------------------------------------------------
(***************************************************************************)
(* What the code relies on.                                                *)
(***************************************************************************)

\* Any two sets of members able to recover a signature have an honest member
\* in common.
QuorumIntersection ==
  \A q, r \in Quorums :
    \A S \in SUBSET MembersOf[q], T \in SUBSET MembersOf[r] :
      Cardinality(S) >= Threshold[q] /\ Cardinality(T) >= Threshold[r]
        => S \cap T \cap Honest # {}

-----------------------------------------------------------------------------
(***************************************************************************)
(* Properties.                                                             *)
(***************************************************************************)

\* every share that exists: collected or sent
AllShares ==
  {x \in Shares : \/ \E n \in Honest : x \in sigShares[n]
                  \/ \E m \in Members : [share |-> x, to |-> m] \in net}

\* "each masternode is participating in only one vote, even if it's a member
\* of multiple quorums" (ProcessRecoveredSig): a member signs two messages on
\* one id only if one of its calls checked for a vote while another was about
\* to write one for the other message, or if its vote was cleaned up; whatever
\* retries, truncations and clean-ups of recovered signatures and crashes
\* between vote, queue and signature happened.
VoteOnce ==
  \A x, y \in AllShares :
    /\ x.member = y.member /\ x.member \in Honest
    /\ x.sess.id = y.sess.id /\ x.sess.id \notin DiffIds
    => x.sess.msg = y.sess.msg \/ x.sess.id \in loose[x.member]

\* "it shouldn't be possible to get conflicting recovered signatures"
\* (AsyncSignIfMember): two signatures accepted by any node or relayed disagree
\* on the message of an id only if the vote of an honest member of both quorums
\* did not bind it; this is what ChainLocks and InstantSend stand on.
RecSigs == recNet \cup UNION {recHash[n] : n \in Honest}
NoConflictingRecSigs ==
  \A s, r \in RecSigs :
    s.id = r.id /\ s.id \notin DiffIds =>
      \/ s.msg = r.msg
      \/ \E n \in Honest \cap MembersOf[s.q] \cap MembersOf[r.q] : s.id \in loose[n]

(***************************************************************************)
(* The inductive strengthening.  The vote is on disk before the request is *)
(* queued and is not changed while it binds: every share is backed by its  *)
(* signer's vote, and every signature by the votes of enough members.      *)
(* Calls about to write a vote that do not overlap all write the same one. *)
(***************************************************************************)
Bound(n, id) == id \notin DiffIds /\ id \notin loose[n]

VotedFor(n, s) ==
  n \in MembersOf[s.q] /\ (Bound(n, s.id) => vote[n][s.id] = s.msg)

Voting(n, t) == pc[n][t] \in {"new", "write"} /\ Bound(n, req[n][t].id)

CallOK(n, t) ==
  /\ n \in MembersOf[req[n][t].q]
  /\ Voting(n, t) => vote[n][req[n][t].id] \in {None, req[n][t].msg}
  /\ pc[n][t] \in {"again", "enqueue"} => VotedFor(n, req[n][t])

CallInv == \A n \in Honest, t \in Threads : pc[n][t] # "idle" => CallOK(n, t)

SameVote(n, t, u) ==
  Voting(n, t) /\ Voting(n, u) /\ req[n][t].id = req[n][u].id => req[n][t].msg = req[n][u].msg

OverlapInv == \A n \in Honest, t, u \in Threads : SameVote(n, t, u)

OwnInv ==
  \A n \in Honest, s \in Sessions :
    s \in pendingSigns[n] \/ attempt[n][s] < RecoveryMembers \/ writing[n]["sign"] = s
      => VotedFor(n, s)

ShareOK(x) ==
  /\ x.member \in MembersOf[x.sess.q]
  /\ x.member \in Honest => VotedFor(x.member, x.sess)

ShareInv ==
  /\ \A n \in Honest : \A x \in sigShares[n] : ShareOK(x)
  /\ \A e \in net : ShareOK(e.share)

Certified(s) ==
  \E S \in SUBSET MembersOf[s.q] :
    /\ Cardinality(S) >= Threshold[s.q]
    /\ \A m \in S \cap Honest : VotedFor(m, s)

RecInv ==
  /\ \A s \in recNet : Certified(s)
  /\ \A n \in Honest : \A s \in recHash[n] : Certified(s)
  /\ \A n \in Honest, w \in Writers : writing[n][w] # None => Certified(writing[n][w])

IndInv == TypeOK /\ CallInv /\ OverlapInv /\ OwnInv /\ ShareInv /\ RecInv

(***************************************************************************)
(* What the component promises: AbstractSigning on the ids that are signed *)
(* once, with the signatures a node accepted as what it learned and the    *)
(* ids of loose votes and of cleaned-up signatures as released.            *)
(***************************************************************************)
OnceIds == Ids \ DiffIds
learnedBar ==
  [n \in Honest |-> [id \in OnceIds |-> {m \in Msgs : \E s \in recHash[n] : s.id = id /\ s.msg = m}]]
releasedBar == OnceIds \cap (forgotten \cup UNION {loose[n] : n \in Honest})
Abstract == INSTANCE AbstractSigning
              WITH Nodes <- Honest, Ids <- OnceIds, Msgs <- Msgs,
                   learned <- learnedBar, released <- releasedBar
Refines == Abstract!Spec

(***************************************************************************)
(* Liveness.  The worker threads run in a loop, every honest node asks for *)
(* the signature once, and what is sent arrives.                           *)
(***************************************************************************)
Fairness ==
  \A n \in Honest :
    /\ \A t \in Threads :
         /\ WF_vars(\E s \in Sessions, r \in BOOLEAN : AsyncSignIfMember(n, t, s, r))
         /\ WF_vars(CheckRecoveredSig(n, t))
         /\ WF_vars(WriteVoteForId(n, t))
         /\ WF_vars(AsyncSign(n, t))
    /\ \A s \in Sessions :
         /\ WF_vars(SignPendingSigShare(n, s))
         /\ WF_vars(SendSigShare(n, s))
         /\ WF_vars(ProcessRecoveredSig(n, s))
    /\ \A share \in Shares : share.member \in Honest => WF_vars(ReceiveSigShare(n, share))
    /\ \A w \in Writers : WF_vars(WriteRecoveredSig(n, w))

FairSpec == Spec /\ Fairness

\* If the honest members vote for one message of an id, one of the recovery
\* members recovers the signature and relays it to every honest node, although
\* the first recovery member is faulty, keeps the shares and signs another
\* message: the attempts of CollectSigSharesToSendConcentrated reach another
\* recovery member before they are used up.
EventuallyRecovered ==
  \A id \in Ids, m \in Msgs :
    [](\A n \in Honest : vote[n][id] \in {None, m})
      => <>(\A n \in Honest : \E s \in recHash[n] : s.id = id)

=============================================================================
