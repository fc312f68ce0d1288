----------------------------- MODULE DkgSession -----------------------------
(***************************************************************************)
(* One session of the distributed key generation (llmq/dkgsession.cpp) as  *)
(* its handler runs it (llmq/dkgsessionhandler.cpp): the members of a      *)
(* quorum contribute secrets, complain about wrong shares, justify         *)
(* themselves and commit to the members they find valid and to the key     *)
(* these make.  The phases follow the chain, so that a message that is     *)
(* late for its phase is lost, and members see different messages.         *)
(*                                                                         *)
(* The phase thread of a node is the only one that processes messages, and *)
(* what it has processed shows only in its next start function.  So the    *)
(* messages of a phase are one step at the end of it, and one step before  *)
(* the start function, of those that make their sender bad: the others     *)
(* make no difference to it, and may as well wait.                         *)
(*                                                                         *)
(* Messages are signed.  A share is its sender's vvec (verification        *)
(* vector) seen from a member: it fits the vvec or not.                    *)
(***************************************************************************)
EXTENDS Integers, FiniteSets

CONSTANTS
  Honest, Faulty,   \* members that run this code, and those that send what they like
  Vvecs, Own,       \* verification vectors; that of each honest member
  Lies,             \* what faulty members may send, to some or all
  MinSize,          \* params.minSize
  BadVotes,         \* params.dkgBadVotesThreshold
  BadConnections,   \* whom VerifyConnectionAndMinProtoVersions may object to
  MaxSkew,          \* bound: half phases a node is ahead of another
  MaxMissed         \* bound: messages of honest members missed, and members that abort

Members == Honest \cup Faulty

Keys == UNION {[V -> Vvecs] : V \in SUBSET Members}
Contributions == [kind : {"contribution"}, from : Members, vvec : Vvecs, good : SUBSET Members]
Complaints == [kind : {"complaint"}, from : Members, bad : SUBSET Members, complain : SUBSET Members]
Justifications ==
  [kind : {"justification"}, from : Members, vvec : Vvecs, for : SUBSET Members, good : SUBSET Members]
\* the key of the valid members; ok if the share signature fits it
Commitments == [kind : {"commitment"}, from : Members, key : Keys, ok : BOOLEAN]
Messages == Contributions \cup Complaints \cup Justifications \cup Commitments

ASSUME MembersAssumption ==
  /\ IsFiniteSet(Honest) /\ IsFiniteSet(Faulty) /\ Honest \cap Faulty = {}
  /\ Own \in [Honest -> Vvecs]
  /\ BadConnections \subseteq SUBSET Members
  /\ MinSize \in Nat /\ BadVotes \in Nat /\ MaxSkew \in Nat /\ MaxMissed \in Nat

\* what PreVerifyMessage and the check of the signature let pass
ASSUME LiesAssumption ==
  /\ IsFiniteSet(Lies) /\ Lies \subseteq Messages
  /\ \A m \in Lies : m.from \in Faulty
  /\ \A m \in Lies : m.kind = "justification" => m.for # {}
  /\ \A m \in Lies : m.kind = "commitment" => Cardinality(DOMAIN m.key) >= MinSize

CONTRIBUTE == 2
COMPLAIN == 3
JUSTIFY == 4
COMMIT == 5
FINALIZE == 6
Phases == CONTRIBUTE .. FINALIZE

VARIABLES
  phase, started,  \* QuorumPhase of each honest node; has its start function run
  aborted,         \* nodes that left the session (AbortPhaseException)
  died,            \* nodes that stopped in an assertion of SendCommitment
  sent,            \* messages of honest members
  got,             \* processed: the first contribution, complaint and justification of
                   \* each member, and its commitments
  twice,           \* members that sent two
  bad,             \* CDKGMember::bad
  share,           \* DB_SKCONTRIB: members whose share was verified
  open,            \* complaintsFromOthers: <<m, k>> if k complains about m
  valid,           \* validCommitments
  final,           \* what FinalizeCommitments returned
  missed           \* messages of honest members that honest members missed

progress == <<phase, started, aborted, missed>>
view == <<got, twice, bad, share, open, valid>>
vars == <<progress, died, sent, view, final>>

TypeOK ==
  /\ phase \in [Honest -> Phases] /\ started \in [Honest -> BOOLEAN]
  /\ aborted \subseteq Honest /\ died \subseteq Honest /\ missed \in Nat
  /\ sent \subseteq Messages
  /\ got \in [Honest -> SUBSET Messages] /\ valid \in [Honest -> SUBSET Commitments]
  /\ twice \in [Honest -> SUBSET Members] /\ bad \in [Honest -> SUBSET Members]
  /\ share \in [Honest -> SUBSET Members]
  /\ open \in [Honest -> SUBSET (Members \X Members)]
  /\ final \subseteq [by : Honest, key : Keys, signers : SUBSET Members]

Init ==
  /\ phase = [n \in Honest |-> CONTRIBUTE] /\ started = [n \in Honest |-> FALSE]
  /\ aborted = {} /\ died = {} /\ missed = 0
  /\ sent = {} /\ final = {}
  /\ got = [n \in Honest |-> {}] /\ twice = [n \in Honest |-> {}]
  /\ bad = [n \in Honest |-> {}] /\ share = [n \in Honest |-> {}]
  /\ open = [n \in Honest |-> {}] /\ valid = [n \in Honest |-> {}]

-----------------------------------------------------------------------------
(***************************************************************************)
(* Messages.                                                               *)
(***************************************************************************)

Of(S, kind) == {m \in S : m.kind = kind}
Senders(S) == {m.from : m \in S}
Available(kind) == Of(sent \cup Lies, kind)

\* first messages of members, none of which was heard of in this phase
FirstOfEach(n, kind) ==
  {F \in SUBSET {m \in Available(kind) : m.from \notin Senders(Of(got[n], kind))} :
     \A a, b \in F : a.from = b.from => a = b}

\* those of whom a second message may be processed
Repeating(F, kind) ==
  {s \in Senders(F) : \E m \in Available(kind) \ F : m.from = s}

\* receivedVvecs, and the contributions with a share that fits for n
Vvec(n, m) == (CHOOSE c \in Of(got[n], "contribution") : c.from = m).vvec
Contributors(n) == Senders(Of(got[n], "contribution"))
RightFor(n) == Senders({c \in Of(got[n], "contribution") : n \in c.good})

\* badMemberVotes
Voters(n, m) == Senders({c \in Of(got[n], "complaint") : m \in c.bad})

-----------------------------------------------------------------------------
(***************************************************************************)
(* Phases.                                                                 *)
(***************************************************************************)

Progress(n) == 2 * phase[n] + (IF started[n] THEN 1 ELSE 0)
Running == Honest \ (aborted \cup died)
InStep(n) == \A k \in Running : Progress(n) <= Progress(k) + MaxSkew

\* SleepBeforePhase is over: the start function of the phase runs
Starts(n, p) ==
  /\ n \in Running /\ phase[n] = p /\ ~started[n] /\ InStep(n)
  /\ started' = [started EXCEPT ![n] = TRUE]
  /\ UNCHANGED <<phase, aborted, missed>>

\* messages are processed until WaitForNextPhase sees the next phase
Receives(n, p) == n \in Running /\ phase[n] = p /\ started[n] /\ InStep(n)

\* mutant: any later phase ends the wait, Idle (7) too
EndsAnywhere(n, kind, processed) ==
  /\ missed' = missed + Cardinality({m \in Of(sent, kind) : m.from \notin Senders(processed)})
  /\ missed' + Cardinality(aborted) <= MaxMissed
  /\ \E p \in phase[n] + 1 .. 7 : phase' = [phase EXCEPT ![n] = p]
  /\ started' = [started EXCEPT ![n] = FALSE]
  /\ UNCHANGED <<aborted, died>>

\* what was not processed is lost
Ends(n, kind, processed) ==
  LET late == {m \in Of(sent, kind) : m.from \notin Senders(processed)}
  IN  /\ missed' = missed + Cardinality(late)
      /\ missed' + Cardinality(aborted) <= MaxMissed
      /\ phase' = [phase EXCEPT ![n] = @ + 1]
      /\ started' = [started EXCEPT ![n] = FALSE]
      /\ UNCHANGED <<aborted, died>>

\* a phase was skipped, another base block took over, or the node stopped
Abort(n) ==
  /\ n \in Running /\ missed + Cardinality(aborted) < MaxMissed
  /\ aborted' = aborted \cup {n}
  /\ UNCHANGED <<phase, started, missed, died, sent, view, final>>

-----------------------------------------------------------------------------
(***************************************************************************)
(* The start functions, and the messages of each phase.                    *)
(***************************************************************************)

SendContributions(n) ==
  /\ Starts(n, CONTRIBUTE)
  /\ sent' = sent \cup {[kind |-> "contribution", from |-> n, vvec |-> Own[n], good |-> Members]}
  /\ UNCHANGED <<died, view, final>>

ReceiveContributions(n) ==
  /\ Receives(n, CONTRIBUTE)
  /\ \E F \in FirstOfEach(n, "contribution") : \E D \in SUBSET Repeating(F, "contribution") :
       /\ Ends(n, "contribution", F)
       /\ got' = [got EXCEPT ![n] = @ \cup F]
       /\ twice' = [twice EXCEPT ![n] = @ \cup D]
       /\ bad' = [bad EXCEPT ![n] = @ \cup D]
  /\ UNCHANGED <<share, open, valid, sent, final>>

\* Messages E that SleepBeforePhase processes; members D sent a second one.
Before(n, E, D) ==
  /\ got' = [got EXCEPT ![n] = @ \cup E]
  /\ twice' = [twice EXCEPT ![n] = @ \cup D]
Repeated(n, kind) ==
  {E \in FirstOfEach(n, kind) : Senders(E) \subseteq Repeating(E, kind)}

\* With VerifyPendingContributions and SendComplaint.  A share of a member that
\* is bad does not matter, whether it was verified in an earlier batch or not.
VerifyAndComplain(n) ==
  /\ Starts(n, COMPLAIN)
  /\ \E E \in Repeated(n, "complaint"), B \in BadConnections :
       LET worse == bad[n] \cup Senders(E)
           fitting == RightFor(n) \ worse
           judged == worse \cup (Members \ Contributors(n))
           complaint == [kind |-> "complaint", from |-> n, bad |-> judged \cup (B \ {n}),
                         complain |-> Members \ (judged \cup fitting \cup (B \ {n}))]
       IN  /\ Before(n, E, Senders(E))
           /\ share' = [share EXCEPT ![n] = fitting]
           /\ bad' = [bad EXCEPT ![n] = judged]
           /\ sent' = IF complaint.bad = {} /\ complaint.complain = {} THEN sent
                      ELSE sent \cup {complaint}
  /\ UNCHANGED <<died, open, valid, final>>

\* Votes and complaints count, whatever is thought of the member they are from.
ReceiveComplaints(n) ==
  /\ Receives(n, COMPLAIN)
  /\ \E F \in FirstOfEach(n, "complaint") : \E D \in SUBSET Repeating(F, "complaint") :
       LET complaints == Of(got[n], "complaint") \cup F
       IN  /\ Ends(n, "complaint", complaints)
           /\ got' = [got EXCEPT ![n] = @ \cup F]
           /\ twice' = [twice EXCEPT ![n] = @ \cup D]
           /\ bad' = [bad EXCEPT ![n] = @ \cup D]
           /\ open' = [open EXCEPT ![n] = UNION {c.complain \X {c.from} : c \in complaints}]
  /\ UNCHANGED <<share, valid, sent, final>>

\* mutant: the share is not verified
ProvenUnseen(n, j) == IF j.vvec = Vvec(n, j.from) THEN j.for ELSE {}
\* mutant: the share is verified with the vvec of the member that complained
ProvenMixedUp(n, j) ==
  {k \in j.for \cap j.good : k \in Contributors(n) /\ j.vvec = Vvec(n, k)}

\* the members for whom a justification shows a share that fits
Proven(n, j) == IF j.vvec = Vvec(n, j.from) THEN j.for \cap j.good ELSE {}

\* A justification that nobody asked for, or that is wrong for one, makes bad.
MakesBad(n, j) ==
  /\ j.from \notin bad[n]
  /\ \/ \E k \in j.for : <<j.from, k>> \notin open[n]
     \/ Proven(n, j) # j.for

\* With SendJustification: a member that is bad gets no answer, be it for a justification
\* that came before.  What else such a justification shows does not matter any more.
VerifyAndJustify(n) ==
  /\ Starts(n, JUSTIFY)
  /\ \E E \in FirstOfEach(n, "justification") : \E D \in SUBSET Repeating(E, "justification") :
       LET worse == bad[n] \cup Senders(E)
           judged == worse \cup {m \in Members : Cardinality(Voters(n, m)) >= BadVotes}
           justifyFor == {k \in Members \ judged : <<n, k>> \in open[n]}
           justification == [kind |-> "justification", from |-> n, vvec |-> Own[n],
                             for |-> justifyFor, good |-> justifyFor]
       IN  /\ \A j \in E : j.from \in D \/ MakesBad(n, j)
           /\ Before(n, E, D)
           /\ bad' = [bad EXCEPT ![n] = judged]
           /\ sent' = IF justifyFor = {} THEN sent ELSE sent \cup {justification}
  /\ UNCHANGED <<died, share, open, valid, final>>

ReceiveJustifications(n) ==
  /\ Receives(n, JUSTIFY)
  /\ \E F \in FirstOfEach(n, "justification") : \E D \in SUBSET Repeating(F, "justification") :
       LET heard == {j \in F : j.from \notin bad[n]}
           asked == {j \in heard : \A k \in j.for : <<j.from, k>> \in open[n]}
           wrong == {j \in asked : Proven(n, j) # j.for}
       IN  /\ Ends(n, "justification", Of(got[n], "justification") \cup F)
           /\ got' = [got EXCEPT ![n] = @ \cup F]
           /\ twice' = [twice EXCEPT ![n] = @ \cup D]
           /\ bad' = [bad EXCEPT ![n] = @ \cup D \cup Senders((heard \ asked) \cup wrong)]
           /\ open' = [open EXCEPT ![n] = @ \ UNION {{j.from} \X Proven(n, j) : j \in asked}]
           /\ share' = [share EXCEPT ![n] = @ \cup Senders({j \in asked : n \in Proven(n, j)})]
  /\ UNCHANGED <<valid, sent, final>>

\* mutant: open complaints count as votes do
UnjustifiedVotes(n) ==
  {m \in Members : Cardinality({k \in Members : <<m, k>> \in open[n]}) >= BadVotes}

\* members that did not justify themselves for all that complained
Unjustified(n) == {m \in Members : \E k \in Members : <<m, k>> \in open[n]}

\* With SendCommitment, where adding up the shares asserts that there is one of
\* every valid member (CBLSSecretKey::AggregateInsecure).
VerifyAndCommit(n) ==
  LET judged == bad[n] \cup Unjustified(n)
      V == Members \ judged
      commitment == [kind |-> "commitment", from |-> n, key |-> [m \in V |-> Vvec(n, m)], ok |-> TRUE]
  IN  /\ Starts(n, COMMIT)
      /\ bad' = [bad EXCEPT ![n] = judged]
      /\ \/ /\ Cardinality(V) < MinSize
            /\ UNCHANGED <<sent, died>>
         \/ /\ Cardinality(V) >= MinSize /\ V \subseteq share[n]
            /\ sent' = sent \cup {commitment}
            /\ UNCHANGED died
         \/ /\ Cardinality(V) >= MinSize /\ ~(V \subseteq share[n])
            /\ died' = died \cup {n}
            /\ UNCHANGED sent
      /\ UNCHANGED <<got, twice, share, open, valid, final>>

\* mutant: the key is made of all contributions there are
AcceptsFullKey(n, c) ==
  DOMAIN c.key \subseteq Contributors(n) =>
    c.ok /\ c.key = [m \in Contributors(n) |-> Vvec(n, m)]

\* Without the contribution of every valid member the key is taken on trust.
Accepts(n, c) ==
  DOMAIN c.key \subseteq Contributors(n) =>
    c.ok /\ c.key = [m \in DOMAIN c.key |-> Vvec(n, m)]

ReceiveCommitments(n) ==
  /\ Receives(n, COMMIT)
  /\ \E F \in SUBSET Available("commitment") :
       /\ Ends(n, "commitment", F)
       /\ got' = [got EXCEPT ![n] = @ \cup F]
       /\ valid' = [valid EXCEPT ![n] = {c \in F : Accepts(n, c)}]
  /\ UNCHANGED <<twice, bad, share, open, sent, final>>

\* mutant: one commitment less will do
IsFinalEarly(n, k) ==
  LET group == {c \in valid[n] : c.key = k}
  IN  Cardinality(Senders(group)) >= MinSize - 1 /\ \A c \in group : c.ok

\* Enough commitments to the same members, and CFinalCommitment::Verify: enough of
\* them to this key, and every share fits it.
IsFinal(n, k) ==
  LET same == {c \in valid[n] : DOMAIN c.key = DOMAIN k}
      group == {c \in same : c.key = k}
  IN  /\ Cardinality(same) >= MinSize
      /\ Cardinality(Senders(group)) >= MinSize /\ \A c \in group : c.ok

\* Of the keys of the same valid members only that of the first commitment, by hash,
\* counts.
FinalizeCommitments(n) ==
  LET keys == {c.key : c \in valid[n]}
  IN  /\ Starts(n, FINALIZE)
      /\ \E K \in SUBSET keys :
           /\ \A j, k \in K : DOMAIN j = DOMAIN k => j = k
           /\ \A k \in keys : \E j \in K : DOMAIN j = DOMAIN k
           /\ final' = final \cup
                {[by |-> n, key |-> k, signers |-> Senders({c \in valid[n] : c.key = k})] :
                   k \in {j \in K : IsFinal(n, j)}}
      /\ UNCHANGED <<died, sent, view>>

-----------------------------------------------------------------------------

Next ==
  \E n \in Honest :
    \/ Abort(n)
    \/ SendContributions(n) \/ ReceiveContributions(n)
    \/ VerifyAndComplain(n) \/ ReceiveComplaints(n)
    \/ VerifyAndJustify(n) \/ ReceiveJustifications(n)
    \/ VerifyAndCommit(n) \/ ReceiveCommitments(n)
    \/ FinalizeCommitments(n)

Spec == Init /\ [][Next]_vars

-----------------------------------------------------------------------------

\* Who commits to key k with a share that fits it; a faulty member may.
Committers(k) == Senders({c \in Available("commitment") : c.key = k /\ c.ok})
MadeKeys ==
  {k \in {c.key : c \in Available("commitment")} : Cardinality(Committers(k)) >= MinSize}
TakenKeys == [n \in Honest |-> {f.key : f \in {f \in final : f.by = n}}]

\* A session makes one key: nobody can put together a valid final commitment to
\* another key or other valid members (MinSize of SendCommitment and Verify), then or
\* later, and FinalizeCommitments returns that key to a node, once, or none.
Agreement == INSTANCE AbstractKey WITH Nodes <- Honest, made <- MadeKeys, taken <- TakenKeys
MakesOneKey == Agreement!Spec

\* The key can be used: each member that commits to it, or signs the final
\* commitment, and is not faulty was given a share of every valid member, by
\* contribution or by justification, that fits what this member has in the key.
QuorumCanSign ==
  \A h \in Honest : \A k \in {c.key : c \in {c \in Of(sent, "commitment") : c.from = h}}
                          \cup {f.key : f \in {f \in final : h \in f.signers}} :
    \A m \in DOMAIN k :
      /\ m \in share[h]
      /\ \E c \in got[h] : /\ c.kind \in {"contribution", "justification"}
                           /\ c.from = m /\ c.vvec = k[m] /\ h \in c.good

\* A node reaches the assertion in only two ways.  Its own complaint goes through the
\* queue of the messages of others and only then is an open one, which the end of the
\* phase may forestall; or it objects to the connection of a member: then it votes
\* against the member instead of complaining about the share it lacks.
DiesOnlyUnheard ==
  \A n \in died : \E c \in Of(sent, "complaint") :
    c.from = n /\ (c \notin got[n] \/ ~(c.bad \subseteq bad[n]))

-----------------------------------------------------------------------------

\* What an honest member sends is processed by every honest member in its phase.
InTime ==
  LET phaseOf == [contribution |-> CONTRIBUTE, complaint |-> COMPLAIN,
                  justification |-> JUSTIFY, commitment |-> COMMIT]
  IN  \A n \in Honest :
        /\ \A m \in sent : phaseOf[m.kind] < phase[n] => m \in got[n]
        /\ \A k \in Honest : Progress(k) >= 2 * phase[n] - 1

Past(n, p) == phase[n] > p

\* Complaints of faulty members, too, reach all honest members or none.
ComplaintsAlike ==
  \A n, k \in Honest : Past(n, COMPLAIN) /\ Past(k, COMPLAIN) =>
    Of(got[n], "complaint") = Of(got[k], "complaint")

\* Each honest member answers the complaints about itself: it finds nobody bad who made
\* one, for a wrong justification that came too early, say.
NoneIgnored ==
  \A m \in Honest : Progress(m) > 2 * JUSTIFY =>
    \A c \in Of(got[m], "complaint") : m \in c.complain =>
      \E j \in Of(sent, "justification") : j.from = m /\ c.from \in j.for

\* No honest member finds another one bad, whatever the faulty members contribute,
\* complain about, justify and vote, if messages of honest members are in time and
\* complaints about them are heard alike and answered.
HonestStayValid ==
  InTime /\ ComplaintsAlike /\ NoneIgnored => \A n \in Honest : bad[n] \cap Honest = {}

\* What else of faulty members decides about the key is alike.
ViewsAlike ==
  \A n, k \in Honest :
    /\ twice[n] = twice[k]
    /\ \A kind \in {"contribution", "justification"} : Of(got[n], kind) = Of(got[k], kind)

\* Under these conditions, and if no node stops, the session succeeds, with a key that every honest member
\* has taken part in making: whichever shares were wrong, whoever was found bad, and
\* whatever commitments faulty members send.
Succeeds ==
  InTime /\ ComplaintsAlike /\ NoneIgnored /\ ViewsAlike /\ died = {} =>
    \A n \in Honest : phase[n] = FINALIZE /\ started[n] =>
      \E f \in final : f.by = n /\ Honest \subseteq f.signers /\ Honest \subseteq DOMAIN f.key
=============================================================================
