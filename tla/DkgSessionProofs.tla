-------------------------- MODULE DkgSessionProofs --------------------------
(***************************************************************************)
(* For any members, messages of faulty ones, delays and losses: a session  *)
(* makes one key, members have the shares for the keys they commit to, and *)
(* the assertion of SendCommitment fails for two reasons only.  With few   *)
(* faulty members, and messages in time, honest ones are not found bad,    *)
(* and the session succeeds.                                               *)
(***************************************************************************)
EXTENDS DkgSession, FiniteSetTheorems, TLAPS

Step(n) ==
  \/ Abort(n)
  \/ SendContributions(n) \/ ReceiveContributions(n)
  \/ VerifyAndComplain(n) \/ ReceiveComplaints(n)
  \/ VerifyAndJustify(n) \/ ReceiveJustifications(n)
  \/ VerifyAndCommit(n) \/ ReceiveCommitments(n)
  \/ FinalizeCommitments(n)

-----------------------------------------------------------------------------
(***************************************************************************)
(* What an action does, once the messages it chooses have a name.          *)
(***************************************************************************)

ContributionsHeard(n, F, D) ==
  /\ Ends(n, "contribution", F)
  /\ got' = [got EXCEPT ![n] = @ \cup F]
  /\ twice' = [twice EXCEPT ![n] = @ \cup D]
  /\ bad' = [bad EXCEPT ![n] = @ \cup D]

\* The first contributions of members heard are F; those of D sent a second one.
LEMMA HearContributions ==
  ASSUME NEW n, ReceiveContributions(n)
  PROVE  \E F \in FirstOfEach(n, "contribution") :
           \E D \in SUBSET Repeating(F, "contribution") : ContributionsHeard(n, F, D)
  BY DEF ReceiveContributions, ContributionsHeard

Worse(n, E) == bad[n] \cup Senders(E)
Fitting(n, E) == RightFor(n) \ Worse(n, E)
Judged(n, E) == Worse(n, E) \cup (Members \ Contributors(n))
Complaint(n, E, B) ==
  [kind |-> "complaint", from |-> n, bad |-> Judged(n, E) \cup (B \ {n}),
   complain |-> Members \ (Judged(n, E) \cup Fitting(n, E) \cup (B \ {n}))]

Complained(n, E, B) ==
  /\ Before(n, E, Senders(E))
  /\ share' = [share EXCEPT ![n] = Fitting(n, E)]
  /\ bad' = [bad EXCEPT ![n] = Judged(n, E)]
  /\ sent' = IF Complaint(n, E, B).bad = {} /\ Complaint(n, E, B).complain = {} THEN sent
             ELSE sent \cup {Complaint(n, E, B)}

\* E are the messages repeated before the phase, B the connections objected to.
LEMMA Complain ==
  ASSUME NEW n, VerifyAndComplain(n)
  PROVE  \E E \in Repeated(n, "complaint"), B \in BadConnections : Complained(n, E, B)
  BY DEF VerifyAndComplain, Complained, Complaint, Judged, Fitting, Worse

ComplaintsHeard(n, F, D) ==
  /\ Ends(n, "complaint", Of(got[n], "complaint") \cup F)
  /\ got' = [got EXCEPT ![n] = @ \cup F]
  /\ twice' = [twice EXCEPT ![n] = @ \cup D]
  /\ bad' = [bad EXCEPT ![n] = @ \cup D]
  /\ open' = [open EXCEPT ![n] =
       UNION {c.complain \X {c.from} : c \in Of(got[n], "complaint") \cup F}]

\* F are the complaints heard, D the members that repeat theirs.
LEMMA HearComplaints ==
  ASSUME NEW n, ReceiveComplaints(n)
  PROVE  \E F \in FirstOfEach(n, "complaint") :
           \E D \in SUBSET Repeating(F, "complaint") : ComplaintsHeard(n, F, D)
  BY DEF ReceiveComplaints, ComplaintsHeard

OverVoted(n, E) == Worse(n, E) \cup {m \in Members : Cardinality(Voters(n, m)) >= BadVotes}
JustifyFor(n, E) == {k \in Members \ OverVoted(n, E) : <<n, k>> \in open[n]}
Justification(n, E) ==
  [kind |-> "justification", from |-> n, vvec |-> Own[n],
   for |-> JustifyFor(n, E), good |-> JustifyFor(n, E)]

Justified(n, E, D) ==
  /\ \A j \in E : j.from \in D \/ MakesBad(n, j)
  /\ Before(n, E, D)
  /\ bad' = [bad EXCEPT ![n] = OverVoted(n, E)]
  /\ sent' = IF JustifyFor(n, E) = {} THEN sent ELSE sent \cup {Justification(n, E)}

\* E are the justifications that came before the phase, D the members that repeat theirs.
LEMMA Justify ==
  ASSUME NEW n, VerifyAndJustify(n)
  PROVE  \E E \in FirstOfEach(n, "justification") :
           \E D \in SUBSET Repeating(E, "justification") : Justified(n, E, D)
  BY DEF VerifyAndJustify, Justified, Justification, JustifyFor, OverVoted, Worse

Heard(n, F) == {j \in F : j.from \notin bad[n]}
Asked(n, F) == {j \in Heard(n, F) : \A k \in j.for : <<j.from, k>> \in open[n]}
Wrong(n, F) == {j \in Asked(n, F) : Proven(n, j) # j.for}

JustificationsHeard(n, F, D) ==
  /\ Ends(n, "justification", Of(got[n], "justification") \cup F)
  /\ got' = [got EXCEPT ![n] = @ \cup F]
  /\ twice' = [twice EXCEPT ![n] = @ \cup D]
  /\ bad' = [bad EXCEPT ![n] = @ \cup D \cup Senders((Heard(n, F) \ Asked(n, F)) \cup Wrong(n, F))]
  /\ open' = [open EXCEPT ![n] = @ \ UNION {{j.from} \X Proven(n, j) : j \in Asked(n, F)}]
  /\ share' = [share EXCEPT ![n] = @ \cup Senders({j \in Asked(n, F) : n \in Proven(n, j)})]

\* F are the justifications heard, D the members that repeat theirs.
LEMMA HearJustifications ==
  ASSUME NEW n, ReceiveJustifications(n)
  PROVE  \E F \in FirstOfEach(n, "justification") :
           \E D \in SUBSET Repeating(F, "justification") : JustificationsHeard(n, F, D)
  BY DEF ReceiveJustifications, JustificationsHeard, Wrong, Asked, Heard

Commitment(n) ==
  [kind |-> "commitment", from |-> n,
   key |-> [m \in Members \ (bad[n] \cup Unjustified(n)) |-> Vvec(n, m)], ok |-> TRUE]

\* E are the messages repeated before the phase.
LEMMA Commit ==
  ASSUME NEW n, VerifyAndCommit(n)
  PROVE  /\ bad' = [bad EXCEPT ![n] = bad[n] \cup Unjustified(n)]
         /\ UNCHANGED <<got, twice, share, open, valid, final>>
         /\ \/ sent' = sent /\ died' = died
            \/ /\ sent' = sent \cup {Commitment(n)} /\ died' = died
               /\ Members \ (bad[n] \cup Unjustified(n)) \subseteq share[n]
            \/ /\ sent' = sent /\ died' = died \cup {n}
               /\ ~(Members \ (bad[n] \cup Unjustified(n)) \subseteq share[n])
  BY DEF VerifyAndCommit, Commitment

CommitmentsHeard(n, F) ==
  /\ Ends(n, "commitment", F)
  /\ got' = [got EXCEPT ![n] = @ \cup F]
  /\ valid' = [valid EXCEPT ![n] = {c \in F : Accepts(n, c)}]

\* F are the commitments heard.
LEMMA HearCommitments ==
  ASSUME NEW n, ReceiveCommitments(n)
  PROVE  \E F \in SUBSET Available("commitment") : CommitmentsHeard(n, F)
  BY DEF ReceiveCommitments, CommitmentsHeard

-----------------------------------------------------------------------------
(***************************************************************************)
(* Types.                                                                  *)
(***************************************************************************)

\* The fields of a message are of its kind.
LEMMA MessageType ==
  ASSUME NEW m \in Messages
  PROVE  /\ m.from \in Members
         /\ m.kind = "contribution" => m.vvec \in Vvecs /\ m.good \subseteq Members
         /\ m.kind = "complaint" => m.bad \subseteq Members /\ m.complain \subseteq Members
         /\ m.kind = "justification" =>
              m.vvec \in Vvecs /\ m.for \subseteq Members /\ m.good \subseteq Members
         /\ m.kind = "commitment" => m.key \in Keys /\ m.ok \in BOOLEAN
  BY DEF Messages, Contributions, Complaints, Justifications, Commitments

\* Messages come from members.
LEMMA SendersType ==
  ASSUME NEW S, S \subseteq Messages
  PROVE  Senders(S) \subseteq Members
  BY MessageType DEF Senders

\* What a node can hear has been sent.
LEMMA AvailableType ==
  ASSUME TypeOK, NEW kind
  PROVE  /\ Available(kind) \subseteq Messages
         /\ \A m \in Available(kind) : m.kind = kind /\ (m \in sent \/ m \in Lies)
  BY LiesAssumption DEF TypeOK, Available, Of

\* What a node hears first of each member has been sent.
LEMMA FirstType ==
  ASSUME TypeOK, NEW n \in Honest, NEW kind, NEW F \in FirstOfEach(n, kind)
  PROVE  /\ F \subseteq Available(kind) /\ F \subseteq Messages
         /\ \A m \in F : m.kind = kind
         /\ Senders(F) \subseteq Members
         /\ \A D \in SUBSET Repeating(F, kind) : D \subseteq Members
  <1>1. F \subseteq Available(kind)
    BY DEF FirstOfEach
  <1>2. Senders(F) \subseteq Members
    BY <1>1, AvailableType, SendersType
  <1>. QED  BY <1>1, <1>2, AvailableType DEF Repeating

\* sent messages are counted when they are missed
Finite == IsFiniteSet(sent)

\* The end of a phase keeps the types of the phases.
LEMMA EndsType ==
  ASSUME TypeOK, Finite, NEW n \in Honest, NEW p \in CONTRIBUTE .. COMMIT, NEW kind, NEW processed,
         Receives(n, p), Ends(n, kind, processed)
  PROVE  /\ phase' \in [Honest -> Phases] /\ started' \in [Honest -> BOOLEAN]
         /\ missed' \in Nat /\ aborted' = aborted /\ died' = died
  <1> DEFINE late == {m \in Of(sent, kind) : m.from \notin Senders(processed)}
  <1>1. IsFiniteSet(late)
    BY FS_Subset DEF Finite, Of
  <1>2. Cardinality(late) \in Nat
    BY <1>1, FS_CardinalityType
  <1>3. missed' = missed + Cardinality(late)
    BY DEF Ends
  <1> HIDE DEF late
  <1>4. missed' \in Nat
    BY <1>2, <1>3 DEF TypeOK
  <1>5. phase[n] = p
    BY DEF Receives
  <1>. QED  BY <1>4, <1>5 DEF TypeOK, Ends, Phases, CONTRIBUTE, COMMIT, FINALIZE

\* So does the start of one.
LEMMA StartsType ==
  ASSUME TypeOK, NEW n \in Honest, NEW p, Starts(n, p)
  PROVE  /\ phase' \in [Honest -> Phases] /\ started' \in [Honest -> BOOLEAN]
         /\ missed' \in Nat /\ aborted' = aborted
  BY DEF TypeOK, Starts

\* TypeOK, action by action.
LEMMA SendContributionsType ==
  ASSUME TypeOK, Finite, NEW n \in Honest, SendContributions(n)
  PROVE  TypeOK' /\ Finite'
  <1> DEFINE c == [kind |-> "contribution", from |-> n, vvec |-> Own[n], good |-> Members]
  <1>1. c \in Messages
    BY MembersAssumption DEF Messages, Contributions, Members
  <1>2. sent' = sent \cup {c}
    BY DEF SendContributions
  <1> HIDE DEF c
  <1>3. sent' \subseteq Messages /\ Finite'
    BY <1>1, <1>2, FS_AddElement DEF TypeOK, Finite
  <1>. QED  BY <1>3, StartsType DEF SendContributions, TypeOK, view

LEMMA ReceiveContributionsType ==
  ASSUME TypeOK, Finite, NEW n \in Honest, ReceiveContributions(n)
  PROVE  TypeOK' /\ Finite'
  <1>1. PICK F \in FirstOfEach(n, "contribution") :
          \E D \in SUBSET Repeating(F, "contribution") : ContributionsHeard(n, F, D)
    BY HearContributions
  <1>2. PICK D \in SUBSET Repeating(F, "contribution") : ContributionsHeard(n, F, D)
    BY <1>1
  <1>3. F \subseteq Messages /\ D \subseteq Members
    BY FirstType
  <1>4. Receives(n, CONTRIBUTE) /\ CONTRIBUTE \in CONTRIBUTE .. COMMIT
    BY DEF ReceiveContributions, CONTRIBUTE, COMMIT
  <1>5. /\ got' \in [Honest -> SUBSET Messages] /\ twice' \in [Honest -> SUBSET Members]
        /\ bad' \in [Honest -> SUBSET Members]
    BY <1>2, <1>3 DEF TypeOK, ContributionsHeard
  <1>. QED  BY <1>2, <1>4, <1>5, EndsType DEF ReceiveContributions, ContributionsHeard, TypeOK, Finite

LEMMA VerifyAndComplainType ==
  ASSUME TypeOK, Finite, NEW n \in Honest, VerifyAndComplain(n)
  PROVE  TypeOK' /\ Finite'
  <1>1. PICK E \in Repeated(n, "complaint"), B \in BadConnections : Complained(n, E, B)
    BY Complain
  <1>2. E \in FirstOfEach(n, "complaint") /\ B \subseteq Members
    BY MembersAssumption DEF Repeated
  <1>3. E \subseteq Messages /\ Senders(E) \subseteq Members
    BY <1>2, FirstType
  <1>4. Contributors(n) \subseteq Members /\ RightFor(n) \subseteq Members
    BY SendersType DEF TypeOK, Contributors, RightFor, Of
  <1>5. Fitting(n, E) \subseteq Members /\ Judged(n, E) \subseteq Members
    BY <1>3, <1>4 DEF TypeOK, Fitting, Judged, Worse
  <1>6. Complaint(n, E, B) \in Messages
    BY <1>2, <1>5 DEF Messages, Complaints, Members, Complaint
  <1>7. sent' \subseteq Messages /\ Finite'
    BY <1>1, <1>6, FS_AddElement DEF TypeOK, Finite, Complained
  <1>8. share' \in [Honest -> SUBSET Members] /\ bad' \in [Honest -> SUBSET Members]
    BY <1>1, <1>5 DEF TypeOK, Complained
  <1>9. got' \in [Honest -> SUBSET Messages] /\ twice' \in [Honest -> SUBSET Members]
    BY <1>1, <1>3 DEF TypeOK, Before, Complained
  <1>. QED  BY <1>7, <1>8, <1>9, StartsType DEF VerifyAndComplain, TypeOK

LEMMA ReceiveComplaintsType ==
  ASSUME TypeOK, Finite, NEW n \in Honest, ReceiveComplaints(n)
  PROVE  TypeOK' /\ Finite'
  <1>1. PICK F \in FirstOfEach(n, "complaint") :
          \E D \in SUBSET Repeating(F, "complaint") : ComplaintsHeard(n, F, D)
    BY HearComplaints
  <1>2. PICK D \in SUBSET Repeating(F, "complaint") : ComplaintsHeard(n, F, D)
    BY <1>1
  <1>3. F \subseteq Messages /\ D \subseteq Members /\ \A c \in F : c.kind = "complaint"
    BY FirstType
  <1>4. Receives(n, COMPLAIN) /\ COMPLAIN \in CONTRIBUTE .. COMMIT
    BY DEF ReceiveComplaints, COMPLAIN, CONTRIBUTE, COMMIT
  <1>5. /\ got' \in [Honest -> SUBSET Messages] /\ twice' \in [Honest -> SUBSET Members]
        /\ bad' \in [Honest -> SUBSET Members]
    BY <1>2, <1>3 DEF TypeOK, ComplaintsHeard
  <1>6. \A c \in Of(got[n], "complaint") \cup F : c.complain \X {c.from} \subseteq Members \X Members
    BY <1>3, MessageType DEF TypeOK, Of
  <1>7. open' \in [Honest -> SUBSET (Members \X Members)]
    BY <1>2, <1>6 DEF TypeOK, ComplaintsHeard
  <1>. QED  BY <1>2, <1>4, <1>5, <1>7, EndsType DEF ReceiveComplaints, ComplaintsHeard, TypeOK, Finite

LEMMA VerifyAndJustifyType ==
  ASSUME TypeOK, Finite, NEW n \in Honest, VerifyAndJustify(n)
  PROVE  TypeOK' /\ Finite'
  <1>2. PICK E \in FirstOfEach(n, "justification") :
          \E D \in SUBSET Repeating(E, "justification") : Justified(n, E, D)
    BY Justify
  <1>1. PICK D \in SUBSET Repeating(E, "justification") : Justified(n, E, D)
    BY <1>2
  <1>3. E \subseteq Messages /\ Senders(E) \subseteq Members /\ D \subseteq Members
    BY FirstType
  <1>4. OverVoted(n, E) \subseteq Members
    BY <1>3 DEF TypeOK, OverVoted, Worse
  <1>5. Justification(n, E) \in Messages
    BY MembersAssumption DEF Messages, Justifications, Members, Justification, JustifyFor
  <1>6. sent' \subseteq Messages /\ Finite'
    BY <1>1, <1>5, FS_AddElement DEF TypeOK, Finite, Justified
  <1>7. /\ got' \in [Honest -> SUBSET Messages] /\ twice' \in [Honest -> SUBSET Members]
        /\ bad' \in [Honest -> SUBSET Members]
    BY <1>1, <1>3, <1>4 DEF TypeOK, Before, Justified
  <1>. QED  BY <1>6, <1>7, StartsType DEF VerifyAndJustify, TypeOK

LEMMA ReceiveJustificationsType ==
  ASSUME TypeOK, Finite, NEW n \in Honest, ReceiveJustifications(n)
  PROVE  TypeOK' /\ Finite'
  <1>1. PICK F \in FirstOfEach(n, "justification") :
          \E D \in SUBSET Repeating(F, "justification") : JustificationsHeard(n, F, D)
    BY HearJustifications
  <1>2. PICK D \in SUBSET Repeating(F, "justification") : JustificationsHeard(n, F, D)
    BY <1>1
  <1>3. F \subseteq Messages /\ D \subseteq Members
    BY FirstType
  <1>4. Receives(n, JUSTIFY) /\ JUSTIFY \in CONTRIBUTE .. COMMIT
    BY DEF ReceiveJustifications, JUSTIFY, CONTRIBUTE, COMMIT
  <1>5. /\ Senders((Heard(n, F) \ Asked(n, F)) \cup Wrong(n, F)) \subseteq Members
        /\ Senders({j \in Asked(n, F) : n \in Proven(n, j)}) \subseteq Members
    BY <1>3, SendersType DEF Heard, Asked, Wrong
  <1>6. /\ got' \in [Honest -> SUBSET Messages] /\ twice' \in [Honest -> SUBSET Members]
    BY <1>2, <1>3 DEF TypeOK, JustificationsHeard
  <1>7. bad' \in [Honest -> SUBSET Members]
    BY <1>2, <1>3, <1>5 DEF TypeOK, JustificationsHeard
  <1>8. /\ open' \in [Honest -> SUBSET (Members \X Members)]
        /\ share' \in [Honest -> SUBSET Members]
    BY <1>2, <1>5 DEF TypeOK, JustificationsHeard
  <1>. QED  BY <1>2, <1>4, <1>6, <1>7, <1>8, EndsType
            DEF ReceiveJustifications, JustificationsHeard, TypeOK, Finite

Started(n, p) == phase[n] > p \/ (phase[n] = p /\ started[n])

\* a member without a contribution is bad, so that a key is made of what there is
BadWithout == \A n \in Honest : Started(n, COMPLAIN) => Members \ Contributors(n) \subseteq bad[n]

\* The contribution a node has of a member is one that member can make.
LEMMA VvecType ==
  ASSUME TypeOK, NEW n \in Honest, NEW m \in Contributors(n)
  PROVE  Vvec(n, m) \in Vvecs
  <1>1. \E c \in Of(got[n], "contribution") : c.from = m
    BY DEF Contributors, Senders
  <1>2. \A c \in Of(got[n], "contribution") : c.vvec \in Vvecs
    BY MessageType DEF TypeOK, Of
  <1>. QED  BY <1>1, <1>2 DEF Vvec

\* The commitment a node makes is a message.
LEMMA CommitmentType ==
  ASSUME TypeOK, BadWithout, NEW n \in Honest, VerifyAndCommit(n)
  PROVE  Commitment(n) \in Messages
  <1> DEFINE V == Members \ (bad[n] \cup Unjustified(n))
  <1>1. Started(n, COMPLAIN)
    BY DEF VerifyAndCommit, Starts, Started, COMMIT, COMPLAIN
  <1>2. V \subseteq Contributors(n)
    BY <1>1 DEF BadWithout
  <1>3. [m \in V |-> Vvec(n, m)] \in [V -> Vvecs] /\ V \in SUBSET Members
    BY <1>2, VvecType
  <1>4. [m \in V |-> Vvec(n, m)] \in Keys
    BY <1>3 DEF Keys
  <1>. QED  BY <1>4 DEF Commitment, Messages, Commitments, Members

LEMMA VerifyAndCommitType ==
  ASSUME TypeOK, Finite, BadWithout, NEW n \in Honest, VerifyAndCommit(n)
  PROVE  TypeOK' /\ Finite'
  <1>1. sent' \subseteq Messages /\ Finite'
    BY Commit, CommitmentType, FS_AddElement DEF TypeOK, Finite
  <1>2. bad' \in [Honest -> SUBSET Members] /\ died' \subseteq Honest
    BY Commit DEF TypeOK, Unjustified
  <1>. QED  BY <1>1, <1>2, Commit, StartsType DEF VerifyAndCommit, TypeOK

LEMMA ReceiveCommitmentsType ==
  ASSUME TypeOK, Finite, NEW n \in Honest, ReceiveCommitments(n)
  PROVE  TypeOK' /\ Finite'
  <1>1. PICK F \in SUBSET Available("commitment") : CommitmentsHeard(n, F)
    BY HearCommitments
  <1>2. F \subseteq Messages /\ F \subseteq Commitments
    BY AvailableType DEF Messages, Contributions, Complaints, Justifications
  <1>3. Receives(n, COMMIT) /\ COMMIT \in CONTRIBUTE .. COMMIT
    BY DEF ReceiveCommitments, CONTRIBUTE, COMMIT
  <1>4. got' \in [Honest -> SUBSET Messages] /\ valid' \in [Honest -> SUBSET Commitments]
    BY <1>1, <1>2 DEF TypeOK, CommitmentsHeard
  <1>. QED  BY <1>1, <1>3, <1>4, EndsType DEF ReceiveCommitments, CommitmentsHeard, TypeOK, Finite

LEMMA FinalizeCommitmentsType ==
  ASSUME TypeOK, Finite, NEW n \in Honest, FinalizeCommitments(n)
  PROVE  TypeOK' /\ Finite'
  <1>1. PICK K \in SUBSET {c.key : c \in valid[n]} :
          final' = final \cup
            {[by |-> n, key |-> k, signers |-> Senders({c \in valid[n] : c.key = k})] :
               k \in {j \in K : IsFinal(n, j)}}
    BY DEF FinalizeCommitments
  <1>2. \A c \in valid[n] : c \in Messages /\ c.key \in Keys
    BY DEF TypeOK, Messages, Commitments
  <1>3. \A k \in K : k \in Keys /\ Senders({c \in valid[n] : c.key = k}) \subseteq Members
    BY <1>2, SendersType
  <1>4. \A k \in K : [by |-> n, key |-> k, signers |-> Senders({c \in valid[n] : c.key = k})]
                       \in [by : Honest, key : Keys, signers : SUBSET Members]
    BY <1>3
  <1>5. final' \subseteq [by : Honest, key : Keys, signers : SUBSET Members]
    BY <1>1, <1>4 DEF TypeOK
  <1>. QED  BY <1>5, StartsType DEF FinalizeCommitments, TypeOK, Finite, view

-----------------------------------------------------------------------------
(***************************************************************************)
(* What a step of a node changes.                                          *)
(***************************************************************************)

\* A phase that was started remains so; a step moves the phase of its node only.
LEMMA PhasesGoOn ==
  ASSUME TypeOK, NEW n \in Honest, NEW k \in Honest,
         (\E p : Starts(n, p)) \/ (\E p, kind, processed : Receives(n, p) /\ Ends(n, kind, processed))
  PROVE  /\ \A p \in Phases : Started(k, p) => Started(k, p)'
         /\ k # n => phase'[k] = phase[k] /\ started'[k] = started[k]
  <1>1. CASE \E p : Starts(n, p)
    BY <1>1 DEF Starts, Started, TypeOK
  <1>2. CASE \E p, kind, processed : Receives(n, p) /\ Ends(n, kind, processed)
    <2>1. /\ phase' = [phase EXCEPT ![n] = phase[n] + 1]
          /\ started' = [started EXCEPT ![n] = FALSE]
      BY <1>2 DEF Ends
    <2>2. phase[n] \in Int /\ phase'[n] = phase[n] + 1
      BY <2>1 DEF TypeOK, Phases, CONTRIBUTE, FINALIZE
    <2>3. \A p \in Phases : Started(n, p) => Started(n, p)'
      BY <2>2 DEF Started, Phases, CONTRIBUTE, FINALIZE
    <2>4. k # n => phase'[k] = phase[k] /\ started'[k] = started[k]
      BY <2>1 DEF TypeOK
    <2>. QED  BY <2>3, <2>4 DEF Started
  <1>. QED  BY <1>1, <1>2

\* the others keep what they have, messages stay, phases go on
LEMMA Frame ==
  ASSUME TypeOK, NEW n \in Honest, Step(n), NEW k \in Honest
  PROVE  /\ sent \subseteq sent' /\ got[k] \subseteq got'[k] /\ bad[k] \subseteq bad'[k]
         /\ \A p \in Phases : Started(k, p) => Started(k, p)'
         /\ k # n => /\ phase'[k] = phase[k] /\ started'[k] = started[k]
                     /\ got'[k] = got[k] /\ twice'[k] = twice[k] /\ bad'[k] = bad[k]
                     /\ share'[k] = share[k] /\ open'[k] = open[k] /\ valid'[k] = valid[k]
  <1>1. CASE Abort(n)
    BY <1>1 DEF Abort, view, TypeOK, Started
  <1>2. CASE SendContributions(n)
    BY <1>2, PhasesGoOn DEF SendContributions, view
  <1>3. CASE ReceiveContributions(n)
    <2>1. PICK F, D : ContributionsHeard(n, F, D)
      BY <1>3, HearContributions
    <2>. QED  BY <1>3, <2>1, PhasesGoOn DEF ReceiveContributions, ContributionsHeard, TypeOK
  <1>4. CASE VerifyAndComplain(n)
    <2>1. PICK E, B : Complained(n, E, B)
      BY <1>4, Complain
    <2>2. bad[n] \subseteq Judged(n, E)
      BY DEF Judged, Worse
    <2>. QED  BY <1>4, <2>1, <2>2, PhasesGoOn DEF VerifyAndComplain, Complained, Before, TypeOK
  <1>5. CASE ReceiveComplaints(n)
    <2>1. PICK F, D : ComplaintsHeard(n, F, D)
      BY <1>5, HearComplaints
    <2>. QED  BY <1>5, <2>1, PhasesGoOn DEF ReceiveComplaints, ComplaintsHeard, TypeOK
  <1>6. CASE VerifyAndJustify(n)
    <2>1. PICK E, D : Justified(n, E, D)
      BY <1>6, Justify
    <2>2. bad[n] \subseteq OverVoted(n, E)
      BY DEF OverVoted, Worse
    <2>. QED  BY <1>6, <2>1, <2>2, PhasesGoOn DEF VerifyAndJustify, Justified, Before, TypeOK
  <1>7. CASE ReceiveJustifications(n)
    <2>1. PICK F, D : JustificationsHeard(n, F, D)
      BY <1>7, HearJustifications
    <2>. QED  BY <1>7, <2>1, PhasesGoOn DEF ReceiveJustifications, JustificationsHeard, TypeOK
  <1>8. CASE VerifyAndCommit(n)
    BY <1>8, Commit, PhasesGoOn DEF VerifyAndCommit, TypeOK
  <1>9. CASE ReceiveCommitments(n)
    <2>1. PICK F : CommitmentsHeard(n, F)
      BY <1>9, HearCommitments
    <2>. QED  BY <1>9, <2>1, PhasesGoOn DEF ReceiveCommitments, CommitmentsHeard, TypeOK
  <1>10. CASE FinalizeCommitments(n)
    BY <1>10, PhasesGoOn DEF FinalizeCommitments, view
  <1>. QED  BY <1>1, <1>2, <1>3, <1>4, <1>5, <1>6, <1>7, <1>8, <1>9, <1>10 DEF Step

\* messages are processed in their phase only, and one of each member but for commitments
LEMMA Processed ==
  ASSUME TypeOK, NEW n \in Honest, Step(n), NEW m \in got'[n], m \notin got[n]
  PROVE  /\ m \in Available(m.kind)
         /\ \/ m.kind = "contribution" /\ phase[n] = CONTRIBUTE
            \/ m.kind = "complaint" /\ phase[n] = COMPLAIN
            \/ m.kind = "justification" /\ phase[n] = JUSTIFY
            \/ m.kind = "commitment" /\ phase[n] = COMMIT
         /\ m.kind # "commitment" => \A a \in got'[n] : a.kind = m.kind /\ a.from = m.from => a = m
  <1> DEFINE Goal == 
         /\ m \in Available(m.kind)
         /\ \/ m.kind = "contribution" /\ phase[n] = CONTRIBUTE
            \/ m.kind = "complaint" /\ phase[n] = COMPLAIN
            \/ m.kind = "justification" /\ phase[n] = JUSTIFY
            \/ m.kind = "commitment" /\ phase[n] = COMMIT
         /\ m.kind # "commitment" => \A a \in got'[n] : a.kind = m.kind /\ a.from = m.from => a = m
  <1>0. ASSUME NEW kind, NEW F \in FirstOfEach(n, kind), got' = [got EXCEPT ![n] = @ \cup F],
               \/ kind = "contribution" /\ phase[n] = CONTRIBUTE
               \/ kind = "complaint" /\ phase[n] = COMPLAIN
               \/ kind = "justification" /\ phase[n] = JUSTIFY
        PROVE  Goal
    <2>1. m \in F /\ m.kind = kind /\ m \in Available(kind)
      BY <1>0, FirstType DEF TypeOK
    <2>2. ASSUME NEW a \in got'[n], a.kind = m.kind, a.from = m.from
          PROVE  a = m
      <3>1. m.from \notin Senders(Of(got[n], kind))
        BY <2>1 DEF FirstOfEach
      <3>2. a \in F
        BY <1>0, <2>1, <2>2, <3>1 DEF Senders, Of, TypeOK
      <3>. QED  BY <2>1, <2>2, <3>2 DEF FirstOfEach
    <2>. QED  BY <1>0, <2>1, <2>2
  <1>1. CASE \/ Abort(n) \/ SendContributions(n) \/ VerifyAndCommit(n) \/ FinalizeCommitments(n)
    BY <1>1 DEF Abort, SendContributions, VerifyAndCommit, FinalizeCommitments, view
  <1>2. CASE ReceiveContributions(n)
    BY <1>0, <1>2 DEF ReceiveContributions, Receives
  <1>3. CASE VerifyAndComplain(n)
    BY <1>0, <1>3 DEF VerifyAndComplain, Starts, Before, Repeated
  <1>4. CASE ReceiveComplaints(n)
    BY <1>0, <1>4 DEF ReceiveComplaints, Receives
  <1>5. CASE VerifyAndJustify(n)
    BY <1>0, <1>5 DEF VerifyAndJustify, Starts, Before, Repeated
  <1>6. CASE ReceiveJustifications(n)
    BY <1>0, <1>6 DEF ReceiveJustifications, Receives
  <1>7. CASE ReceiveCommitments(n)
    BY <1>7, AvailableType DEF ReceiveCommitments, Receives, TypeOK
  <1>. QED  BY <1>1, <1>2, <1>3, <1>4, <1>5, <1>6, <1>7 DEF Step

\* once their phase is over, the messages of a kind stay what they are
LEMMA KindStays ==
  ASSUME TypeOK, NEW n \in Honest, Step(n), NEW k \in Honest
  PROVE  /\ phase[k] > CONTRIBUTE => Of(got[k], "contribution")' = Of(got[k], "contribution")
         /\ phase[k] > COMPLAIN => Of(got[k], "complaint")' = Of(got[k], "complaint")
  <1>1. CASE k # n
    BY <1>1, Frame DEF Of
  <1>2. CASE k = n
    BY <1>2, Frame, Processed DEF Of, CONTRIBUTE, COMPLAIN, JUSTIFY, COMMIT
  <1>. QED  BY <1>1, <1>2

\* Contributions heard are kept.
LEMMA ContributionsStay ==
  ASSUME TypeOK, NEW n \in Honest, Step(n), NEW k \in Honest, phase[k] > CONTRIBUTE
  PROVE  /\ Of(got[k], "contribution")' = Of(got[k], "contribution")
         /\ Contributors(k)' = Contributors(k)
         /\ \A m : Vvec(k, m)' = Vvec(k, m)
  BY KindStays DEF Contributors, Vvec, Senders

\* Who first starts a phase takes the action of its start.
LEMMA StartedBy ==
  ASSUME TypeOK, NEW n \in Honest, Step(n), NEW k \in Honest, NEW p \in Phases,
         ~Started(k, p), Started(k, p)'
  PROVE  /\ k = n /\ Starts(n, p)
         /\ p = CONTRIBUTE => SendContributions(n)
         /\ p = COMPLAIN => VerifyAndComplain(n)
         /\ p = JUSTIFY => VerifyAndJustify(n)
         /\ p = COMMIT => VerifyAndCommit(n)
  <1>1. k = n
    BY Frame DEF Started
  <1>2. ~Abort(n)
    BY <1>1 DEF Abort, Started
  <1>3. ASSUME NEW q, Starts(n, q) PROVE q = p
    BY <1>1, <1>3 DEF Starts, Started, TypeOK, Phases, CONTRIBUTE, FINALIZE
  <1>4. ASSUME NEW q, NEW kind, NEW processed, Receives(n, q), Ends(n, kind, processed)
        PROVE  FALSE
    <2>1. phase'[n] = phase[n] + 1 /\ started'[n] = FALSE
      BY <1>4 DEF Ends, TypeOK
    <2>2. phase[n] \in Int /\ started[n]
      BY <1>4 DEF TypeOK, Receives, Phases, CONTRIBUTE, FINALIZE
    <2>. QED  BY <1>1, <2>1, <2>2 DEF Started, Phases, CONTRIBUTE, FINALIZE
  <1>5. ~ReceiveContributions(n) /\ ~ReceiveComplaints(n)
    BY <1>4 DEF ReceiveContributions, ReceiveComplaints
  <1>6. ~ReceiveJustifications(n) /\ ~ReceiveCommitments(n)
    BY <1>4 DEF ReceiveJustifications, ReceiveCommitments
  <1>7. \/ SendContributions(n) /\ Starts(n, CONTRIBUTE)
        \/ VerifyAndComplain(n) /\ Starts(n, COMPLAIN)
        \/ VerifyAndJustify(n) /\ Starts(n, JUSTIFY)
        \/ VerifyAndCommit(n) /\ Starts(n, COMMIT)
        \/ FinalizeCommitments(n) /\ Starts(n, FINALIZE)
    BY <1>2, <1>5, <1>6 DEF Step, SendContributions, VerifyAndComplain, VerifyAndJustify,
                            VerifyAndCommit, FinalizeCommitments
  <1>. QED  BY <1>1, <1>3, <1>7 DEF CONTRIBUTE, COMPLAIN, JUSTIFY, COMMIT, FINALIZE

\* BadWithout is preserved.
LEMMA BadWithoutStep ==
  ASSUME TypeOK, BadWithout, NEW n \in Honest, Step(n)
  PROVE  BadWithout'
  <1> SUFFICES ASSUME NEW k \in Honest, Started(k, COMPLAIN)'
               PROVE  (Members \ Contributors(k) \subseteq bad[k])'
    BY DEF BadWithout
  <1>0. COMPLAIN \in Phases
    BY DEF Phases, CONTRIBUTE, COMPLAIN, FINALIZE
  <1>1. CASE Started(k, COMPLAIN)
    <2>1. phase[k] > CONTRIBUTE
      BY <1>1 DEF Started, CONTRIBUTE, COMPLAIN, TypeOK, Phases
    <2>. QED  BY <1>1, <2>1, ContributionsStay, Frame DEF BadWithout, Members
  <1>2. CASE ~Started(k, COMPLAIN)
    <2>1. k = n /\ VerifyAndComplain(n) /\ Starts(n, COMPLAIN)
      BY <1>0, <1>2, StartedBy
    <2>2. PICK E, B : Complained(n, E, B)
      BY <2>1, Complain
    <2>3. bad'[n] = Judged(n, E)
      BY <2>2 DEF Complained, TypeOK
    <2>4. phase[n] > CONTRIBUTE
      BY <2>1 DEF Starts, CONTRIBUTE, COMPLAIN
    <2>. QED  BY <2>1, <2>3, <2>4, ContributionsStay DEF Judged, Members
  <1>. QED  BY <1>1, <1>2

TypeInv == TypeOK /\ Finite /\ BadWithout

\* TypeInv is inductive.
LEMMA InitType == Init => TypeInv
  <1> SUFFICES ASSUME Init PROVE TypeInv
    OBVIOUS
  <1>1. TypeOK
    BY DEF Init, TypeOK, Phases, CONTRIBUTE, FINALIZE
  <1>2. Finite
    BY FS_EmptySet DEF Init, Finite
  <1>3. BadWithout
    BY DEF Init, BadWithout, Started, CONTRIBUTE, COMPLAIN
  <1>. QED  BY <1>1, <1>2, <1>3 DEF TypeInv

\* A step of Next is one of an honest node.
LEMMA NextStep ==
  ASSUME Next
  PROVE  \E n \in Honest : Step(n)
  BY DEF Next, Step

\* TypeInv is preserved.
LEMMA StepType == TypeInv /\ [Next]_vars => TypeInv'
  <1> SUFFICES ASSUME TypeInv, [Next]_vars PROVE TypeInv'
    OBVIOUS
  <1> USE DEF TypeInv
  <1>1. CASE UNCHANGED vars
    BY <1>1 DEF vars, progress, view, TypeOK, Finite, BadWithout, Started, Contributors, Of, Senders
  <1>2. ASSUME NEW n \in Honest, Step(n) PROVE TypeInv'
    <2>1. CASE Abort(n)
      BY <1>2, <2>1, BadWithoutStep DEF Abort, view, TypeOK, Finite, Running
    <2>2. CASE FinalizeCommitments(n)
      BY <1>2, <2>2, BadWithoutStep, FinalizeCommitmentsType
    <2>. QED  BY <1>2, <2>1, <2>2, BadWithoutStep, SendContributionsType, ReceiveContributionsType,
                 VerifyAndComplainType, ReceiveComplaintsType, VerifyAndJustifyType,
                 ReceiveJustificationsType, VerifyAndCommitType, ReceiveCommitmentsType DEF Step
  <1>. QED  BY <1>1, <1>2, NextStep

\* Phases, messages, what a node knows of them and final commitments keep their types:
\* in particular the key a node commits to is made of contributions it has.
THEOREM TypeCorrect == Spec => []TypeOK
  <1>1. Spec => []TypeInv
    BY InitType, StepType, PTL DEF Spec
  <1>. QED  BY <1>1, PTL DEF TypeInv

-----------------------------------------------------------------------------
(***************************************************************************)
(* One key.                                                                *)
(***************************************************************************)

\* enough members are needed for a key that two sets of them share an honest one
EnoughCommit == 2 * MinSize > Cardinality(Members) + Cardinality(Faulty)

\* Sets of members are finite.
LEMMA MembersFinite == IsFiniteSet(Members) /\ \A S \in SUBSET Members : IsFiniteSet(S)
  <1>1. IsFiniteSet(Members)
    BY MembersAssumption, FS_Union DEF Members
  <1>. QED  BY <1>1, FS_Subset

\* A new message is of the node that takes the step, and of its phase.
LEMMA SentBy ==
  ASSUME NEW n \in Honest, Step(n), NEW m \in sent', m \notin sent
  PROVE  /\ m.from = n /\ \A x \in sent' : x \in sent \/ x = m
         /\ \/ m.kind = "contribution" /\ SendContributions(n)
            \/ m.kind = "complaint" /\ VerifyAndComplain(n)
            \/ m.kind = "justification" /\ VerifyAndJustify(n)
            \/ m = Commitment(n) /\ m.kind = "commitment" /\ VerifyAndCommit(n)
  <1>1. CASE SendContributions(n)
    BY <1>1 DEF SendContributions
  <1>2. CASE VerifyAndComplain(n)
    <2>1. PICK E, B : Complained(n, E, B)
      BY <1>2, Complain
    <2>2. sent' = sent \/ sent' = sent \cup {Complaint(n, E, B)}
      BY <2>1 DEF Complained
    <2>3. Complaint(n, E, B).from = n /\ Complaint(n, E, B).kind = "complaint"
      BY DEF Complaint
    <2>. QED  BY <1>2, <2>2, <2>3
  <1>3. CASE VerifyAndJustify(n)
    <2>1. PICK E, D : Justified(n, E, D)
      BY <1>3, Justify
    <2>. QED  BY <1>3, <2>1 DEF Justified, Justification
  <1>4. CASE VerifyAndCommit(n)
    <2>1. sent' = sent \/ sent' = sent \cup {Commitment(n)}
      BY <1>4, Commit
    <2>2. Commitment(n).from = n /\ Commitment(n).kind = "commitment"
      BY DEF Commitment
    <2>. QED  BY <1>4, <2>1, <2>2
  <1>. QED  BY <1>1, <1>2, <1>3, <1>4 DEF Step, Abort, ReceiveContributions, ReceiveComplaints,
               ReceiveJustifications, ReceiveCommitments, FinalizeCommitments

\* an honest member sends one message of a kind, in its phase
SentOnce ==
  \A m \in sent :
    /\ m.from \in Honest
    /\ m.kind = "contribution" => Started(m.from, CONTRIBUTE)
    /\ m.kind = "complaint" => Started(m.from, COMPLAIN)
    /\ m.kind = "justification" => Started(m.from, JUSTIFY)
    /\ m.kind = "commitment" => Started(m.from, COMMIT)
    /\ \A d \in sent : d.kind = m.kind /\ d.from = m.from => d = m

\* valid commitments were sent
ValidSent == \A n \in Honest : valid[n] \subseteq Available("commitment")

\* a final commitment has enough commitments behind it, and those of its signers
FinalBacked ==
  \A f \in final :
    /\ Cardinality(Committers(f.key)) >= MinSize
    /\ \A h \in f.signers : \E c \in Available("commitment") : c.from = h /\ c.key = f.key

KeyInv == SentOnce /\ ValidSent /\ FinalBacked

\* A phase starts once.
LEMMA StartsOnce ==
  ASSUME TypeOK, NEW n \in Honest, NEW p, Starts(n, p)
  PROVE  ~Started(n, p) /\ Started(n, p)'
  <1>1. phase[n] = p /\ ~started[n] /\ phase'[n] = phase[n] /\ started'[n]
    BY DEF Starts, TypeOK
  <1>2. phase[n] \in Int
    BY DEF TypeOK, Phases, CONTRIBUTE, FINALIZE
  <1>. QED  BY <1>1, <1>2 DEF Started

\* SentOnce is preserved: one message of a kind of each honest member.
LEMMA SentOnceStep ==
  ASSUME TypeOK, SentOnce, NEW n \in Honest, Step(n)
  PROVE  SentOnce'
  <1>1. {CONTRIBUTE, COMPLAIN, JUSTIFY, COMMIT} \subseteq Phases
    BY DEF Phases, CONTRIBUTE, COMPLAIN, JUSTIFY, COMMIT, FINALIZE
  <1> DEFINE Told(m) == /\ m.from \in Honest
                        /\ m.kind = "contribution" => Started(m.from, CONTRIBUTE)
                        /\ m.kind = "complaint" => Started(m.from, COMPLAIN)
                        /\ m.kind = "justification" => Started(m.from, JUSTIFY)
                        /\ m.kind = "commitment" => Started(m.from, COMMIT)
  <1>2. ASSUME NEW m \in sent PROVE Told(m)'
    BY <1>1, <1>2, Frame DEF SentOnce
  <1>3. ASSUME NEW m \in sent', m \notin sent
        PROVE  Told(m)' /\ \A d \in sent : ~(d.kind = m.kind /\ d.from = m.from)
    <2>1. m.from = n
      BY <1>3, SentBy
    <2>2. CASE m.kind = "contribution" /\ SendContributions(n)
      <3>1. ~Started(n, CONTRIBUTE) /\ Started(n, CONTRIBUTE)'
        BY <2>2, StartsOnce DEF SendContributions
      <3>. QED  BY <2>1, <2>2, <3>1 DEF SentOnce
    <2>3. CASE m.kind = "complaint" /\ VerifyAndComplain(n)
      <3>1. ~Started(n, COMPLAIN) /\ Started(n, COMPLAIN)'
        BY <2>3, StartsOnce DEF VerifyAndComplain
      <3>. QED  BY <2>1, <2>3, <3>1 DEF SentOnce
    <2>4. CASE m.kind = "justification" /\ VerifyAndJustify(n)
      <3>1. ~Started(n, JUSTIFY) /\ Started(n, JUSTIFY)'
        BY <2>4, StartsOnce DEF VerifyAndJustify
      <3>. QED  BY <2>1, <2>4, <3>1 DEF SentOnce
    <2>5. CASE m.kind = "commitment" /\ VerifyAndCommit(n)
      <3>1. ~Started(n, COMMIT) /\ Started(n, COMMIT)'
        BY <2>5, StartsOnce DEF VerifyAndCommit
      <3>. QED  BY <2>1, <2>5, <3>1 DEF SentOnce
    <2>. QED  BY <1>3, <2>2, <2>3, <2>4, <2>5, SentBy
  <1>4. ASSUME NEW m \in sent', NEW d \in sent', d.kind = m.kind, d.from = m.from
        PROVE  d = m
    BY <1>3, <1>4, SentBy DEF SentOnce
  <1>. QED  BY <1>2, <1>3, <1>4 DEF SentOnce

\* What could be heard can still be heard.
LEMMA AvailableGrows ==
  ASSUME TypeOK, NEW n \in Honest, Step(n)
  PROVE  \A kind : Available(kind) \subseteq Available(kind)'
  BY Frame DEF Available, Of

\* ValidSent is preserved.
LEMMA ValidSentStep ==
  ASSUME TypeOK, ValidSent, NEW n \in Honest, Step(n)
  PROVE  ValidSent'
  <1>1. CASE ReceiveCommitments(n)
    <2>1. PICK F \in SUBSET Available("commitment") : CommitmentsHeard(n, F)
      BY <1>1, HearCommitments
    <2>. QED  BY <2>1, AvailableGrows DEF ValidSent, CommitmentsHeard, TypeOK
  <1>2. CASE UNCHANGED valid
    BY <1>2, AvailableGrows DEF ValidSent
  <1>. QED  BY <1>1, <1>2 DEF Step, Abort, SendContributions, ReceiveContributions,
               VerifyAndComplain, ReceiveComplaints, VerifyAndJustify, ReceiveJustifications,
               VerifyAndCommit, FinalizeCommitments, view

\* Who commits to a key is a member.
LEMMA CommittersType ==
  ASSUME TypeOK, NEW k
  PROVE  Committers(k) \subseteq Members /\ IsFiniteSet(Committers(k))
  <1>1. {c \in Available("commitment") : c.key = k /\ c.ok} \subseteq Messages
    BY AvailableType
  <1>. QED  BY <1>1, SendersType, MembersFinite DEF Committers

\* Who has committed to a key has done so for good.
LEMMA CommittersGrow ==
  ASSUME TypeOK, TypeOK', NEW n \in Honest, Step(n), NEW k, Cardinality(Committers(k)) >= MinSize
  PROVE  Cardinality(Committers(k)') >= MinSize
  <1>1. Committers(k) \subseteq Committers(k)'
    BY AvailableGrows DEF Committers, Senders
  <1>2. IsFiniteSet(Committers(k)')
    <2>1. {c \in Available("commitment")' : c.key = k /\ c.ok} \subseteq Messages
      BY LiesAssumption DEF TypeOK, Available, Of
    <2>. QED  BY <2>1, SendersType, MembersFinite DEF Committers, Senders
  <1>3. /\ Cardinality(Committers(k)) <= Cardinality(Committers(k)')
        /\ Cardinality(Committers(k)) \in Nat /\ Cardinality(Committers(k)') \in Nat
    BY <1>1, <1>2, FS_Subset, FS_CardinalityType
  <1>. QED  BY <1>3, MembersAssumption

\* FinalBacked is preserved: a final commitment has commitments behind it.
LEMMA FinalBackedStep ==
  ASSUME TypeOK, TypeOK', ValidSent, FinalBacked, NEW n \in Honest, Step(n)
  PROVE  FinalBacked'
  <1>1. ASSUME NEW f, /\ Cardinality(Committers(f.key)) >= MinSize
                      /\ \A h \in f.signers : \E c \in Available("commitment") :
                           c.from = h /\ c.key = f.key
        PROVE  /\ Cardinality(Committers(f.key)') >= MinSize
               /\ \A h \in f.signers : \E c \in Available("commitment")' :
                    c.from = h /\ c.key = f.key
    BY <1>1, CommittersGrow, AvailableGrows
  <1>2. ASSUME FinalizeCommitments(n), NEW f \in final', f \notin final
        PROVE  /\ Cardinality(Committers(f.key)) >= MinSize
               /\ \A h \in f.signers : \E c \in Available("commitment") :
                    c.from = h /\ c.key = f.key
    <2>0. PICK K : f \in {[by |-> n, key |-> k, signers |-> Senders({c \in valid[n] : c.key = k})] :
                            k \in {j \in K : IsFinal(n, j)}}
      BY <1>2 DEF FinalizeCommitments
    <2>1. PICK k : /\ IsFinal(n, k)
                   /\ f = [by |-> n, key |-> k, signers |-> Senders({c \in valid[n] : c.key = k})]
      BY <2>0
    <2> DEFINE group == {c \in {c \in valid[n] : DOMAIN c.key = DOMAIN k} : c.key = k}
    <2>2. /\ Cardinality(Senders(group)) >= MinSize /\ \A c \in group : c.ok
      BY <2>1 DEF IsFinal
    <2>3. Senders(group) \subseteq Committers(k)
      BY <2>2 DEF ValidSent, Committers, Senders
    <2>4. /\ Cardinality(Senders(group)) <= Cardinality(Committers(k))
          /\ Cardinality(Senders(group)) \in Nat /\ Cardinality(Committers(k)) \in Nat
      BY <2>3, CommittersType, FS_Subset, FS_CardinalityType
    <2> HIDE DEF group
    <2>5. Cardinality(Committers(k)) >= MinSize
      BY <2>2, <2>4, MembersAssumption
    <2>. QED  BY <2>1, <2>5 DEF ValidSent, Senders
  <1>3. CASE FinalizeCommitments(n)
    BY <1>1, <1>2, <1>3 DEF FinalBacked
  <1>4. CASE UNCHANGED final
    BY <1>1, <1>4 DEF FinalBacked
  <1>. QED  BY <1>3, <1>4 DEF Step, Abort, SendContributions, ReceiveContributions,
               VerifyAndComplain, ReceiveComplaints, VerifyAndJustify, ReceiveJustifications,
               VerifyAndCommit, ReceiveCommitments

\* KeyInv is inductive.
LEMMA InitKey == Init => KeyInv
  BY DEF Init, KeyInv, SentOnce, ValidSent, FinalBacked, Of

\* KeyInv is preserved.
LEMMA StepKey == TypeInv /\ TypeInv' /\ KeyInv /\ [Next]_vars => KeyInv'
  <1> SUFFICES ASSUME TypeInv, TypeInv', KeyInv, [Next]_vars PROVE KeyInv'
    OBVIOUS
  <1> USE DEF TypeInv, KeyInv
  <1>1. CASE UNCHANGED vars
    BY <1>1 DEF vars, progress, view, SentOnce, ValidSent, FinalBacked, Started, Of, Available,
                Committers
  <1>2. ASSUME NEW n \in Honest, Step(n) PROVE KeyInv'
    BY <1>2, SentOnceStep, ValidSentStep, FinalBackedStep
  <1>. QED  BY <1>1, <1>2, NextStep

OneMade == \A j, k \in MadeKeys : j = k

\* An honest member is in two sets of committers if EnoughCommit, and commits to one key.
LEMMA KeysAgree == EnoughCommit /\ TypeOK /\ KeyInv => OneMade
  <1> SUFFICES ASSUME EnoughCommit, TypeOK, KeyInv, NEW j \in MadeKeys, NEW k \in MadeKeys
               PROVE  j = k
    BY DEF OneMade
  <1> DEFINE J == Committers(j)
             K == Committers(k)
  <1>1. Cardinality(J) >= MinSize /\ Cardinality(K) >= MinSize
    BY DEF MadeKeys
  <1>2. /\ J \subseteq Members /\ IsFiniteSet(J) /\ K \subseteq Members /\ IsFiniteSet(K)
    BY CommittersType
  <1> HIDE DEF J, K
  <1>3. /\ Cardinality(J \cup K) = Cardinality(J) + Cardinality(K) - Cardinality(J \cap K)
        /\ Cardinality(J \cup K) <= Cardinality(Members)
        /\ IsFiniteSet(J \cap K)
    BY <1>2, FS_Union, FS_Subset, FS_Intersection, MembersFinite
  <1>4. ~(J \cap K \subseteq Faulty)
    <2>1. SUFFICES ASSUME J \cap K \subseteq Faulty PROVE FALSE
      OBVIOUS
    <2>2. Cardinality(J \cap K) <= Cardinality(Faulty)
      BY <2>1, MembersAssumption, FS_Subset
    <2>3. /\ Cardinality(J) \in Nat /\ Cardinality(K) \in Nat /\ Cardinality(J \cap K) \in Nat
          /\ Cardinality(J \cup K) \in Nat
          /\ Cardinality(Members) \in Nat /\ Cardinality(Faulty) \in Nat /\ MinSize \in Nat
      BY <1>2, <1>3, FS_CardinalityType, FS_Subset, FS_Union, MembersFinite, MembersAssumption
    <2>. QED  BY <1>1, <1>3, <2>2, <2>3 DEF EnoughCommit
  <1>5. PICK h \in J \cap K : h \in Honest /\ h \notin Faulty
    BY <1>2, <1>4, MembersAssumption DEF Members
  <1>6. PICK c \in Available("commitment") : c.from = h /\ c.key = j
    BY DEF J, Committers, Senders
  <1>7. PICK d \in Available("commitment") : d.from = h /\ d.key = k
    BY DEF K, Committers, Senders
  <1>8. c \in Of(sent, "commitment") /\ d \in Of(sent, "commitment")
    BY <1>5, <1>6, <1>7, LiesAssumption DEF Available, Of
  <1>. QED  BY <1>6, <1>7, <1>8 DEF KeyInv, SentOnce, Of

\* Nodes that stopped do not come back, and final commitments stay.
LEMMA DeadStay ==
  ASSUME NEW n \in Honest, Step(n)
  PROVE  died \subseteq died' /\ final \subseteq final'
  <1>1. died \subseteq died'
    BY Commit DEF Step, Abort, SendContributions, ReceiveContributions, VerifyAndComplain,
       ReceiveComplaints, VerifyAndJustify, ReceiveJustifications, ReceiveCommitments,
       FinalizeCommitments, Ends
  <1>2. final \subseteq final'
    BY DEF Step, Abort, SendContributions, ReceiveContributions, VerifyAndComplain, ReceiveComplaints,
       VerifyAndJustify, ReceiveJustifications, VerifyAndCommit, ReceiveCommitments,
       FinalizeCommitments
  <1>. QED  BY <1>1, <1>2

\* who took a key has finalized
TakenLast == \A f \in final : Started(f.by, FINALIZE)

\* Only the last start function makes final commitments, of its node.
LEMMA FinalMadeBy ==
  ASSUME NEW n \in Honest, Step(n)
  PROVE  \/ final' = final
         \/ /\ FinalizeCommitments(n) /\ Starts(n, FINALIZE) /\ sent' = sent
            /\ \A f \in final' : f \in final \/ f.by = n
  <1>1. CASE FinalizeCommitments(n)
    <2>1. Starts(n, FINALIZE) /\ sent' = sent
      BY <1>1 DEF FinalizeCommitments
    <2>2. ASSUME NEW f \in final', f \notin final PROVE f.by = n
      <3>1. PICK K : f \in {[by |-> n, key |-> k, signers |-> Senders({c \in valid[n] : c.key = k})] :
                              k \in {j \in K : IsFinal(n, j)}}
        BY <1>1, <2>2 DEF FinalizeCommitments
      <3>2. PICK k : f = [by |-> n, key |-> k, signers |-> Senders({c \in valid[n] : c.key = k})]
        BY <3>1
      <3>. QED  BY <3>2
    <2>. QED  BY <1>1, <2>1, <2>2
  <1>2. CASE ~FinalizeCommitments(n)
    BY <1>2 DEF Step, Abort, SendContributions, ReceiveContributions, VerifyAndComplain,
       ReceiveComplaints, VerifyAndJustify, ReceiveJustifications, VerifyAndCommit, ReceiveCommitments
  <1>. QED  BY <1>1, <1>2

\* TakenLast is preserved.
LEMMA TakenLastStep ==
  ASSUME TypeOK, TakenLast, NEW n \in Honest, Step(n)
  PROVE  TakenLast'
  <1> SUFFICES ASSUME NEW f \in final' PROVE Started(f.by, FINALIZE)'
    BY DEF TakenLast
  <1>1. CASE f \in final
    <2>1. f.by \in Honest /\ FINALIZE \in Phases
      BY <1>1 DEF TypeOK, Phases, CONTRIBUTE, FINALIZE
    <2>. QED  BY <1>1, <2>1, Frame DEF TakenLast
  <1>2. CASE f \notin final
    <2>1. f.by = n /\ Starts(n, FINALIZE)
      BY <1>2, FinalMadeBy
    <2>. QED  BY <2>1, StartsOnce
  <1>. QED  BY <1>1, <1>2

\* A key that is made stays made.
LEMMA MadeStay ==
  ASSUME TypeOK, TypeOK', NEW n \in Honest, Step(n)
  PROVE  MadeKeys \subseteq MadeKeys'
  BY CommittersGrow, AvailableGrows DEF MadeKeys

\* It takes an honest member to make a key.
LEMMA FaultyDoNotSuffice ==
  ASSUME EnoughCommit
  PROVE  /\ Cardinality(Faulty) < MinSize /\ MinSize > 0
         /\ \A S \in SUBSET Faulty : ~(Cardinality(S) >= MinSize)
  <1>1. Cardinality(Faulty) <= Cardinality(Members)
    BY MembersFinite, FS_Subset DEF Members
  <1>2. /\ Cardinality(Faulty) \in Nat /\ Cardinality(Members) \in Nat /\ MinSize \in Nat
    BY MembersFinite, MembersAssumption, FS_CardinalityType
  <1>3. Cardinality(Faulty) < MinSize /\ MinSize > 0
    BY <1>1, <1>2 DEF EnoughCommit
  <1>4. ASSUME NEW S \in SUBSET Faulty PROVE ~(Cardinality(S) >= MinSize)
    <2>1. Cardinality(S) <= Cardinality(Faulty) /\ Cardinality(S) \in Nat
      BY MembersAssumption, FS_Subset, FS_CardinalityType
    <2>. QED  BY <1>2, <1>3, <2>1
  <1>. QED  BY <1>3, <1>4

TakenMade == \A f \in final : f.key \in MadeKeys

\* A key that was taken is made.
LEMMA TakenAreMade == EnoughCommit /\ KeyInv => TakenMade
  <1> SUFFICES ASSUME EnoughCommit, KeyInv, NEW f \in final PROVE f.key \in MadeKeys
    BY DEF TakenMade
  <1>1. Cardinality(Committers(f.key)) >= MinSize
    BY DEF KeyInv, FinalBacked
  <1>2. Committers(f.key) # {}
    BY <1>1, FaultyDoNotSuffice
  <1>3. \E c \in Available("commitment") : c.key = f.key
    BY <1>2 DEF Committers, Senders
  <1>. QED  BY <1>1, <1>3 DEF MadeKeys

\* Nothing is made or taken at the start: the faulty members cannot make a key.
LEMMA InitAgreement == EnoughCommit /\ Init => Agreement!Init
  <1> SUFFICES ASSUME EnoughCommit, Init PROVE Agreement!Init
    OBVIOUS
  <1>1. \A k : Committers(k) \subseteq Faulty
    BY LiesAssumption DEF Init, Committers, Senders, Available, Of
  <1>2. MadeKeys = {}
    BY <1>1, FaultyDoNotSuffice DEF MadeKeys
  <1>3. TakenKeys = [n \in Honest |-> {}]
    BY DEF Init, TakenKeys
  <1>. QED  BY <1>2, <1>3 DEF Agreement!Init

\* A step that changes what is made makes one key.
LEMMA MakeStep ==
  ASSUME TypeOK, TypeOK', OneMade', NEW n \in Honest, Step(n), final' = final
  PROVE  Agreement!Next \/ UNCHANGED <<MadeKeys, TakenKeys>>
  <1>1. TakenKeys' = TakenKeys
    BY DEF TakenKeys
  <1>2. \A j, k \in MadeKeys' : j = k
    BY DEF OneMade
  <1>3. MadeKeys' \subseteq Keys
    <2>1. \A c \in Available("commitment")' : c.key \in Keys
      BY LiesAssumption, MessageType DEF TypeOK, Available, Of
    <2>. QED  BY <2>1 DEF MadeKeys
  <1>4. CASE MadeKeys' = MadeKeys
    BY <1>1, <1>4
  <1>5. CASE MadeKeys' # MadeKeys
    <2>1. PICK k \in MadeKeys' : k \notin MadeKeys
      BY <1>5, MadeStay
    <2>2. MadeKeys = {} /\ MadeKeys' = {k} /\ k \in Keys
      BY <1>2, <1>3, <2>1, MadeStay
    <2>. QED  BY <1>1, <2>2 DEF Agreement!Next, Agreement!Make
  <1>. QED  BY <1>4, <1>5

\* A node that finalizes takes the key that is made, or none.
LEMMA TakeStep ==
  ASSUME TypeOK, OneMade, TakenMade', TakenLast, NEW n \in Honest, Step(n),
         Starts(n, FINALIZE), sent' = sent, \A f \in final' : f \in final \/ f.by = n
  PROVE  Agreement!Next \/ UNCHANGED <<MadeKeys, TakenKeys>>
  <1> DEFINE took == {f.key : f \in {f \in final' : f.by = n}}
  <1>1. Available("commitment")' = Available("commitment")
    BY DEF Available
  <1>2. MadeKeys' = MadeKeys
    BY <1>1 DEF MadeKeys, Committers
  <1>3. \A f \in final : f.by # n
    BY StartsOnce DEF TakenLast
  <1>4. TakenKeys[n] = {}
    BY <1>3 DEF TakenKeys
  <1>5. TakenKeys' = [TakenKeys EXCEPT ![n] = took]
    <2>1. final \subseteq final'
      BY DeadStay
    <2>2. \A k \in Honest : k # n => {f \in final' : f.by = k} = {f \in final : f.by = k}
      BY <2>1
    <2>. QED  BY <2>2 DEF TakenKeys
  <1>6. took \subseteq MadeKeys
    BY <1>2 DEF TakenMade
  <1>7. \A j, k \in MadeKeys : j = k
    BY DEF OneMade
  <1> HIDE DEF took
  <1>8. CASE took = {}
    <2>1. TakenKeys' = TakenKeys
      BY <1>4, <1>5, <1>8 DEF TakenKeys
    <2>. QED  BY <1>2, <2>1
  <1>9. CASE took # {}
    <2>1. took = MadeKeys /\ MadeKeys # {}
      BY <1>6, <1>7, <1>9
    <2>. QED  BY <1>2, <1>4, <1>5, <2>1 DEF Agreement!Next, Agreement!Take
  <1>. QED  BY <1>8, <1>9

\* A session implements AbstractKey, whatever faulty members send and whatever is lost, if MinSize
\* exceeds half of the members and the faulty ones: the committers of two keys then share an
\* honest member, which commits once.
THEOREM SessionMakesOneKey == EnoughCommit => (Spec => MakesOneKey)
  <1> SUFFICES ASSUME EnoughCommit PROVE Spec => MakesOneKey
    OBVIOUS
  <1> DEFINE Inv == TypeInv /\ KeyInv /\ TakenLast
  <1>1. Init => Inv /\ Agreement!Init
    <2>1. Init => TakenLast
      BY DEF Init, TakenLast
    <2>. QED  BY <2>1, InitType, InitKey, InitAgreement
  <1>2. Inv /\ [Next]_vars => Inv'
    <2> SUFFICES ASSUME Inv, [Next]_vars PROVE TakenLast'
      BY StepType, StepKey
    <2>1. CASE UNCHANGED vars
      BY <2>1 DEF vars, progress, TakenLast, Started
    <2>2. CASE Next
      BY <2>2, NextStep, TakenLastStep DEF TypeInv
    <2>. QED  BY <2>1, <2>2
  <1>3. Inv => OneMade /\ TakenMade
    BY KeysAgree, TakenAreMade DEF TypeInv
  <1>4. Inv /\ Inv' /\ OneMade /\ OneMade' /\ TakenMade' /\ [Next]_vars
          => [Agreement!Next]_<<MadeKeys, TakenKeys>>
    <2> SUFFICES ASSUME Inv, Inv', OneMade, OneMade', TakenMade', [Next]_vars
                 PROVE  Agreement!Next \/ UNCHANGED <<MadeKeys, TakenKeys>>
      OBVIOUS
    <2>1. CASE UNCHANGED vars
      BY <2>1 DEF vars, MadeKeys, TakenKeys, Committers, Available
    <2>2. CASE Next
      <3>1. PICK n \in Honest : Step(n)
        BY <2>2, NextStep
      <3>. QED  BY <3>1, FinalMadeBy, MakeStep, TakeStep DEF TypeInv
    <2>. QED  BY <2>1, <2>2
  <1> HIDE DEF Inv
  <1>. QED  BY <1>1, <1>2, <1>3, <1>4, PTL DEF Spec, MakesOneKey, Agreement!Spec

-----------------------------------------------------------------------------
(***************************************************************************)
(* Shares.                                                                 *)
(***************************************************************************)

OneContribution ==
  \A n \in Honest : \A a, b \in Of(got[n], "contribution") : a.from = b.from => a = b

\* a message that shows n a share of m that fits vvec v
Shows(n, m, v) ==
  \E c \in got[n] : /\ c.kind \in {"contribution", "justification"}
                    /\ c.from = m /\ c.vvec = v /\ n \in c.good

ShareShown ==
  \A n \in Honest : \A m \in share[n] : Started(n, COMPLAIN) /\ Shows(n, m, Vvec(n, m))

CommittedShares ==
  \A c \in Of(sent, "commitment") : \A m \in DOMAIN c.key :
    m \in share[c.from] /\ Shows(c.from, m, c.key[m])

ShareInv == OneContribution /\ ShareShown /\ CommittedShares

\* OneContribution is preserved.
LEMMA OneContributionStep ==
  ASSUME TypeOK, OneContribution, NEW n \in Honest, Step(n)
  PROVE  OneContribution'
  <1> SUFFICES ASSUME NEW k \in Honest, NEW a \in got'[k], NEW b \in got'[k],
                      a.kind = "contribution", b.kind = "contribution", a.from = b.from
               PROVE  a = b
    BY DEF OneContribution, Of
  <1>1. CASE a \in got[k] /\ b \in got[k]
    BY <1>1 DEF OneContribution, Of
  <1>2. CASE ~(a \in got[k] /\ b \in got[k])
    BY <1>2, Frame, Processed
  <1>. QED  BY <1>1, <1>2

\* ShareShown is preserved: a share was contributed or justified.
LEMMA ShareShownStep ==
  ASSUME TypeOK, OneContribution, ShareShown, NEW n \in Honest, Step(n)
  PROVE  ShareShown'
  <1> SUFFICES ASSUME NEW k \in Honest, NEW m \in share'[k]
               PROVE  Started(k, COMPLAIN)' /\ Shows(k, m, Vvec(k, m))'
    BY DEF ShareShown
  <1>0. /\ COMPLAIN \in Phases
        /\ Started(k, COMPLAIN) => phase[k] > CONTRIBUTE
    BY DEF Phases, CONTRIBUTE, COMPLAIN, FINALIZE, Started, TypeOK
  <1>1. CASE m \in share[k]
    <2>1. Started(k, COMPLAIN) /\ Shows(k, m, Vvec(k, m))
      BY <1>1 DEF ShareShown
    <2>2. Vvec(k, m)' = Vvec(k, m)
      BY <1>0, <2>1, ContributionsStay
    <2>3. Shows(k, m, Vvec(k, m)) => \E c \in got'[k] :
            /\ c.kind \in {"contribution", "justification"}
            /\ c.from = m /\ c.vvec = Vvec(k, m) /\ k \in c.good
      BY Frame DEF Shows
    <2>. QED  BY <1>0, <2>1, <2>2, <2>3, Frame DEF Shows
  <1>2. CASE m \notin share[k] /\ VerifyAndComplain(n)
    <2>1. PICK E, B : Complained(n, E, B)
      BY <1>2, Complain
    <2>2. k = n /\ m \in RightFor(n)
      BY <1>2, <2>1, Frame DEF Complained, Fitting, TypeOK
    <2>3. PICK c \in Of(got[n], "contribution") : c.from = m /\ n \in c.good
      BY <2>2 DEF RightFor, Senders
    <2>4. c.vvec = Vvec(n, m)
      BY <2>3 DEF Vvec, OneContribution
    <2>5. phase[n] > CONTRIBUTE /\ Started(n, COMPLAIN)'
      BY <1>2 DEF VerifyAndComplain, Starts, Started, TypeOK, CONTRIBUTE, COMPLAIN
    <2>6. Vvec(n, m)' = Vvec(n, m) /\ c \in got'[n] /\ c.kind = "contribution"
      BY <2>3, <2>5, ContributionsStay, Frame DEF Of
    <2>. QED  BY <2>2, <2>3, <2>4, <2>5, <2>6 DEF Shows
  <1>3. CASE m \notin share[k] /\ ReceiveJustifications(n)
    <2>1. PICK F \in FirstOfEach(n, "justification") :
            \E D \in SUBSET Repeating(F, "justification") : JustificationsHeard(n, F, D)
      BY <1>3, HearJustifications
    <2>2. PICK D : JustificationsHeard(n, F, D)
      BY <2>1
    <2>3. k = n /\ m \in Senders({j \in Asked(n, F) : n \in Proven(n, j)})
      BY <1>3, <2>2, Frame DEF JustificationsHeard, TypeOK
    <2>4. PICK j \in Asked(n, F) : j.from = m /\ n \in Proven(n, j)
      BY <2>3 DEF Senders
    <2>5. j \in F /\ j.kind = "justification" /\ j \in got'[n]
      BY <2>2, FirstType DEF Asked, Heard, JustificationsHeard, TypeOK
    <2>6. j.vvec = Vvec(n, m) /\ n \in j.good
      BY <2>4 DEF Proven
    <2>7. phase[n] > CONTRIBUTE /\ Started(n, COMPLAIN)
      BY <1>3 DEF ReceiveJustifications, Receives, Started, CONTRIBUTE, COMPLAIN, JUSTIFY
    <2>8. Vvec(n, m)' = Vvec(n, m) /\ Started(n, COMPLAIN)'
      BY <1>0, <2>7, ContributionsStay, Frame
    <2>. QED  BY <2>3, <2>4, <2>5, <2>6, <2>8 DEF Shows
  <1>4. CASE UNCHANGED share
    BY <1>1, <1>4
  <1>. QED  BY <1>1, <1>2, <1>3, <1>4 DEF Step, Abort, SendContributions, ReceiveContributions,
               ReceiveComplaints, VerifyAndJustify, VerifyAndCommit, ReceiveCommitments,
               FinalizeCommitments, view

\* Shares are not lost once commitments are made.
LEMMA SharesStay ==
  ASSUME TypeOK, NEW n \in Honest, Step(n), NEW k \in Honest, Started(k, COMMIT)
  PROVE  share'[k] = share[k]
  <1>1. CASE k # n
    BY <1>1, Frame
  <1>2. CASE k = n /\ (VerifyAndComplain(n) \/ ReceiveJustifications(n))
    BY <1>2 DEF VerifyAndComplain, Starts, ReceiveJustifications, Receives, Started,
                COMPLAIN, JUSTIFY, COMMIT
  <1>3. CASE UNCHANGED share
    BY <1>3
  <1>. QED  BY <1>1, <1>2, <1>3 DEF Step, Abort, SendContributions, ReceiveContributions,
               ReceiveComplaints, VerifyAndJustify, VerifyAndCommit, ReceiveCommitments,
               FinalizeCommitments, view

\* CommittedShares is preserved.
LEMMA CommittedSharesStep ==
  ASSUME TypeOK, SentOnce, ShareShown, CommittedShares, NEW n \in Honest, Step(n)
  PROVE  CommittedShares'
  <1> SUFFICES ASSUME NEW c \in Of(sent, "commitment")', NEW m \in DOMAIN c.key
               PROVE  m \in share'[c.from] /\ Shows(c.from, m, c.key[m])'
    BY DEF CommittedShares
  <1>1. CASE c \in sent
    <2>1. /\ c.from \in Honest /\ Started(c.from, COMMIT)
          /\ m \in share[c.from] /\ Shows(c.from, m, c.key[m])
      BY <1>1 DEF SentOnce, CommittedShares, Of
    <2>. QED  BY <2>1, SharesStay, Frame DEF Shows
  <1>2. CASE c \notin sent
    <2>1. c = Commitment(n) /\ VerifyAndCommit(n) /\ c.from = n
      BY <1>2, SentBy DEF Of
    <2>2. Members \ (bad[n] \cup Unjustified(n)) \subseteq share[n]
      <3>1. c \in sent'
        BY DEF Of
      <3>. QED  BY <1>2, <2>1, <3>1, Commit
    <2>3. c.key = [k \in Members \ (bad[n] \cup Unjustified(n)) |-> Vvec(n, k)]
      BY <2>1 DEF Commitment
    <2>4. m \in share[n] /\ c.key[m] = Vvec(n, m)
      BY <2>2, <2>3
    <2>5. Shows(n, m, c.key[m]) /\ UNCHANGED <<share, got>>
      BY <2>1, <2>4, Commit DEF ShareShown
    <2>. QED  BY <2>1, <2>4, <2>5 DEF Shows
  <1>. QED  BY <1>1, <1>2

\* ShareInv is inductive.
LEMMA InitShare == Init => ShareInv
  BY DEF Init, ShareInv, OneContribution, ShareShown, CommittedShares, Of

\* ShareInv is preserved.
LEMMA StepShare == TypeInv /\ KeyInv /\ ShareInv /\ [Next]_vars => ShareInv'
  <1> SUFFICES ASSUME TypeInv, KeyInv, ShareInv, [Next]_vars PROVE ShareInv'
    OBVIOUS
  <1> USE DEF TypeInv, KeyInv, ShareInv
  <1>1. CASE UNCHANGED vars
    BY <1>1 DEF vars, progress, view, OneContribution, ShareShown, CommittedShares, Started, Of,
                Shows, Vvec
  <1>2. ASSUME NEW n \in Honest, Step(n) PROVE ShareInv'
    BY <1>2, OneContributionStep, ShareShownStep, CommittedSharesStep
  <1>. QED  BY <1>1, <1>2, NextStep

\* ShareInv implies the property.
LEMMA SharesForKeys == TypeOK /\ KeyInv /\ ShareInv => QuorumCanSign
  <1> SUFFICES ASSUME TypeOK, KeyInv, ShareInv, NEW h \in Honest,
                      NEW k \in {c.key : c \in {c \in Of(sent, "commitment") : c.from = h}}
                                  \cup {f.key : f \in {f \in final : h \in f.signers}}
               PROVE  \A m \in DOMAIN k : m \in share[h] /\ Shows(h, m, k[m])
    BY DEF QuorumCanSign, Shows
  <1>1. \E c \in Of(sent, "commitment") : c.from = h /\ c.key = k
    <2>1. ASSUME NEW f \in final, h \in f.signers, k = f.key
          PROVE  \E c \in Of(sent, "commitment") : c.from = h /\ c.key = k
      <3>1. PICK c \in Available("commitment") : c.from = h /\ c.key = k
        BY <2>1 DEF KeyInv, FinalBacked
      <3>. QED  BY <3>1, MembersAssumption, LiesAssumption DEF Available, Of
    <2>. QED  BY <2>1
  <1>. QED  BY <1>1 DEF ShareInv, CommittedShares

\* QuorumCanSign of any session: the database has the shares for every key that an honest
\* member commits to or signs.
THEOREM CommittedMembersCanSign == Spec => []QuorumCanSign
  <1>1. Spec => [](TypeInv /\ KeyInv /\ ShareInv)
    BY InitType, InitKey, InitShare, StepType, StepKey, StepShare, PTL DEF Spec
  <1>2. TypeInv /\ KeyInv /\ ShareInv => QuorumCanSign
    BY SharesForKeys DEF TypeInv
  <1>. QED  BY <1>1, <1>2, PTL

-----------------------------------------------------------------------------
(***************************************************************************)
(* The assertion.                                                          *)
(***************************************************************************)

\* Without a share of a member that is not bad, a node has voted against it, or has
\* complained about it, and the complaint is open once it is processed.
Objected(n, m) ==
  \E c \in Of(sent, "complaint") :
    /\ c.from = n
    /\ \/ m \in c.bad
       \/ m \in c.complain /\ (phase[n] > COMPLAIN /\ c \in got[n] => <<m, n>> \in open[n])

WantsShares ==
  \A n \in Honest : Started(n, COMPLAIN) =>
    \A m \in Members \ (bad[n] \cup share[n]) : Objected(n, m)

\* WantsShares is preserved.
LEMMA WantsSharesStep ==
  ASSUME TypeOK, WantsShares, NEW n \in Honest, Step(n)
  PROVE  WantsShares'
  <1> SUFFICES ASSUME NEW k \in Honest, Started(k, COMPLAIN)',
                      NEW m \in Members, m \notin bad'[k], m \notin share'[k]
               PROVE  Objected(k, m)'
    BY DEF WantsShares, Members
  <1>0. COMPLAIN \in Phases
    BY DEF Phases, CONTRIBUTE, COMPLAIN, FINALIZE
  <1>1. CASE ~Started(k, COMPLAIN)
    <2>1. k = n /\ VerifyAndComplain(n) /\ Starts(n, COMPLAIN)
      BY <1>0, <1>1, StartedBy
    <2>2. PICK E, B : Complained(n, E, B)
      BY <2>1, Complain
    <2>3. m \notin Judged(n, E) /\ m \notin Fitting(n, E)
      BY <2>1, <2>2 DEF Complained, TypeOK
    <2>4. m \in Complaint(n, E, B).bad \/ m \in Complaint(n, E, B).complain
      BY <2>3 DEF Complaint
    <2>5. Complaint(n, E, B) \in sent'
      BY <2>2, <2>4 DEF Complained
    <2>6. ~(phase'[n] > COMPLAIN)
      BY <2>1 DEF Starts, COMPLAIN
    <2>7. Complaint(n, E, B).from = n /\ Complaint(n, E, B).kind = "complaint"
      BY DEF Complaint
    <2>. QED  BY <2>1, <2>4, <2>5, <2>6, <2>7 DEF Objected, Of
  <1>2. CASE Started(k, COMPLAIN) /\ k # n
    <2>1. Objected(k, m)
      BY <1>2, Frame DEF WantsShares
    <2>. QED  BY <1>2, <2>1, Frame DEF Objected, Of
  <1>3. CASE Started(k, COMPLAIN) /\ k = n
    <2>1. phase[n] >= COMPLAIN /\ m \notin bad[n]
      BY <1>3, Frame DEF Started, TypeOK, Phases, CONTRIBUTE, COMPLAIN, FINALIZE
    <2>2. CASE VerifyAndComplain(n) \/ SendContributions(n) \/ ReceiveContributions(n)
      BY <1>3, <2>1, <2>2 DEF VerifyAndComplain, SendContributions, ReceiveContributions, Starts,
                              Receives, Started, CONTRIBUTE, COMPLAIN
    <2>3. CASE ReceiveComplaints(n)
      <3>1. PICK F, D : ComplaintsHeard(n, F, D) /\ F \in FirstOfEach(n, "complaint")
        BY <2>3, HearComplaints
      <3>2. PICK c \in Of(sent, "complaint") : c.from = n /\ (m \in c.bad \/ m \in c.complain)
        BY <1>3, <2>1, <2>3 DEF WantsShares, Objected, ReceiveComplaints
      <3>3. m \in c.complain /\ c \in got'[n] => <<m, n>> \in open'[n]
        <4>1. c \in got'[n] => c \in Of(got[n], "complaint") \cup F
          BY <3>1, <3>2 DEF ComplaintsHeard, TypeOK, Of
        <4>2. open'[n] = UNION {d.complain \X {d.from} : d \in Of(got[n], "complaint") \cup F}
          BY <3>1 DEF ComplaintsHeard, TypeOK
        <4>. QED  BY <3>2, <4>1, <4>2
      <3>. QED  BY <1>3, <2>3, <3>2, <3>3 DEF Objected, Of, ReceiveComplaints
    <2>4. CASE ReceiveJustifications(n)
      <3>1. PICK F, D : JustificationsHeard(n, F, D)
        BY <2>4, HearJustifications
      <3>2. m \notin share[n] /\ m \notin Senders({j \in Asked(n, F) : n \in Proven(n, j)})
        BY <1>3, <3>1 DEF JustificationsHeard, TypeOK
      <3>3. PICK c \in Of(sent, "complaint") :
              /\ c.from = n
              /\ \/ m \in c.bad
                 \/ m \in c.complain /\ (phase[n] > COMPLAIN /\ c \in got[n] => <<m, n>> \in open[n])
        BY <1>3, <2>1, <3>2 DEF WantsShares, Objected
      <3>4. <<m, n>> \in open[n] => <<m, n>> \in open'[n]
        <4>1. open'[n] = open[n] \ UNION {{j.from} \X Proven(n, j) : j \in Asked(n, F)}
          BY <3>1 DEF JustificationsHeard, TypeOK
        <4>2. \A j \in Asked(n, F) : <<m, n>> \notin {j.from} \X Proven(n, j)
          BY <3>2 DEF Senders
        <4>. QED  BY <4>1, <4>2
      <3>5. phase[n] > COMPLAIN /\ (c \in got'[n] => c \in got[n])
        BY <2>4, <3>3, Processed DEF ReceiveJustifications, Receives, COMPLAIN, JUSTIFY, COMMIT,
                                     CONTRIBUTE, Of
      <3>. QED  BY <1>3, <2>4, <3>3, <3>4, <3>5 DEF Objected, Of, ReceiveJustifications
    <2>5. CASE UNCHANGED <<share, open>> /\ (phase'[n] > COMPLAIN => phase[n] > COMPLAIN)
      <3>1. Objected(n, m)
        BY <1>3, <2>1, <2>5 DEF WantsShares
      <3>2. phase[n] > COMPLAIN => Of(got[n], "complaint")' = Of(got[n], "complaint")
        BY KindStays
      <3>. QED  BY <1>3, <2>5, <3>1, <3>2, Frame DEF Objected, Of
    <2>6. ASSUME VerifyAndJustify(n) \/ VerifyAndCommit(n) \/ FinalizeCommitments(n) \/ Abort(n)
          PROVE  UNCHANGED <<share, open, phase>>
      BY <2>6 DEF VerifyAndJustify, VerifyAndCommit, FinalizeCommitments, Abort, view, Starts
    <2>7. ASSUME ReceiveCommitments(n)
          PROVE  UNCHANGED <<share, open>> /\ phase[n] > COMPLAIN
      BY <2>7 DEF ReceiveCommitments, Receives, COMPLAIN, COMMIT
    <2>. QED  BY <2>2, <2>3, <2>4, <2>5, <2>6, <2>7 DEF Step
  <1>. QED  BY <1>1, <1>2, <1>3

\* DiesOnlyUnheard is preserved, WantsShares being what VerifyAndCommit meets.
LEMMA DiesOnlyUnheardStep ==
  ASSUME TypeOK, WantsShares, DiesOnlyUnheard, NEW n \in Honest, Step(n)
  PROVE  DiesOnlyUnheard'
  <1>1. n \in Running
    BY DEF Step, Abort, SendContributions, ReceiveContributions, VerifyAndComplain,
           ReceiveComplaints, VerifyAndJustify, ReceiveJustifications, VerifyAndCommit,
           ReceiveCommitments, FinalizeCommitments, Starts, Receives
  <1> DEFINE Unheard(k) == \E c \in Of(sent, "complaint") :
                             c.from = k /\ (c \notin got[k] \/ ~(c.bad \subseteq bad[k]))
  <1>2. ASSUME NEW k \in died PROVE Unheard(k)'
    <2>1. k # n /\ k \in Honest
      BY <1>1, <1>2 DEF Running, TypeOK
    <2>2. got'[k] = got[k] /\ bad'[k] = bad[k] /\ sent \subseteq sent'
      BY <2>1, Frame
    <2>. QED  BY <1>2, <2>2 DEF DiesOnlyUnheard, Of
  <1>3. ASSUME n \in died', n \notin died PROVE Unheard(n)'
    <2>1. VerifyAndCommit(n)
      BY <1>3 DEF Step, Abort, SendContributions, ReceiveContributions, VerifyAndComplain,
           ReceiveComplaints, VerifyAndJustify, ReceiveJustifications,
           ReceiveCommitments, FinalizeCommitments, Ends
    <2>2. PICK m \in Members : m \notin bad[n] /\ m \notin Unjustified(n) /\ m \notin share[n]
      BY <1>3, <2>1, Commit
    <2>3. /\ Started(n, COMPLAIN) /\ phase[n] > COMPLAIN
          /\ bad'[n] = bad[n] \cup Unjustified(n) /\ UNCHANGED <<sent, got>>
      BY <1>3, <2>1, Commit DEF VerifyAndCommit, Starts, Started, COMPLAIN, COMMIT, TypeOK
    <2>4. PICK c \in Of(sent, "complaint") :
            /\ c.from = n
            /\ \/ m \in c.bad
               \/ m \in c.complain /\ (phase[n] > COMPLAIN /\ c \in got[n] => <<m, n>> \in open[n])
      BY <2>2, <2>3 DEF WantsShares, Objected
    <2>5. <<m, n>> \notin open[n]
      BY <2>2 DEF Unjustified, Members
    <2>. QED  BY <2>2, <2>3, <2>4, <2>5 DEF Of
  <1>4. died' \subseteq died \cup {n}
    BY Commit DEF Step, Abort, SendContributions, ReceiveContributions, VerifyAndComplain,
           ReceiveComplaints, VerifyAndJustify, ReceiveJustifications,
           ReceiveCommitments, FinalizeCommitments, Ends
  <1>. QED  BY <1>2, <1>3, <1>4 DEF DiesOnlyUnheard

\* DiesOnlyUnheard of any session: an own complaint that was not processed, or a vote against a
\* connection, is behind every failure of the assertion.
THEOREM AssertionFailsForTwoReasons == Spec => []DiesOnlyUnheard
  <1>1. Init => WantsShares /\ DiesOnlyUnheard
    BY DEF Init, WantsShares, DiesOnlyUnheard, Started, CONTRIBUTE, COMPLAIN
  <1>2. TypeInv /\ WantsShares /\ DiesOnlyUnheard /\ [Next]_vars => (WantsShares /\ DiesOnlyUnheard)'
    <2> SUFFICES ASSUME TypeInv, WantsShares, DiesOnlyUnheard, [Next]_vars
                 PROVE  (WantsShares /\ DiesOnlyUnheard)'
      OBVIOUS
    <2>1. CASE UNCHANGED vars
      BY <2>1 DEF vars, progress, view, WantsShares, DiesOnlyUnheard, Objected, Started, Of
    <2>. QED  BY <2>1, NextStep, WantsSharesStep, DiesOnlyUnheardStep DEF TypeInv
  <1>. QED  BY <1>1, <1>2, InitType, StepType, PTL DEF Spec

-----------------------------------------------------------------------------
(***************************************************************************)
(* Honest members stay valid.                                              *)
(***************************************************************************)

\* k complained about m, as far as n knows
Accuses(n, k, m) == \E c \in Of(got[n], "complaint") : c.from = k /\ m \in c.complain

\* what is processed was sent
GotSent == \A n \in Honest : got[n] \subseteq sent \cup Lies

ContributionSent ==
  \A n \in Honest : Started(n, CONTRIBUTE) => \E c \in Of(sent, "contribution") : c.from = n

\* an honest member contributes its own vvec, votes against honest members that did not
\* contribute only, and justifies itself rightly and for those that complained
SentRightly ==
  \A m \in sent :
    /\ m.kind = "contribution" => m.vvec = Own[m.from]
    /\ m.kind = "complaint" => m.bad \cap Honest \cap Contributors(m.from) = {}
    /\ m.kind = "justification" =>
         m.vvec = Own[m.from] /\ m.good = m.for /\ \A k \in m.for : Accuses(m.from, k, m.from)

\* open complaints were made; all of them are open until justifications are heard
OpenMade ==
  \A n \in Honest : \A m, k \in Members :
    /\ <<m, k>> \in open[n] => phase[n] > COMPLAIN /\ Accuses(n, k, m)
    /\ phase[n] = JUSTIFY /\ Accuses(n, k, m) => <<m, k>> \in open[n]

\* why h is bad for n
NoContribution(n, h) == Started(n, COMPLAIN) /\ h \notin Contributors(n)
VotedOut(n, h) == Started(n, JUSTIFY) /\ Cardinality(Voters(n, h)) >= BadVotes
NotAsked(n, h) ==
  /\ Started(n, JUSTIFY)
  /\ \E j \in Of(got[n], "justification") : j.from = h /\ \E k \in j.for : ~Accuses(n, k, h)
StillOpen(n, h) == Started(n, COMMIT) /\ h \in Unjustified(n)

BadForReason ==
  \A n, h \in Honest : h \in bad[n] =>
    NoContribution(n, h) \/ VotedOut(n, h) \/ NotAsked(n, h) \/ StillOpen(n, h)

\* a justification closes the complaints it is for, unless its sender is bad
Cleared(n, j) == \A k \in j.for : <<j.from, k>> \notin open[n]
Answers ==
  \A n \in Honest : \A j \in Of(got[n], "justification") : j.from \in Honest =>
    \/ NoContribution(n, j.from) \/ VotedOut(n, j.from) \/ NotAsked(n, j.from)
    \/ phase[n] > JUSTIFY /\ Cleared(n, j)

HonestInv ==
  GotSent /\ ContributionSent /\ SentRightly /\ OpenMade /\ BadForReason /\ Answers

\* no objections to the connections of honest members
ConnectionsKept == \A B \in BadConnections : B \subseteq Faulty

\* The order of the phases.
LEMMA PhaseNumbers ==
  /\ CONTRIBUTE < COMPLAIN /\ COMPLAIN < JUSTIFY /\ JUSTIFY < COMMIT /\ COMMIT < FINALIZE
  /\ {CONTRIBUTE, COMPLAIN, JUSTIFY, COMMIT, FINALIZE} \subseteq Phases /\ Phases \subseteq Int
  BY DEF Phases, CONTRIBUTE, COMPLAIN, JUSTIFY, COMMIT, FINALIZE

\* A node whose phase is past another has started that one.
LEMMA PhasePast ==
  ASSUME TypeOK, NEW k \in Honest
  PROVE  /\ phase[k] \in Phases
         /\ Started(k, COMPLAIN) => phase[k] > CONTRIBUTE
         /\ Started(k, JUSTIFY) => phase[k] > COMPLAIN
         /\ Started(k, COMMIT) => phase[k] > JUSTIFY
         /\ phase[k] > JUSTIFY => phase[k] > COMPLAIN
  BY DEF TypeOK, Started, Phases, CONTRIBUTE, COMPLAIN, JUSTIFY, COMMIT, FINALIZE

\* GotSent is preserved.
LEMMA GotSentStep ==
  ASSUME TypeOK, GotSent, NEW n \in Honest, Step(n)
  PROVE  GotSent'
  <1> SUFFICES ASSUME NEW k \in Honest, NEW m \in got'[k]
               PROVE  m \in sent' \cup Lies
    BY DEF GotSent
  <1>1. CASE m \in got[k]
    BY <1>1, Frame DEF GotSent
  <1>2. CASE m \notin got[k]
    BY <1>2, Frame, Processed, AvailableType
  <1>. QED  BY <1>1, <1>2

\* ContributionSent is preserved.
LEMMA ContributionSentStep ==
  ASSUME TypeOK, ContributionSent, NEW n \in Honest, Step(n)
  PROVE  ContributionSent'
  <1> SUFFICES ASSUME NEW k \in Honest, Started(k, CONTRIBUTE)'
               PROVE  \E c \in Of(sent', "contribution") : c.from = k
    BY DEF ContributionSent, Of
  <1>1. CASE Started(k, CONTRIBUTE)
    BY <1>1, Frame DEF ContributionSent, Of
  <1>2. CASE ~Started(k, CONTRIBUTE)
    <2>1. k = n /\ SendContributions(n)
      BY <1>2, StartedBy, PhaseNumbers
    <2> DEFINE c == [kind |-> "contribution", from |-> n, vvec |-> Own[n], good |-> Members]
    <2>2. c \in sent'
      BY <2>1 DEF SendContributions
    <2>3. c.kind = "contribution" /\ c.from = n
      OBVIOUS
    <2> HIDE DEF c
    <2>. QED  BY <2>1, <2>2, <2>3 DEF Of
  <1>. QED  BY <1>1, <1>2

\* a second message of a kind is not from an honest member
LEMMA HonestNotRepeated ==
  ASSUME TypeOK, SentOnce, NEW n \in Honest, NEW kind, NEW F \in FirstOfEach(n, kind)
  PROVE  Repeating(F, kind) \cap Honest = {}
  <1> SUFFICES ASSUME NEW h \in Repeating(F, kind), h \in Honest
               PROVE  FALSE
    OBVIOUS
  <1>1. PICK f \in F : f.from = h
    BY DEF Repeating, Senders
  <1>2. PICK m \in Available(kind) \ F : m.from = h
    BY DEF Repeating
  <1>3. f \in sent /\ m \in sent /\ f.kind = m.kind
    BY <1>1, <1>2, FirstType, AvailableType, LiesAssumption, MembersAssumption
  <1>. QED  BY <1>1, <1>2, <1>3 DEF SentOnce

\* Honest members repeat no message.
LEMMA HonestNotInE ==
  ASSUME TypeOK, SentOnce, NEW n \in Honest, NEW kind, NEW E \in Repeated(n, kind)
  PROVE  Senders(E) \cap Honest = {}
  BY HonestNotRepeated DEF Repeated

\* what is known of complaints stays after their phase
LEMMA AccusesStay ==
  ASSUME TypeOK, NEW n \in Honest, Step(n), NEW k \in Honest
  PROVE  /\ \A a, m : Accuses(k, a, m) => Accuses(k, a, m)'
         /\ phase[k] > COMPLAIN => \A a, m : Accuses(k, a, m)' = Accuses(k, a, m)
         /\ phase[k] > COMPLAIN => \A m : Voters(k, m)' = Voters(k, m)
  <1>1. \A a, m : Accuses(k, a, m) => Accuses(k, a, m)'
    BY Frame DEF Accuses, Of
  <1>2. phase[k] > COMPLAIN => \A a, m : Accuses(k, a, m)' = Accuses(k, a, m)
    BY KindStays DEF Accuses
  <1>3. phase[k] > COMPLAIN => \A m : Voters(k, m)' = Voters(k, m)
    BY KindStays DEF Voters, Senders
  <1>. QED  BY <1>1, <1>2, <1>3

\* open complaints change when complaints and when justifications are heard
LEMMA OpenStays ==
  ASSUME TypeOK, NEW n \in Honest, Step(n), NEW k \in Honest
  PROVE  \/ open'[k] = open[k]
         \/ k = n /\ ReceiveComplaints(n)
         \/ k = n /\ ReceiveJustifications(n)
  <1>1. CASE k # n
    BY <1>1, Frame
  <1>2. CASE k = n
    BY <1>2 DEF Step, Abort, SendContributions, ReceiveContributions, VerifyAndComplain,
                VerifyAndJustify, VerifyAndCommit, ReceiveCommitments, FinalizeCommitments, view
  <1>. QED  BY <1>1, <1>2

\* What a step does to the phase of a node.
LEMMA PhaseMoves ==
  ASSUME TypeOK, NEW n \in Honest, Step(n), NEW k \in Honest
  PROVE  \/ phase'[k] = phase[k]
         \/ k = n /\ ReceiveContributions(n) /\ phase[n] = CONTRIBUTE /\ phase'[n] = COMPLAIN
         \/ k = n /\ ReceiveComplaints(n) /\ phase[n] = COMPLAIN /\ phase'[n] = JUSTIFY
         \/ k = n /\ ReceiveJustifications(n) /\ phase[n] = JUSTIFY /\ phase'[n] = COMMIT
         \/ k = n /\ ReceiveCommitments(n) /\ phase[n] = COMMIT /\ phase'[n] = FINALIZE
  <1> USE DEF CONTRIBUTE, COMPLAIN, JUSTIFY, COMMIT, FINALIZE
  <1>1. CASE k # n
    BY <1>1, Frame
  <1>2. CASE UNCHANGED phase
    BY <1>2
  <1>3. ASSUME NEW kind, NEW processed, Ends(n, kind, processed)
        PROVE  phase'[n] = phase[n] + 1
    BY <1>3 DEF Ends, TypeOK
  <1>4. CASE ReceiveContributions(n)
    <2>1. PICK F, D : ContributionsHeard(n, F, D)
      BY <1>4, HearContributions
    <2>2. phase'[n] = phase[n] + 1
      BY <1>3, <2>1 DEF ContributionsHeard
    <2>3. phase[n] = CONTRIBUTE
      BY <1>4 DEF ReceiveContributions, Receives
    <2>. QED  BY <1>1, <1>4, <2>2, <2>3
  <1>5. CASE ReceiveComplaints(n)
    <2>1. PICK F, D : ComplaintsHeard(n, F, D)
      BY <1>5, HearComplaints
    <2>2. phase'[n] = phase[n] + 1
      BY <1>3, <2>1 DEF ComplaintsHeard
    <2>3. phase[n] = COMPLAIN
      BY <1>5 DEF ReceiveComplaints, Receives
    <2>. QED  BY <1>1, <1>5, <2>2, <2>3
  <1>6. CASE ReceiveJustifications(n)
    <2>1. PICK F, D : JustificationsHeard(n, F, D)
      BY <1>6, HearJustifications
    <2>2. phase'[n] = phase[n] + 1
      BY <1>3, <2>1 DEF JustificationsHeard
    <2>3. phase[n] = JUSTIFY
      BY <1>6 DEF ReceiveJustifications, Receives
    <2>. QED  BY <1>1, <1>6, <2>2, <2>3
  <1>7. CASE ReceiveCommitments(n)
    <2>1. PICK F : CommitmentsHeard(n, F)
      BY <1>7, HearCommitments
    <2>2. phase'[n] = phase[n] + 1
      BY <1>3, <2>1 DEF CommitmentsHeard
    <2>3. phase[n] = COMMIT
      BY <1>7 DEF ReceiveCommitments, Receives
    <2>. QED  BY <1>1, <1>7, <2>2, <2>3
  <1>. QED  BY <1>2, <1>4, <1>5, <1>6, <1>7 DEF Step, Abort, SendContributions,
               VerifyAndComplain, VerifyAndJustify, VerifyAndCommit, FinalizeCommitments, Starts

\* Phases grow.
LEMMA PhaseGrows ==
  ASSUME TypeOK, NEW n \in Honest, Step(n), NEW k \in Honest
  PROVE  \A p \in Phases : phase[k] > p => phase'[k] > p
  BY PhaseMoves DEF CONTRIBUTE, COMPLAIN, JUSTIFY, COMMIT, FINALIZE, Phases, TypeOK

\* A reason to find a member bad remains one.
LEMMA ReasonsStay ==
  ASSUME TypeOK, NEW n \in Honest, Step(n), NEW k \in Honest, NEW h \in Honest
  PROVE  /\ NoContribution(k, h) => NoContribution(k, h)'
         /\ VotedOut(k, h) => VotedOut(k, h)'
         /\ NotAsked(k, h) => NotAsked(k, h)'
         /\ StillOpen(k, h) => StillOpen(k, h)'
  <1>0. /\ \A p \in Phases : Started(k, p) => Started(k, p)'
        /\ phase[k] \in Phases
    BY Frame DEF TypeOK
  <1>1. NoContribution(k, h) => NoContribution(k, h)'
    BY <1>0, ContributionsStay, PhasePast, PhaseNumbers DEF NoContribution
  <1>2. VotedOut(k, h) => VotedOut(k, h)'
    BY <1>0, AccusesStay, PhasePast, PhaseNumbers DEF VotedOut
  <1>3. NotAsked(k, h) => NotAsked(k, h)'
    <2>1. Started(k, JUSTIFY) => phase[k] > COMPLAIN /\ Started(k, JUSTIFY)'
      BY <1>0, PhasePast, PhaseNumbers
    <2>. QED  BY <2>1, AccusesStay, Frame DEF NotAsked, Of
  <1>4. StillOpen(k, h) => StillOpen(k, h)'
    <2>1. Started(k, COMMIT) => phase[k] # COMPLAIN /\ phase[k] # JUSTIFY
      BY DEF Started, COMPLAIN, JUSTIFY, COMMIT
    <2>2. Started(k, COMMIT) => open'[k] = open[k]
      BY <2>1, OpenStays DEF ReceiveComplaints, ReceiveJustifications, Receives
    <2>. QED  BY <1>0, <2>2, PhaseNumbers DEF StillOpen, Unjustified
  <1>. QED  BY <1>1, <1>2, <1>3, <1>4

\* Nobody honest is bad before complaints; until commitments, only for three reasons.
LEMMA NoReasonYet ==
  ASSUME TypeOK, BadForReason, NEW n \in Honest
  PROVE  /\ ~Started(n, COMPLAIN) => bad[n] \cap Honest = {}
         /\ phase[n] = JUSTIFY => \A h \in bad[n] \cap Honest :
              NoContribution(n, h) \/ VotedOut(n, h) \/ NotAsked(n, h)
  BY DEF TypeOK, BadForReason, NoContribution, VotedOut, NotAsked, StillOpen, Started, Phases,
         CONTRIBUTE, COMPLAIN, JUSTIFY, COMMIT, FINALIZE

\* SentRightly is preserved.
LEMMA SentRightlyStep ==
  ASSUME TypeOK, SentOnce, OpenMade, BadForReason, SentRightly, ConnectionsKept,
         NEW n \in Honest, Step(n)
  PROVE  SentRightly'
  <1> DEFINE Right(m) ==
         /\ m.kind = "contribution" => m.vvec = Own[m.from]
         /\ m.kind = "complaint" => m.bad \cap Honest \cap Contributors(m.from) = {}
         /\ m.kind = "justification" =>
              m.vvec = Own[m.from] /\ m.good = m.for /\ \A k \in m.for : Accuses(m.from, k, m.from)
  <1>1. ASSUME NEW m \in sent PROVE Right(m)'
    <2>1. m.from \in Honest /\ Right(m)
      BY <1>1 DEF SentOnce, SentRightly
    <2>2. m.kind = "complaint" => Contributors(m.from)' = Contributors(m.from)
      BY <1>1, <2>1, ContributionsStay, PhasePast DEF SentOnce
    <2>. QED  BY <2>1, <2>2, AccusesStay
  <1>2. ASSUME NEW m \in sent', m \notin sent PROVE Right(m)'
    <2>1. CASE SendContributions(n)
      <3>1. m = [kind |-> "contribution", from |-> n, vvec |-> Own[n], good |-> Members]
        BY <1>2, <2>1 DEF SendContributions
      <3>. QED  BY <3>1
    <2>2. CASE VerifyAndComplain(n)
      <3>1. PICK E \in Repeated(n, "complaint"), B \in BadConnections : Complained(n, E, B)
        BY <2>2, Complain
      <3>2. m = Complaint(n, E, B)
        BY <1>2, <3>1 DEF Complained
      <3>3. m.kind = "complaint" /\ m.from = n /\ m.bad = Judged(n, E) \cup (B \ {n})
        BY <3>2 DEF Complaint
      <3>4. B \cap Honest = {} /\ Senders(E) \cap Honest = {}
        BY HonestNotInE, MembersAssumption DEF ConnectionsKept
      <3>5. bad[n] \cap Honest = {}
        BY <2>2, NoReasonYet, StartsOnce DEF VerifyAndComplain
      <3>6. m.bad \cap Honest \cap Contributors(n) = {}
        BY <3>3, <3>4, <3>5 DEF Judged, Worse
      <3>7. Contributors(n)' = Contributors(n)
        BY <2>2, ContributionsStay DEF VerifyAndComplain, Starts, CONTRIBUTE, COMPLAIN
      <3>. QED  BY <3>3, <3>6, <3>7
    <2>3. CASE VerifyAndJustify(n)
      <3>1. PICK E, D : Justified(n, E, D)
        BY <2>3, Justify
      <3>2. m = Justification(n, E)
        BY <1>2, <3>1 DEF Justified
      <3>3. /\ m.kind = "justification" /\ m.from = n /\ m.vvec = Own[n]
            /\ m.for = JustifyFor(n, E) /\ m.good = m.for
        BY <3>2 DEF Justification
      <3>4. \A k \in m.for : Accuses(n, k, n)
        BY <3>3 DEF JustifyFor, OpenMade, Members
      <3>. QED  BY <3>3, <3>4, AccusesStay
    <2>4. CASE VerifyAndCommit(n)
      <3>1. m = Commitment(n)
        BY <1>2, <2>4, Commit
      <3>2. m.kind = "commitment"
        BY <3>1 DEF Commitment
      <3>. QED  BY <3>2
    <2>. QED  BY <1>2, <2>1, <2>2, <2>3, <2>4, SentBy
  <1>. QED  BY <1>1, <1>2 DEF SentRightly

\* OpenMade is preserved: open complaints are about what was complained of.
LEMMA OpenMadeStep ==
  ASSUME TypeOK, OpenMade, NEW n \in Honest, Step(n)
  PROVE  OpenMade'
  <1> SUFFICES ASSUME NEW k \in Honest, NEW m \in Members, NEW a \in Members
               PROVE  /\ <<m, a>> \in open'[k] => phase'[k] > COMPLAIN /\ Accuses(k, a, m)'
                      /\ phase'[k] = JUSTIFY /\ Accuses(k, a, m)' => <<m, a>> \in open'[k]
    BY DEF OpenMade, Members
  <1>1. CASE k = n /\ ReceiveComplaints(n)
    <2>1. PICK F \in FirstOfEach(n, "complaint") :
            \E D \in SUBSET Repeating(F, "complaint") : ComplaintsHeard(n, F, D)
      BY <1>1, HearComplaints
    <2>2. PICK D : ComplaintsHeard(n, F, D)
      BY <2>1
    <2>3. Of(got'[n], "complaint") = Of(got[n], "complaint") \cup F
      BY <2>2, FirstType DEF ComplaintsHeard, TypeOK, Of
    <2>4. open'[n] = UNION {c.complain \X {c.from} : c \in Of(got'[n], "complaint")}
      BY <2>2, <2>3 DEF ComplaintsHeard, TypeOK
    <2>5. phase'[n] = phase[n] + 1 /\ phase[n] = COMPLAIN
      BY <1>1, <2>2 DEF ComplaintsHeard, Ends, TypeOK, ReceiveComplaints, Receives
    <2>6. <<m, a>> \in open'[n] <=> \E c \in Of(got'[n], "complaint") : c.from = a /\ m \in c.complain
      BY <2>4
    <2>. QED  BY <1>1, <2>5, <2>6 DEF Accuses, COMPLAIN
  <1>2. CASE k = n /\ ReceiveJustifications(n)
    <2>1. PICK F, D : JustificationsHeard(n, F, D)
      BY <1>2, HearJustifications
    <2>2. open'[n] \subseteq open[n]
      BY <2>1 DEF JustificationsHeard, TypeOK
    <2>3. phase'[n] = phase[n] + 1 /\ phase[n] = JUSTIFY
      BY <1>2, <2>1 DEF JustificationsHeard, Ends, TypeOK, ReceiveJustifications, Receives
    <2>. QED  BY <1>2, <2>2, <2>3, AccusesStay DEF OpenMade, COMPLAIN, JUSTIFY
  <1>3. CASE open'[k] = open[k] /\ ~(k = n /\ ReceiveComplaints(n))
    <2>1. <<m, a>> \in open[k] => phase'[k] > COMPLAIN /\ Accuses(k, a, m)'
      BY PhaseGrows, PhaseNumbers, AccusesStay DEF OpenMade
    <2>2. phase'[k] = JUSTIFY => phase[k] = JUSTIFY
      BY <1>3, PhaseMoves DEF COMPLAIN, JUSTIFY, COMMIT, FINALIZE
    <2>3. phase[k] = JUSTIFY => (Accuses(k, a, m)' => Accuses(k, a, m))
      BY AccusesStay, PhaseNumbers
    <2>. QED  BY <1>3, <2>1, <2>2, <2>3 DEF OpenMade
  <1>. QED  BY <1>1, <1>2, <1>3, OpenStays

\* the share of an honest member fits what it contributed
LEMMA HonestProves ==
  ASSUME TypeOK, BadWithout, SentOnce, GotSent, SentRightly, NEW n \in Honest, phase[n] = JUSTIFY,
         NEW j \in Available("justification"), j.from \in Honest, j.from \notin bad[n]
  PROVE  Proven(n, j) = j.for
  <1>1. j \in sent /\ j.kind = "justification"
    BY AvailableType, LiesAssumption, MembersAssumption
  <1>2. j.vvec = Own[j.from] /\ j.good = j.for
    BY <1>1 DEF SentRightly
  <1>3. j.from \in Contributors(n)
    BY DEF BadWithout, Started, COMPLAIN, JUSTIFY, Members
  <1>4. \A c \in Of(got[n], "contribution") : c.from = j.from => c.vvec = Own[j.from]
    BY LiesAssumption, MembersAssumption DEF GotSent, SentRightly, Of
  <1>5. \E c \in Of(got[n], "contribution") : c.from = j.from
    BY <1>3 DEF Contributors, Senders
  <1>6. Vvec(n, j.from) = Own[j.from]
    BY <1>4, <1>5 DEF Vvec
  <1>. QED  BY <1>2, <1>6 DEF Proven

\* A justification that answers more than was complained of is for a reason NotAsked.
LEMMA NotAskedFor ==
  ASSUME TypeOK, TypeOK', OpenMade, NEW n \in Honest, Step(n), phase[n] = JUSTIFY,
         Started(n, JUSTIFY)', NEW F \in FirstOfEach(n, "justification"), F \subseteq got'[n],
         NEW j \in F, \E k \in j.for : <<j.from, k>> \notin open[n]
  PROVE  NotAsked(n, j.from)'
  <1>1. j \in Messages /\ j.kind = "justification"
    BY FirstType
  <1>2. PICK k \in j.for : <<j.from, k>> \notin open[n]
    OBVIOUS
  <1>3. k \in Members /\ j.from \in Members
    BY <1>1, <1>2, MessageType
  <1>5. ~Accuses(n, k, j.from)
    BY <1>2, <1>3 DEF OpenMade
  <1>6. ~Accuses(n, k, j.from)'
    BY <1>5, AccusesStay DEF COMPLAIN, JUSTIFY
  <1>7. j \in Of(got'[n], "justification")
    BY <1>1 DEF Of
  <1>. QED  BY <1>6, <1>7 DEF NotAsked

\* So is one of an honest member that comes before the phase and makes it bad.
LEMMA HonestEarly ==
  ASSUME TypeOK, TypeOK', BadWithout, SentOnce, GotSent, SentRightly, OpenMade,
         NEW n \in Honest, Step(n), VerifyAndJustify(n),
         NEW E \in FirstOfEach(n, "justification"), NEW D \in SUBSET Repeating(E, "justification"),
         Justified(n, E, D), NEW j \in E, j.from \in Honest
  PROVE  NotAsked(n, j.from)'
  <1>1. Starts(n, JUSTIFY) /\ phase[n] = JUSTIFY
    BY DEF VerifyAndJustify, Starts
  <1>2. j.from \notin D
    BY HonestNotRepeated
  <1>3. MakesBad(n, j)
    BY <1>2 DEF Justified
  <1>4. j \in Available("justification")
    BY FirstType
  <1>5. Proven(n, j) = j.for
    BY <1>1, <1>3, <1>4, HonestProves DEF MakesBad
  <1>6. \E k \in j.for : <<j.from, k>> \notin open[n]
    BY <1>3, <1>5 DEF MakesBad
  <1>7. E \subseteq got'[n]
    BY DEF Justified, Before, TypeOK
  <1>. QED  BY <1>1, <1>6, <1>7, StartsOnce, NotAskedFor

\* BadForReason is preserved.
LEMMA BadForReasonStep ==
  ASSUME TypeOK, TypeOK', BadWithout, SentOnce, GotSent, SentRightly, OpenMade, BadForReason,
         NEW n \in Honest, Step(n)
  PROVE  BadForReason'
  <1> SUFFICES ASSUME NEW k \in Honest, NEW h \in Honest, h \in bad'[k]
               PROVE  (NoContribution(k, h) \/ VotedOut(k, h) \/ NotAsked(k, h) \/ StillOpen(k, h))'
    BY DEF BadForReason
  <1>1. CASE h \in bad[k]
    BY <1>1, ReasonsStay DEF BadForReason
  <1>2. CASE h \notin bad[k]
    <2>1. k = n
      BY <1>2, Frame
    <2>2. CASE ReceiveContributions(n)
      <3>1. PICK F \in FirstOfEach(n, "contribution") :
              \E D \in SUBSET Repeating(F, "contribution") : ContributionsHeard(n, F, D)
        BY <2>2, HearContributions
      <3>. QED  BY <1>2, <2>1, <3>1, HonestNotRepeated DEF ContributionsHeard, TypeOK
    <2>3. CASE VerifyAndComplain(n)
      <3>1. PICK E \in Repeated(n, "complaint"), B \in BadConnections : Complained(n, E, B)
        BY <2>3, Complain
      <3>2. h \notin Contributors(n)
        BY <1>2, <2>1, <3>1, HonestNotInE DEF Complained, Judged, Worse, TypeOK
      <3>3. Contributors(n)' = Contributors(n)
        BY <2>3, ContributionsStay DEF VerifyAndComplain, Starts, CONTRIBUTE, COMPLAIN
      <3>4. Started(n, COMPLAIN)'
        BY <2>3, StartsOnce DEF VerifyAndComplain
      <3>. QED  BY <2>1, <3>2, <3>3, <3>4 DEF NoContribution
    <2>4. CASE ReceiveComplaints(n)
      <3>1. PICK F \in FirstOfEach(n, "complaint") :
              \E D \in SUBSET Repeating(F, "complaint") : ComplaintsHeard(n, F, D)
        BY <2>4, HearComplaints
      <3>. QED  BY <1>2, <2>1, <3>1, HonestNotRepeated DEF ComplaintsHeard, TypeOK
    <2>5. CASE VerifyAndJustify(n)
      <3>0. PICK E \in FirstOfEach(n, "justification") :
              \E D \in SUBSET Repeating(E, "justification") : Justified(n, E, D)
        BY <2>5, Justify
      <3>1. PICK D \in SUBSET Repeating(E, "justification") : Justified(n, E, D)
        BY <3>0
      <3>2. h \in Senders(E) \/ Cardinality(Voters(n, h)) >= BadVotes
        BY <1>2, <2>1, <3>1 DEF Justified, OverVoted, Worse, TypeOK
      <3>3. Voters(n, h)' = Voters(n, h)
        BY <2>5, AccusesStay DEF VerifyAndJustify, Starts, COMPLAIN, JUSTIFY
      <3>4. Started(n, JUSTIFY)'
        BY <2>5, StartsOnce DEF VerifyAndJustify
      <3>5. h \in Senders(E) => NotAsked(n, h)'
        BY <2>5, <3>1, HonestEarly DEF Senders
      <3>. QED  BY <2>1, <3>2, <3>3, <3>4, <3>5 DEF VotedOut
    <2>6. CASE ReceiveJustifications(n)
      <3>1. PICK F \in FirstOfEach(n, "justification") :
              \E D \in SUBSET Repeating(F, "justification") : JustificationsHeard(n, F, D)
        BY <2>6, HearJustifications
      <3>2. PICK D \in SUBSET Repeating(F, "justification") : JustificationsHeard(n, F, D)
        BY <3>1
      <3>3. h \in Senders((Heard(n, F) \ Asked(n, F)) \cup Wrong(n, F))
        BY <1>2, <2>1, <3>2, HonestNotRepeated DEF JustificationsHeard, TypeOK
      <3>4. PICK j \in (Heard(n, F) \ Asked(n, F)) \cup Wrong(n, F) : j.from = h
        BY <3>3 DEF Senders
      <3>5. j \in Heard(n, F) /\ j \in Available("justification")
        BY FirstType DEF Wrong, Asked, Heard
      <3>6. Proven(n, j) = j.for
        BY <1>2, <2>1, <2>6, <3>4, <3>5, HonestProves DEF ReceiveJustifications, Receives
      <3>7. j \in F /\ \E a \in j.for : <<j.from, a>> \notin open[n]
        BY <3>4, <3>5, <3>6 DEF Wrong, Asked, Heard
      <3>8. phase[n] = JUSTIFY /\ Started(n, JUSTIFY)' /\ F \subseteq got'[n]
        BY <2>6, <3>2 DEF ReceiveJustifications, Receives, JustificationsHeard, Ends, Started, TypeOK,
                          JUSTIFY
      <3>. QED  BY <2>1, <3>4, <3>7, <3>8, NotAskedFor
    <2>7. CASE VerifyAndCommit(n)
      <3>1. h \in Unjustified(n) /\ open' = open
        BY <1>2, <2>1, <2>7, Commit DEF TypeOK
      <3>2. Started(n, COMMIT)'
        BY <2>7, StartsOnce DEF VerifyAndCommit
      <3>. QED  BY <2>1, <3>1, <3>2 DEF StillOpen, Unjustified
    <2>8. CASE UNCHANGED bad
      BY <1>2, <2>8
    <2>. QED  BY <2>2, <2>3, <2>4, <2>5, <2>6, <2>7, <2>8 DEF Step, Abort, SendContributions,
                 ReceiveCommitments, FinalizeCommitments, view
  <1>. QED  BY <1>1, <1>2

\* Answers is preserved.
LEMMA AnswersStep ==
  ASSUME TypeOK, TypeOK', BadWithout, SentOnce, GotSent, SentRightly, OpenMade, BadForReason, Answers,
         NEW n \in Honest, Step(n)
  PROVE  Answers'
  <1> SUFFICES ASSUME NEW k \in Honest, NEW j \in Of(got[k], "justification")', j.from \in Honest
               PROVE  (\/ NoContribution(k, j.from) \/ VotedOut(k, j.from) \/ NotAsked(k, j.from)
                       \/ phase[k] > JUSTIFY /\ Cleared(k, j))'
    BY DEF Answers
  <1>1. CASE j \in got[k]
    <2>1. \/ NoContribution(k, j.from) \/ VotedOut(k, j.from) \/ NotAsked(k, j.from)
          \/ phase[k] > JUSTIFY /\ Cleared(k, j)
      BY <1>1 DEF Answers, Of
    <2>2. phase[k] > JUSTIFY => open'[k] = open[k]
      BY OpenStays DEF ReceiveComplaints, ReceiveJustifications, Receives, COMPLAIN, JUSTIFY
    <2>3. phase[k] > JUSTIFY => phase'[k] > JUSTIFY
      BY PhaseGrows, PhaseNumbers
    <2>. QED  BY <2>1, <2>2, <2>3, ReasonsStay DEF Cleared
  <1>2. CASE j \notin got[k]
    <2>1. k = n /\ phase[n] = JUSTIFY /\ j \in got'[n]
      BY <1>2, Frame, Processed DEF Of
    <2>2. CASE VerifyAndJustify(n)
      <3>0. PICK E \in FirstOfEach(n, "justification") :
              \E D \in SUBSET Repeating(E, "justification") : Justified(n, E, D)
        BY <2>2, Justify
      <3>1. PICK D \in SUBSET Repeating(E, "justification") : Justified(n, E, D)
        BY <3>0
      <3>2. j \in E
        BY <1>2, <2>1, <3>1 DEF Justified, Before, TypeOK
      <3>. QED  BY <2>1, <2>2, <3>1, <3>2, HonestEarly
    <2>3. CASE ReceiveJustifications(n)
      <3>1. PICK F \in FirstOfEach(n, "justification") :
              \E D \in SUBSET Repeating(F, "justification") : JustificationsHeard(n, F, D)
        BY <2>3, HearJustifications
      <3>2. PICK D \in SUBSET Repeating(F, "justification") : JustificationsHeard(n, F, D)
        BY <3>1
      <3>3. j \in F /\ j \in Available("justification")
        BY <1>2, <2>1, <3>2, FirstType DEF JustificationsHeard, TypeOK
      <3>4. phase'[n] > JUSTIFY
        BY <2>1, <3>2 DEF JustificationsHeard, Ends, TypeOK, JUSTIFY
      <3>5. CASE j.from \in bad[n]
        BY <2>1, <3>4, <3>5, NoReasonYet, ReasonsStay
      <3>6. CASE j \in Heard(n, F) /\ j \notin Asked(n, F)
        <4>1. \E a \in j.for : <<j.from, a>> \notin open[n]
          BY <3>6 DEF Asked
        <4>2. Started(n, JUSTIFY)' /\ F \subseteq got'[n]
          BY <3>2, <3>4 DEF JustificationsHeard, Started, TypeOK
        <4>. QED  BY <2>1, <3>3, <4>1, <4>2, NotAskedFor
      <3>7. CASE j \in Asked(n, F)
        <4>1. Proven(n, j) = j.for
          BY <2>1, <3>3, <3>7, HonestProves DEF Asked, Heard
        <4>2. open'[n] = open[n] \ UNION {{i.from} \X Proven(n, i) : i \in Asked(n, F)}
          BY <3>2 DEF JustificationsHeard, TypeOK
        <4>3. {j.from} \X j.for \subseteq UNION {{i.from} \X Proven(n, i) : i \in Asked(n, F)}
          BY <3>7, <4>1
        <4>4. \A a \in j.for : <<j.from, a>> \notin open'[n]
          BY <4>2, <4>3
        <4>. QED  BY <2>1, <3>4, <4>4 DEF Cleared
      <3>. QED  BY <3>3, <3>5, <3>6, <3>7 DEF Heard
    <2>4. CASE UNCHANGED got
      BY <1>2, <2>1, <2>4
    <2>. QED  BY <2>1, <2>2, <2>3, <2>4 DEF Step, Abort, SendContributions, ReceiveContributions,
                 VerifyAndComplain, ReceiveComplaints, VerifyAndCommit, ReceiveCommitments,
                 FinalizeCommitments, Starts, Receives, view, CONTRIBUTE, COMPLAIN, JUSTIFY, COMMIT
  <1>. QED  BY <1>1, <1>2

\* HonestInv is inductive.
LEMMA InitHonest == Init => HonestInv
  BY DEF Init, HonestInv, GotSent, ContributionSent, SentRightly, OpenMade, BadForReason, Answers,
         Started, Of, CONTRIBUTE, COMPLAIN, JUSTIFY

\* HonestInv is preserved.
LEMMA StepHonest ==
  ConnectionsKept /\ TypeInv /\ TypeInv' /\ KeyInv /\ HonestInv /\ [Next]_vars => HonestInv'
  <1> SUFFICES ASSUME ConnectionsKept, TypeInv, TypeInv', KeyInv, HonestInv, [Next]_vars
               PROVE  HonestInv'
    OBVIOUS
  <1> USE DEF TypeInv, KeyInv, HonestInv
  <1>1. CASE UNCHANGED vars
    <2>1. UNCHANGED <<phase, started, got, bad, open, sent>>
      BY <1>1 DEF vars, progress, view
    <2>2. GotSent' /\ ContributionSent' /\ SentRightly' /\ OpenMade'
      BY <2>1 DEF GotSent, ContributionSent, SentRightly, OpenMade, Accuses, Started, Of,
                  Contributors, Senders
    <2>4. \A n, m : /\ Voters(n, m)' = Voters(n, m) /\ Contributors(n)' = Contributors(n)
                    /\ Unjustified(n)' = Unjustified(n)
      BY <2>1 DEF Unjustified, Of, Contributors, Voters, Senders
    <2>5. \A n, h : /\ NoContribution(n, h)' = NoContribution(n, h)
                    /\ VotedOut(n, h)' = VotedOut(n, h)
                    /\ StillOpen(n, h)' = StillOpen(n, h)
      BY <2>1, <2>4 DEF NoContribution, VotedOut, StillOpen, Started
    <2>6. \A n, h : NotAsked(n, h) => NotAsked(n, h)'
      BY <2>1 DEF NotAsked, Accuses, Started, Of
    <2>3. BadForReason' /\ Answers'
      BY <2>1, <2>5, <2>6 DEF BadForReason, Answers, Cleared, Of
    <2>. QED  BY <2>2, <2>3
  <1>2. ASSUME NEW n \in Honest, Step(n) PROVE HonestInv'
    BY <1>2, GotSentStep, ContributionSentStep, SentRightlyStep, OpenMadeStep, BadForReasonStep,
       AnswersStep
  <1>. QED  BY <1>1, <1>2, NextStep

-----------------------------------------------------------------------------

\* fewer faulty members than votes it takes
FewFaulty == Cardinality(Faulty) < BadVotes

\* What InTime says of one message and of two nodes.
LEMMA Timely ==
  ASSUME TypeOK, InTime, NEW n \in Honest, NEW k \in Honest
  PROVE  /\ \A m \in sent :
              \/ m.kind = "contribution" /\ phase[n] > CONTRIBUTE
              \/ m.kind = "justification" /\ phase[n] > JUSTIFY
              => m \in got[n]
         /\ Started(n, COMPLAIN) => Started(k, CONTRIBUTE)
         /\ phase[n] > COMPLAIN => Started(k, COMPLAIN)
         /\ phase[n] > JUSTIFY => Started(k, JUSTIFY)
  <1>1. ASSUME NEW m \in sent,
               \/ m.kind = "contribution" /\ phase[n] > CONTRIBUTE
               \/ m.kind = "justification" /\ phase[n] > JUSTIFY
        PROVE  m \in got[n]
    BY <1>1 DEF InTime
  <1>2. Progress(k) >= 2 * phase[n] - 1
    BY DEF InTime
  <1>3. phase[n] \in 2 .. 6 /\ phase[k] \in 2 .. 6 /\ started[k] \in BOOLEAN
    BY DEF TypeOK, Phases, CONTRIBUTE, FINALIZE
  <1>4. phase[k] > phase[n] - 1 \/ (phase[k] = phase[n] - 1 /\ started[k])
    BY <1>2, <1>3 DEF Progress
  <1>. QED  BY <1>1, <1>3, <1>4 DEF Started, CONTRIBUTE, COMPLAIN, JUSTIFY

\* The first reason: an honest member was not heard.
LEMMA HonestContribute ==
  ASSUME TypeOK, HonestInv, InTime, NEW n \in Honest, NEW h \in Honest
  PROVE  ~NoContribution(n, h)
  <1> SUFFICES ASSUME NoContribution(n, h) PROVE FALSE
    OBVIOUS
  <1>1. Started(h, CONTRIBUTE) /\ phase[n] > CONTRIBUTE
    BY Timely, PhasePast DEF NoContribution
  <1>2. PICK c \in Of(sent, "contribution") : c.from = h
    BY <1>1 DEF HonestInv, ContributionSent
  <1>3. c \in got[n]
    BY <1>1, <1>2, Timely DEF Of
  <1>. QED  BY <1>2, <1>3 DEF NoContribution, Contributors, Senders, Of

\* The second: too many votes against it.
LEMMA HonestNotVotedOut ==
  ASSUME FewFaulty, TypeOK, SentOnce, HonestInv, InTime, NEW n \in Honest, NEW h \in Honest
  PROVE  ~VotedOut(n, h)
  <1>1. Voters(n, h) \subseteq Faulty
    <2> SUFFICES ASSUME NEW c \in Of(got[n], "complaint"), h \in c.bad
                 PROVE  c.from \in Faulty
      BY DEF Voters, Senders
    <2>1. CASE c \in Lies
      BY <2>1, LiesAssumption
    <2>2. CASE c \in sent
      <3>1. c.from \in Honest /\ Started(c.from, COMPLAIN)
        BY <2>2 DEF SentOnce, Of
      <3>2. h \notin Contributors(c.from)
        BY <2>2 DEF HonestInv, SentRightly, Of
      <3>. QED  BY <3>1, <3>2, HonestContribute DEF NoContribution
    <2>. QED  BY <2>1, <2>2 DEF HonestInv, GotSent, Of
  <1>2. /\ Cardinality(Voters(n, h)) <= Cardinality(Faulty)
        /\ Cardinality(Voters(n, h)) \in Nat /\ Cardinality(Faulty) \in Nat /\ BadVotes \in Nat
    BY <1>1, MembersAssumption, FS_Subset, FS_CardinalityType
  <1>. QED  BY <1>2 DEF FewFaulty, VotedOut

\* Complaints about honest members are alike.
LEMMA SameComplaints ==
  ASSUME TypeOK, InTime, ComplaintsAlike, NEW n \in Honest, NEW h \in Honest, phase[n] > JUSTIFY
  PROVE  /\ Started(h, JUSTIFY)
         /\ \A k, m : Accuses(n, k, m) = Accuses(h, k, m)
  <1>1. Started(h, JUSTIFY) /\ phase[h] > COMPLAIN /\ phase[n] > COMPLAIN
    BY Timely, PhasePast
  <1>2. Of(got[n], "complaint") = Of(got[h], "complaint")
    BY <1>1 DEF ComplaintsAlike, Past
  <1>. QED  BY <1>1, <1>2 DEF Accuses

\* The third: a justification nobody asked for.
LEMMA HonestAsked ==
  ASSUME TypeOK, SentOnce, HonestInv, InTime, ComplaintsAlike, NEW n \in Honest, NEW h \in Honest
  PROVE  ~NotAsked(n, h)
  <1> SUFFICES ASSUME NotAsked(n, h) PROVE FALSE
    OBVIOUS
  <1>1. PICK j \in Of(got[n], "justification") : j.from = h /\ \E k \in j.for : ~Accuses(n, k, h)
    BY DEF NotAsked
  <1>2. j \in sent /\ j.kind = "justification"
    BY <1>1, LiesAssumption, MembersAssumption DEF HonestInv, GotSent, Of
  <1>3. \A k \in j.for : Accuses(h, k, h)
    BY <1>1, <1>2 DEF HonestInv, SentRightly
  <1>4. phase[h] > COMPLAIN /\ phase[n] > COMPLAIN
    BY <1>1, <1>2, PhasePast DEF SentOnce, NotAsked
  <1>5. Of(got[n], "complaint") = Of(got[h], "complaint")
    BY <1>4 DEF ComplaintsAlike, Past
  <1>. QED  BY <1>1, <1>3, <1>5 DEF Accuses

\* The fourth: a complaint that stays open.
LEMMA HonestAnswer ==
  ASSUME FewFaulty, TypeOK, SentOnce, HonestInv, InTime, ComplaintsAlike, NoneIgnored,
         NEW n \in Honest, NEW h \in Honest
  PROVE  ~StillOpen(n, h)
  <1> SUFFICES ASSUME StillOpen(n, h) PROVE FALSE
    OBVIOUS
  <1>1. PICK k \in Members : <<h, k>> \in open[n]
    BY DEF StillOpen, Unjustified
  <1>2. phase[n] > JUSTIFY
    BY PhasePast DEF StillOpen
  <1>3. Accuses(n, k, h)
    BY <1>1 DEF HonestInv, OpenMade, Members
  <1>4. Started(h, JUSTIFY) /\ Accuses(h, k, h)
    BY <1>2, <1>3, SameComplaints
  <1>5. Progress(h) > 2 * JUSTIFY
    BY <1>4 DEF Started, Progress, TypeOK, Phases, CONTRIBUTE, JUSTIFY, FINALIZE
  <1>6. PICK j \in Of(sent, "justification") : j.from = h /\ k \in j.for
    BY <1>4, <1>5 DEF Accuses, NoneIgnored
  <1>7. j \in Of(got[n], "justification")
    BY <1>2, <1>6, Timely DEF Of
  <1>8. Cleared(n, j)
    BY <1>6, <1>7, HonestContribute, HonestNotVotedOut, HonestAsked DEF HonestInv, Answers
  <1>. QED  BY <1>1, <1>6, <1>8 DEF Cleared

\* No reason is left.
LEMMA NoReasonAgainstHonest ==
  FewFaulty /\ TypeOK /\ KeyInv /\ HonestInv => HonestStayValid
  <1> SUFFICES ASSUME FewFaulty, TypeOK, KeyInv, HonestInv, InTime, ComplaintsAlike, NoneIgnored,
                      NEW n \in Honest, NEW h \in bad[n], h \in Honest
               PROVE  FALSE
    BY DEF HonestStayValid
  <1>1. NoContribution(n, h) \/ VotedOut(n, h) \/ NotAsked(n, h) \/ StillOpen(n, h)
    BY DEF HonestInv, BadForReason
  <1>. QED  BY <1>1, HonestContribute, HonestNotVotedOut, HonestAsked, HonestAnswer DEF KeyInv

\* HonestStayValid of any session with fewer faulty members than dkgBadVotesThreshold, in which
\* nobody objects to the connection of an honest one.
THEOREM HonestMembersStayValid ==
  FewFaulty /\ ConnectionsKept => (Spec => []HonestStayValid)
  <1> SUFFICES ASSUME FewFaulty, ConnectionsKept PROVE Spec => []HonestStayValid
    OBVIOUS
  <1>1. TypeInv /\ TypeInv' /\ KeyInv /\ HonestInv /\ [Next]_vars => HonestInv'
    BY StepHonest
  <1>2. Spec => [](TypeInv /\ KeyInv /\ HonestInv)
    BY <1>1, InitType, InitKey, InitHonest, StepType, StepKey, PTL DEF Spec
  <1>3. TypeInv /\ KeyInv /\ HonestInv => HonestStayValid
    BY NoReasonAgainstHonest DEF TypeInv
  <1>. QED  BY <1>2, <1>3, PTL

-----------------------------------------------------------------------------
(***************************************************************************)
(* The session succeeds.                                                   *)
(***************************************************************************)

Justifying(n, m) == {j \in Of(got[n], "justification") : j.from = m}

\* those for whom j justifies its sender did complain
WasAsked(n, j) == \A k \in j.for : Accuses(n, k, j.from)

\* whose justification is not looked at
Ignored(n, m) == m \in twice[n] \/ NoContribution(n, m) \/ VotedOut(n, m)

Misjustified(n, m) ==
  Started(n, JUSTIFY) /\ \E j \in Justifying(n, m) : ~WasAsked(n, j) \/ Proven(n, j) # j.for

\* k complained about m, and no justification showed a share that fits
Outstanding(n, m, k) ==
  Accuses(n, k, m) /\ \A j \in Justifying(n, m) : WasAsked(n, j) => k \notin Proven(n, j)
Unanswered(n, m) == Started(n, COMMIT) /\ \E k \in Members : Outstanding(n, m, k)

\* a justification before its phase makes its sender bad
EarlyBad ==
  \A n \in Honest : phase[n] <= JUSTIFY => \A j \in Of(got[n], "justification") :
    j.from \in twice[n] \/ Misjustified(n, j.from)

\* who is bad for a node is a function of the messages it processed and of whose were two
BadExactly ==
  \A n \in Honest : \A m \in Members :
    m \in bad[n] <=> Ignored(n, m) \/ Misjustified(n, m) \/ Unanswered(n, m)

\* and so are the complaints that stay open, but for members that are bad anyway
OpenExactly ==
  \A n \in Honest : phase[n] > JUSTIFY => \A m, k \in Members :
    ~Ignored(n, m) /\ ~Misjustified(n, m) => (<<m, k>> \in open[n] <=> Outstanding(n, m, k))

JudgeInv == EarlyBad /\ BadExactly /\ OpenExactly

\* Justifications, too, stay what they are once their phase is over.
LEMMA JustificationsStay ==
  ASSUME TypeOK, NEW n \in Honest, Step(n), NEW k \in Honest, phase[k] > JUSTIFY
  PROVE  Of(got[k], "justification")' = Of(got[k], "justification")
  <1>1. CASE k # n
    BY <1>1, Frame DEF Of
  <1>2. CASE k = n
    BY <1>2, Frame, Processed DEF Of, CONTRIBUTE, COMPLAIN, JUSTIFY, COMMIT
  <1>. QED  BY <1>1, <1>2

\* Two actions process justifications.
LEMMA JustificationsMade ==
  ASSUME TypeOK, NEW n \in Honest, Step(n), NEW k \in Honest,
         Of(got'[k], "justification") # Of(got[k], "justification")
  PROVE  k = n /\ (VerifyAndJustify(n) \/ ReceiveJustifications(n))
  <1>1. k = n /\ got[n] \subseteq got'[n]
    BY Frame
  <1>2. PICK j \in got'[n] : j \notin got[n] /\ j.kind = "justification"
    BY <1>1 DEF Of
  <1>3. phase[n] = JUSTIFY
    BY <1>2, Processed
  <1>. QED  BY <1>1, <1>2, <1>3 DEF Step, Abort, SendContributions, ReceiveContributions,
               VerifyAndComplain, ReceiveComplaints, VerifyAndCommit, ReceiveCommitments,
               FinalizeCommitments, Starts, Receives, view, CONTRIBUTE, COMPLAIN, JUSTIFY, COMMIT

\* Whose messages were two is found out in three phases.
LEMMA TwiceStays ==
  ASSUME TypeOK, NEW n \in Honest, Step(n), NEW k \in Honest
  PROVE  \/ twice'[k] = twice[k]
         \/ /\ k = n /\ phase[n] \in {CONTRIBUTE, COMPLAIN, JUSTIFY}
            /\ \/ ReceiveContributions(n) \/ VerifyAndComplain(n) \/ ReceiveComplaints(n)
               \/ VerifyAndJustify(n) \/ ReceiveJustifications(n)
  <1>1. CASE k # n
    BY <1>1, Frame
  <1>2. CASE k = n
    <2>1. CASE Abort(n) \/ SendContributions(n) \/ VerifyAndCommit(n) \/ ReceiveCommitments(n)
               \/ FinalizeCommitments(n)
      BY <1>2, <2>1 DEF Abort, SendContributions, VerifyAndCommit, ReceiveCommitments,
                        FinalizeCommitments, view
    <2>2. CASE ReceiveContributions(n) \/ ReceiveComplaints(n) \/ ReceiveJustifications(n)
      BY <1>2, <2>2 DEF ReceiveContributions, ReceiveComplaints, ReceiveJustifications, Receives
    <2>3. CASE VerifyAndComplain(n) \/ VerifyAndJustify(n)
      BY <1>2, <2>3 DEF VerifyAndComplain, VerifyAndJustify, Starts
    <2>. QED  BY <2>1, <2>2, <2>3 DEF Step
  <1>. QED  BY <1>1, <1>2

\* A member whose messages were two stays one.
LEMMA TwiceGrows ==
  ASSUME TypeOK, NEW n \in Honest, Step(n), NEW k \in Honest
  PROVE  twice[k] \subseteq twice'[k]
  <1>1. CASE ReceiveContributions(n)
    <2>1. PICK F, D : ContributionsHeard(n, F, D)
      BY <1>1, HearContributions
    <2>. QED  BY <2>1 DEF ContributionsHeard, TypeOK
  <1>2. CASE VerifyAndComplain(n)
    <2>1. PICK E, B : Complained(n, E, B)
      BY <1>2, Complain
    <2>. QED  BY <2>1 DEF Complained, Before, TypeOK
  <1>3. CASE ReceiveComplaints(n)
    <2>1. PICK F, D : ComplaintsHeard(n, F, D)
      BY <1>3, HearComplaints
    <2>. QED  BY <2>1 DEF ComplaintsHeard, TypeOK
  <1>4. CASE VerifyAndJustify(n)
    <2>1. PICK E, D : Justified(n, E, D)
      BY <1>4, Justify
    <2>. QED  BY <2>1 DEF Justified, Before, TypeOK
  <1>5. CASE ReceiveJustifications(n)
    <2>1. PICK F, D : JustificationsHeard(n, F, D)
      BY <1>5, HearJustifications
    <2>. QED  BY <2>1 DEF JustificationsHeard, TypeOK
  <1>. QED  BY <1>1, <1>2, <1>3, <1>4, <1>5, TwiceStays

\* A justification that was not asked for, or is wrong, stays one.
LEMMA MisjustifiedStays ==
  ASSUME TypeOK, NEW n \in Honest, Step(n), NEW k \in Honest, NEW m, Misjustified(k, m)
  PROVE  Misjustified(k, m)'
  <1>1. Started(k, JUSTIFY)' /\ phase[k] > COMPLAIN /\ phase[k] > CONTRIBUTE
    BY Frame, PhasePast, PhaseNumbers DEF Misjustified, Phases, CONTRIBUTE, COMPLAIN, FINALIZE
  <1>2. PICK j \in Justifying(k, m) : ~WasAsked(k, j) \/ Proven(k, j) # j.for
    BY DEF Misjustified
  <1>3. j \in Justifying(k, m)'
    BY Frame DEF Justifying, Of
  <1>4. WasAsked(k, j)' <=> WasAsked(k, j)
    BY <1>1, AccusesStay DEF WasAsked
  <1>5. Proven(k, j)' = Proven(k, j)
    BY <1>1, ContributionsStay DEF Proven
  <1>. QED  BY <1>1, <1>2, <1>3, <1>4, <1>5 DEF Misjustified

\* One that comes before its phase is repeated, not asked for or wrong.
LEMMA EarlyJustifications ==
  ASSUME TypeOK, TypeOK', OpenMade, NEW n \in Honest, Step(n), VerifyAndJustify(n),
         NEW E \in FirstOfEach(n, "justification"), NEW D, Justified(n, E, D), NEW j \in E
  PROVE  j \in Justifying(n, j.from)' /\ (j.from \in twice'[n] \/ Misjustified(n, j.from)')
  <1>1. Starts(n, JUSTIFY) /\ phase[n] = JUSTIFY
    BY DEF VerifyAndJustify, Starts
  <1>2. j \in Messages /\ j.kind = "justification"
    BY FirstType
  <1>3. j.from \in Members /\ j.for \subseteq Members
    BY <1>2, MessageType
  <1>4. j \in Justifying(n, j.from)'
    BY <1>2 DEF Justified, Before, TypeOK, Justifying, Of
  <1>5. CASE j.from \in D
    BY <1>4, <1>5 DEF Justified, Before, TypeOK
  <1>6. CASE MakesBad(n, j)
    <2>1. phase[n] > COMPLAIN /\ phase[n] > CONTRIBUTE
      BY <1>1 DEF CONTRIBUTE, COMPLAIN, JUSTIFY
    <2>2. \A k \in j.for : <<j.from, k>> \in open[n] <=> Accuses(n, k, j.from)'
      BY <1>1, <1>3, <2>1, AccusesStay DEF OpenMade
    <2>3. Proven(n, j)' = Proven(n, j)
      BY <2>1, ContributionsStay DEF Proven
    <2>4. ~WasAsked(n, j)' \/ Proven(n, j)' # j.for
      BY <1>6, <2>2, <2>3 DEF MakesBad, WasAsked
    <2>. QED  BY <1>1, <1>4, <2>4, StartsOnce DEF Misjustified
  <1>. QED  BY <1>4, <1>5, <1>6 DEF Justified

\* EarlyBad is preserved.
LEMMA EarlyBadStep ==
  ASSUME TypeOK, TypeOK', OpenMade, EarlyBad, NEW n \in Honest, Step(n)
  PROVE  EarlyBad'
  <1> SUFFICES ASSUME NEW k \in Honest, phase'[k] <= JUSTIFY,
                      NEW j \in Of(got[k], "justification")'
               PROVE  j.from \in twice'[k] \/ Misjustified(k, j.from)'
    BY DEF EarlyBad
  <1>1. phase[k] <= JUSTIFY
    BY PhaseMoves DEF TypeOK, Phases, CONTRIBUTE, COMPLAIN, JUSTIFY, COMMIT, FINALIZE
  <1>2. CASE j \in got[k]
    <2>1. j.from \in twice[k] \/ Misjustified(k, j.from)
      BY <1>1, <1>2 DEF EarlyBad, Of
    <2>. QED  BY <2>1, TwiceGrows, MisjustifiedStays
  <1>3. CASE j \notin got[k]
    <2>1. k = n /\ phase[n] = JUSTIFY /\ j \in got'[n]
      BY <1>3, Frame, Processed DEF Of
    <2>2. VerifyAndJustify(n)
      <3>1. ~ReceiveJustifications(n)
        <4>1. SUFFICES ASSUME ReceiveJustifications(n) PROVE FALSE
          OBVIOUS
        <4>2. PICK F, D : JustificationsHeard(n, F, D)
          BY <4>1, HearJustifications
        <4>. QED  BY <2>1, <4>2 DEF JustificationsHeard, Ends, TypeOK, JUSTIFY
      <3>. QED  BY <1>3, <2>1, <3>1 DEF Step, Abort, SendContributions, ReceiveContributions,
                   VerifyAndComplain, ReceiveComplaints, VerifyAndCommit, ReceiveCommitments,
                   FinalizeCommitments, Starts, Receives, view, CONTRIBUTE, COMPLAIN, JUSTIFY, COMMIT
    <2>0. PICK E \in FirstOfEach(n, "justification") : \E D : Justified(n, E, D)
      BY <2>2, Justify
    <2>3. PICK D : Justified(n, E, D)
      BY <2>0
    <2>4. j \in E
      BY <1>3, <2>1, <2>3 DEF Justified, Before, TypeOK
    <2>. QED  BY <2>1, <2>2, <2>3, <2>4, EarlyJustifications
  <1>. QED  BY <1>2, <1>3

\* After justifications, it is settled which were asked for, and which are right.
LEMMA AnswersStay ==
  ASSUME TypeOK, NEW n \in Honest, Step(n), NEW k \in Honest, phase[k] > JUSTIFY
  PROVE  /\ \A m : Justifying(k, m)' = Justifying(k, m)
         /\ \A j : (WasAsked(k, j)' <=> WasAsked(k, j)) /\ Proven(k, j)' = Proven(k, j)
         /\ \A m, i : Outstanding(k, m, i)' <=> Outstanding(k, m, i)
  <1>1. phase[k] > COMPLAIN /\ phase[k] > CONTRIBUTE
    BY PhasePast, PhaseNumbers DEF Phases
  <1>2. \A m : Justifying(k, m)' = Justifying(k, m)
    BY JustificationsStay DEF Justifying
  <1>3. \A a, m : Accuses(k, a, m)' <=> Accuses(k, a, m)
    BY <1>1, AccusesStay
  <1>4. \A j : WasAsked(k, j)' <=> WasAsked(k, j)
    BY <1>3 DEF WasAsked
  <1>5. \A j : Proven(k, j)' = Proven(k, j)
    BY <1>1, ContributionsStay DEF Proven
  <1>. QED  BY <1>2, <1>3, <1>4, <1>5 DEF Outstanding

\* Each reason to find a member bad is made by one action, or two.
LEMMA ReasonsMade ==
  ASSUME TypeOK, TypeOK', NEW n \in Honest, Step(n), NEW k \in Honest, NEW m
  PROVE  /\ \/ k = n /\ VerifyAndComplain(n)
            \/ NoContribution(k, m)' <=> NoContribution(k, m)
         /\ \/ k = n /\ VerifyAndJustify(n)
            \/ VotedOut(k, m)' <=> VotedOut(k, m)
         /\ \/ k = n /\ (VerifyAndJustify(n) \/ ReceiveJustifications(n))
            \/ Misjustified(k, m)' <=> Misjustified(k, m)
         /\ \/ k = n /\ VerifyAndCommit(n)
            \/ Unanswered(k, m)' <=> Unanswered(k, m)
  <1>1. \A p \in Phases : Started(k, p) => Started(k, p)'
    BY Frame
  <1>2. \/ k = n /\ VerifyAndComplain(n)
        \/ NoContribution(k, m)' <=> NoContribution(k, m)
    <2>1. CASE Started(k, COMPLAIN)
      BY <1>1, <2>1, PhasePast, PhaseNumbers, ContributionsStay DEF NoContribution
    <2>2. CASE ~Started(k, COMPLAIN)
      BY <2>2, PhaseNumbers, StartedBy DEF NoContribution
    <2>. QED  BY <2>1, <2>2
  <1>3. \/ k = n /\ VerifyAndJustify(n)
        \/ VotedOut(k, m)' <=> VotedOut(k, m)
    <2>1. CASE Started(k, JUSTIFY)
      BY <1>1, <2>1, PhasePast, PhaseNumbers, AccusesStay DEF VotedOut
    <2>2. CASE ~Started(k, JUSTIFY)
      BY <2>2, PhaseNumbers, StartedBy DEF VotedOut
    <2>. QED  BY <2>1, <2>2
  <1>4. \/ k = n /\ (VerifyAndJustify(n) \/ ReceiveJustifications(n))
        \/ Misjustified(k, m)' <=> Misjustified(k, m)
    <2>1. CASE ~Started(k, JUSTIFY)
      BY <2>1, PhaseNumbers, StartedBy DEF Misjustified
    <2>2. CASE Started(k, JUSTIFY) /\ Of(got'[k], "justification") = Of(got[k], "justification")
      <3>1. Started(k, JUSTIFY)' /\ phase[k] > COMPLAIN /\ phase[k] > CONTRIBUTE
        BY <1>1, <2>2, PhasePast, PhaseNumbers DEF Phases, CONTRIBUTE, COMPLAIN, FINALIZE
      <3>2. \A j : (WasAsked(k, j)' <=> WasAsked(k, j)) /\ Proven(k, j)' = Proven(k, j)
        BY <3>1, AccusesStay, ContributionsStay DEF WasAsked, Proven
      <3>3. Justifying(k, m)' = Justifying(k, m)
        BY <2>2 DEF Justifying
      <3>. QED  BY <2>2, <3>1, <3>2, <3>3 DEF Misjustified
    <2>3. CASE Of(got'[k], "justification") # Of(got[k], "justification")
      BY <2>3, JustificationsMade
    <2>. QED  BY <2>1, <2>2, <2>3
  <1>5. \/ k = n /\ VerifyAndCommit(n)
        \/ Unanswered(k, m)' <=> Unanswered(k, m)
    <2>1. CASE Started(k, COMMIT)
      BY <1>1, <2>1, PhasePast, PhaseNumbers, AnswersStay DEF Unanswered
    <2>2. CASE ~Started(k, COMMIT)
      BY <2>2, PhaseNumbers, StartedBy DEF Unanswered
    <2>. QED  BY <2>1, <2>2
  <1>. QED  BY <1>2, <1>3, <1>4, <1>5

\* A justification counts as asked for if all those it is for complained.
LEMMA AskedExactly ==
  ASSUME TypeOK, OpenMade, NEW n \in Honest, phase[n] = JUSTIFY,
         NEW F \in FirstOfEach(n, "justification"), NEW j \in Heard(n, F)
  PROVE  j \in Asked(n, F) <=> WasAsked(n, j)
  <1>1. j \in F /\ j \in Messages /\ j.kind = "justification"
    BY FirstType DEF Heard
  <1>2. j.from \in Members /\ j.for \subseteq Members
    BY <1>1, MessageType
  <1>3. \A k \in j.for : <<j.from, k>> \in open[n] <=> Accuses(n, k, j.from)
    BY <1>2 DEF OpenMade
  <1>. QED  BY <1>3 DEF Asked, WasAsked

\* The justifications of a member after their phase: those heard, and an earlier one if it made
\* the member bad.
LEMMA JustifyingThen ==
  ASSUME TypeOK, EarlyBad, NEW n \in Honest, Step(n), phase[n] = JUSTIFY,
         NEW F \in FirstOfEach(n, "justification"), NEW D, JustificationsHeard(n, F, D), NEW m
  PROVE  /\ \A j \in F : j.from = m => j \in Justifying(n, m)'
         /\ \A j \in Justifying(n, m)' :
              j.from = m /\ (j \in F \/ m \in twice[n] \/ Misjustified(n, m))
         /\ \A j : (WasAsked(n, j)' <=> WasAsked(n, j)) /\ Proven(n, j)' = Proven(n, j)
         /\ \A i : Accuses(n, i, m)' <=> Accuses(n, i, m)
  <1>1. got'[n] = got[n] \cup F /\ \A j \in F : j.kind = "justification"
    BY FirstType DEF JustificationsHeard, TypeOK
  <1>2. \A j \in Of(got[n], "justification") : j.from \in twice[n] \/ Misjustified(n, j.from)
    BY DEF EarlyBad, JUSTIFY
  <1>3. phase[n] > COMPLAIN /\ phase[n] > CONTRIBUTE
    BY DEF CONTRIBUTE, COMPLAIN, JUSTIFY
  <1>4. \A a, i : Accuses(n, a, i)' <=> Accuses(n, a, i)
    BY <1>3, AccusesStay
  <1>5. \A j : WasAsked(n, j)' <=> WasAsked(n, j)
    BY <1>4 DEF WasAsked
  <1>6. \A j : Proven(n, j)' = Proven(n, j)
    BY <1>3, ContributionsStay DEF Proven
  <1>7. \A j \in F : j.from = m => j \in Justifying(n, m)'
    BY <1>1 DEF Justifying, Of
  <1>8. \A j \in Justifying(n, m)' :
          j.from = m /\ (j \in F \/ m \in twice[n] \/ Misjustified(n, m))
    BY <1>1, <1>2 DEF Justifying, Of
  <1>. QED  BY <1>4, <1>5, <1>6, <1>7, <1>8

\* Until justifications are heard, only those are bad whose justification is not looked at, and
\* those whose justification came before.
LEMMA BadIgnored ==
  ASSUME TypeOK, BadExactly, NEW n \in Honest, phase[n] = JUSTIFY, NEW m \in Members
  PROVE  m \in bad[n] <=> Ignored(n, m) \/ Misjustified(n, m)
  BY PhaseNumbers DEF BadExactly, Unanswered, Started, JUSTIFY, COMMIT

\* Each action that finds members bad finds those bad for which there is a reason: two messages,
LEMMA BadWhenTwice ==
  ASSUME TypeOK, TypeOK', BadExactly, NEW n \in Honest, Step(n),
         ReceiveContributions(n) \/ ReceiveComplaints(n), NEW m \in Members
  PROVE  (m \in bad[n] <=> Ignored(n, m) \/ Misjustified(n, m) \/ Unanswered(n, m))'
  <1>1. \E D : bad'[n] = bad[n] \cup D /\ twice'[n] = twice[n] \cup D
    <2>1. CASE ReceiveContributions(n)
      BY <2>1 DEF ReceiveContributions, TypeOK
    <2>2. CASE ReceiveComplaints(n)
      BY <2>2 DEF ReceiveComplaints, TypeOK
    <2>. QED  BY <2>1, <2>2
  <1>2. ~VerifyAndComplain(n) /\ ~VerifyAndJustify(n) /\ ~ReceiveJustifications(n) /\ ~VerifyAndCommit(n)
    BY DEF ReceiveContributions, ReceiveComplaints, VerifyAndComplain, VerifyAndJustify,
           ReceiveJustifications, VerifyAndCommit, Starts, Receives, CONTRIBUTE, COMPLAIN, JUSTIFY
  <1>3. /\ NoContribution(n, m)' <=> NoContribution(n, m)
        /\ VotedOut(n, m)' <=> VotedOut(n, m)
        /\ Misjustified(n, m)' <=> Misjustified(n, m)
        /\ Unanswered(n, m)' <=> Unanswered(n, m)
    BY <1>2, ReasonsMade
  <1>. QED  BY <1>1, <1>3 DEF BadExactly, Ignored

\* no contribution,
LEMMA BadWhenMissing ==
  ASSUME TypeOK, TypeOK', BadExactly, NEW n \in Honest, Step(n), VerifyAndComplain(n), NEW m \in Members
  PROVE  (m \in bad[n] <=> Ignored(n, m) \/ Misjustified(n, m) \/ Unanswered(n, m))'
  <1>1. PICK E, B : Complained(n, E, B)
    BY Complain
  <1>2. /\ bad'[n] = bad[n] \cup Senders(E) \cup (Members \ Contributors(n))
        /\ twice'[n] = twice[n] \cup Senders(E)
    BY <1>1 DEF Complained, Before, Judged, Worse, TypeOK
  <1>3. Starts(n, COMPLAIN)
    BY DEF VerifyAndComplain
  <1>4. ~VerifyAndJustify(n) /\ ~ReceiveJustifications(n) /\ ~VerifyAndCommit(n)
    BY <1>3 DEF VerifyAndJustify, ReceiveJustifications, VerifyAndCommit, Starts, Receives,
                COMPLAIN, JUSTIFY, COMMIT
  <1>5. /\ VotedOut(n, m)' <=> VotedOut(n, m)
        /\ Misjustified(n, m)' <=> Misjustified(n, m)
        /\ Unanswered(n, m)' <=> Unanswered(n, m)
    BY <1>4, ReasonsMade
  <1>6. Contributors(n)' = Contributors(n)
    BY <1>3, ContributionsStay DEF Starts, CONTRIBUTE, COMPLAIN
  <1>7. ~NoContribution(n, m) /\ (NoContribution(n, m)' <=> m \notin Contributors(n))
    BY <1>3, <1>6, StartsOnce DEF NoContribution
  <1>. QED  BY <1>2, <1>5, <1>7 DEF BadExactly, Ignored

\* the votes, and justifications that came before,
LEMMA BadWhenVotedOut ==
  ASSUME TypeOK, TypeOK', EarlyBad, BadExactly, OpenMade, NEW n \in Honest, Step(n), VerifyAndJustify(n), NEW m \in Members
  PROVE  (m \in bad[n] <=> Ignored(n, m) \/ Misjustified(n, m) \/ Unanswered(n, m))'
  <1>0. PICK E \in FirstOfEach(n, "justification") :
          \E D \in SUBSET Repeating(E, "justification") : Justified(n, E, D)
    BY Justify
  <1>1. PICK D \in SUBSET Repeating(E, "justification") : Justified(n, E, D)
    BY <1>0
  <1>2. /\ bad'[n] = bad[n] \cup Senders(E) \cup {i \in Members : Cardinality(Voters(n, i)) >= BadVotes}
        /\ twice'[n] = twice[n] \cup D /\ D \subseteq Senders(E)
        /\ got'[n] = got[n] \cup E
    BY <1>1 DEF Repeating, Justified, Before, OverVoted, Worse, TypeOK
  <1>3. Starts(n, JUSTIFY)
    BY DEF VerifyAndJustify
  <1>4. ~VerifyAndComplain(n) /\ ~ReceiveJustifications(n) /\ ~VerifyAndCommit(n)
    BY <1>3 DEF VerifyAndComplain, ReceiveJustifications, VerifyAndCommit, Starts, Receives,
                COMPLAIN, JUSTIFY, COMMIT
  <1>5. /\ NoContribution(n, m)' <=> NoContribution(n, m)
        /\ Unanswered(n, m)' <=> Unanswered(n, m)
    BY <1>4, ReasonsMade
  <1>6. Voters(n, m)' = Voters(n, m)
    BY <1>3, AccusesStay DEF Starts, COMPLAIN, JUSTIFY
  <1>7. ~VotedOut(n, m) /\ (VotedOut(n, m)' <=> Cardinality(Voters(n, m)) >= BadVotes)
    BY <1>3, <1>6, StartsOnce DEF VotedOut
  <1>8. m \in bad[n] <=> Ignored(n, m) \/ Unanswered(n, m)
    BY <1>3, StartsOnce DEF BadExactly, Misjustified
  <1>9. m \in Senders(E) => m \in twice'[n] \/ Misjustified(n, m)'
    BY <1>1, EarlyJustifications DEF Senders
  <1>10. Misjustified(n, m)' => m \in twice[n] \/ m \in Senders(E)
    <2>1. phase[n] <= JUSTIFY /\ ~Started(n, JUSTIFY)
      <3>1. phase[n] = JUSTIFY
        BY <1>3 DEF Starts
      <3>. QED  BY <1>3, <3>1, StartsOnce DEF JUSTIFY
    <2>2. \A j \in Of(got[n], "justification") : j.from \in twice[n]
      BY <2>1 DEF EarlyBad, Misjustified
    <2>. QED  BY <1>2, <2>2 DEF Misjustified, Justifying, Of, Senders
  <1>. QED  BY <1>2, <1>5, <1>7, <1>8, <1>9, <1>10 DEF Ignored

\* a complaint that stays open,
LEMMA BadWhenOpen ==
  ASSUME TypeOK, TypeOK', BadExactly, OpenExactly, NEW n \in Honest, Step(n), VerifyAndCommit(n),
         NEW m \in Members
  PROVE  (m \in bad[n] <=> Ignored(n, m) \/ Misjustified(n, m) \/ Unanswered(n, m))'
  <1>1. bad'[n] = bad[n] \cup Unjustified(n) /\ twice'[n] = twice[n]
    BY Commit DEF TypeOK
  <1>2. Starts(n, COMMIT) /\ phase[n] > JUSTIFY
    BY DEF VerifyAndCommit, Starts, JUSTIFY, COMMIT
  <1>3. ~VerifyAndComplain(n) /\ ~VerifyAndJustify(n) /\ ~ReceiveJustifications(n)
    BY <1>2 DEF VerifyAndComplain, VerifyAndJustify, ReceiveJustifications, Starts, Receives,
                COMPLAIN, JUSTIFY, COMMIT
  <1>4. /\ NoContribution(n, m)' <=> NoContribution(n, m)
        /\ VotedOut(n, m)' <=> VotedOut(n, m)
        /\ Misjustified(n, m)' <=> Misjustified(n, m)
    BY <1>3, ReasonsMade
  <1>5. ~Unanswered(n, m) /\ (Unanswered(n, m)' <=> \E k \in Members : Outstanding(n, m, k))
    BY <1>2, StartsOnce, AnswersStay DEF Unanswered
  <1>6. ~Ignored(n, m) /\ ~Misjustified(n, m) =>
          (m \in Unjustified(n) <=> \E k \in Members : Outstanding(n, m, k))
    BY <1>2 DEF OpenExactly, Unjustified
  <1>. QED  BY <1>1, <1>4, <1>5, <1>6 DEF BadExactly, Ignored

\* or a justification that was not asked for, or is wrong.
LEMMA BadWhenJustified ==
  ASSUME TypeOK, TypeOK', EarlyBad, BadExactly, OpenMade, NEW n \in Honest, Step(n),
         ReceiveJustifications(n), NEW m \in Members
  PROVE  (m \in bad[n] <=> Ignored(n, m) \/ Misjustified(n, m) \/ Unanswered(n, m))'
  <1>1. Receives(n, JUSTIFY) /\ phase[n] = JUSTIFY
    BY DEF ReceiveJustifications, Receives
  <1>2. PICK F \in FirstOfEach(n, "justification") :
          \E D \in SUBSET Repeating(F, "justification") : JustificationsHeard(n, F, D)
    BY HearJustifications
  <1>3. PICK D : JustificationsHeard(n, F, D)
    BY <1>2
  <1>4. /\ bad'[n] = bad[n] \cup D \cup Senders((Heard(n, F) \ Asked(n, F)) \cup Wrong(n, F))
        /\ twice'[n] = twice[n] \cup D
    BY <1>3 DEF JustificationsHeard, TypeOK
  <1>5. phase'[n] > JUSTIFY /\ ~Started(n, COMMIT)'
    BY <1>1, <1>3 DEF JustificationsHeard, Ends, Started, TypeOK, JUSTIFY, COMMIT
  <1>6. ~VerifyAndComplain(n) /\ ~VerifyAndJustify(n)
    BY <1>1 DEF VerifyAndComplain, VerifyAndJustify, Starts, Receives
  <1>7. Ignored(n, m)' <=> Ignored(n, m) \/ m \in D
    BY <1>4, <1>6, ReasonsMade DEF Ignored
  <1>8. /\ m \in bad[n] <=> Ignored(n, m) \/ Misjustified(n, m)
        /\ Misjustified(n, m) => Misjustified(n, m)'
    BY <1>1, BadIgnored, MisjustifiedStays
  <1>9. /\ \A j \in F : j.from = m => j \in Justifying(n, m)'
        /\ \A j \in Justifying(n, m)' :
             j.from = m /\ (j \in F \/ m \in twice[n] \/ Misjustified(n, m))
        /\ \A j : (WasAsked(n, j)' <=> WasAsked(n, j)) /\ Proven(n, j)' = Proven(n, j)
    BY <1>1, <1>3, JustifyingThen
  <1>10. \A j \in Heard(n, F) : j \in Asked(n, F) <=> WasAsked(n, j)
    BY <1>1, AskedExactly
  <1>11. ~Unanswered(n, m)'
    BY <1>5 DEF Unanswered
  <1>12. Misjustified(n, m)' <=> \E j \in Justifying(n, m)' : ~WasAsked(n, j) \/ Proven(n, j) # j.for
    BY <1>1, <1>5, <1>9, Frame, PhaseNumbers DEF Misjustified, Receives, Started
  <1>13. ASSUME m \in Senders((Heard(n, F) \ Asked(n, F)) \cup Wrong(n, F))
         PROVE  Misjustified(n, m)'
    <2>1. PICK j \in (Heard(n, F) \ Asked(n, F)) \cup Wrong(n, F) : j.from = m
      BY <1>13 DEF Senders
    <2>2. j \in F /\ (~WasAsked(n, j) \/ Proven(n, j) # j.for)
      BY <1>10, <2>1 DEF Wrong, Asked, Heard
    <2>. QED  BY <1>9, <1>12, <2>1, <2>2
  <1>14. ASSUME Misjustified(n, m)', m \notin bad[n]
         PROVE  m \in Senders((Heard(n, F) \ Asked(n, F)) \cup Wrong(n, F))
    <2>1. PICK j \in Justifying(n, m)' : ~WasAsked(n, j) \/ Proven(n, j) # j.for
      BY <1>12, <1>14
    <2>2. m \notin twice[n] /\ ~Misjustified(n, m)
      BY <1>8, <1>14 DEF Ignored
    <2>3. j \in Heard(n, F) /\ j.from = m
      BY <1>9, <1>14, <2>1, <2>2 DEF Heard
    <2>4. j \in (Heard(n, F) \ Asked(n, F)) \cup Wrong(n, F)
      BY <1>10, <2>1, <2>3 DEF Wrong
    <2>. QED  BY <2>3, <2>4 DEF Senders
  <1>. QED  BY <1>4, <1>7, <1>8, <1>11, <1>13, <1>14

\* No other action changes what a node thinks of members.
LEMMA BadStays ==
  ASSUME TypeOK, NEW n \in Honest, Step(n), NEW k \in Honest
  PROVE  \/ bad'[k] = bad[k] /\ twice'[k] = twice[k]
         \/ /\ k = n
            /\ \/ ReceiveContributions(n) \/ VerifyAndComplain(n) \/ ReceiveComplaints(n)
               \/ VerifyAndJustify(n) \/ ReceiveJustifications(n) \/ VerifyAndCommit(n)
  <1>1. CASE k # n
    BY <1>1, Frame
  <1>2. CASE k = n
    BY <1>2 DEF Step, Abort, SendContributions, ReceiveCommitments, FinalizeCommitments, view
  <1>. QED  BY <1>1, <1>2

\* BadExactly is preserved.
LEMMA BadExactlyStep ==
  ASSUME TypeOK, TypeOK', OpenMade, JudgeInv, NEW n \in Honest, Step(n)
  PROVE  BadExactly'
  <1> SUFFICES ASSUME NEW k \in Honest, NEW m \in Members
               PROVE  (m \in bad[k] <=> Ignored(k, m) \/ Misjustified(k, m) \/ Unanswered(k, m))'
    BY DEF BadExactly
  <1>1. EarlyBad /\ BadExactly /\ OpenExactly
    BY DEF JudgeInv
  <1>2. CASE /\ k = n
             /\ \/ ReceiveContributions(n) \/ VerifyAndComplain(n) \/ ReceiveComplaints(n)
                \/ VerifyAndJustify(n) \/ ReceiveJustifications(n) \/ VerifyAndCommit(n)
    BY <1>1, <1>2, BadWhenTwice, BadWhenMissing, BadWhenVotedOut, BadWhenJustified, BadWhenOpen
  <1>3. CASE ~(/\ k = n
               /\ \/ ReceiveContributions(n) \/ VerifyAndComplain(n) \/ ReceiveComplaints(n)
                  \/ VerifyAndJustify(n) \/ ReceiveJustifications(n) \/ VerifyAndCommit(n))
    <2>1. bad'[k] = bad[k] /\ twice'[k] = twice[k]
      BY <1>3, BadStays
    <2>2. /\ NoContribution(k, m)' <=> NoContribution(k, m)
          /\ VotedOut(k, m)' <=> VotedOut(k, m)
          /\ Misjustified(k, m)' <=> Misjustified(k, m)
          /\ Unanswered(k, m)' <=> Unanswered(k, m)
      BY <1>3, ReasonsMade
    <2>. QED  BY <1>1, <2>1, <2>2 DEF BadExactly, Ignored
  <1>. QED  BY <1>2, <1>3

\* OpenExactly is made by the justifications heard,
LEMMA OpenWhenJustified ==
  ASSUME TypeOK, TypeOK', EarlyBad, BadExactly, OpenMade, NEW n \in Honest, Step(n),
         ReceiveJustifications(n), NEW m \in Members, NEW i \in Members,
         ~Ignored(n, m)', ~Misjustified(n, m)'
  PROVE  (<<m, i>> \in open[n])' <=> Outstanding(n, m, i)'
  <1>1. Receives(n, JUSTIFY) /\ phase[n] = JUSTIFY
    BY DEF ReceiveJustifications, Receives
  <1>2. PICK F \in FirstOfEach(n, "justification") :
          \E D \in SUBSET Repeating(F, "justification") : JustificationsHeard(n, F, D)
    BY HearJustifications
  <1>3. PICK D : JustificationsHeard(n, F, D)
    BY <1>2
  <1>4. ~VerifyAndComplain(n) /\ ~VerifyAndJustify(n)
    BY <1>1 DEF VerifyAndComplain, VerifyAndJustify, Starts, Receives
  <1>5. ~Ignored(n, m) /\ ~Misjustified(n, m)
    BY <1>4, ReasonsMade, TwiceGrows, MisjustifiedStays DEF Ignored
  <1>6. m \notin bad[n] /\ m \notin twice[n]
    BY <1>1, <1>5, BadIgnored DEF Ignored
  <1>7. /\ \A j \in F : j.from = m => j \in Justifying(n, m)'
        /\ \A j \in Justifying(n, m)' :
             j.from = m /\ (j \in F \/ m \in twice[n] \/ Misjustified(n, m))
        /\ \A j : (WasAsked(n, j)' <=> WasAsked(n, j)) /\ Proven(n, j)' = Proven(n, j)
        /\ Accuses(n, i, m)' <=> Accuses(n, i, m)
    BY <1>1, <1>3, JustifyingThen
  <1>8. \A j \in Heard(n, F) : j \in Asked(n, F) <=> WasAsked(n, j)
    BY <1>1, AskedExactly
  <1>9. <<m, i>> \in open[n] <=> Accuses(n, i, m)
    BY <1>1 DEF OpenMade
  <1>10. open'[n] = open[n] \ UNION {{j.from} \X Proven(n, j) : j \in Asked(n, F)}
    BY <1>3 DEF JustificationsHeard, TypeOK
  <1>11. <<m, i>> \in open'[n] <=>
           <<m, i>> \in open[n] /\ \A j \in Asked(n, F) : j.from = m => i \notin Proven(n, j)
    BY <1>10
  <1>12. Outstanding(n, m, i)' <=>
           Accuses(n, i, m) /\ \A j \in Justifying(n, m)' : WasAsked(n, j) => i \notin Proven(n, j)
    BY <1>7 DEF Outstanding
  <1>13. \A j \in Justifying(n, m)' : j \in Heard(n, F) /\ j.from = m
    BY <1>5, <1>6, <1>7 DEF Heard
  <1>14. \A j \in Asked(n, F) : j \in Heard(n, F) /\ j \in F
    BY DEF Asked, Heard
  <1>15. (\A j \in Asked(n, F) : j.from = m => i \notin Proven(n, j)) <=>
           \A j \in Justifying(n, m)' : WasAsked(n, j) => i \notin Proven(n, j)
    BY <1>7, <1>8, <1>13, <1>14
  <1>. QED  BY <1>9, <1>11, <1>12, <1>15

\* and is preserved.
LEMMA OpenExactlyStep ==
  ASSUME TypeOK, TypeOK', OpenMade, JudgeInv, NEW n \in Honest, Step(n)
  PROVE  OpenExactly'
  <1> SUFFICES ASSUME NEW k \in Honest, phase'[k] > JUSTIFY, NEW m \in Members, NEW i \in Members,
                      ~Ignored(k, m)', ~Misjustified(k, m)'
               PROVE  (<<m, i>> \in open[k])' <=> Outstanding(k, m, i)'
    BY DEF OpenExactly
  <1>1. EarlyBad /\ BadExactly /\ OpenExactly
    BY DEF JudgeInv
  <1>2. CASE phase[k] > JUSTIFY
    <2>1. /\ ~(k = n /\ ReceiveComplaints(n)) /\ ~(k = n /\ ReceiveJustifications(n))
          /\ ~(k = n /\ VerifyAndComplain(n)) /\ ~(k = n /\ VerifyAndJustify(n))
      BY <1>2 DEF ReceiveComplaints, ReceiveJustifications, VerifyAndComplain, VerifyAndJustify,
                  Starts, Receives, COMPLAIN, JUSTIFY
    <2>2. open'[k] = open[k]
      BY <2>1, OpenStays
    <2>3. ~Ignored(k, m) /\ ~Misjustified(k, m)
      BY <2>1, ReasonsMade, TwiceGrows, MisjustifiedStays DEF Ignored
    <2>4. Outstanding(k, m, i)' <=> Outstanding(k, m, i)
      BY <1>2, AnswersStay
    <2>5. <<m, i>> \in open[k] <=> Outstanding(k, m, i)
      BY <1>1, <1>2, <2>3 DEF OpenExactly
    <2>. QED  BY <2>2, <2>4, <2>5
  <1>3. CASE ~(phase[k] > JUSTIFY)
    <2>1. phase[k] \in Phases /\ phase'[k] \in Phases
      BY PhasePast DEF TypeOK
    <2>2. k = n /\ ReceiveJustifications(n)
      BY <1>3, <2>1, PhaseMoves DEF Phases, CONTRIBUTE, COMPLAIN, JUSTIFY, COMMIT, FINALIZE
    <2>. QED  BY <1>1, <2>2, OpenWhenJustified
  <1>. QED  BY <1>2, <1>3

\* JudgeInv is inductive.
LEMMA InitJudge == Init => JudgeInv
  BY PhaseNumbers DEF Init, JudgeInv, EarlyBad, BadExactly, OpenExactly, Ignored, NoContribution,
     VotedOut, Misjustified, Unanswered, Started, Senders, Of, CONTRIBUTE, COMPLAIN, JUSTIFY, COMMIT

\* JudgeInv is preserved.
LEMMA StepJudge ==
  TypeInv /\ TypeInv' /\ HonestInv /\ JudgeInv /\ [Next]_vars => JudgeInv'
  <1> SUFFICES ASSUME TypeInv, TypeInv', HonestInv, JudgeInv, [Next]_vars PROVE JudgeInv'
    OBVIOUS
  <1>1. CASE UNCHANGED vars
    <2>1. UNCHANGED <<phase, started, got, twice, bad, open>>
      BY <1>1 DEF vars, progress, view
    <2>2. \A n, m, p : /\ Started(n, p)' <=> Started(n, p)
                      /\ Contributors(n)' = Contributors(n) /\ Voters(n, m)' = Voters(n, m)
                      /\ Vvec(n, m)' = Vvec(n, m) /\ Justifying(n, m)' = Justifying(n, m)
      BY <2>1 DEF Started, Contributors, Voters, Vvec, Justifying
    <2>3. \A n, j, k, m : /\ Accuses(n, k, m)' <=> Accuses(n, k, m)
                         /\ Proven(n, j)' = Proven(n, j)
      BY <2>1, <2>2 DEF Accuses, Proven
    <2>4. \A n, j : WasAsked(n, j)' <=> WasAsked(n, j)
      BY <2>3 DEF WasAsked
    <2>5. \A n, m, k : Outstanding(n, m, k)' <=> Outstanding(n, m, k)
      BY <2>2, <2>3, <2>4 DEF Outstanding
    <2>6. \A n, m : Ignored(n, m)' <=> Ignored(n, m)
      BY <2>1, <2>2 DEF Ignored, NoContribution, VotedOut
    <2>7. \A n, m : Misjustified(n, m)' <=> Misjustified(n, m)
      BY <2>1, <2>2, <2>3, <2>4 DEF Misjustified
    <2>8. \A n, m : Unanswered(n, m)' <=> Unanswered(n, m)
      BY <2>2, <2>5 DEF Unanswered
    <2>9. EarlyBad'
      BY <2>1, <2>7 DEF JudgeInv, EarlyBad
    <2>10. BadExactly'
      BY <2>1, <2>6, <2>7, <2>8 DEF JudgeInv, BadExactly
    <2>11. OpenExactly'
      BY <2>1, <2>5, <2>6, <2>7 DEF JudgeInv, OpenExactly
    <2>. QED  BY <2>9, <2>10, <2>11 DEF JudgeInv
  <1>2. CASE Next
    <2>1. PICK n \in Honest : Step(n)
      BY <1>2, NextStep
    <2>2. TypeOK /\ TypeOK' /\ OpenMade /\ EarlyBad
      BY DEF TypeInv, HonestInv, JudgeInv
    <2>3. EarlyBad' /\ BadExactly' /\ OpenExactly'
      BY <2>1, <2>2, EarlyBadStep, BadExactlyStep, OpenExactlyStep
    <2>. QED  BY <2>3 DEF JudgeInv
  <1>. QED  BY <1>1, <1>2

\* who has started to commit, and did not stop, has committed if enough members are valid
Committed ==
  \A n \in Honest \ died :
    Started(n, COMMIT) /\ Cardinality(Members \ (bad[n] \cup Unjustified(n))) >= MinSize =>
      Commitment(n) \in sent

\* commitments are processed at once, those that fit are valid
ValidAccepted ==
  \A n \in Honest :
    /\ phase[n] # FINALIZE => Of(got[n], "commitment") = {}
    /\ phase[n] = FINALIZE => valid[n] = {c \in Of(got[n], "commitment") : Accepts(n, c)}

\* a key that has no other for its valid members becomes final if it can
FinalMade ==
  \A n \in Honest : Started(n, FINALIZE) =>
    \A k \in {c.key : c \in valid[n]} :
      (\A c \in valid[n] : DOMAIN c.key = DOMAIN k => c.key = k) /\ IsFinal(n, k) =>
        [by |-> n, key |-> k, signers |-> Senders({c \in valid[n] : c.key = k})] \in final

SuccessInv == Committed /\ ValidAccepted /\ FinalMade

\* A judgement is made when a node commits, and stands.
LEMMA JudgementStands ==
  ASSUME TypeOK, TypeOK', NEW n \in Honest, Step(n), NEW k \in Honest, Started(k, COMMIT)'
  PROVE  /\ (bad[k] \cup Unjustified(k))' = bad[k] \cup Unjustified(k)
         /\ Commitment(k)' = Commitment(k)
  <1>1. phase'[k] > JUSTIFY
    BY PhasePast, PhaseNumbers DEF Started, Phases, TypeOK
  <1>2. CASE Started(k, COMMIT)
    <2>1. phase[k] > JUSTIFY /\ phase[k] > CONTRIBUTE
      BY <1>2, PhasePast, PhaseNumbers DEF Phases
    <2>2. /\ ~(k = n /\ ReceiveContributions(n)) /\ ~(k = n /\ VerifyAndComplain(n))
          /\ ~(k = n /\ ReceiveComplaints(n)) /\ ~(k = n /\ VerifyAndJustify(n))
          /\ ~(k = n /\ ReceiveJustifications(n))
      BY <2>1 DEF ReceiveContributions, ReceiveComplaints, ReceiveJustifications, VerifyAndComplain,
                  VerifyAndJustify, Starts, Receives, CONTRIBUTE, COMPLAIN, JUSTIFY
    <2>3. ~(k = n /\ VerifyAndCommit(n))
      BY <1>2, StartsOnce DEF VerifyAndCommit
    <2>4. bad'[k] = bad[k] /\ open'[k] = open[k]
      BY <2>2, <2>3, BadStays, OpenStays
    <2>5. Unjustified(k)' = Unjustified(k)
      BY <2>4 DEF Unjustified
    <2>6. \A m : Vvec(k, m)' = Vvec(k, m)
      BY <2>1, ContributionsStay
    <2>. QED  BY <2>4, <2>5, <2>6 DEF Commitment
  <1>3. CASE ~Started(k, COMMIT)
    <2>1. k = n /\ VerifyAndCommit(n) /\ Starts(n, COMMIT)
      BY <1>3, StartedBy, PhaseNumbers
    <2>2. bad'[n] = bad[n] \cup Unjustified(n) /\ open' = open
      BY <2>1, Commit DEF TypeOK
    <2>3. Unjustified(n)' = Unjustified(n)
      BY <2>2 DEF Unjustified
    <2>4. \A m : Vvec(n, m)' = Vvec(n, m)
      BY <2>1, ContributionsStay DEF Starts, CONTRIBUTE, COMMIT
    <2>5. (bad[n] \cup Unjustified(n))' = bad[n] \cup Unjustified(n)
      BY <2>2, <2>3
    <2>. QED  BY <2>1, <2>4, <2>5 DEF Commitment
  <1>. QED  BY <1>2, <1>3

\* Committed is preserved.
LEMMA CommittedStep ==
  ASSUME TypeOK, TypeOK', Committed, NEW n \in Honest, Step(n)
  PROVE  Committed'
  <1> SUFFICES ASSUME NEW k \in Honest, k \notin died', Started(k, COMMIT)',
                      Cardinality(Members \ (bad[k] \cup Unjustified(k))') >= MinSize
               PROVE  Commitment(k)' \in sent'
    BY DEF Committed
  <1>1. /\ Cardinality(Members \ (bad[k] \cup Unjustified(k))) >= MinSize
        /\ Commitment(k)' = Commitment(k) /\ k \notin died
    BY JudgementStands, DeadStay
  <1>2. CASE Started(k, COMMIT)
    BY <1>1, <1>2, Frame DEF Committed
  <1>3. CASE ~Started(k, COMMIT)
    <2>1. k = n /\ VerifyAndCommit(n)
      BY <1>3, StartedBy, PhaseNumbers
    <2>2. Cardinality(Members \ (bad[n] \cup Unjustified(n))) >= MinSize /\ n \notin died'
      BY <1>1, <2>1
    <2>3. sent' = sent \cup {Commitment(n)}
      <3> DEFINE V == Members \ (bad[n] \cup Unjustified(n))
      <3>1. Cardinality(V) \in Nat
        BY MembersFinite, FS_CardinalityType
      <3>2. ~(Cardinality(V) < MinSize)
        BY <2>2, <3>1, MembersAssumption
      <3>. QED  BY <2>1, <2>2, <3>2 DEF VerifyAndCommit, Commitment
    <2>. QED  BY <1>1, <2>1, <2>3
  <1>. QED  BY <1>2, <1>3

\* In the last phase commitments are not processed any more.
LEMMA CommitmentsStay ==
  ASSUME TypeOK, TypeOK', NEW n \in Honest, Step(n), NEW k \in Honest, phase[k] = FINALIZE
  PROVE  /\ phase'[k] = FINALIZE /\ valid'[k] = valid[k]
         /\ Of(got[k], "commitment")' = Of(got[k], "commitment")
         /\ \A c : Accepts(k, c)' <=> Accepts(k, c)
  <1>1. CASE k # n
    BY <1>1, Frame, ContributionsStay DEF Of, Accepts, FINALIZE, CONTRIBUTE
  <1>2. CASE k = n
    <2>1. Abort(n) \/ FinalizeCommitments(n)
      BY <1>2 DEF Step, SendContributions, ReceiveContributions, VerifyAndComplain, ReceiveComplaints,
         VerifyAndJustify, ReceiveJustifications, VerifyAndCommit, ReceiveCommitments, Starts, Receives,
         CONTRIBUTE, COMPLAIN, JUSTIFY, COMMIT, FINALIZE
    <2>2. phase' = phase /\ got' = got /\ valid' = valid
      BY <2>1 DEF Abort, FinalizeCommitments, Starts, view
    <2>. QED  BY <1>2, <2>2, ContributionsStay DEF Of, Accepts, FINALIZE, CONTRIBUTE
  <1>. QED  BY <1>1, <1>2

\* ValidAccepted is preserved.
LEMMA ValidAcceptedStep ==
  ASSUME TypeOK, TypeOK', ValidAccepted, NEW n \in Honest, Step(n)
  PROVE  ValidAccepted'
  <1> SUFFICES ASSUME NEW k \in Honest
               PROVE  /\ phase'[k] # FINALIZE => Of(got[k], "commitment")' = {}
                      /\ phase'[k] = FINALIZE =>
                           valid'[k] = {c \in Of(got[k], "commitment") : Accepts(k, c)}'
    BY DEF ValidAccepted
  <1>1. CASE phase[k] = FINALIZE
    BY <1>1, CommitmentsStay DEF ValidAccepted
  <1>2. CASE phase[k] # FINALIZE /\ k = n /\ ReceiveCommitments(n)
    <2>1. PICK F \in SUBSET Available("commitment") : CommitmentsHeard(n, F)
      BY <1>2, HearCommitments
    <2>2. phase[n] = COMMIT /\ phase'[n] = FINALIZE
      BY <1>2, <2>1 DEF ReceiveCommitments, Receives, CommitmentsHeard, Ends, TypeOK, COMMIT, FINALIZE
    <2>3. \A c \in F : c.kind = "commitment"
      BY AvailableType
    <2>4. Of(got[n], "commitment") = {}
      BY <1>2 DEF ValidAccepted
    <2>5. got'[n] = got[n] \cup F /\ valid'[n] = {c \in F : Accepts(n, c)}
      BY <2>1 DEF CommitmentsHeard, TypeOK
    <2>6. Of(got[n], "commitment")' = F
      BY <2>3, <2>4, <2>5 DEF Of
    <2>7. \A c : Accepts(n, c)' <=> Accepts(n, c)
      BY <2>2, ContributionsStay DEF Accepts, CONTRIBUTE, COMMIT
    <2>. QED  BY <1>2, <2>2, <2>5, <2>6, <2>7
  <1>3. CASE phase[k] # FINALIZE /\ ~(k = n /\ ReceiveCommitments(n))
    <2>1. phase'[k] # FINALIZE
      BY <1>3, PhaseMoves DEF COMPLAIN, JUSTIFY, COMMIT, FINALIZE
    <2>2. ASSUME NEW c \in Of(got[k], "commitment")' PROVE FALSE
      <3>1. c \in got'[k] /\ c \notin got[k] /\ c.kind = "commitment"
        BY <1>3, <2>2 DEF ValidAccepted, Of
      <3>2. k = n /\ phase[n] = COMMIT
        BY <3>1, Frame, Processed
      <3>3. Abort(n) \/ VerifyAndCommit(n)
        BY <1>3, <3>2 DEF Step, SendContributions, ReceiveContributions, VerifyAndComplain,
           ReceiveComplaints, VerifyAndJustify, ReceiveJustifications, FinalizeCommitments, Starts,
           Receives, CONTRIBUTE, COMPLAIN, JUSTIFY, COMMIT, FINALIZE
      <3>. QED  BY <3>1, <3>2, <3>3, Commit DEF Abort, view
    <2>. QED  BY <2>1, <2>2
  <1>. QED  BY <1>1, <1>2, <1>3

\* FinalMade is preserved.
LEMMA FinalMadeStep ==
  ASSUME TypeOK, TypeOK', FinalMade, NEW n \in Honest, Step(n)
  PROVE  FinalMade'
  <1> DEFINE Record(i, k, V) == [by |-> i, key |-> k, signers |-> Senders({c \in V : c.key = k})]
  <1> SUFFICES ASSUME NEW i \in Honest, Started(i, FINALIZE)', NEW k \in {c.key : c \in valid'[i]},
                      \A c \in valid'[i] : DOMAIN c.key = DOMAIN k => c.key = k, IsFinal(i, k)'
               PROVE  Record(i, k, valid'[i]) \in final'
    BY DEF FinalMade
  <1>1. CASE Started(i, FINALIZE)
    <2>1. phase[i] = FINALIZE
      BY <1>1, PhasePast DEF Started, Phases, FINALIZE
    <2>2. valid'[i] = valid[i]
      BY <2>1, CommitmentsStay
    <2>3. IsFinal(i, k)
      BY <2>2 DEF IsFinal
    <2>4. Record(i, k, valid[i]) \in final
      BY <1>1, <2>2, <2>3 DEF FinalMade
    <2>. QED  BY <2>2, <2>4, DeadStay
  <1>2. CASE ~Started(i, FINALIZE)
    <2>1. i = n /\ Starts(n, FINALIZE)
      BY <1>2, StartedBy, PhaseNumbers
    <2>2. FinalizeCommitments(n)
      BY <2>1 DEF Step, Abort, SendContributions, ReceiveContributions, VerifyAndComplain,
         ReceiveComplaints, VerifyAndJustify, ReceiveJustifications, VerifyAndCommit,
         ReceiveCommitments, Starts, Receives, Ends, TypeOK, CONTRIBUTE, COMPLAIN, JUSTIFY, COMMIT, FINALIZE
    <2>3. valid' = valid
      BY <2>2 DEF FinalizeCommitments, view
    <2>4. IsFinal(n, k)
      BY <2>1, <2>3 DEF IsFinal
    <2>5. PICK K \in SUBSET {c.key : c \in valid[n]} :
            /\ \A j \in {c.key : c \in valid[n]} : \E l \in K : DOMAIN l = DOMAIN j
            /\ final' = final \cup {Record(n, l, valid[n]) : l \in {j \in K : IsFinal(n, j)}}
      BY <2>2 DEF FinalizeCommitments
    <2>6. k \in K
      BY <2>1, <2>3, <2>5
    <2>. QED  BY <2>1, <2>3, <2>4, <2>5, <2>6
  <1>. QED  BY <1>1, <1>2

\* SuccessInv is inductive.
LEMMA InitSuccess == Init => SuccessInv
  BY DEF Init, SuccessInv, Committed, ValidAccepted, FinalMade, Started, Of, CONTRIBUTE, COMMIT, FINALIZE

\* SuccessInv is preserved.
LEMMA StepSuccess == TypeInv /\ TypeInv' /\ SuccessInv /\ [Next]_vars => SuccessInv'
  <1> SUFFICES ASSUME TypeInv, TypeInv', SuccessInv, [Next]_vars PROVE SuccessInv'
    OBVIOUS
  <1>1. CASE UNCHANGED vars
    <2>1. UNCHANGED <<phase, started, died, sent, got, bad, open, valid, final>>
      BY <1>1 DEF vars, progress, view
    <2>2. \A n, p : Started(n, p)' <=> Started(n, p)
      BY <2>1 DEF Started
    <2>3. \A n, m : Vvec(n, m)' = Vvec(n, m) /\ Unjustified(n)' = Unjustified(n)
      BY <2>1 DEF Vvec, Unjustified
    <2>4. ASSUME NEW n PROVE Commitment(n)' = Commitment(n)
      <3>1. bad'[n] = bad[n] /\ Unjustified(n)' = Unjustified(n) /\ \A m : Vvec(n, m)' = Vvec(n, m)
        BY <2>1, <2>3
      <3>. QED  BY <3>1 DEF Commitment
    <2>5. Committed'
      BY <2>1, <2>2, <2>3, <2>4 DEF SuccessInv, Committed
    <2>6. \A n, c : Accepts(n, c)' <=> Accepts(n, c)
      BY <2>1, <2>3 DEF Accepts, Contributors
    <2>7. ValidAccepted'
      BY <2>1, <2>6 DEF SuccessInv, ValidAccepted
    <2>8. \A n, k : IsFinal(n, k)' <=> IsFinal(n, k)
      BY <2>1 DEF IsFinal
    <2>9. FinalMade'
      BY <2>1, <2>2, <2>8 DEF SuccessInv, FinalMade
    <2>. QED  BY <2>5, <2>7, <2>9 DEF SuccessInv
  <1>2. CASE Next
    <2>1. PICK n \in Honest : Step(n)
      BY <1>2, NextStep
    <2>. QED  BY <2>1, CommittedStep, ValidAcceptedStep, FinalMadeStep DEF TypeInv, SuccessInv
  <1>. QED  BY <1>1, <1>2

-----------------------------------------------------------------------------

\* the honest members alone are enough for a key
HonestSuffice == Cardinality(Honest) >= MinSize

\* When a node finalizes, every honest member has committed, and it has these commitments.
LEMMA AllHaveCommitted ==
  ASSUME TypeOK, InTime, NEW n \in Honest, Started(n, FINALIZE), NEW k \in Honest
  PROVE  /\ phase[n] = FINALIZE /\ Started(k, COMMIT) /\ phase[k] > JUSTIFY
         /\ \A c \in sent : c.kind = "commitment" => c \in got[n]
  <1>1. phase[n] = FINALIZE
    BY PhasePast DEF Started, Phases, FINALIZE
  <1>2. Progress(k) >= 2 * phase[n] - 1
    BY DEF InTime
  <1>3. phase[k] \in 2 .. 6 /\ started[k] \in BOOLEAN
    BY DEF TypeOK, Phases, CONTRIBUTE, FINALIZE
  <1>4. phase[k] > 5 \/ (phase[k] = 5 /\ started[k])
    BY <1>1, <1>2, <1>3 DEF Progress, FINALIZE
  <1>5. Started(k, COMMIT) /\ phase[k] > JUSTIFY
    BY <1>3, <1>4 DEF Started, COMMIT, JUSTIFY
  <1>6. \A c \in sent : c.kind = "commitment" => c \in got[n]
    BY <1>1 DEF InTime, COMMIT, FINALIZE
  <1>. QED  BY <1>1, <1>5, <1>6

\* Complaints that are still open when a node commits are about members it finds bad.
LEMMA OpenAreBad ==
  ASSUME TypeOK, JudgeInv, NEW k \in Honest, Started(k, COMMIT)
  PROVE  Unjustified(k) \subseteq bad[k]
  <1> SUFFICES ASSUME NEW m \in Members, NEW i \in Members, <<m, i>> \in open[k]
               PROVE  m \in bad[k]
    BY DEF Unjustified
  <1>1. Ignored(k, m) \/ Misjustified(k, m) \/ Outstanding(k, m, i)
    BY PhasePast DEF JudgeInv, OpenExactly
  <1>2. Ignored(k, m) \/ Misjustified(k, m) \/ Unanswered(k, m)
    BY <1>1 DEF Unanswered
  <1>. QED  BY <1>2 DEF JudgeInv, BadExactly

\* Members that have processed the same come to the same judgement, and have the same vvecs.
LEMMA JudgedAlike ==
  ASSUME TypeOK, JudgeInv, ComplaintsAlike, ViewsAlike,
         NEW n \in Honest, NEW k \in Honest, Started(n, COMMIT), Started(k, COMMIT)
  PROVE  bad[n] = bad[k] /\ \A m : Vvec(n, m) = Vvec(k, m)
  <1>1. /\ twice[n] = twice[k]
        /\ Of(got[n], "contribution") = Of(got[k], "contribution")
        /\ Of(got[n], "justification") = Of(got[k], "justification")
    BY DEF ViewsAlike
  <1>2. Of(got[n], "complaint") = Of(got[k], "complaint")
    BY PhasePast DEF ComplaintsAlike, Past
  <1>3. /\ Started(n, COMPLAIN) /\ Started(n, JUSTIFY) /\ phase[n] > JUSTIFY
        /\ Started(k, COMPLAIN) /\ Started(k, JUSTIFY) /\ phase[k] > JUSTIFY
    BY DEF Started, TypeOK, Phases, CONTRIBUTE, COMPLAIN, JUSTIFY, COMMIT, FINALIZE
  <1>4. \A m : /\ Vvec(n, m) = Vvec(k, m) /\ Voters(n, m) = Voters(k, m)
               /\ Justifying(n, m) = Justifying(k, m)
    BY <1>1, <1>2 DEF Vvec, Voters, Justifying
  <1>5. Contributors(n) = Contributors(k)
    BY <1>1 DEF Contributors
  <1>6. \A i, m : Accuses(n, i, m) <=> Accuses(k, i, m)
    BY <1>2 DEF Accuses
  <1>7. \A j : WasAsked(n, j) <=> WasAsked(k, j)
    BY <1>6 DEF WasAsked
  <1>8. \A j : Proven(n, j) = Proven(k, j)
    BY <1>4 DEF Proven
  <1>9. \A m : Ignored(n, m) <=> Ignored(k, m)
    BY <1>1, <1>3, <1>4, <1>5 DEF Ignored, NoContribution, VotedOut
  <1>10. \A m : Misjustified(n, m) <=> Misjustified(k, m)
    BY <1>3, <1>4, <1>7, <1>8 DEF Misjustified
  <1>11. \A m, i : Outstanding(n, m, i) <=> Outstanding(k, m, i)
    BY <1>4, <1>6, <1>7, <1>8 DEF Outstanding
  <1>12. \A m : Unanswered(n, m) <=> Unanswered(k, m)
    BY <1>11 DEF Unanswered
  <1>13. \A m \in Members : m \in bad[n] <=> m \in bad[k]
    BY <1>9, <1>10, <1>12 DEF JudgeInv, BadExactly
  <1>14. bad[n] \subseteq Members /\ bad[k] \subseteq Members
    BY DEF TypeOK
  <1>. QED  BY <1>4, <1>13, <1>14

\* Then all honest members have committed to one key, with all of them, and the commitments to
\* its members that are valid for a node are to this key.
LEMMA OneKeyForAll ==
  ASSUME FewFaulty, HonestSuffice, TypeInv, KeyInv, HonestInv, JudgeInv, SuccessInv,
         InTime, ComplaintsAlike, NoneIgnored, ViewsAlike, died = {},
         NEW n \in Honest, Started(n, FINALIZE)
  PROVE  LET key == Commitment(n).key
         IN  /\ Honest \subseteq DOMAIN key
             /\ \A k \in Honest : \E c \in valid[n] : c.from = k /\ c.key = key
             /\ \A c \in valid[n] : DOMAIN c.key = DOMAIN key => c.key = key /\ c.ok
  <1> DEFINE key == Commitment(n).key
             V == Members \ bad[n]
  <1>0. TypeOK
    BY DEF TypeInv
  <1>1. /\ phase[n] = FINALIZE
        /\ \A k \in Honest : Started(k, COMMIT) /\ phase[k] > JUSTIFY
        /\ \A c \in sent : c.kind = "commitment" => c \in got[n]
    BY <1>0, AllHaveCommitted
  <1>2. \A k \in Honest : Unjustified(k) \subseteq bad[k]
    BY <1>0, <1>1, OpenAreBad
  <1>3. \A k \in Honest : bad[n] = bad[k] /\ \A m : Vvec(n, m) = Vvec(k, m)
    BY <1>0, <1>1, JudgedAlike
  <1>4. \A k \in Honest : bad[k] \cup Unjustified(k) = bad[n]
    BY <1>2, <1>3
  <1>5. ASSUME NEW k \in Honest
        PROVE  Commitment(k) = [kind |-> "commitment", from |-> k, key |-> [m \in V |-> Vvec(n, m)],
                                ok |-> TRUE]
    <2>1. bad[k] \cup Unjustified(k) = bad[n] /\ \A m : Vvec(k, m) = Vvec(n, m)
      BY <1>3, <1>4
    <2>. QED  BY <2>1 DEF Commitment
  <1>6. key = [m \in V |-> Vvec(n, m)] /\ DOMAIN key = V
    BY <1>5
  <1>7. Honest \subseteq V
    BY <1>0, NoReasonAgainstHonest DEF HonestStayValid, Members
  <1>8. Cardinality(V) >= MinSize
    <2>1. /\ Cardinality(Honest) <= Cardinality(V)
          /\ Cardinality(V) \in Nat /\ Cardinality(Honest) \in Nat
      BY <1>7, MembersFinite, FS_Subset, FS_CardinalityType, MembersAssumption
    <2>. QED  BY <2>1, MembersAssumption DEF HonestSuffice
  <1> HIDE DEF key
  <1>9. V \subseteq Contributors(n)
    BY <1>1 DEF TypeInv, BadWithout, Started, FINALIZE, COMPLAIN
  <1>10. valid[n] = {c \in Of(got[n], "commitment") : Accepts(n, c)}
    BY <1>1 DEF SuccessInv, ValidAccepted
  <1>11. ASSUME NEW k \in Honest PROVE \E c \in valid[n] : c.from = k /\ c.key = key
    <2> DEFINE c == Commitment(k)
    <2>1. c.kind = "commitment" /\ c.from = k /\ c.key = key /\ c.ok
      BY <1>5, <1>6
    <2>2. c \in sent
      <3>1. Cardinality(Members \ (bad[k] \cup Unjustified(k))) >= MinSize
        BY <1>4, <1>8
      <3>. QED  BY <1>1, <3>1 DEF SuccessInv, Committed
    <2> HIDE DEF c
    <2>3. c \in Of(got[n], "commitment")
      BY <1>1, <2>1, <2>2 DEF Of
    <2>4. Accepts(n, c)
      BY <1>6, <2>1 DEF Accepts
    <2>. QED  BY <1>10, <2>1, <2>3, <2>4
  <1>12. ASSUME NEW c \in valid[n], DOMAIN c.key = DOMAIN key PROVE c.key = key /\ c.ok
    <2>1. Accepts(n, c) /\ DOMAIN c.key = V
      BY <1>6, <1>10, <1>12
    <2>2. c.ok /\ c.key = [m \in V |-> Vvec(n, m)]
      BY <1>9, <2>1 DEF Accepts
    <2>. QED  BY <1>6, <2>2
  <1>. QED  BY <1>6, <1>7, <1>11, <1>12 DEF key

\* The invariants imply the property.
LEMMA SuccessFollows ==
  FewFaulty /\ HonestSuffice /\ TypeInv /\ KeyInv /\ HonestInv /\ JudgeInv /\ SuccessInv => Succeeds
  <1> SUFFICES ASSUME FewFaulty, HonestSuffice, TypeInv, KeyInv, HonestInv, JudgeInv, SuccessInv,
                      InTime, ComplaintsAlike, NoneIgnored, ViewsAlike, died = {},
                      NEW n \in Honest, phase[n] = FINALIZE, started[n]
               PROVE  \E f \in final :
                        f.by = n /\ Honest \subseteq f.signers /\ Honest \subseteq DOMAIN f.key
    BY DEF Succeeds
  <1>1. Started(n, FINALIZE)
    BY DEF Started
  <1>2. PICK key : /\ Honest \subseteq DOMAIN key
                   /\ \A k \in Honest : \E c \in valid[n] : c.from = k /\ c.key = key
                   /\ \A c \in valid[n] : DOMAIN c.key = DOMAIN key => c.key = key /\ c.ok
    BY <1>1, OneKeyForAll
  <1> DEFINE group == {c \in valid[n] : c.key = key}
             same == {c \in valid[n] : DOMAIN c.key = DOMAIN key}
             f == [k \in Honest |-> CHOOSE c \in same : c.from = k]
  <1>3. Honest \subseteq Senders(group)
    BY <1>2 DEF Senders
  <1>4. \A k \in Honest : \E c \in same : c.from = k
    BY <1>2
  <1>5. IsFiniteSet(same) /\ IsFiniteSet(Senders(group))
    <2>1. TypeOK /\ Finite /\ ValidSent
      BY DEF TypeInv, KeyInv
    <2>2. valid[n] \subseteq sent \cup Lies
      BY <2>1, AvailableType DEF ValidSent
    <2>3. IsFiniteSet(valid[n])
      BY <2>1, <2>2, LiesAssumption, FS_Union, FS_Subset DEF Finite
    <2>4. valid[n] \subseteq Messages
      BY <2>1 DEF TypeOK, Messages
    <2>5. Senders(group) \subseteq Members
      BY <2>4, SendersType
    <2>. QED  BY <2>3, <2>5, FS_Subset, MembersFinite
  <1>6. f \in Injection(Honest, same)
    <2>1. \A k \in Honest : f[k] \in same /\ f[k].from = k
      BY <1>4
    <2>2. f \in [Honest -> same]
      BY <2>1
    <2> HIDE DEF f, same
    <2>. QED  BY <2>1, <2>2 DEF Injection, IsInjective
  <1>7. Cardinality(same) >= MinSize /\ Cardinality(Senders(group)) >= MinSize
    <2> HIDE DEF same, group, f
    <2>1. Cardinality(Honest) <= Cardinality(same)
      BY <1>5, <1>6, FS_Injection
    <2>2. Cardinality(Honest) <= Cardinality(Senders(group))
      BY <1>3, <1>5, FS_Subset
    <2>3. /\ Cardinality(Honest) \in Nat /\ Cardinality(same) \in Nat
          /\ Cardinality(Senders(group)) \in Nat
      BY <1>5, MembersAssumption, FS_CardinalityType
    <2>. QED  BY <2>1, <2>2, <2>3, MembersAssumption DEF HonestSuffice
  <1>8. IsFinal(n, key)
    <2>1. \A c \in {c \in same : c.key = key} : c.ok
      BY <1>2
    <2>2. {c \in same : c.key = key} = group
      OBVIOUS
    <2>. QED  BY <1>7, <2>1, <2>2 DEF IsFinal
  <1>9. [by |-> n, key |-> key, signers |-> Senders(group)] \in final
    <2>1. \E k : k \in Honest
      OBVIOUS
    <2>2. key \in {c.key : c \in valid[n]}
      BY <1>2, <2>1
    <2>. QED  BY <1>1, <1>2, <1>8, <2>2 DEF SuccessInv, FinalMade
  <1>. QED  BY <1>2, <1>3, <1>9

\* Succeeds of any session with fewer faulty members than dkgBadVotesThreshold and at least
\* MinSize honest ones, in which nobody objects to the connection of an honest one: if messages
\* of honest members are in time, and those of faulty ones are processed alike, the session ends
\* with a final commitment that all honest members sign.
THEOREM SessionSucceeds ==
  FewFaulty /\ ConnectionsKept /\ HonestSuffice => (Spec => []Succeeds)
  <1> SUFFICES ASSUME FewFaulty, ConnectionsKept, HonestSuffice PROVE Spec => []Succeeds
    OBVIOUS
  <1>1. TypeInv /\ TypeInv' /\ KeyInv /\ HonestInv /\ [Next]_vars => HonestInv'
    BY StepHonest
  <1>2. Spec => [](TypeInv /\ KeyInv /\ HonestInv /\ JudgeInv /\ SuccessInv)
    BY <1>1, InitType, InitKey, InitHonest, InitJudge, InitSuccess,
       StepType, StepKey, StepJudge, StepSuccess, PTL DEF Spec
  <1>3. TypeInv /\ KeyInv /\ HonestInv /\ JudgeInv /\ SuccessInv => Succeeds
    BY SuccessFollows
  <1>. QED  BY <1>2, <1>3, PTL
=============================================================================
